------------------------- MODULE SqlAllocProofs -------------------------
(***************************************************************************)
(* Proofs about the SQL allocator: the type invariant, that no two        *)
(* processes print the same (tick, seq), that IDs are handed out in       *)
(* increasing order, and that the row implements LogicalClock, for any    *)
(* number of processes, width, retry bound and allocations per process.   *)
(***************************************************************************)
EXTENDS SqlAlloc, TLAPS

\* (tick, seq) pairs ordered lexicographically, non-strictly.
AtMost(x, y) == x[1] < y[1] \/ (x[1] = y[1] /\ x[2] <= y[2])

\* The strict order, the one the row moves along.
Above(y, x) == x[1] < y[1] \/ (x[1] = y[1] /\ x[2] < y[2])

\* sql_allocate_next_wid commits IDs in increasing order: an ID a committed
\* compare-and-swap hands out is strictly above every ID handed out before
\* it, by the same process or another.  So the lines one `wid next --count
\* N` prints increase, and all processes' lines merged in commit order are
\* sorted.
IssuedInOrder ==
    [][\A a \in printed' \ printed : \A b \in printed : Above(a.id, b.id)]_vars

Busy == {"ensure", "load", "cas"}

\* The inductive invariant.  Every ID printed so far is at or below the row;
\* a process that is still allocating has an allocation and an attempt left;
\* the row exists once a process has passed sql_ensure_state.
IInv ==
    /\ TypeOK
    /\ UniqueIds
    /\ \A a \in printed : row /= Absent /\ AtMost(a.id, row)
    /\ \A p \in Procs : pc[p] \in Busy => made[p] < Count
    /\ \A p \in Procs : pc[p] \in {"load", "cas"} => attempt[p] < MaxAttempts
    /\ \A p \in Procs : pc[p] \in {"load", "cas"} => row /= Absent

-----------------------------------------------------------------------------
\* The two orders on integer pairs: transitivity, and a pair strictly above
\* another is a different pair.
LEMMA OrderFacts ==
    ASSUME NEW x \in Int \X Int, NEW y \in Int \X Int, NEW z \in Int \X Int
    PROVE  /\ AtMost(x, y) /\ AtMost(y, z) => AtMost(x, z)
           /\ AtMost(x, y) /\ Above(z, y) => Above(z, x)
           /\ Above(z, x) => z /= x /\ AtMost(x, z)
BY DEF AtMost, Above

\* wid_gen_next on a pair of the generator's type returns a pair that
\* fits W digits and is strictly above the one it started from.
LEMMA NextStampAbove ==
    ASSUME NEW lt \in Nat, NEW ls \in -1..Gen!MaxSeq, NEW now \in Nat
    PROVE  /\ Gen!NextStamp(lt, ls, now) \in Nat \X (0..Gen!MaxSeq)
           /\ Above(Gen!NextStamp(lt, ls, now), <<lt, ls>>)
<1>1. Gen!MaxSeq \in Nat
  BY GenAssumption
<1>2. CASE now > lt
  BY <1>1, <1>2 DEF Gen!NextStamp, Above
<1>3. CASE now <= lt
  BY <1>1, <1>3 DEF Gen!NextStamp, Above
<1>4. QED
  BY <1>2, <1>3

\* The row a step leaves is at or above the row before it.
LEMMA RowOnlyRises ==
    ASSUME IInv, [Next]_vars
    PROVE  /\ row /= Absent => row' /= Absent
           /\ row /= Absent => AtMost(row, row')
           /\ row' \in {Absent} \cup Stamp
<1> USE GenAssumption DEF Stamp, Absent
<1> SUFFICES ASSUME NEW p \in Procs,
                    \/ Ensure(p) \/ EnsureFail(p) \/ Load(p) \/ LoadFail(p)
                    \/ \E now \in 0..MaxClock : Cas(p, now) \/ CasFail(p, now)
             PROVE  /\ row /= Absent => row' /= Absent
                    /\ row /= Absent => AtMost(row, row')
                    /\ row' \in {Absent} \cup Stamp
  BY DEF Next, vars, IInv, TypeOK, AtMost
<1>1. CASE Ensure(p) \/ EnsureFail(p)
  BY <1>1 DEF Ensure, EnsureFail, Ensured, IInv, TypeOK, AtMost, Stamp, Absent
<1>2. CASE Load(p) \/ LoadFail(p)
  BY <1>2 DEF Load, LoadFail, IInv, TypeOK, AtMost
<1>3. CASE \E now \in 0..MaxClock : Cas(p, now) \/ CasFail(p, now)
  <2>1. PICK now \in 0..MaxClock : Cas(p, now) \/ CasFail(p, now)
    BY <1>3
  <2> DEFINE new == Gen!NextStamp(snap[p][1], snap[p][2], now)
  <2>2. snap[p] \in Stamp /\ pc[p] = "cas" /\ row /= Absent
    BY <2>1 DEF IInv, TypeOK, Cas, CasFail
  <2>3. new \in Nat \X (0..Gen!MaxSeq) /\ Above(new, snap[p])
    BY <2>2, NextStampAbove DEF Stamp
  <2>4. row' \in {row, IF CasMatches(row, snap[p]) THEN new ELSE row}
    BY <2>1 DEF Cas, CasFail
  <2>5. row \in Stamp
    BY <2>2 DEF IInv, TypeOK
  <2>6. CASE CasMatches(row, snap[p])
    <3>1. row' \in {row, new}
      BY <2>4, <2>6
    <3>2. AtMost(row, new) /\ new \in Stamp
      BY <2>3, <2>5, <2>6, OrderFacts DEF CasMatches
    <3>3. AtMost(row, row)
      BY <2>5 DEF AtMost
    <3>4. QED
      BY <2>5, <3>1, <3>2, <3>3
  <2>7. CASE ~CasMatches(row, snap[p])
    <3>1. row' = row
      BY <2>4, <2>7
    <3>2. QED
      BY <2>5, <3>1 DEF AtMost
  <2>8. QED
    BY <2>6, <2>7
<1>4. QED
  BY <1>1, <1>2, <1>3

\* Every step keeps the inductive invariant.
LEMMA IInvStep ==
    ASSUME IInv, [Next]_vars
    PROVE  IInv'
<1> USE GenAssumption, AllocAssumption DEF Stamp, Absent, PC, Busy
<1>0. /\ row /= Absent => row' /= Absent
      /\ row /= Absent => AtMost(row, row')
      /\ row' \in {Absent} \cup Stamp
  BY RowOnlyRises
<1>1. CASE UNCHANGED vars
  BY <1>1 DEF vars, IInv, TypeOK, UniqueIds
<1> SUFFICES ASSUME NEW p \in Procs,
                    \/ Ensure(p) \/ EnsureFail(p) \/ Load(p) \/ LoadFail(p)
                    \/ \E now \in 0..MaxClock : Cas(p, now) \/ CasFail(p, now)
             PROVE  IInv'
  BY <1>1 DEF Next
\* Every ID printed before the step is still at or below the row.
<1>2. \A a \in printed : row' /= Absent /\ AtMost(a.id, row')
  <2>1. SUFFICES ASSUME NEW a \in printed
                 PROVE  row' /= Absent /\ AtMost(a.id, row')
    OBVIOUS
  <2>2. row /= Absent /\ AtMost(a.id, row) /\ a.id \in Stamp
    BY DEF IInv, TypeOK
  <2>3. row \in Stamp /\ row' \in Stamp
    BY <1>0, <2>2 DEF IInv, TypeOK
  <2>4. QED
    BY <1>0, <2>2, <2>3, OrderFacts
<1>3. CASE Ensure(p)
  BY <1>0, <1>2, <1>3 DEF Ensure, Ensured, IInv, TypeOK, UniqueIds, Busy, Absent
<1>4. CASE EnsureFail(p)
  BY <1>0, <1>2, <1>4 DEF EnsureFail, IInv, TypeOK, UniqueIds, Busy
<1>5. CASE Load(p)
  BY <1>5 DEF Load, IInv, TypeOK, UniqueIds, Busy, Stamp
<1>6. CASE LoadFail(p)
  BY <1>6 DEF LoadFail, IInv, TypeOK, UniqueIds, Busy
<1>7. CASE \E now \in 0..MaxClock : CasFail(p, now)
  <2>1. PICK now \in 0..MaxClock : CasFail(p, now)
    BY <1>7
  <2>2. QED
    BY <1>0, <1>2, <2>1 DEF CasFail, IInv, TypeOK, UniqueIds, Busy
<1>8. CASE \E now \in 0..MaxClock : Cas(p, now)
  <2>1. PICK now \in 0..MaxClock : Cas(p, now)
    BY <1>8
  <2> DEFINE new == Gen!NextStamp(snap[p][1], snap[p][2], now)
  <2>2. /\ snap[p] \in Stamp /\ pc[p] = "cas" /\ row /= Absent
        /\ made[p] < Count /\ attempt[p] < MaxAttempts
    BY <2>1 DEF IInv, TypeOK, Cas, Busy
  <2>3. new \in Nat \X (0..Gen!MaxSeq) /\ Above(new, snap[p])
    BY <2>2, NextStampAbove DEF Stamp
  <2>4. CASE CasMatches(row, snap[p])
    <3> DEFINE rec == [by |-> p, n |-> made[p], id |-> new]
    <3>1. /\ row' = new
          /\ printed' = printed \cup {rec}
          /\ made' = [made EXCEPT ![p] = @ + 1]
          /\ pc' = [pc EXCEPT ![p] = IF made[p] + 1 < Count THEN "ensure" ELSE "done"]
          /\ UNCHANGED <<attempt, snap>>
      BY <2>1, <2>4 DEF Cas
    <3>2. row = snap[p]
      BY <2>4 DEF CasMatches
    \* The new ID is above every ID already printed, so it is none of them.
    <3>3. \A a \in printed : a.id /= new /\ AtMost(a.id, new)
      <4>1. SUFFICES ASSUME NEW a \in printed
                     PROVE  a.id /= new /\ AtMost(a.id, new)
        OBVIOUS
      <4>2. AtMost(a.id, row) /\ a.id \in Stamp /\ row \in Stamp
        BY <2>2 DEF IInv, TypeOK
      <4>3. Above(new, a.id)
        BY <2>3, <3>2, <4>2, OrderFacts
      <4>4. QED
        BY <2>3, <4>2, <4>3, OrderFacts
    <3>4. TypeOK'
      <4>1. rec \in [by : Procs, n : 0..Count, id : Stamp]
        BY <2>2, <2>3 DEF IInv, TypeOK
      <4>2. made' \in [Procs -> 0..Count]
        BY <2>2, <3>1 DEF IInv, TypeOK
      <4>3. pc' \in [Procs -> PC]
        BY <3>1 DEF IInv, TypeOK
      <4>4. QED
        BY <2>3, <3>1, <4>1, <4>2, <4>3 DEF IInv, TypeOK
    <3>5. UniqueIds'
      BY <3>1, <3>3 DEF IInv, UniqueIds
    <3>6. \A a \in printed' : row' /= Absent /\ AtMost(a.id, row')
      BY <2>3, <3>1, <3>3 DEF AtMost, Absent
    <3>7. QED
      BY <2>2, <3>1, <3>4, <3>5, <3>6 DEF IInv, TypeOK, Busy
  <2>5. CASE ~CasMatches(row, snap[p])
    <3>1. /\ attempt' = [attempt EXCEPT ![p] = @ + 1]
          /\ pc' = [pc EXCEPT ![p] = RetryAfter(attempt[p])]
          /\ UNCHANGED <<row, made, printed, snap>>
      BY <2>1, <2>5 DEF Cas
    <3>2. QED
      BY <2>2, <3>1 DEF IInv, TypeOK, UniqueIds, Busy, RetryAfter, PC
  <2>6. QED
    BY <2>4, <2>5
<1>9. QED
  BY <1>3, <1>4, <1>5, <1>6, <1>7, <1>8

\* The inductive invariant holds initially and is kept by every step.
THEOREM InvariantHolds == Spec => []IInv
<1>1. Init => IInv
  BY GenAssumption, AllocAssumption
  DEF Init, IInv, TypeOK, UniqueIds, Stamp, PC, Busy
<1>2. IInv /\ [Next]_vars => IInv'
  BY IInvStep
<1>3. QED
  BY <1>1, <1>2, PTL DEF Spec

\* The allocator's state keeps its type.
THEOREM TypeCorrect == Spec => []TypeOK
BY InvariantHolds, PTL DEF IInv

\* No two CLI processes print the same (tick, seq), for every number of
\* processes and allocations: the uniqueness the compare-and-swap on the
\* shared row is there to give.
THEOREM IdsUnique == Spec => []UniqueIds
BY InvariantHolds, PTL DEF IInv

-----------------------------------------------------------------------------
\* The row seen through RowStamp: an absent row reads as the (0, -1) that
\* sql_ensure_state inserts, so a step either leaves that pair as it is or
\* is a committed compare-and-swap that moves it to a W-digit pair strictly
\* above it.
LEMMA RowStampStep ==
    ASSUME IInv, [Next]_vars
    PROVE  \/ RowStamp' = RowStamp
           \/ /\ RowStamp' \in Nat \X (0..Gen!MaxSeq)
              /\ Above(RowStamp', RowStamp)
<1> USE GenAssumption DEF Stamp, Absent
<1>1. CASE UNCHANGED vars
  BY <1>1 DEF vars, RowStamp
<1> SUFFICES ASSUME NEW p \in Procs,
                    \/ Ensure(p) \/ EnsureFail(p) \/ Load(p) \/ LoadFail(p)
                    \/ \E now \in 0..MaxClock : Cas(p, now) \/ CasFail(p, now)
             PROVE  \/ RowStamp' = RowStamp
                    \/ /\ RowStamp' \in Nat \X (0..Gen!MaxSeq)
                       /\ Above(RowStamp', RowStamp)
  BY <1>1 DEF Next
\* INSERT OR IGNORE of (0, -1) changes nothing RowStamp shows.
<1>2. CASE Ensure(p) \/ EnsureFail(p)
  <2>1. row' \in {row, Ensured(row)}
    BY <1>2 DEF Ensure, EnsureFail
  <2>2. QED
    BY <2>1 DEF Ensured, RowStamp
<1>3. CASE Load(p) \/ LoadFail(p)
  BY <1>3 DEF Load, LoadFail, RowStamp
<1>4. CASE \E now \in 0..MaxClock : Cas(p, now) \/ CasFail(p, now)
  <2>1. PICK now \in 0..MaxClock : Cas(p, now) \/ CasFail(p, now)
    BY <1>4
  <2> DEFINE new == Gen!NextStamp(snap[p][1], snap[p][2], now)
  <2>2. snap[p] \in Stamp /\ row /= Absent
    BY <2>1 DEF IInv, TypeOK, Cas, CasFail
  <2>3. new \in Nat \X (0..Gen!MaxSeq) /\ Above(new, snap[p])
    <3>1. snap[p][1] \in Nat /\ snap[p][2] \in -1..Gen!MaxSeq /\ now \in Nat
      BY <2>2
    <3>2. snap[p] = <<snap[p][1], snap[p][2]>>
      BY <2>2
    <3>3. QED
      BY <3>1, <3>2, NextStampAbove
  <2>4. row' \in {row, IF CasMatches(row, snap[p]) THEN new ELSE row}
    BY <2>1 DEF Cas, CasFail
  <2>5. CASE CasMatches(row, snap[p]) /\ row' = new
    <3>1. RowStamp = snap[p] /\ RowStamp' = new
      BY <2>2, <2>3, <2>5 DEF CasMatches, RowStamp
    <3>2. QED
      BY <2>3, <3>1
  <2>6. CASE row' = row
    BY <2>6 DEF RowStamp
  <2>7. QED
    BY <2>4, <2>5, <2>6
<1>5. QED
  BY <1>2, <1>3, <1>4

\* The shared row implements the logical clock: the pair a fresh key reads
\* as is the clock's start, and every step of any process either leaves it
\* or advances it strictly, within W digits (the refinement the sql_alloc
\* run checks as ClockSpec, here for every number of processes, width,
\* clock range and retry bound).
THEOREM RowRefinement == Spec => ClockSpec
<1>1. Init => Clock!Init
  BY DEF Init, Clock!Init, RowStamp
<1>2. IInv /\ [Next]_vars => [Clock!Advance]_RowStamp
  <2> SUFFICES ASSUME IInv, [Next]_vars
               PROVE  [Clock!Advance]_RowStamp
    OBVIOUS
  <2>1. CASE RowStamp' = RowStamp
    BY <2>1
  <2>2. CASE RowStamp' \in Nat \X (0..Gen!MaxSeq) /\ Above(RowStamp', RowStamp)
    BY <2>2 DEF Clock!Advance, Clock!Stamps, Clock!StampLess, Above
  <2>3. QED
    BY <2>1, <2>2, RowStampStep
<1>3. QED
  BY <1>1, <1>2, InvariantHolds, PTL DEF Spec, ClockSpec, Clock!Spec

\* Only a committed compare-and-swap prints, and what it prints is the new
\* row, strictly above the loaded pair the row still equals, which is at or
\* above every ID printed so far.
LEMMA IssuedStep ==
    ASSUME IInv, [Next]_vars
    PROVE  \A a \in printed' \ printed : \A b \in printed : Above(a.id, b.id)
<1> USE GenAssumption DEF Stamp, Absent
<1>1. CASE UNCHANGED vars
  BY <1>1 DEF vars
<1> SUFFICES ASSUME NEW p \in Procs,
                    \/ Ensure(p) \/ EnsureFail(p) \/ Load(p) \/ LoadFail(p)
                    \/ \E now \in 0..MaxClock : Cas(p, now) \/ CasFail(p, now)
             PROVE  \A a \in printed' \ printed : \A b \in printed : Above(a.id, b.id)
  BY <1>1 DEF Next
<1>2. CASE Ensure(p) \/ EnsureFail(p) \/ Load(p) \/ LoadFail(p)
  BY <1>2 DEF Ensure, EnsureFail, Load, LoadFail
<1>3. CASE \E now \in 0..MaxClock : CasFail(p, now)
  BY <1>3 DEF CasFail
<1>4. CASE \E now \in 0..MaxClock : Cas(p, now)
  <2>1. PICK now \in 0..MaxClock : Cas(p, now)
    BY <1>4
  <2> DEFINE new == Gen!NextStamp(snap[p][1], snap[p][2], now)
  <2>2. snap[p] \in Stamp /\ row /= Absent /\ row \in Stamp
    BY <2>1 DEF IInv, TypeOK, Cas
  <2>3. new \in Nat \X (0..Gen!MaxSeq) /\ Above(new, snap[p])
    <3>1. snap[p][1] \in Nat /\ snap[p][2] \in -1..Gen!MaxSeq /\ now \in Nat
      BY <2>2
    <3>2. snap[p] = <<snap[p][1], snap[p][2]>>
      BY <2>2
    <3>3. QED
      BY <3>1, <3>2, NextStampAbove
  <2>4. CASE CasMatches(row, snap[p])
    <3>1. printed' \ printed \subseteq {[by |-> p, n |-> made[p], id |-> new]}
      BY <2>1, <2>4 DEF Cas
    <3>2. row = snap[p]
      BY <2>4 DEF CasMatches
    <3>3. ASSUME NEW b \in printed PROVE Above(new, b.id)
      <4>1. AtMost(b.id, row) /\ b.id \in Stamp
        BY <2>2 DEF IInv, TypeOK
      <4>2. QED
        BY <2>2, <2>3, <3>2, <4>1, OrderFacts
    <3>4. QED
      BY <3>1, <3>3
  <2>5. CASE ~CasMatches(row, snap[p])
    BY <2>1, <2>5 DEF Cas
  <2>6. QED
    BY <2>4, <2>5
<1>5. QED
  BY <1>2, <1>3, <1>4

\* For any number of processes, every ID the shared row hands out is above
\* all the IDs it handed out before: the compare-and-swap serialises the
\* allocations, and the row carries the largest ID so far.
THEOREM AllocationsOrdered == Spec => IssuedInOrder
<1>1. IInv /\ [Next]_vars =>
        [\A a \in printed' \ printed : \A b \in printed : Above(a.id, b.id)]_vars
  BY IssuedStep
<1>2. QED
  BY <1>1, InvariantHolds, PTL DEF Spec, IssuedInOrder
========================================================================
