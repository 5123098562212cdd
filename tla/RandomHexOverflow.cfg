CONSTANT ZArgs <- MCZArgs
SPECIFICATION Spec
INVARIANT RawInBounds
CHECK_DEADLOCK FALSE
