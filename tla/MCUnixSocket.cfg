CONSTANT Process = {p, q, r, s}
CONSTANT NoFile = NoFile
SPECIFICATION SocketSpec
INVARIANT SocketTypeOK
INVARIANT ReachableUnlessRaced
PROPERTY FailsOnlyForAnother
SYMMETRY Symmetric
CHECK_DEADLOCK FALSE
