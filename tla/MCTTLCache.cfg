CONSTANT Key = {a, b, c}
CONSTANT Value = {v, w}
CONSTANT TTL <- TTLs
CONSTANT MaxEntries = 2
CONSTANT MaxTime = 3
SPECIFICATION CacheSpec
INVARIANT CacheTypeOK
INVARIANT Bounded
PROPERTY ImplementsLRU
CHECK_DEADLOCK FALSE
