\* The read protocol with a producer and up to two connection faults.
CONSTANTS
    d1 = d1  d2 = d2  h1 = h1  h2 = h2  f1 = f1  f2 = f2
    v1 = v1  empty = empty  absent = absent  strval = strval
    StrVal <- strval
    DBs <- MC_DBs
    Hashes <- MC_Hashes
    Fields <- MC_Fields
    Values <- MC_Values
    EmptyStr <- empty
    Absent <- absent
    KeyPatterns <- MC_KeyPatterns
    RDB <- d1
    MaxWrites = 2
    MaxFaults = 2
SPECIFICATION Spec
INVARIANTS TypeOK WakeupLostOnlyToDrop
PROPERTIES CallEnds
