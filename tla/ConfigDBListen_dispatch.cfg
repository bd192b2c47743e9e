\* listen() against writers and a thread that subscribes and unsubscribes.
CONSTANTS
    t1 = t1
    t2 = t2
    r1 = r1
    r2 = r2
    v1 = v1
    v2 = v2
    absent = absent
    empty = empty
    other = other
    none = none
    Tables <- MC_Tables
    Rows <- MC_Rows
    Values <- MC_Values
    Absent <- absent
    Empty <- empty
    Other <- other
    None <- none
    MaxWrites = 3
SPECIFICATION Spec
CHECK_DEADLOCK FALSE
PROPERTY ViewConverges
