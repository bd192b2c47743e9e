CONSTANTS
    Upper <- MC_Upper
    none = none
    NoWrite = NoWrite
    None <- none
    Tables <- MC_Tables
    Keys <- MC_Keys
    Data <- MC_Data
    MaxWrites = 3
SPECIFICATION Spec
INVARIANTS TypeOK ColumnsReadBack WrittenRowsListed
CHECK_DEADLOCK FALSE
