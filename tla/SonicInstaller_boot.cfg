CONSTANTS
    i1 = i1
    i2 = i2
    i3 = i3
    NoEntry = NoEntry
    Images <- MC_Images
    NamePrefix <- MC_NamePrefix
SPECIFICATION Spec
INVARIANTS TypeOK BootTargetInstalled
