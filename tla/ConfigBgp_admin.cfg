\* The commands end and the reload ends, so the system stops.
CONSTANTS
    c1 = c1  c2 = c2  a1 = a1  a2 = a2  h1 = h1  h2 = h2
    Absent = Absent
    NoAddr = NoAddr
    Consumers <- MC_Consumers
    Addrs <- MC_Addrs
    Names <- MC_Names
    NameOf <- MC_NameOf
    Cmds <- MC_Cmds
    Configured <- MC_Both
    Loaded <- MC_Both
    MaxReloads = 2
    LoadMayFail = TRUE
SPECIFICATION SpecBgp
CHECK_DEADLOCK FALSE
INVARIANTS TypeOKBgp NeighborsWhole
PROPERTY ReadyOnlyWhenLoaded
