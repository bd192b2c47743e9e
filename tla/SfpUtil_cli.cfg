\* sfputil commands against plugged and pulled transceivers.
CONSTANTS
    None = None
    InvalidPort = InvalidPort
    NoPhysical = NoPhysical
    e0 = e0  e4 = e4  e8 = e8  n1 = n1  n2 = n2  n3 = n3
    lc = lc  enc = enc  acme = acme  hot = hot  warm = warm
    Numerals <- MC_Numerals
    IntOf <- MC_IntOf
    NoDom = NoDom
    Logical <- MC_Logical
    PhysOf <- MC_PhysOf
    Physical <- MC_Physical
    Names <- MC_Names
    IsValid <- MC_IsValid
    KeyOrder <- MC_KeyOrder
    Scalars <- MC_Scalars
    IfData <- MC_IfData
    DomData <- MC_DomData
SPECIFICATION Spec
INVARIANT ReportedLpmodeApplied
