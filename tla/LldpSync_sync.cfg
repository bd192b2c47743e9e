CONSTANTS
    e0 = e0
    e4 = e4
    n1 = n1
    n2 = n2
    n3 = n3
    portId = portId
    sysName = sysName
    NoNbr = NoNbr
    Absent = Absent
    Ifaces <- MC_Ifaces
    IfaceOrder <- MC_IfaceOrder
    Fields <- MC_Fields
    PortType <- MC_PortType
    ChassisType <- MC_ChassisType
    Neighbors <- MC_WithBadPort
    MaxChanges = 2
SPECIFICATION Spec
INVARIANTS TypeOK MixedOnlyWhileSyncing
PROPERTY NeighborsEventuallySynced
