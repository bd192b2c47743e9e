\* An FDB entry or a neighbor removed between KEYS and HGETALL.
\* The script ends, crashed or done, and the writers are bounded.
CONSTANTS
    m1 = m1  m3 = m3  b1 = b1  b2 = b2  p1 = p1  p2 = p2  k1 = k1
    Ethernet0 = Ethernet0
    Absent = Absent
    NoFile = NoFile
    Vlans <- MC_Vlans
    Macs <- MC_Macs
    FirstOctet <- MC_FirstOctet
    BridgePorts <- MC_BridgePorts
    PortType <- MC_PortType
    PortId <- MC_PortId
    HostifOf <- MC_HostifOf
    Neighbors <- MC_Neighbors
    MaxChanges = 2
SPECIFICATION Spec
CHECK_DEADLOCK FALSE
PROPERTY DumpCompletes
