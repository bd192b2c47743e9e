----------------------------- MODULE MC_LldpSync -----------------------------
EXTENDS LldpSync, TLC

CONSTANTS e0, e4, n1, n2, n3, portId, sysName

MC_Ifaces     == {e0, e4}
MC_IfaceOrder == <<e0, e4>>
MC_Fields     == {portId, sysName}
\* n1, n2 parse; n3's port id subtype is one lldpd prints as "unhandled"
\* (LLDP_PORTID_SUBTYPE_PORT or _AGENTCID).
MC_PortType    == (n1 :> "ifname") @@ (n2 :> "mac") @@ (n3 :> "unhandled")
MC_ChassisType == (n1 :> "mac") @@ (n2 :> "local") @@ (n3 :> "mac")
MC_Good        == {n1, n2}
MC_WithBadPort == {n1, n2, n3}
=============================================================================
