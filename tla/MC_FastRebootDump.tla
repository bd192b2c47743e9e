------------------------- MODULE MC_FastRebootDump -------------------------
(* One VLAN, a unicast and a multicast MAC, a bridge port of an Ethernet   *)
(* port and one of a port without a host interface (a port channel), one  *)
(* neighbor.                                                              *)
EXTENDS FastRebootDump, TLC

CONSTANTS m1, m3, b1, b2, p1, p2, k1, Ethernet0

MC_Vlans == <<1000>>
MC_Macs == {m1, m3}
MC_FirstOctet == (m1 :> 0) @@ (m3 :> 1)
MC_BridgePorts == {b1, b2}
MC_PortType == [b \in MC_BridgePorts |-> "port"]
MC_PortId == (b1 :> p1) @@ (b2 :> p2)
MC_HostifOf == p1 :> Ethernet0
MC_Neighbors == {k1}
=============================================================================
