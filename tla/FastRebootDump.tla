--------------------------- MODULE FastRebootDump ---------------------------
(***************************************************************************)
(* scripts/fast-reboot-dump.py: the dump of the learned FDB entries        *)
(* (ASIC_DB) and the ARP entries (APPL_DB NEIGH_TABLE) written to          *)
(* /tmp/fdb.json and /tmp/arp.json before a fast reboot, while syncd keeps *)
(* learning and ageing MAC addresses and neighsyncd keeps changing the     *)
(* neighbor table.  Every table is read with KEYS and then one HGETALL per *)
(* key, through the non-blocking accessors (a missing hash gives None).    *)
(* The bridge port and host interface objects are created by syncd at      *)
(* start and are constants here.                                           *)
(***************************************************************************)
EXTENDS Naturals, Sequences, SequencesExt

CONSTANTS
    Vlans,        \* get_vlan_ifaces(): the VLAN ids, in /proc/net/dev order
    Macs,         \* MAC addresses
    FirstOctet,   \* Macs -> 0..255: int(mac.split(':')[0], 16)
    BridgePorts,  \* ASIC_STATE:SAI_OBJECT_TYPE_BRIDGE_PORT oids
    PortType,     \* BridgePorts -> {"port", "other"}: SAI_BRIDGE_PORT_ATTR_TYPE
    PortId,       \* BridgePorts -> port oids: SAI_BRIDGE_PORT_ATTR_PORT_ID
    HostifOf,     \* port oid -> SAI_HOSTIF_ATTR_NAME, for the ports with a hostif
    Neighbors,    \* NEIGH_TABLE keys
    MaxChanges,   \* bound on the writers' changes
    Absent,       \* no such hash
    NoFile        \* the dump file has not been written

VARIABLES
    fdb,      \* ASIC_DB FDB entries: <<vlan, mac>> -> bridge port oid or Absent
    neigh,    \* APPL_DB NEIGH_TABLE: key -> 'neigh' MAC or Absent
    changes,  \* writer steps so far
    pc,       \* where the script is
    vi,       \* index of the VLAN get_fdb is dumping
    todo,     \* keys of the current KEYS result not yet handled
    macs,     \* all_available_macs
    fdbRows,  \* fdb_entries collected so far
    arpRows,  \* arp_output collected so far
    fdbFile,  \* /tmp/fdb.json
    arpFile   \* /tmp/arp.json

vars == <<fdb, neigh, changes, pc, vi, todo, macs, fdbRows, arpRows, fdbFile, arpFile>>

VlanIds == ToSet(Vlans)
FdbKeys == VlanIds \X Macs
Ports == DOMAIN HostifOf \cup {PortId[b] : b \in BridgePorts}

-----------------------------------------------------------------------------
(***************************************************************************)
(* The pure helpers.                                                       *)
(***************************************************************************)

\* is_mac_unicast: the group bit of the first octet is clear.
is_mac_unicast(m) == FirstOctet[m] % 2 = 0

\* Bridge ports of type SAI_BRIDGE_PORT_TYPE_PORT, to their port oid.
get_bridge_port_id_2_port_id ==
    [b \in {x \in BridgePorts : PortType[x] = "port"} |-> PortId[b]]

\* Every host interface: its port oid to its name.
get_map_port_id_2_iface_name == HostifOf

\* Bridge ports whose port has a host interface, to the interface name;
\* the others print "Not found" and are left out.
get_map_bridge_port_id_2_iface_name ==
    LET bp == get_bridge_port_id_2_port_id
        pi == get_map_port_id_2_iface_name
    IN  [b \in {x \in DOMAIN bp : bp[x] \in DOMAIN pi} |-> pi[bp[b]]]

FdbRow == [vlan : VlanIds, mac : Macs, port : Range(HostifOf)]
ArpRow == [key : Neighbors, mac : Macs]

TypeOK ==
    /\ fdb \in [FdbKeys -> BridgePorts \cup {Absent}]
    /\ neigh \in [Neighbors -> Macs \cup {Absent}]
    /\ changes \in 0..MaxChanges
    /\ pc \in {"vlan", "fdb_entry", "arp", "arp_entry", "done", "crashed"}
    /\ vi \in 1..Len(Vlans) + 1
    /\ todo \subseteq Macs \cup Neighbors
    /\ macs \subseteq Macs
    /\ fdbRows \subseteq FdbRow
    /\ arpRows \subseteq ArpRow
    /\ fdbFile \in SUBSET FdbRow \cup {NoFile}
    /\ arpFile \in SUBSET ArpRow \cup {NoFile}

\* main(): generate_fdb_entries connects to ASIC_DB (one attempt), reads
\* the bridge port and host interface maps and the VLAN interfaces.
Init ==
    /\ fdb \in [FdbKeys -> BridgePorts \cup {Absent}]
    /\ neigh \in [Neighbors -> Macs \cup {Absent}]
    /\ changes = 0
    /\ pc = "vlan"
    /\ vi = 1
    /\ todo = {}
    /\ macs = {}
    /\ fdbRows = {}
    /\ arpRows = {}
    /\ fdbFile = NoFile
    /\ arpFile = NoFile

-----------------------------------------------------------------------------
(***************************************************************************)
(* The script.                                                             *)
(***************************************************************************)

\* get_fdb(db, vlan_id, ...): KEYS 'ASIC_STATE:SAI_OBJECT_TYPE_FDB_ENTRY:
\* {*"vlan":"<id>"}' (None when nothing matches: no keys).
FdbScan ==
    /\ pc = "vlan"
    /\ vi <= Len(Vlans)
    /\ todo' = {m \in Macs : fdb[<<Vlans[vi], m>>] # Absent}
    /\ pc' = "fdb_entry"
    /\ UNCHANGED <<fdb, neigh, changes, vi, macs, fdbRows, arpRows, fdbFile, arpFile>>

\* One key of get_fdb's loop: a multicast MAC is skipped; a unicast MAC
\* joins available_macs before its hash is read; HGETALL of an entry aged
\* out since KEYS gives None and value['SAI_FDB_ENTRY_ATTR_TYPE'] raises
\* TypeError, which ends the script; a bridge port without an interface
\* name is skipped.
FdbEntry(m) ==
    LET v == Vlans[vi]
        bp == fdb[<<v, m>>]
        iface == get_map_bridge_port_id_2_iface_name
    IN
    /\ pc = "fdb_entry"
    /\ m \in todo
    /\ todo' = todo \ {m}
    /\ \/ /\ ~is_mac_unicast(m)
          /\ UNCHANGED <<pc, macs, fdbRows>>
       \/ /\ is_mac_unicast(m)
          /\ macs' = macs \cup {m}
          /\ IF bp = Absent
             THEN pc' = "crashed" /\ UNCHANGED fdbRows
             ELSE /\ fdbRows' = IF bp \in DOMAIN iface
                                THEN fdbRows \cup {[vlan |-> v, mac |-> m, port |-> iface[bp]]}
                                ELSE fdbRows
                  /\ UNCHANGED pc
    /\ UNCHANGED <<fdb, neigh, changes, vi, arpRows, fdbFile, arpFile>>

\* get_fdb returns; its entries and MACs join the totals; the next VLAN.
FdbVlanDone ==
    /\ pc = "fdb_entry"
    /\ todo = {}
    /\ vi' = vi + 1
    /\ pc' = "vlan"
    /\ UNCHANGED <<fdb, neigh, changes, todo, macs, fdbRows, arpRows, fdbFile, arpFile>>

\* db.close(ASIC_DB), json.dump to /tmp/fdb.json; main then calls
\* generate_arp_entries, which connects to APPL_DB (one attempt).
FdbWrite ==
    /\ pc = "vlan"
    /\ vi > Len(Vlans)
    /\ fdbFile' = fdbRows
    /\ pc' = "arp"
    /\ UNCHANGED <<fdb, neigh, changes, vi, todo, macs, fdbRows, arpRows, arpFile>>

\* KEYS 'NEIGH_TABLE:*' (None: no keys).
ArpScan ==
    /\ pc = "arp"
    /\ todo' = {n \in Neighbors : neigh[n] # Absent}
    /\ pc' = "arp_entry"
    /\ UNCHANGED <<fdb, neigh, changes, vi, macs, fdbRows, arpRows, fdbFile, arpFile>>

\* One key: HGETALL; None (the neighbor was removed since KEYS) makes
\* entry['neigh'] raise TypeError; a MAC not in all_available_macs is
\* skipped.
ArpEntry(n) ==
    /\ pc = "arp_entry"
    /\ n \in todo
    /\ todo' = todo \ {n}
    /\ IF neigh[n] = Absent
       THEN pc' = "crashed" /\ UNCHANGED arpRows
       ELSE /\ arpRows' = IF neigh[n] \in macs
                          THEN arpRows \cup {[key |-> n, mac |-> neigh[n]]}
                          ELSE arpRows
            /\ UNCHANGED pc
    /\ UNCHANGED <<fdb, neigh, changes, vi, macs, fdbRows, fdbFile, arpFile>>

\* db.close(APPL_DB), json.dump to /tmp/arp.json; the script ends.
ArpWrite ==
    /\ pc = "arp_entry"
    /\ todo = {}
    /\ arpFile' = arpRows
    /\ pc' = "done"
    /\ UNCHANGED <<fdb, neigh, changes, vi, todo, macs, fdbRows, arpRows, fdbFile>>

Dump ==
    \/ FdbScan \/ (\E m \in Macs : FdbEntry(m)) \/ FdbVlanDone \/ FdbWrite
    \/ ArpScan \/ (\E n \in Neighbors : ArpEntry(n)) \/ ArpWrite

(***************************************************************************)
(* The writers: syncd learns, moves and ages FDB entries, neighsyncd sets  *)
(* and removes neighbors.                                                  *)
(***************************************************************************)
Learn(k, b) ==
    /\ changes < MaxChanges
    /\ fdb' = [fdb EXCEPT ![k] = b]
    /\ changes' = changes + 1
    /\ UNCHANGED <<neigh, pc, vi, todo, macs, fdbRows, arpRows, fdbFile, arpFile>>

Age(k) ==
    /\ changes < MaxChanges
    /\ fdb[k] # Absent
    /\ fdb' = [fdb EXCEPT ![k] = Absent]
    /\ changes' = changes + 1
    /\ UNCHANGED <<neigh, pc, vi, todo, macs, fdbRows, arpRows, fdbFile, arpFile>>

NeighSet(n, m) ==
    /\ changes < MaxChanges
    /\ neigh' = [neigh EXCEPT ![n] = m]
    /\ changes' = changes + 1
    /\ UNCHANGED <<fdb, pc, vi, todo, macs, fdbRows, arpRows, fdbFile, arpFile>>

NeighDel(n) ==
    /\ changes < MaxChanges
    /\ neigh[n] # Absent
    /\ neigh' = [neigh EXCEPT ![n] = Absent]
    /\ changes' = changes + 1
    /\ UNCHANGED <<fdb, pc, vi, todo, macs, fdbRows, arpRows, fdbFile, arpFile>>

Writers ==
    \/ \E k \in FdbKeys, b \in BridgePorts : Learn(k, b)
    \/ \E k \in FdbKeys : Age(k)
    \/ \E n \in Neighbors, m \in Macs : NeighSet(n, m)
    \/ \E n \in Neighbors : NeighDel(n)

Next == Dump \/ Writers

\* The script is one thread that never waits (one-shot connects,
\* non-blocking reads), so it keeps taking steps; the writers need not.
Spec == Init /\ [][Next]_vars /\ WF_vars(Dump)

-----------------------------------------------------------------------------
(***************************************************************************)
(* Properties.                                                             *)
(***************************************************************************)

(* The dump ends with both files written, whatever syncd and neighsyncd   *)
(* change while it runs: the fast reboot restores the FDB and ARP tables  *)
(* from them.                                                             *)
DumpCompletes == <>(arpFile # NoFile)

(* Every ARP entry the dump keeps has its MAC in an FDB entry the dump     *)
(* keeps: the ARP entries are filtered by all_available_macs so that only  *)
(* neighbors whose MAC is restored are restored.                           *)
ArpBackedByFdb ==
    arpFile # NoFile => \A a \in arpFile : \E f \in fdbFile : f.mac = a.mac
=============================================================================
