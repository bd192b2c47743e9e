------------------------------- MODULE LldpSync -------------------------------
(***************************************************************************)
(* The LLDP sync daemon (sonic-dbsyncd: sonic_syncd/interface.py           *)
(* SonicSyncDaemon.run, lldp_syncd/daemon.py LldpSyncDaemon) against       *)
(* lldpd, whose neighbor table changes at any time, and readers of         *)
(* APPL_DB's LLDP_ENTRY_TABLE.                                             *)
(*                                                                         *)
(* Each round the thread runs `lldpctl -f json` (it may fail: None), parses *)
(* it (parse_port, parse_chassis, parse_time per interface, in lldpctl's   *)
(* order) and, for each interface, writes the entry one field at a time    *)
(* with a blocking set(); then it sleeps.  A neighbor's data is abstract:   *)
(* field f of neighbor n holds <<n, f>>; what the parser does with a       *)
(* neighbor is given by the types lldpctl prints for its port id and       *)
(* chassis id.                                                             *)
(***************************************************************************)
EXTENDS Naturals, Sequences, SequencesExt, TLC

CONSTANTS
    Ifaces,       \* interfaces matching ^(Ethernet\d+|eth0)$, in lldpctl order
    IfaceOrder,   \* that order, as a sequence
    Neighbors,    \* remote systems
    PortType,     \* n -> the port id "type" lldpctl prints for it
    ChassisType,  \* n -> the chassis id "type" lldpctl prints for it
    Fields,       \* the entry's fields (lldp_rem_port_id, lldp_rem_chassis_id, ...)
    NoNbr,        \* no neighbor on the interface
    Absent,       \* field not in the hash
    MaxChanges    \* bound on neighbor-table changes

ASSUME IfaceOrder \in Seq(Ifaces) /\ ToSet(IfaceOrder) = Ifaces

\* The names lldpd's port_id_subtype_map and chassis_id_subtype_map print.
LldpdTypes == {"ifname", "ifalias", "local", "mac", "ip", "unhandled"}

ASSUME PortType \in [Neighbors -> LldpdTypes]
ASSUME ChassisType \in [Neighbors -> LldpdTypes]

\* The member names of LldpSyncDaemon.PortIdSubtypeMap and
\* ChassisIdSubtypeMap: Map[type] raises KeyError for any other name.
PortIdSubtypeMap    == {"ifalias", "mac", "ip", "ifname", "local"}
ChassisIdSubtypeMap == {"ifname", "ifalias", "mac", "ip", "local"}

Record(n) == [f \in Fields |-> <<n, f>>]
EmptyRow  == [f \in Fields |-> Absent]
Value     == Neighbors \X Fields

VARIABLES
    nbr,        \* lldpd's table: interface -> neighbor or NoNbr
    changes,    \* neighbor-table changes so far
    pc,         \* the thread: "poll", "sync", "dead"
    todo,       \* set() calls of the current sync, in order
    parsed,     \* the parsed update being synced (interface -> neighbor)
    db          \* LLDP_ENTRY_TABLE:<iface> rows in APPL_DB

vars == <<nbr, changes, pc, todo, parsed, db>>

TypeOK ==
    /\ nbr \in [Ifaces -> Neighbors \cup {NoNbr}]
    /\ changes \in 0..MaxChanges
    /\ pc \in {"poll", "sync", "dead"}
    /\ todo \in Seq(Ifaces \X Fields \X Value)
    /\ parsed \in [Ifaces -> Neighbors \cup {NoNbr}]
    /\ db \in [Ifaces -> [Fields -> Value \cup {Absent}]]

Init ==
    /\ nbr \in [Ifaces -> Neighbors \cup {NoNbr}]
    /\ changes = 0
    /\ pc = "poll"
    /\ todo = <<>>
    /\ parsed = [i \in Ifaces |-> NoNbr]
    /\ db = [i \in Ifaces |-> EmptyRow]

-----------------------------------------------------------------------------
(***************************************************************************)
(* parse_update(lldp_json) over the interfaces that have a neighbor, in    *)
(* order: parse_port raises KeyError for a subtype PortIdSubtypeMap lacks, *)
(* caught by parse_update (None: the round is skipped); parse_chassis      *)
(* catches KeyError for its subtype and then executes                      *)
(* `chassis_id_subtype, chassis_id, rem_name, rem_desc = None`, a          *)
(* TypeError nothing catches: the thread ends.                             *)
(***************************************************************************)
RECURSIVE ParseFrom(_, _)
ParseFrom(snap, order) ==
    IF order = <<>> THEN "parsed"
    ELSE LET n == snap[Head(order)] IN
         CASE n = NoNbr                    -> ParseFrom(snap, Tail(order))
           [] PortType[n] \notin PortIdSubtypeMap       -> "none"
           [] ChassisType[n] \notin ChassisIdSubtypeMap -> "crash"
           [] OTHER                        -> ParseFrom(snap, Tail(order))

parse_update(snap) == ParseFrom(snap, IfaceOrder)

\* sync(parsed_update): one set() per field of every interface in it.
RECURSIVE SetCalls(_, _)
SetCalls(snap, order) ==
    IF order = <<>> THEN <<>>
    ELSE LET i == Head(order)
             n == snap[i]
             calls == IF n = NoNbr THEN <<>>
                      ELSE SetToSeq({<<i, f, Record(n)[f]>> : f \in Fields})
         IN calls \o SetCalls(snap, Tail(order))

\* Bug variant: the last set() of the sync is not issued.
SyncCallsDropLast(snap) ==
    LET c == SetCalls(snap, IfaceOrder) IN IF c = <<>> THEN c ELSE Front(c)

sync_calls(snap) == SetCalls(snap, IfaceOrder)

-----------------------------------------------------------------------------
(***************************************************************************)
(* The daemon thread: SonicSyncDaemon.run.                                 *)
(***************************************************************************)

\* source_update(): `lldpctl -f json`, lldpd's table when the command
\* succeeds and prints JSON (otherwise None, see Poll).
source_update == nbr

\* One round: source_update(), parse_update, then sync, skip ("No parsed
\* information returned") or die.  A round whose source_update() returns
\* None (lldpctl failed, or printed no JSON) changes nothing: it is a
\* stuttering step.
Poll ==
    /\ pc = "poll"
    /\ LET r == parse_update(source_update) IN
         CASE r = "parsed" -> /\ pc' = "sync"
                              /\ parsed' = source_update
                              /\ todo' = sync_calls(source_update)
           [] r = "none"   -> UNCHANGED <<pc, parsed, todo>>
           [] r = "crash"  -> /\ pc' = "dead"
                              /\ UNCHANGED <<parsed, todo>>
    /\ UNCHANGED <<nbr, changes, db>>

\* Bug variant: the set() replaces the whole hash with the one field.
SyncFieldReplace ==
    /\ pc = "sync"
    /\ todo # <<>>
    /\ LET c == Head(todo) IN db' = [db EXCEPT ![c[1]] = c[2] :> c[3]]
    /\ todo' = Tail(todo)
    /\ UNCHANGED <<nbr, changes, pc, parsed>>

\* self.db_connector.set(APPL_DB, 'LLDP_ENTRY_TABLE:' + interface, k, v,
\* blocking=True): HSET of one field.
SyncField ==
    /\ pc = "sync"
    /\ todo # <<>>
    /\ LET c == Head(todo) IN db' = [db EXCEPT ![c[1]][c[2]] = c[3]]
    /\ todo' = Tail(todo)
    /\ UNCHANGED <<nbr, changes, pc, parsed>>

\* The sync is over: time.sleep(update_frequency), next round.
SyncDone ==
    /\ pc = "sync"
    /\ todo = <<>>
    /\ pc' = "poll"
    /\ UNCHANGED <<nbr, changes, todo, parsed, db>>

\* lldpd learns, changes or ages out a neighbor.
NeighborChange(i, n) ==
    /\ changes < MaxChanges
    /\ nbr[i] # n
    /\ nbr' = [nbr EXCEPT ![i] = n]
    /\ changes' = changes + 1
    /\ UNCHANGED <<pc, todo, parsed, db>>

Next ==
    \/ Poll \/ SyncField \/ SyncDone
    \/ \E i \in Ifaces, n \in Neighbors \cup {NoNbr} : NeighborChange(i, n)

(***************************************************************************)
(* The thread keeps looping while it is alive, and lldpctl does not fail   *)
(* forever.  lldpd is not forced to change.                                *)
(***************************************************************************)
Fairness == WF_vars(Poll) /\ WF_vars(SyncField) /\ WF_vars(SyncDone)

Spec == Init /\ [][Next]_vars /\ Fairness

-----------------------------------------------------------------------------
(***************************************************************************)
(* Properties.                                                             *)
(***************************************************************************)

\* The row is all of one neighbor's fields, or empty.
Coherent(row) == row = EmptyRow \/ \E n \in Neighbors : row = Record(n)

\* A set() of the current sync is still to be issued for interface i.
Pending(i) == \E k \in 1..Len(todo) : todo[k][1] = i

(* A reader's get_all of an LLDP entry may see fields of two neighbors    *)
(* only while the thread is writing that entry: once the sync has passed  *)
(* the interface the row is a whole neighbor record again.                 *)
MixedOnlyWhileSyncing ==
    \A i \in Ifaces : ~Coherent(db[i]) => pc = "sync" /\ Pending(i)

(* After each sync the LLDP entries in APPL_DB are exactly the parsed      *)
(* update (test_sync_roundtrip: entries read back equal parse_update's     *)
(* result).                                                                 *)
SyncMirrorsUpdate ==
    pc = "sync" /\ todo = <<>> =>
        \A i \in Ifaces :
            db[i] = IF parsed[i] = NoNbr THEN EmptyRow ELSE Record(parsed[i])

(* Once lldpd's table stops changing, and parse_update accepts it, every   *)
(* neighbor lldpd reports is eventually in APPL_DB exactly: the loop polls *)
(* again and sync writes every field of every interface.                  *)
NeighborsEventuallySynced ==
    <>[](parse_update(nbr) = "parsed" =>
            \A i \in Ifaces : nbr[i] # NoNbr => db[i] = Record(nbr[i]))
=============================================================================
