------------------------------ MODULE ConfigBgp ------------------------------
(***************************************************************************)
(* `config bgp shutdown|startup all|neighbor` (sonic-utilities/config/     *)
(* main.py) run by the consumers of ConfigDBInit, against `config reload`. *)
(*                                                                         *)
(* Every helper of these commands builds its own ConfigDBConnector and     *)
(* calls connect(), which waits for CONFIG_DB_INITIALIZED: a consumer of   *)
(* ConfigDBInit goes through its whole wait once per helper, and the       *)
(* helper's one database operation happens when it is "ready"; the        *)
(* connector is then dropped ("idle").  The loader's FLUSHDB and bulk load *)
(* also act on the BGP_NEIGHBOR rows: the load writes the neighbors of the *)
(* file with HMSET, which keeps a column the file does not set.            *)
(***************************************************************************)
EXTENDS ConfigDBInit, FiniteSets

CONSTANTS
    Addrs,      \* neighbor IP addresses
    Names,      \* neighbor host names
    NameOf,     \* Addrs -> Names: the 'name' column of a neighbor's row
    Configured, \* neighbors in the database when the system starts
    Loaded,     \* neighbors in the file `config reload` loads
    Cmds,       \* commands a consumer may run: [op, arg, st]
    Absent,     \* no BGP_NEIGHBOR|<addr> row
    NoAddr      \* no address chosen yet

\* A row: whether it holds the neighbor's configuration (name, asn, ...),
\* and its admin_status column.
Rows == [conf : BOOLEAN, admin : {"unset", "up", "down"}]

VARIABLES
    nb,     \* BGP_NEIGHBOR rows: address -> row or Absent
    cmd,    \* the command each consumer runs
    step,   \* where the command is: "list", "next", "check", "lookup", "set", "done"
    arg,    \* the <ipaddr_or_hostname> _switch_bgp_session_status works on
    ip,     \* the address _switch_bgp_session_status_by_addr will write
    todo    \* `all`: addresses of the listed table not yet handled

bgpVars == <<nb, cmd, step, arg, ip, todo>>
allVars == <<vars, bgpVars>>

TypeOKBgp ==
    /\ TypeOK
    /\ nb \in [Addrs -> Rows \cup {Absent}]
    /\ cmd \in [Consumers -> Cmds]
    /\ step \in [Consumers -> {"list", "next", "check", "lookup", "set", "done"}]
    /\ arg \in [Consumers -> Addrs \cup Names]
    /\ ip \in [Consumers -> Addrs \cup {NoAddr}]
    /\ todo \in [Consumers -> SUBSET Addrs]

\* The step a command starts with.
FirstStep(c) == IF cmd[c].op = "all" THEN "list" ELSE "check"

InitBgp ==
    /\ Init
    /\ nb = [a \in Addrs |->
                IF a \in Configured THEN [conf |-> TRUE, admin |-> "unset"]
                ELSE Absent]
    /\ cmd \in [Consumers -> Cmds]
    /\ step = [c \in Consumers |-> FirstStep(c)]
    /\ arg = [c \in Consumers |-> cmd[c].arg]
    /\ ip = [c \in Consumers |-> NoAddr]
    /\ todo = [c \in Consumers |-> {}]

-----------------------------------------------------------------------------
(***************************************************************************)
(* The loader, with its effect on the BGP_NEIGHBOR rows.                   *)
(***************************************************************************)

\* sonic-cfggen --write-to-db: HMSET of the neighbors S of the file; an
\* admin_status already in the row stays, since the file does not set it.
LoadRows(S) ==
    [a \in Addrs |->
        IF a \in S
        THEN [conf |-> TRUE,
              admin |-> IF nb[a] = Absent THEN "unset" ELSE nb[a].admin]
        ELSE nb[a]]

LoaderBgp ==
    \/ LoaderConnect /\ UNCHANGED bgpVars
    \/ Flush /\ nb' = [a \in Addrs |-> Absent] /\ UNCHANGED <<cmd, step, arg, ip, todo>>
    \/ Load /\ nb' = LoadRows(Loaded) /\ UNCHANGED <<cmd, step, arg, ip, todo>>
    \/ LoadFails /\ (\E S \in SUBSET Loaded : nb' = LoadRows(S))
                 /\ UNCHANGED <<cmd, step, arg, ip, todo>>
    \/ SetInit /\ UNCHANGED bgpVars

-----------------------------------------------------------------------------
(***************************************************************************)
(* The CLI commands.                                                       *)
(***************************************************************************)

\* A helper's ConfigDBConnector().connect(): the consumer's wait for init.
\* `next` moves to the following address without touching the database.
Connect(c) ==
    /\ step[c] \notin {"next", "done"}
    /\ Start(c)
    /\ UNCHANGED bgpVars

WaitBgp(c) == Waiting(c) /\ UNCHANGED bgpVars

\* The helper's database operation, on a connected connector, which is
\* then dropped.
Op(c) ==
    /\ cpc[c] = "ready"
    /\ cpc' = [cpc EXCEPT ![c] = "idle"]
    /\ UNCHANGED <<init, complete, subscribed, inbox, lpc, reloads>>

\* Whether get_entry / get_table returns the row: rows have columns.
Exists(a) == nb[a] # Absent

\* _get_all_neighbor_ipaddresses(): get_table('BGP_NEIGHBOR').keys().
ListNeighbors(c) ==
    /\ step[c] = "list"
    /\ Op(c)
    /\ todo' = [todo EXCEPT ![c] = {a \in Addrs : Exists(a)}]
    /\ step' = [step EXCEPT ![c] = "next"]
    /\ UNCHANGED <<nb, cmd, arg, ip>>

\* The `for ipaddress in bgp_neighbor_ip_list` loop of `all`: shutdown
\* calls _switch_bgp_session_status_by_addr, startup
\* _switch_bgp_session_status, for each address in dict order.
NextAddr(c) ==
    /\ step[c] = "next"
    /\ IF todo[c] = {}
       THEN /\ step' = [step EXCEPT ![c] = "done"]
            /\ UNCHANGED <<arg, ip, todo>>
       ELSE \E a \in todo[c] :
              /\ todo' = [todo EXCEPT ![c] = @ \ {a}]
              /\ IF cmd[c].st = "down"
                 THEN /\ ip' = [ip EXCEPT ![c] = a]
                      /\ step' = [step EXCEPT ![c] = "set"]
                      /\ UNCHANGED arg
                 ELSE /\ arg' = [arg EXCEPT ![c] = a]
                      /\ step' = [step EXCEPT ![c] = "check"]
                      /\ UNCHANGED ip
    /\ UNCHANGED <<vars, nb, cmd>>

\* _is_neighbor_ipaddress(x): get_entry('BGP_NEIGHBOR', x) is non-empty.
Check(c) ==
    /\ step[c] = "check"
    /\ Op(c)
    /\ IF arg[c] \in Addrs /\ Exists(arg[c])
       THEN /\ ip' = [ip EXCEPT ![c] = arg[c]]
            /\ step' = [step EXCEPT ![c] = "set"]
       ELSE /\ step' = [step EXCEPT ![c] = "lookup"]
            /\ UNCHANGED ip
    /\ UNCHANGED <<nb, cmd, arg, todo>>

\* _get_neighbor_ipaddress_by_hostname(x): the first row whose 'name' is x;
\* None raises click.Abort, which ends the whole command.
Lookup(c) ==
    /\ step[c] = "lookup"
    /\ Op(c)
    /\ LET found == {a \in Addrs : Exists(a) /\ nb[a].conf /\ NameOf[a] = arg[c]} IN
         IF found = {}
         THEN /\ step' = [step EXCEPT ![c] = "done"]
              /\ UNCHANGED ip
         ELSE \E a \in found :
                /\ ip' = [ip EXCEPT ![c] = a]
                /\ step' = [step EXCEPT ![c] = "set"]
    /\ UNCHANGED <<nb, cmd, arg, todo>>

\* Bug variant: the row is replaced by {'admin_status': status}.
SetStatusReplace(c) ==
    /\ step[c] = "set"
    /\ Op(c)
    /\ nb' = [nb EXCEPT ![ip[c]] = [conf |-> FALSE, admin |-> cmd[c].st]]
    /\ step' = [step EXCEPT ![c] = IF cmd[c].op = "all" THEN "next" ELSE "done"]
    /\ UNCHANGED <<cmd, arg, ip, todo>>

\* _switch_bgp_session_status_by_addr: set_entry('bgp_neighbor', ip,
\* {'admin_status': status}), an HMSET that creates the row if it is gone.
SetStatus(c) ==
    /\ step[c] = "set"
    /\ Op(c)
    /\ nb' = [nb EXCEPT ![ip[c]] =
                IF @ = Absent THEN [conf |-> FALSE, admin |-> cmd[c].st]
                ELSE [@ EXCEPT !.admin = cmd[c].st]]
    /\ step' = [step EXCEPT ![c] = IF cmd[c].op = "all" THEN "next" ELSE "done"]
    /\ UNCHANGED <<cmd, arg, ip, todo>>

Cli(c) ==
    \/ Connect(c) \/ WaitBgp(c) \/ ListNeighbors(c) \/ NextAddr(c)
    \/ Check(c) \/ Lookup(c) \/ SetStatus(c)

NextBgp == LoaderBgp \/ \E c \in Consumers : Cli(c)

SpecBgp == InitBgp /\ [][NextBgp]_allVars

-----------------------------------------------------------------------------
(***************************************************************************)
(* Properties.                                                             *)
(***************************************************************************)

(* A BGP_NEIGHBOR row without the neighbor's configuration (only the       *)
(* admin_status a bgp command wrote) exists only between a reload's        *)
(* FLUSHDB and its load, which fills it in: the commands check the         *)
(* neighbor, and set_entry merges into its row, so they never leave a      *)
(* neighbor the configuration does not have.                               *)
NeighborsWhole ==
    \A a \in Addrs : (Exists(a) /\ ~nb[a].conf) => ~complete
=============================================================================
