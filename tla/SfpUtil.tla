------------------------------- MODULE SfpUtil -------------------------------
(***************************************************************************)
(* sfputil (sonic-utilities/sfputil/main.py): the CLI that shows and sets  *)
(* SFP transceivers through the platform plugin's SfpUtil object.          *)
(*                                                                         *)
(* A logical port (Ethernet<n>) maps to one or more physical ports; one    *)
(* with several is "ganged", and each of its physical ports is named       *)
(* <logical>:<i> (ganged) in the output, i counting from 1.  A numeral     *)
(* argument names a physical port directly.  The plugin (not in this       *)
(* repository) is given by constants: the logical ports and their physical *)
(* ports, which names it accepts, and each transceiver's EEPROM data.      *)
(* The hardware state is presence and the low-power-mode pin; a user       *)
(* plugs and unplugs transceivers between commands.                        *)
(***************************************************************************)
EXTENDS Naturals, Sequences, SequencesExt, Functions

CONSTANTS
    Logical,    \* platform_sfputil.logical, in order
    PhysOf,     \* logical name -> sequence of physical ports
    Physical,   \* physical port numbers
    Names,      \* Ethernet<n> names a user may pass as <port_name>
    Numerals,   \* numerals a user may pass as <port_name>
    IntOf,      \* numeral -> int(numeral), a physical port
    IsValid,    \* the arguments is_valid_sfputil_port accepts
    KeyOrder,   \* every EEPROM dict key, as sorted() orders them
    Scalars,    \* EEPROM values that are not dicts
    IfData,     \* physical port -> eeprom_dict['interface']['data']
    DomData,    \* physical port -> eeprom_dict['dom']['data'], or NoDom
    NoDom,      \* no DOM data
    None,       \* Python None
    InvalidPort,    \* output: "Error: invalid port" and sys.exit
    NoPhysical      \* output: "Error: No physical ports found", no table

\* A <port_name> argument: an Ethernet name or a numeral.
Args == Names \cup Numerals

\* The blacklists of `show eeprom --oneline`.
ifdata_out_blacklist == {"EncodingCodes", "ExtIdentOfTypeOfTransceiver",
                         "NominalSignallingRate(UnitsOf100Mbd)"}
domdata_out_blacklist == {"AwThresholds", "StatusControl"}

-----------------------------------------------------------------------------
(***************************************************************************)
(* Rendering EEPROM dicts.  A dict is a function from keys to Scalars or   *)
(* dicts; in_dict without its first key is Restrict(d, DOMAIN d \ {key}).  *)
(***************************************************************************)
IsDict(v) == v \notin Scalars

Comma == [sep |-> ","]
Item(elemname, val) == [elem |-> elemname, val |-> val]

\* sorted(in_dict)[0]
FirstKey(d) == KeyOrder[SelectInSeq(KeyOrder, LAMBDA k : k \in DOMAIN d)]

Rest(d, key) == Restrict(d, DOMAIN d \ {key})

\* dict_to_string_pretty: one line [indent, key, val] per key in sorted
\* order; a dict value gives a line without value and its lines one deeper.
RECURSIVE dict_to_string_pretty(_, _)

dict_to_string_pretty(d, indent) ==
    IF DOMAIN d = {} THEN <<>>
    ELSE LET key == FirstKey(d)
             val == d[key]
             head == IF IsDict(val)
                     THEN << [indent |-> indent, key |-> key, val |-> None] >>
                          \o dict_to_string_pretty(val, indent + 1)
                     ELSE << [indent |-> indent, key |-> key, val |-> val] >>
         IN head \o dict_to_string_pretty(Rest(d, key), indent)

(***************************************************************************)
(* dict_to_string_comma_separated: the tokens of the 'key:value' list, an  *)
(* item being [elem, val] with elemname a sequence of keys, and Comma the  *)
(* separator.  A blacklisted key returns "" for itself and every key   *)
(* after it; a dict value is rendered with prefix key + '.' and            *)
(* first=True; whatever `first` was, the rest is rendered with first=False.*)
(***************************************************************************)
RECURSIVE dict_to_string_comma_separated(_, _, _, _)
dict_to_string_comma_separated(d, blacklist, prefix, first) ==
    IF DOMAIN d = {} THEN <<>>
    ELSE LET key == FirstKey(d)
             val == d[key]
         IN IF key \in blacklist THEN <<>>
            ELSE (IF first THEN <<>> ELSE <<Comma>>)
                 \o (IF IsDict(val)
                     THEN dict_to_string_comma_separated(val, blacklist, <<key>>, TRUE)
                     ELSE <<Item(prefix \o <<key>>, val)>>)
                 \o dict_to_string_comma_separated(Rest(d, key), blacklist, prefix, FALSE)

\* The reference: every item outside the blacklist, in sorted order.
RECURSIVE AllowedItems(_, _, _)
AllowedItems(d, blacklist, prefix) ==
    IF DOMAIN d = {} THEN <<>>
    ELSE LET key == FirstKey(d)
             val == d[key]
             own == IF key \in blacklist THEN <<>>
                    ELSE IF IsDict(val) THEN AllowedItems(val, blacklist, <<key>>)
                    ELSE <<Item(prefix \o <<key>>, val)>>
         IN own \o AllowedItems(Rest(d, key), blacklist, prefix)

\* ",".join(items)
CommaJoin(items) ==
    FoldLeft(LAMBDA acc, x : IF acc = <<>> THEN <<x>> ELSE acc \o <<Comma, x>>,
             <<>>, items)

-----------------------------------------------------------------------------
(***************************************************************************)
(* Ports.                                                                  *)
(***************************************************************************)

\* logical_port_name_to_physical_port_list: an Ethernet name maps through
\* the plugin if it is a logical port ("Invalid port": None), a numeral is
\* [int(port_name)].
logical_port_name_to_physical_port_list(a) ==
    IF a \in Numerals THEN <<IntOf[a]>>
    ELSE IF a \in ToSet(Logical) THEN PhysOf[a] ELSE None

\* get_physical_port_name(logical_port, i, ganged): its first test compares
\* the name with the int i and never holds.
get_physical_port_name(l, i, ganged) == IF ganged THEN <<l, i>> ELSE l

PortNames == Args \cup (ToSet(Logical) \X (1..Cardinality(Physical)))

\* The physical port an output name stands for, as the comment above
\* get_physical_port_name documents it: "port_num if physical,
\* logical_port:port_num if logical port and is a ganged port".
PhysNamed(name) ==
    IF name \in Numerals THEN IntOf[name]
    ELSE IF name \in Names THEN PhysOf[name][1]
    ELSE name[2]

\* The loop `for physical_port in physical_port_list: ... i += 1`: the
\* port_name and physical_port of each iteration.
Members(l) ==
    LET pl == logical_port_name_to_physical_port_list(l) IN
    [k \in 1..Len(pl) |-> [name |-> get_physical_port_name(l, k, Len(pl) > 1),
                           port |-> pl[k]]]

-----------------------------------------------------------------------------
VARIABLES
    present,    \* get_presence(p)
    lp,         \* get_low_power_mode(p)
    cmd,        \* the last command or plug event: [op, port, arg]
    out         \* its output: the lines printed, or an error exit

vars == <<present, lp, cmd, out>>

Ops == {"none", "eeprom", "oneline", "raw", "presence", "lpmode",
        "lpmode_set", "reset", "plug"}

PrettyLine == [indent : 1..3, key : ToSet(KeyOrder), val : Scalars \cup {None}]
Token == {Comma} \cup [elem : Seq(ToSet(KeyOrder) \cup {"port"}), val : Scalars \cup PortNames]
StatusRow == [name : PortNames, on : BOOLEAN]
PrettyRow == [name : PortNames, on : BOOLEAN, lines : Seq(PrettyLine)]

TypeOK ==
    /\ present \in [Physical -> BOOLEAN]
    /\ lp \in [Physical -> BOOLEAN]
    /\ cmd \in [op : Ops, port : Args \cup {None}, arg : BOOLEAN]
    /\ \/ out \in {InvalidPort, NoPhysical}
       \/ cmd.op = "oneline" /\ out \in Seq(Seq(Token))
       \/ cmd.op = "eeprom" /\ out \in Seq(PrettyRow)
       \/ cmd.op \notin {"oneline", "eeprom"} /\ out \in Seq(StatusRow)

Init ==
    /\ present \in [Physical -> BOOLEAN]
    /\ lp \in [Physical -> BOOLEAN]
    /\ cmd = [op |-> "none", port |-> None, arg |-> FALSE]
    /\ out = <<>>

\* The ports a command walks: all logical ports, or the one given.
LogicalList(port) == IF port = None THEN Logical ELSE <<port>>

Invalid(port) == port # None /\ port \notin IsValid

\* Some listed port has no physical port list: the command prints the error
\* and returns before printing its table.
Unmapped(ll) == \E k \in 1..Len(ll) :
                    logical_port_name_to_physical_port_list(ll[k]) = None

-----------------------------------------------------------------------------
(***************************************************************************)
(* `show eeprom`: the three renderings of each logical port.               *)
(***************************************************************************)

\* port_eeprom_data_string_pretty: `return result` is inside the loop, so
\* only the first physical port of a ganged port is rendered.
port_eeprom_data_string_pretty(l, dump_dom) ==
    LET Lines(p) == dict_to_string_pretty(IfData[p], 1)
                    \o (IF dump_dom /\ DomData[p] # NoDom
                        THEN dict_to_string_pretty(DomData[p], 1) ELSE <<>>)
        Row(name, p) == [name |-> name, on |-> present[p],
                         lines |-> IF present[p] THEN Lines(p) ELSE <<>>]
        ms == Members(l)
        rows == [k \in DOMAIN ms |-> Row(ms[k].name, ms[k].port)]
    IN IF logical_port_name_to_physical_port_list(l) = None THEN <<>>
       ELSE SubSeq(rows, 1, 1)

\* port_eeprom_data_string_pretty_oneline: "port:<name>," and the two dicts'
\* lists, for detected ports; every port ends the line.
port_eeprom_data_string_pretty_oneline(l, dump_dom) ==
    LET Line(name, p) ==
          IF ~present[p] THEN <<>>
          ELSE <<Item(<<"port">>, name), Comma>>
               \o dict_to_string_comma_separated(IfData[p], ifdata_out_blacklist, <<>>, TRUE)
               \o (IF dump_dom /\ DomData[p] # NoDom
                   THEN dict_to_string_comma_separated(DomData[p], domdata_out_blacklist, <<>>, TRUE)
                   ELSE <<>>)
        ms == Members(l)
    IN IF logical_port_name_to_physical_port_list(l) = None THEN <<>>
       ELSE [k \in DOMAIN ms |-> Line(ms[k].name, ms[k].port)]

\* port_eeprom_data_raw_string_pretty: detected or not, per physical port.
port_eeprom_data_raw_string_pretty(l) ==
    IF logical_port_name_to_physical_port_list(l) = None THEN <<>>
    ELSE LET ms == Members(l) IN
         [k \in DOMAIN ms |-> [name |-> ms[k].name, on |-> present[ms[k].port]]]

\* eeprom(port, dump_dom, oneline, raw)
eeprom(port, mode, dump_dom) ==
    /\ out' = IF Invalid(port) THEN InvalidPort
              ELSE LET ll == LogicalList(port)
                       R(l) == CASE mode = "raw"     -> port_eeprom_data_raw_string_pretty(l)
                                 [] mode = "oneline" -> port_eeprom_data_string_pretty_oneline(l, dump_dom)
                                 [] OTHER            -> port_eeprom_data_string_pretty(l, dump_dom)
                   IN FlattenSeq([k \in 1..Len(ll) |-> R(ll[k])])
    /\ cmd' = [op |-> mode, port |-> port, arg |-> dump_dom]
    /\ UNCHANGED <<present, lp>>

-----------------------------------------------------------------------------
(***************************************************************************)
(* `show presence`, `show lpmode`, `lpmode on|off`, `reset`.               *)
(***************************************************************************)

\* The table of `show presence` / `show lpmode`: one row per physical port,
\* with get_presence or get_low_power_mode ("Present"/"On" when TRUE).
StatusTable(port, reading) ==
    LET ll == LogicalList(port)
        Reading(p) == IF reading = "presence" THEN present[p] ELSE lp[p]
    IN
    CASE Invalid(port)  -> InvalidPort
      [] Unmapped(ll)   -> NoPhysical
      [] OTHER          ->
           FlattenSeq([k \in 1..Len(ll) |->
               LET ms == Members(ll[k]) IN
               [j \in DOMAIN ms |-> [name |-> ms[j].name, on |-> Reading(ms[j].port)]]])

presence(port) ==
    /\ out' = StatusTable(port, "presence")
    /\ cmd' = [op |-> "presence", port |-> port, arg |-> FALSE]
    /\ UNCHANGED <<present, lp>>

lpmode(port) ==
    /\ out' = StatusTable(port, "lpmode")
    /\ cmd' = [op |-> "lpmode", port |-> port, arg |-> FALSE]
    /\ UNCHANGED <<present, lp>>

\* The loop of set_lpmode and reset: the plugin call on each physical port,
\* ok[k] its result, printed "OK" or "Failed".
Results(l, ok) ==
    LET pl == logical_port_name_to_physical_port_list(l) IN
    [k \in 1..Len(pl) |-> [name |-> get_physical_port_name(l, k, Len(pl) > 1),
                           on |-> ok[k]]]

\* set_lpmode(logical_port, enable): set_low_power_mode on each physical
\* port; one that fails keeps its mode.
set_lpmode(port, enable) ==
    LET pl == logical_port_name_to_physical_port_list(port) IN
    /\ CASE Invalid(port) -> out' = InvalidPort /\ UNCHANGED lp
         [] pl = None     -> out' = NoPhysical /\ UNCHANGED lp
         [] OTHER         ->
              \E ok \in [1..Len(pl) -> BOOLEAN] :
                 /\ lp' = [q \in Physical |->
                             IF \E k \in 1..Len(pl) : pl[k] = q /\ ok[k]
                             THEN enable ELSE lp[q]]
                 /\ out' = Results(port, ok)
    /\ cmd' = [op |-> "lpmode_set", port |-> port, arg |-> enable]
    /\ UNCHANGED present

\* reset(port_name): the plugin resets each physical port; the
\* low-power-mode pin is the host's and stays.
reset(port) ==
    LET pl == logical_port_name_to_physical_port_list(port) IN
    /\ CASE Invalid(port) -> out' = InvalidPort
         [] pl = None     -> out' = NoPhysical
         [] OTHER         -> \E ok \in [1..Len(pl) -> BOOLEAN] : out' = Results(port, ok)
    /\ cmd' = [op |-> "reset", port |-> port, arg |-> FALSE]
    /\ UNCHANGED <<present, lp>>

\* A transceiver is plugged in or pulled out, after the last command's
\* output.
Plug(p) ==
    /\ present' = [present EXCEPT ![p] = ~@]
    /\ cmd' = [op |-> "plug", port |-> None, arg |-> present'[p]]
    /\ out' = <<>>
    /\ UNCHANGED lp

Next ==
    \/ \E port \in Args \cup {None} :
          \/ \E mode \in {"eeprom", "oneline", "raw"}, dom \in BOOLEAN :
                eeprom(port, mode, dom)
          \/ presence(port)
          \/ lpmode(port)
    \/ \E port \in Args, enable \in BOOLEAN : set_lpmode(port, enable)
    \/ \E port \in Args : reset(port)
    \/ \E p \in Physical : Plug(p)

Spec == Init /\ [][Next]_vars

-----------------------------------------------------------------------------
(***************************************************************************)
(* Properties.                                                             *)
(***************************************************************************)

(* After `sfputil lpmode on|off <port>`, every physical port the output    *)
(* reports "OK" for is in the requested mode: the plugin was called on the *)
(* port the line names, read as get_physical_port_name's comment says a   *)
(* ganged member's name is read (logical_port:port_num).                  *)
ReportedLpmodeApplied ==
    cmd.op = "lpmode_set" /\ out \notin {InvalidPort, NoPhysical} =>
        \A k \in DOMAIN out : out[k].on => lp[PhysNamed(out[k].name)] = cmd.arg

(* `show eeprom` renders every physical port of the ports it lists: each   *)
(* ganged member appears, in the pretty output as in the raw one.          *)
EepromListsEveryPort ==
    cmd.op \in {"eeprom", "raw"} /\ out \notin {InvalidPort, NoPhysical} =>
        Len(out) = Len(FlattenSeq([k \in 1..Len(LogicalList(cmd.port)) |->
                          logical_port_name_to_physical_port_list(LogicalList(cmd.port)[k])]))

(* `show eeprom --oneline` prints, for a detected port, "port:<name>,"     *)
(* followed by the comma-separated list of every interface field outside  *)
(* the blacklist.                                                          *)
OnelineListsAllowedFields ==
    cmd.op = "oneline" /\ out \notin {InvalidPort, NoPhysical} /\ ~cmd.arg =>
        \A k \in DOMAIN out :
            out[k] # <<>> =>
                SubSeq(out[k], 3, Len(out[k]))
                    = CommaJoin(AllowedItems(IfData[PhysNamed(out[k][1].val)],
                                             ifdata_out_blacklist, <<>>))
=============================================================================
