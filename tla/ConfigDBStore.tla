---------------------------- MODULE ConfigDBStore ----------------------------
(***************************************************************************)
(* A ConfigDBConnector client writing and reading the configuration        *)
(* database (swsssdk/configdb.py set_entry, set_config, get_entry,         *)
(* get_table, get_config).  The database maps hash names to raw rows;      *)
(* HMSET merges the given columns into an existing hash, DEL removes it,   *)
(* and a hash with no column does not exist.  `written` is a history       *)
(* variable: the data of the last set_entry of each (table, key).          *)
(***************************************************************************)
EXTENDS ConfigDBTyped, FiniteSets

CONSTANTS
    Tables,     \* table names given to set_entry / get_table (strings)
    Keys,       \* row keys: [str |-> s] or [tuple |-> <<s1, s2, ...>>]
    Data,       \* typed rows given to set_entry (None excluded)
    MaxWrites,  \* bound on set_entry / set_config calls
    NoWrite     \* "never written"


Slots == Tables \X Keys

VARIABLES
    db,         \* the configuration database: hash name -> raw row
    written,    \* (table, key) -> the data of its last set_entry
    writes      \* set_entry / set_config calls so far

vars == <<db, written, writes>>

HashNames == {HashName(s[1], s[2]) : s \in Slots}

TypeOK ==
    /\ DOMAIN db \subseteq HashNames
    \* Redis keeps no empty hash
    /\ \A h \in DOMAIN db : DOMAIN db[h] # {}
    /\ written \in [Slots -> Data \cup {None, NoWrite}]
    /\ writes \in 0..MaxWrites

Init ==
    /\ db = [h \in {} |-> NoColumns]
    /\ written = [s \in Slots |-> NoWrite]
    /\ writes = 0

(***************************************************************************)
(* The store commands.                                                     *)
(***************************************************************************)
Hgetall(h) == IF h \in DOMAIN db THEN db[h] ELSE NoColumns

Delete(d, h) == [x \in DOMAIN d \ {h} |-> d[x]]

\* Bug variant: the existing columns win over the written ones.
HmsetOldFirst(d, h, raw) ==
    [x \in DOMAIN d \cup {h} |->
        IF x # h THEN d[x] ELSE IF h \in DOMAIN d THEN d[h] @@ raw ELSE raw]

\* HMSET h raw: the given columns replace theirs, the others stay.
Hmset(d, h, raw) ==
    [x \in DOMAIN d \cup {h} |->
        IF x # h THEN d[x] ELSE IF h \in DOMAIN d THEN raw @@ d[h] ELSE raw]

\* set_entry(table, key, data) applied to the database d.
WriteEntry(d, table, key, data) ==
    LET h == HashName(table, key) IN
    IF data = None THEN Delete(d, h) ELSE Hmset(d, h, __typed_to_raw(data))

SetEntry(table, key, data) ==
    /\ writes < MaxWrites
    /\ db' = WriteEntry(db, table, key, data)
    /\ written' = [written EXCEPT ![<<table, key>>] = data]
    /\ writes' = writes + 1

(***************************************************************************)
(* set_config(data): set_entry for every table and key of data, in dict    *)
(* order.  data holds one entry per slot; two of them are enough for the   *)
(* order to matter.                                                        *)
(***************************************************************************)
SetConfig(s1, d1, s2, d2) ==
    /\ writes < MaxWrites
    /\ s1 # s2
    /\ db' = WriteEntry(WriteEntry(db, s1[1], s1[2], d1), s2[1], s2[2], d2)
    /\ written' = [written EXCEPT ![s1] = d1, ![s2] = d2]
    /\ writes' = writes + 1

Next ==
    \/ \E t \in Tables, k \in Keys, d \in Data \cup {None} : SetEntry(t, k, d)
    \/ \E s1, s2 \in Slots, d1, d2 \in Data \cup {None} : SetConfig(s1, d1, s2, d2)

Spec == Init /\ [][Next]_vars

-----------------------------------------------------------------------------
(***************************************************************************)
(* The reads, as operators on the current database.                        *)
(***************************************************************************)

\* get_entry(table, key): the possible results (see __raw_to_typed).
get_entry(table, key) == __raw_to_typed(Hgetall(HashName(table, key)))

\* KEYS pattern 'T|*' as a predicate on hash names.
MatchesTable(h, table) == IsPrefix(UpperStr(table) \o <<Sep>>, h)

\* The keys get_table(table) returns: `if entry:` drops empty rows.
get_table_keys(table) ==
    {deserialize_key(SplitTableKey(h)[2]) :
        h \in {h \in DOMAIN db : MatchesTable(h, table)
                                 /\ \A e \in __raw_to_typed(db[h]) : e # NoColumns}}

\* The (table name, key) pairs get_config() returns: every hash that splits.
get_config_keys ==
    {<<SplitTableKey(h)[1], deserialize_key(SplitTableKey(h)[2])>> :
        h \in {h \in DOMAIN db : SplitTableKey(h) # None}}

-----------------------------------------------------------------------------
(***************************************************************************)
(* Properties.                                                             *)
(***************************************************************************)
LastData(s) == written[s] \notin {None, NoWrite}

(* Every column of the last set_entry of an entry reads back through       *)
(* get_entry with the value written: HMSET, the "@" list encoding and the  *)
(* split on "," in __raw_to_typed preserve it (spec.md 8, first property). *)
ColumnsReadBack ==
    \A s \in Slots : LastData(s) =>
        \A e \in get_entry(s[1], s[2]), c \in DOMAIN written[s] :
            c \in DOMAIN e /\ e[c] = written[s][c]

(* get_table(table) lists every key whose last set_entry wrote columns,    *)
(* under the key it was written with, and no deleted key: KEYS 'T|*',      *)
(* split and deserialize_key invert set_entry's hash name.                 *)
WrittenRowsListed ==
    \A t \in Tables :
        /\ {k \in Keys : LastData(<<t, k>>) /\ written[<<t, k>>] # NoColumns}
              \subseteq get_table_keys(t)
        /\ get_table_keys(t) \subseteq {k \in Keys : LastData(<<t, k>>)}
=============================================================================
