----------------------------- MODULE RedisStore -----------------------------
(***************************************************************************)
(* The hash-table store as the swsssdk client sees it: several logical     *)
(* databases, each a map from hash keys to rows of fields, and the         *)
(* read primitives of DBInterface (swsssdk/interface.py) reduced to what   *)
(* decides their control flow: whether the primitive raises               *)
(* UnavailableDataError, and which pub-sub payload it then waits for.     *)
(*                                                                         *)
(* Field values are abstract; the only value the code tells apart is the   *)
(* empty string, which `if not val` treats like a missing field.  A key    *)
(* may also hold a string (written with SET, like CONFIG_DB_INITIALIZED),  *)
(* on which HGET and HGETALL fail with a WRONGTYPE ResponseError.          *)
(***************************************************************************)
EXTENDS FiniteSets

CONSTANTS
    DBs,        \* logical databases (APPL_DB, ASIC_DB, ...)
    Hashes,     \* hash keys
    Fields,     \* field names inside a hash
    Values,     \* field values
    EmptyStr,   \* the empty string, a member of Values
    Absent,     \* "no such field"
    KeyPatterns,\* patterns of keys(), each given by the set of keys it matches
    StrVal      \* the value of a key holding a string, not a hash

ASSUME EmptyStr \in Values
ASSUME Absent \notin Values
ASSUME KeyPatterns \subseteq SUBSET Hashes

Row   == [Fields -> Values \cup {Absent}]
DB    == [Hashes -> Row \cup {StrVal}]
Store == [DBs -> DB]

EmptyRow   == [f \in Fields |-> Absent]
EmptyStore == [d \in DBs |-> [h \in Hashes |-> EmptyRow]]

\* A key exists iff it holds a string or a hash with at least one field.
KeyExists(row) == IF row = StrVal THEN TRUE ELSE \E f \in Fields : row[f] # Absent

(***************************************************************************)
(* The requests a caller can issue through the @blockable primitives.      *)
(***************************************************************************)
KeysReq   == [op : {"keys"}, pattern : KeyPatterns]
GetReq    == [op : {"get"}, hash : Hashes, field : Fields]
GetAllReq == [op : {"get_all"}, hash : Hashes]
Requests  == KeysReq \cup GetReq \cup GetAllReq

(***************************************************************************)
(* Available(r, db): the primitive returns data instead of raising         *)
(* UnavailableDataError.  keys(): `if not keys`; get(): `if not val`, so   *)
(* a missing field and an empty string both count as unavailable;          *)
(* get_all(): `if not table`.                                              *)
(***************************************************************************)
Available(r, db) ==
    CASE r.op = "keys"    -> \E h \in r.pattern : KeyExists(db[h])
      [] r.op = "get"     -> db[r.hash] # StrVal
                             /\ db[r.hash][r.field] \notin {Absent, EmptyStr}
      [] r.op = "get_all" -> db[r.hash] # StrVal /\ KeyExists(db[r.hash])

(***************************************************************************)
(* Rejected(r, db): the server answers HGET or HGETALL on a string key     *)
(* with a ResponseError (WRONGTYPE); KEYS lists keys of any type.          *)
(***************************************************************************)
Rejected(r, db) == r.op # "keys" /\ db[r.hash] = StrVal

(***************************************************************************)
(* Expected(r): the `data` carried by UnavailableDataError, compared with  *)
(* the `data` of every pub-sub message.  keys() waits for b'hset' (the     *)
(* payload of a keyspace event); get() and get_all() wait for the hash     *)
(* name (the payload of a keyevent event on that key).                     *)
(***************************************************************************)
Expected(r) == IF r.op = "keys" THEN "hset" ELSE r.hash

(***************************************************************************)
(* The payloads a write publishes when notify-keyspace-events is 'KEA' and *)
(* the subscriber's pattern is '__key*__:*': first the keyspace event      *)
(* (channel __keyspace@db__:key, data = command) then the keyevent event   *)
(* (channel __keyevent@db__:command, data = key).  The pattern covers      *)
(* every database, so the database is not part of the payload.             *)
(***************************************************************************)
Events(cmd, h) == <<cmd, h>>

Payloads == {"hset", "del", "set"} \cup Hashes
=============================================================================
