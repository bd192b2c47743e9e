--------------------------- MODULE ConfigDBListen ---------------------------
(***************************************************************************)
(* ConfigDBConnector's change dispatch (swsssdk/configdb.py subscribe,     *)
(* unsubscribe, __fire, listen) in a daemon that keeps a view of the       *)
(* tables it handles, against writers using set_entry.                     *)
(*                                                                         *)
(* listen() psubscribes to __keyspace@<db>__:* and, for each pmessage,     *)
(* splits the key into table and row; if a handler is registered for the  *)
(* table it re-reads the row with hgetall and calls the handler.  The      *)
(* message carries only the key and the command, so what the handler gets *)
(* is the row when the message is handled, not when it was written.  The   *)
(* handler stores the data it is given in `view`.                          *)
(*                                                                         *)
(* Another thread of the daemon may subscribe and unsubscribe while        *)
(* listen() runs: __fire tests has_key and then indexes self.handlers, two *)
(* steps between which a handler can go.                                   *)
(***************************************************************************)
EXTENDS Naturals, Sequences

CONSTANTS
    Tables,     \* table names
    Rows,       \* row keys inside a table
    Values,     \* typed rows with columns (abstract)
    Absent,     \* no such hash
    Empty,      \* a hash holding only the NULL placeholder
    Other,      \* a key outside the TABLE|row format (CONFIG_DB_INITIALIZED)
    None,       \* set_entry(..., None): delete
    MaxWrites   \* bound on writes

Hashes == Tables \X Rows
NoColumns == "{}"   \* the typed row with no column

VARIABLES
    row,        \* the configuration database: hash -> Absent, Empty or a value
    handlers,   \* tables with a registered handler
    lpc,        \* the listening thread: "init" before psubscribe, "listening",
                \* "fire" and "lookup" inside __fire, "dead" after an exception
    key,        \* the hash whose message it is handling
    data,       \* the typed row hgetall returned for it
    queue,      \* keys of the pmessages delivered and not yet handled
    view,       \* what the handler was last given for each hash
    since,      \* hashes with an event published since psubscribe (history)
    writes      \* writes so far

vars == <<row, handlers, lpc, queue, key, data, view, since, writes>>

\* __raw_to_typed(client.hgetall(key)): the NULL column is dropped.
Typed(v) == IF v \in {Absent, Empty} THEN NoColumns ELSE v

TypeOK ==
    /\ row \in [Hashes -> Values \cup {Absent, Empty}]
    /\ handlers \subseteq Tables
    /\ lpc \in {"init", "listening", "fire", "lookup", "dead"}
    /\ key \in Hashes
    /\ data \in Values \cup {NoColumns}
    /\ queue \in Seq(Hashes \cup {Other})
    /\ Len(queue) <= MaxWrites
    /\ view \in [Hashes -> Values \cup {NoColumns}]
    /\ since \subseteq Hashes
    /\ writes \in 0..MaxWrites

Init ==
    /\ row \in [Hashes -> Values \cup {Absent, Empty}]
    /\ handlers = {}
    /\ lpc = "init"
    /\ queue = <<>>
    /\ key \in Hashes
    /\ data = NoColumns
    /\ view = [h \in Hashes |-> NoColumns]
    /\ since = {}
    /\ writes = 0

\* The pattern subscription is in place from listen()'s psubscribe on.
Subscribed == lpc # "init"

\* The server publishes a keyspace event for key k to the listener.
Publish(k) == IF Subscribed THEN Append(queue, k) ELSE queue

Noted(h) == IF Subscribed THEN since \cup {h} ELSE since

-----------------------------------------------------------------------------
(***************************************************************************)
(* Writers: set_entry and the init indicator.                              *)
(***************************************************************************)

\* set_entry(table, key, data): HMSET of the typed row, or of NULL:NULL for
\* {}, which leaves an existing row's columns; both publish "hset".
SetEntry(h, d) ==
    /\ writes < MaxWrites
    /\ row' = [row EXCEPT ![h] = IF d = Empty /\ row[h] # Absent THEN @ ELSE d]
    /\ queue' = Publish(h)
    /\ since' = Noted(h)
    /\ writes' = writes + 1
    /\ UNCHANGED <<handlers, lpc, key, data, view>>

\* set_entry(table, key, None): DEL, which publishes "del" only when the
\* key existed.
DeleteEntry(h) ==
    /\ writes < MaxWrites
    /\ row' = [row EXCEPT ![h] = Absent]
    /\ queue' = IF row[h] # Absent THEN Publish(h) ELSE queue
    /\ since' = IF row[h] # Absent THEN Noted(h) ELSE since
    /\ writes' = writes + 1
    /\ UNCHANGED <<handlers, lpc, key, data, view>>

\* client.set(INIT_INDICATOR, True) by a loader.
SetOther ==
    /\ writes < MaxWrites
    /\ queue' = Publish(Other)
    /\ writes' = writes + 1
    /\ UNCHANGED <<row, handlers, lpc, key, data, view, since>>

-----------------------------------------------------------------------------
(***************************************************************************)
(* The daemon: another of its threads subscribes and unsubscribes at any   *)
(* time; the listening thread runs listen().                               *)
(***************************************************************************)

\* subscribe(table, handler): self.handlers[table] = handler.  Rows of a
\* table changed before its handler was registered are not its handler's
\* business, so the history forgets them.
Subscribe(t) ==
    /\ handlers' = handlers \cup {t}
    /\ since' = IF t \in handlers THEN since ELSE {h \in since : h[1] # t}
    /\ UNCHANGED <<row, lpc, queue, key, data, view, writes>>

\* unsubscribe(table): pop the handler if there is one.
Unsubscribe(t) ==
    /\ handlers' = handlers \ {t}
    /\ UNCHANGED <<row, lpc, queue, key, data, view, since, writes>>

\* listen(): pubsub.psubscribe("__keyspace@<db>__:*").
Listen ==
    /\ lpc = "init"
    /\ lpc' = "listening"
    /\ UNCHANGED <<row, handlers, queue, key, data, view, since, writes>>

\* One pmessage: a key that does not split is ignored (ValueError); if
\* self.handlers.has_key(table), hgetall and __raw_to_typed the row and
\* call __fire.
Receive ==
    /\ lpc = "listening"
    /\ queue # <<>>
    /\ LET k == Head(queue) IN
         IF k # Other /\ k[1] \in handlers
         THEN /\ lpc' = "fire"
              /\ key' = k
              /\ data' = Typed(row[k])
         ELSE UNCHANGED <<lpc, key, data>>
    /\ queue' = Tail(queue)
    /\ UNCHANGED <<row, handlers, view, since, writes>>

\* __fire: if self.handlers.has_key(table) is false by now, nothing.
FireCheck ==
    /\ lpc = "fire"
    /\ lpc' = IF key[1] \in handlers THEN "lookup" ELSE "listening"
    /\ UNCHANGED <<row, handlers, queue, key, data, view, since, writes>>

\* __fire: handler = self.handlers[table]; handler(table, key, data).  A
\* handler popped since has_key raises KeyError, which is not the
\* ValueError listen() catches: the listening thread ends.
FireCall ==
    /\ lpc = "lookup"
    /\ IF key[1] \in handlers
       THEN /\ view' = [view EXCEPT ![key] = data]
            /\ lpc' = "listening"
       ELSE /\ lpc' = "dead"
            /\ UNCHANGED view
    /\ UNCHANGED <<row, handlers, queue, key, data, since, writes>>

Listener == Listen \/ Receive \/ FireCheck \/ FireCall

Next ==
    \/ \E h \in Hashes, d \in Values \cup {Empty} : SetEntry(h, d)
    \/ \E h \in Hashes : DeleteEntry(h)
    \/ SetOther
    \/ \E t \in Tables : Subscribe(t) \/ Unsubscribe(t)
    \/ Listener

(***************************************************************************)
(* The listening thread loops on pubsub.listen(); the daemon reaches       *)
(* listen().  Writers and the other thread are not forced to act.          *)
(***************************************************************************)
Fairness == WF_vars(Listener)

Spec == Init /\ [][Next]_vars /\ Fairness

-----------------------------------------------------------------------------
(***************************************************************************)
(* Properties.                                                             *)
(***************************************************************************)

(* Once the writers stop, the daemon's view of every row of a table it     *)
(* handles, changed after listen() psubscribed and after the table's      *)
(* handler was registered, matches the database, whichever intermediate    *)
(* states the handler was shown, deletions included: listen() re-reads the *)
(* row for every message and loops until the subscription is closed        *)
(* (spec.md 4.5), whatever the other thread registers or removes.          *)
ViewConverges ==
    <>[](\A h \in since : h[1] \in handlers => view[h] = Typed(row[h]))
=============================================================================
