---------------------------- MODULE DBInterface -----------------------------
(***************************************************************************)
(* The @blockable read protocol of swsssdk's DBInterface                   *)
(* (swsssdk/interface.py): one caller thread running calls of keys(),     *)
(* get() and get_all() through the retry wrapper, with its lazily opened  *)
(* keyspace-notification channel, the settling wait for a matching         *)
(* pub-sub message, and reconnection after a connection error.  Around it, *)
(* a producer writing the store through DBInterface.set(),                *)
(* ConfigDBConnector.set_entry(key, None) and a plain client.set() of a    *)
(* string key, and a server whose connections can drop and come back.     *)
(*                                                                         *)
(* Time is not modelled: PUB_SUB_MAXIMUM_DATA_WAIT expiring is a step the  *)
(* waiting caller may take at any check of its loop, the sleeps are points *)
(* where the other processes run.                                          *)
(***************************************************************************)
EXTENDS RedisStore, Naturals, Sequences, SequencesExt

CONSTANTS
    RDB,        \* the database the caller reads
    MaxWrites,  \* bound on the producer's writes
    MaxFaults   \* bound on connection faults

ASSUME RDB \in DBs
ASSUME MaxWrites \in Nat /\ MaxFaults \in Nat

VARIABLES
    store,      \* contents of the server
    serverUp,   \* the server accepts connections
    faults,     \* connection faults so far
    writes,     \* producer writes so far
    pc,         \* caller: "idle", "read", "subscribe", "wait", "reconnect"
    req,        \* the request of the current (or last) call
    blocking,   \* the call's `blocking` kwarg
    chan,       \* keyspace_notification_channels[RDB]: "none" (not
                \* registered), "live", "dropped" (its connection was lost),
                \* "closed" (close() was called on it, still registered)
    buf,        \* messages received by the channel, not yet read
    observed,   \* result of the call's last read: "unread", "avail", "absent"
    outcome,    \* how the last call ended
    windows,    \* calls of _unavailable_data_handler in the current call
    lost        \* history: a message the current call waits for was lost
                \* to a connection drop

vars == <<store, serverUp, faults, writes, pc, req, blocking, chan, buf,
          observed, outcome, windows, lost>>
envVars    == <<store, serverUp, faults, writes, lost>>
callerVars == <<pc, req, blocking, chan, buf, observed, outcome, windows>>

Outcomes == {"pending", "data", "none", "unavailable",
             "conn_error", "runtime_error", "response_error"}

TypeOK ==
    /\ store \in Store
    /\ serverUp \in BOOLEAN
    /\ faults \in 0..MaxFaults
    /\ writes \in 0..MaxWrites
    /\ pc \in {"idle", "read", "subscribe", "wait", "reconnect"}
    /\ req \in Requests
    /\ blocking \in BOOLEAN
    /\ chan \in {"none", "live", "dropped", "closed"}
    /\ buf \in Seq(Payloads) /\ Len(buf) <= 2 * MaxWrites
    \* every window but the first needs a matching message, i.e. a write
    /\ windows \in 0..(MaxWrites + 1)
    /\ observed \in {"unread", "avail", "absent", "rejected"}
    /\ outcome \in Outcomes
    /\ lost \in BOOLEAN

Init ==
    /\ store = EmptyStore
    /\ serverUp = TRUE
    /\ faults = 0
    /\ writes = 0
    /\ pc = "idle"
    /\ req \in Requests
    /\ blocking = FALSE
    /\ chan = "none"
    /\ buf = <<>>
    /\ observed = "unread"
    /\ outcome = "pending"
    /\ windows = 0
    /\ lost = FALSE

-----------------------------------------------------------------------------
(***************************************************************************)
(* Channel bookkeeping.                                                    *)
(***************************************************************************)

\* close(db_name): pubsub.close() on a registered channel, which stays
\* registered; the channel's unread messages go with its connection.
CloseChan == IF chan = "none" THEN "none" ELSE "closed"

\* _unsubscribe_keyspace_notification(db_name): close and forget it.
Unsubscribe ==
    /\ chan' = "none"
    /\ buf' = <<>>

\* The caller's call returns (or raises) with outcome o.
Finish(o) ==
    /\ pc' = "idle"
    /\ outcome' = o

-----------------------------------------------------------------------------
(***************************************************************************)
(* The caller.                                                             *)
(***************************************************************************)

\* Bug variant: `windows` is not reset at the start of a call.
CallKeepsWindows(r, b) ==
    /\ pc = "idle"
    /\ pc' = "read"
    /\ req' = r
    /\ blocking' = b
    /\ observed' = "unread"
    /\ outcome' = "pending"
    /\ lost' = FALSE
    /\ UNCHANGED <<chan, buf, windows>>
    /\ UNCHANGED <<store, serverUp, faults, writes>>

\* wrapped(inst, db_name, *args, blocking=b): enter the retry loop.
Call(r, b) ==
    /\ pc = "idle"
    /\ pc' = "read"
    /\ req' = r
    /\ blocking' = b
    /\ observed' = "unread"
    /\ outcome' = "pending"
    /\ windows' = 0
    /\ lost' = FALSE
    /\ UNCHANGED <<chan, buf>>
    /\ UNCHANGED <<store, serverUp, faults, writes>>

\* f(...) returns data: unsubscribe and return it.
ReadOk ==
    /\ pc = "read"
    /\ serverUp
    /\ Available(req, store[RDB])
    /\ observed' = "avail"
    /\ Unsubscribe
    /\ Finish("data")
    /\ UNCHANGED <<req, blocking, windows>>
    /\ UNCHANGED envVars

\* Bug variant: `if blocking` is not tested, every miss returns None.
ReadNoDataAlways ==
    /\ pc = "read"
    /\ serverUp
    /\ ~Available(req, store[RDB])
    /\ ~Rejected(req, store[RDB])
    /\ observed' = "absent"
    /\ Finish("none")
    /\ UNCHANGED <<req, blocking, chan, buf, windows>>
    /\ UNCHANGED envVars

\* f(...) raises UnavailableDataError and the call is not blocking:
\* return None, leaving any registered channel as it is.
ReadNoData ==
    /\ pc = "read"
    /\ serverUp
    /\ ~Available(req, store[RDB])
    /\ ~Rejected(req, store[RDB])
    /\ ~blocking
    /\ observed' = "absent"
    /\ Finish("none")
    /\ UNCHANGED <<req, blocking, chan, buf, windows>>
    /\ UNCHANGED envVars

\* UnavailableDataError, blocking, channel registered: call
\* _unavailable_data_handler (a new wait window).
ReadThenWait ==
    /\ pc = "read"
    /\ serverUp
    /\ ~Available(req, store[RDB])
    /\ ~Rejected(req, store[RDB])
    /\ blocking
    /\ chan # "none"
    /\ observed' = "absent"
    /\ pc' = "wait"
    /\ windows' = windows + 1
    /\ UNCHANGED <<req, blocking, chan, buf, outcome>>
    /\ UNCHANGED envVars

\* Bug variant: every miss subscribes again, whether or not a channel is
\* registered.
ReadThenSubscribeAlways ==
    /\ pc = "read"
    /\ serverUp
    /\ ~Available(req, store[RDB])
    /\ ~Rejected(req, store[RDB])
    /\ blocking
    /\ observed' = "absent"
    /\ pc' = "subscribe"
    /\ UNCHANGED <<req, blocking, chan, buf, outcome, windows>>
    /\ UNCHANGED envVars

\* UnavailableDataError, blocking, no channel yet: subscribe, then read
\* again (the priming read).
ReadThenSubscribe ==
    /\ pc = "read"
    /\ serverUp
    /\ ~Available(req, store[RDB])
    /\ ~Rejected(req, store[RDB])
    /\ blocking
    /\ chan = "none"
    /\ observed' = "absent"
    /\ pc' = "subscribe"
    /\ UNCHANGED <<req, blocking, chan, buf, outcome, windows>>
    /\ UNCHANGED envVars

\* Bug variant: after subscribing, wait at once instead of reading again.
SubscribeThenWait ==
    /\ pc = "subscribe"
    /\ \/ /\ serverUp
          /\ chan' = "live"
          /\ buf' = <<>>
          /\ pc' = "wait"
          /\ UNCHANGED outcome
       \/ /\ ~serverUp
          /\ Finish("conn_error")
          /\ UNCHANGED <<chan, buf>>
    /\ UNCHANGED <<req, blocking, observed, windows>>
    /\ UNCHANGED envVars

\* _subscribe_keyspace_notification: psubscribe('__key*__:*') and
\* register the channel; loop back to the read.  A failing psubscribe is
\* raised inside the `except UnavailableDataError` clause, so it leaves
\* the wrapper.
Subscribe ==
    /\ pc = "subscribe"
    /\ \/ /\ serverUp
          /\ chan' = "live"
          /\ buf' = <<>>
          /\ pc' = "read"
          /\ UNCHANGED outcome
       \/ /\ ~serverUp
          /\ Finish("conn_error")
          /\ UNCHANGED <<chan, buf>>
    /\ UNCHANGED <<req, blocking, observed, windows>>
    /\ UNCHANGED envVars

\* f(...) raises a ResponseError (HGET/HGETALL on a string key): logged
\* and re-raised at once, not retried, and without unsubscribing.
ReadRespError ==
    /\ pc = "read"
    /\ serverUp
    /\ Rejected(req, store[RDB])
    /\ observed' = "rejected"
    /\ Finish("response_error")
    /\ UNCHANGED <<req, blocking, chan, buf, windows>>
    /\ UNCHANGED envVars

\* f(...) raises a RedisError: _connection_error_handler closes the client
\* and the channel, then reconnects.
ReadConnError ==
    /\ pc = "read"
    /\ ~serverUp
    /\ chan' = CloseChan
    /\ buf' = <<>>
    /\ pc' = "reconnect"
    /\ UNCHANGED <<req, blocking, observed, outcome, windows>>
    /\ UNCHANGED envVars

\* connect(db_name, True): _persistent_connect retries _onetime_connect
\* (client + CONFIG SET notify-keyspace-events) until the server answers.
Reconnect ==
    /\ pc = "reconnect"
    /\ serverUp
    /\ pc' = "read"
    /\ UNCHANGED <<req, blocking, chan, buf, observed, outcome, windows>>
    /\ UNCHANGED envVars

(***************************************************************************)
(* _unavailable_data_handler: get_message() until a message's data equals  *)
(* the expected payload or PUB_SUB_MAXIMUM_DATA_WAIT has elapsed.          *)
(***************************************************************************)

\* A matching message: settle, return True, and the wrapper reads again.
WaitMatch ==
    /\ pc = "wait"
    /\ chan = "live"
    /\ buf # <<>>
    /\ Head(buf) = Expected(req)
    /\ buf' = Tail(buf)
    /\ pc' = "read"
    /\ UNCHANGED <<req, blocking, chan, observed, outcome, windows>>
    /\ UNCHANGED envVars

\* Any other message is dropped and the loop goes on.
WaitSkip ==
    /\ pc = "wait"
    /\ chan = "live"
    /\ buf # <<>>
    /\ Head(buf) # Expected(req)
    /\ buf' = Tail(buf)
    /\ UNCHANGED <<pc, req, blocking, chan, observed, outcome, windows>>
    /\ UNCHANGED envVars

\* get_message() on a channel whose connection dropped reconnects it and
\* re-issues the psubscribe (messages published meanwhile are lost).
WaitResubscribe ==
    /\ pc = "wait"
    /\ chan = "dropped"
    /\ serverUp
    /\ chan' = "live"
    /\ UNCHANGED <<pc, req, blocking, buf, observed, outcome, windows>>
    /\ UNCHANGED envVars

\* The wait budget is spent: the handler returns False, the wrapper
\* unsubscribes and re-raises UnavailableDataError.
WaitTimeout ==
    /\ pc = "wait"
    /\ chan \in {"live", "dropped"}
    /\ Unsubscribe
    /\ Finish("unavailable")
    /\ UNCHANGED <<req, blocking, observed, windows>>
    /\ UNCHANGED envVars

\* get_message() while the server is down raises ConnectionError inside
\* the `except UnavailableDataError` clause: it leaves the wrapper, the
\* channel stays registered.
WaitConnError ==
    /\ pc = "wait"
    /\ chan = "dropped"
    /\ ~serverUp
    /\ Finish("conn_error")
    /\ UNCHANGED <<req, blocking, chan, buf, observed, windows>>
    /\ UNCHANGED envVars

\* get_message() on a channel close() has closed has no connection and
\* raises RuntimeError, which leaves the wrapper.
WaitStale ==
    /\ pc = "wait"
    /\ chan = "closed"
    /\ Finish("runtime_error")
    /\ UNCHANGED <<req, blocking, chan, buf, observed, windows>>
    /\ UNCHANGED envVars

-----------------------------------------------------------------------------
(***************************************************************************)
(* The producer and the server.                                            *)
(***************************************************************************)

\* Deliver the events of a write to the caller's channel if it is
\* subscribed at the server; a channel whose connection dropped misses
\* them.
Publish(cmd, h) ==
    /\ buf' = IF chan = "live" THEN buf \o Events(cmd, h) ELSE buf
    /\ lost' = (lost \/ (chan = "dropped" /\ Contains(Events(cmd, h), Expected(req))))

\* DBInterface.set(db, _hash, key, val): HSET.
HSet(d, h, f, v) ==
    /\ serverUp
    /\ writes < MaxWrites
    /\ store[d][h] # StrVal
    /\ store' = [store EXCEPT ![d][h][f] = v]
    /\ writes' = writes + 1
    /\ Publish("hset", h)
    /\ UNCHANGED <<serverUp, faults>>
    /\ UNCHANGED <<pc, req, blocking, chan, observed, outcome, windows>>

\* set_entry(table, key, None): DEL, which notifies only if the key existed.
Del(d, h) ==
    /\ serverUp
    /\ writes < MaxWrites
    /\ KeyExists(store[d][h])
    /\ store' = [store EXCEPT ![d][h] = EmptyRow]
    /\ writes' = writes + 1
    /\ Publish("del", h)
    /\ UNCHANGED <<serverUp, faults>>
    /\ UNCHANGED <<pc, req, blocking, chan, observed, outcome, windows>>

\* client.set(key, value) (as `config reload` sets CONFIG_DB_INITIALIZED):
\* the key holds a string from now on.  The hash tables that keys()
\* patterns select are never SET.
SetStr(d, h) ==
    /\ serverUp
    /\ writes < MaxWrites
    /\ h \notin UNION KeyPatterns
    /\ store' = [store EXCEPT ![d][h] = StrVal]
    /\ writes' = writes + 1
    /\ Publish("set", h)
    /\ UNCHANGED <<serverUp, faults>>
    /\ UNCHANGED <<pc, req, blocking, chan, observed, outcome, windows>>

\* Every connection to the server is lost; the channel's subscription
\* and its unread messages with it.
ConnectionLoss ==
    /\ serverUp
    /\ faults < MaxFaults
    /\ serverUp' = FALSE
    /\ faults' = faults + 1
    /\ chan' = IF chan = "live" THEN "dropped" ELSE chan
    /\ buf' = <<>>
    /\ lost' = (lost \/ Contains(buf, Expected(req)))
    /\ UNCHANGED <<store, writes>>
    /\ UNCHANGED <<pc, req, blocking, observed, outcome, windows>>

ServerBack ==
    /\ ~serverUp
    /\ serverUp' = TRUE
    /\ UNCHANGED <<store, faults, writes, lost>>
    /\ UNCHANGED callerVars

-----------------------------------------------------------------------------
CallerStep ==
    \/ ReadOk \/ ReadNoData \/ ReadThenWait \/ ReadThenSubscribe
    \/ Subscribe \/ ReadRespError \/ ReadConnError \/ Reconnect
    \/ WaitMatch \/ WaitSkip \/ WaitResubscribe \/ WaitTimeout
    \/ WaitConnError \/ WaitStale

Producer ==
    \E d \in DBs, h \in Hashes :
        \/ \E f \in Fields, v \in Values : HSet(d, h, f, v)
        \/ Del(d, h)
        \/ SetStr(d, h)

Next ==
    \/ \E r \in Requests, b \in BOOLEAN : Call(r, b)
    \/ CallerStep
    \/ Producer
    \/ ConnectionLoss
    \/ ServerBack

(***************************************************************************)
(* The caller runs on its own thread and keeps running while it is inside  *)
(* a call (its waits are bounded by wall-clock timeouts); the server comes *)
(* back after a fault.  The producer and new calls are not forced.         *)
(***************************************************************************)
Fairness == WF_vars(CallerStep) /\ WF_vars(ServerBack)

Spec == Init /\ [][Next]_vars /\ Fairness

-----------------------------------------------------------------------------
(***************************************************************************)
(* Properties.                                                             *)
(***************************************************************************)

(* No lost wake-up.  While the caller waits on a live channel for data     *)
(* that is now in the store, a message carrying the payload it waits for   *)
(* is in its channel.  This is what subscribing and then reading again     *)
(* before the first wait (interface.py, the `else` branch of the          *)
(* UnavailableDataError handler) is for: a write that lands between the    *)
(* failed read and the psubscribe would otherwise never wake the caller.   *)
NoLostWakeup ==
    (pc = "wait" /\ chan = "live" /\ Available(req, store[RDB]))
        => Contains(buf, Expected(req))

(* A wake-up is lost only to a connection drop.  While the caller waits   *)
(* on a live channel for data that is in the store, the message that      *)
(* wakes it is in its channel unless one carrying its payload was          *)
(* published while the channel's connection was down, or was discarded     *)
(* with it: get_message re-subscribes after a drop (and                    *)
(* _connection_error_handler reconnects) without replaying what the        *)
(* server published meanwhile, so a waiter can sleep through its write.    *)
WakeupLostOnlyToDrop ==
    (pc = "wait" /\ chan = "live" /\ Available(req, store[RDB])
        /\ ~Contains(buf, Expected(req)))
    => lost

(* A blocking call that gives up has waited one budget of                  *)
(* PUB_SUB_MAXIMUM_DATA_WAIT, not more (spec.md 4.4: failure once the      *)
(* cumulative elapsed time exceeds totalTimeout).  Each call of            *)
(* _unavailable_data_handler restarts its clock, and a call that ends in   *)
(* a timeout spent the whole budget in its last window, so a second        *)
(* window means the call waited longer than the budget.                    *)
WaitWithinBudget ==
    (pc = "idle" /\ outcome = "unavailable") => windows <= 1

(* The handler never waits on a channel that close() has already closed:   *)
(* after _connection_error_handler the next wait must use a live           *)
(* subscription.                                                           *)
NoWaitOnClosedChannel ==
    pc = "wait" => chan # "closed"

(* Every call ends: a blocking read returns or raises once the producer    *)
(* stops writing, and the reconnect loop ends once the server is back.     *)
CallEnds == (pc # "idle") ~> (pc = "idle")

(* The caller implements BlockingRead: every outcome is the one its last   *)
(* read allows, and no connection error reaches the caller.                *)
Abstract == INSTANCE BlockingRead
    WITH pc <- IF pc = "idle" THEN "idle" ELSE "busy"

AbstractSpec == Abstract!Spec
=============================================================================
