---------------------------- MODULE ConfigDBInit ----------------------------
(***************************************************************************)
(* ConfigDBConnector.connect(wait_for_init=True) (swsssdk/configdb.py) in  *)
(* several consumer processes, against the loader `config reload`          *)
(* (sonic-utilities/config/main.py), which clears the configuration        *)
(* database, bulk-loads it and then sets CONFIG_DB_INITIALIZED.            *)
(*                                                                         *)
(* A consumer reads the indicator; if it is not set it psubscribes to the  *)
(* indicator's keyspace channel and, for every message on it, reads the    *)
(* indicator again until it is set.  Only SET publishes on that channel:   *)
(* FLUSHDB publishes no per-key event.  The bulk load writes other keys,   *)
(* whose events do not match the consumer's pattern, so it is one step     *)
(* that makes the configuration complete.                                  *)
(***************************************************************************)
EXTENDS Naturals

CONSTANTS
    Consumers,  \* processes calling ConfigDBConnector.connect()
    MaxReloads, \* bound on `config reload` runs
    LoadMayFail \* whether sonic-cfggen may exit with an error

ASSUME MaxReloads \in Nat /\ LoadMayFail \in BOOLEAN

VARIABLES
    init,       \* CONFIG_DB_INITIALIZED is set
    complete,   \* the configuration database holds the whole configuration
    lpc,        \* loader: "connect", "flush", "load", "set", "done"
    reloads,    \* reloads finished
    cpc,        \* consumer: "idle", "get", "sub", "listen", "ready"
    subscribed, \* the consumer's psubscribe on the indicator is active
    inbox       \* indicator messages delivered to the consumer, not yet read

vars == <<init, complete, lpc, reloads, cpc, subscribed, inbox>>
loaderVars   == <<lpc, reloads>>
consumerVars == <<cpc, subscribed, inbox>>

TypeOK ==
    /\ init \in BOOLEAN
    /\ complete \in BOOLEAN
    /\ lpc \in {"connect", "flush", "load", "set", "done"}
    /\ reloads \in 0..MaxReloads
    /\ cpc \in [Consumers -> {"idle", "get", "sub", "listen", "ready"}]
    /\ subscribed \in [Consumers -> BOOLEAN]
    /\ inbox \in [Consumers -> 0..MaxReloads]
    \* only a consumer inside its listen loop holds the subscription
    /\ \A c \in Consumers : subscribed[c] => cpc[c] = "listen"

\* A running system: configured, and the indicator set.
Init ==
    /\ init = TRUE
    /\ complete = TRUE
    /\ lpc = IF MaxReloads > 0 THEN "connect" ELSE "done"
    /\ reloads = 0
    /\ cpc = [c \in Consumers |-> "idle"]
    /\ subscribed = [c \in Consumers |-> FALSE]
    /\ inbox = [c \in Consumers |-> 0]

-----------------------------------------------------------------------------
(***************************************************************************)
(* The loader: reload(filename).                                           *)
(***************************************************************************)

\* config_db.connect(): its own wait for init returns at once, the
\* indicator being set when no other reload runs.
LoaderConnect ==
    /\ lpc = "connect"
    /\ init
    /\ lpc' = "flush"
    /\ UNCHANGED <<init, complete, reloads>>
    /\ UNCHANGED consumerVars

\* client.flushdb(): every key goes, the indicator with them.
Flush ==
    /\ lpc = "flush"
    /\ init' = FALSE
    /\ complete' = FALSE
    /\ lpc' = "load"
    /\ UNCHANGED reloads
    /\ UNCHANGED consumerVars

\* sonic-cfggen -j filename --write-to-db.
Load ==
    /\ lpc = "load"
    /\ complete' = TRUE
    /\ lpc' = "set"
    /\ UNCHANGED <<init, reloads>>
    /\ UNCHANGED consumerVars

\* sonic-cfggen exits with an error, having written part of the file or
\* none of it: run_command calls sys.exit, so the reload ends without
\* setting the indicator.
LoadFails ==
    /\ LoadMayFail
    /\ lpc = "load"
    /\ reloads' = reloads + 1
    /\ lpc' = IF reloads + 1 < MaxReloads THEN "connect" ELSE "done"
    /\ UNCHANGED <<init, complete>>
    /\ UNCHANGED consumerVars

\* client.set(INIT_INDICATOR, True): every subscribed consumer gets the
\* keyspace message; the command then exits (or is run again).
SetInit ==
    /\ lpc = "set"
    /\ init' = TRUE
    /\ inbox' = [c \in Consumers |->
                    IF subscribed[c] THEN inbox[c] + 1 ELSE inbox[c]]
    /\ reloads' = reloads + 1
    /\ lpc' = IF reloads + 1 < MaxReloads THEN "connect" ELSE "done"
    /\ UNCHANGED <<complete, cpc, subscribed>>

-----------------------------------------------------------------------------
(***************************************************************************)
(* A consumer: connect() then __wait_for_db_init().                        *)
(***************************************************************************)

\* SonicV2Connector.connect(self, CONFIG_DB, retry_on).
Start(c) ==
    /\ cpc[c] = "idle"
    /\ cpc' = [cpc EXCEPT ![c] = "get"]
    /\ UNCHANGED <<init, complete, subscribed, inbox>>
    /\ UNCHANGED loaderVars

\* initialized = client.get(INIT_INDICATOR); if set, connect() returns.
GetInit(c) ==
    /\ cpc[c] = "get"
    /\ cpc' = [cpc EXCEPT ![c] = IF init THEN "ready" ELSE "sub"]
    /\ UNCHANGED <<init, complete, subscribed, inbox>>
    /\ UNCHANGED loaderVars

\* pubsub.psubscribe("__keyspace@<db>__:CONFIG_DB_INITIALIZED").
PSubscribe(c) ==
    /\ cpc[c] = "sub"
    /\ subscribed' = [subscribed EXCEPT ![c] = TRUE]
    /\ cpc' = [cpc EXCEPT ![c] = "listen"]
    /\ UNCHANGED <<init, complete, inbox>>
    /\ UNCHANGED loaderVars

\* Bug variant: leave the loop on the message without reading the
\* indicator again.
ListenNoReread(c) ==
    /\ cpc[c] = "listen"
    /\ inbox[c] > 0
    /\ inbox' = [inbox EXCEPT ![c] = inbox[c] - 1]
    /\ subscribed' = [subscribed EXCEPT ![c] = FALSE]
    /\ cpc' = [cpc EXCEPT ![c] = "ready"]
    /\ UNCHANGED <<init, complete>>
    /\ UNCHANGED loaderVars

\* Bug variant: break out of the loop without punsubscribe.
ListenKeepSubscription(c) ==
    /\ cpc[c] = "listen"
    /\ inbox[c] > 0
    /\ inbox' = [inbox EXCEPT ![c] = inbox[c] - 1]
    /\ cpc' = [cpc EXCEPT ![c] = IF init THEN "ready" ELSE "listen"]
    /\ UNCHANGED <<init, complete, subscribed>>
    /\ UNCHANGED loaderVars

\* A pmessage on the indicator's channel: read it again; break and
\* punsubscribe if it is set, otherwise keep listening.
Listen(c) ==
    /\ cpc[c] = "listen"
    /\ inbox[c] > 0
    /\ inbox' = [inbox EXCEPT ![c] = inbox[c] - 1]
    /\ IF init
         THEN /\ subscribed' = [subscribed EXCEPT ![c] = FALSE]
              /\ cpc' = [cpc EXCEPT ![c] = "ready"]
         ELSE UNCHANGED <<subscribed, cpc>>
    /\ UNCHANGED <<init, complete>>
    /\ UNCHANGED loaderVars

-----------------------------------------------------------------------------
Loader == LoaderConnect \/ Flush \/ Load \/ LoadFails \/ SetInit

Waiting(c) == GetInit(c) \/ PSubscribe(c) \/ Listen(c)

Next ==
    \/ Loader
    \/ \E c \in Consumers : Start(c) \/ Waiting(c)

(***************************************************************************)
(* The reload command runs to its end; a consumer that has called          *)
(* connect() keeps running.  Starting a consumer is not forced.            *)
(***************************************************************************)
Fairness == WF_vars(Loader) /\ \A c \in Consumers : WF_vars(Waiting(c))

Spec == Init /\ [][Next]_vars /\ Fairness

-----------------------------------------------------------------------------
(***************************************************************************)
(* Properties.                                                             *)
(***************************************************************************)

(* A consumer leaves __wait_for_db_init only when the configuration        *)
(* database holds the whole configuration, even when a notification from   *)
(* one reload is read after the next reload has flushed the database.      *)
ReadyOnlyWhenLoaded ==
    [][\A c \in Consumers :
          (cpc[c] # "ready" /\ cpc'[c] = "ready") => complete]_vars

(* Every consumer that calls connect(wait_for_init=True) returns from it   *)
(* once the loader has set the indicator (spec.md 4.5: block until the     *)
(* InitIndicator key appears).                                             *)
EveryConsumerReady ==
    \A c \in Consumers : (cpc[c] # "idle") ~> (cpc[c] = "ready")
=============================================================================
