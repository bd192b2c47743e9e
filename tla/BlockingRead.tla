---------------------------- MODULE BlockingRead ----------------------------
(***************************************************************************)
(* What one call of a @blockable read primitive promises its caller       *)
(* (spec.md 4.3, 7): the call reads the store at some instant while it     *)
(* runs, possibly several times, and its result is decided by the last     *)
(* of these reads: data when that read found the data; otherwise an       *)
(* explicit "no data" (None) for a non-blocking call and                   *)
(* UnavailableDataError for a blocking one.  A read the server rejects    *)
(* (a hash read on a string key) ends the call at once with the            *)
(* ResponseError (spec.md 4.3 step 3).  Transient connection faults are    *)
(* retried, so no other outcome is allowed.  The store itself is changed  *)
(* by other processes at any time.                                         *)
(***************************************************************************)
EXTENDS RedisStore

CONSTANT RDB    \* the database the caller reads

ASSUME RDB \in DBs

VARIABLES
    store,      \* the whole store
    pc,         \* "idle" or "busy"
    req,        \* the request of the current or last call
    blocking,   \* its blocking flag
    observed,   \* result of its last read: "unread", "avail", "absent" or "rejected"
    outcome     \* how the last call ended

vars == <<store, pc, req, blocking, observed, outcome>>

Outcomes == {"pending", "data", "none", "unavailable", "response_error"}

Allowed(obs, b) ==
    CASE obs = "avail"       -> {"data"}
      [] obs = "absent" /\ b -> {"unavailable"}
      [] obs = "absent"      -> {"none"}
      [] obs = "rejected"    -> {"response_error"}
      [] OTHER               -> {}

\* What one read of the store finds.
Read(r, db) ==
    CASE Rejected(r, db)  -> "rejected"
      [] Available(r, db) -> "avail"
      [] OTHER            -> "absent"

Init ==
    /\ store \in Store
    /\ pc = "idle"
    /\ req \in Requests
    /\ blocking \in BOOLEAN
    /\ observed = "unread"
    /\ outcome \in Outcomes

Invoke(r, b) ==
    /\ pc = "idle"
    /\ pc' = "busy"
    /\ req' = r
    /\ blocking' = b
    /\ observed' = "unread"
    /\ outcome' = "pending"
    /\ UNCHANGED store

Observe ==
    /\ pc = "busy"
    /\ observed' = Read(req, store[RDB])
    /\ UNCHANGED <<store, pc, req, blocking, outcome>>

Respond ==
    /\ pc = "busy"
    /\ outcome' \in Allowed(observed, blocking)
    /\ pc' = "idle"
    /\ UNCHANGED <<store, req, blocking, observed>>

\* A read and the end of the call may be one step.
ObserveAndRespond ==
    /\ pc = "busy"
    /\ observed' = Read(req, store[RDB])
    /\ outcome' \in Allowed(observed', blocking)
    /\ pc' = "idle"
    /\ UNCHANGED <<store, req, blocking>>

Env ==
    /\ store' \in Store
    /\ UNCHANGED <<pc, req, blocking, observed, outcome>>

Next ==
    \/ \E r \in Requests, b \in BOOLEAN : Invoke(r, b)
    \/ Observe
    \/ Respond
    \/ ObserveAndRespond
    \/ Env

Spec == Init /\ [][Next]_vars
=============================================================================
