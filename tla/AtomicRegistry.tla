--------------------------- MODULE AtomicRegistry ---------------------------
(***************************************************************************)
(* What the session registry (ma-core/src/registry) promises its callers:   *)
(* one value for every session, and every call is one step.  It is what     *)
(* SessionLifecycle and the other modules take a registry call for;         *)
(* SessionRegistry, which has the single Redis commands, implements it.     *)
(*                                                                         *)
(* The promise is for sessions whose calls neither overlap nor are cut      *)
(* short.  A session that was disturbed is "loose", and stays so.           *)
(***************************************************************************)
CONSTANTS
    Session,  \* session ids
    Status,   \* the values of SessionStatus
    Targets   \* the statuses the callers of update_status ask for

VARIABLE
    view      \* for each session: "new"; its status, which means that `get'
              \* returns it and that it is listed by its status, its OS and
              \* its mode and nowhere else; "gone": deleted, and listed
              \* nowhere; "partial": a Hash that `get' rejects; or "loose"

Views == Status \cup {"new", "gone", "partial", "loose"}

TypeOK == view \in [Session -> Views]

(* Records of an earlier version are there from the start.                  *)
Init == view \in [Session -> {"new"} \cup Targets]

Becomes(s, v) == view' = [view EXCEPT ![s] = v]

Register(s) == view[s] = "new" /\ Becomes(s, "active")

(* Nothing checks that the record is still there: after a delete the HSET   *)
(* makes a Hash of one field, which is not a record.                        *)
UpdateStatus(s, new) ==
    \/ view[s] \in Status /\ Becomes(s, new)
    \/ view[s] \in {"gone", "partial"} /\ Becomes(s, "partial")

UpdateFields(s) == view[s] = "gone" /\ Becomes(s, "partial")

DeleteSession(s) == view[s] \notin {"new", "loose"} /\ Becomes(s, "gone")

(* Calls overlap or are cut short, or Redis drops a record with a TTL.  A   *)
(* kill may disturb several sessions at once.                               *)
Disturb(S) == view' = [s \in Session |-> IF s \in S THEN "loose" ELSE view[s]]

Next ==
    \/ \E s \in Session :
          \/ Register(s) \/ UpdateFields(s) \/ DeleteSession(s)
          \/ \E new \in Targets : UpdateStatus(s, new)
    \/ \E S \in SUBSET Session : Disturb(S)

Spec == Init /\ [][Next]_view
=============================================================================
