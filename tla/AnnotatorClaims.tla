--------------------------- MODULE AnnotatorClaims ---------------------------
(***************************************************************************)
(* Remote annotation: claims on sessions, and the operations they gate     *)
(* (handle_annotator_message and handle_annotator_session_op in            *)
(* ma-core/src/ipc/mod.rs, the claim half of ma-core/src/registry/mod.rs). *)
(*                                                                         *)
(* A claim is the Redis key claim:{session} with a 30-minute TTL.  Every   *)
(* connection handles one message at a time, but a message is a series of  *)
(* Redis commands: claims expire, and other connections act, between two   *)
(* of them.  Each command is an action here; update_status is one step,    *)
(* its HSET (SessionRegistry has its other commands).                      *)
(*                                                                         *)
(* The sessions of this module have been captured: only the annotation     *)
(* half of the life cycle is in reach.                                     *)
(***************************************************************************)
EXTENDS Naturals, FiniteSets

CONSTANTS
    Session,
    Annotator,
    Admin,        \* the local IPC socket, which needs no claim
    Conn,         \* connections, each one authenticated once, when opened
    Who,          \* whose connection it is
    Limit,        \* max_concurrent_claims of every annotator; 0 is no limit
    Created,      \* created_at of every session
    Ttl,          \* CLAIM_TTL_SECS, in ticks
    MaxClaimIds,  \* bound on the claim UUIDs drawn in one run
    Recovered,    \* sessions whose metadata.json says pending_annotation:
                  \* a Kafka replay rebuilt it (the others' says complete)
    None

ASSUME SessionAssumption == IsFiniteSet(Session) /\ None \notin Session
ASSUME WhoAssumption == Who \in [Conn -> Annotator \cup {Admin}]
ASSUME AnnotatorAssumption == Admin \notin Annotator /\ None \notin Annotator
ASSUME LimitAssumption == Limit \in [Annotator -> Nat]
ASSUME CreatedAssumption == Created \in [Session -> Nat]
ASSUME RecoveredAssumption == Recovered \subseteq Session
ASSUME BoundAssumption == Ttl \in Nat \ {0} /\ MaxClaimIds \in Nat

VARIABLES
    claim,   \* claim:{session}: owner, claim id and remaining TTL
    status,  \* status of the session record; "gone": no record `get' can read
    conn,    \* the message each connection is handling
    nextId,  \* claim ids are UUIDs: drawn once, in some order
    grant,   \* SessionClaimed replies: who was sent a claim id, for what
    ended,   \* history: granted claim ids whose key Redis no longer holds
    uncapped \* history: annotators whose limit could not be read, once

vars == <<claim, status, conn, nextId, grant, ended, uncapped>>

ClaimId == 1..MaxClaimIds
NoClaim == [owner |-> None, id |-> 0, ttl |-> 0]
NoGrant == [to |-> None, sid |-> None]
Claims == [owner : Annotator, id : ClaimId, ttl : 1..Ttl] \cup {NoClaim}

AnnotationStatus == {"pending_annotation", "pending_human_annotation",
                     "annotating", "pending_compilation", "complete", "gone"}

Kinds == {"none", "claim", "heartbeat", "release",
          "load", "close", "complete", "finalize", "delete"}
PCs == {"idle", "scan", "lua", "owner", "match", "expire", "del", "reread",
        "requeue", "exec", "annotate", "wipe", "unclaim"}

(* A message in progress, before its next command.                          *)
Message(pc, kind, s, id, todo, cap) ==
    [pc |-> pc, kind |-> kind, sid |-> s, id |-> id, todo |-> todo, cap |-> cap]

Idle == Message("idle", "none", None, 0, {}, TRUE)

Messages == [pc : PCs, kind : Kinds, sid : Session \cup {None},
             id : 0..MaxClaimIds, todo : SUBSET Session, cap : BOOLEAN]

TypeOK ==
    /\ claim \in [Session -> Claims]
    /\ status \in [Session -> AnnotationStatus]
    /\ conn \in [Conn -> Messages]
    /\ nextId \in 1..(MaxClaimIds + 1)
    /\ grant \in [ClaimId -> [to : Annotator, sid : Session] \cup {NoGrant}]
    /\ ended \subseteq ClaimId
    /\ uncapped \subseteq Annotator

-----------------------------------------------------------------------------
Goto(c, pc) == [conn EXCEPT ![c].pc = pc]
Reply(c) == [conn EXCEPT ![c] = Idle]

IsAnnotator(c) == Who[c] \in Annotator

Claimed(s) == claim[s] # NoClaim

(* The number of claim keys whose value starts with "{annotator}:".         *)
ClaimsOf(a) == {s \in Session : claim[s].owner = a}
ClaimCount(a) == Cardinality(ClaimsOf(a))

Init ==
    /\ claim = [s \in Session |-> NoClaim]
    /\ status \in [Session -> {"pending_annotation", "pending_human_annotation"}]
    /\ conn = [c \in Conn |-> Idle]
    /\ nextId = 1
    /\ grant = [i \in ClaimId |-> NoGrant]
    /\ ended = {}
    /\ uncapped = {}

-----------------------------------------------------------------------------
(* Broken variants of actions below, named after the action and the slip:   *)
(* put in the place of the action, each one violates a property checked of  *)
(* this module.  No specification uses them.                                *)

ScanOne_NoProgress(c, s, read) ==   \* the member stays to be looked at
    /\ conn[c].pc = "scan"
    /\ s \in conn[c].todo
    /\ conn' = [conn EXCEPT ![c].sid = IF Claimed(s) THEN @ ELSE s]
    /\ UNCHANGED <<claim, status, nextId, grant, ended, uncapped>>

LuaClaim_OffByOne(c) ==   \* > for >= in the limit check
    /\ conn[c].pc = "lua"
    /\ LET a == Who[c]
           s == conn[c].sid
           id == conn[c].id
       IN  IF (conn[c].cap /\ Limit[a] > 0 /\ ClaimCount(a) > Limit[a]) \/ Claimed(s)
           THEN UNCHANGED <<claim, grant>>
           ELSE /\ claim' = [claim EXCEPT ![s] = [owner |-> a, id |-> id, ttl |-> Ttl]]
                /\ grant' = [grant EXCEPT ![id] = [to |-> a, sid |-> s]]
    /\ conn' = Reply(c)
    /\ UNCHANGED <<status, nextId, ended, uncapped>>

LuaClaim_NoNX(c) ==   \* SET EX without NX
    /\ conn[c].pc = "lua"
    /\ claim' = [claim EXCEPT ![conn[c].sid] =
                    [owner |-> Who[c], id |-> conn[c].id, ttl |-> Ttl]]
    /\ grant' = [grant EXCEPT ![conn[c].id] = [to |-> Who[c], sid |-> conn[c].sid]]
    /\ conn' = Reply(c)
    /\ UNCHANGED <<status, nextId, ended, uncapped>>

RefreshClaim_Adds(c) ==   \* EXPIRE extends what is left of the TTL
    /\ conn[c].pc = "expire"
    /\ claim' = IF Claimed(conn[c].sid)
                THEN [claim EXCEPT ![conn[c].sid].ttl = @ + Ttl]
                ELSE claim
    /\ conn' = Reply(c)
    /\ UNCHANGED <<status, nextId, grant, ended, uncapped>>

-----------------------------------------------------------------------------
(* ClaimSession reads the limit of its annotator first, and takes a failed  *)
(* read for "no limit".                                                     *)
Draw(c, cap) ==
    /\ conn[c].pc = "idle"
    /\ IsAnnotator(c)
    /\ nextId <= MaxClaimIds
    /\ nextId' = nextId + 1
    /\ uncapped' = IF cap THEN uncapped ELSE uncapped \cup {Who[c]}
    /\ UNCHANGED <<claim, status, grant, ended>>

(* With a session id: straight to the script.  Neither the status nor the   *)
(* tenant of the session is looked at.                                      *)
ClaimSession(c, s, cap) ==
    /\ Draw(c, cap)
    /\ conn' = [conn EXCEPT ![c] = Message("lua", "claim", s, nextId, {}, cap)]

(* Without one: SMEMBERS of the human queue, then one look at every member; *)
(* the oldest one unclaimed when it was looked at is the target.            *)
AutoClaim(c, cap) ==
    /\ Draw(c, cap)
    /\ conn' = [conn EXCEPT ![c] =
                  Message("scan", "claim", None, nextId,
                      {s \in Session : status[s] = "pending_human_annotation"}, cap)]

(* A failed GET of the claim counts as no claim; a failed read of the       *)
(* record skips the session.                                                *)
ScanOne(c, s, read) ==
    /\ conn[c].pc = "scan"
    /\ s \in conn[c].todo
    /\ LET best == conn[c].sid
           free == read = "no_owner" \/ ~Claimed(s)
           better == /\ free /\ read # "no_record" /\ status[s] # "gone"
                     /\ best = None \/ Created[s] < Created[best]
       IN  conn' = [conn EXCEPT ![c].todo = @ \ {s},
                                ![c].sid = IF better THEN s ELSE @]
    /\ UNCHANGED <<claim, status, nextId, grant, ended, uncapped>>

ScanDone(c) ==
    /\ conn[c].pc = "scan"
    /\ conn[c].todo = {}
    /\ conn' = IF conn[c].sid = None THEN Reply(c)   \* QUEUE_EMPTY
               ELSE Goto(c, "lua")
    /\ UNCHANGED <<claim, status, nextId, grant, ended, uncapped>>

(* The Lua script, atomic in Redis: count the annotator's claims against    *)
(* the limit, then SET NX EX.                                               *)
LuaClaim(c) ==
    /\ conn[c].pc = "lua"
    /\ LET a == Who[c]
           s == conn[c].sid
           id == conn[c].id
           atLimit == conn[c].cap /\ Limit[a] > 0 /\ ClaimCount(a) >= Limit[a]
       IN  IF atLimit \/ Claimed(s)   \* ClaimLimitReached, ClaimConflict
           THEN UNCHANGED <<claim, grant>>
           ELSE /\ claim' = [claim EXCEPT ![s] = [owner |-> a, id |-> id, ttl |-> Ttl]]
                /\ grant' = [grant EXCEPT ![id] = [to |-> a, sid |-> s]]
    /\ conn' = Reply(c)
    /\ UNCHANGED <<status, nextId, ended, uncapped>>

-----------------------------------------------------------------------------
(* Every other message starts with GET claim:{session} and the owner in it, *)
(* except on the admin socket.  HeartbeatClaim and ReleaseSession carry the *)
(* claim id that came with the claim.                                       *)
Request(c, kind, s, id) ==
    /\ conn[c].pc = "idle"
    /\ IF IsAnnotator(c)
       THEN kind \in {"heartbeat", "release", "load", "close", "complete"}
       ELSE kind \in {"load", "close", "complete", "finalize", "delete"}
    /\ IF kind \in {"heartbeat", "release"}
       THEN id \in ClaimId /\ grant[id] = [to |-> Who[c], sid |-> s]
       ELSE id = 0
    /\ conn' = [conn EXCEPT ![c] =
                  Message(IF IsAnnotator(c) THEN "owner" ELSE "exec", kind, s, id, {}, TRUE)]
    /\ UNCHANGED <<claim, status, nextId, grant, ended, uncapped>>

CheckOwner(c) ==
    /\ conn[c].pc = "owner"
    /\ conn' = IF claim[conn[c].sid].owner # Who[c] THEN Reply(c)  \* NOT_OWNER
               ELSE Goto(c, IF conn[c].kind \in {"heartbeat", "release"}
                            THEN "match" ELSE "exec")
    /\ UNCHANGED <<claim, status, nextId, grant, ended, uncapped>>

(* verify_claim_id and the GET of refresh_claim.                            *)
MatchClaimId(c) ==
    /\ conn[c].pc = "match"
    /\ conn' = IF claim[conn[c].sid].id # conn[c].id THEN Reply(c)
               ELSE Goto(c, IF conn[c].kind = "heartbeat" THEN "expire" ELSE "del")
    /\ UNCHANGED <<claim, status, nextId, grant, ended, uncapped>>

(* EXPIRE of refresh_claim: on whatever claim the key holds by now.         *)
RefreshClaim(c) ==
    /\ conn[c].pc = "expire"
    /\ claim' = IF Claimed(conn[c].sid)
                THEN [claim EXCEPT ![conn[c].sid].ttl = Ttl]
                ELSE claim
    /\ conn' = Reply(c)
    /\ UNCHANGED <<status, nextId, grant, ended, uncapped>>

(* A DEL of claim:{session}, whatever the key holds by now.                 *)
DropClaim(s) ==
    /\ claim' = [claim EXCEPT ![s] = NoClaim]
    /\ ended' = IF Claimed(s) THEN ended \cup {claim[s].id} ELSE ended

(* DEL of release_claim.                                                    *)
ReleaseClaim(c) ==
    /\ conn[c].pc = "del"
    /\ DropClaim(conn[c].sid)
    /\ conn' = Goto(c, "reread")
    /\ UNCHANGED <<status, nextId, grant, uncapped>>

(* update_status on a deleted session makes a Hash that `get' rejects.       *)
SetTo(s, new) == [status EXCEPT ![s] = IF @ = "gone" THEN @ ELSE new]

(* After a release: read the record and, if it says annotating, requeue.    *)
RereadStatus(c) ==
    /\ conn[c].pc = "reread"
    /\ conn' = IF status[conn[c].sid] = "annotating" THEN Goto(c, "requeue")
               ELSE Reply(c)
    /\ UNCHANGED <<claim, status, nextId, grant, ended, uncapped>>

Requeue(c) ==
    /\ conn[c].pc = "requeue"
    /\ status' = SetTo(conn[c].sid, "pending_human_annotation")
    /\ conn' = Reply(c)
    /\ UNCHANGED <<claim, nextId, grant, ended, uncapped>>

-----------------------------------------------------------------------------
(* LoadSession: get and its status check; then update_status(annotating).   *)
Loadable(c) == {"annotating",
                IF IsAnnotator(c) THEN "pending_human_annotation"
                ELSE "pending_annotation"}

LoadSession(c) ==
    /\ conn[c].pc = "exec"
    /\ conn[c].kind = "load"
    /\ conn' = IF status[conn[c].sid] \in Loadable(c) THEN Goto(c, "annotate")
               ELSE Reply(c)   \* INVALID_STATUS
    /\ UNCHANGED <<claim, status, nextId, grant, ended, uncapped>>

SetAnnotating(c) ==
    /\ conn[c].pc = "annotate"
    /\ status' = SetTo(conn[c].sid, "annotating")
    /\ conn' = Reply(c)
    /\ UNCHANGED <<claim, nextId, grant, ended, uncapped>>

(* CloseAnnotation, CompleteAnnotation, FinalizeMemory: update_status and   *)
(* nothing else, whatever the status is.                                    *)
SetStatus(c) ==
    /\ conn[c].pc = "exec"
    /\ conn[c].kind \in {"close", "complete", "finalize"}
    /\ status' = SetTo(conn[c].sid,
                    CASE conn[c].kind = "complete" -> "pending_compilation"
                      [] conn[c].kind = "finalize" -> "complete"
                      [] IsAnnotator(c) -> "pending_human_annotation"
                      [] OTHER -> "pending_annotation")
    /\ conn' = Reply(c)
    /\ UNCHANGED <<claim, nextId, grant, ended, uncapped>>

(* DeleteSession: a session that is being annotated needs force; then       *)
(* delete_session, of whose commands the DEL of the Hash and, last, the DEL *)
(* of the claim matter here.                                                *)
CheckDelete(c, force) ==
    /\ conn[c].pc = "exec"
    /\ conn[c].kind = "delete"
    /\ conn' = IF status[conn[c].sid] = "annotating" /\ ~force THEN Reply(c)
               ELSE Goto(c, "wipe")
    /\ UNCHANGED <<claim, status, nextId, grant, ended, uncapped>>

DeleteRecord(c) ==
    /\ conn[c].pc = "wipe"
    /\ status' = [status EXCEPT ![conn[c].sid] = "gone"]
    /\ conn' = Goto(c, "unclaim")
    /\ UNCHANGED <<claim, nextId, grant, ended, uncapped>>

DeleteClaim(c) ==
    /\ conn[c].pc = "unclaim"
    /\ DropClaim(conn[c].sid)
    /\ conn' = Reply(c)
    /\ UNCHANGED <<status, nextId, grant, uncapped>>

(* A Redis command fails: the message is answered with the error and the    *)
(* commands after it are not issued.                                        *)
CommandFails(c) ==
    /\ conn[c].pc \notin {"idle", "scan"}
    /\ conn' = Reply(c)
    /\ UNCHANGED <<claim, status, nextId, grant, ended, uncapped>>

-----------------------------------------------------------------------------
(* Time passes for one claim; at the end of its TTL Redis drops the key.    *)
ClaimTick(s) ==
    /\ Claimed(s)
    /\ claim' = IF claim[s].ttl > 1 THEN [claim EXCEPT ![s].ttl = @ - 1]
                ELSE [claim EXCEPT ![s] = NoClaim]
    /\ ended' = IF claim[s].ttl = 1 THEN ended \cup {claim[s].id} ELSE ended
    /\ UNCHANGED <<status, conn, nextId, grant, uncapped>>

(* reconcile_target: a metadata.json frozen at "complete" sends back an      *)
(* interrupted annotation only; any other status in it wins.                *)
ReconcileTarget(s) ==
    IF s \in Recovered \/ status[s] = "annotating" THEN "pending_annotation"
    ELSE status[s]

(* ma-core dies and starts again.  The reconcile sweep runs before it       *)
(* serves, over the sessions found in annotating and pending_compilation.   *)
(* Claims stay.                                                             *)
Restart ==
    /\ conn' = [c \in Conn |-> Idle]
    /\ status' = [s \in Session |->
                    IF status[s] \in {"annotating", "pending_compilation"}
                    THEN ReconcileTarget(s) ELSE status[s]]
    /\ UNCHANGED <<claim, nextId, grant, ended, uncapped>>

Handle(c) ==
    \/ ScanDone(c) \/ LuaClaim(c)
    \/ CheckOwner(c) \/ MatchClaimId(c) \/ RefreshClaim(c)
    \/ ReleaseClaim(c) \/ RereadStatus(c) \/ Requeue(c)
    \/ LoadSession(c) \/ SetAnnotating(c) \/ SetStatus(c)
    \/ \E force \in BOOLEAN : CheckDelete(c, force)
    \/ DeleteRecord(c) \/ DeleteClaim(c)
    \/ \E s \in Session, read \in {"ok", "no_owner", "no_record"} : ScanOne(c, s, read)

Next ==
    \/ \E c \in Conn :
          \/ Handle(c)
          \/ CommandFails(c)
          \/ \E cap \in BOOLEAN : AutoClaim(c, cap)
          \/ \E s \in Session :
                \/ \E cap \in BOOLEAN : ClaimSession(c, s, cap)
                \/ \E kind \in Kinds, id \in 0..MaxClaimIds : Request(c, kind, s, id)
    \/ \E s \in Session : ClaimTick(s)
    \/ Restart

Spec == Init /\ [][Next]_vars

(* tokio runs every ready task, and Redis drops every key whose TTL ends.   *)
Fairness ==
    /\ \A c \in Conn : WF_vars(Handle(c))
    /\ \A s \in Session : WF_vars(ClaimTick(s))

FairSpec == Spec /\ Fairness

-----------------------------------------------------------------------------
WithinLimit(a) == Limit[a] > 0 => ClaimCount(a) <= Limit[a]

(* No interleaving of the connections of one annotator gives it more claims *)
(* than max_concurrent_claims allows, as long as the limit could be read:   *)
(* ClaimSession counts and sets inside one Lua script.                      *)
ClaimLimit == \A a \in Annotator \ uncapped : WithinLimit(a)

(* A claim that was verified for a heartbeat or a release is still the one  *)
(* its key holds when the EXPIRE or DEL runs, or it has ended for good: SET *)
(* NX never replaces a live claim, so the window between the GET and the    *)
(* command that relies on it can only see a claim disappear.                *)
VerifiedOrEnded ==
    \A c \in Conn : conn[c].pc \in {"expire", "del"} =>
        \/ conn[c].id \in ended
        \/ claim[conn[c].sid].owner = Who[c] /\ claim[conn[c].sid].id = conn[c].id

(* Every message gets its answer: no handler waits for another one, and the *)
(* scan of an auto-claim ends.                                              *)
EveryMessageAnswered ==
    \A c \in Conn : conn[c].pc # "idle" ~> conn[c].pc = "idle"

-----------------------------------------------------------------------------
(* The strengthening that makes ClaimLimit and VerifiedOrEnded inductive.   *)

(* A message carries the operands of its next command.                      *)
MessageWellFormed ==
    \A c \in Conn :
        /\ conn[c].pc = "idle" => conn[c] = Idle
        /\ conn[c].pc \notin {"idle", "scan"} => conn[c].sid \in Session
        /\ conn[c].pc \in {"scan", "lua"} => conn[c].kind = "claim" /\ IsAnnotator(c)
        /\ conn[c].kind = "claim" => conn[c].pc \in {"scan", "lua"}
        /\ conn[c].kind = "claim" /\ ~conn[c].cap => Who[c] \in uncapped
        /\ conn[c].pc \in {"match", "expire", "del"} => conn[c].kind \in {"heartbeat", "release"}

(* A claim id being requested was drawn for that request alone, and nobody  *)
(* has been granted it yet.                                                 *)
IdsFresh ==
    /\ \A i \in ClaimId : i >= nextId => grant[i] = NoGrant
    /\ \A c \in Conn : conn[c].kind = "claim" =>
          conn[c].id \in ClaimId /\ conn[c].id < nextId /\ grant[conn[c].id] = NoGrant
    /\ \A c, d \in Conn :
          conn[c].kind = "claim" /\ conn[d].kind = "claim" /\ conn[c].id = conn[d].id
          => c = d

(* What a claim key holds is what its owner was told, and a heartbeat or a  *)
(* release carries a claim id its sender was told.                          *)
GrantsMatch ==
    /\ \A s \in Session : Claimed(s) =>
          grant[claim[s].id] = [to |-> claim[s].owner, sid |-> s]
    /\ \A c \in Conn : conn[c].kind \in {"heartbeat", "release"} =>
          /\ IsAnnotator(c)
          /\ conn[c].id \in ClaimId
          /\ grant[conn[c].id] = [to |-> Who[c], sid |-> conn[c].sid]

ClaimInv == TypeOK /\ MessageWellFormed /\ IdsFresh /\ GrantsMatch
            /\ ClaimLimit /\ VerifiedOrEnded
=============================================================================
