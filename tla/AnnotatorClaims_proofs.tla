----------------------- MODULE AnnotatorClaims_proofs -----------------------
(***************************************************************************)
(* Proofs about AnnotatorClaims, for any number of sessions, annotators    *)
(* and connections.  ClaimInv is the inductive invariant; one lemma per    *)
(* conjunct shows that a step preserves it.  Most commands only move the   *)
(* connection to the next command of its message: Moved says what all of   *)
(* them do, so every such lemma treats them in one step.                   *)
(***************************************************************************)
EXTENDS AnnotatorClaims, FiniteSetTheorems, TLAPS

(* The claim keys of an annotator are finitely many.                        *)
LEMMA ClaimsFinite ==
  ASSUME NEW a
  PROVE  IsFiniteSet(ClaimsOf(a)) /\ ClaimCount(a) \in Nat
  BY SessionAssumption, FS_Subset, FS_CardinalityType DEF ClaimsOf, ClaimCount

(* The message of c goes on to a next command, with the operands it needs.  *)
GoesOn(c) ==
    /\ conn'[c].pc # "idle"
    /\ conn'[c].kind = conn[c].kind
    /\ conn'[c].id = conn[c].id
    /\ conn'[c].cap = conn[c].cap
    /\ conn[c].kind # "claim" => conn'[c].sid = conn[c].sid
    /\ conn'[c].pc # "scan" => conn'[c].sid \in Session
    /\ conn[c].kind = "claim" <=> conn'[c].pc \in {"scan", "lua"}
    /\ conn[c].kind = "claim" => IsAnnotator(c)
    /\ conn'[c].pc \in {"match", "expire", "del"} => conn[c].kind \in {"heartbeat", "release"}
    /\ conn'[c].pc \in {"expire", "del"} => claim[conn[c].sid].id = conn[c].id

(* Connection c, and no other, goes on or has answered.                     *)
Moved(c) ==
    /\ conn' \in [Conn -> Messages]
    /\ \A d \in Conn : d # c => conn'[d] = conn[d]
    /\ conn'[c] = Idle \/ GoesOn(c)

(* No message is a message.                                                 *)
LEMMA IdleIsMessage == Idle \in Messages
<1>1. "idle" \in PCs /\ "none" \in Kinds /\ 0 \in 0..MaxClaimIds /\ {} \in SUBSET Session
      /\ TRUE \in BOOLEAN
  BY BoundAssumption DEF PCs, Kinds
<1> QED BY <1>1 DEF Idle, Message, Messages

(* The fields of a message.                                                 *)
LEMMA MessageFields ==
  ASSUME TypeOK, NEW c \in Conn
  PROVE  /\ conn[c] \in Messages
         /\ conn[c].pc \in PCs /\ conn[c].kind \in Kinds
         /\ conn[c].sid \in Session \cup {None} /\ conn[c].id \in 0..MaxClaimIds
         /\ conn[c].todo \in SUBSET Session /\ conn[c].cap \in BOOLEAN
<1>1. conn[c] \in Messages
  BY DEF TypeOK
<1> QED BY <1>1 DEF Messages

(* Reply ends the message of c.                                             *)
LEMMA ReplyMoves ==
  ASSUME TypeOK, NEW c \in Conn, conn' = Reply(c)
  PROVE  Moved(c)
  BY IdleIsMessage DEF TypeOK, Reply, Moved

(* Goto keeps the operands.                                                 *)
LEMMA GotoFields ==
  ASSUME TypeOK, NEW c \in Conn, NEW pc \in PCs, conn' = Goto(c, pc)
  PROVE  /\ conn' \in [Conn -> Messages]
         /\ \A d \in Conn : d # c => conn'[d] = conn[d]
         /\ conn'[c].pc = pc /\ conn'[c].kind = conn[c].kind
         /\ conn'[c].sid = conn[c].sid /\ conn'[c].id = conn[c].id
         /\ conn'[c].cap = conn[c].cap
<1>1. conn[c] \in Messages
  BY DEF TypeOK
<1>2. [conn[c] EXCEPT !.pc = pc] \in Messages
  BY <1>1 DEF Messages
<1>3. conn' = [conn EXCEPT ![c] = [conn[c] EXCEPT !.pc = pc]]
  BY DEF Goto
<1>4. conn'[c] = [conn[c] EXCEPT !.pc = pc] /\ conn' \in [Conn -> Messages]
      /\ \A d \in Conn : d # c => conn'[d] = conn[d]
  BY <1>2, <1>3 DEF TypeOK
<1>5. /\ conn'[c].pc = pc /\ conn'[c].kind = conn[c].kind
      /\ conn'[c].sid = conn[c].sid /\ conn'[c].id = conn[c].id
      /\ conn'[c].cap = conn[c].cap
  BY <1>1, <1>4 DEF Messages
<1> QED BY <1>4, <1>5

(* ScanOne only changes the target and what is left of the queue.           *)
LEMMA ScanFields ==
  ASSUME TypeOK, NEW c \in Conn, NEW s \in Session,
         NEW read \in {"ok", "no_owner", "no_record"}, ScanOne(c, s, read)
  PROVE  /\ conn' \in [Conn -> Messages]
         /\ \A d \in Conn : d # c => conn'[d] = conn[d]
         /\ conn'[c].pc = "scan" /\ conn'[c].kind = conn[c].kind
         /\ conn'[c].id = conn[c].id /\ conn'[c].cap = conn[c].cap
<1>1. conn[c] \in Messages
  BY DEF TypeOK
<1>2. PICK t \in Session \cup {None} :
        conn' = [conn EXCEPT ![c].todo = @ \ {s}, ![c].sid = t]
  <2>1. conn[c].sid \in Session \cup {None}
    BY MessageFields
  <2> QED BY <2>1 DEF ScanOne
<1> DEFINE new == [conn[c] EXCEPT !.todo = @ \ {s}, !.sid = t]
<1>3. new \in Messages
  BY <1>1 DEF Messages
<1>4. conn' = [conn EXCEPT ![c] = new]
  BY <1>2 DEF TypeOK
<1>5. conn'[c] = new /\ conn' \in [Conn -> Messages]
      /\ \A d \in Conn : d # c => conn'[d] = conn[d]
  BY <1>3, <1>4 DEF TypeOK
<1>6. new.pc = conn[c].pc /\ new.kind = conn[c].kind /\ new.id = conn[c].id
      /\ new.cap = conn[c].cap
  BY <1>1 DEF Messages
<1> QED BY <1>5, <1>6 DEF ScanOne

(* Every command after the first moves its connection and no other.         *)
LEMMA HandleMoves ==
  ASSUME TypeOK, MessageWellFormed, NEW c \in Conn, Handle(c) \/ CommandFails(c)
  PROVE  Moved(c)
<1> USE DEF IsAnnotator
<1>1. CASE \E s \in Session, read \in {"ok", "no_owner", "no_record"} : ScanOne(c, s, read)
  <2>1. PICK s \in Session, read \in {"ok", "no_owner", "no_record"} : ScanOne(c, s, read)
    BY <1>1
  <2>2. conn[c].pc = "scan"
    BY <2>1 DEF ScanOne
  <2> QED BY <2>1, <2>2, ScanFields DEF Moved, GoesOn, MessageWellFormed
<1>2. CASE ScanDone(c)
  <2>1. CASE conn' = Reply(c)
    BY <2>1, ReplyMoves
  <2>2. CASE conn' # Reply(c)
    <3> DEFINE pc == "lua"
    <3>1. conn' = Goto(c, pc) /\ pc \in PCs /\ conn[c].sid # None
      BY <1>2, <2>2 DEF ScanDone, PCs
    <3>2. /\ conn' \in [Conn -> Messages]
          /\ \A d \in Conn : d # c => conn'[d] = conn[d]
          /\ conn'[c].pc = pc /\ conn'[c].kind = conn[c].kind
          /\ conn'[c].sid = conn[c].sid /\ conn'[c].id = conn[c].id
          /\ conn'[c].cap = conn[c].cap
      BY <3>1, GotoFields
    <3>3. conn[c].pc = "scan" /\ conn[c].sid \in Session \cup {None}
      BY <1>2, MessageFields DEF ScanDone
    <3> QED BY <3>1, <3>2, <3>3 DEF Moved, GoesOn, MessageWellFormed
  <2> QED BY <2>1, <2>2
<1>3. CASE CheckOwner(c)
  <2>1. CASE conn' = Reply(c)
    BY <2>1, ReplyMoves
  <2>2. CASE conn' # Reply(c)
    <3> DEFINE pc == IF conn[c].kind \in {"heartbeat", "release"} THEN "match" ELSE "exec"
    <3>1. conn' = Goto(c, pc) /\ pc \in PCs
      BY <1>3, <2>2 DEF CheckOwner, PCs
    <3>2. /\ conn' \in [Conn -> Messages]
          /\ \A d \in Conn : d # c => conn'[d] = conn[d]
          /\ conn'[c].pc = pc /\ conn'[c].kind = conn[c].kind
          /\ conn'[c].sid = conn[c].sid /\ conn'[c].id = conn[c].id
          /\ conn'[c].cap = conn[c].cap
      BY <3>1, GotoFields
    <3>3. conn[c].pc = "owner" /\ conn[c].sid \in Session \cup {None}
      BY <1>3, MessageFields DEF CheckOwner
    <3> QED BY <3>1, <3>2, <3>3 DEF Moved, GoesOn, MessageWellFormed
  <2> QED BY <2>1, <2>2
<1>4. CASE MatchClaimId(c)
  <2>1. CASE conn' = Reply(c)
    BY <2>1, ReplyMoves
  <2>2. CASE conn' # Reply(c)
    <3> DEFINE pc == IF conn[c].kind = "heartbeat" THEN "expire" ELSE "del"
    <3>1. conn' = Goto(c, pc) /\ pc \in PCs /\ claim[conn[c].sid].id = conn[c].id
      BY <1>4, <2>2 DEF MatchClaimId, PCs
    <3>2. /\ conn' \in [Conn -> Messages]
          /\ \A d \in Conn : d # c => conn'[d] = conn[d]
          /\ conn'[c].pc = pc /\ conn'[c].kind = conn[c].kind
          /\ conn'[c].sid = conn[c].sid /\ conn'[c].id = conn[c].id
          /\ conn'[c].cap = conn[c].cap
      BY <3>1, GotoFields
    <3>3. conn[c].pc = "match" /\ conn[c].sid \in Session \cup {None}
      BY <1>4, MessageFields DEF MatchClaimId
    <3> QED BY <3>1, <3>2, <3>3 DEF Moved, GoesOn, MessageWellFormed
  <2> QED BY <2>1, <2>2
<1>5. CASE ReleaseClaim(c)
  <2>1. CASE conn' = Reply(c)
    BY <2>1, ReplyMoves
  <2>2. CASE conn' # Reply(c)
    <3> DEFINE pc == "reread"
    <3>1. conn' = Goto(c, pc) /\ pc \in PCs
      BY <1>5, <2>2 DEF ReleaseClaim, PCs
    <3>2. /\ conn' \in [Conn -> Messages]
          /\ \A d \in Conn : d # c => conn'[d] = conn[d]
          /\ conn'[c].pc = pc /\ conn'[c].kind = conn[c].kind
          /\ conn'[c].sid = conn[c].sid /\ conn'[c].id = conn[c].id
          /\ conn'[c].cap = conn[c].cap
      BY <3>1, GotoFields
    <3>3. conn[c].pc = "del" /\ conn[c].sid \in Session \cup {None}
      BY <1>5, MessageFields DEF ReleaseClaim
    <3> QED BY <3>1, <3>2, <3>3 DEF Moved, GoesOn, MessageWellFormed
  <2> QED BY <2>1, <2>2
<1>6. CASE RereadStatus(c)
  <2>1. CASE conn' = Reply(c)
    BY <2>1, ReplyMoves
  <2>2. CASE conn' # Reply(c)
    <3> DEFINE pc == "requeue"
    <3>1. conn' = Goto(c, pc) /\ pc \in PCs
      BY <1>6, <2>2 DEF RereadStatus, PCs
    <3>2. /\ conn' \in [Conn -> Messages]
          /\ \A d \in Conn : d # c => conn'[d] = conn[d]
          /\ conn'[c].pc = pc /\ conn'[c].kind = conn[c].kind
          /\ conn'[c].sid = conn[c].sid /\ conn'[c].id = conn[c].id
          /\ conn'[c].cap = conn[c].cap
      BY <3>1, GotoFields
    <3>3. conn[c].pc = "reread" /\ conn[c].sid \in Session \cup {None}
      BY <1>6, MessageFields DEF RereadStatus
    <3> QED BY <3>1, <3>2, <3>3 DEF Moved, GoesOn, MessageWellFormed
  <2> QED BY <2>1, <2>2
<1>7. CASE LoadSession(c)
  <2>1. CASE conn' = Reply(c)
    BY <2>1, ReplyMoves
  <2>2. CASE conn' # Reply(c)
    <3> DEFINE pc == "annotate"
    <3>1. conn' = Goto(c, pc) /\ pc \in PCs
      BY <1>7, <2>2 DEF LoadSession, PCs
    <3>2. /\ conn' \in [Conn -> Messages]
          /\ \A d \in Conn : d # c => conn'[d] = conn[d]
          /\ conn'[c].pc = pc /\ conn'[c].kind = conn[c].kind
          /\ conn'[c].sid = conn[c].sid /\ conn'[c].id = conn[c].id
          /\ conn'[c].cap = conn[c].cap
      BY <3>1, GotoFields
    <3>3. conn[c].pc = "exec" /\ conn[c].sid \in Session \cup {None}
      BY <1>7, MessageFields DEF LoadSession
    <3> QED BY <3>1, <3>2, <3>3 DEF Moved, GoesOn, MessageWellFormed
  <2> QED BY <2>1, <2>2
<1>8. CASE \E force \in BOOLEAN : CheckDelete(c, force)
  <2>1. CASE conn' = Reply(c)
    BY <2>1, ReplyMoves
  <2>2. CASE conn' # Reply(c)
    <3> DEFINE pc == "wipe"
    <3>1. conn' = Goto(c, pc) /\ pc \in PCs
      BY <1>8, <2>2 DEF CheckDelete, PCs
    <3>2. /\ conn' \in [Conn -> Messages]
          /\ \A d \in Conn : d # c => conn'[d] = conn[d]
          /\ conn'[c].pc = pc /\ conn'[c].kind = conn[c].kind
          /\ conn'[c].sid = conn[c].sid /\ conn'[c].id = conn[c].id
          /\ conn'[c].cap = conn[c].cap
      BY <3>1, GotoFields
    <3>3. conn[c].pc = "exec" /\ conn[c].sid \in Session \cup {None}
      BY <1>8, MessageFields DEF CheckDelete
    <3> QED BY <3>1, <3>2, <3>3 DEF Moved, GoesOn, MessageWellFormed
  <2> QED BY <2>1, <2>2
<1>9. CASE DeleteRecord(c)
  <2>1. CASE conn' = Reply(c)
    BY <2>1, ReplyMoves
  <2>2. CASE conn' # Reply(c)
    <3> DEFINE pc == "unclaim"
    <3>1. conn' = Goto(c, pc) /\ pc \in PCs
      BY <1>9, <2>2 DEF DeleteRecord, PCs
    <3>2. /\ conn' \in [Conn -> Messages]
          /\ \A d \in Conn : d # c => conn'[d] = conn[d]
          /\ conn'[c].pc = pc /\ conn'[c].kind = conn[c].kind
          /\ conn'[c].sid = conn[c].sid /\ conn'[c].id = conn[c].id
          /\ conn'[c].cap = conn[c].cap
      BY <3>1, GotoFields
    <3>3. conn[c].pc = "wipe" /\ conn[c].sid \in Session \cup {None}
      BY <1>9, MessageFields DEF DeleteRecord
    <3> QED BY <3>1, <3>2, <3>3 DEF Moved, GoesOn, MessageWellFormed
  <2> QED BY <2>1, <2>2
<1>10. CASE \/ LuaClaim(c) \/ RefreshClaim(c) \/ Requeue(c) \/ SetAnnotating(c)
          \/ SetStatus(c) \/ DeleteClaim(c) \/ CommandFails(c)
  BY <1>10, ReplyMoves DEF LuaClaim, RefreshClaim, Requeue, SetAnnotating, SetStatus,
         DeleteClaim, CommandFails
<1> QED BY <1>1, <1>2, <1>3, <1>4, <1>5, <1>6, <1>7, <1>8, <1>9, <1>10 DEF Handle

(* A new message, or none: what ClaimSession, AutoClaim and Request do.     *)
Opens(c, m) ==
    /\ conn[c].pc = "idle"
    /\ m \in Messages
    /\ conn' = [conn EXCEPT ![c] = m]
    /\ m.pc # "idle"
    /\ m.pc # "scan" => m.sid \in Session
    /\ m.kind = "claim" <=> m.pc \in {"scan", "lua"}
    /\ m.pc \notin {"match", "expire", "del"}

(* ClaimSession and AutoClaim draw a claim id.                              *)
LEMMA ClaimOpens ==
  ASSUME TypeOK, NEW c \in Conn,
         \E cap \in BOOLEAN : AutoClaim(c, cap) \/ \E s \in Session : ClaimSession(c, s, cap)
  PROVE  \E m : /\ Opens(c, m) /\ m.kind = "claim" /\ m.id = nextId
                /\ IsAnnotator(c)
                /\ nextId \in ClaimId /\ nextId' = nextId + 1
                /\ uncapped' = IF m.cap THEN uncapped ELSE uncapped \cup {Who[c]}
                /\ UNCHANGED <<claim, status, grant, ended>>
<1>1. PICK cap \in BOOLEAN : AutoClaim(c, cap) \/ \E s \in Session : ClaimSession(c, s, cap)
  OBVIOUS
<1>2. Draw(c, cap)
  BY <1>1 DEF AutoClaim, ClaimSession
<1>3. nextId \in ClaimId /\ nextId \in 0..MaxClaimIds
  <2>1. nextId <= MaxClaimIds
    BY <1>2 DEF Draw
  <2>2. nextId \in 1..(MaxClaimIds + 1)
    BY DEF TypeOK
  <2> QED BY <2>1, <2>2, BoundAssumption DEF ClaimId
<1>4. PICK m : /\ m \in Messages /\ conn' = [conn EXCEPT ![c] = m]
               /\ m.kind = "claim" /\ m.id = nextId /\ m.cap = cap
               /\ m.pc \in {"scan", "lua"}
               /\ m.pc # "scan" => m.sid \in Session
  <2>1. CASE AutoClaim(c, cap)
    <3> DEFINE todo == {s \in Session : status[s] = "pending_human_annotation"}
               m == [pc |-> "scan", kind |-> "claim", sid |-> None, id |-> nextId,
                     todo |-> todo, cap |-> cap]
    <3>1. "scan" \in PCs /\ "claim" \in Kinds /\ todo \in SUBSET Session
      BY DEF PCs, Kinds
    <3>2. conn' = [conn EXCEPT ![c] = m]
      BY <2>1 DEF AutoClaim, Message
    <3> HIDE DEF todo
    <3>3. m \in Messages
      BY <1>3, <3>1 DEF Messages
    <3>4. m.kind = "claim" /\ m.id = nextId /\ m.cap = cap /\ m.pc = "scan"
      OBVIOUS
    <3> HIDE DEF m
    <3> QED BY <3>2, <3>3, <3>4
  <2>2. CASE \E s \in Session : ClaimSession(c, s, cap)
    <3>1. PICK s \in Session : ClaimSession(c, s, cap)
      BY <2>2
    <3> DEFINE m == [pc |-> "lua", kind |-> "claim", sid |-> s, id |-> nextId,
                     todo |-> {}, cap |-> cap]
    <3>2. "lua" \in PCs /\ "claim" \in Kinds /\ {} \in SUBSET Session
      BY DEF PCs, Kinds
    <3>3. m \in Messages
      BY <1>3, <3>2 DEF Messages
    <3>4. conn' = [conn EXCEPT ![c] = m]
      BY <3>1 DEF ClaimSession, Message
    <3>5. m.kind = "claim" /\ m.id = nextId /\ m.cap = cap /\ m.pc = "lua" /\ m.sid = s
      OBVIOUS
    <3> HIDE DEF m
    <3> QED BY <3>3, <3>4, <3>5
  <2> QED BY <1>1, <2>1, <2>2
<1>5. Opens(c, m)
  BY <1>2, <1>4 DEF Opens, Draw
<1> QED BY <1>2, <1>3, <1>4, <1>5 DEF Draw

(* The other messages name a claim their sender was granted, or none.       *)
LEMMA RequestOpens ==
  ASSUME TypeOK, NEW c \in Conn, NEW kind \in Kinds, NEW s \in Session,
         NEW id \in 0..MaxClaimIds, Request(c, kind, s, id)
  PROVE  \E m : /\ Opens(c, m) /\ m.kind # "claim"
                /\ m.kind \in {"heartbeat", "release"} =>
                      /\ IsAnnotator(c)
                      /\ m.id \in ClaimId
                      /\ grant[m.id] = [to |-> Who[c], sid |-> m.sid]
                /\ UNCHANGED <<claim, status, nextId, grant, ended, uncapped>>
<1> DEFINE pc == IF IsAnnotator(c) THEN "owner" ELSE "exec"
           m == [pc |-> pc, kind |-> kind, sid |-> s, id |-> id, todo |-> {}, cap |-> TRUE]
<1>1. m \in Messages
  <2>1. pc \in PCs /\ {} \in SUBSET Session /\ TRUE \in BOOLEAN
    BY DEF PCs
  <2> HIDE DEF pc
  <2> QED BY <2>1 DEF Messages
<1>2. conn' = [conn EXCEPT ![c] = m]
  BY DEF Request, Message
<1>3. kind # "claim" /\ (kind \in {"heartbeat", "release"} =>
         /\ IsAnnotator(c) /\ id \in ClaimId
         /\ grant[id] = [to |-> Who[c], sid |-> s])
  BY DEF Request
<1>4. Opens(c, m) /\ m.kind = kind /\ m.id = id /\ m.sid = s
  BY <1>1, <1>2, <1>3 DEF Opens, Request
<1> HIDE DEF m
<1> QED BY <1>3, <1>4 DEF Request

(* The three ways a step can act on the connections.                        *)
LEMMA StepCases ==
  ASSUME [Next]_vars
  PROVE  \/ \E c \in Conn : Handle(c) \/ CommandFails(c)
         \/ \E c \in Conn : \E cap \in BOOLEAN : AutoClaim(c, cap) \/ \E s \in Session : ClaimSession(c, s, cap)
         \/ \E c \in Conn, s \in Session, kind \in Kinds, id \in 0..MaxClaimIds :
               Request(c, kind, s, id)
         \/ \E s \in Session : ClaimTick(s)
         \/ Restart
         \/ UNCHANGED vars
  BY DEF Next

(* An annotator whose limit could not be read stays in the history.         *)
LEMMA UncappedGrows ==
  ASSUME [Next]_vars
  PROVE  uncapped \subseteq uncapped'
<1>1. ASSUME NEW c \in Conn, Handle(c) \/ CommandFails(c)
      PROVE  UNCHANGED uncapped
  BY <1>1 DEF Handle, CommandFails, ScanOne, ScanDone, LuaClaim, CheckOwner,
     MatchClaimId,
     RefreshClaim, ReleaseClaim, RereadStatus, Requeue, LoadSession, SetAnnotating, SetStatus,
     CheckDelete, DeleteRecord, DeleteClaim
<1>2. ASSUME NEW c \in Conn,
             \E cap \in BOOLEAN : AutoClaim(c, cap) \/ \E s \in Session : ClaimSession(c, s, cap)
      PROVE  uncapped \subseteq uncapped'
  BY <1>2 DEF AutoClaim, ClaimSession, Draw
<1>3. ASSUME NEW c \in Conn, NEW s \in Session, NEW kind \in Kinds,
             NEW id \in 0..MaxClaimIds, Request(c, kind, s, id)
      PROVE  UNCHANGED uncapped
  BY <1>3 DEF Request
<1>4. ASSUME NEW s \in Session, ClaimTick(s)
      PROVE  UNCHANGED uncapped
  BY <1>4 DEF ClaimTick
<1> QED BY <1>1, <1>2, <1>3, <1>4, StepCases DEF Restart, vars

(* The commands that touch a claim key.                                     *)
LEMMA ClaimWriters ==
  ASSUME [Next]_vars
  PROVE  \/ \E c \in Conn : LuaClaim(c) \/ RefreshClaim(c) \/ ReleaseClaim(c) \/ DeleteClaim(c)
         \/ \E s \in Session : ClaimTick(s)
         \/ UNCHANGED claim
<1>1. ASSUME NEW c \in Conn, Handle(c) \/ CommandFails(c)
      PROVE  \/ LuaClaim(c) \/ RefreshClaim(c) \/ ReleaseClaim(c) \/ DeleteClaim(c)
             \/ UNCHANGED claim
  BY <1>1 DEF Handle, CommandFails, ScanOne, ScanDone, CheckOwner, MatchClaimId,
     RereadStatus,
     Requeue, LoadSession, SetAnnotating, SetStatus, CheckDelete, DeleteRecord
<1>2. ASSUME NEW c \in Conn,
             \E cap \in BOOLEAN : AutoClaim(c, cap) \/ \E s \in Session : ClaimSession(c, s, cap)
      PROVE  UNCHANGED claim
  BY <1>2 DEF AutoClaim, ClaimSession, Draw
<1>3. ASSUME NEW c \in Conn, NEW s \in Session, NEW kind \in Kinds,
             NEW id \in 0..MaxClaimIds, Request(c, kind, s, id)
      PROVE  UNCHANGED claim
  BY <1>3 DEF Request
<1> QED BY <1>1, <1>2, <1>3, StepCases DEF Restart, vars

(* Every action keeps the variables in their types.                         *)
LEMMA TypeStep ==
  ASSUME TypeOK, MessageWellFormed, IdsFresh, [Next]_vars
  PROVE  TypeOK'
<1>1. ASSUME NEW c \in Conn, Handle(c) \/ CommandFails(c)
      PROVE  TypeOK'
  <2>1. conn' \in [Conn -> Messages]
    BY <1>1, HandleMoves DEF Moved
  <2>2. CASE LuaClaim(c)
    <3>1. /\ Who[c] \in Annotator /\ conn[c].sid \in Session
          /\ conn[c].id \in ClaimId
      BY <2>2 DEF LuaClaim, MessageWellFormed, IdsFresh, IsAnnotator
    <3>2. /\ [owner |-> Who[c], id |-> conn[c].id, ttl |-> Ttl] \in Claims
          /\ [to |-> Who[c], sid |-> conn[c].sid] \in [to : Annotator, sid : Session]
      BY <3>1, BoundAssumption DEF Claims
    <3>3. claim' \in [Session -> Claims]
          /\ grant' \in [ClaimId -> [to : Annotator, sid : Session] \cup {NoGrant}]
      BY <2>2, <3>1, <3>2 DEF LuaClaim, TypeOK
    <3> QED BY <2>1, <2>2, <3>3 DEF LuaClaim, TypeOK
  <2>3. CASE RefreshClaim(c)
    <3>1. CASE Claimed(conn[c].sid)
      <4>1. conn[c].sid \in Session
        BY <2>3 DEF RefreshClaim, MessageWellFormed
      <4>2. claim[conn[c].sid] \in [owner : Annotator, id : ClaimId, ttl : 1..Ttl]
        BY <3>1, <4>1 DEF Claimed, TypeOK, Claims
      <4>3. [claim[conn[c].sid] EXCEPT !.ttl = Ttl] \in Claims
        BY <4>2, BoundAssumption DEF Claims
      <4>4. claim' = [claim EXCEPT ![conn[c].sid] = [claim[conn[c].sid] EXCEPT !.ttl = Ttl]]
        BY <2>3, <3>1 DEF RefreshClaim
      <4>5. claim' \in [Session -> Claims]
        BY <4>3, <4>4 DEF TypeOK
      <4> QED BY <2>1, <2>3, <4>5 DEF RefreshClaim, TypeOK
    <3>2. CASE ~Claimed(conn[c].sid)
      BY <2>1, <2>3, <3>2 DEF RefreshClaim, TypeOK
    <3> QED BY <3>1, <3>2
  <2>4. CASE ReleaseClaim(c) \/ DeleteClaim(c)
    <3>1. conn[c].sid \in Session /\ NoClaim \in Claims
      BY <2>4 DEF ReleaseClaim, DeleteClaim, MessageWellFormed, Claims
    <3>2. Claimed(conn[c].sid) => claim[conn[c].sid].id \in ClaimId
      BY <3>1 DEF Claimed, TypeOK, Claims
    <3> QED BY <2>1, <2>4, <3>1, <3>2 DEF ReleaseClaim, DeleteClaim, DropClaim, TypeOK
  <2>5. CASE Requeue(c) \/ SetAnnotating(c) \/ SetStatus(c) \/ DeleteRecord(c)
    <3>1. status' \in [Session -> AnnotationStatus]
      BY <2>5 DEF Requeue, SetAnnotating, SetStatus, DeleteRecord, SetTo, TypeOK,
         AnnotationStatus
    <3> QED BY <2>1, <2>5, <3>1 DEF Requeue, SetAnnotating, SetStatus, DeleteRecord,
       TypeOK
  <2>6. CASE UNCHANGED <<claim, status, nextId, grant, ended, uncapped>>
    BY <2>1, <2>6 DEF TypeOK
  <2> QED BY <1>1, <2>2, <2>3, <2>4, <2>5, <2>6
          DEF Handle, CommandFails, ScanDone, ScanOne, CheckOwner, MatchClaimId,
             RereadStatus,
              LoadSession, CheckDelete
<1>2. ASSUME NEW c \in Conn,
             \E cap \in BOOLEAN : AutoClaim(c, cap) \/ \E s \in Session : ClaimSession(c, s, cap)
      PROVE  TypeOK'
  <2>1. PICK m : /\ Opens(c, m) /\ m.kind = "claim" /\ m.id = nextId
                 /\ IsAnnotator(c)
                 /\ nextId \in ClaimId /\ nextId' = nextId + 1
                 /\ uncapped' = IF m.cap THEN uncapped ELSE uncapped \cup {Who[c]}
                 /\ UNCHANGED <<claim, status, grant, ended>>
    BY <1>2, ClaimOpens
  <2>2. conn'[c] = m /\ \A d \in Conn : d # c => conn'[d] = conn[d]
    BY <2>1 DEF Opens, TypeOK
  <2>3. conn' \in [Conn -> Messages] /\ nextId' \in 1..(MaxClaimIds + 1)
    BY <2>1, BoundAssumption DEF Opens, TypeOK, ClaimId
  <2>4. uncapped' \subseteq Annotator
    BY <2>1 DEF TypeOK, IsAnnotator
  <2> QED BY <2>1, <2>3, <2>4 DEF TypeOK
<1>3. ASSUME NEW c \in Conn, NEW s \in Session, NEW kind \in Kinds,
             NEW id \in 0..MaxClaimIds, Request(c, kind, s, id)
      PROVE  TypeOK'
  <2>1. PICK m : /\ Opens(c, m) /\ m.kind # "claim"
                 /\ m.kind \in {"heartbeat", "release"} =>
                       /\ IsAnnotator(c)
                       /\ m.id \in ClaimId
                       /\ grant[m.id] = [to |-> Who[c], sid |-> m.sid]
                 /\ UNCHANGED <<claim, status, nextId, grant, ended, uncapped>>
    BY <1>3, RequestOpens
  <2>2. conn'[c] = m /\ \A d \in Conn : d # c => conn'[d] = conn[d]
    BY <2>1 DEF Opens, TypeOK
  <2>3. conn' \in [Conn -> Messages]
    BY <2>1 DEF Opens, TypeOK
  <2> QED BY <2>1, <2>3 DEF TypeOK
<1>4. ASSUME NEW s \in Session, ClaimTick(s)
      PROVE  TypeOK'
  <2>1. claim[s] \in [owner : Annotator, id : ClaimId, ttl : 1..Ttl]
    BY <1>4 DEF ClaimTick, Claimed, TypeOK, Claims
  <2>2. claim' \in [Session -> Claims]
    <3>1. CASE claim[s].ttl > 1
      <4>1. [claim[s] EXCEPT !.ttl = claim[s].ttl - 1] \in Claims
        BY <2>1, <3>1, BoundAssumption DEF Claims
      <4>2. claim' = [claim EXCEPT ![s] = [claim[s] EXCEPT !.ttl = claim[s].ttl - 1]]
        BY <1>4, <3>1 DEF ClaimTick
      <4> QED BY <4>1, <4>2 DEF TypeOK
    <3>2. CASE ~(claim[s].ttl > 1)
      <4>1. claim' = [claim EXCEPT ![s] = NoClaim] /\ NoClaim \in Claims
        BY <1>4, <3>2 DEF ClaimTick, Claims
      <4> QED BY <4>1 DEF TypeOK
    <3> QED BY <3>1, <3>2
  <2> QED BY <1>4, <2>1, <2>2 DEF ClaimTick, TypeOK
<1>5. CASE Restart
  <2>1. conn' \in [Conn -> Messages] /\ status' \in [Session -> AnnotationStatus]
    BY <1>5, IdleIsMessage DEF Restart, ReconcileTarget, TypeOK, AnnotationStatus
  <2> QED BY <1>5, <2>1 DEF Restart, TypeOK
<1>6. CASE UNCHANGED vars
  BY <1>6 DEF vars, TypeOK
<1> QED BY <1>1, <1>2, <1>3, <1>4, <1>5, <1>6, StepCases

(* A message always carries the operands of its next command.               *)
LEMMA MessageStep ==
  ASSUME TypeOK, MessageWellFormed, [Next]_vars
  PROVE  MessageWellFormed'
<1>1. ASSUME NEW c \in Conn, Handle(c) \/ CommandFails(c)
      PROVE  MessageWellFormed'
  <2>1. Moved(c)
    BY <1>1, HandleMoves
  <2>2. uncapped \subseteq uncapped'
    BY UncappedGrows
  <2> QED BY <2>1, <2>2 DEF Moved, GoesOn, MessageWellFormed, IsAnnotator, Idle, Message
<1>2. ASSUME NEW c \in Conn,
             \E cap \in BOOLEAN : AutoClaim(c, cap) \/ \E s \in Session : ClaimSession(c, s, cap)
      PROVE  MessageWellFormed'
  <2>1. PICK m : /\ Opens(c, m) /\ m.kind = "claim" /\ m.id = nextId
                 /\ IsAnnotator(c)
                 /\ nextId \in ClaimId /\ nextId' = nextId + 1
                 /\ uncapped' = IF m.cap THEN uncapped ELSE uncapped \cup {Who[c]}
                 /\ UNCHANGED <<claim, status, grant, ended>>
    BY <1>2, ClaimOpens
  <2>2. conn'[c] = m /\ \A d \in Conn : d # c => conn'[d] = conn[d]
    BY <2>1 DEF Opens, TypeOK
  <2> QED BY <2>1, <2>2 DEF Opens, MessageWellFormed, IsAnnotator
<1>3. ASSUME NEW c \in Conn, NEW s \in Session, NEW kind \in Kinds,
             NEW id \in 0..MaxClaimIds, Request(c, kind, s, id)
      PROVE  MessageWellFormed'
  <2>1. PICK m : /\ Opens(c, m) /\ m.kind # "claim"
                 /\ m.kind \in {"heartbeat", "release"} =>
                       /\ IsAnnotator(c)
                       /\ m.id \in ClaimId
                       /\ grant[m.id] = [to |-> Who[c], sid |-> m.sid]
                 /\ UNCHANGED <<claim, status, nextId, grant, ended, uncapped>>
    BY <1>3, RequestOpens
  <2>2. conn'[c] = m /\ \A d \in Conn : d # c => conn'[d] = conn[d]
    BY <2>1 DEF Opens, TypeOK
  <2> QED BY <2>1, <2>2 DEF Opens, MessageWellFormed, IsAnnotator
<1>4. ASSUME NEW s \in Session, ClaimTick(s)
      PROVE  MessageWellFormed'
  BY <1>4 DEF ClaimTick, MessageWellFormed, IsAnnotator
<1>5. CASE Restart
  BY <1>5 DEF Restart, MessageWellFormed, IsAnnotator, Idle, Message
<1>6. CASE UNCHANGED vars
  BY <1>6 DEF vars, MessageWellFormed, IsAnnotator
<1> QED BY <1>1, <1>2, <1>3, <1>4, <1>5, <1>6, StepCases

(* No claim id is used for two requests or granted twice.                   *)
LEMMA FreshStep ==
  ASSUME TypeOK, MessageWellFormed, IdsFresh, [Next]_vars
  PROVE  IdsFresh'
<1>1. ASSUME NEW c \in Conn, Handle(c) \/ CommandFails(c)
      PROVE  IdsFresh'
  <2>1. Moved(c)
    BY <1>1, HandleMoves
  <2>2. CASE LuaClaim(c)
    <3>1. /\ conn[c].kind = "claim" /\ conn[c].id \in ClaimId /\ conn[c].id < nextId
          /\ conn'[c] = Idle
          /\ \A i \in ClaimId : i # conn[c].id => grant'[i] = grant[i]
          /\ nextId' = nextId
      BY <2>2 DEF LuaClaim, MessageWellFormed, IdsFresh, TypeOK, Reply
    <3>2. nextId \in Nat /\ ClaimId \subseteq Nat
      BY BoundAssumption DEF TypeOK, ClaimId
    <3>3. Idle.kind = "none"
      BY DEF Idle, Message
    <3>4. \A i \in ClaimId : i >= nextId => i # conn[c].id
      <4>1. \A i, j, n \in Nat : i >= n /\ j < n => i # j
        OBVIOUS
      <4>2. conn[c].id \in Nat /\ conn[c].id < nextId
        BY <3>1, <3>2
      <4> QED BY <3>2, <4>1, <4>2
    <3>5. \A i \in ClaimId : i >= nextId' => grant'[i] = NoGrant
      BY <3>1, <3>4 DEF IdsFresh
    <3>6. \A d \in Conn : conn'[d].kind = "claim" =>
             d # c /\ conn'[d] = conn[d] /\ conn[d].id # conn[c].id
      BY <2>1, <3>1, <3>3 DEF Moved, IdsFresh
    <3> QED BY <3>1, <3>5, <3>6 DEF IdsFresh
  <2>3. CASE ~LuaClaim(c)
    <3>1. UNCHANGED <<nextId, grant>>
      BY <1>1, <2>3 DEF Handle, CommandFails, ScanOne, ScanDone, CheckOwner,
         MatchClaimId,
         RefreshClaim, ReleaseClaim, RereadStatus, Requeue, LoadSession, SetAnnotating, SetStatus,
         CheckDelete, DeleteRecord, DeleteClaim
    <3> QED BY <2>1, <3>1 DEF Moved, GoesOn, IdsFresh, Idle, Message
  <2> QED BY <2>2, <2>3
<1>2. ASSUME NEW c \in Conn,
             \E cap \in BOOLEAN : AutoClaim(c, cap) \/ \E s \in Session : ClaimSession(c, s, cap)
      PROVE  IdsFresh'
  <2>1. PICK m : /\ Opens(c, m) /\ m.kind = "claim" /\ m.id = nextId
                 /\ IsAnnotator(c)
                 /\ nextId \in ClaimId /\ nextId' = nextId + 1
                 /\ uncapped' = IF m.cap THEN uncapped ELSE uncapped \cup {Who[c]}
                 /\ UNCHANGED <<claim, status, grant, ended>>
    BY <1>2, ClaimOpens
  <2>2. conn'[c] = m /\ \A d \in Conn : d # c => conn'[d] = conn[d]
    BY <2>1 DEF Opens, TypeOK
  <2>3. nextId \in Nat /\ ClaimId \subseteq Nat
    BY BoundAssumption DEF TypeOK, ClaimId
  <2>4. \A i \in ClaimId : i >= nextId' => grant'[i] = NoGrant
    BY <2>1, <2>3 DEF IdsFresh
  <2>5. ASSUME NEW d \in Conn, conn'[d].kind = "claim"
        PROVE  /\ conn'[d].id \in ClaimId /\ conn'[d].id < nextId'
               /\ grant'[conn'[d].id] = NoGrant
               /\ d # c => conn'[d].id < nextId
    <3>1. CASE d = c
      <4>1. conn'[d].id = nextId /\ grant[nextId] = NoGrant
        BY <2>1, <2>2, <2>3, <3>1 DEF IdsFresh
      <4> QED BY <2>1, <2>3, <3>1, <4>1
    <3>2. CASE d # c
      <4>1. /\ conn'[d].id = conn[d].id /\ conn[d].id \in ClaimId
            /\ conn[d].id < nextId /\ grant[conn[d].id] = NoGrant
        BY <2>2, <2>5, <3>2 DEF IdsFresh
      <4>2. \A i, n \in Nat : i < n => i < n + 1
        OBVIOUS
      <4>3. conn[d].id < nextId + 1
        BY <2>3, <4>1, <4>2
      <4> QED BY <2>1, <4>1, <4>3
    <3> QED BY <3>1, <3>2
  <2>6. \A d, e \in Conn :
           conn'[d].kind = "claim" /\ conn'[e].kind = "claim" /\ conn'[d].id = conn'[e].id
           => d = e
    BY <2>1, <2>2, <2>3, <2>5 DEF IdsFresh
  <2> QED BY <2>4, <2>5, <2>6 DEF IdsFresh
<1>3. ASSUME NEW c \in Conn, NEW s \in Session, NEW kind \in Kinds,
             NEW id \in 0..MaxClaimIds, Request(c, kind, s, id)
      PROVE  IdsFresh'
  <2>1. PICK m : /\ Opens(c, m) /\ m.kind # "claim"
                 /\ m.kind \in {"heartbeat", "release"} =>
                       /\ IsAnnotator(c)
                       /\ m.id \in ClaimId
                       /\ grant[m.id] = [to |-> Who[c], sid |-> m.sid]
                 /\ UNCHANGED <<claim, status, nextId, grant, ended, uncapped>>
    BY <1>3, RequestOpens
  <2>2. conn'[c] = m /\ \A d \in Conn : d # c => conn'[d] = conn[d]
    BY <2>1 DEF Opens, TypeOK
  <2> QED BY <2>1, <2>2 DEF IdsFresh
<1>4. ASSUME NEW s \in Session, ClaimTick(s)
      PROVE  IdsFresh'
  BY <1>4 DEF ClaimTick, IdsFresh
<1>5. CASE Restart
  BY <1>5 DEF Restart, IdsFresh, Idle, Message
<1>6. CASE UNCHANGED vars
  BY <1>6 DEF vars, IdsFresh
<1> QED BY <1>1, <1>2, <1>3, <1>4, <1>5, <1>6, StepCases

(* Claim keys and replies agree on who holds which claim.                   *)
LEMMA GrantStep ==
  ASSUME TypeOK, MessageWellFormed, IdsFresh, GrantsMatch, [Next]_vars
  PROVE  GrantsMatch'
<1>1. ASSUME NEW c \in Conn, Handle(c) \/ CommandFails(c)
      PROVE  GrantsMatch'
  <2>1. Moved(c)
    BY <1>1, HandleMoves
  <2>2. CASE LuaClaim(c)
    <3>1. /\ conn[c].kind = "claim" /\ conn[c].sid \in Session /\ IsAnnotator(c)
          /\ conn[c].id \in ClaimId /\ grant[conn[c].id] = NoGrant
      BY <2>2 DEF LuaClaim, MessageWellFormed, IdsFresh
    <3>2. \A i \in ClaimId : grant[i] # NoGrant => grant'[i] = grant[i]
      BY <2>2, <3>1 DEF LuaClaim, TypeOK
    <3>3. \A a \in Annotator, s \in Session : [to |-> a, sid |-> s] # NoGrant
      BY AnnotatorAssumption DEF NoGrant
    <3>4. ASSUME NEW s \in Session, Claimed(s)'
          PROVE  grant'[claim'[s].id] = [to |-> claim'[s].owner, sid |-> s]
      <4>1. CASE claim'[s] = claim[s]
        <5>1. Claimed(s) /\ claim[s].id \in ClaimId /\ claim[s].owner \in Annotator
          BY <3>4, <4>1 DEF Claimed, TypeOK, Claims
        <5>2. grant[claim[s].id] = [to |-> claim[s].owner, sid |-> s]
          BY <5>1 DEF GrantsMatch
        <5> QED BY <3>2, <3>3, <4>1, <5>1, <5>2
      <4>2. CASE claim'[s] # claim[s]
        <5>1. /\ s = conn[c].sid
              /\ claim'[s] = [owner |-> Who[c], id |-> conn[c].id, ttl |-> Ttl]
              /\ grant'[conn[c].id] = [to |-> Who[c], sid |-> conn[c].sid]
          BY <2>2, <3>1, <4>2 DEF LuaClaim, TypeOK
        <5> QED BY <5>1
      <4> QED BY <4>1, <4>2
    <3>5. ASSUME NEW d \in Conn, conn'[d].kind \in {"heartbeat", "release"}
          PROVE  /\ IsAnnotator(d)
                 /\ conn'[d].id \in ClaimId
                 /\ grant'[conn'[d].id] = [to |-> Who[d], sid |-> conn'[d].sid]
      <4>1. d # c /\ conn'[d] = conn[d]
        BY <2>1, <3>1, <3>5 DEF Moved, GoesOn, Idle, Message
      <4>2. /\ IsAnnotator(d) /\ conn[d].id \in ClaimId
            /\ grant[conn[d].id] = [to |-> Who[d], sid |-> conn[d].sid]
        BY <3>5, <4>1 DEF GrantsMatch
      <4>3. grant[conn[d].id] # NoGrant
        BY <4>2, AnnotatorAssumption DEF NoGrant, IsAnnotator
      <4> QED BY <3>2, <4>1, <4>2, <4>3
    <3> QED BY <3>4, <3>5 DEF GrantsMatch, IsAnnotator
  <2>3. CASE ~LuaClaim(c)
    <3>1. UNCHANGED grant
      BY <1>1, <2>3 DEF Handle, CommandFails, ScanOne, ScanDone, CheckOwner,
         MatchClaimId,
         RefreshClaim, ReleaseClaim, RereadStatus, Requeue, LoadSession, SetAnnotating, SetStatus,
         CheckDelete, DeleteRecord, DeleteClaim
    <3>2. \A s \in Session : Claimed(s)' =>
             /\ Claimed(s)
             /\ claim'[s].id = claim[s].id /\ claim'[s].owner = claim[s].owner
      <4>1. CASE RefreshClaim(c)
        BY <4>1 DEF RefreshClaim, Claimed, TypeOK, Claims
      <4>2. CASE ReleaseClaim(c) \/ DeleteClaim(c)
        BY <4>2 DEF ReleaseClaim, DeleteClaim, DropClaim, Claimed, TypeOK
      <4>3. CASE UNCHANGED claim
        BY <4>3 DEF Claimed
      <4> QED BY <1>1, <2>3, <4>1, <4>2, <4>3
         DEF Handle, CommandFails, ScanOne, ScanDone,
         CheckOwner, MatchClaimId, RereadStatus, Requeue, LoadSession, SetAnnotating, SetStatus,
         CheckDelete, DeleteRecord
    <3> QED BY <2>1, <3>1, <3>2 DEF Moved, GoesOn, GrantsMatch, IsAnnotator, Idle,
       Message
  <2> QED BY <2>2, <2>3
<1>2. ASSUME NEW c \in Conn,
             \E cap \in BOOLEAN : AutoClaim(c, cap) \/ \E s \in Session : ClaimSession(c, s, cap)
      PROVE  GrantsMatch'
  <2>1. PICK m : /\ Opens(c, m) /\ m.kind = "claim" /\ m.id = nextId
                 /\ IsAnnotator(c)
                 /\ nextId \in ClaimId /\ nextId' = nextId + 1
                 /\ uncapped' = IF m.cap THEN uncapped ELSE uncapped \cup {Who[c]}
                 /\ UNCHANGED <<claim, status, grant, ended>>
    BY <1>2, ClaimOpens
  <2>2. conn'[c] = m /\ \A d \in Conn : d # c => conn'[d] = conn[d]
    BY <2>1 DEF Opens, TypeOK
  <2> QED BY <2>1, <2>2 DEF GrantsMatch, IsAnnotator, Claimed
<1>3. ASSUME NEW c \in Conn, NEW s \in Session, NEW kind \in Kinds,
             NEW id \in 0..MaxClaimIds, Request(c, kind, s, id)
      PROVE  GrantsMatch'
  <2>1. PICK m : /\ Opens(c, m) /\ m.kind # "claim"
                 /\ m.kind \in {"heartbeat", "release"} =>
                       /\ IsAnnotator(c)
                       /\ m.id \in ClaimId
                       /\ grant[m.id] = [to |-> Who[c], sid |-> m.sid]
                 /\ UNCHANGED <<claim, status, nextId, grant, ended, uncapped>>
    BY <1>3, RequestOpens
  <2>2. conn'[c] = m /\ \A d \in Conn : d # c => conn'[d] = conn[d]
    BY <2>1 DEF Opens, TypeOK
  <2> QED BY <2>1, <2>2 DEF GrantsMatch, IsAnnotator, Claimed
<1>4. ASSUME NEW s \in Session, ClaimTick(s)
      PROVE  GrantsMatch'
  <2>1. \A t \in Session : Claimed(t)' =>
             /\ Claimed(t)
             /\ claim'[t].id = claim[t].id /\ claim'[t].owner = claim[t].owner
    BY <1>4 DEF ClaimTick, Claimed, TypeOK, Claims
  <2> QED BY <1>4, <2>1 DEF ClaimTick, GrantsMatch, IsAnnotator
<1>5. CASE Restart
  BY <1>5 DEF Restart, GrantsMatch, IsAnnotator, Claimed, Idle, Message
<1>6. CASE UNCHANGED vars
  BY <1>6 DEF vars, GrantsMatch, Claimed, IsAnnotator
<1> QED BY <1>1, <1>2, <1>3, <1>4, <1>5, <1>6, StepCases

(* A verified claim can only end, never change hands, before it is used.    *)
LEMMA VerifiedStep ==
  ASSUME TypeOK, MessageWellFormed, IdsFresh, GrantsMatch, VerifiedOrEnded, [Next]_vars
  PROVE  VerifiedOrEnded'
<1>1. ASSUME NEW c \in Conn, Handle(c) \/ CommandFails(c)
      PROVE  VerifiedOrEnded'
  <2>1. Moved(c)
    BY <1>1, HandleMoves
  <2> SUFFICES ASSUME NEW d \in Conn, conn'[d].pc \in {"expire", "del"}
               PROVE  \/ conn'[d].id \in ended'
                      \/ /\ claim'[conn'[d].sid].owner = Who[d]
                         /\ claim'[conn'[d].sid].id = conn'[d].id
    BY DEF VerifiedOrEnded
  <2>2. /\ conn'[d].id = conn[d].id /\ conn'[d].sid = conn[d].sid
        /\ conn'[d].sid \in Session
        /\ conn[d].kind \in {"heartbeat", "release"}
    BY <2>1 DEF Moved, GoesOn, MessageWellFormed, Idle, Message
  <2>3. /\ conn[d].id \in ClaimId
        /\ grant[conn[d].id] = [to |-> Who[d], sid |-> conn[d].sid]
    BY <2>2 DEF GrantsMatch
  (* The claim was there before the step, or has ended.                     *)
  <2>4. \/ conn[d].id \in ended
        \/ claim[conn[d].sid].owner = Who[d] /\ claim[conn[d].sid].id = conn[d].id
    <3>1. CASE conn[d].pc \in {"expire", "del"}
      BY <3>1 DEF VerifiedOrEnded
    <3>2. CASE conn[d].pc \notin {"expire", "del"}
      <4>1. d = c /\ claim[conn[d].sid].id = conn[d].id
        BY <2>1, <3>2 DEF Moved, GoesOn, Idle, Message
      <4>2. Claimed(conn[d].sid)
        BY <2>3, <4>1, BoundAssumption DEF Claimed, NoClaim, ClaimId
      <4>3. grant[conn[d].id] = [to |-> claim[conn[d].sid].owner, sid |-> conn[d].sid]
        BY <2>2, <4>1, <4>2 DEF GrantsMatch
      <4> QED BY <2>3, <4>1, <4>3
    <3> QED BY <3>1, <3>2
  <2>5. CASE UNCHANGED <<claim, ended>>
    BY <2>2, <2>4, <2>5
  <2>6. CASE LuaClaim(c)
    <3>1. claim[conn[d].sid].id = conn[d].id => Claimed(conn[d].sid)
      BY <2>3, BoundAssumption DEF Claimed, NoClaim, ClaimId
    <3>2. Claimed(conn[d].sid) => claim'[conn[d].sid] = claim[conn[d].sid]
      BY <2>2, <2>6 DEF LuaClaim, TypeOK
    <3> QED BY <2>2, <2>4, <2>6, <3>1, <3>2 DEF LuaClaim
  <2>7. CASE RefreshClaim(c)
    <3>1. /\ claim'[conn[d].sid].owner = claim[conn[d].sid].owner
          /\ claim'[conn[d].sid].id = claim[conn[d].sid].id
      BY <2>2, <2>7 DEF RefreshClaim, TypeOK, Claimed, Claims
    <3> QED BY <2>2, <2>4, <2>7, <3>1 DEF RefreshClaim
  <2>8. CASE ReleaseClaim(c) \/ DeleteClaim(c)
    <3>1. claim[conn[d].sid].id = conn[d].id => Claimed(conn[d].sid)
      BY <2>3, BoundAssumption DEF Claimed, NoClaim, ClaimId
    <3> QED BY <2>2, <2>4, <2>8, <3>1 DEF ReleaseClaim, DeleteClaim, DropClaim, TypeOK
  <2> QED BY <1>1, <2>5, <2>6, <2>7, <2>8 DEF Handle, CommandFails, ScanOne, ScanDone,
         CheckOwner, MatchClaimId, RereadStatus, Requeue, LoadSession, SetAnnotating, SetStatus,
         CheckDelete, DeleteRecord
<1>2. ASSUME NEW c \in Conn,
             \E cap \in BOOLEAN : AutoClaim(c, cap) \/ \E s \in Session : ClaimSession(c, s, cap)
      PROVE  VerifiedOrEnded'
  <2>1. PICK m : /\ Opens(c, m) /\ m.kind = "claim" /\ m.id = nextId
                 /\ IsAnnotator(c)
                 /\ nextId \in ClaimId /\ nextId' = nextId + 1
                 /\ uncapped' = IF m.cap THEN uncapped ELSE uncapped \cup {Who[c]}
                 /\ UNCHANGED <<claim, status, grant, ended>>
    BY <1>2, ClaimOpens
  <2>2. conn'[c] = m /\ \A d \in Conn : d # c => conn'[d] = conn[d]
    BY <2>1 DEF Opens, TypeOK
  <2> QED BY <2>1, <2>2 DEF Opens, VerifiedOrEnded
<1>3. ASSUME NEW c \in Conn, NEW s \in Session, NEW kind \in Kinds,
             NEW id \in 0..MaxClaimIds, Request(c, kind, s, id)
      PROVE  VerifiedOrEnded'
  <2>1. PICK m : /\ Opens(c, m) /\ m.kind # "claim"
                 /\ m.kind \in {"heartbeat", "release"} =>
                       /\ IsAnnotator(c)
                       /\ m.id \in ClaimId
                       /\ grant[m.id] = [to |-> Who[c], sid |-> m.sid]
                 /\ UNCHANGED <<claim, status, nextId, grant, ended, uncapped>>
    BY <1>3, RequestOpens
  <2>2. conn'[c] = m /\ \A d \in Conn : d # c => conn'[d] = conn[d]
    BY <2>1 DEF Opens, TypeOK
  <2> QED BY <2>1, <2>2 DEF Opens, VerifiedOrEnded
<1>4. ASSUME NEW s \in Session, ClaimTick(s)
      PROVE  VerifiedOrEnded'
  <2> SUFFICES ASSUME NEW d \in Conn, conn[d].pc \in {"expire", "del"}
               PROVE  \/ conn[d].id \in ended'
                      \/ /\ claim'[conn[d].sid].owner = Who[d]
                         /\ claim'[conn[d].sid].id = conn[d].id
    BY <1>4 DEF ClaimTick, VerifiedOrEnded
  <2>1. /\ conn[d].sid \in Session
        /\ \/ conn[d].id \in ended
           \/ claim[conn[d].sid].owner = Who[d] /\ claim[conn[d].sid].id = conn[d].id
    BY DEF VerifiedOrEnded, MessageWellFormed
  <2>2. CASE conn[d].sid # s
    BY <1>4, <2>1, <2>2 DEF ClaimTick, TypeOK
  <2>3. CASE conn[d].sid = s
    <3>1. claim[s] \in [owner : Annotator, id : ClaimId, ttl : 1..Ttl]
      BY <1>4 DEF ClaimTick, Claimed, TypeOK, Claims
    <3>2. CASE claim[s].ttl = 1
      BY <1>4, <2>1, <2>3, <3>2 DEF ClaimTick
    <3>3. CASE claim[s].ttl # 1
      <4>1. claim[s].ttl > 1
        BY <3>1, <3>3, BoundAssumption
      <4>2. claim'[s] = [claim[s] EXCEPT !.ttl = claim[s].ttl - 1]
        BY <1>4, <4>1 DEF ClaimTick, TypeOK
      <4>3. claim'[s].owner = claim[s].owner /\ claim'[s].id = claim[s].id
        BY <3>1, <4>2
      <4> QED BY <1>4, <2>1, <2>3, <4>3 DEF ClaimTick
    <3> QED BY <3>2, <3>3
  <2> QED BY <2>2, <2>3
<1>5. CASE Restart
  BY <1>5 DEF Restart, VerifiedOrEnded, Idle, Message
<1>6. CASE UNCHANGED vars
  BY <1>6 DEF vars, VerifiedOrEnded
<1> QED BY <1>1, <1>2, <1>3, <1>4, <1>5, <1>6, StepCases

(* The claims of an annotator only grow in the script, and only below the   *)
(* limit.                                                                   *)
LEMMA LimitStep ==
  ASSUME TypeOK, MessageWellFormed, ClaimLimit, [Next]_vars
  PROVE  ClaimLimit'
<1> SUFFICES ASSUME NEW a \in Annotator, a \notin uncapped', Limit[a] > 0
             PROVE  (ClaimCount(a) <= Limit[a])'
  BY DEF ClaimLimit, WithinLimit
<1>0. a \notin uncapped
  BY UncappedGrows
<1>1. Limit[a] \in Nat /\ ClaimCount(a) <= Limit[a] /\ ClaimCount(a) \in Nat
  BY <1>0, LimitAssumption, ClaimsFinite DEF ClaimLimit, WithinLimit
<1>2. ASSUME ClaimsOf(a)' \subseteq ClaimsOf(a)
      PROVE  (ClaimCount(a) <= Limit[a])'
  <2>1. Cardinality(ClaimsOf(a)') <= Cardinality(ClaimsOf(a)) /\ Cardinality(ClaimsOf(a)') \in Nat
    BY <1>2, ClaimsFinite, FS_Subset, FS_CardinalityType
  <2> QED BY <1>1, <2>1 DEF ClaimCount
<1>3. ASSUME NEW c \in Conn, LuaClaim(c)
      PROVE  (ClaimCount(a) <= Limit[a])'
  <2>1. CASE claim' = claim
    BY <1>2, <2>1 DEF ClaimsOf
  <2>2. CASE claim' # claim /\ Who[c] # a
    <3>1. ClaimsOf(a)' \subseteq ClaimsOf(a)
      BY <1>3, <2>2 DEF LuaClaim, ClaimsOf, TypeOK
    <3> QED BY <1>2, <3>1
  <2>3. CASE claim' # claim /\ Who[c] = a
    <3>1. ClaimCount(a) < Limit[a] /\ ~Claimed(conn[c].sid) /\ conn[c].sid \in Session
          /\ claim' = [claim EXCEPT ![conn[c].sid] = [owner |-> a, id |-> conn[c].id, ttl |-> Ttl]]
      BY <1>0, <1>1, <1>3, <2>3 DEF LuaClaim, MessageWellFormed
    <3>2. conn[c].sid \notin ClaimsOf(a) /\ ClaimsOf(a)' = ClaimsOf(a) \cup {conn[c].sid}
      BY <3>1, AnnotatorAssumption DEF ClaimsOf, TypeOK, Claimed, NoClaim
    <3>3. Cardinality(ClaimsOf(a)') = Cardinality(ClaimsOf(a)) + 1
      BY <3>2, ClaimsFinite, FS_AddElement
    <3> QED BY <1>1, <3>1, <3>3 DEF ClaimCount
  <2> QED BY <2>1, <2>2, <2>3
<1>4. ASSUME NEW c \in Conn, RefreshClaim(c) \/ ReleaseClaim(c) \/ DeleteClaim(c)
      PROVE  (ClaimCount(a) <= Limit[a])'
  <2>1. ClaimsOf(a)' \subseteq ClaimsOf(a)
    BY <1>4, AnnotatorAssumption DEF RefreshClaim, ReleaseClaim, DeleteClaim, DropClaim,
       MessageWellFormed, ClaimsOf, TypeOK, Claims, NoClaim
  <2> QED BY <1>2, <2>1
<1>5. ASSUME NEW s \in Session, ClaimTick(s)
      PROVE  (ClaimCount(a) <= Limit[a])'
  <2>1. ClaimsOf(a)' \subseteq ClaimsOf(a)
    BY <1>5, AnnotatorAssumption DEF ClaimTick, ClaimsOf, TypeOK, Claims, NoClaim
  <2> QED BY <1>2, <2>1
<1>6. CASE UNCHANGED claim
  BY <1>2, <1>6 DEF ClaimsOf
<1> QED BY <1>3, <1>4, <1>5, <1>6, ClaimWriters

(* ma-core starts with no claim and no message.                             *)
LEMMA InitClaim == Init => ClaimInv
<1> SUFFICES ASSUME Init PROVE ClaimInv
  OBVIOUS
<1>1. TypeOK
  BY BoundAssumption DEF Init, TypeOK, Claims, AnnotationStatus, Messages, Idle,
     Message,
     PCs, Kinds, ClaimId
<1>2. MessageWellFormed /\ IdsFresh /\ GrantsMatch /\ VerifiedOrEnded
  BY DEF Init, MessageWellFormed, IdsFresh, GrantsMatch, VerifiedOrEnded, Idle,
     Message, Claimed
<1>3. ASSUME NEW a \in Annotator
      PROVE  ClaimCount(a) = 0
  <2>1. ClaimsOf(a) = {}
    BY AnnotatorAssumption DEF Init, ClaimsOf, NoClaim
  <2> QED BY <2>1, FS_EmptySet DEF ClaimCount
<1>4. ClaimLimit
  BY <1>3, LimitAssumption DEF ClaimLimit, WithinLimit
<1> QED BY <1>1, <1>2, <1>4 DEF ClaimInv

(* The invariant holds in every reachable state.                            *)
LEMMA ClaimInvariant == Spec => []ClaimInv
<1>1. ClaimInv /\ [Next]_vars => ClaimInv'
  BY TypeStep, MessageStep, FreshStep, GrantStep, VerifiedStep, LimitStep DEF ClaimInv
<1> QED BY InitClaim, <1>1, PTL DEF Spec

(* Every command leaves claims, records, messages and claim ids in their    *)
(* types: a message never carries an operand its next command cannot use.   *)
THEOREM ClaimTypes == Spec => []TypeOK
<1>1. ClaimInv => TypeOK
  BY DEF ClaimInv
<1> QED BY ClaimInvariant, <1>1, PTL

(* However many connections an annotator opens and however their messages   *)
(* interleave with expiries, it never holds more claims than its            *)
(* max_concurrent_claims, unless a read of that limit failed.               *)
THEOREM ClaimLimitHolds == Spec => []ClaimLimit
<1>1. ClaimInv => ClaimLimit
  BY DEF ClaimInv
<1> QED BY ClaimInvariant, <1>1, PTL

(* Between the check of a claim and the EXPIRE or DEL that relies on it the *)
(* claim can end but not change hands: SET NX and unique claim ids suffice. *)
THEOREM VerifiedClaimsHold == Spec => []VerifiedOrEnded
<1>1. ClaimInv => VerifiedOrEnded
  BY DEF ClaimInv
<1> QED BY ClaimInvariant, <1>1, PTL
=============================================================================

