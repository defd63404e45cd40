--------------------------- MODULE SessionRegistry ---------------------------
(***************************************************************************)
(* The session part of the Redis registry (ma-core/src/registry), at the   *)
(* granularity of single Redis commands.                                   *)
(*                                                                         *)
(* Every IPC connection, watch loop and sweep of ma-core owns a clone of   *)
(* SessionRegistry, so the commands of two registry calls on the same      *)
(* session interleave freely: neither register, update_status nor          *)
(* delete_session is a MULTI/EXEC transaction.  A `Handler' is one such     *)
(* clone, and op[h] is the registry call it is executing.  A call ends     *)
(* early when a command fails (the `?' after every await) or when the      *)
(* process is killed.                                                      *)
(***************************************************************************)
EXTENDS Naturals, Sequences

CONSTANTS
    Session,    \* session ids (UUIDs drawn by RegisterSession)
    Handler,    \* clones of the registry that may run at the same time
    Legacy,     \* sessions a version that still set a TTL may have recorded
    Targets,    \* the statuses the callers of update_status ask for
    None        \* no session

Status == {"active", "pending_annotation", "pending_human_annotation",
           "annotating", "pending_compilation", "reasoning_degraded",
           "complete", "incomplete"}

(* index_set: every status but the last two has an index set of its own,    *)
(* named here by the status.                                                *)
Indexed == Status \ {"complete", "incomplete"}

(* The order in which delete_session and the start-up clean-up visit them.  *)
StatusSets == <<"active", "pending_annotation", "pending_human_annotation",
                "annotating", "pending_compilation", "reasoning_degraded">>

ASSUME NoneAssumption == None \notin Session
ASSUME LegacyAssumption == Legacy \subseteq Session
ASSUME TargetsAssumption == Targets \subseteq Status

VARIABLES
    hash,   \* session:{id}: which fields are there, status, is a TTL set
    index,  \* sessions:{status}: the six status index sets
    attrs,  \* sessions:by_os:*, sessions:by_mode:*: the two attribute indexes
    op,     \* the registry call every handler is executing
    boot,   \* next set the start-up clean-up visits, then the sweep of the
            \* active set; 0 once ma-core serves
    hist    \* history: what has happened to each session

vars == <<hash, index, attrs, op, boot, hist>>

(* "all": a record `get' can parse; "some": a Hash made by an unconditional *)
(* HSET on a key that did not exist, which `get' rejects.                   *)
Hashes == [fields : {"none", "some", "all"}, status : Status \cup {"none"},
           ttl : BOOLEAN]

Absent == [fields |-> "none", status |-> "none", ttl |-> FALSE]

Idle == [pc |-> "idle", sid |-> None, old |-> "none", new |-> "none", k |-> 0]

(* A call in progress, before its next command.                             *)
Call(pc, s, old, new, k) ==
    [pc |-> pc, sid |-> s, old |-> old, new |-> new, k |-> k]

PCs == {"idle", "create", "list", "list_os", "list_mode",
        "srem", "hset", "sadd", "persist",
        "unlist", "unlist_os", "unlist_mode"}

Ops == [pc : PCs, sid : Session \cup {None}, old : Status \cup {"none"},
        new : Status \cup {"none"}, k : 0..Len(StatusSets)]

(* issued: the UUID was drawn; known: others can name it, from an index set *)
(* or from the reply of RegisterSession; raced: two calls on the session       *)
(* overlapped; torn: a call on it was cut short; expired: Redis dropped its *)
(* record; settled: an update_status on it has completed; deleted: its      *)
(* record was removed by delete_session.                                    *)
Marks == {"issued", "known", "raced", "torn", "expired", "settled", "deleted"}

TypeOK ==
    /\ hash \in [Session -> Hashes]
    /\ index \in [Indexed -> SUBSET Session]
    /\ attrs \in [{"os", "mode"} -> SUBSET Session]
    /\ op \in [Handler -> Ops]
    /\ boot \in 0..(Len(StatusSets) + 1)
    /\ hist \in [Session -> SUBSET Marks]

-----------------------------------------------------------------------------
Busy(s) == \E h \in Handler : op[h].sid = s

Marked(s, m) == m \in hist[s]

Mark(s, ms) == [hist EXCEPT ![s] = @ \cup ms]

(* Starting a call on s while another one is in progress is a race.         *)
Started(s, ms) == Mark(s, ms \cup (IF Busy(s) THEN {"raced"} ELSE {}))

Goto(h, pc) == [op EXCEPT ![h].pc = pc]

Return(h) == [op EXCEPT ![h] = Idle]

(* ma-core starts on what an earlier version left: records readable, listed *)
(* and carrying the TTL of their status.                                    *)
Init ==
    /\ hash \in [Session -> {Absent} \cup
                    [fields : {"all"}, status : Targets, ttl : {TRUE}]]
    /\ \A s \in Session \ Legacy : hash[s] = Absent
    /\ index = [i \in Indexed |-> {s \in Session : hash[s].status = i}]
    /\ attrs = [a \in {"os", "mode"} |-> {s \in Session : hash[s] # Absent}]
    /\ op = [h \in Handler |-> Idle]
    /\ boot = 1
    /\ hist = [s \in Session |-> IF hash[s] # Absent THEN {"issued", "known"} ELSE {}]

Serving(h) == boot = 0 /\ op[h].pc = "idle"

-----------------------------------------------------------------------------
(* Broken variants of actions below, named after the action and the slip:   *)
(* put in the place of the action, each one violates a property checked of  *)
(* this module.  No specification uses them.                                *)

UpdateStatus_NoSrem(h, s, new) ==   \* the old set is not left
    /\ Serving(h)
    /\ Marked(s, "known")
    /\ op' = [op EXCEPT ![h] = Call("hset", s, hash[s].status, new, 0)]
    /\ hist' = Started(s, {})
    /\ UNCHANGED <<hash, index, attrs, boot>>

HsetStatus_SkipSame(h) ==   \* no SADD when the status stays the same
    /\ op[h].pc = "hset"
    /\ hash' = [hash EXCEPT
                  ![op[h].sid].status = op[h].new,
                  ![op[h].sid].fields = IF @ = "none" THEN "some" ELSE @]
    /\ op' = Goto(h, IF op[h].new \in Indexed \ {op[h].old} THEN "sadd" ELSE "persist")
    /\ UNCHANGED <<index, attrs, boot, hist>>

HsetStatus_WholeRecord(h) ==   \* the record is written back, not one field
    /\ op[h].pc = "hset"
    /\ hash' = [hash EXCEPT ![op[h].sid] =
                    [fields |-> "all", status |-> op[h].new, ttl |-> @.ttl]]
    /\ op' = Goto(h, IF op[h].new \in Indexed THEN "sadd" ELSE "persist")
    /\ UNCHANGED <<index, attrs, boot, hist>>

ClearTtl_KeepsTtl(h) ==   \* the stale TTL stays
    /\ op[h].pc = "persist"
    /\ hist' = Mark(op[h].sid, {"settled"})
    /\ op' = Return(h)
    /\ UNCHANGED <<hash, index, attrs, boot>>

SremFromStatusSet_OneMore(h) ==   \* one set too many
    /\ op[h].pc = "unlist"
    /\ index' = [index EXCEPT ![StatusSets[op[h].k]] = @ \ {op[h].sid}]
    /\ op' = IF op[h].k > Len(StatusSets) THEN Goto(h, "unlist_os")
             ELSE [op EXCEPT ![h].k = @ + 1]
    /\ UNCHANGED <<hash, attrs, boot, hist>>

-----------------------------------------------------------------------------
(* register: EXISTS (false, the id is a fresh UUID), HSET of every field,   *)
(* then the status, OS and mode index sets.                                 *)
Register(h, s) ==
    /\ Serving(h)
    /\ ~Marked(s, "issued")
    /\ hash[s].fields = "none"
    /\ op' = [op EXCEPT ![h] = Call("create", s, "none", "active", 0)]
    /\ hist' = Started(s, {"issued"})
    /\ UNCHANGED <<hash, index, attrs, boot>>

CreateHash(h) ==
    /\ op[h].pc = "create"
    /\ hash' = [hash EXCEPT ![op[h].sid] =
                    [fields |-> "all", status |-> op[h].new, ttl |-> FALSE]]
    /\ op' = Goto(h, "list")
    /\ UNCHANGED <<index, attrs, boot, hist>>

AddToStatusIndex(h) ==
    /\ op[h].pc = "list"
    /\ index' = [index EXCEPT ![op[h].new] = @ \cup {op[h].sid}]
    /\ op' = Goto(h, "list_os")
    /\ hist' = Mark(op[h].sid, {"known"})
    /\ UNCHANGED <<hash, attrs, boot>>

AddToOsIndex(h) ==
    /\ op[h].pc = "list_os"
    /\ attrs' = [attrs EXCEPT !["os"] = @ \cup {op[h].sid}]
    /\ op' = Goto(h, "list_mode")
    /\ UNCHANGED <<hash, index, boot, hist>>

AddToModeIndex(h) ==
    /\ op[h].pc = "list_mode"
    /\ attrs' = [attrs EXCEPT !["mode"] = @ \cup {op[h].sid}]
    /\ op' = Return(h)
    /\ UNCHANGED <<hash, index, boot, hist>>

-----------------------------------------------------------------------------
(* update_status: HGET status, SREM from the set of that status, HSET the   *)
(* new status (on whatever the key holds by now, also nothing), SADD, and   *)
(* PERSIST.  No caller checks that the session exists when the call starts. *)
UpdateStatus(h, s, new) ==
    /\ Serving(h)
    /\ Marked(s, "known")
    /\ LET old == hash[s].status
       IN  op' = [op EXCEPT ![h] =
                    Call(IF old \in Indexed THEN "srem" ELSE "hset",
                         s, old, new, 0)]
    /\ hist' = Started(s, {})
    /\ UNCHANGED <<hash, index, attrs, boot>>

SremOldStatus(h) ==
    /\ op[h].pc = "srem"
    /\ index' = [index EXCEPT ![op[h].old] = @ \ {op[h].sid}]
    /\ op' = Goto(h, "hset")
    /\ UNCHANGED <<hash, attrs, boot, hist>>

HsetStatus(h) ==
    /\ op[h].pc = "hset"
    /\ hash' = [hash EXCEPT
                  ![op[h].sid].status = op[h].new,
                  ![op[h].sid].fields = IF @ = "none" THEN "some" ELSE @]
    /\ op' = Goto(h, IF op[h].new \in Indexed THEN "sadd" ELSE "persist")
    /\ UNCHANGED <<index, attrs, boot, hist>>

SaddNewStatus(h) ==
    /\ op[h].pc = "sadd"
    /\ index' = [index EXCEPT ![op[h].new] = @ \cup {op[h].sid}]
    /\ op' = Goto(h, "persist")
    /\ UNCHANGED <<hash, attrs, boot, hist>>

ClearTtl(h) ==
    /\ op[h].pc = "persist"
    /\ hash' = [hash EXCEPT ![op[h].sid].ttl = FALSE]
    /\ hist' = Mark(op[h].sid, {"settled"})
    /\ op' = Return(h)
    /\ UNCHANGED <<index, attrs, boot>>

(* update_memory_path and update_annotation_counters: one unconditional     *)
(* HSET of other fields, which creates the key when it is gone.             *)
UpdateFields(s) ==
    /\ boot = 0
    /\ Marked(s, "known")
    /\ hash[s].fields = "none"
    /\ hash' = [hash EXCEPT ![s].fields = "some"]
    /\ UNCHANGED <<index, attrs, op, boot, hist>>

-----------------------------------------------------------------------------
(* delete_session: DEL of the Hash, SREM from the six status sets in turn,  *)
(* then from the OS and the mode index.  (The claim key, its last DEL, is   *)
(* in AnnotatorClaims.)                                                     *)
DeleteSession(h, s) ==
    /\ Serving(h)
    /\ Marked(s, "known")
    /\ hash' = [hash EXCEPT ![s] = Absent]
    /\ op' = [op EXCEPT ![h] = Call("unlist", s, "none", "none", 1)]
    /\ hist' = Started(s, {"deleted"})
    /\ UNCHANGED <<index, attrs, boot>>

SremFromStatusSet(h) ==
    /\ op[h].pc = "unlist"
    /\ index' = [index EXCEPT ![StatusSets[op[h].k]] = @ \ {op[h].sid}]
    /\ op' = IF op[h].k = Len(StatusSets) THEN Goto(h, "unlist_os")
             ELSE [op EXCEPT ![h].k = @ + 1]
    /\ UNCHANGED <<hash, attrs, boot, hist>>

SremFromOsIndex(h) ==
    /\ op[h].pc = "unlist_os"
    /\ attrs' = [attrs EXCEPT !["os"] = @ \ {op[h].sid}]
    /\ op' = Goto(h, "unlist_mode")
    /\ UNCHANGED <<hash, index, boot, hist>>

SremFromModeIndex(h) ==
    /\ op[h].pc = "unlist_mode"
    /\ attrs' = [attrs EXCEPT !["mode"] = @ \ {op[h].sid}]
    /\ op' = Return(h)
    /\ UNCHANGED <<hash, index, boot, hist>>

-----------------------------------------------------------------------------
(* The next Redis command of the call fails: the call returns its error and *)
(* what it has already done stays done.                                     *)
CommandFails(h) ==
    /\ op[h].pc # "idle"
    /\ op' = Return(h)
    /\ hist' = Mark(op[h].sid, {"torn"})
    /\ UNCHANGED <<hash, index, attrs, boot>>

(* ma-core is killed; every call in progress is cut short and start-up runs *)
(* again, alone.                                                            *)
Crash ==
    /\ boot = 0
    /\ op' = [h \in Handler |-> Idle]
    /\ hist' = [s \in Session |-> IF Busy(s) THEN hist[s] \cup {"torn"}
                                  ELSE hist[s]]
    /\ boot' = 1
    /\ UNCHANGED <<hash, index, attrs>>

(* cleanup_stale_index_entries on one status set: drop the members without  *)
(* a Hash.                                                                  *)
CleanupStaleIndexEntries ==
    /\ boot \in 1..Len(StatusSets)
    /\ index' = [index EXCEPT ![StatusSets[boot]] =
                    {s \in @ : hash[s].fields # "none"}]
    /\ boot' = boot + 1
    /\ UNCHANGED <<hash, attrs, op, hist>>

(* The sweep of the active set unlists a session it cannot `get': no        *)
(* readable record, or a HGETALL that failed.  (Its update_status calls on  *)
(* the others are UpdateStatus.)                                            *)
RemoveFromActiveSet(s) ==
    /\ boot = Len(StatusSets) + 1
    /\ index' = [index EXCEPT !["active"] = @ \ {s}]
    /\ hist' = IF hash[s].fields = "all" THEN Mark(s, {"torn"}) ELSE hist
    /\ UNCHANGED <<hash, attrs, op, boot>>

StartServing ==
    /\ boot = Len(StatusSets) + 1
    /\ boot' = 0
    /\ UNCHANGED <<hash, index, attrs, op, hist>>

(* Redis drops a key whose TTL has run out.                                 *)
Expire(s) ==
    /\ hash[s].ttl
    /\ hash' = [hash EXCEPT ![s] = Absent]
    /\ hist' = Mark(s, {"expired"})
    /\ UNCHANGED <<index, attrs, op, boot>>

Step(h) ==
    \/ CreateHash(h) \/ AddToStatusIndex(h) \/ AddToOsIndex(h) \/ AddToModeIndex(h)
    \/ SremOldStatus(h) \/ HsetStatus(h) \/ SaddNewStatus(h) \/ ClearTtl(h)
    \/ SremFromStatusSet(h) \/ SremFromOsIndex(h) \/ SremFromModeIndex(h)

Next ==
    \/ \E h \in Handler : Step(h) \/ CommandFails(h)
    \/ \E h \in Handler, s \in Session :
          \/ Register(h, s) \/ DeleteSession(h, s)
          \/ \E new \in Targets : UpdateStatus(h, s, new)
    \/ \E s \in Session : UpdateFields(s) \/ Expire(s) \/ RemoveFromActiveSet(s)
    \/ Crash
    \/ CleanupStaleIndexEntries
    \/ StartServing

Spec == Init /\ [][Next]_vars

-----------------------------------------------------------------------------
(* A call on s that is between removing it from one status set and adding   *)
(* it to the set of the status the Hash carries now.                        *)
Relisting(h, s) ==
    /\ op[h].sid = s
    /\ \/ op[h].pc = "hset"
       \/ op[h].pc \in {"sadd", "list"} /\ op[h].new = hash[s].status

(* However the commands of concurrent register and update_status calls      *)
(* interleave, a readable record is listed in the index set of the status   *)
(* it carries, or a call that will list it is still running: only a call    *)
(* cut short in the middle can make a recording unreachable through the     *)
(* index sets, which the sweeps and queues read instead of the records.     *)
NoSessionLost ==
    \A s \in Session :
        /\ hash[s].fields = "all"
        /\ hash[s].status \in Indexed
        /\ ~Marked(s, "torn")
        => \/ s \in index[hash[s].status]
           \/ \E h \in Handler : Relisting(h, s)

Undisturbed(s) == hist[s] \cap {"raced", "torn", "expired"} = {}

(* When the calls on a session never overlapped and none was cut short, the *)
(* index sets say exactly what the record says once the calls are done: one *)
(* status set, the one of its status; delete_session takes it out of all.   *)
IndexExact ==
    \A s \in Session : Undisturbed(s) /\ ~Busy(s) =>
        /\ \A i \in Indexed :
              /\ s \in index[i] => hash[s].status = i
              /\ hash[s].fields = "all" /\ hash[s].status = i => s \in index[i]
        /\ \A a \in {"os", "mode"} : hash[s].fields = "all" => s \in attrs[a]
        /\ Marked(s, "deleted") => \A a \in {"os", "mode"} : s \notin attrs[a]

(* A record that went through one update_status is durable: whatever an     *)
(* earlier version set, it disappears only by delete_session.  (README:     *)
(* "update_status clears a stale TTL [...] which is what makes the fix      *)
(* retroactive for records written by earlier versions".)                   *)
SettledRecordsAreDurable ==
    [][\A s \in Session :
          /\ Marked(s, "settled")
          /\ hash[s].fields # "none"
          /\ hash'[s].fields = "none"
          => \E h \in Handler : /\ op[h].pc = "idle"
                               /\ op'[h].pc = "unlist"
                               /\ op'[h].sid = s]_vars

-----------------------------------------------------------------------------
(* The registry as its callers see it.  A call takes effect with the HSET   *)
(* or the DEL; the index sets follow, and must agree once it has returned.  *)
Listings(s) == {i \in Indexed : s \in index[i]}
Attributes(s) == {a \in {"os", "mode"} : s \in attrs[a]}

RecordView(s) ==
    CASE hash[s].fields = "all"  -> hash[s].status
      [] hash[s].fields = "some" -> "partial"
      [] hash[s].fields = "none" -> IF Marked(s, "deleted") THEN "gone" ELSE "new"

ListedRight(s) ==
    CASE hash[s].fields = "all"  -> /\ Listings(s) = {hash[s].status} \cap Indexed
                                    /\ Attributes(s) = {"os", "mode"}
      [] hash[s].fields = "some" -> /\ Listings(s) \subseteq {hash[s].status}
                                    /\ Attributes(s) = {}
      [] hash[s].fields = "none" -> Listings(s) = {} /\ Attributes(s) = {}

View(s) ==
    IF ~Undisturbed(s) THEN "loose"
    ELSE IF Busy(s) \/ ListedRight(s) THEN RecordView(s)
    ELSE "wrong"

Atomic == INSTANCE AtomicRegistry WITH view <- [s \in Session |-> View(s)]

(* Every registry call on a session whose calls do not overlap looks to its *)
(* callers as one step: record and index sets change together, at no        *)
(* command do the index sets of a returned call disagree with the record,   *)
(* and a deleted session never becomes a record again (register,            *)
(* update_status, delete_session and the start-up clean-up).                *)
ImplementsAtomicRegistry == Atomic!Spec

-----------------------------------------------------------------------------
(* The strengthening that makes NoSessionLost and IndexExact inductive.     *)

RegisterPCs == {"create", "list", "list_os", "list_mode"}
UpdatePCs == {"srem", "hset", "sadd", "persist"}
DeletePCs == {"unlist", "unlist_os", "unlist_mode"}

(* The operands a call needs for its next command are there.                *)
OpWellFormed ==
    \A h \in Handler :
        /\ op[h].pc = "idle" => op[h] = Idle
        /\ op[h].pc # "idle" => op[h].sid \in Session
        /\ op[h].pc = "srem" => op[h].old \in Indexed
        /\ op[h].pc \in {"create", "list"} => op[h].new = "active"
        /\ op[h].pc = "sadd" => op[h].new \in Indexed
        /\ op[h].pc = "unlist" => op[h].k \in 1..Len(StatusSets)

(* Only register makes a readable record, and it does so before anyone else *)
(* can name the session: a record that delete_session has dropped is never  *)
(* readable again, so its SREMs cannot unlist a live one.                   *)
NoRebirth ==
    /\ \A s \in Session : Marked(s, "known") => Marked(s, "issued")
    /\ \A h \in Handler : op[h].pc # "idle" => Marked(op[h].sid, "issued")
    /\ \A g, h \in Handler :
          op[g].pc = "create" /\ op[h].pc \in {"create", "list"}
          /\ op[g].sid = op[h].sid => g = h
    /\ \A h \in Handler :
        /\ op[h].pc \in UpdatePCs \cup DeletePCs => Marked(op[h].sid, "known")
        /\ op[h].pc = "create" => ~Marked(op[h].sid, "known")
        /\ op[h].pc \in DeletePCs => hash[op[h].sid].fields # "all"

LostInv == TypeOK /\ OpWellFormed /\ NoRebirth /\ NoSessionLost
-----------------------------------------------------------------------------
(* The strengthening that makes IndexExact inductive and carries the        *)
(* refinement: what a call on an undisturbed session has done so far, which *)
(* its next command relies on.                                              *)

(* No two calls on the session: an overlap would have marked it.            *)
Alone(s) == \A g, h \in Handler : op[g].sid = s /\ op[h].sid = s => g = h

Nowhere(s) == \A i \in Indexed : s \notin index[i]
StatusListed(s) ==
    \A i \in Indexed :
        /\ s \in index[i] => hash[s].status = i
        /\ hash[s].fields = "all" /\ hash[s].status = i => s \in index[i]
AttrsListed(s) == \A a \in {"os", "mode"} : s \in attrs[a] <=> hash[s].fields = "all"

(* A session is readable from CreateHash until its first delete, and what   *)
(* others can name has been readable.                                       *)
Life(s) ==
    /\ hash[s].fields = "none" => hash[s].status = "none"
    /\ hash[s].fields = "all" => /\ hash[s].status \in Status
                                 /\ Marked(s, "issued") /\ ~Marked(s, "deleted")
    /\ hash[s].fields # "all" /\ Marked(s, "known") => Marked(s, "deleted")
    /\ hash[s].fields = "some" \/ Marked(s, "deleted") => Marked(s, "known")
    /\ Marked(s, "issued") /\ ~Busy(s) => Marked(s, "known")

CallExact(h, s) ==
    LET at(pcs) == op[h].pc \in pcs
    IN  /\ at({"create"}) => hash[s].fields = "none" /\ ~Marked(s, "known")
        /\ at({"list", "list_os", "list_mode"}) =>
              hash[s].fields = "all" /\ hash[s].status = "active"
        /\ at({"list_os", "list_mode"}) => Marked(s, "known")
        /\ at({"create", "list", "hset", "sadd", "unlist_os", "unlist_mode"}) => Nowhere(s)
        /\ at({"list_os", "list_mode", "srem", "persist"}) => StatusListed(s)
        /\ at({"create", "list", "list_os", "unlist_mode"}) => s \notin attrs["os"]
        /\ at({"create", "list", "list_os", "list_mode"}) => s \notin attrs["mode"]
        /\ at({"list_mode"}) => s \in attrs["os"]
        /\ at(UpdatePCs) => AttrsListed(s)
        /\ at({"srem"}) => op[h].old = hash[s].status
        /\ at({"srem", "hset"}) => op[h].new \in Targets
        /\ at({"sadd", "persist"}) => hash[s].status = op[h].new /\ hash[s].fields # "none"
        /\ at({"unlist"}) => \A j \in 1..(op[h].k - 1) : s \notin index[StatusSets[j]]
        /\ at(DeletePCs) => hash[s].fields # "all" /\ hash[s].status = "none"

ExactFor(s) ==
    Undisturbed(s) =>
        /\ Alone(s) /\ Life(s)
        /\ ~Busy(s) => StatusListed(s) /\ AttrsListed(s)
        /\ \A h \in Handler : op[h].sid = s => CallExact(h, s)

(* Start-up runs alone.                                                     *)
BootAlone == boot # 0 => \A h \in Handler : op[h].pc = "idle"

ExactInv == LostInv /\ BootAlone /\ \A s \in Session : ExactFor(s)

(* And the one for SettledRecordsAreDurable.                                *)
NoStaleTtl == \A s \in Session : Marked(s, "settled") => ~hash[s].ttl
=============================================================================
