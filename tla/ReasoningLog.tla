---------------------------- MODULE ReasoningLog ----------------------------
(***************************************************************************)
(* Reasoning of an automated session: ReasoningMaps and the placeholders    *)
(* of a finished session (ma-core/src/capture/mod.rs), reasoning.jsonl      *)
(* (ma-core/src/session/reasoning.rs), the token counts of CaptureState,    *)
(* and the handlers of ReasoningResult, ReasoningDegraded, CircuitReset and *)
(* of a Done without a handle (ma-core/src/ipc/mod.rs).                     *)
(*                                                                         *)
(* All of it is kept by session id, so one session and one watch loop are   *)
(* modelled.  Each result reports one token.  The runtime has several       *)
(* threads: the two halves of upsert_entry, which takes no lock of its own, *)
(* are two steps.                                                           *)
(***************************************************************************)
EXTENDS Naturals, FiniteSets

CONSTANTS
    Handler,        \* connections, each handling one message at a time
    Clouds,         \* whether storage_mode is "cloud_primary": the choices
    FlushInterval,  \* metadata_flush_interval
    Faults,         \* "write" (of a local file), "put" (to object storage),
                    \* "read" (of reasoning.jsonl for an upload), "scan" (of
                    \* reasoning.jsonl for the placeholders)
    MaxSteps,       \* bound: steps recorded
    MaxResults,     \* bound: ReasoningResult messages
    MaxOthers       \* bound: ReasoningDegraded, CircuitReset, second Done

ASSUME LogBounds ==
    /\ FlushInterval \in Nat \ {0} /\ Clouds \subseteq BOOLEAN
    /\ MaxSteps \in Nat /\ MaxResults \in Nat /\ MaxOthers \in Nat
    /\ Faults \subseteq {"write", "put", "read", "scan"}
    /\ IsFiniteSet(Handler)

VARIABLES
    maps,    \* ReasoningMaps, for this session; lock 0 is an absent entry
    file,    \* reasoning.jsonl in the memory directory
    cloud,   \* reasoning.jsonl in object storage
    meta,    \* metadata.json where it is kept: its token counts
    loop,    \* the watch loop, with CaptureState's copy of them and its steps
    h,       \* the handlers
    reg,     \* the status of the Redis record
    hist     \* history and bounds: pushed: steps offered for reasoning;
             \* answered: steps with an accepted result; added, padded: tokens
             \* put into the maps; late: a result was being written when the
             \* mutex was dropped, or while the loop was finishing; misread: the
             \* log could not be read for the placeholders; failed: an
             \* upload or a placeholder failed; results, others: messages

vars == <<maps, file, cloud, meta, loop, h, reg, hist>>

Step == 1 .. MaxSteps

(* An entry is a result of the model or has source "model_degraded".        *)
Entries == {"none", "model", "placeholder"}
Logs == [Step -> Entries]
EmptyLog == [n \in Step |-> "none"]
StepsIn(log) == {n \in Step : log[n] # "none"}

Metas == [tokens : Nat, provider : Nat]
NoMeta == [tokens |-> 0, provider |-> 0]

LoopPCs == {"run", "flush", "drained", "ending", "remove", "last", "lastdrained",
            "scan", "place", "replace", "read", "put", "route", "ended"}
Loops == [cloud : Clouds, pc : LoopPCs, mem : Metas, steps : 0 .. MaxSteps, due : Nat, clean : BOOLEAN,
          degraded : BOOLEAN, todo : SUBSET Step, seen : Logs, wrote : BOOLEAN]

HandlerPCs == {"idle", "arc", "wait", "upsert", "read", "put", "tokens",
               "provider", "degrade", "reset", "fetch", "write", "asked",
               "remove", "route"}
Handlers == [pc : HandlerPCs, step : 0 .. MaxSteps, lock : Nat, seen : Logs, meta : Metas, degraded : BOOLEAN]
Idle == [pc |-> "idle", step |-> 0, lock |-> 0,
         seen |-> EmptyLog, meta |-> NoMeta, degraded |-> FALSE]

Statuses == {"active", "reasoning_degraded", "pending_annotation",
             "pending_human_annotation", "incomplete"}

TypeOK ==
    /\ maps \in [tokens : Nat, provider : Nat, lock : Nat, degraded : BOOLEAN]
    /\ file \in Logs /\ cloud \in Logs
    /\ meta \in Metas
    /\ loop \in Loops
    /\ h \in [Handler -> Handlers]
    /\ reg \in Statuses
    /\ hist \in [pushed : SUBSET Step, answered : SUBSET Step, added : Nat, padded : Nat,
                 late : BOOLEAN, misread : BOOLEAN, failed : BOOLEAN, results : Nat, others : Nat]

NoTokens == [tokens |-> 0, provider |-> 0, lock |-> 0, degraded |-> FALSE]

Init ==
    /\ maps = NoTokens
    /\ file = EmptyLog /\ cloud = EmptyLog
    /\ meta = NoMeta
    /\ \E c \in Clouds :
         loop = [cloud |-> c, pc |-> "run", mem |-> NoMeta, steps |-> 0, due |-> 0, clean |-> FALSE,
                 degraded |-> FALSE, todo |-> {}, seen |-> EmptyLog, wrote |-> FALSE]
    /\ h = [x \in Handler |-> Idle]
    /\ reg = "active"
    /\ hist = [pushed |-> {}, answered |-> {}, added |-> 0, padded |-> 0,
               late |-> FALSE, misread |-> FALSE, failed |-> FALSE, results |-> 0, others |-> 0]

Cloud == loop.cloud   \* is_cloud_primary

Goto(x, pc) == h' = [h EXCEPT ![x].pc = pc]
LoopGoto(pc) == loop' = [loop EXCEPT !.pc = pc]
MayFail(fault, ok) == ok \/ fault \in Faults

(* A put to object storage, of reasoning.jsonl as it was read.              *)
Put(bytes, ok) ==
    /\ MayFail("put", ok)
    /\ cloud' = IF ok THEN bytes ELSE cloud
    /\ hist' = [hist EXCEPT !.failed = @ \/ ~ok]

-----------------------------------------------------------------------------
(* ReasoningResult: the record is read, and the step's command, which the   *)
(* entry repeats (empty when metadata.json does not have the step yet).     *)
ReasoningResult(x, n) ==
    /\ h[x].pc = "idle" /\ n \in hist.pushed
    /\ hist.results < MaxResults
    /\ h' = [h EXCEPT ![x].pc = "arc", ![x].step = n]
    /\ hist' = [hist EXCEPT !.results = @ + 1]
    /\ UNCHANGED <<maps, file, cloud, meta, loop, reg>>

(* session_write_lock: the mutex in the map, or a new one.                  *)
SessionWriteLock(x) ==
    LET used == {h[y].lock : y \in Handler} \cup {0}
        fresh == CHOOSE l \in 1 .. Cardinality(used) : l \notin used
        lock == IF maps.lock # 0 THEN maps.lock ELSE fresh
    IN  /\ h[x].pc = "arc"
        /\ maps' = [maps EXCEPT !.lock = lock]
        /\ h' = [h EXCEPT ![x].pc = "wait", ![x].lock = lock]
        /\ UNCHANGED <<file, cloud, meta, loop, reg, hist>>

Writing == {"upsert", "read", "put", "tokens", "provider"}

Closing == loop.pc \notin {"run", "flush", "drained", "ending", "remove", "ended"}

Acquire_NoWait(x) ==   \* no mutex
    /\ h[x].pc = "wait"
    /\ h' = [h EXCEPT ![x].pc = "upsert", ![x].seen = file]
    /\ hist' = [hist EXCEPT !.late = @ \/ Closing]
    /\ UNCHANGED <<maps, file, cloud, meta, loop, reg>>

(* The guard, and the first half of upsert_entry: the file is read.         *)
Acquire(x) ==
    /\ h[x].pc = "wait"
    /\ \A y \in Handler : h[y].lock = h[x].lock => h[y].pc \notin Writing
    /\ h' = [h EXCEPT ![x].pc = "upsert", ![x].seen = file]
    /\ hist' = [hist EXCEPT !.late = @ \/ Closing]
    /\ UNCHANGED <<maps, file, cloud, meta, loop, reg>>

(* The second half: the temporary file and the rename.  A failure is        *)
(* answered with WRITE_FAILED.                                              *)
UpsertEntry(x, ok) ==
    /\ h[x].pc = "upsert"
    /\ MayFail("write", ok)
    /\ IF ok THEN /\ file' = [h[x].seen EXCEPT ![h[x].step] = "model"]
                  /\ h' = [h EXCEPT ![x].pc = IF Cloud THEN "read" ELSE "tokens",
                                    ![x].seen = EmptyLog]
             ELSE /\ file' = file
                  /\ h' = [h EXCEPT ![x] = Idle]
    /\ UNCHANGED <<maps, cloud, meta, loop, reg, hist>>

ReadLog(x, ok) ==
    /\ h[x].pc = "read"
    /\ MayFail("read", ok)
    /\ IF ok THEN h' = [h EXCEPT ![x].pc = "put", ![x].seen = file] ELSE Goto(x, "tokens")
    /\ hist' = [hist EXCEPT !.failed = @ \/ ~ok]
    /\ UNCHANGED <<maps, file, cloud, meta, loop, reg>>

PutLog(x, ok) ==
    /\ h[x].pc = "put"
    /\ Put(h[x].seen, ok)
    /\ h' = [h EXCEPT ![x].pc = "tokens", ![x].seen = EmptyLog]
    /\ UNCHANGED <<maps, file, meta, loop, reg>>

(* add_tokens, and add_provider_tokens: a model's result names its provider. *)
AddTokens(x) ==
    /\ h[x].pc = "tokens"
    /\ maps' = [maps EXCEPT !.tokens = @ + 1]
    /\ Goto(x, "provider")
    /\ hist' = [hist EXCEPT !.added = @ + 1]
    /\ UNCHANGED <<file, cloud, meta, loop, reg>>

AddProviderTokens(x) ==
    /\ h[x].pc = "provider"
    /\ maps' = [maps EXCEPT !.provider = @ + 1]
    /\ h' = [h EXCEPT ![x] = Idle]
    /\ hist' = [hist EXCEPT !.answered = @ \cup {h[x].step}, !.padded = @ + 1]
    /\ UNCHANGED <<file, cloud, meta, loop, reg>>

-----------------------------------------------------------------------------
(* ReasoningDegraded and CircuitReset: the flag, then the status, whatever  *)
(* the session's status is.                                                 *)
Other(x) ==
    /\ h[x].pc = "idle"
    /\ hist.others < MaxOthers
    /\ hist' = [hist EXCEPT !.others = @ + 1]

ReasoningDegraded(x) ==
    /\ Other(x)
    /\ maps' = [maps EXCEPT !.degraded = TRUE]
    /\ Goto(x, "degrade")
    /\ UNCHANGED <<file, cloud, meta, loop, reg>>

CircuitReset(x) ==
    /\ Other(x)
    /\ maps' = [maps EXCEPT !.degraded = FALSE]
    /\ Goto(x, "reset")
    /\ UNCHANGED <<file, cloud, meta, loop, reg>>

SetStatus(x) ==
    /\ h[x].pc \in {"degrade", "reset", "route"}
    /\ reg' = CASE h[x].pc = "degrade" -> "reasoning_degraded"
                [] h[x].pc = "reset" -> "active"
                [] h[x].pc = "route" -> IF h[x].degraded THEN "pending_human_annotation"
                                        ELSE "pending_annotation"
    /\ h' = [h EXCEPT ![x] = Idle]
    /\ UNCHANGED <<maps, file, cloud, meta, loop, hist>>

(* A Done that finds no handle: the first one has taken it, or the loop has *)
(* ended.  The tokens are drained and added to metadata.json of the memory  *)
(* directory, which does not exist in cloud_primary mode.                   *)
DirectDone(x) ==
    /\ Other(x)
    /\ loop.pc \notin {"run", "flush", "drained"}
    /\ maps' = [maps EXCEPT !.tokens = 0, !.provider = 0]
    /\ IF Cloud \/ maps.tokens + maps.provider = 0
       THEN Goto(x, "asked")
       ELSE h' = [h EXCEPT ![x].pc = "fetch",
                           ![x].meta = [tokens |-> maps.tokens, provider |-> maps.provider]]
    /\ UNCHANGED <<file, cloud, meta, loop, reg>>

DirectFetch(x) ==
    /\ h[x].pc = "fetch"
    /\ h' = [h EXCEPT ![x].pc = "write",
                      ![x].meta = [tokens |-> meta.tokens + @.tokens,
                                   provider |-> meta.provider + @.provider]]
    /\ UNCHANGED <<maps, file, cloud, meta, loop, reg, hist>>

DirectWrite(x, ok) ==
    /\ h[x].pc = "write"
    /\ MayFail("write", ok)
    /\ meta' = IF ok THEN h[x].meta ELSE meta
    /\ h' = [h EXCEPT ![x].pc = "asked", ![x].meta = NoMeta]
    /\ UNCHANGED <<maps, file, cloud, loop, reg, hist>>

DirectAsk(x) ==
    /\ h[x].pc = "asked"
    /\ h' = [h EXCEPT ![x].pc = "remove", ![x].degraded = maps.degraded]
    /\ UNCHANGED <<maps, file, cloud, meta, loop, reg, hist>>

(* remove_session empties the four maps; nothing reads two of them at once. *)
RemoveSession ==
    /\ maps' = NoTokens
    /\ hist' = [hist EXCEPT !.late = @ \/
                               \E y \in Handler : h[y].pc \in Writing \cup {"wait"}]

DirectRemove(x) ==
    /\ h[x].pc = "remove"
    /\ RemoveSession
    /\ Goto(x, "route")
    /\ UNCHANGED <<file, cloud, meta, loop, reg>>

-----------------------------------------------------------------------------
(* The watch loop records a step and may offer it for reasoning: not when   *)
(* the circuit is open, without frames, or when the push queue is full.     *)
Capture(push) ==
    LET n == loop.steps + 1
    IN  /\ loop.pc = "run" /\ n <= MaxSteps
        /\ push => ~maps.degraded
        /\ loop' = [loop EXCEPT !.pc = "flush", !.steps = n]
        /\ hist' = IF push THEN [hist EXCEPT !.pushed = @ \cup {n}] ELSE hist
        /\ UNCHANGED <<maps, file, cloud, meta, h, reg>>

SkipFlush ==
    /\ loop.pc = "flush"
    /\ Cloud /\ loop.due + 1 < FlushInterval
    /\ loop' = [loop EXCEPT !.pc = "run", !.due = @ + 1]
    /\ UNCHANGED <<maps, file, cloud, meta, h, reg, hist>>

Drain_Kept(from, to) ==   \* the counts stay in the map
    /\ loop.pc = from
    /\ from = "flush" => ~Cloud \/ loop.due + 1 >= FlushInterval
    /\ loop' = [loop EXCEPT !.pc = to, !.due = 0, !.mem.tokens = @ + maps.tokens]
    /\ UNCHANGED <<maps, file, cloud, meta, h, reg, hist>>

(* CaptureState::flush: drain_tokens, then drain_provider_tokens and the    *)
(* write.  What was drained stays in memory when the write fails.           *)
Drain(from, to) ==
    /\ loop.pc = from
    /\ from = "flush" => ~Cloud \/ loop.due + 1 >= FlushInterval
    /\ loop' = [loop EXCEPT !.pc = to, !.due = 0, !.mem.tokens = @ + maps.tokens]
    /\ maps' = [maps EXCEPT !.tokens = 0]
    /\ UNCHANGED <<file, cloud, meta, h, reg, hist>>

Store(from, to, ok) ==
    LET mem == [loop.mem EXCEPT !.provider = @ + maps.provider]
    IN  /\ loop.pc = from
        /\ MayFail(IF Cloud THEN "put" ELSE "write", ok)
        /\ maps' = [maps EXCEPT !.provider = 0]
        /\ loop' = [loop EXCEPT !.pc = to, !.mem = mem]
        /\ meta' = IF ok THEN mem ELSE meta
        /\ UNCHANGED <<file, cloud, h, reg, hist>>

FlushDrain == Drain("flush", "drained")
FlushStore(ok) == Store("drained", "run", ok)

(* Done, or a disconnect.                                                   *)
Break(clean) ==
    /\ loop.pc = "run"
    /\ loop' = [loop EXCEPT !.pc = "ending", !.clean = clean]
    /\ UNCHANGED <<maps, file, cloud, meta, h, reg, hist>>

WasDegraded ==
    /\ loop.pc = "ending"
    /\ loop' = [loop EXCEPT !.pc = "remove", !.degraded = maps.degraded]
    /\ UNCHANGED <<maps, file, cloud, meta, h, reg, hist>>

(* A disconnect in local mode writes metadata.json without this copy.       *)
LoopRemoves ==
    /\ loop.pc = "remove"
    /\ RemoveSession
    /\ LoopGoto(IF loop.clean \/ Cloud THEN "last" ELSE "route")
    /\ UNCHANGED <<file, cloud, meta, h, reg>>

LastDrain == Drain("last", "lastdrained")
LastStore(ok) == Store("lastdrained", IF loop.clean THEN "scan" ELSE "route", ok)

(* write_degraded_placeholders, without the write lock: the steps that have *)
(* no entry now get one each, in their order, whatever comes in meanwhile.  *)
Scan_Pushed(ok) ==   \* a step offered for reasoning is taken to have an entry
    /\ loop.pc = "scan" /\ ok
    /\ loop' = [loop EXCEPT !.todo = (1 .. loop.steps) \ (StepsIn(file) \cup hist.pushed),
                            !.pc = "place"]
    /\ UNCHANGED <<maps, file, cloud, meta, h, reg, hist>>

(* A log that cannot be read counts as empty.                               *)
Scan(ok) ==
    /\ loop.pc = "scan"
    /\ MayFail("scan", ok)
    /\ loop' = [loop EXCEPT !.todo = (1 .. loop.steps) \ (IF ok THEN StepsIn(file) ELSE {}),
                            !.pc = "place"]
    /\ hist' = [hist EXCEPT !.misread = @ \/ ~ok]
    /\ UNCHANGED <<maps, file, cloud, meta, h, reg>>

ReadForPlaceholder ==
    /\ loop.pc = "place" /\ loop.todo # {}
    /\ loop' = [loop EXCEPT !.pc = "replace", !.seen = file]
    /\ UNCHANGED <<maps, file, cloud, meta, h, reg, hist>>

WritePlaceholder(ok) ==
    LET n == CHOOSE m \in loop.todo : \A k \in loop.todo : m <= k
    IN  /\ loop.pc = "replace"
        /\ MayFail("write", ok)
        /\ file' = IF ok THEN [loop.seen EXCEPT ![n] = "placeholder"] ELSE file
        /\ hist' = [hist EXCEPT !.failed = @ \/ ~ok]
        /\ loop' = [loop EXCEPT !.todo = @ \ {n}, !.seen = EmptyLog, !.pc = "place",
                                !.wrote = @ \/ ok]
        /\ UNCHANGED <<maps, cloud, meta, h, reg>>

Placed ==
    /\ loop.pc = "place" /\ loop.todo = {}
    /\ LoopGoto(IF loop.wrote /\ Cloud THEN "read" ELSE "route")
    /\ UNCHANGED <<maps, file, cloud, meta, h, reg, hist>>

ReadPlaceholders(ok) ==
    /\ loop.pc = "read"
    /\ MayFail("read", ok)
    /\ IF ok THEN loop' = [loop EXCEPT !.pc = "put", !.seen = file] ELSE LoopGoto("route")
    /\ hist' = [hist EXCEPT !.failed = @ \/ ~ok]
    /\ UNCHANGED <<maps, file, cloud, meta, h, reg>>

PutPlaceholders(ok) ==
    /\ loop.pc = "put"
    /\ Put(loop.seen, ok)
    /\ loop' = [loop EXCEPT !.pc = "route", !.seen = EmptyLog]
    /\ UNCHANGED <<maps, file, meta, h, reg>>

LoopEnds_FileStatus ==   \* the status string of metadata.json goes to Redis
    /\ loop.pc = "route"
    /\ reg' = IF ~loop.clean THEN "incomplete" ELSE "complete"
    /\ LoopGoto("ended")
    /\ UNCHANGED <<maps, file, cloud, meta, h, hist>>

LoopEnds ==
    /\ loop.pc = "route"
    /\ reg' = IF ~loop.clean THEN "incomplete"
              ELSE IF loop.degraded THEN "pending_human_annotation" ELSE "pending_annotation"
    /\ LoopGoto("ended")
    /\ UNCHANGED <<maps, file, cloud, meta, h, hist>>

-----------------------------------------------------------------------------
HandlerNext(x) ==
    \/ \E n \in Step : ReasoningResult(x, n)
    \/ ReasoningDegraded(x) \/ CircuitReset(x) \/ DirectDone(x)
    \/ SessionWriteLock(x) \/ Acquire(x) \/ AddTokens(x) \/ AddProviderTokens(x)
    \/ SetStatus(x) \/ DirectFetch(x) \/ DirectAsk(x) \/ DirectRemove(x)
    \/ \E ok \in BOOLEAN : UpsertEntry(x, ok) \/ ReadLog(x, ok)
                           \/ PutLog(x, ok) \/ DirectWrite(x, ok)
LoopNext ==
    \/ \E push \in BOOLEAN : Capture(push)
    \/ \E clean \in BOOLEAN : Break(clean)
    \/ SkipFlush \/ FlushDrain \/ WasDegraded \/ LoopRemoves \/ LastDrain
    \/ ReadForPlaceholder \/ Placed \/ LoopEnds
    \/ \E ok \in BOOLEAN : FlushStore(ok) \/ LastStore(ok) \/ Scan(ok) \/ WritePlaceholder(ok)
                           \/ ReadPlaceholders(ok) \/ PutPlaceholders(ok)
Next == LoopNext \/ \E x \in Handler : HandlerNext(x)

Spec == Init /\ [][Next]_vars
-----------------------------------------------------------------------------
Quiet == \A x \in Handler : h[x].pc \notin Writing

(* A token is counted at most once: what metadata.json counts, together     *)
(* with what is still in the map, is never more than what was reported,     *)
(* although the loop, which keeps a copy of its own, and a second Done both *)
(* drain the map and write the file (add_tokens, drain_tokens, flush, Done  *)
(* without a handle).                                                       *)
TokensCountedOnce ==
    /\ meta.tokens + maps.tokens <= hist.added
    /\ meta.provider + maps.provider <= hist.padded

(* A result that was accepted stays in reasoning.jsonl: neither another     *)
(* result nor a placeholder takes its place, unless a result was being      *)
(* written when remove_session dropped the mutex, or while the loop was     *)
(* finishing, or the log could not be read for the placeholders             *)
(* (session_write_lock, upsert_entry, write_degraded_placeholders).         *)
AcceptedKept == ~hist.late /\ ~hist.misread => \A n \in hist.answered : file[n] = "model"

(* A session that finished cleanly has an entry for every step, and the     *)
(* copy in object storage is the local file: the last upload was of the     *)
(* last content, although results and placeholders upload it each on their  *)
(* own (write_degraded_placeholders, the upload of ReasoningResult).        *)
FinishedLogWhole ==
    loop.pc = "ended" /\ loop.clean /\ ~hist.late /\ ~hist.failed =>
        /\ StepsIn(file) = 1 .. loop.steps
        /\ Cloud /\ Quiet => cloud = file

-----------------------------------------------------------------------------
(* The strengthening that makes AcceptedKept and FinishedLogWhole           *)
(* inductive.                                                               *)

(* Only steps that were recorded are written about.                         *)
StepsKnown ==
    /\ hist.pushed \subseteq 1 .. loop.steps
    /\ \A x \in Handler : h[x].pc \in Writing \cup {"arc", "wait"} => h[x].step \in hist.pushed
    /\ loop.todo \subseteq 1 .. loop.steps
    /\ loop.pc = "replace" => loop.todo # {}
    /\ loop.pc \in {"scan", "place", "replace", "read", "put"} => loop.clean

(* Results are written one at a time, and none while placeholders are.      *)
WritersAlone ==
    ~hist.late =>
        /\ \A x \in Handler : h[x].pc \in Writing \cup {"wait"} =>
              h[x].lock # 0 /\ h[x].lock = maps.lock
        /\ \A x, y \in Handler : h[x].pc \in Writing /\ h[y].pc \in Writing => x = y
        /\ Closing => \A x \in Handler : h[x].pc \notin Writing
        /\ \A x \in Handler : h[x].pc = "upsert" => h[x].seen = file
        /\ loop.pc = "replace" => loop.seen = file
        /\ StepsIn(file) \subseteq 1 .. loop.steps

ResultsKept ==
    ~hist.late /\ ~hist.misread =>
        /\ AcceptedKept
        /\ \A x \in Handler :
              h[x].pc \in Writing \ {"upsert"} => file[h[x].step] = "model"
        /\ loop.pc \in {"place", "replace"} => loop.todo \cap StepsIn(file) = {}

(* Every step has an entry, or its placeholder is still to be written.      *)
StepsCovered ==
    ~hist.late /\ ~hist.failed =>
        /\ loop.pc \in {"place", "replace"} => 1 .. loop.steps \subseteq StepsIn(file) \cup loop.todo
        /\ loop.clean /\ loop.pc \in {"read", "put", "route", "ended"} =>
              1 .. loop.steps \subseteq StepsIn(file)

(* The copy in storage is the local file, or its upload is still to come.   *)
LoopOwes == loop.wrote /\ loop.pc \in {"place", "replace", "read", "put"}

Uploaded ==
    Cloud /\ ~hist.late /\ ~hist.failed =>
        /\ ~LoopOwes /\ (\A x \in Handler : h[x].pc \notin {"read", "put"}) => cloud = file
        /\ \A x \in Handler : h[x].pc = "put" => h[x].seen = file
        /\ loop.pc = "put" => loop.seen = file

LogInv ==
    /\ TypeOK /\ StepsKnown /\ WritersAlone
    /\ ResultsKept /\ StepsCovered /\ Uploaded

(* And the one for TokensCountedOnce: the tokens reported can be handed out *)
(* to those who hold a count of them so that no two shares overlap that may *)
(* still be added to each other.  What is in the map and what a second Done *)
(* has drained is disjoint from everything; the counts of the file, of the  *)
(* loop and of a Done about to write replace each other and may overlap.    *)
Accounted(m, vals, f, n) ==
    \E M \in SUBSET (1 .. n), F \in [Handler -> SUBSET (1 .. n)] :
        /\ Cardinality(M) = m
        /\ \A x \in Handler : Cardinality(F[x]) = f[x] /\ F[x] \cap M = {}
        /\ \A x, y \in Handler : x # y => F[x] \cap F[y] = {}
        /\ \A v \in vals : \E T \in SUBSET (1 .. n) :
              Cardinality(T) = v /\ T \cap M = {} /\ \A x \in Handler : T \cap F[x] = {}

Counts(k) == {meta[k], loop.mem[k]} \cup {h[x].meta[k] : x \in {y \in Handler : h[y].pc = "write"}}
Drained(k) == [x \in Handler |-> IF h[x].pc = "fetch" THEN h[x].meta[k] ELSE 0]

TokensInv ==
    /\ Accounted(maps.tokens, Counts("tokens"), Drained("tokens"), hist.added)
    /\ Accounted(maps.provider, Counts("provider"), Drained("provider"), hist.padded)
=============================================================================
