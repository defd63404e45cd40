# Memory Archive: TLA+ models and proofs

Memory Archive records computer-use sessions (screen captures, reasoning, input
events), queues the recordings for annotation and compiles them into "memories".
This directory models the parts of it whose correctness depends on the order in
which things happen. It is written from the source: every definition that models
code is listed with its lines in `PROJECT.json` ("map").

    tlc -workers 2 -config SessionRegistry_races.cfg MCSessionRegistry
    tlapm SessionRegistry_proofs.tla

## 1. Inventory

### 1.1 Processes

| process | language | role |
|---|---|---|
| `ma-core` | Rust, tokio | daemon: IPC server, capture loops, registry, sweeps |
| `ma` CLI and annotation TUI | Python | sends IPC messages, edits reasoning, compiles |
| model pipeline | Python threads | calls vision models for automated annotation |
| sync worker | Python thread | uploads finished memories |
| Redis | external | session records, index sets, annotators, claims |
| Kafka, object storage | external | optional event source; optional storage |

`ma-core` starts one tokio task per IPC connection, one per capture loop, and one
per listener. They share clones of `SessionRegistry` (a connection to Redis) and
a few maps behind mutexes (push handles, done handles, reasoning tokens, Kafka
routes). Two hold a lock over other work: the signal handler (the done handles, until
the process exits) and Done (the push handles, while it sends). Redis transactions are used nowhere; the one atomic
multi-key step is the Lua script of a claim.

### 1.2 Components

| component | source | state | operations | hard behaviour |
|---|---|---|---|---|
| session registry | `ma-core/src/registry` | `session:{id}` Hash, six status sets, OS and mode sets | `register`, `update_status`, `update_memory_path`, `update_annotation_counters`, `delete_session`, stale-index clean-up | calls are series of commands: interleaving, a command failing half way, a kill half way; TTLs of old records |
| annotator claims | `ma-core/src/ipc`, `ma-core/src/registry` | `claim:{session}` with TTL, session status | claim, auto-claim, heartbeat, release; load, close, complete, finalize, delete | a claim expires between check and use; two connections of one annotator; restart |
| capture loop | `ma-core/src/capture` | step counter, in-memory metadata, done and push handles | start, step, done, disconnect, final flush | done races a disconnect; flush interval; second loop on one session; the closing image is written beside the last flush |
| push channels | `ma-core/src/ipc`, `capture` | `push_handles`, a bounded channel per connection | push, notify, complete, forward | whoever waits for room waits for a connection, which may be waiting too |
| capture stream, version gates | `capture/stream.rs`, `capture/compat.rs` | the connection, the agent version last checked, the silence timer | negotiate, retry, gate, next event | a server replaced between two tries, an agent replaced during the stream |
| event conversion | `convert`, `capture/fidelity.rs` | – (pure) | label, command, suspicion of a cut text | the spellings of a modifier, three systems' names of a key, paths that do not fit or are told in part |
| step frames | `vision` | the frames of a step | fetch before, action, after; mark; store | frames asked for before their time, each of which may fail |
| memory directory | `ma-core/src/session` | `metadata.json`, step files, directory name | initialise, append, mark incomplete, rename, purge | rename between two readers; crash between file and registry |
| reasoning tokens | `ma-core/src/capture` (`ReasoningMaps`), `session/reasoning.rs`, `ipc` | token map, degraded flags, `reasoning.md` | degrade, reset, drain, upsert | token consumed twice; circuit reset before the step arrives |
| Kafka consumer and replay | `ma-core/src/kafka` | routing map, offsets | route, replay | offset advanced before the write; full channel |
| start-up sweeps, shutdown | `ma-core/src/main.rs` | as above | clean-up, active sweep, reconcile, retention, signals | crash in the middle of a sweep |
| annotator accounts | `ma-core/src/registry` | annotator Hash | register, deactivate, rotate key | single writes |
| model pipeline | `ma-app/ma_app/model` | circuit breaker, rate and budget counters | call, fail, half-open, reset | threads race on the counters |
| sync worker | `ma-app/ma_app/storage` | queue, `sync_log` | enqueue, upload, retry, drain | shutdown with work queued |
| CLI, TUI, updater, storage clients, TLS, configuration | both | – | – | user interface and clients of services |

### 1.3 What makes them correct

* Registry: no recording becomes unreachable. The sweeps, the queues and the
  listings read only the index sets, so a readable record whose status set does
  not list it is lost to every one of them. Records never expire by themselves.
* Claims: an annotator never holds more claims than allowed; what was checked of
  a claim still holds when it is relied on; every message gets an answer;
  annotated work is not handed to two people or silently requeued.
* Capture: the step files, the metadata and the registry status agree whenever
  no capture loop runs; a restart brings them back to agreement. A Done is answered.
* Reasoning: a step's reasoning is attached to that step and kept; its tokens are
  counted at most once.
* Stream: plaintext has a reason; no step comes from an unsuitable server or agent.
* Conversion and frames: what is written of an event is what was done, or says that it
  is not known; the frames show the screen of their time.
* Kafka: what is stored of a session is exact up to its stored position, so that a
  replay neither repeats nor skips a step.
* Pipeline and sync: a breaker lets calls through again; a queued upload is
  uploaded or is in the log at the next start.

`PROJECT.json` ("hazards") lists where each of these can go wrong, by line.

## 2. Plan

| module | models | composed with |
|---|---|---|
| `AtomicRegistry` | what the registry promises: one value per session, one step per call | implemented by `SessionRegistry` |
| `SessionRegistry` | the registry, one step per Redis command | – |
| `AnnotatorClaims` | claims and annotation messages | takes a registry call for one step |
| `SessionLifecycle` | record, metadata and handles from registration to the queues | as above |
| `PushChannel` | who waits for whom around the push channels | the waits `SessionLifecycle` takes for one step |
| `KafkaCapture` | the broker path: routing, recording, storing, replay | what `LoopStep` and `SweepActive` abstract |
| `ReasoningLog` | tokens, results, degraded flags, placeholders | one loop of `SessionLifecycle`, seen from its reasoning |
| `WatchStream` | connecting, gates, the stream of events | what `LoopConnect` and `LoopStops` abstract |
| `EventConversion`, `StepRecord` | one event: text, frames, entry | what `TakeEvent` and `LoopStep` abstract |

The modules share no variables; each takes what lies in another for one step or one
choice. Every module that models a component has a run, and all but `PushChannel`, whose
question is one of liveness, have theorems; the proofs of
`M` are in `M_proofs`, the longest one about `SessionLifecycle` in
`FinishedRecordings_proofs`.

What is left, in this order:

1. `CircuitBreaker` and `RateLimiter` (Python threads): the breaker as an abstract
   three-state machine and its thread-level implementation.
2. `SyncWorker`: queue, log, shutdown; liveness.
3. `Takeover`: PID file and socket between two daemons, and the updater.

## 3. SessionRegistry

### 3.1 State and actions

| model | code |
|---|---|
| `hash[s]` | the Hash `session:{s}`: `fields` is "all" when `get` can parse it, "some" when an unconditional HSET made it out of nothing; its `status`; whether a TTL is set |
| `index[i]`, `attrs[a]` | the six `sessions:{status}` sets; the OS and mode sets (one each: the value does not matter) |
| `op[h]` | the registry call a clone is executing and its local variables (`old`, `new`, the loop index of `delete_session`) |
| `boot` | progress of the start-up clean-up; 0 while serving |
| `hist` | history, read by properties only, except "issued" and "known": which ids a caller can have |

One action is one Redis command. `register` is `Register`, `CreateHash`,
`AddToStatusIndex`, `AddToOsIndex`, `AddToModeIndex`; `update_status` is
`UpdateStatus` (HGET), `SremOldStatus`, `HsetStatus`, `SaddNewStatus`, `ClearTtl`;
`delete_session` is `DeleteSession` (DEL), six `SremFromStatusSet`,
`SremFromOsIndex`, `SremFromModeIndex`. `CommandFails` is the `?` after each
await. `Crash` is a kill, after which `CleanupStaleIndexEntries` and
`RemoveFromActiveSet` run before `StartServing`. `Expire` is Redis.

Callers do not check anything before they call `update_status`, so any status in
`Targets` may be asked for any known session. The status changes the sweeps make
are such calls too.

### 3.2 Runs

| run | shows | instance |
|---|---|---|
| `registry_races` | `NoSessionLost`: without a call cut short, a readable record is listed under its status or a running call is about to list it. `IndexExact`: calls that did not overlap leave exact index sets, and a delete leaves the session in none. `SettledRecordsAreDurable`: one completed `update_status` and a record of an earlier version no longer expires. `ImplementsAtomicRegistry`: the refinement of 3.3 | 1 session, new or with a TTL; 2 handlers, two indexed targets and `incomplete`, symmetry on handlers |

Bounds. Calls touch one session each and share nothing across sessions, so one
session is enough. Two handlers give every interleaving of two calls, and of each
next call with what they left; that no more handlers change `NoSessionLost` is
proved. Two indexed statuses give calls that agree and calls that disagree on the
old and the new set; `incomplete` is the status without a set.

Races the model shows to be harmless or not: two overlapping `update_status`
calls can leave the session in *two* status sets (the first one's SREM may hit a
set it has already left), hence `IndexExact` asks that calls did not overlap;
but never in none, which is `NoSessionLost`.

### 3.3 The refinement of AtomicRegistry

`AtomicRegistry` has one value per session (`view`) and one action per call. It is
what the callers reckon with, and what entitles the other modules to one step per
registry call. `SessionRegistry` implements it under the mapping `View(s)`: the status
of the record once its call is visible, "gone" after a delete, "partial" for a Hash that
`get` rejects, and "loose" for a session whose calls overlapped or were cut short, for
which nothing is promised. While a call runs the index sets may lag; whenever none runs,
they must agree with the record, or the view is a value the abstract registry does not
have. So the refinement says three things at once: each call changes the view at a
single command (the HSET of `update_status`, the DEL of `delete_session`), a returned
call left nothing half-done, and a deleted session comes back, if at all, as something
`get` rejects. Liveness is not part of it.

### 3.4 Proofs (`SessionRegistry_proofs`)

`TypeCorrect`: `Spec => []TypeOK`. `RecordsStayListed`: `Spec => []NoSessionLost`,
both for any sets of sessions, handlers and legacy sessions and any targets,
assuming only `None \notin Session` and `Targets \subseteq Status`.

The inductive invariant is `LostInv`. `NoSessionLost` alone is not inductive:

* `OpWellFormed`: an SREM or SADD has a set to work on, and a call has a session;
* `NoRebirth`: only `register` makes a readable record, and it does so before
  anyone else can name the session. So while `delete_session` unlists a session,
  its record is not readable and cannot become so: its SREMs never unlist a live
  record. Likewise an SREM of `update_status` is followed by its own HSET, which
  is why a handler at "hset" counts as `Relisting`.

The proof has one lemma for every action; the frame lemmas about `Goto`, `Return`
and `Mark` are stated once.

`SettledStay`: `Spec => SettledRecordsAreDurable`. The invariant is `NoStaleTtl`, that a
record `update_status` completed on has no TTL; it holds without any condition on
overlaps, because after the start no command sets one.

### 3.5 Proofs of the refinement (`SessionRegistry_proofs`)

`IndexSetsAreExact`: `Spec => []IndexExact`, and `RegistryIsAtomic`:
`Spec => ImplementsAtomicRegistry`, under the same assumptions. Both rest on `ExactInv`,
which says of a session whose calls neither overlapped nor were cut short (`ExactFor`):

* `Alone`: at most one handler is at work on it (a second would have marked it);
* `Life`: it is readable from `CreateHash` to its first delete, and what others can name
  has been readable. So `register` finds nothing and the HSET of an update that follows a
  delete makes a Hash that `get` rejects;
* `CallExact`: what the call at work has done so far and its next command relies on, per
  command. A call that is over leaves `StatusListed` and `AttrsListed`.

`BootAlone` adds that no call runs beside the start-up clean-up. For the refinement every
command is shown to leave the view of every session as it is, or to change that of its own
session as one action of `AtomicRegistry` does: `CreateHash`, the HSET, the DEL, and the
commands that mark a session loose. `IndexExact` cannot carry this alone: it says nothing
while a call runs, and that is when the view has to be known.

## 4. AnnotatorClaims

### 4.1 State and actions

| model | code |
|---|---|
| `claim[s]` | `claim:{s}`: value `"{annotator}:{claim_id}"` and remaining TTL, in ticks |
| `status[s]` | status of the record; "gone" when `get` fails because it was deleted |
| `conn[c]` | the message a connection is handling, and the locals the handler keeps between commands |
| `nextId` | claim UUIDs, drawn in order |
| `grant`, `ended`, `uncapped` | history: replies that granted a claim; claim ids whose key is gone; annotators whose limit could not be read |

`ClaimSession` and `AutoClaim` start a claim (`Draw` reads the limit, a failed read
meaning none), `ScanOne`/`ScanDone` walk the queue, `LuaClaim` is the script.
`Request` starts any other message; `CheckOwner`, `MatchClaimId`, then
`RefreshClaim` for a heartbeat, or `ReleaseClaim`, `RereadStatus`, `Requeue` for a
release. `LoadSession`+`SetAnnotating`, `SetStatus` (close, complete, finalize),
`CheckDelete`+`DeleteRecord`+`DeleteClaim` are the session operations, for an
annotator behind `CheckOwner`, on the admin socket directly. `ClaimTick` is the
TTL, `Restart` a kill and the reconcile sweep of the next start.

Simplifications. `update_status` is its HSET (the other commands are in
`SessionRegistry`). The claim id is drawn when the request starts, not after its
target is known: ids are only compared, so the moment does not matter. Tenants
are left out: only the queue *listing* filters by tenant, claiming does not.
UploadFile, FetchFile and UpdateAnnotationProgress touch neither claims nor
statuses. Connections stay authenticated: the key is checked once per connection.

### 4.2 Runs

| run | shows | instance |
|---|---|---|
| `claims_limit` | `ClaimLimit`: two connections of one annotator cannot pass the limit, by id or by queue, while claims expire. `EveryMessageAnswered`, under fairness | 2 sessions, 2 connections, limit 1 |
| `claims_gate` | `VerifiedOrEnded`: between the check of a claim and the EXPIRE or DEL, the claim may end but the id checked never comes back or changes owner | 1 session, 2 annotators + admin, 2 claims |

Bounds. Two claims are needed to see a claim taken over after it expired, and two
sessions to pass a limit of one. `Ttl = 2` in `claims_gate` makes a heartbeat
distinguishable from none; elsewhere a TTL of one tick already lets a claim expire
at any moment. `MaxClaimIds` bounds the claims attempted in one behaviour; nothing
else is bounded.

Fairness. Weak fairness of `Handle(c)`: the handler of a message is a tokio task
that never waits for another handler, and every Redis command has a reply or an
error. Weak fairness of `ClaimTick(s)`: time passes and Redis drops expired keys.
Nothing else is fair: no client has to send, no command has to fail, no restart
has to happen.

### 4.3 Proofs (`AnnotatorClaims_proofs`)

`ClaimLimitHolds`: `Spec => []ClaimLimit`. `VerifiedClaimsHold`:
`Spec => []VerifiedOrEnded`. Both for any annotators, connections, limits and TTL;
sessions are a finite set (claims are counted with `Cardinality`).

The inductive invariant `ClaimInv` adds to the two properties `TypeOK` and

* `MessageWellFormed`: what a message in progress carries; in particular a claim
  attempt without a limit belongs to an annotator in `uncapped`;
* `IdsFresh`: the id of a claim being attempted was drawn for it alone and has not
  been granted. Without it two claims could share an id, and an ended one be
  mistaken for a live one;
* `GrantsMatch`: a claim key holds what its owner was told, and a heartbeat or a
  release carries an id its sender was told.

The limit is preserved by the script because it counts and sets in one step; every
other action only shrinks the set of an annotator's claims. `ClaimTypes`
(`Spec => []TypeOK`) is a part of `ClaimInv` and is stated for itself.

## 5. SessionLifecycle and PushChannel

### 5.1 State and actions

What is known of a session is in three places which no transaction spans: the Redis
record, `metadata.json` (with the name of the directory around it), and the handle
maps in the memory of `ma-core`. The module interleaves everybody who writes them.

| model | code |
|---|---|
| `reg[s]` | the record: `status` and `memory_path`. One registry call is one step |
| `file[p]` | `metadata.json`: `session_id` (owner), `status`, `in_progress`. `p` is a directory (a name, with or without " (incomplete)") in local mode, the session's own key in `cloud_primary` mode |
| `loop[l]` | a watch loop task: where it is, the `memory_dir` it read once, its copy of the metadata (`mem`), whether `done_rx` is ready (`fired`) |
| `handles[s]` | `done_handles`: whose handle the map holds |
| `degraded` | the degraded flags of `ReasoningMaps` |
| `conn[c]` | the message a connection is handling and its locals |
| `shot[k]` | a closing-image task: the directory it was given and the copy of `metadata.json` it read |
| `boot` | which sweep of start-up runs, and what it has left |
| `stop` | the signal handler |
| `hist` | history, read by properties only, except "issued" (an id exists once it was drawn). `Tracked` says which marks a run keeps |

Messages. `RegisterSession`, `InitialiseDir`, `GiveUp`; `StartWatch` (and `GiveUp`);
`Done`, then `SendDone` when it found a handle, `ClosingImage`, and the wait for the loop, or `LookUp`, `MarkComplete` and
`ClearInProgress` (local) or `FetchObject` and `StoreComplete` (cloud),
`ForgetDegraded`, `RouteDirect`; `ReasoningDegraded` and `CircuitReset` with
`SetReasoningStatus`; `DeleteSession`, `DropHandle`, `DeleteRecord`,
`DeleteObjects`, `PurgeDir`.

The loop. `LoopLoad`, `LoopReadMetadata`, `LoopConnect` (readiness), `LoopArm` (the
handle goes into the map, which drops the one of an earlier loop), `LoopBegin`,
`LoopStep`, `LoopStops`, `LoopDrain`; then `LoopComplete`, `LoopSettle` after a clean
stop, or `LoopInterrupt`, `LoopDemote`, `LoopFlag`, `LoopRename`, `LoopRepath` after a
disconnect; `LoopEnd`.

The closing image. In local mode a Done spawns a task (`TakesPicture`) that gets a last
frame and writes its name into `metadata.json`: it reads the whole file (`ShotRead`) and
writes the whole file back (`ShotWrite`). It is a task of its own on a runtime with several
threads, so the loop, which the same Done has just woken, may write in between. If The-Eyes
is not configured or the frame cannot be had, no such task writes (the branch of
`TakesPicture` that leaves `shot` alone).

The process. `Signal`, `FlagInterrupted`, `StoreInterrupted`, `Exit`; `Crash`;
`HostCrash`, which also puts records back to the state of a Redis snapshot taken
during the capture. After each of them start-up runs to its end before anything is
served: `SweepActive`, `SweepRename`, `SweepRepath`, `SweepStatus` for each active
session, `StartReconcile`, `Reconcile`, `StartRetention`, `RetireRecord`,
`RetireObjects`, `RetireDir`, `Serve`. A crash may come during start-up too.

What is one step. A local read-modify-write of `metadata.json` is synchronous code
without an await and is one step, but for that of the closing-image task, which the code
starts at the moment the loop writes too (both go through `metadata.json.tmp`; whichever rename
comes first, the file is one of the two copies, as if the writes came one after the other);
in cloud storage the get and the put are two. A
purge of a directory and its sibling is one step. A registry call is one step and
either happens or fails; `SessionRegistry` has what lies between. Any call or write
may fail when `Faults` has "call"; the code then logs and goes on, and so does the
model.

Left out: push handles (5.4); tokens (section 7), step numbers and the
Kafka routing (section 6), how a stream is connected (section 8); a directory that exists
without `metadata.json`, and the scratch directory a cloud capture uses locally; a failing
`register` (nothing is left of the request); the annotation statuses, which are in
`AnnotatorClaims`. In mode "cloud" (no broker) start-up looks for a local `metadata.json`
that is not there, so it finds none. The sweep's own read of a record does not fail alone;
`SessionRegistry` has that case (`RemoveFromActiveSet`).

### 5.2 Runs

| run | shows | instance |
|---|---|---|
| `lifecycle_loops` | `NoOrphanLoop`: a loop that captures has its handle in the map, or a Done is about to send, or it has been told | cloud; 1 session, 2 connections, 2 loops, signals |
| `lifecycle_names` | `PurgeFindsDirectory`: with a record there is a way to the directory, also when a rename was not followed by its `update_memory_path`. `OnlyOwnerPurges`: a recording disappears only with its own session (here when retention retires it) | local, without The-Eyes; 2 sessions of one name, 1 connection, 1 loop, failing calls and crashes |
| `lifecycle_finished` | `FinishedAgrees`: what is offered for annotation is complete on disk, where the record says, unless messages overlapped, the process died at work on it or the closing-image task put back an older copy. `StartupSettles`: no session is active when start-up is over | local; 1 session, 1 connection, 1 loop, 1 closing-image task, deletions, signals, crashes and rollbacks |
| `lifecycle_rewritten` | a violation, see section 10 | as small as the counterexample allows |

Bounds. Only the name of a directory is shared between sessions, so everything else
needs one session; two sessions of one name give every collision (a third would ask
for the same name again). Two loops are needed for one to replace the other's handle,
and two connections for messages to overlap. There are no counters and no bound on
the length of a behaviour: the runs cover every reachable state of their instance.

`FinishedAgrees` excuses a session marked "raced", "failed", "torn", "mixed" or "stale".
Raced: a Done that finds no handle because the loop is still arming it finishes the session
under that loop. Stale: the closing-image task wrote back a copy that somebody had replaced
since it read it (`Overtaken`). This needs no overlap of messages, no failure and no crash:
in an ordinary Done the task may read before the loop's last flush and write after it, and
then `metadata.json` says "active" and "capturing" for ever under a record that says
`pending_annotation` (section 10). TLC shows that history when the excuse is dropped. The
mark is set only in that case: a task that reads after the last flush, or writes before it,
excuses nothing, and neither does one that comes too late to find the file. Mixed: a task of one
session worked on the `metadata.json` of another, and both are marked: a registration
under a taken name is refused, but its record stays and
points to the directory of the session that has the name. A Done for it finds no handle and
writes "complete" into that session's metadata while that is being captured; the process
dies, and the sweep takes the cut off recording for a finished one. The marks are as narrow
as the state space allows: a Done for a session whose loop captures races nothing, a crash
tears only the sessions a task was at work on, and sessions that only share a name are not
mixed. The run has one session in local mode, where directories are renamed; the theorem of
5.3 covers sessions of one name, cloud storage, the replay and failing calls as well.

`PurgeFindsDirectory` excuses "stale" too, and sessions that are "crowded" (a StartWatch came while a
message or a loop was at work on the session) or "shared" (a loop of another session read
this one's `metadata.json` as its own session's), `OnlyOwnerPurges` a state in which
a session is "raced", "shared" or "stale" (after a rename another session may be registered
under the free name, and the task puts its old copy over the metadata of that one). `lifecycle_names` reaches "shared": a loop of a session
whose registration failed, in the directory of the other. Two loops of one session, which
"crowded" is about, do not fit the bounds of that run, and with one loop the excuse is not
needed; 5.3 has the history that makes it necessary, and the theorem covers any number.

`lifecycle_names` has no closing-image task: with one its state space is too large for
the bounds of a run that is repeated often. The theorems of 5.3 have any number of them.

`lifecycle_loops` has no deletion, for the same reason: with one its instance has six
million states, on which `NoOrphanLoop` held too; and the theorem has every message.

None of these runs is about liveness. Whether a Done is answered depends on the push
channels, which are in 5.4.

### 5.3 Proofs (`SessionLifecycle_proofs`, `FinishedRecordings_proofs`)

`LifecycleTypes`: `Spec => []TypeOK`, and `NoCaptureOrphaned`:
`Spec => []NoOrphanLoop`, for any sessions, names, connections and loops, any requests,
every mode and every set of faults. Assumed: the mode and the faults are among those
named, the tracked marks are marks, and `None` is neither a session nor a loop nor a path.

`TypeOK` is not inductive. `Shape` adds what a task carries between its steps:

* `LoopOK`: a loop past its first read knows where the metadata is, and has a copy of
  it for as long as it will write it; only a local loop renames;
* `ConnOK`: the same for a message;
* `BootShape`: nothing runs before `ma-core` serves, and therefore the sessions the
  first sweep has yet to visit keep their records, whose paths it will rename;
* `StopShape`: the signal handler keeps a fetched object only in cloud mode.

`NoOrphanLoop` is inductive with `Shape`. The argument is about who takes a handle out
of the map: `LoopArm`, `LoopEnd` and `DropHandle` drop it, which makes `done_rx` ready
(`FireTells`); `Done` keeps it and has a send before it. Every other step leaves
handles, pending sends and captures as they are (`HandlesKept`).

`StartUpEnds`: `Spec => StartupSettles`, if the run tracks the mark "failed" (without it
the property has no excuse for a failed call). `Sweeping` says, sweep by sweep, which
sessions may still be active: those the active-set sweep has yet to visit, the one it is
at, and those a call failed for. `OnlySweeps` shows from `Shape` that until `ma-core`
serves nothing but a sweep or a crash takes a step, and a crash starts the sweep anew
with every active session on its list.

`DirectoryFound`: `Spec => []PurgeFindsDirectory`, and `RecordingsStay`:
`Spec => OnlyOwnerPurges`, for any number of sessions, loops, messages and closing-image
tasks, if the marks "raced", "crowded", "shared" and "stale" are kept (the excuses would be missing otherwise). Several
sessions may ask for one name, so directories are shared, and two histories let a task
act on the directory of another session:

* crowded: two loops run on one session, or one while its RegisterSession is still at it.
  One renames the directory to "(incomplete)", a new session is registered under the free
  name, and the other loop flushes its metadata over that of the new session;
* shared: a registration under a name that exists fails, and so does the call that takes
  the record back (or the process dies in between). The record then points to the other
  session's directory. A loop captures into it, and after a disconnect, or a restart, the
  rename to "(incomplete)" is of the other session's recording.

The invariant `DirInv` says what holds in between, for sessions without these marks:

* `DrawnFirst`: nothing knows of a session before its id is drawn;
* `OwnCopy`: the metadata a loop holds is its session's, or the owner is shared;
* `OneAtWork`: a session that is not crowded has one loop, and none while it is registered;
* `PathsKept`: the path a message, a loop or a sweep has read is still in the record; and
  between a rename and its `update_memory_path` the directory is at the "(incomplete)"
  sibling of that path and nothing of the session is at the old name (`Moved`);
* `ShotsKnown`: a closing-image task holds a copy of a session that exists;
* `OwnDirectory`: while nothing is raced or shared, a loop that has metadata in hand works
  in a directory of its session's, and nothing deletes that session.

`PurgeFindsDirectory` alone is not inductive: a loop writes to the place it read long
before, so that place has to be the record's. Most steps change nothing of this, and
`Aside` says what that means (records keep their path or go; a file keeps its owner, goes,
or is written by a loop or a registration that knows of it; and so on); `AsideKeeps` shows
once that such a step keeps `DirInv`. The steps that do more have a lemma each:
RegisterSession, StartWatch, the two renames, the two updates of `memory_path`, and a
crash, which may put `memory_path` back to the name before the rename.

`RecordingsStay` needs besides that whoever writes writes its own (`RightHand`). In local
mode this follows from `OwnDirectory`. In `cloud_primary` mode it is an invariant of its
own, `Keyed`: objects and all copies of them are under their session's key, and there
`ObjectsStay` shows the property without any excuse.

`FinishedRecordingsAgree` (in `FinishedRecordings_proofs`): `Spec => []FinishedAgrees`, for
any number of sessions, names, connections, loops and closing-image tasks, in every mode and
with every fault, if the marks that excuse a session are kept. The record, the file and `in_progress` are
written by five kinds of task (messages, loops, closing images, the signal handler, the sweeps), each of
which acts on what it read before; so the invariant has to say what each of them knows at
each of its steps. It is `Finishes`:

* `Links`, how the tasks are tied to each other: a handle in the map belongs to an armed
  loop of that session, a message waits for a loop of its session, the signal handler is at
  sessions that have a handle, an idle task holds nothing;
* `MixedCopy`: a loop that holds the metadata of another session is marked as mixed with it;
* `Swept` and `Sweeping`: what the first sweep is at is listed as active, and what is
  active while it runs is still before it;
* `InOrder`: every session that is not excused is `Orderly`.

`Orderly(s)` is about one session:

* `Unborn`: before its id is drawn nothing knows of it;
* `OneTask`: one message and one loop are at work on it, and if both, the message is
  waiting for the loop or tells it something it can still take (`Beside`);
* `Settled`, the property itself with what makes it stay: once offered, the recording is
  good, there is no handle and no task is left that would write;
* `Home`: the record says where the file is, but during the registration, between a rename
  and its `update_memory_path`, and after a rollback until the sweep has been there;
* `Aware`, for each task and step, what it relies on: a loop that captures holds an
  unfinished copy of the session's metadata, its place is the record's, `LoopSettle` and
  `RouteDirect` find a good recording, `StoreComplete` holds the session's object, the sweep
  restores only what is complete;
* `Cleared`: a finished recording has no `in_progress`, or the message that will clear it
  is about to;
* `Open(s) => Unfinished(s)`: while the session is captured or may still be, none of its
  recordings is finished. Without this a `ReasoningDegraded` could not be told from one that
  comes after the end.

Shape, `NoOrphanLoop` and, with objects, `Keyed` are parts of `Finishes` too. TLC checked
these parts as invariants before they were proved. `PrivateKeeps` divides the work: a step of
a task of session `t` writes records, tasks and files of `t` only, or of sessions that become
mixed with it, so it is enough to look at `t`. `WorksMarks` is what connects this with the
marks: whoever works on a file either owns it or marks the owner. Then there is a lemma
for each action (`...Order`); `ShotsOrder` is that of the closing image: a task that changes
a file marks both the session that had it and the one whose copy it wrote, and leaves all
others as they are. Start-up, when there is no other task, has the simpler `AtBoot`.

While this was being worked out TLC refuted the property as it was then stated, without
"mixed", on two sessions of one name: the history above, which no run with one session
could reach (section 10).

### 5.4 PushChannel

A connection has one bounded channel (16 messages) on which the other tasks push to its
client. Only the connection's own task takes from it, and only between two messages:
while a handler runs, nothing is taken. A file event is dropped when the channel is full
(`try_send`), but Done and the disconnect handler wait for room, and Done waits while it
holds the mutex of `push_handles`, since the guard of its `if let` lives to the end of the
block. The module leaves out everything else, what is captured and stored included.

| model | code |
|---|---|
| `conn[c]` | the message the connection handles: its step, the task it waits for, the channel it sends to |
| `queue[c]` | messages in the connection's channel |
| `push[s]`, `lock` | `push_handles` and who holds its mutex |
| `handles[s]`, `loop[l]` | `done_handles`; the loop's step, its channel (`tx`), whether `done_rx` is ready |
| `shots` | channels a closing-image task is about to push to |

`StartWatch`, `InsertPush`, then the loop's `LoopReady`, or `LoopFails` and `RemovePush`, or
`LoopHangs` (section 8). `Done`, `FireDone` or `LookUp`, `PeekPush`, `TakeResult`, `TakePush`,
`SendComplete`; `ShotPush`; `DeleteSession`, `DropPush`. The loop: `LoopArm`, `LoopPush`,
`LoopStops`, `LoopDrain`, `LoopNotify`, `LoopEnd`. The connection between two messages:
`Drain`, `Close` (the receiver is gone, and a send to it fails at once).

| run | shows | instance |
|---|---|---|
| `push_answers` | `DoneAnswered`, under fairness: a Done is answered, unless its connection is `Wedged` | 1 session, 2 connections, 1 loop, channels of 1 message |

`Wedged(c)` says that c is one of a set of connections that can only be helped by one
another: each waits for the mutex a member holds, for room in the channel of a member, for a
loop that waits for such room, or for a loop that hangs while it connects. A connection that
is idle, or waits for something that can still happen, is in no such set. The run reaches
wedged states in several ways: a connection that started a session and sends its own Done
while its channel is full waits for itself; two connections wait for each other; everybody
waits for the mutex. The code has no timeout for any of them (section 10). That these are
the only ways a Done goes unanswered is what the property says.

Bounds. A channel of one message is full and empty within one step of each other; with
sixteen it only takes more pushes. Two connections are needed to wait for each other, and
one session and one loop for both to wait for the same thing. Two loops or two sessions are
too many for checking liveness. `CHECK_DEADLOCK` is off because a system whose connections
are all closed or wedged stops.

Fairness. Strong fairness of `ConnNext(c)`, `LoopNext(l)` and `Drain(c)`. Weak fairness would
not do: the mutex and the room in a channel come and go. Tokio's mutex and semaphore are
first in, first out, so a task that waits for what is free again and again gets it; and
`select!` takes a ready branch at random, so a connection that is idle again and again
forwards what is in its channel. Forwarding writes to the client's socket: the assumption is
that clients which do not close read. `LoopPush`, `LoopStops(l, FALSE)`, `ShotPush`, `Close`
and the arrival of messages are not fair.

`DoneAnswered` is a property of liveness and has no theorem. What the signal handler does to
a Done (it holds the lock of `done_handles` until the process exits, `MapFree` in
`SessionLifecycle`) is left out here: the process ends with it.

## 6. KafkaCapture

### 6.1 State and actions

A session recorded from the broker is stored in three places that advance on their own:
the consumer group's offsets, `metadata.json` (which holds the session's position,
`kafka_offset`) and the command files. The module has the one partition a session's
events share, everything between it and object storage, and the replay after a stop.

| model | code |
|---|---|
| `topic` | the partition; an event is a "step", a "position" or something the consumer skips |
| `consumer` | the group: next message, stored offset (`store_offset_from_message`), committed offset |
| `route`, `chan` | `KafkaSessionMap`; the bounded channel of each session |
| `loop[s]` | the watch loop: `mem` is the metadata of `CaptureState`, `buf` the buffers of `CommandWriter`, `due` its `steps_since_flush` |
| `stored[s]`, `cmds[s]` | `metadata.json` and the command files in storage |
| `reg`, `stop`, `boot` | the record's status; the signal handler; the active-set sweep and its replay |

`Produce` is the producer. `Recv` is one message of `run_kafka_consumer`: a full channel
loses it *and* takes the session out of the map. `AutoCommit` is librdkafka's. The loop:
`StartWatch`, `Begin`, `TakeEvent`, `FlushIfDue`, `Upload`; `Done`, `EyesDown` or
`ChannelEnds`; `Unroute`, `Finalise`, `LastFlush`, `LoopEnds`. The process: `Signal`,
`FetchInterrupted`, `StoreInterrupted`, `Exit`, `Crash`. Start-up: `SweepActive` or
`StartReplay`, `ReplayEvent`, `ReplayEnds`, `Recover`, `SettleRecovered`, `Serve`.

Simplifications. Offsets count from 1, so that 0 can stand for no position. Sessions of
one partition only meet in the consumer, which the "other" events stand for. A partition
that moves to another member of the group, the lag monitor and the contents of events
are left out. The active-set sweep's other branches are in `SessionLifecycle`.

### 6.2 Run

| run | shows | instance |
|---|---|---|
| `kafka_replay` | `StoredExact`: what is stored is all of the session's steps up to the stored position, once each, numbered without gaps, whatever the signal handler put back and whichever upload failed. `FilesAgree`: command files and metadata never number an event differently. `RecoveredWhole`: a replayed recording has everything up to the high watermark. `CutOffSettles`, under fairness: a cut off recording does not stay active | 1 session, 3 events, channel of 1, flush interval 2, 2 stops, every fault |

Bounds. A channel of one is full at the second event. An interval of two makes steps
that are stored and steps that are not. Two stops give a second one during start-up or
after a recovery. Three events are the fewest with a stored, an unstored and a lost one.

The properties speak of a session started once. A second StartWatch begins with an empty
`CommandWriter`, whose steps are numbered from 1 again although `metadata.json` goes on:
`StoredExact` and `FilesAgree` do not hold then (section 10).

Fairness. Weak fairness of `LoopNext`, `SignalNext` and `BootNext`: tasks that have
something to do run, and uploads return or fail. Neither events nor messages have to
arrive. `ReplayEvent` always gets its event: a recovery consumer that polls for ever
for an offset that is never delivered (`consumer.rs:300`) is outside the model.

### 6.3 Proofs (`KafkaCapture_proofs`)

For any sessions, capacity, interval, faults and bounds: `PositionExact` (`StoredExact`),
`FilesNumberAlike` (`FilesAgree`), `ReplayWhole` (`RecoveredWhole`), `CaptureTypes`. The
assumptions are `BoundsAssumption`, `FaultNames` and `NoneIsNoSession`.

`StoredExact` is not inductive: `metadata.json` is replaced by copies that others hold, and
those are extended by what a channel or the partition has next. `CaptureInv` says of each
copy (stored, the loop's, the signal handler's, the replay's) that it is `Exact`: the steps
up to its position, once each, numbered without gaps. Between a recording and the next
event of a replay there is no step (`NoGap`). A channel is in the order of the topic and,
while its session is routed, has every step the consumer passed since the loop's last one
(`Queue`); once it is not, it has every step before its own last event. A session never
started has nothing (`Untouched`).

`RecoveredWhole` needs in addition that the start-up is alone (`StartingUp`): no loop and no
signal handler runs, and the sessions it has yet to settle are still active, so that what a
replay read stays true. `ReplayedWhole` follows the recording from the end of the replay to
the record's status.

`FilesAgree` compares two recordings. `FilesInv` says that the uploaded commands are exact
up to some position and that the copies agree pairwise where both have a step. `AgreeAppend`
carries it: if one copy takes its next step and the other has more steps, the other's next
step is the same event, because a step between them would be missing from an exact
recording.

TLC checked the three invariants first, on the instance of 6.2. The lemmas come in two
groups: about recordings and channels as values, and one per action.

## 7. ReasoningLog

### 7.1 State and actions

| model | code |
|---|---|
| `maps` | `ReasoningMaps` for the session: both token maps, the write lock, the degraded flag |
| `file`, `cloud` | `reasoning.jsonl` locally and in storage: for each step nothing, a result, a placeholder |
| `meta` | the token counts of `metadata.json` |
| `loop`, `h[x]` | the watch loop with its copy of the counts; the message each connection handles |

`ReasoningResult`, `SessionWriteLock`, `Acquire`, `UpsertEntry`, `ReadLog`, `PutLog`,
`AddTokens`, `AddProviderTokens` are one result; `upsert_entry` reads the whole file and
renames a new one over it, so its halves are two steps. `ReasoningDegraded` and
`CircuitReset` set the flag, then the status. `DirectDone`, `DirectFetch`, `DirectWrite`,
`DirectAsk`, `DirectRemove` are a Done that finds no handle. The loop's `Capture`,
`Drain`/`Store` (a flush), `WasDegraded`, `LoopRemoves`, and after a clean end `Scan`,
`ReadForPlaceholder`, `WritePlaceholder`, `ReadPlaceholders`, `PutPlaceholders`,
`LoopEnds`.

Simplifications. Each result counts one token. A result is for a step that was offered
for reasoning. The text of the reasoning is left out, and so is the annotator's edit of
it, which goes through `UploadFile`.

### 7.2 Run

| run | shows | instance |
|---|---|---|
| `reasoning_races` | `TokensCountedOnce`: loop and second Done drain the same maps and write the same file, and nothing is counted twice. `AcceptedKept`: an answered result is not overwritten. `FinishedLogWhole`: after a clean end every step has an entry, and storage has the last of the local file | both storage modes; 2 connections (symmetric), 2 steps, 2 results, 1 other message |

Bounds. Two results are needed for one to lose the other's entry, and two steps for
their entries to be distinct. One other message is enough to degrade, to reset or to
finish a second time; two would only combine these.

`AcceptedKept` and `FinishedLogWhole` excuse a result that is written while the loop
finishes: the write lock goes with `remove_session`, and the placeholders never take it
(section 10). Only "at most once" holds of the tokens: what is added after the last
flush goes with `remove_session`. The run has failing uploads; the module has failing
local writes, reads and scans too (`Faults`), and the theorems of 7.3 cover them. A log
that cannot be read counts as empty, and the placeholders overwrite its results;
`AcceptedKept` excuses this (`hist.misread`, see section 10).

### 7.3 Proofs (`ReasoningLog_proofs`)

For any bounds and faults, any finite set of connections, with and without storage
(`LogBounds`): `ResultsStay` (`AcceptedKept`), `LogWhole` (`FinishedLogWhole`), `TokensOnce`
(`TokensCountedOnce`) and `LogTypes`.

The first two follow from `LogInv`, whose parts hold unless a result was written while
the loop finished ("late"):

* `StepsKnown`: results and placeholders are for steps that were captured;
* `WritersAlone`: a message between `Acquire` and its reply holds the one write lock, so
  what it has read of the file is still the file, and nobody writes while the loop does.
  This is what the late result breaks: its lock went with `remove_session`;
* `ResultsKept`: what was answered, or is about to be, is in the file, and the steps the
  placeholders are for have no entry;
* `StepsCovered`: after the scan a step has an entry or is on the list;
* `Uploaded`: storage has the file, or somebody who wrote it has yet to upload it.

`TokensCountedOnce` is a sum of two counters and not inductive, and no inequality between
the counters is: the counts in the file, in the loop's copy and in the copies of the Dones
about to write *replace* one another, while what is in the map and what a Done has drained
is *added* to one of them later. `TokensInv` therefore takes the tokens as individuals:
`Accounted` says that the tokens reported can be handed out so that the share of the map
(M), the shares drained (F) and every count that may end up in the file (`Counts`) are
disjoint where they can still be added up. A drain moves M to a copy, a fetch joins F with
the count read, a write lets one count take the place of another; none makes a token.

## 8. WatchStream

### 8.1 State and actions

| model | code |
|---|---|
| `cc` | `CcEndpoint`: policy, token, version setting, `allow_unsupported` |
| `conn` | the attempt: step, number, transport, the server that answered, the failure |
| `stream` | `WatchStream`: the agent version last checked, the silence timer, why it ended |
| `meta`, `reg` | what is recorded of the source; the record's status |

`Dial`, `CheckVersion`, `WatchCommands` are one try (`BadToken` is a token that is no header
value); `Hang` is a server that takes a call and never answers it; `Negotiate` goes to the next
transport, `Retry` to the next attempt, `GiveUp` answers StartWatch. `NextEvent` is one
message with the agent gate before heartbeats are dropped; `Silence` and `StreamEnds` end
the stream through `Disconnect`. A version is its place in the order of releases, or
absent, or unreadable.

`Dial` may reach another server each time: Control-Center is outside, and may restart or
be replaced between two tries. `Tick` is time.

A failed try has one of five faults. Two are verdicts, "auth" and "unsupported". The other
three are all `ConnectFailure::Transport` to the code (`TransportFailures`): "channel", where
nothing could be reached or the handshake failed; "config", a CA file that cannot be read or
a token that is no header value; and "status", any answer of WatchCommands other than
Unauthenticated and PermissionDenied, which comes over a working channel.

### 8.2 Run

| run | shows | instance |
|---|---|---|
| `stream_connect` | `DowngradeIsJustified`: plaintext under "auto" only after a try over TLS in this attempt, never for a refused token or version, and without the token. `SupportedServer`: no recording from a server outside the range, and none in it is refused. `NoLossySteps`: no step from an agent known to cut commands, even if it was replaced. `StartAnswered`: StartWatch is answered unless a call hangs. `SilenceNoticed`; both under fairness | every policy and setting; releases below, at, inside and above the range; 2 attempts; a timeout of 2 ticks |

Bounds. Retries only differ in their number, so two attempts stand for the ten of the
code. Four releases give every order relative to the three limits; a timeout of two
ticks lets a message come in time and too late.

Fairness. Weak fairness of `Connecting`, `Tick` and `Silence` (the timer runs). That a call
returns is not assumed: `stream.rs` sets no timeout on `connect`, `get_server_identity` or
`watch_commands`, so at each of them `Hang` may come instead, and is then final.
`StartAnswered` therefore ends in "hung" too; what it shows is that nothing else keeps a
StartWatch waiting, neither retries nor transports nor servers that are replaced. No event
has to arrive, no stream has to end.

`DowngradeIsJustified` does not say that TLS could not be had. It cannot: a server that
answers over TLS with any other status, or a setting that is wrong, sends "auto" to
plaintext as well (section 10). It says that nothing else does, that what counts as a failure
of one attempt is not carried to the next, and that the credentials stay behind.

`SilenceNoticed` is about no message at all. Heartbeats are messages: they start the
timer anew, so that a stream which carries nothing else keeps its session active
(section 10).

### 8.3 Proofs (`WatchStream_proofs`)

For any releases, limits and settings (`VersionsAreOrdered`, `NoneIsNoFailure`):
`PlaintextJustified`, `NoLossyStepRecorded`, `ServerSupported` and `WatchTypes`.

None of the three invariants is inductive. `DowngradeIsJustified` forgets why the attempt
is on its second transport, `NoLossySteps` what the version last checked was, and
`SupportedServer` that the server about to be recorded was let pass. `WatchInv` adds this:
`TurnedDown` (under "auto" the second transport follows a try over TLS that failed with one of
`TransportFailures`), `Passed` (the agent last checked, the server the stream is asked of and the one
recorded were let pass) and `Reached` (the plan has the transport tried, an identity is
asked of a server, only a failed try has a fault). TLC checked `WatchInv` first, on the
instance of 8.2.

`CeilingRaised` shows that `Refused` is the negation of `InRange`: the gate takes the
greater of the built-in ceiling and the setting. `PlanShape` lists the three plans. Four
lemmas take the step: `TypeStep`, `DownStep`, `AgentStep` and `JudgedStep`.

## 9. EventConversion and StepRecord

### 9.1 State and actions

`EventConversion` has the pure functions of `convert/mod.rs` and `fidelity.rs` as
operators with the same names, over the parse of the strings they take. `StepRecord` is
one event on its way: `DropEvent` is a position, or an event `write_event` fails for, of which
no step is made (files a failing `write_event` may have begun are not modelled); `TakeEvent`
converts any other and makes the step, which is all there is when `vision` is off (no
address of The-Eyes); with it, `FetchBoth` (mouse) or
`FetchBefore` and `FetchAction` (keyboard), then `FetchAfter`; `SaveAt`, `SaveBefore`,
`SaveAfter`; `EndOfStep` writes the step's entry. `now` is the time since the event.

The functions are checked against what was *done*: an event of the model carries the
gesture, the chord or the text, and the report of it that the agent would send. Those
reports (`Report`, `Sentence`, `Chord`, `NativeName`, ...) are the agent's, which is not in
this repository; they follow the wordings the comments and tests of `convert/mod.rs`
quote, and are marked external. A mouse event comes in up to seven of them (`Styles`): the
sentence; the command, from an agent whose readback did not settle; the sentence of a server
that leaves the symbols on the subtype; and for a drag a sentence that has only the
destination ("Dragged to X=543, Y=248"), the one for a button that was held ("Held button at
at X=..."), and sentences with an origin or a waypoint whose numbers do not fit. A chord
comes with symbols, as `{Cmd down}...{Cmd up}` or spelled out ("Cmd+Q"). Since a report may
tell less than was done, an event also carries what its report tells (`told`).

### 9.2 Run

| run | shows | instance |
|---|---|---|
| `step_record` | `ReplaysGesture`: the recorded command, run again, does what was done, or is no command; and where the report tells enough there is one. `LabelTellsGesture`: the label has the modifiers and, of the path, the points the report tells, never others. `PressAgrees`: what label and command name of a press is what was pressed, and which of them leaves something out. `CutIsSuspected`: the check for cut texts, against its definition position by position. `FramesOfTheirTime`, `StepAccounted`, `MarkIsVerified`: the frames | three systems, with and without The-Eyes, every wording of 9.1, chords of up to two modifiers, drags of up to 4 points (limit 3), texts of up to 4 characters, every answer of The-Eyes |

Bounds. Nothing but the step number and the metadata passes from one event to the next,
so a behaviour is one event. `MAX_DRAG_POINTS` is 3 instead of 8; a path of four is the
first that is too long. Four characters hold a quote with two backslashes and a
separator before it.

Three excuses, for what the code gets wrong (section 10). `PressAgrees` excuses a forward
delete; that a chord which spells its names has no key in its command, and a held-down chord
with a braced key none in its label, is not excused but stated, as an equivalence, so that no
other chord may lose its key. `ReplaysGesture` excuses a waypoint that cannot be read.

A step without The-Eyes has neither an image nor a reason. `StepAccounted` says so, and asks
for one of the two only with `vision`.

### 9.3 Proofs (`StepRecord_proofs`)

For any delays, offsets, texts and lists of modifiers (`DelaysAreTicks`, `NoneIsNoFrame`,
`ModifiersAreSymbols`): `FramesAreAwaited` (`FramesOfTheirTime`), `StepsAreAccounted`
(`StepAccounted`), `MarksAreVerified` (`MarkIsVerified`), `PressesAgree` (`PressAgrees`) and
`StepTypes`.

The invariant `StepInv` has one part for each thing the loop carries from one await to the
next: `Recorded` (the event is one that was reported and the text is what is written of
it), `Clock` (how much time has passed at each step), `AskedByNow` (what was asked for, at
which instant), `Answered`, `Stored` (no frame before the one of the action) and `Closed`
(the entry is decided by the frames). `FramesOfTheirTime` needs `Clock`, since the time
of a frame is compared with the time at which it was asked for; `StepAccounted` and
`MarkIsVerified` need that the decision made at the beginning is the one that is acted on
at the end.

`PressAgrees` is about the text, which `Recorded` reduces to the functions of
`EventConversion`. There is one lemma for each way a key is reported: `BareAgrees`,
`ChordAgrees`, `HeldDownAgrees`, `SpelledOutAgrees`; that a name given to a modifier on one system is
understood on each, and that mapping the names over a list keeps the set of them
(`NamesOfAll`), is what makes the length of the list irrelevant.

`ReplaysGesture`, `LabelTellsGesture` and `CutIsSuspected` stay with TLC: the first two are
about a path of any length that is folded into a command, the last about a scan that is
folded over the text. To prove them needs induction over the sequence.

## 10. Where the code and its description disagree

One such place has a run which TLC must find violated; `PROJECT.json` ("findings")
quotes the lines.

| run | the text says | the code does |
|---|---|---|
| `lifecycle_rewritten` | a forced delete drops the handle first so that nothing is rewritten | nobody waits for the loop, which writes its final metadata after the purge |

The models reach these too; no run is kept for them.

Claims:

* `ReleaseSession` "verifies ownership before releasing" (`ipc/mod.rs:2352`), but the check
  and the DEL are separate commands: the DEL can remove a claim another annotator has
  just taken;
* README.md:1828 has an expired claim return its session to the human queue; nothing
  does, and it stays in `annotating` until a restart;
* `ReleaseSession` requeues "if still in annotating", but reads the status and then
  overwrites it whatever it has become;
* the reconcile sweep sends annotating sessions to `pending_annotation` without
  looking at claims, where README.md describes a check of the claim key and a return
  to the human queue;
* a failed read of the annotator record counts as "no limit", where the comment says
  the limit is enforced before claiming.

Registry and life cycle:

* `update_status` and the counter update write unconditionally: a call that comes
  after `delete_session` ("Permanently remove a session from Redis") leaves an
  unreadable Hash under the session's key (the "partial" of `AtomicRegistry`);
* an in-flight session is not deleted unless forced (`ipc/mod.rs:1776`); a session captured
  with degraded reasoning is not `active` and is deleted;
* a retention purge that fails part-way "leaves the record behind and the sweep retries"
  (`main.rs:515`); the record goes first, and what fails after it is not retried;
* a second StartWatch drops the first loop's handle, which that loop takes for a Done
  and writes "complete", where main.rs says only the `done` path does so;
* a clean shutdown flags active sessions as interrupted, but a loop that still runs
  overwrites the flag with its next flush;
* deletion looks at the owner because "`memory_path` does not uniquely identify a session"
  (README.md:846); `mark_incomplete` and the flush of a loop do not: a loop of a session that
  was started twice, or whose registration failed and was not taken back, renames or
  overwrites what belongs to another session (the two histories of 5.3);
* neither do Done and the active-set sweep: a Done for a session whose registration was
  refused completes the metadata of the session that has the name, and the sweep may offer
  the one for annotation with the other's directory (the mark "mixed" of 5.2);
* `in_progress` is "Cleared (null) on successful done" (`metadata.rs:106`), and Done "flushes
  all in-memory state" (README.md:888). In local mode the closing-image task of the same Done
  may read `metadata.json` before the loop's final flush and write it after (`ipc/mod.rs:874`,
  `metadata.rs:161-165`): the file of an ordinary, undisturbed session then says "active" and
  "capturing", has lost what the flush added, and stays so under a record that says
  `pending_annotation` (the mark "stale" of 5.2);
* "the capture loop, IPC server, ... all run concurrently without blocking each other"
  (README.md:153): Done waits for room on a push channel with the mutex of `push_handles`
  held, and the disconnect handler waits for room before its loop ends; the connection that
  could make room may itself wait for either. A client that sends Done on the connection that
  started the session, with its channel full, is never answered, and then no StartWatch and
  no other Done is (`Wedged` of 5.4);
* that reasoning degraded is known only in memory: after a restart Done sends a
  `reasoning_degraded` session to `pending_annotation`, where README.md has it go to
  the human queue.

Broker:

* README.md:1824 has offsets committed "only after the corresponding step has been
  successfully written"; they are stored when the event enters a channel. What makes a
  recording recoverable is its own `kafka_offset`, which `StoredExact` is about;
* a crash is said to lead to a replay (README.md:2102); only a session whose
  `in_progress` is "interrupted" is replayed, and after a kill it is "capturing";
* a replay that met an error of the consumer is marked as recovered like a whole one;
* what is still in the channel at a Done is lost;
* a second StartWatch numbers its steps from 1 again.

Reasoning:

* "steps that already have an entry are left untouched" (`capture/mod.rs:697`): a result that
  arrives after the scan is replaced by the placeholder, and a log that cannot be read
  counts as empty;
* tokens that are added after the loop's last drain are in no file.

Stream, conversion, frames:

* plaintext comes "only after TLS failed at the transport level" (`stream.rs:254`), where
  "the connection itself failed: handshake, h2, or the server was unreachable"
  (`stream.rs:131`), and "**only** when the transport itself fails" (README.md:1576). Under
  "auto" it also comes after any status of WatchCommands other than Unauthenticated and
  PermissionDenied, answered over a TLS that works (`stream.rs:366`), after a CA file that
  cannot be read (`stream.rs:306`) and after a token that is no header value
  (`stream.rs:345`). The credentials are withheld then;
* StartWatch waits for the stream (`ipc/mod.rs:741`), and no call to Control-Center has a
  timeout: a server that accepts and does not answer keeps the connection waiting for ever;
* `to_cc_command` gives "the exact command string Control-Center accepts"
  (`convert/mod.rs:553`). A chord reported as "Cmd+Q", the wording the tests take from
  recordings, becomes `{Cmd+Q}`, which names no key (its label is right); and
  the label of a chord like `{Ctrl down}{Tab}{Ctrl up}` has the modifiers only (its command
  is right);
* a drag told by its destination alone, or with an origin that cannot be read, has a label
  with the destination only and no command that can be run, though it had an origin;
* a waypoint that cannot be read is passed over, and the shorter drag is written as a
  command that can be run;
* a step recorded without The-Eyes has neither an image nor a reason in
  `skipped_image_fetches`; and of the three frames only a missing one of the action is logged
  there, where README.md:323 has failures of the other two logged;
* README.md:321 has silence count "the time since the last non-position event"; any
  message starts the timer anew, heartbeats and positions too;
* a forward delete, reported as "Delete" on Linux and Windows, is taken for Backspace in
  label and command;
* an error page of The-Eyes is stored as the frame: `fetch_closest` does not look at the
  HTTP status. A frame that is to be marked is decoded, and fails then.

## 11. What is only model-checked, and what is not modelled

The theorems are in 3.4, 3.5, 4.3, 5.3, 6.3, 7.3, 8.3 and 9.3. Model-checked only are

* `ReplaysGesture`, `LabelTellsGesture` and `CutIsSuspected`: induction over data (9.3);
* liveness (`EveryMessageAnswered`, `DoneAnswered`, `CutOffSettles`, `StartAnswered`,
  `SilenceNoticed`): the prover does not do fairness and ENABLED.

Redis is trusted to execute commands one after the other and not to lose an acknowledged
write, except where `HostCrash` takes records back. Kafka is trusted to keep a partition's
order and to deliver every offset.

Not modelled: annotator accounts, storage clients, TLS, configuration and metrics, the
updater and the user interface (single writes, clients of services, no protocol of their
own); the Python model pipeline and sync worker (planned); the frame of the closing image
(its write to `metadata.json` is, 5.1), which messages are pushed, `UploadFile` and the
takeover between two daemons; the layout of the Markdown files and the tokenisation of the
reported strings. `PROJECT.json` has the reason for each.
