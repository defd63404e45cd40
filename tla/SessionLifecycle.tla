-------------------------- MODULE SessionLifecycle --------------------------
(***************************************************************************)
(* The capture half of a session's life: RegisterSession, StartWatch and   *)
(* the watch loop it spawns, Done, ReasoningDegraded, CircuitReset and     *)
(* DeleteSession (ma-core/src/ipc, ma-core/src/capture), the memory        *)
(* directory with its metadata.json (ma-core/src/session), and the signal  *)
(* handler and start-up sweeps (ma-core/src/main.rs).                      *)
(*                                                                         *)
(* A session's state is in three places that no transaction spans: the     *)
(* Redis record, metadata.json and the name of the directory around it,    *)
(* and the handle maps in memory.  A registry call is one step here        *)
(* (SessionRegistry has its commands), and so is one write of              *)
(* metadata.json, which is a rename into place.                            *)
(***************************************************************************)
EXTENDS Naturals

CONSTANTS
    Session,    \* session ids
    Name,       \* memory names; several sessions may ask for one
    Conn,       \* IPC connections
    Loop,       \* watch loop tasks that may run at the same time
    Shot,       \* closing-image tasks that may run at the same time
    Requests,   \* the messages the clients send
    Mode,       \* storage_mode: "local", "cloud" (cloud_primary), "kafka"
                \* (cloud_primary with a broker)
    Faults,     \* what may go wrong: "call" (a registry call or a write
                \* fails), "signal", "crash", "rollback" (of Redis)
    Tracked,    \* the marks that are kept in hist
    None

ASSUME ModeAssumption == Mode \in {"local", "cloud", "kafka"}
ASSUME FaultsAssumption == Faults \subseteq {"call", "signal", "crash", "rollback"}
ASSUME NoneAssumption == None \notin Session \cup Loop \cup (Name \X BOOLEAN)

Local == Mode = "local"

VARIABLES
    reg,       \* the Redis record: status and memory_path
    file,      \* metadata.json, by the place it is stored in
    loop,      \* the watch loops
    handles,   \* done_handles: the loop whose handle the map holds
    degraded,  \* reasoning_maps: sessions with an open circuit
    conn,      \* the message each connection is handling
    shot,      \* the closing-image tasks
    boot,      \* progress of the start-up sweeps
    stop,      \* the signal handler: the sessions it has yet to flag
    hist       \* history: what has happened to each session

vars == <<reg, file, loop, handles, degraded, conn, shot, boot, stop, hist>>

(* A memory directory is storage_path/{name}, or with " (incomplete)" added *)
(* to its name.  In cloud_primary mode metadata.json is an object under the *)
(* session's own key.                                                       *)
Path == Name \X BOOLEAN
Incomplete(p) == <<p[1], TRUE>>
Place == IF Local THEN Path ELSE Session

Status == {"active", "reasoning_degraded", "pending_annotation",
           "pending_human_annotation", "incomplete"}
NoRecord == [status |-> "none", path |-> None]
Records == [status : Status, path : Path] \cup {NoRecord}

Meta == [owner : Session, status : {"active", "complete", "incomplete", "pending_annotation"},
         prog : {"none", "capturing", "interrupted"}]
NoFile == [owner |-> None, status |-> "none", prog |-> "none"]

LoopPCs == {"none", "load", "read", "connect", "arm", "begin", "capture", "drain",
            "complete", "settle", "interrupt", "demote", "flag", "rename", "repath", "end"}

(* place: memory_dir, read once; mem: CaptureState's copy of the metadata;  *)
(* fired: done_rx is ready, by a send or because its sender was dropped.    *)
Loops == [pc : LoopPCs, sid : Session \cup {None}, place : Place \cup {None},
          mem : Meta \cup {NoFile}, fired : BOOLEAN, clean : BOOLEAN, deg : BOOLEAN]
NoLoop == [pc |-> "none", sid |-> None, place |-> None, mem |-> NoFile,
           fired |-> FALSE, clean |-> FALSE, deg |-> FALSE]

ConnPCs == {"idle", "init", "rollback", "ready", "unstart", "send", "picture", "await",
            "lookup", "finalise", "clear", "store", "forget", "route", "degrade", "reset",
            "unhandle", "wipe", "objects", "purge"}
Message(pc, s, l, p, flag) ==
    [pc |-> pc, sid |-> s, loop |-> l, place |-> p, mem |-> NoFile, flag |-> flag]
Idle == Message("idle", None, None, None, FALSE)
Messages == [pc : ConnPCs, sid : Session \cup {None}, loop : Loop \cup {None},
             place : Path \cup Place \cup {None}, mem : Meta \cup {NoFile}, flag : BOOLEAN]

(* place: the directory the task was given; mem: the metadata it has read.  *)
Shots == [pc : {"none", "read", "write"}, sid : Session \cup {None},
          place : Place \cup {None}, mem : Meta \cup {NoFile}]
NoShot == [pc |-> "none", sid |-> None, place |-> None, mem |-> NoFile]

BootPCs == {"active", "rename", "repath", "demote", "restore", "reconcile",
            "retention", "objects", "purge", "serving"}
Boot(pc, todo, s, p) == [pc |-> pc, todo |-> todo, sid |-> s, place |-> p]
Serving == Boot("serving", {}, None, None)

NoSignal == [on |-> FALSE, todo |-> {}, sid |-> None, mem |-> NoFile]

(* raced: a message came while another message, or a loop that it does not  *)
(* address, was at work on the session; crowded: that message was a         *)
(* StartWatch; shared: a loop of another session took its metadata.json for *)
(* that session's; mixed: a task of one session worked on the metadata.json *)
(* of another, which is marked as well; stale: a closing-image task put an  *)
(* old copy of its metadata.json back, or one over it; failed: a call or a  *)
(* write for it failed; torn: ma-core died while at work on it; purged: a   *)
(* DeleteSession ran to its end.  (issued: the id was drawn.)               *)
Marks == {"issued", "raced", "crowded", "shared", "mixed", "stale", "failed", "torn",
          "purged"}
ASSUME TrackedAssumption == Tracked \subseteq Marks

TypeOK ==
    /\ reg \in [Session -> Records]
    /\ file \in [Place -> Meta \cup {NoFile}]
    /\ loop \in [Loop -> Loops]
    /\ handles \in [Session -> Loop \cup {None}]
    /\ degraded \subseteq Session
    /\ conn \in [Conn -> Messages]
    /\ shot \in [Shot -> Shots]
    /\ boot \in [pc : BootPCs, todo : SUBSET Session, sid : Session \cup {None},
                 place : Path \cup {None}]
    /\ stop \in [on : BOOLEAN, todo : SUBSET Session, sid : Session \cup {None},
                 mem : Meta \cup {NoFile}]
    /\ hist \in [Session -> SUBSET Marks]

Init ==
    /\ reg = [s \in Session |-> NoRecord]
    /\ file = [p \in Place |-> NoFile]
    /\ loop = [l \in Loop |-> NoLoop]
    /\ handles = [s \in Session |-> None]
    /\ degraded = {}
    /\ conn = [c \in Conn |-> Idle]
    /\ shot = [k \in Shot |-> NoShot]
    /\ boot = Serving
    /\ stop = NoSignal
    /\ hist = [s \in Session |-> {}]

-----------------------------------------------------------------------------
HasRecord(s) == reg[s] # NoRecord

(* Where metadata.json of s is looked for.                                  *)
MetaPlace(s) == IF Local THEN reg[s].path ELSE s

(* Session ids are UUIDs: no client can name one before it is drawn.        *)
Issued(s) == "issued" \in hist[s]

Running(l) == loop[l].pc # "none"
Capturing(l) == loop[l].pc = "capture"

(* Nothing is at work on s but a loop that captures.                        *)
Quiet(s) ==
    /\ \A c \in Conn : conn[c].sid # s
    /\ \A l \in Loop : loop[l].sid = s => Capturing(l) /\ ~loop[l].fired

(* Nothing is at work on s.                                                 *)
Free(s) == (\A c \in Conn : conn[c].sid # s) /\ \A l \in Loop : loop[l].sid # s

Mark(s, ms) == [hist EXCEPT ![s] = @ \cup (ms \cap Tracked)]
Outcome(s, ok) == IF ok THEN hist ELSE Mark(s, {"failed"})

(* A task of s works on the metadata.json at p, which may be another's.     *)
Mixes(h, s, t) == [h EXCEPT ![s] = @ \cup ({"mixed"} \cap Tracked),
                            ![t] = @ \cup ({"mixed"} \cap Tracked)]
Works(s, p, ok) ==
    IF file[p].owner \in {None, s} THEN Outcome(s, ok)
    ELSE Mixes(Outcome(s, ok), s, file[p].owner)

Arrives(s) == IF Quiet(s) THEN hist ELSE Mark(s, {"raced"})
Interrupts(s) == IF Free(s) THEN hist ELSE Mark(s, {"raced"})
Starts(s) == IF ~Free(s) THEN Mark(s, {"raced", "crowded"})
             ELSE IF reg[s].status = "active" THEN hist ELSE Mark(s, {"raced"})
Reports(s) == IF \E l \in Loop : loop[l].sid = s THEN Arrives(s)
              ELSE Mark(s, {"raced"})

Goto(c, pc) == [conn EXCEPT ![c].pc = pc]
Reply(c) == [conn EXCEPT ![c] = Idle]
LoopGoto(l, pc) == [loop EXCEPT ![l].pc = pc]

(* The loop has nothing left to do but to remove its handle.                *)
LoopOver(l) == [loop EXCEPT ![l] = [NoLoop EXCEPT !.pc = "end", !.sid = loop[l].sid]]

(* update_status: errors are logged and the caller goes on.  On a deleted   *)
(* session it leaves a Hash `get' rejects.                                  *)
UpdateStatus(s, new, ok) ==
    reg' = IF ok /\ HasRecord(s) THEN [reg EXCEPT ![s].status = new] ELSE reg

UpdateMemoryPath(s, p, ok) ==
    reg' = IF ok /\ HasRecord(s) THEN [reg EXCEPT ![s].path = p] ELSE reg

(* A write of metadata.json: a directory must be there, an object need not. *)
Write(p, m, ok) ==
    file' = IF ok /\ (Local => file[p] # NoFile) THEN [file EXCEPT ![p] = m] ELSE file

(* Read metadata.json, change it, write it back; a missing file is an error.*)
Edit(p, m, ok) ==
    file' = IF ok /\ file[p] # NoFile THEN [file EXCEPT ![p] = m] ELSE file

(* session::mark_incomplete renames the directory, onto nothing.            *)
CanRename(p, ok) == ok /\ file[p] # NoFile /\ file[Incomplete(p)] = NoFile
Rename(p) == [file EXCEPT ![Incomplete(p)] = file[p], ![p] = NoFile]

(* A dropped or used sender makes done_rx ready, for a loop that still      *)
(* looks at it.                                                             *)
Fire(lp, l) ==
    [x \in Loop |-> IF x = l /\ lp[x].pc \in {"begin", "capture"}
                    THEN [lp[x] EXCEPT !.fired = TRUE] ELSE lp[x]]

(* The handle map is free: the signal handler holds its lock to the end.    *)
MapFree == ~stop.on

Accepts(c, kind) ==
    /\ kind \in Requests
    /\ boot = Serving
    /\ conn[c].pc = "idle"

-----------------------------------------------------------------------------
(* Plausible slips in the code, each one caught by a property below.        *)
AfterCapture_Skips(deg) ==   \* straight to complete, past the annotation
    IF deg THEN "pending_human_annotation" ELSE "complete"

LoopArm_Silent(l) ==   \* the replaced handle does not wake its loop
    LET s == loop[l].sid
    IN  /\ loop[l].pc = "arm"
        /\ MapFree
        /\ handles' = [handles EXCEPT ![s] = l]
        /\ loop' = LoopGoto(l, "begin")
        /\ UNCHANGED <<reg, file, degraded, conn, shot, boot, stop, hist>>

LoopComplete_KeepsProgress(l, ok) ==   \* in_progress is not cleared
    /\ loop[l].pc = "complete"
    /\ loop' = [loop EXCEPT ![l].pc = "settle", ![l].mem = NoFile]
    /\ Write(loop[l].place, [loop[l].mem EXCEPT !.status = "complete"], ok)
    /\ hist' = Works(loop[l].sid, loop[l].place, ok)
    /\ UNCHANGED <<reg, handles, degraded, conn, shot, boot, stop>>

Candidates_NoSibling(p) == {p} \ {None}   \* the "(incomplete)" name is forgotten

PurgeMemoryDir_AnyOwner(s, p, ok) ==   \* the owner is not compared
    file' = IF Local /\ ok /\ p # None
            THEN [q \in Place |-> IF q \in {p, Incomplete(p)} THEN NoFile ELSE file[q]]
            ELSE file

SweepRename_SkipsRenamed(ok) ==   \* a renamed directory counts as swept
    LET p == boot.place
        moved == ~p[2] /\ CanRename(p, ok)
    IN  /\ boot.pc = "rename"
        /\ file' = IF moved THEN Rename(p) ELSE file
        /\ boot' = CASE moved -> [boot EXCEPT !.pc = "repath", !.place = Incomplete(p)]
                     [] p[2] -> Boot("active", boot.todo, None, None)
                     [] OTHER -> [boot EXCEPT !.pc = "demote"]
        /\ hist' = Works(boot.sid, p, moved \/ p[2])
        /\ UNCHANGED <<reg, loop, handles, degraded, conn, shot, stop>>

-----------------------------------------------------------------------------
(* RegisterSession: register the record, then initialise the directory.     *)
RegisterSession(c, s, n) ==
    /\ Accepts(c, "register")
    /\ ~Issued(s)
    /\ reg' = [reg EXCEPT ![s] = [status |-> "active", path |-> <<n, FALSE>>]]
    /\ conn' = [conn EXCEPT ![c] =
                  Message("init", s, None, IF Local THEN <<n, FALSE>> ELSE s, FALSE)]
    /\ hist' = [hist EXCEPT ![s] = @ \cup {"issued"}]
    /\ UNCHANGED <<file, loop, handles, degraded, shot, boot, stop>>

(* A local directory of that name is an error; in cloud_primary mode the    *)
(* metadata is uploaded, and a failed upload is only logged.                *)
InitialiseDir(c, ok, uploaded) ==
    LET s == conn[c].sid
        made == ok /\ (Local => file[conn[c].place] = NoFile)
    IN  /\ conn[c].pc = "init"
        /\ uploaded \/ ~Local
        /\ file' = IF made /\ uploaded
                   THEN [file EXCEPT ![conn[c].place] =
                            [owner |-> s, status |-> "active", prog |-> "none"]]
                   ELSE file
        /\ conn' = IF made THEN Reply(c) ELSE Goto(c, "rollback")
        /\ hist' = Outcome(s, made /\ uploaded)
        /\ UNCHANGED <<reg, loop, handles, degraded, shot, boot, stop>>

(* update_status(Incomplete) when the directory could not be made, or when  *)
(* the loop StartWatch waits for did not come up.                           *)
GiveUp(c, ok) ==
    /\ conn[c].pc \in {"rollback", "unstart"}
    /\ UpdateStatus(conn[c].sid, "incomplete", ok)
    /\ conn' = Reply(c)
    /\ hist' = Outcome(conn[c].sid, ok)
    /\ UNCHANGED <<file, loop, handles, degraded, shot, boot, stop>>

(* StartWatch: the record must be there, and in local mode the directory.   *)
(* The status is not looked at, nor whether a loop runs already.            *)
StartWatch(c, s, l) ==
    /\ Accepts(c, "start")
    /\ HasRecord(s)
    /\ Local => file[reg[s].path] # NoFile
    /\ ~Running(l)
    /\ loop' = [loop EXCEPT ![l] = [NoLoop EXCEPT !.pc = "load", !.sid = s]]
    /\ conn' = [conn EXCEPT ![c] = Message("ready", s, l, None, FALSE)]
    /\ hist' = Starts(s)
    /\ UNCHANGED <<reg, file, handles, degraded, shot, boot, stop>>

-----------------------------------------------------------------------------
(* run_watch_loop.  Until events can flow, a failure ends the task and      *)
(* wakes the StartWatch that waits for it.                                  *)
LoopFails(l) ==
    /\ loop' = [loop EXCEPT ![l] = NoLoop]
    /\ conn' = [c \in Conn |-> IF conn[c].pc = "ready" /\ conn[c].loop = l
                              THEN [conn[c] EXCEPT !.pc = "unstart", !.loop = None]
                              ELSE conn[c]]

LoopLoad(l, ok) ==
    LET s == loop[l].sid
    IN  /\ loop[l].pc = "load"
        /\ IF ok /\ HasRecord(s)
           THEN /\ loop' = [loop EXCEPT ![l].pc = "read", ![l].place = MetaPlace(s)]
                /\ UNCHANGED conn
           ELSE LoopFails(l)
        /\ hist' = Outcome(s, ok)
        /\ UNCHANGED <<reg, file, handles, degraded, shot, boot, stop>>

LoopReadMetadata(l, ok) ==
    LET m == file[loop[l].place]
    IN  /\ loop[l].pc = "read"
        /\ IF ok /\ m # NoFile
           THEN /\ loop' = [loop EXCEPT ![l].pc = "connect", ![l].mem = m]
                /\ UNCHANGED conn
                /\ hist' = IF m.owner = loop[l].sid THEN hist
                           ELSE Mixes(Mark(m.owner, {"shared"}), loop[l].sid, m.owner)
           ELSE /\ LoopFails(l)
                /\ hist' = Outcome(loop[l].sid, ok)
        /\ UNCHANGED <<reg, file, handles, degraded, shot, boot, stop>>

(* Subscribing to Control-Center may fail; to the Kafka route it cannot.    *)
(* From signal_ready on, StartWatch answers WatchStarted.                   *)
LoopConnect(l, ok) ==
    /\ loop[l].pc = "connect"
    /\ Mode = "kafka" => ok
    /\ IF ok
       THEN /\ loop' = LoopGoto(l, "arm")
            /\ conn' = [c \in Conn |-> IF conn[c].pc = "ready" /\ conn[c].loop = l
                                      THEN Idle ELSE conn[c]]
       ELSE LoopFails(l)
    /\ hist' = Outcome(loop[l].sid, ok)
    /\ UNCHANGED <<reg, file, handles, degraded, shot, boot, stop>>

(* done_handles.insert drops the handle of an earlier loop.                 *)
LoopArm(l) ==
    LET s == loop[l].sid
    IN  /\ loop[l].pc = "arm"
        /\ MapFree
        /\ handles' = [handles EXCEPT ![s] = l]
        /\ loop' = Fire(LoopGoto(l, "begin"), handles[s])
        /\ UNCHANGED <<reg, file, degraded, conn, shot, boot, stop, hist>>

LoopBegin(l, ok) ==
    LET m == [loop[l].mem EXCEPT !.prog = "capturing"]
    IN  /\ loop[l].pc = "begin"
        /\ loop' = [loop EXCEPT ![l].pc = "capture", ![l].mem = m]
        /\ Write(loop[l].place, m, ok)
        /\ hist' = Works(loop[l].sid, loop[l].place, ok)
        /\ UNCHANGED <<reg, handles, degraded, conn, shot, boot, stop>>

(* A step was recorded and the metadata flushed.                            *)
LoopStep(l) ==
    /\ Capturing(l)
    /\ Write(loop[l].place, loop[l].mem, TRUE)
    /\ hist' = Works(loop[l].sid, loop[l].place, TRUE)
    /\ UNCHANGED <<reg, loop, handles, degraded, conn, shot, boot, stop>>

(* The loop ends on done_rx, or because the event source or The-Eyes went   *)
(* away; select! may take either when both are ready.                       *)
LoopStops(l, clean) ==
    /\ Capturing(l)
    /\ clean => loop[l].fired
    /\ loop' = [loop EXCEPT ![l].pc = "drain", ![l].clean = clean, ![l].fired = FALSE]
    /\ UNCHANGED <<reg, file, handles, degraded, conn, shot, boot, stop, hist>>

LoopDrain(l) ==
    LET s == loop[l].sid
    IN  /\ loop[l].pc = "drain"
        /\ loop' = [loop EXCEPT ![l].pc = IF loop[l].clean THEN "complete" ELSE "interrupt",
                                ![l].clean = FALSE,
                                ![l].deg = loop[l].clean /\ s \in degraded]
        /\ degraded' = degraded \ {s}
        /\ UNCHANGED <<reg, file, handles, conn, shot, boot, stop, hist>>

LoopComplete(l, ok) ==
    LET m == [loop[l].mem EXCEPT !.status = "complete", !.prog = "none"]
    IN  /\ loop[l].pc = "complete"
        /\ loop' = [loop EXCEPT ![l].pc = "settle", ![l].mem = NoFile]
        /\ Write(loop[l].place, m, ok)
        /\ hist' = Works(loop[l].sid, loop[l].place, ok)
        /\ UNCHANGED <<reg, handles, degraded, conn, shot, boot, stop>>

AfterCapture(deg) == IF deg THEN "pending_human_annotation" ELSE "pending_annotation"

LoopSettle(l, ok) ==
    /\ loop[l].pc = "settle"
    /\ UpdateStatus(loop[l].sid, AfterCapture(loop[l].deg), ok)
    /\ loop' = LoopOver(l)
    /\ hist' = Outcome(loop[l].sid, ok)
    /\ UNCHANGED <<file, handles, degraded, conn, shot, boot, stop>>

(* Cloud storage gets the final metadata before the status changes.         *)
LoopInterrupt(l, ok) ==
    LET m == IF Local THEN loop[l].mem
             ELSE [loop[l].mem EXCEPT !.status = "incomplete", !.prog = "interrupted"]
    IN  /\ loop[l].pc = "interrupt"
        /\ Local => ok
        /\ loop' = [loop EXCEPT ![l].pc = "demote", ![l].mem = NoFile]
        /\ IF Local THEN UNCHANGED file ELSE Write(loop[l].place, m, ok)
        /\ hist' = Outcome(loop[l].sid, ok)
        /\ UNCHANGED <<reg, handles, degraded, conn, shot, boot, stop>>

(* DisconnectHandler::handle: the status first, then metadata.json, then    *)
(* the directory's name, then memory_path.                                  *)
LoopDemote(l, ok) ==
    /\ loop[l].pc = "demote"
    /\ UpdateStatus(loop[l].sid, "incomplete", ok)
    /\ loop' = IF Local THEN LoopGoto(l, "flag") ELSE LoopOver(l)
    /\ hist' = Outcome(loop[l].sid, ok)
    /\ UNCHANGED <<file, handles, degraded, conn, shot, boot, stop>>

LoopFlag(l, ok) ==
    LET p == loop[l].place
    IN  /\ loop[l].pc = "flag"
        /\ Edit(p, [file[p] EXCEPT !.status = "incomplete"], ok)
        /\ loop' = LoopGoto(l, "rename")
        /\ hist' = Works(loop[l].sid, p, ok)
        /\ UNCHANGED <<reg, handles, degraded, conn, shot, boot, stop>>

LoopRename(l, ok) ==
    LET p == loop[l].place
        moved == ~p[2] /\ CanRename(p, ok)
    IN  /\ loop[l].pc = "rename"
        /\ file' = IF moved THEN Rename(p) ELSE file
        /\ loop' = IF moved \/ p[2]
                   THEN [loop EXCEPT ![l].pc = "repath", ![l].place = Incomplete(p)]
                   ELSE LoopOver(l)
        /\ hist' = Works(loop[l].sid, p, moved \/ p[2])
        /\ UNCHANGED <<reg, handles, degraded, conn, shot, boot, stop>>

LoopRepath(l, ok) ==
    /\ loop[l].pc = "repath"
    /\ UpdateMemoryPath(loop[l].sid, loop[l].place, ok)
    /\ loop' = LoopOver(l)
    /\ hist' = Outcome(loop[l].sid, ok)
    /\ UNCHANGED <<file, handles, degraded, conn, shot, boot, stop>>

(* Remove the session's handle, whosever it is, and send the result to the  *)
(* Done that waits for it.                                                  *)
LoopEnd(l) ==
    LET s == loop[l].sid
    IN  /\ loop[l].pc = "end"
        /\ MapFree
        /\ loop' = [Fire(loop, handles[s]) EXCEPT ![l] = NoLoop]
        /\ handles' = [handles EXCEPT ![s] = None]
        /\ conn' = [c \in Conn |->
                      CASE conn[c].loop = l /\ conn[c].pc = "await" -> Idle
                        [] conn[c].loop = l /\ conn[c].pc \in {"send", "picture"} ->
                              [conn[c] EXCEPT !.loop = None]
                        [] OTHER -> conn[c]]
        /\ UNCHANGED <<reg, file, degraded, shot, boot, stop, hist>>

-----------------------------------------------------------------------------
(* Done takes the handle out of the map, reads the record, and only then    *)
(* sends; it asks for the closing image and answers when the loop has sent  *)
(* its result.  (The pushes it waits for are in PushChannel: without        *)
(* fairness a Done that is kept waiting is one that has yet to step.)       *)
Awaits(c) == IF conn[c].loop = None THEN Reply(c) ELSE Goto(c, "await")

Done(c, s) ==
    /\ Accepts(c, "done")
    /\ Issued(s)
    /\ MapFree
    /\ handles' = [handles EXCEPT ![s] = None]
    /\ conn' = [conn EXCEPT ![c] =
                  Message(IF handles[s] = None THEN "lookup" ELSE "send",
                          s, handles[s], None, FALSE)]
    /\ hist' = Arrives(s)
    /\ UNCHANGED <<reg, file, loop, degraded, shot, boot, stop>>

SendDone(c) ==
    /\ conn[c].pc = "send"
    /\ loop' = Fire(loop, conn[c].loop)
    /\ conn' = IF Local THEN Goto(c, "picture") ELSE Awaits(c)
    /\ UNCHANGED <<reg, file, handles, degraded, shot, boot, stop, hist>>

(* The closing image is fetched by a task of its own, which then edits the  *)
(* metadata.json of the directory it was given; an object it leaves alone.  *)
(* There is no such task without an address of The-Eyes, or when the image  *)
(* cannot be had.                                                           *)
TakesPicture(s, p) ==
    \/ UNCHANGED shot
    \/ /\ Local
       /\ \E k \in Shot :
             /\ shot[k].pc = "none"
             /\ shot' = [shot EXCEPT ![k] =
                            [NoShot EXCEPT !.pc = "read", !.sid = s, !.place = p]]

ClosingImage(c) ==
    LET s == conn[c].sid
    IN  /\ conn[c].pc = "picture"
        /\ IF HasRecord(s) THEN TakesPicture(s, MetaPlace(s)) ELSE UNCHANGED shot
        /\ conn' = Awaits(c)
        /\ UNCHANGED <<reg, file, loop, handles, degraded, boot, stop, hist>>

ShotRead(k) ==
    LET p == shot[k].place
    IN  /\ shot[k].pc = "read"
        /\ shot' = IF file[p] = NoFile THEN [shot EXCEPT ![k] = NoShot]
                   ELSE [shot EXCEPT ![k].pc = "write", ![k].mem = file[p]]
        /\ hist' = Works(shot[k].sid, p, TRUE)
        /\ UNCHANGED <<reg, file, loop, handles, degraded, conn, boot, stop>>

(* The copy is written back, whatever was written since it was read.        *)
Overtaken(k) == file[shot[k].place] \notin {NoFile, shot[k].mem}

ShotWrite(k) ==
    LET p == shot[k].place
    IN  /\ shot[k].pc = "write"
        /\ Write(p, shot[k].mem, TRUE)
        /\ shot' = [shot EXCEPT ![k] = NoShot]
        /\ hist' = IF Overtaken(k)
                   THEN [s \in Session |->
                           IF s \in {file[p].owner, shot[k].mem.owner}
                           THEN hist[s] \cup ({"stale"} \cap Tracked) ELSE hist[s]]
                   ELSE hist
        /\ UNCHANGED <<reg, loop, handles, degraded, conn, boot, stop>>

(* Without a handle Done finalises the session itself, whatever its status. *)
LookUp(c, ok) ==
    LET s == conn[c].sid
    IN  /\ conn[c].pc = "lookup"
        /\ conn' = IF ok /\ HasRecord(s)
                   THEN [conn EXCEPT ![c].pc = "finalise", ![c].place = MetaPlace(s)]
                   ELSE Reply(c)
        /\ UNCHANGED <<reg, file, loop, handles, degraded, shot, boot, stop, hist>>

(* The directory's metadata.json is changed twice; an object is fetched and *)
(* stored again, which is not one step.                                     *)
MarkComplete(c, ok) ==
    LET p == conn[c].place
    IN  /\ Local
        /\ conn[c].pc = "finalise"
        /\ Edit(p, [file[p] EXCEPT !.status = "complete"], ok)
        /\ conn' = Goto(c, "clear")
        /\ hist' = Works(conn[c].sid, p, ok)
        /\ UNCHANGED <<reg, loop, handles, degraded, shot, boot, stop>>

ClearInProgress(c, ok) ==
    LET p == conn[c].place
    IN  /\ conn[c].pc = "clear"
        /\ Edit(p, [file[p] EXCEPT !.prog = "none"], ok)
        /\ conn' = Goto(c, "forget")
        /\ hist' = Works(conn[c].sid, p, ok)
        /\ UNCHANGED <<reg, loop, handles, degraded, shot, boot, stop>>

FetchObject(c, ok) ==
    LET m == file[conn[c].place]
    IN  /\ ~Local
        /\ conn[c].pc = "finalise"
        /\ conn' = IF ok /\ m # NoFile THEN [conn EXCEPT ![c].pc = "store", ![c].mem = m]
                   ELSE Goto(c, "forget")
        /\ hist' = Outcome(conn[c].sid, ok)
        /\ UNCHANGED <<reg, file, loop, handles, degraded, shot, boot, stop>>

StoreComplete(c, ok) ==
    LET m == [conn[c].mem EXCEPT !.status = "complete", !.prog = "none"]
    IN  /\ conn[c].pc = "store"
        /\ Write(conn[c].place, m, ok)
        /\ conn' = [conn EXCEPT ![c].pc = "forget", ![c].mem = NoFile]
        /\ hist' = Outcome(conn[c].sid, ok)
        /\ UNCHANGED <<reg, loop, handles, degraded, shot, boot, stop>>

ForgetDegraded(c) ==
    LET s == conn[c].sid
    IN  /\ conn[c].pc = "forget"
        /\ conn' = [conn EXCEPT ![c].pc = "route", ![c].flag = s \in degraded]
        /\ degraded' = degraded \ {s}
        /\ UNCHANGED <<reg, file, loop, handles, shot, boot, stop, hist>>

RouteDirect(c, ok) ==
    /\ conn[c].pc = "route"
    /\ UpdateStatus(conn[c].sid, AfterCapture(conn[c].flag), ok)
    /\ TakesPicture(conn[c].sid, conn[c].place)
    /\ conn' = Reply(c)
    /\ hist' = Outcome(conn[c].sid, ok)
    /\ UNCHANGED <<file, loop, handles, degraded, boot, stop>>

(* ReasoningDegraded and CircuitReset: the map, then the status, whatever   *)
(* it is.                                                                   *)
ReasoningDegraded(c, s) ==
    /\ Accepts(c, "degraded")
    /\ Issued(s)
    /\ degraded' = degraded \cup {s}
    /\ conn' = [conn EXCEPT ![c] = Message("degrade", s, None, None, FALSE)]
    /\ hist' = Reports(s)
    /\ UNCHANGED <<reg, file, loop, handles, shot, boot, stop>>

CircuitReset(c, s) ==
    /\ Accepts(c, "degraded")
    /\ Issued(s)
    /\ degraded' = degraded \ {s}
    /\ conn' = [conn EXCEPT ![c] = Message("reset", s, None, None, FALSE)]
    /\ hist' = Reports(s)
    /\ UNCHANGED <<reg, file, loop, handles, shot, boot, stop>>

SetReasoningStatus(c, ok) ==
    /\ conn[c].pc \in {"degrade", "reset"}
    /\ UpdateStatus(conn[c].sid, IF conn[c].pc = "degrade" THEN "reasoning_degraded"
                                 ELSE "active", ok)
    /\ conn' = Reply(c)
    /\ hist' = Outcome(conn[c].sid, ok)
    /\ UNCHANGED <<file, loop, handles, degraded, shot, boot, stop>>

-----------------------------------------------------------------------------
(* DeleteSession: an active session needs force, and its handle is dropped. *)
(* Then the record, the stored objects and the directory go, in that order. *)
(* A record that cannot be read counts as gone, and with it its path.       *)
DeleteSession(c, s, force, ok) ==
    LET active == ok /\ reg[s].status = "active"
    IN  /\ Accepts(c, "delete")
        /\ Issued(s)
        /\ active => force
        /\ conn' = [conn EXCEPT ![c] =
                      Message(IF active THEN "unhandle" ELSE "wipe", s, None,
                              IF ok THEN reg[s].path ELSE None, force)]
        /\ hist' = Interrupts(s)
        /\ UNCHANGED <<reg, file, loop, handles, degraded, shot, boot, stop>>

DropHandle(c) ==
    LET s == conn[c].sid
    IN  /\ conn[c].pc = "unhandle"
        /\ MapFree
        /\ loop' = Fire(loop, handles[s])
        /\ handles' = [handles EXCEPT ![s] = None]
        /\ conn' = Goto(c, "wipe")
        /\ UNCHANGED <<reg, file, degraded, shot, boot, stop, hist>>

DeleteRecord(c, ok) ==
    LET s == conn[c].sid
    IN  /\ conn[c].pc = "wipe"
        /\ reg' = IF ok THEN [reg EXCEPT ![s] = NoRecord] ELSE reg
        /\ conn' = IF ok THEN Goto(c, "objects") ELSE Reply(c)
        /\ hist' = Outcome(s, ok)
        /\ UNCHANGED <<file, loop, handles, degraded, shot, boot, stop>>

(* delete_all on the session's key; what is under it in local mode is a     *)
(* proxy tree that never holds metadata.json.                               *)
DeleteAll(s, ok) ==
    file' = IF ok /\ ~Local THEN [file EXCEPT ![s] = NoFile] ELSE file

DeleteObjects(c, ok) ==
    /\ conn[c].pc = "objects"
    /\ DeleteAll(conn[c].sid, ok)
    /\ conn' = Goto(c, "purge")
    /\ hist' = Outcome(conn[c].sid, ok)
    /\ UNCHANGED <<reg, loop, handles, degraded, shot, boot, stop>>

(* purge_memory_dir: the directory and its "(incomplete)" sibling, each one *)
(* only if its metadata.json names this session.                            *)
Candidates(p) == IF p = None THEN {} ELSE {p, Incomplete(p)}

PurgeMemoryDir(s, p, ok) ==
    file' = IF Local /\ ok
            THEN [q \in Place |-> IF q \in Candidates(p) /\ file[q].owner = s
                                  THEN NoFile ELSE file[q]]
            ELSE file

PurgeDir(c, ok) ==
    LET s == conn[c].sid
    IN  /\ conn[c].pc = "purge"
        /\ PurgeMemoryDir(s, conn[c].place, ok)
        /\ conn' = Reply(c)
        /\ hist' = IF ok THEN Mark(s, {"purged"}) ELSE Outcome(s, ok)
        /\ UNCHANGED <<reg, loop, handles, degraded, shot, boot, stop>>

-----------------------------------------------------------------------------
(* SIGTERM: with the handle map locked, in_progress becomes "interrupted"   *)
(* in the metadata of every session in it, then the process exits.  Here    *)
(* too an object is fetched and stored again.                               *)
Signal ==
    /\ "signal" \in Faults
    /\ boot = Serving
    /\ ~stop.on
    /\ stop' = [NoSignal EXCEPT !.on = TRUE, !.todo = {s \in Session : handles[s] # None}]
    /\ UNCHANGED <<reg, file, loop, handles, degraded, conn, shot, boot, hist>>

FlagInterrupted(s, ok) ==
    LET p == MetaPlace(s)
        found == ok /\ HasRecord(s)
        fetched == found /\ ~Local /\ file[p] # NoFile
    IN  /\ stop.sid = None
        /\ s \in stop.todo
        /\ stop' = [stop EXCEPT !.todo = @ \ {s},
                                !.sid = IF fetched THEN s ELSE None,
                                !.mem = IF fetched THEN file[p] ELSE NoFile]
        /\ IF found /\ Local THEN Edit(p, [file[p] EXCEPT !.prog = "interrupted"], ok)
           ELSE UNCHANGED file
        /\ hist' = IF found THEN Works(s, p, ok) ELSE Outcome(s, ok)
        /\ UNCHANGED <<reg, loop, handles, degraded, conn, shot, boot>>

StoreInterrupted(ok) ==
    /\ stop.sid # None
    /\ Write(stop.sid, [stop.mem EXCEPT !.prog = "interrupted"], ok)
    /\ stop' = [stop EXCEPT !.sid = None, !.mem = NoFile]
    /\ hist' = Outcome(stop.sid, ok)
    /\ UNCHANGED <<reg, loop, handles, degraded, conn, shot, boot>>

(* What was in memory is gone; start-up begins with the sessions it finds   *)
(* listed as active.                                                        *)
Dies(r) ==
    /\ reg' = r
    /\ loop' = [l \in Loop |-> NoLoop]
    /\ handles' = [s \in Session |-> None]
    /\ degraded' = {}
    /\ conn' = [c \in Conn |-> Idle]
    /\ shot' = [k \in Shot |-> NoShot]
    /\ stop' = NoSignal
    /\ boot' = Boot("active", {s \in Session : r[s].status = "active"}, None, None)
    /\ hist' = [s \in Session |-> IF Quiet(s) /\ boot.sid # s THEN hist[s]
                                  ELSE hist[s] \cup ({"torn"} \cap Tracked)]
    /\ UNCHANGED file

Exit == stop.on /\ stop.todo = {} /\ stop.sid = None /\ Dies(reg)

Crash == "crash" \in Faults /\ Dies(reg)

(* The host goes down and Redis comes back with the snapshot it took while  *)
(* the sessions in lost were being captured.                                *)
HostCrash(lost) ==
    /\ "rollback" \in Faults
    /\ \A s \in lost : HasRecord(s)
    /\ Dies([s \in Session |->
               IF s \in lost THEN [status |-> "active", path |-> <<reg[s].path[1], FALSE>>]
               ELSE reg[s]])

-----------------------------------------------------------------------------
(* Start-up, before ma-core serves.  The sweep of the active sessions looks *)
(* for metadata.json in cloud storage only when there is a broker.          *)
SweepActive(s, ok, replayed) ==
    LET m == IF ok /\ Mode # "cloud" THEN file[MetaPlace(s)] ELSE NoFile
        replay == /\ Mode = "kafka"
                  /\ m.prog = "interrupted"
                  /\ m.status # "complete"
                  /\ replayed
        next == CASE m.status = "complete" \/ replay -> "restore"
                  [] Local -> "rename"
                  [] OTHER -> "demote"
    IN  /\ boot.pc = "active"
        /\ s \in boot.todo
        /\ replayed => replay
        /\ boot' = Boot(next, boot.todo \ {s}, s, reg[s].path)
        /\ file' = IF replay
                   THEN [file EXCEPT ![s].status = "pending_annotation", ![s].prog = "none"]
                   ELSE file
        /\ hist' = Works(s, MetaPlace(s), ok)
        /\ UNCHANGED <<reg, loop, handles, degraded, conn, shot, stop>>

SweepRename(ok) ==
    LET p == boot.place
        moved == ~p[2] /\ CanRename(p, ok)
    IN  /\ boot.pc = "rename"
        /\ file' = IF moved THEN Rename(p) ELSE file
        /\ boot' = IF moved \/ p[2]
                   THEN [boot EXCEPT !.pc = "repath", !.place = Incomplete(p)]
                   ELSE [boot EXCEPT !.pc = "demote"]
        /\ hist' = Works(boot.sid, p, moved \/ p[2])
        /\ UNCHANGED <<reg, loop, handles, degraded, conn, shot, stop>>

SweepRepath(ok) ==
    /\ boot.pc = "repath"
    /\ UpdateMemoryPath(boot.sid, boot.place, ok)
    /\ boot' = [boot EXCEPT !.pc = "demote"]
    /\ hist' = Outcome(boot.sid, ok)
    /\ UNCHANGED <<file, loop, handles, degraded, conn, shot, stop>>

SweepStatus(ok) ==
    /\ boot.pc \in {"demote", "restore"}
    /\ UpdateStatus(boot.sid, IF boot.pc = "demote" THEN "incomplete"
                              ELSE "pending_annotation", ok)
    /\ boot' = Boot("active", boot.todo, None, None)
    /\ hist' = Outcome(boot.sid, ok)
    /\ UNCHANGED <<file, loop, handles, degraded, conn, shot, stop>>

(* The reconcile sweep: reconcile_target for a session found degraded.      *)
StartReconcile ==
    /\ boot.pc = "active"
    /\ boot.todo = {}
    /\ boot' = Boot("reconcile", {s \in Session : reg[s].status = "reasoning_degraded"},
                    None, None)
    /\ UNCHANGED <<reg, file, loop, handles, degraded, conn, shot, stop, hist>>

Reconcile(s, ok) ==
    LET m == IF Mode = "cloud" THEN NoFile ELSE file[MetaPlace(s)]
    IN  /\ boot.pc = "reconcile"
        /\ s \in boot.todo
        /\ boot' = [boot EXCEPT !.todo = @ \ {s}]
        /\ UpdateStatus(s, IF m.status \in {"pending_annotation", "incomplete"}
                           THEN m.status ELSE "reasoning_degraded", ok)
        /\ hist' = Outcome(s, ok)
        /\ UNCHANGED <<file, loop, handles, degraded, conn, shot, stop>>

(* The retention sweep: some of the incomplete sessions are old enough.     *)
StartRetention(old) ==
    /\ boot.pc = "reconcile"
    /\ boot.todo = {}
    /\ old \subseteq {s \in Session : reg[s].status = "incomplete"}
    /\ boot' = Boot("retention", old, None, None)
    /\ UNCHANGED <<reg, file, loop, handles, degraded, conn, shot, stop, hist>>

RetireRecord(s, ok) ==
    /\ boot.pc = "retention"
    /\ s \in boot.todo
    /\ reg' = IF ok THEN [reg EXCEPT ![s] = NoRecord] ELSE reg
    /\ boot' = IF ok THEN Boot("objects", boot.todo \ {s}, s, reg[s].path)
               ELSE [boot EXCEPT !.todo = @ \ {s}]
    /\ hist' = Outcome(s, ok)
    /\ UNCHANGED <<file, loop, handles, degraded, conn, shot, stop>>

RetireObjects(ok) ==
    /\ boot.pc = "objects"
    /\ DeleteAll(boot.sid, ok)
    /\ boot' = [boot EXCEPT !.pc = "purge"]
    /\ hist' = Outcome(boot.sid, ok)
    /\ UNCHANGED <<reg, loop, handles, degraded, conn, shot, stop>>

RetireDir(ok) ==
    /\ boot.pc = "purge"
    /\ PurgeMemoryDir(boot.sid, boot.place, ok)
    /\ boot' = Boot("retention", boot.todo, None, None)
    /\ hist' = Outcome(boot.sid, ok)
    /\ UNCHANGED <<reg, loop, handles, degraded, conn, shot, stop>>

Serve ==
    /\ boot.pc = "retention"
    /\ boot.todo = {}
    /\ boot' = Serving
    /\ UNCHANGED <<reg, file, loop, handles, degraded, conn, shot, stop, hist>>

-----------------------------------------------------------------------------
Outcomes == IF "call" \in Faults THEN BOOLEAN ELSE {TRUE}

LoopNext(l) ==
    \/ LoopArm(l) \/ LoopDrain(l) \/ LoopEnd(l) \/ LoopStops(l, TRUE)
    \/ \E ok \in Outcomes :
          \/ LoopLoad(l, ok) \/ LoopReadMetadata(l, ok) \/ LoopConnect(l, ok)
          \/ LoopBegin(l, ok)
          \/ LoopComplete(l, ok) \/ LoopSettle(l, ok)
          \/ LoopInterrupt(l, ok) \/ LoopDemote(l, ok)
          \/ LoopFlag(l, ok) \/ LoopRename(l, ok) \/ LoopRepath(l, ok)

ConnNext(c) ==
    \/ SendDone(c) \/ ClosingImage(c) \/ ForgetDegraded(c) \/ DropHandle(c)
    \/ \E ok \in Outcomes :
          \/ \E uploaded \in Outcomes : InitialiseDir(c, ok, uploaded)
          \/ GiveUp(c, ok) \/ LookUp(c, ok) \/ RouteDirect(c, ok)
          \/ MarkComplete(c, ok) \/ ClearInProgress(c, ok)
          \/ FetchObject(c, ok) \/ StoreComplete(c, ok)
          \/ SetReasoningStatus(c, ok)
          \/ DeleteRecord(c, ok) \/ DeleteObjects(c, ok) \/ PurgeDir(c, ok)

BootNext ==
    \/ StartReconcile \/ Serve
    \/ \E old \in SUBSET Session : StartRetention(old)
    \/ \E ok \in Outcomes :
          \/ SweepRename(ok) \/ SweepRepath(ok) \/ SweepStatus(ok)
          \/ RetireObjects(ok) \/ RetireDir(ok)
          \/ \E s \in Session :
                \/ \E replayed \in BOOLEAN : SweepActive(s, ok, replayed)
                \/ Reconcile(s, ok) \/ RetireRecord(s, ok)

SignalNext ==
    \/ Exit
    \/ \E ok \in Outcomes :
          \/ StoreInterrupted(ok)
          \/ \E s \in Session : FlagInterrupted(s, ok)

Receive(c) ==
    \E s \in Session :
        \/ \E n \in Name : RegisterSession(c, s, n)
        \/ \E l \in Loop : StartWatch(c, s, l)
        \/ Done(c, s) \/ ReasoningDegraded(c, s) \/ CircuitReset(c, s)
        \/ \E force \in BOOLEAN, ok \in Outcomes : DeleteSession(c, s, force, ok)

Next ==
    \/ \E l \in Loop : LoopNext(l) \/ LoopStep(l) \/ LoopStops(l, FALSE)
    \/ \E c \in Conn : ConnNext(c) \/ Receive(c)
    \/ \E k \in Shot : ShotRead(k) \/ ShotWrite(k)
    \/ BootNext
    \/ Signal \/ SignalNext \/ Crash
    \/ \E lost \in SUBSET Session : HostCrash(lost)

Spec == Init /\ [][Next]_vars

-----------------------------------------------------------------------------
(* A loop that captures can be told to stop: its handle is in the map, a    *)
(* Done has taken it and is about to send, or the loop has been told.       *)
(* However StartWatch, Done, DeleteSession and the end of another loop on   *)
(* the same session interleave, no capture is left that nothing can end.    *)
NoOrphanLoop ==
    \A l \in Loop : loop[l].pc \in {"begin", "capture"} =>
        \/ loop[l].fired
        \/ handles[loop[l].sid] = l
        \/ \E c \in Conn : conn[c].pc = "send" /\ conn[c].loop = l

(* Deleting or retiring a session that has a record finds its directory:    *)
(* it is where memory_path says, or it is the "(incomplete)" sibling of it, *)
(* also when a rename was not followed by its update_memory_path.  Not so   *)
(* when two tasks write its metadata.json: a second loop of its own, or the *)
(* loop of a session whose record points to its directory, may put it back  *)
(* under the old name, and so may a closing-image task (mark_incomplete,    *)
(* update_memory_path, set_closing_image, purge).                           *)
PurgeFindsDirectory ==
    Local => \A p \in Place : LET s == file[p].owner IN
        s # None /\ HasRecord(s) /\ hist[s] \cap {"crowded", "shared", "stale"} = {}
        => p \in Candidates(reg[s].path)

(* A recording disappears only by deleting or retiring the session it       *)
(* belongs to, also when other sessions were registered under its name and  *)
(* their records point to its directory, as long as no loop outlives what   *)
(* it knows of its directory, and no closing-image task what it has read    *)
(* (purge_memory_dir, mark_incomplete, set_closing_image).                  *)
OnlyOwnerPurges ==
    [][\A s \in Session :
          /\ \E p \in Place : file[p].owner = s
          /\ \A p \in Place : file'[p].owner # s
          => \/ \E t \in Session : hist'[t] \cap {"raced", "shared", "stale"} # {}
             \/ \E c \in Conn : conn[c].pc \in {"objects", "purge"} /\ conn[c].sid = s
             \/ boot.pc \in {"objects", "purge"} /\ boot.sid = s]_vars

(* When start-up is over no session looks as if it was being captured,      *)
(* unless a call of the sweep failed.                                       *)
StartupSettles ==
    [][boot # Serving /\ boot' = Serving =>
          \A s \in Session : reg[s].status = "active" => "failed" \in hist[s]]_vars

Undisturbed(s) == hist[s] \cap {"raced", "mixed", "stale", "failed", "torn"} = {}

(* A session offered for annotation is a finished recording of its own: its *)
(* metadata.json is where the record says, carries its id and says that it  *)
(* is complete (Done, the watch loop, set_closing_image, the sweeps,        *)
(* mark_incomplete).  Excused is a session whose messages overlapped, for   *)
(* which a call failed, which ma-core died at work on, whose directory      *)
(* another one's task was in, or whose metadata.json a closing-image task   *)
(* has put back as it was, which may happen after an ordinary Done.         *)
FinishedAgrees ==
    \A s \in Session :
        /\ reg[s].status \in {"pending_annotation", "pending_human_annotation"}
        /\ Undisturbed(s)
        => LET m == file[MetaPlace(s)] IN
              m.owner = s /\ m.status \in {"complete", "pending_annotation"} /\ m.prog = "none"

-----------------------------------------------------------------------------
(* DeleteSession: "drop the watch-loop handles first so it cannot rewrite   *)
(* files after the purge".                                                  *)
NoRewriteAfterPurge ==
    \A p \in Place : file[p].owner # None => "purged" \notin hist[file[p].owner]
=============================================================================
