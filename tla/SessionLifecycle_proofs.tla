---------------------- MODULE SessionLifecycle_proofs ----------------------
(***************************************************************************)
(* Proofs about SessionLifecycle for any sessions, connections and loops,  *)
(* in every storage mode and with every fault.                             *)
(***************************************************************************)
EXTENDS SessionLifecycle, TLAPS

(* The types, but for the closing-image tasks, which few steps touch.       *)
CoreTypes ==
    /\ reg \in [Session -> Records]
    /\ file \in [Place -> Meta \cup {NoFile}]
    /\ loop \in [Loop -> Loops]
    /\ handles \in [Session -> Loop \cup {None}]
    /\ degraded \subseteq Session
    /\ conn \in [Conn -> Messages]
    /\ boot \in [pc : BootPCs, todo : SUBSET Session, sid : Session \cup {None},
                 place : Path \cup {None}]
    /\ stop \in [on : BOOLEAN, todo : SUBSET Session, sid : Session \cup {None},
                 mem : Meta \cup {NoFile}]
    /\ hist \in [Session -> SUBSET Marks]

(* A closing-image task has a directory to work on, and the metadata it has *)
(* read when it is about to write.                                          *)
ShotOK(v) ==
    /\ v \in Shots
    /\ v.pc # "none" => Local /\ v.sid \in Session /\ v.place \in Place
    /\ v.pc = "write" => v.mem \in Meta
ShotShape == shot \in [Shot -> Shots] /\ \A k \in Shot : ShotOK(shot[k])

(* What a loop knows at each point: where metadata.json is, once it has     *)
(* read the record, and the metadata, while it will write it again.         *)
LoopOK(v) ==
    /\ v \in Loops
    /\ v.pc # "none" => v.sid \in Session
    /\ v.pc \notin {"none", "load", "end"} => v.place \in Place
    /\ v.pc \in {"connect", "arm", "begin", "capture", "drain", "complete",
                 "interrupt"} => v.mem \in Meta
    /\ v.pc \in {"flag", "rename", "repath"} => Local

(* The same for a message that is being handled.                            *)
ConnOK(m) ==
    /\ m \in Messages
    /\ m.pc # "idle" => m.sid \in Session
    /\ m.pc \in {"init", "finalise", "clear", "store", "forget", "route"} =>
          m.place \in Place
    /\ m.pc = "store" => m.mem \in Meta

(* Nothing else runs before ma-core serves, so the sessions the first sweep *)
(* has yet to visit keep their records.                                     *)
BootShape ==
    /\ boot # Serving => /\ \A c \in Conn : conn[c].pc = "idle"
                         /\ \A l \in Loop : loop[l].pc = "none"
                         /\ ~stop.on
    /\ boot.pc \in {"active", "rename", "repath", "demote", "restore"} =>
          \A s \in boot.todo : HasRecord(s)
    /\ boot.pc \in {"rename", "repath", "demote", "restore", "objects", "purge"} =>
          boot.sid \in Session
    /\ boot.pc \in {"rename", "repath"} => Local /\ boot.place \in Path

StopShape ==
    /\ ~stop.on => stop.todo = {} /\ stop.sid = None
    /\ stop.sid # None => ~Local /\ stop.mem \in Meta

(* The inductive invariant.                                                 *)
Shape ==
    /\ CoreTypes
    /\ \A l \in Loop : LoopOK(loop[l])
    /\ \A c \in Conn : ConnOK(conn[c])
    /\ BootShape
    /\ StopShape

(* The variables most steps touch, typed.                                   *)
RegOK == reg \in [Session -> Records]
FileOK == file \in [Place -> Meta \cup {NoFile}]
HistOK == hist \in [Session -> SUBSET Marks]

(* metadata.json lies under a path or under a session key.                  *)
LEMMA Places == (Local => Place = Path) /\ (~Local => Place = Session)
  BY DEF Place

(* The "(incomplete)" name of a directory is a name.                        *)
LEMMA Siblings == ASSUME NEW p \in Path PROVE Incomplete(p) \in Path
  BY DEF Path, Incomplete

(* What the code sets in metadata.json leaves it a metadata record.         *)
LEMMA MetaEdits ==
  ASSUME NEW m \in Meta
  PROVE  /\ [m EXCEPT !.prog = "capturing"] \in Meta
         /\ [m EXCEPT !.prog = "interrupted"] \in Meta
         /\ [m EXCEPT !.prog = "none"] \in Meta
         /\ [m EXCEPT !.status = "complete"] \in Meta
         /\ [m EXCEPT !.status = "incomplete"] \in Meta
         /\ [m EXCEPT !.status = "complete", !.prog = "none"] \in Meta
         /\ [m EXCEPT !.status = "pending_annotation", !.prog = "none"] \in Meta
         /\ [m EXCEPT !.status = "incomplete", !.prog = "interrupted"] \in Meta
  BY DEF Meta

(* A write of metadata.json keeps the files typed.                          *)
LEMMA WriteTyped ==
  ASSUME CoreTypes, NEW p \in Place, NEW m \in Meta, NEW ok, Write(p, m, ok)
  PROVE  file' \in [Place -> Meta \cup {NoFile}]
  BY DEF CoreTypes, Write

(* update_status neither creates nor removes a record.                      *)
LEMMA UpdateStatusTyped ==
  ASSUME CoreTypes, NEW s \in Session, NEW new \in Status, NEW ok, UpdateStatus(s, new, ok)
  PROVE  reg' \in [Session -> Records] /\ \A t \in Session : HasRecord(t)' <=> HasRecord(t)
  BY DEF CoreTypes, UpdateStatus, HasRecord, Records, NoRecord, Status

(* update_memory_path neither creates nor removes a record.                 *)
LEMMA UpdatePathTyped ==
  ASSUME CoreTypes, NEW s \in Session, NEW p \in Path, NEW ok, UpdateMemoryPath(s, p, ok)
  PROVE  reg' \in [Session -> Records] /\ \A t \in Session : HasRecord(t)' <=> HasRecord(t)
  BY DEF CoreTypes, UpdateMemoryPath, HasRecord, Records, NoRecord, Status

(* A session with a record has a place for its metadata.                    *)
LEMMA MetaPlaceTyped ==
  ASSUME CoreTypes, NEW s \in Session, HasRecord(s)
  PROVE  MetaPlace(s) \in Place /\ reg[s].path \in Path
  BY Places DEF CoreTypes, MetaPlace, HasRecord, Records, NoRecord

(* A fired handle leaves its loop where it is.                              *)
LEMMA FireTyped ==
  ASSUME NEW lp \in [Loop -> Loops], \A x \in Loop : LoopOK(lp[x]), NEW k
  PROVE  /\ Fire(lp, k) \in [Loop -> Loops]
         /\ \A x \in Loop : LoopOK(Fire(lp, k)[x])
         /\ \A x \in Loop : Fire(lp, k)[x].pc = lp[x].pc /\ Fire(lp, k)[x].sid = lp[x].sid
  BY DEF Fire, LoopOK, Loops

(* Two marks more.                                                          *)
LEMMA MixesTyped ==
  ASSUME NEW h \in [Session -> SUBSET Marks], NEW s, NEW t
  PROVE  Mixes(h, s, t) \in [Session -> SUBSET Marks]
<1>1. {"mixed"} \cap Tracked \subseteq Marks
  BY DEF Marks
<1>. DEFINE g == [h EXCEPT ![s] = @ \cup ({"mixed"} \cap Tracked)]
<1>2. g \in [Session -> SUBSET Marks]
  BY <1>1
<1>3. Mixes(h, s, t) = [g EXCEPT ![t] = @ \cup ({"mixed"} \cap Tracked)]
  BY DEF Mixes
<1>. HIDE DEF g
<1> QED BY <1>1, <1>2, <1>3

(* They are added to those that are there.                                  *)
LEMMA MixesGrow ==
  ASSUME NEW h \in [Session -> SUBSET Marks], NEW s, NEW t
  PROVE  \A x \in Session : /\ h[x] \subseteq Mixes(h, s, t)[x]
                            /\ Mixes(h, s, t)[x] \subseteq h[x] \cup {"mixed"}
<1>. DEFINE g == [h EXCEPT ![s] = @ \cup ({"mixed"} \cap Tracked)]
<1>1. \A x \in Session : g[x] = h[x] \/ g[x] = h[x] \cup ({"mixed"} \cap Tracked)
  OBVIOUS
<1>2. g \in [Session -> SUBSET (Marks \cup {"mixed"})]
  OBVIOUS
<1>3. Mixes(h, s, t) = [g EXCEPT ![t] = @ \cup ({"mixed"} \cap Tracked)]
  BY DEF Mixes
<1>. HIDE DEF g
<1>4. \A x \in Session : \/ Mixes(h, s, t)[x] = g[x]
                          \/ Mixes(h, s, t)[x] = g[x] \cup ({"mixed"} \cap Tracked)
  BY <1>2, <1>3
<1> QED BY <1>1, <1>4

(* The history stays a set of marks.                                        *)
LEMMA HistTyped ==
  ASSUME CoreTypes, NEW s \in Session, NEW ms, NEW ok
  PROVE  /\ Mark(s, ms) \in [Session -> SUBSET Marks]
         /\ Outcome(s, ok) \in [Session -> SUBSET Marks]
         /\ \A p : Works(s, p, ok) \in [Session -> SUBSET Marks]
         /\ Arrives(s) \in [Session -> SUBSET Marks]
         /\ Interrupts(s) \in [Session -> SUBSET Marks]
         /\ Starts(s) \in [Session -> SUBSET Marks]
         /\ Reports(s) \in [Session -> SUBSET Marks]
<1>1. \A M : Mark(s, M) \in [Session -> SUBSET Marks]
  BY TrackedAssumption DEF CoreTypes, Mark
<1>2. Arrives(s) \in [Session -> SUBSET Marks]
  BY <1>1 DEF Arrives, CoreTypes
<1>3. Outcome(s, ok) \in [Session -> SUBSET Marks]
  BY <1>1 DEF Outcome, CoreTypes
<1>4. \A p : Works(s, p, ok) \in [Session -> SUBSET Marks]
  BY <1>3, MixesTyped DEF Works
<1> QED BY <1>1, <1>2, <1>3, <1>4 DEF Interrupts, Starts, Reports, CoreTypes

(* An idle connection is a message.                                         *)
LEMMA IdleOK == ConnOK(Idle)
<1>1. "idle" \in ConnPCs /\ FALSE \in BOOLEAN
  BY DEF ConnPCs
<1>2. Idle \in Messages
  BY <1>1 DEF Idle, Message, Messages
<1>3. Idle.pc = "idle"
  BY DEF Idle, Message
<1> QED BY <1>2, <1>3 DEF ConnOK

(* While ma-core serves the sweeps have nothing to do.                      *)
LEMMA BootStays ==
  ASSUME boot = Serving, UNCHANGED boot
  PROVE  BootShape'
  BY DEF BootShape, Serving, Boot

-----------------------------------------------------------------------------
(* A step of loop l.                                                        *)
LEMMA LoopFacts ==
  ASSUME Shape, NEW l \in Loop, Running(l)
  PROVE  /\ CoreTypes /\ boot = Serving
         /\ loop[l] \in Loops /\ LoopOK(loop[l]) /\ loop[l].sid \in Session
         /\ LoopOK(NoLoop)
         /\ LoopOK([NoLoop EXCEPT !.pc = "end", !.sid = loop[l].sid])
<1>1. CoreTypes /\ boot = Serving
  BY DEF Shape, BootShape, Running
<1>2. loop[l] \in Loops /\ LoopOK(loop[l]) /\ loop[l].sid \in Session
  BY DEF Shape, LoopOK, Running
<1>3. LoopOK(NoLoop)
  BY DEF LoopOK, NoLoop, Loops, LoopPCs
<1>4. LoopOK([NoLoop EXCEPT !.pc = "end", !.sid = loop[l].sid])
  BY <1>2 DEF LoopOK, NoLoop, Loops, LoopPCs
<1> QED BY <1>1, <1>2, <1>3, <1>4

(* A step that changes loop l and keeps the rest typed.                     *)
LEMMA LoopStepKeeps ==
  ASSUME Shape, NEW l \in Loop, Running(l), NEW v, LoopOK(v),
         loop' = [loop EXCEPT ![l] = v],
         RegOK', FileOK', HistOK', conn' \in [Conn -> Messages],
         \A c \in Conn : ConnOK(conn'[c]),
         handles' \in [Session -> Loop \cup {None}], degraded' \subseteq Session,
         UNCHANGED <<boot, stop>>
  PROVE  Shape'
<1>1. loop' \in [Loop -> Loops] /\ \A x \in Loop : LoopOK(loop'[x])
  BY DEF Shape, CoreTypes, LoopOK
<1>2. BootShape'
  BY LoopFacts, BootStays
<1> QED BY <1>1, <1>2 DEF Shape, CoreTypes, StopShape, RegOK, FileOK, HistOK

(* The connections and the maps stay as they are.                           *)
LEMMA LoopStepKeeps2 ==
  ASSUME Shape, NEW l \in Loop, Running(l), NEW v, LoopOK(v),
         loop' = [loop EXCEPT ![l] = v],
         RegOK', FileOK', HistOK', UNCHANGED <<handles, degraded, conn, boot, stop>>
  PROVE  Shape'
<1>1. /\ conn' \in [Conn -> Messages] /\ \A c \in Conn : ConnOK(conn'[c])
      /\ handles' \in [Session -> Loop \cup {None}] /\ degraded' \subseteq Session
  BY DEF Shape, CoreTypes
<1> QED BY <1>1, LoopStepKeeps

(* The StartWatch of a loop that fails gives up.                            *)
LEMMA LoopFailsTyped ==
  ASSUME Shape, NEW l \in Loop, LoopFails(l)
  PROVE  conn' \in [Conn -> Messages] /\ \A c \in Conn : ConnOK(conn'[c])
<1>1. \A c \in Conn : \/ conn'[c] = conn[c]
                      \/ /\ conn[c].pc = "ready"
                         /\ conn'[c] = [conn[c] EXCEPT !.pc = "unstart", !.loop = None]
  BY DEF LoopFails
<1>2. ASSUME NEW c \in Conn, conn[c].pc = "ready"
      PROVE  ConnOK([conn[c] EXCEPT !.pc = "unstart", !.loop = None])
  BY <1>2 DEF Shape, ConnOK, Messages, ConnPCs
<1>3. \A c \in Conn : ConnOK(conn'[c])
  BY <1>1, <1>2 DEF Shape
<1> QED BY <1>3 DEF LoopFails, ConnOK

(* LoopLoad keeps the invariant.                                            *)
LEMMA LoopLoadOK ==
  ASSUME Shape, NEW l \in Loop, NEW ok \in BOOLEAN, LoopLoad(l, ok)
  PROVE  Shape'
<1>1. Running(l)
  BY DEF LoopLoad, Running
<1>2. RegOK' /\ FileOK' /\ HistOK' /\ handles' \in [Session -> Loop \cup {None}]
      /\ degraded' \subseteq Session /\ UNCHANGED <<boot, stop>>
  BY <1>1, LoopFacts, HistTyped DEF LoopLoad, CoreTypes, RegOK, FileOK, HistOK
<1>3. CASE ok /\ HasRecord(loop[l].sid)
  <2>. DEFINE v == [loop[l] EXCEPT !.pc = "read", !.place = MetaPlace(loop[l].sid)]
  <2>1. LoopOK(v)
    BY <1>1, <1>3, LoopFacts, MetaPlaceTyped DEF LoopOK, Loops, LoopPCs
  <2>2. loop' = [loop EXCEPT ![l] = v] /\ UNCHANGED conn
    BY <1>3 DEF LoopLoad, Shape, CoreTypes
  <2> QED BY <1>1, <1>2, <2>1, <2>2, LoopStepKeeps DEF Shape, CoreTypes
<1>4. CASE ~(ok /\ HasRecord(loop[l].sid))
  <2>1. LoopFails(l) /\ loop' = [loop EXCEPT ![l] = NoLoop]
    BY <1>4 DEF LoopLoad, LoopFails
  <2> QED BY <1>1, <1>2, <2>1, LoopFacts, LoopFailsTyped, LoopStepKeeps
<1> QED BY <1>3, <1>4

(* LoopReadMetadata keeps the invariant.                                    *)
LEMMA LoopReadMetadataOK ==
  ASSUME Shape, NEW l \in Loop, NEW ok \in BOOLEAN, LoopReadMetadata(l, ok)
  PROVE  Shape'
<1>. DEFINE m == file[loop[l].place]
<1>1. Running(l) /\ loop[l].place \in Place
  BY LoopFacts DEF LoopReadMetadata, Running, LoopOK
<1>2. RegOK' /\ FileOK' /\ handles' \in [Session -> Loop \cup {None}]
      /\ degraded' \subseteq Session /\ UNCHANGED <<boot, stop>>
  BY <1>1, LoopFacts DEF LoopReadMetadata, CoreTypes, RegOK, FileOK
<1>0. HistOK'
  <2>1. m # NoFile => m.owner \in Session
    BY <1>1, LoopFacts DEF CoreTypes, Meta
  <2>2. \/ hist' = hist \/ hist' = Outcome(loop[l].sid, ok)
        \/ m # NoFile /\ hist' = Mixes(Mark(m.owner, {"shared"}), loop[l].sid, m.owner)
    BY DEF LoopReadMetadata
  <2>3. ASSUME NEW s \in Session
        PROVE  Mixes(Mark(s, {"shared"}), loop[l].sid, s) \in [Session -> SUBSET Marks]
    BY <1>1, LoopFacts, HistTyped, MixesTyped
  <2>4. Outcome(loop[l].sid, ok) \in [Session -> SUBSET Marks]
    BY <1>1, LoopFacts, HistTyped
  <2>5. hist \in [Session -> SUBSET Marks]
    BY <1>1, LoopFacts DEF CoreTypes
  <2>. HIDE DEF m
  <2> QED BY <2>1, <2>2, <2>3, <2>4, <2>5 DEF HistOK
<1>3. CASE ok /\ m # NoFile
  <2>. DEFINE v == [loop[l] EXCEPT !.pc = "connect", !.mem = m]
  <2>1. m \in Meta
    BY <1>1, <1>3, LoopFacts DEF CoreTypes
  <2>2. LoopOK(v)
    BY <1>1, <2>1, LoopFacts DEF LoopOK, Loops, LoopPCs
  <2>3. loop' = [loop EXCEPT ![l] = v] /\ UNCHANGED conn
    BY <1>3 DEF LoopReadMetadata, Shape, CoreTypes
  <2> QED BY <1>0, <1>1, <1>2, <2>2, <2>3, LoopStepKeeps DEF Shape, CoreTypes
<1>4. CASE ~(ok /\ m # NoFile)
  <2>1. LoopFails(l) /\ loop' = [loop EXCEPT ![l] = NoLoop]
    BY <1>4 DEF LoopReadMetadata, LoopFails
  <2> QED BY <1>0, <1>1, <1>2, <2>1, LoopFacts, LoopFailsTyped, LoopStepKeeps
<1> QED BY <1>3, <1>4

(* LoopConnect keeps the invariant.                                         *)
LEMMA LoopConnectOK ==
  ASSUME Shape, NEW l \in Loop, NEW ok \in BOOLEAN, LoopConnect(l, ok)
  PROVE  Shape'
<1>1. Running(l)
  BY DEF LoopConnect, Running
<1>2. RegOK' /\ FileOK' /\ HistOK' /\ handles' \in [Session -> Loop \cup {None}]
      /\ degraded' \subseteq Session /\ UNCHANGED <<boot, stop>>
  BY <1>1, LoopFacts, HistTyped DEF LoopConnect, CoreTypes, RegOK, FileOK, HistOK
<1>3. CASE ok
  <2>1. LoopOK([loop[l] EXCEPT !.pc = "arm"])
    BY <1>1, LoopFacts DEF LoopOK, Loops, LoopPCs, LoopConnect
  <2>2. loop' = [loop EXCEPT ![l] = [loop[l] EXCEPT !.pc = "arm"]]
    BY <1>3 DEF LoopConnect, LoopGoto, Shape, CoreTypes
  <2>3. \A c \in Conn : conn'[c] = conn[c] \/ conn'[c] = Idle
    BY <1>3 DEF LoopConnect
  <2>4. conn' \in [Conn -> Messages] /\ \A c \in Conn : ConnOK(conn'[c])
    BY <1>3, <2>3, IdleOK DEF LoopConnect, Shape, ConnOK
  <2> QED BY <1>1, <1>2, <2>1, <2>2, <2>4, LoopStepKeeps
<1>4. CASE ~ok
  <2>1. LoopFails(l) /\ loop' = [loop EXCEPT ![l] = NoLoop]
    BY <1>4 DEF LoopConnect, LoopFails
  <2> QED BY <1>1, <1>2, <2>1, LoopFacts, LoopFailsTyped, LoopStepKeeps
<1> QED BY <1>3, <1>4

(* LoopArm keeps the invariant.                                             *)
LEMMA LoopArmOK ==
  ASSUME Shape, NEW l \in Loop, LoopArm(l)
  PROVE  Shape'
<1>. DEFINE s == loop[l].sid
            lp == LoopGoto(l, "begin")
<1>1. Running(l)
  BY DEF LoopArm, Running
<1>2. LoopOK([loop[l] EXCEPT !.pc = "begin"])
  BY <1>1, LoopFacts DEF LoopOK, Loops, LoopPCs, LoopArm
<1>3. lp \in [Loop -> Loops] /\ \A x \in Loop : LoopOK(lp[x])
  BY <1>2 DEF LoopGoto, Shape, CoreTypes, LoopOK
<1>4. loop' \in [Loop -> Loops] /\ \A x \in Loop : LoopOK(loop'[x])
  BY <1>3, FireTyped DEF LoopArm
<1>5. handles' \in [Session -> Loop \cup {None}]
  BY <1>1, LoopFacts DEF LoopArm, CoreTypes
<1>6. BootShape'
  BY <1>1, LoopFacts, BootStays DEF LoopArm
<1> QED BY <1>4, <1>5, <1>6 DEF Shape, CoreTypes, StopShape, LoopArm

(* LoopBegin keeps the invariant.                                           *)
LEMMA LoopBeginOK ==
  ASSUME Shape, NEW l \in Loop, NEW ok \in BOOLEAN, LoopBegin(l, ok)
  PROVE  Shape'
<1>. DEFINE m == [loop[l].mem EXCEPT !.prog = "capturing"]
            v == [loop[l] EXCEPT !.pc = "capture", !.mem = m]
<1>1. Running(l) /\ loop[l].place \in Place /\ m \in Meta
  BY LoopFacts, MetaEdits DEF LoopBegin, Running, LoopOK
<1>2. LoopOK(v)
  BY <1>1, LoopFacts DEF LoopOK, Loops, LoopPCs, LoopBegin
<1>3. loop' = [loop EXCEPT ![l] = v] /\ RegOK' /\ FileOK' /\ HistOK'
  BY <1>1, LoopFacts, WriteTyped, HistTyped DEF LoopBegin, CoreTypes, RegOK, FileOK, HistOK
<1> QED BY <1>1, <1>2, <1>3, LoopStepKeeps2 DEF LoopBegin

(* LoopStep keeps the invariant.                                            *)
LEMMA LoopStepOK ==
  ASSUME Shape, NEW l \in Loop, LoopStep(l)
  PROVE  Shape'
<1>1. Running(l) /\ loop[l].place \in Place /\ loop[l].mem \in Meta
  BY LoopFacts DEF LoopStep, Capturing, Running, LoopOK
<1>2. FileOK'
  BY <1>1, LoopFacts, WriteTyped DEF LoopStep, FileOK
<1>3. BootShape'
  BY <1>1, LoopFacts, BootStays DEF LoopStep
<1>4. HistOK'
  BY <1>1, LoopFacts, HistTyped DEF LoopStep, HistOK
<1> QED BY <1>2, <1>3, <1>4 DEF Shape, CoreTypes, StopShape, FileOK, HistOK, LoopStep

(* LoopStops keeps the invariant.                                           *)
LEMMA LoopStopsOK ==
  ASSUME Shape, NEW l \in Loop, NEW clean \in BOOLEAN, LoopStops(l, clean)
  PROVE  Shape'
<1>. DEFINE v == [loop[l] EXCEPT !.pc = "drain", !.clean = clean, !.fired = FALSE]
<1>1. Running(l)
  BY DEF LoopStops, Capturing, Running
<1>2. LoopOK(v)
  BY <1>1, LoopFacts DEF LoopOK, Loops, LoopPCs, LoopStops, Capturing
<1>3. loop' = [loop EXCEPT ![l] = v] /\ RegOK' /\ FileOK' /\ HistOK'
  BY <1>1, LoopFacts DEF LoopStops, CoreTypes, RegOK, FileOK, HistOK
<1> QED BY <1>1, <1>2, <1>3, LoopStepKeeps2 DEF LoopStops

(* LoopDrain keeps the invariant.                                           *)
LEMMA LoopDrainOK ==
  ASSUME Shape, NEW l \in Loop, LoopDrain(l)
  PROVE  Shape'
<1>. DEFINE pc == IF loop[l].clean THEN "complete" ELSE "interrupt"
            deg == loop[l].clean /\ loop[l].sid \in degraded
            v == [loop[l] EXCEPT !.pc = pc, !.clean = FALSE, !.deg = deg]
<1>1. Running(l)
  BY DEF LoopDrain, Running
<1>2. LoopOK(v)
  <2>1. deg \in BOOLEAN /\ pc \in {"complete", "interrupt"}
    BY <1>1, LoopFacts DEF Loops
  <2>2. loop[l].place \in Place /\ loop[l].mem \in Meta /\ loop[l].sid \in Session
    BY <1>1, LoopFacts DEF LoopOK, LoopDrain
  <2>. HIDE DEF pc, deg
  <2> QED BY <1>1, <2>1, <2>2, LoopFacts DEF LoopOK, Loops, LoopPCs
<1>3. loop' = [loop EXCEPT ![l] = v] /\ RegOK' /\ FileOK' /\ HistOK'
  BY <1>1, LoopFacts DEF LoopDrain, CoreTypes, RegOK, FileOK, HistOK
<1>4. /\ degraded' \subseteq Session /\ handles' \in [Session -> Loop \cup {None}]
      /\ conn' \in [Conn -> Messages] /\ \A c \in Conn : ConnOK(conn'[c])
      /\ UNCHANGED <<boot, stop>>
  BY DEF LoopDrain, Shape, CoreTypes
<1> QED BY <1>1, <1>2, <1>3, <1>4, LoopStepKeeps

(* LoopComplete keeps the invariant.                                        *)
LEMMA LoopCompleteOK ==
  ASSUME Shape, NEW l \in Loop, NEW ok \in BOOLEAN, LoopComplete(l, ok)
  PROVE  Shape'
<1>. DEFINE m == [loop[l].mem EXCEPT !.status = "complete", !.prog = "none"]
            v == [loop[l] EXCEPT !.pc = "settle", !.mem = NoFile]
<1>1. Running(l) /\ loop[l].place \in Place /\ m \in Meta
  BY LoopFacts, MetaEdits DEF LoopComplete, Running, LoopOK
<1>2. LoopOK(v)
  BY <1>1, LoopFacts DEF LoopOK, Loops, LoopPCs
<1>3. loop' = [loop EXCEPT ![l] = v] /\ RegOK' /\ FileOK' /\ HistOK'
  BY <1>1, LoopFacts, WriteTyped, HistTyped DEF LoopComplete, CoreTypes, RegOK, FileOK, HistOK
<1> QED BY <1>1, <1>2, <1>3, LoopStepKeeps2 DEF LoopComplete

(* LoopSettle keeps the invariant.                                          *)
LEMMA LoopSettleOK ==
  ASSUME Shape, NEW l \in Loop, NEW ok \in BOOLEAN, LoopSettle(l, ok)
  PROVE  Shape'
<1>1. Running(l) /\ AfterCapture(loop[l].deg) \in Status
  BY DEF LoopSettle, Running, AfterCapture, Status
<1>2. RegOK' /\ FileOK' /\ HistOK'
  BY <1>1, LoopFacts, UpdateStatusTyped, HistTyped DEF LoopSettle, CoreTypes, RegOK, FileOK, HistOK
<1> QED BY <1>1, <1>2, LoopFacts, LoopStepKeeps2 DEF LoopSettle, LoopOver

(* LoopInterrupt keeps the invariant.                                       *)
LEMMA LoopInterruptOK ==
  ASSUME Shape, NEW l \in Loop, NEW ok \in BOOLEAN, LoopInterrupt(l, ok)
  PROVE  Shape'
<1>. DEFINE v == [loop[l] EXCEPT !.pc = "demote", !.mem = NoFile]
<1>1. Running(l) /\ loop[l].place \in Place /\ loop[l].mem \in Meta
  BY LoopFacts DEF LoopInterrupt, Running, LoopOK
<1>2. LoopOK(v)
  BY <1>1, LoopFacts DEF LoopOK, Loops, LoopPCs
<1>3. FileOK'
  BY <1>1, LoopFacts, MetaEdits, WriteTyped DEF LoopInterrupt, CoreTypes, FileOK
<1>4. loop' = [loop EXCEPT ![l] = v] /\ RegOK' /\ HistOK'
  BY <1>1, LoopFacts, HistTyped DEF LoopInterrupt, CoreTypes, RegOK, HistOK
<1> QED BY <1>1, <1>2, <1>3, <1>4, LoopStepKeeps2 DEF LoopInterrupt

(* LoopDemote keeps the invariant.                                          *)
LEMMA LoopDemoteOK ==
  ASSUME Shape, NEW l \in Loop, NEW ok \in BOOLEAN, LoopDemote(l, ok)
  PROVE  Shape'
<1>1. Running(l) /\ "incomplete" \in Status
  BY DEF LoopDemote, Running, Status
<1>2. RegOK' /\ FileOK' /\ HistOK'
  BY <1>1, LoopFacts, UpdateStatusTyped, HistTyped DEF LoopDemote, CoreTypes, RegOK, FileOK, HistOK
<1>3. CASE Local
  <2>1. LoopOK([loop[l] EXCEPT !.pc = "flag"])
    BY <1>1, <1>3, LoopFacts DEF LoopOK, Loops, LoopPCs, LoopDemote
  <2>2. loop' = [loop EXCEPT ![l] = [loop[l] EXCEPT !.pc = "flag"]]
    BY <1>3 DEF LoopDemote, LoopGoto, Shape, CoreTypes
  <2> QED BY <1>1, <1>2, <2>1, <2>2, LoopStepKeeps2 DEF LoopDemote
<1>4. CASE ~Local
  BY <1>1, <1>2, <1>4, LoopFacts, LoopStepKeeps2 DEF LoopDemote, LoopOver
<1> QED BY <1>3, <1>4

(* LoopFlag keeps the invariant.                                            *)
LEMMA LoopFlagOK ==
  ASSUME Shape, NEW l \in Loop, NEW ok \in BOOLEAN, LoopFlag(l, ok)
  PROVE  Shape'
<1>1. Running(l) /\ loop[l].place \in Place
  BY LoopFacts DEF LoopFlag, Running, LoopOK
<1>2. LoopOK([loop[l] EXCEPT !.pc = "rename"])
  BY <1>1, LoopFacts DEF LoopOK, Loops, LoopPCs, LoopFlag
<1>3. FileOK'
  BY <1>1, LoopFacts, MetaEdits DEF LoopFlag, Edit, CoreTypes, FileOK
<1>4. loop' = [loop EXCEPT ![l] = [loop[l] EXCEPT !.pc = "rename"]] /\ RegOK' /\ HistOK'
  BY <1>1, LoopFacts, HistTyped DEF LoopFlag, LoopGoto, CoreTypes, RegOK, HistOK
<1> QED BY <1>1, <1>2, <1>3, <1>4, LoopStepKeeps2 DEF LoopFlag

(* LoopRename keeps the invariant.                                          *)
LEMMA LoopRenameOK ==
  ASSUME Shape, NEW l \in Loop, NEW ok \in BOOLEAN, LoopRename(l, ok)
  PROVE  Shape'
<1>. DEFINE p == loop[l].place
            v == [loop[l] EXCEPT !.pc = "repath", !.place = Incomplete(p)]
<1>1. Running(l) /\ Local /\ p \in Place /\ p \in Path /\ Incomplete(p) \in Place
  BY LoopFacts, Places, Siblings DEF LoopRename, Running, LoopOK
<1>2. LoopOK(v)
  BY <1>1, LoopFacts DEF LoopOK, Loops, LoopPCs
<1>3. FileOK'
  BY <1>1, LoopFacts DEF LoopRename, Rename, CoreTypes, FileOK
<1>4. RegOK' /\ HistOK'
  BY <1>1, LoopFacts, HistTyped DEF LoopRename, CoreTypes, RegOK, HistOK
<1>5. loop' = [loop EXCEPT ![l] = v] \/ loop' = LoopOver(l)
  BY DEF LoopRename, Shape, CoreTypes
<1> QED BY <1>1, <1>2, <1>3, <1>4, <1>5, LoopFacts, LoopStepKeeps2 DEF LoopRename, LoopOver

(* LoopRepath keeps the invariant.                                          *)
LEMMA LoopRepathOK ==
  ASSUME Shape, NEW l \in Loop, NEW ok \in BOOLEAN, LoopRepath(l, ok)
  PROVE  Shape'
<1>1. Running(l) /\ loop[l].place \in Path
  BY LoopFacts, Places DEF LoopRepath, Running, LoopOK
<1>2. RegOK' /\ FileOK' /\ HistOK'
  BY <1>1, LoopFacts, UpdatePathTyped, HistTyped DEF LoopRepath, CoreTypes, RegOK, FileOK, HistOK
<1> QED BY <1>1, <1>2, LoopFacts, LoopStepKeeps2 DEF LoopRepath, LoopOver

(* LoopEnd keeps the invariant.                                             *)
LEMMA LoopEndOK ==
  ASSUME Shape, NEW l \in Loop, LoopEnd(l)
  PROVE  Shape'
<1>1. Running(l)
  BY DEF LoopEnd, Running
<1>2. loop' \in [Loop -> Loops] /\ \A x \in Loop : LoopOK(loop'[x])
  <2>. DEFINE lp == Fire(loop, handles[loop[l].sid])
  <2>1. lp \in [Loop -> Loops] /\ \A x \in Loop : LoopOK(lp[x])
    BY FireTyped DEF Shape, CoreTypes
  <2>. HIDE DEF lp
  <2>2. loop' = [lp EXCEPT ![l] = NoLoop]
    BY DEF LoopEnd, lp
  <2> QED BY <1>1, <2>1, <2>2, LoopFacts DEF LoopOK
<1>3. handles' \in [Session -> Loop \cup {None}]
  BY <1>1, LoopFacts DEF LoopEnd, CoreTypes
<1>4. ASSUME NEW c \in Conn PROVE ConnOK(conn'[c])
  <2>1. ConnOK(conn[c])
    BY DEF Shape
  <2>2. ConnOK([conn[c] EXCEPT !.loop = None])
    BY <2>1 DEF ConnOK, Messages
  <2>3. conn'[c] = Idle \/ conn'[c] = conn[c] \/ conn'[c] = [conn[c] EXCEPT !.loop = None]
    BY DEF LoopEnd
  <2> QED BY <2>1, <2>2, <2>3, IdleOK
<1>5. conn' \in [Conn -> Messages]
  BY <1>4 DEF LoopEnd, ConnOK
<1>6. BootShape'
  BY <1>1, LoopFacts, BootStays DEF LoopEnd
<1> QED BY <1>2, <1>3, <1>4, <1>5, <1>6 DEF Shape, CoreTypes, StopShape, LoopEnd

-----------------------------------------------------------------------------
(* A step of the message on connection c.                                   *)
LEMMA ConnFacts ==
  ASSUME Shape, NEW c \in Conn, conn[c].pc # "idle"
  PROVE  /\ CoreTypes /\ boot = Serving
         /\ conn[c] \in Messages /\ ConnOK(conn[c]) /\ conn[c].sid \in Session
<1>1. CoreTypes /\ boot = Serving
  BY DEF Shape, BootShape
<1>2. conn[c] \in Messages /\ ConnOK(conn[c]) /\ conn[c].sid \in Session
  BY DEF Shape, ConnOK
<1> QED BY <1>1, <1>2

(* A message that goes on to its next step.                                 *)
LEMMA GotoOK ==
  ASSUME Shape, NEW c \in Conn, conn[c].pc # "idle", NEW pc \in ConnPCs,
         pc \in {"init", "finalise", "clear", "forget", "route"} => conn[c].place \in Place,
         pc # "store"
  PROVE  /\ Goto(c, pc) = [conn EXCEPT ![c] = [conn[c] EXCEPT !.pc = pc]]
         /\ ConnOK([conn[c] EXCEPT !.pc = pc])
<1>1. Goto(c, pc) = [conn EXCEPT ![c] = [conn[c] EXCEPT !.pc = pc]]
  BY DEF Goto, Shape, CoreTypes
<1>2. ConnOK([conn[c] EXCEPT !.pc = pc])
  BY ConnFacts DEF ConnOK, Messages
<1> QED BY <1>1, <1>2

(* A message that has just come.                                            *)
LEMMA MessageOK ==
  ASSUME NEW pc \in ConnPCs \ {"finalise", "clear", "store", "forget", "route"},
         NEW s \in Session,
         NEW l \in Loop \cup {None}, NEW p \in Path \cup Place \cup {None},
         NEW flag \in BOOLEAN, pc = "init" => p \in Place
  PROVE  ConnOK(Message(pc, s, l, p, flag))
<1>1. Message(pc, s, l, p, flag) \in Messages
  BY DEF Message, Messages
<1>2. /\ Message(pc, s, l, p, flag).pc = pc
      /\ Message(pc, s, l, p, flag).sid = s
      /\ Message(pc, s, l, p, flag).place = p
  BY DEF Message
<1> QED BY <1>1, <1>2 DEF ConnOK

(* A step that changes the message on c and keeps the rest typed.           *)
LEMMA ConnStepKeeps ==
  ASSUME Shape, NEW c \in Conn, boot = Serving, NEW m, ConnOK(m),
         conn' = [conn EXCEPT ![c] = m],
         RegOK', FileOK', HistOK', loop' \in [Loop -> Loops],
         \A l \in Loop : LoopOK(loop'[l]),
         handles' \in [Session -> Loop \cup {None}], degraded' \subseteq Session,
         UNCHANGED <<boot, stop>>
  PROVE  Shape'
<1>1. conn' \in [Conn -> Messages] /\ \A x \in Conn : ConnOK(conn'[x])
  BY DEF Shape, CoreTypes, ConnOK
<1>2. BootShape'
  BY BootStays
<1> QED BY <1>1, <1>2 DEF Shape, CoreTypes, StopShape, RegOK, FileOK, HistOK

(* The loops and the maps stay as they are.                                 *)
LEMMA ConnStepKeeps2 ==
  ASSUME Shape, NEW c \in Conn, boot = Serving, NEW m, ConnOK(m),
         conn' = [conn EXCEPT ![c] = m],
         RegOK', FileOK', HistOK', UNCHANGED <<loop, handles, degraded, boot, stop>>
  PROVE  Shape'
<1>1. /\ loop' \in [Loop -> Loops] /\ \A l \in Loop : LoopOK(loop'[l])
      /\ handles' \in [Session -> Loop \cup {None}] /\ degraded' \subseteq Session
  BY DEF Shape, CoreTypes
<1> QED BY <1>1, ConnStepKeeps

(* RegisterSession keeps the invariant.                                     *)
LEMMA RegisterSessionOK ==
  ASSUME Shape, NEW c \in Conn, NEW s \in Session, NEW n \in Name,
         RegisterSession(c, s, n)
  PROVE  Shape'
<1>. DEFINE p == IF Local THEN <<n, FALSE>> ELSE s
<1>1. <<n, FALSE>> \in Path /\ p \in Place /\ "init" \in ConnPCs
  BY Places DEF Path, ConnPCs
<1>2. RegOK'
  BY <1>1 DEF RegisterSession, Shape, CoreTypes, RegOK, Records, Status
<1>3. FileOK' /\ HistOK'
  BY DEF RegisterSession, Shape, CoreTypes, FileOK, HistOK, Marks
<1>4. ConnOK(Message("init", s, None, p, FALSE))
  BY <1>1, MessageOK
<1>5. conn' = [conn EXCEPT ![c] = Message("init", s, None, p, FALSE)] /\ boot = Serving
      /\ UNCHANGED <<loop, handles, degraded, boot, stop>>
  BY DEF RegisterSession, Accepts
<1> QED BY <1>2, <1>3, <1>4, <1>5, ConnStepKeeps2

(* InitialiseDir keeps the invariant.                                       *)
LEMMA InitialiseDirOK ==
  ASSUME Shape, NEW c \in Conn, NEW ok \in BOOLEAN, NEW uploaded \in BOOLEAN,
         InitialiseDir(c, ok, uploaded)
  PROVE  Shape'
<1>1. conn[c].pc # "idle" /\ conn[c].place \in Place /\ "rollback" \in ConnPCs
  BY DEF InitialiseDir, Shape, ConnOK, ConnPCs
<1>2. FileOK'
  BY <1>1, ConnFacts DEF InitialiseDir, CoreTypes, FileOK, Meta
<1>3. RegOK' /\ HistOK'
  BY <1>1, ConnFacts, HistTyped DEF InitialiseDir, CoreTypes, RegOK, HistOK
<1>4. conn' = Reply(c) \/ conn' = Goto(c, "rollback")
  BY DEF InitialiseDir
<1> QED BY <1>1, <1>2, <1>3, <1>4, ConnFacts, GotoOK, IdleOK, ConnStepKeeps2
        DEF InitialiseDir, Reply

(* GiveUp keeps the invariant.                                              *)
LEMMA GiveUpOK ==
  ASSUME Shape, NEW c \in Conn, NEW ok \in BOOLEAN, GiveUp(c, ok)
  PROVE  Shape'
<1>1. conn[c].pc # "idle" /\ "incomplete" \in Status
  BY DEF GiveUp, Status
<1>2. RegOK' /\ FileOK' /\ HistOK'
  BY <1>1, ConnFacts, UpdateStatusTyped, HistTyped DEF GiveUp, CoreTypes, RegOK, FileOK, HistOK
<1> QED BY <1>1, <1>2, ConnFacts, IdleOK, ConnStepKeeps2 DEF GiveUp, Reply

(* StartWatch keeps the invariant.                                          *)
LEMMA StartWatchOK ==
  ASSUME Shape, NEW c \in Conn, NEW s \in Session, NEW l \in Loop, StartWatch(c, s, l)
  PROVE  Shape'
<1>. DEFINE v == [NoLoop EXCEPT !.pc = "load", !.sid = s]
<1>1. LoopOK(v)
  BY DEF LoopOK, NoLoop, Loops, LoopPCs
<1>2. loop' \in [Loop -> Loops] /\ \A x \in Loop : LoopOK(loop'[x])
  BY <1>1 DEF StartWatch, Shape, CoreTypes, LoopOK
<1>3. "ready" \in ConnPCs
  BY DEF ConnPCs
<1>4. ConnOK(Message("ready", s, l, None, FALSE))
  BY <1>3, MessageOK
<1>5. RegOK' /\ FileOK' /\ HistOK'
  BY HistTyped DEF StartWatch, Shape, CoreTypes, RegOK, FileOK, HistOK
<1>6. handles' \in [Session -> Loop \cup {None}] /\ degraded' \subseteq Session
  BY DEF StartWatch, Shape, CoreTypes
<1> QED BY <1>2, <1>4, <1>5, <1>6, ConnStepKeeps DEF StartWatch, Accepts

(* Done keeps the invariant.                                                *)
LEMMA DoneOK ==
  ASSUME Shape, NEW c \in Conn, NEW s \in Session, Done(c, s)
  PROVE  Shape'
<1>. DEFINE pc == IF handles[s] = None THEN "lookup" ELSE "send"
<1>1. pc \in ConnPCs \ {"finalise", "clear", "store", "init", "forget", "route"}
      /\ handles[s] \in Loop \cup {None}
  BY DEF ConnPCs, Shape, CoreTypes
<1>2. ConnOK(Message(pc, s, handles[s], None, FALSE))
  BY <1>1, MessageOK
<1>3. RegOK' /\ FileOK' /\ HistOK'
  BY HistTyped DEF Done, Shape, CoreTypes, RegOK, FileOK, HistOK
<1>4. /\ loop' \in [Loop -> Loops] /\ \A l \in Loop : LoopOK(loop'[l])
      /\ handles' \in [Session -> Loop \cup {None}] /\ degraded' \subseteq Session
  BY DEF Done, Shape, CoreTypes
<1> QED BY <1>2, <1>3, <1>4, ConnStepKeeps DEF Done, Accepts

(* SendDone keeps the invariant.                                            *)
LEMMA SendDoneOK ==
  ASSUME Shape, NEW c \in Conn, SendDone(c)
  PROVE  Shape'
<1>1. conn[c].pc # "idle" /\ "await" \in ConnPCs /\ "picture" \in ConnPCs
  BY DEF SendDone, ConnPCs
<1>2. loop' \in [Loop -> Loops] /\ \A l \in Loop : LoopOK(loop'[l])
  BY FireTyped DEF SendDone, Shape, CoreTypes
<1>3. /\ RegOK' /\ FileOK' /\ HistOK'
      /\ handles' \in [Session -> Loop \cup {None}] /\ degraded' \subseteq Session
  BY DEF SendDone, Shape, CoreTypes, RegOK, FileOK, HistOK
<1>4. conn' = Reply(c) \/ conn' = Goto(c, "await") \/ conn' = Goto(c, "picture")
  BY DEF SendDone, Awaits
<1>5. \E m : ConnOK(m) /\ conn' = [conn EXCEPT ![c] = m]
  <2>1. CASE conn' = Reply(c)
    BY <2>1, IdleOK DEF Reply
  <2>2. ASSUME NEW pc \in ConnPCs, pc \in {"await", "picture"}, conn' = Goto(c, pc)
        PROVE  \E m : ConnOK(m) /\ conn' = [conn EXCEPT ![c] = m]
    BY <1>1, <2>2, GotoOK
  <2> QED BY <1>1, <1>4, <2>1, <2>2
<1> QED BY <1>1, <1>2, <1>3, <1>5, ConnFacts, ConnStepKeeps DEF SendDone

(* ClosingImage keeps the invariant.                                        *)
LEMMA ClosingImageOK ==
  ASSUME Shape, NEW c \in Conn, ClosingImage(c)
  PROVE  Shape'
<1>1. conn[c].pc # "idle" /\ "await" \in ConnPCs
  BY DEF ClosingImage, ConnPCs
<1>2. RegOK' /\ FileOK' /\ HistOK'
  BY DEF ClosingImage, Shape, CoreTypes, RegOK, FileOK, HistOK
<1>3. conn' = Reply(c) \/ conn' = Goto(c, "await")
  BY DEF ClosingImage, Awaits
<1>4. CASE conn' = Reply(c)
  BY <1>1, <1>2, <1>4, ConnFacts, IdleOK, ConnStepKeeps2 DEF ClosingImage, Reply
<1>5. CASE conn' = Goto(c, "await")
  <2>1. PICK m : ConnOK(m) /\ conn' = [conn EXCEPT ![c] = m]
    BY <1>1, <1>5, GotoOK
  <2> QED BY <1>1, <1>2, <2>1, ConnFacts, ConnStepKeeps2 DEF ClosingImage
<1> QED BY <1>3, <1>4, <1>5

(* LookUp keeps the invariant.                                              *)
LEMMA LookUpOK ==
  ASSUME Shape, NEW c \in Conn, NEW ok \in BOOLEAN, LookUp(c, ok)
  PROVE  Shape'
<1>. DEFINE m == [conn[c] EXCEPT !.pc = "finalise", !.place = MetaPlace(conn[c].sid)]
<1>1. conn[c].pc # "idle"
  BY DEF LookUp
<1>2. RegOK' /\ FileOK' /\ HistOK'
  BY DEF LookUp, Shape, CoreTypes, RegOK, FileOK, HistOK
<1>3. CASE HasRecord(conn[c].sid)
  <2>1. ConnOK(m)
    BY <1>1, <1>3, ConnFacts, MetaPlaceTyped DEF ConnOK, Messages, ConnPCs
  <2>2. conn' = [conn EXCEPT ![c] = m] \/ conn' = Reply(c)
    BY DEF LookUp, Shape, CoreTypes
  <2> QED BY <1>1, <1>2, <2>1, <2>2, ConnFacts, IdleOK, ConnStepKeeps2 DEF LookUp, Reply
<1>4. CASE ~HasRecord(conn[c].sid)
  BY <1>1, <1>2, <1>4, ConnFacts, IdleOK, ConnStepKeeps2 DEF LookUp, Reply
<1> QED BY <1>3, <1>4

(* MarkComplete keeps the invariant.                                        *)
LEMMA MarkCompleteOK ==
  ASSUME Shape, NEW c \in Conn, NEW ok \in BOOLEAN, MarkComplete(c, ok)
  PROVE  Shape'
<1>1. conn[c].pc # "idle" /\ conn[c].place \in Place /\ "clear" \in ConnPCs
  BY DEF MarkComplete, Shape, ConnOK, ConnPCs
<1>2. FileOK'
  BY <1>1, ConnFacts, MetaEdits DEF MarkComplete, Edit, CoreTypes, FileOK
<1>3. RegOK' /\ HistOK'
  BY <1>1, ConnFacts, HistTyped DEF MarkComplete, CoreTypes, RegOK, HistOK
<1> QED BY <1>1, <1>2, <1>3, ConnFacts, GotoOK, ConnStepKeeps2 DEF MarkComplete

(* ClearInProgress keeps the invariant.                                     *)
LEMMA ClearInProgressOK ==
  ASSUME Shape, NEW c \in Conn, NEW ok \in BOOLEAN, ClearInProgress(c, ok)
  PROVE  Shape'
<1>1. conn[c].pc # "idle" /\ conn[c].place \in Place /\ "forget" \in ConnPCs
  BY DEF ClearInProgress, Shape, ConnOK, ConnPCs
<1>2. FileOK'
  BY <1>1, ConnFacts, MetaEdits DEF ClearInProgress, Edit, CoreTypes, FileOK
<1>3. RegOK' /\ HistOK'
  BY <1>1, ConnFacts, HistTyped DEF ClearInProgress, CoreTypes, RegOK, HistOK
<1> QED BY <1>1, <1>2, <1>3, ConnFacts, GotoOK, ConnStepKeeps2 DEF ClearInProgress

(* FetchObject keeps the invariant.                                         *)
LEMMA FetchObjectOK ==
  ASSUME Shape, NEW c \in Conn, NEW ok \in BOOLEAN, FetchObject(c, ok)
  PROVE  Shape'
<1>. DEFINE m == file[conn[c].place]
            v == [conn[c] EXCEPT !.pc = "store", !.mem = m]
<1>1. conn[c].pc # "idle" /\ conn[c].place \in Place /\ "forget" \in ConnPCs
  BY DEF FetchObject, Shape, ConnOK, ConnPCs
<1>2. RegOK' /\ FileOK' /\ HistOK'
  BY <1>1, ConnFacts, HistTyped DEF FetchObject, CoreTypes, RegOK, FileOK, HistOK
<1>3. CASE ok /\ m # NoFile
  <2>1. m \in Meta
    BY <1>1, <1>3, ConnFacts DEF CoreTypes
  <2>2. ConnOK(v)
    BY <1>1, <2>1, ConnFacts DEF ConnOK, Messages, ConnPCs
  <2>3. conn' = [conn EXCEPT ![c] = v]
    BY <1>3 DEF FetchObject, Shape, CoreTypes
  <2> QED BY <1>1, <1>2, <2>2, <2>3, ConnFacts, ConnStepKeeps2 DEF FetchObject
<1>4. CASE ~(ok /\ m # NoFile)
  BY <1>1, <1>2, <1>4, ConnFacts, GotoOK, ConnStepKeeps2 DEF FetchObject
<1> QED BY <1>3, <1>4

(* StoreComplete keeps the invariant.                                       *)
LEMMA StoreCompleteOK ==
  ASSUME Shape, NEW c \in Conn, NEW ok \in BOOLEAN, StoreComplete(c, ok)
  PROVE  Shape'
<1>. DEFINE v == [conn[c] EXCEPT !.pc = "forget", !.mem = NoFile]
<1>1. conn[c].pc # "idle" /\ conn[c].place \in Place /\ conn[c].mem \in Meta
  BY DEF StoreComplete, Shape, ConnOK
<1>2. FileOK'
  BY <1>1, ConnFacts, MetaEdits, WriteTyped DEF StoreComplete, FileOK
<1>3. RegOK' /\ HistOK'
  BY <1>1, ConnFacts, HistTyped DEF StoreComplete, CoreTypes, RegOK, HistOK
<1>4. ConnOK(v) 
  BY <1>1, ConnFacts DEF ConnOK, Messages, ConnPCs
<1>5. conn' = [conn EXCEPT ![c] = v]
  BY DEF StoreComplete, Shape, CoreTypes
<1> QED BY <1>1, <1>2, <1>3, <1>4, <1>5, ConnFacts, ConnStepKeeps2 DEF StoreComplete

(* ForgetDegraded keeps the invariant.                                      *)
LEMMA ForgetDegradedOK ==
  ASSUME Shape, NEW c \in Conn, ForgetDegraded(c)
  PROVE  Shape'
<1>. DEFINE flag == conn[c].sid \in degraded
            v == [conn[c] EXCEPT !.pc = "route", !.flag = flag]
<1>1. conn[c].pc = "forget"
  BY DEF ForgetDegraded
<1>2. ConnOK(v)
  <2>1. flag \in BOOLEAN
    OBVIOUS
  <2>. HIDE DEF flag
  <2> QED BY <1>1, <2>1, ConnFacts DEF ConnOK, Messages, ConnPCs
<1>3. conn' = [conn EXCEPT ![c] = v]
  BY DEF ForgetDegraded, Shape, CoreTypes
<1>4. /\ RegOK' /\ FileOK' /\ HistOK'
      /\ loop' \in [Loop -> Loops] /\ \A l \in Loop : LoopOK(loop'[l])
      /\ handles' \in [Session -> Loop \cup {None}] /\ degraded' \subseteq Session
  BY DEF ForgetDegraded, Shape, CoreTypes, RegOK, FileOK, HistOK
<1> QED BY <1>1, <1>2, <1>3, <1>4, ConnFacts, ConnStepKeeps DEF ForgetDegraded

(* RouteDirect keeps the invariant.                                         *)
LEMMA RouteDirectOK ==
  ASSUME Shape, NEW c \in Conn, NEW ok \in BOOLEAN, RouteDirect(c, ok)
  PROVE  Shape'
<1>1. conn[c].pc # "idle" /\ AfterCapture(conn[c].flag) \in Status
  BY DEF RouteDirect, AfterCapture, Status
<1>2. RegOK'
  BY <1>1, ConnFacts, UpdateStatusTyped DEF RouteDirect, RegOK
<1>3. FileOK' /\ HistOK'
  BY <1>1, ConnFacts, HistTyped DEF RouteDirect, CoreTypes, FileOK, HistOK
<1> QED BY <1>1, <1>2, <1>3, ConnFacts, IdleOK, ConnStepKeeps2 DEF RouteDirect, Reply

(* SetReasoningStatus keeps the invariant.                                  *)
LEMMA SetReasoningStatusOK ==
  ASSUME Shape, NEW c \in Conn, NEW ok \in BOOLEAN, SetReasoningStatus(c, ok)
  PROVE  Shape'
<1>1. conn[c].pc # "idle" /\ "reasoning_degraded" \in Status /\ "active" \in Status
  BY DEF SetReasoningStatus, Status
<1>2. RegOK'
  BY <1>1, ConnFacts, UpdateStatusTyped DEF SetReasoningStatus, RegOK
<1>3. FileOK' /\ HistOK'
  BY <1>1, ConnFacts, HistTyped DEF SetReasoningStatus, CoreTypes, FileOK, HistOK
<1> QED BY <1>1, <1>2, <1>3, ConnFacts, IdleOK, ConnStepKeeps2 DEF SetReasoningStatus, Reply

(* ReasoningDegraded keeps the invariant.                                   *)
LEMMA ReasoningDegradedOK ==
  ASSUME Shape, NEW c \in Conn, NEW s \in Session, ReasoningDegraded(c, s)
  PROVE  Shape'
<1>1. "degrade" \in ConnPCs
  BY DEF ConnPCs
<1>2. ConnOK(Message("degrade", s, None, None, FALSE))
  BY <1>1, MessageOK
<1>3. RegOK' /\ FileOK' /\ HistOK'
  BY HistTyped DEF ReasoningDegraded, Shape, CoreTypes, RegOK, FileOK, HistOK
<1>4. /\ loop' \in [Loop -> Loops] /\ \A l \in Loop : LoopOK(loop'[l])
      /\ handles' \in [Session -> Loop \cup {None}] /\ degraded' \subseteq Session
  BY DEF ReasoningDegraded, Shape, CoreTypes
<1> QED BY <1>2, <1>3, <1>4, ConnStepKeeps DEF ReasoningDegraded, Accepts

(* CircuitReset keeps the invariant.                                        *)
LEMMA CircuitResetOK ==
  ASSUME Shape, NEW c \in Conn, NEW s \in Session, CircuitReset(c, s)
  PROVE  Shape'
<1>1. "reset" \in ConnPCs
  BY DEF ConnPCs
<1>2. ConnOK(Message("reset", s, None, None, FALSE))
  BY <1>1, MessageOK
<1>3. RegOK' /\ FileOK' /\ HistOK'
  BY HistTyped DEF CircuitReset, Shape, CoreTypes, RegOK, FileOK, HistOK
<1>4. /\ loop' \in [Loop -> Loops] /\ \A l \in Loop : LoopOK(loop'[l])
      /\ handles' \in [Session -> Loop \cup {None}] /\ degraded' \subseteq Session
  BY DEF CircuitReset, Shape, CoreTypes
<1> QED BY <1>2, <1>3, <1>4, ConnStepKeeps DEF CircuitReset, Accepts

(* DeleteSession keeps the invariant.                                       *)
LEMMA DeleteSessionOK ==
  ASSUME Shape, NEW c \in Conn, NEW s \in Session, NEW force \in BOOLEAN,
         NEW ok \in BOOLEAN, DeleteSession(c, s, force, ok)
  PROVE  Shape'
<1>. DEFINE pc == IF ok /\ reg[s].status = "active" THEN "unhandle" ELSE "wipe"
            p == IF ok THEN reg[s].path ELSE None
<1>1. pc \in ConnPCs \ {"finalise", "clear", "store", "init", "forget", "route"}
  BY DEF ConnPCs
<1>2. p \in Path \cup Place \cup {None}
  BY DEF Shape, CoreTypes, Records, NoRecord
<1>3. ConnOK(Message(pc, s, None, p, force))
  BY <1>1, <1>2, MessageOK
<1>4. RegOK' /\ FileOK' /\ HistOK'
  BY HistTyped DEF DeleteSession, Shape, CoreTypes, RegOK, FileOK, HistOK
<1>5. conn' = [conn EXCEPT ![c] = Message(pc, s, None, p, force)] /\ boot = Serving
      /\ UNCHANGED <<loop, handles, degraded, boot, stop>>
  BY DEF DeleteSession, Accepts
<1> QED BY <1>3, <1>4, <1>5, ConnStepKeeps2

(* DropHandle keeps the invariant.                                          *)
LEMMA DropHandleOK ==
  ASSUME Shape, NEW c \in Conn, DropHandle(c)
  PROVE  Shape'
<1>1. conn[c].pc # "idle" /\ "wipe" \in ConnPCs
  BY DEF DropHandle, ConnPCs
<1>2. loop' \in [Loop -> Loops] /\ \A l \in Loop : LoopOK(loop'[l])
  BY FireTyped DEF DropHandle, Shape, CoreTypes
<1>3. /\ RegOK' /\ FileOK' /\ HistOK'
      /\ handles' \in [Session -> Loop \cup {None}] /\ degraded' \subseteq Session
  BY DEF DropHandle, Shape, CoreTypes, RegOK, FileOK, HistOK
<1> QED BY <1>1, <1>2, <1>3, ConnFacts, GotoOK, ConnStepKeeps DEF DropHandle

(* DeleteRecord keeps the invariant.                                        *)
LEMMA DeleteRecordOK ==
  ASSUME Shape, NEW c \in Conn, NEW ok \in BOOLEAN, DeleteRecord(c, ok)
  PROVE  Shape'
<1>1. conn[c].pc # "idle" /\ "objects" \in ConnPCs
  BY DEF DeleteRecord, ConnPCs
<1>2. RegOK' /\ FileOK' /\ HistOK'
  BY <1>1, ConnFacts, HistTyped DEF DeleteRecord, CoreTypes, RegOK, FileOK, HistOK, Records
<1>3. conn' = Reply(c) \/ conn' = Goto(c, "objects")
  BY DEF DeleteRecord
<1> QED BY <1>1, <1>2, <1>3, ConnFacts, GotoOK, IdleOK, ConnStepKeeps2
        DEF DeleteRecord, Reply

(* Deleting objects and directories keeps the files typed.                  *)
LEMMA PurgeTyped ==
  ASSUME CoreTypes, NEW s \in Session, NEW p, NEW ok,
         DeleteAll(s, ok) \/ PurgeMemoryDir(s, p, ok)
  PROVE  FileOK'
  BY Places DEF DeleteAll, PurgeMemoryDir, CoreTypes, FileOK

(* DeleteObjects keeps the invariant.                                       *)
LEMMA DeleteObjectsOK ==
  ASSUME Shape, NEW c \in Conn, NEW ok \in BOOLEAN, DeleteObjects(c, ok)
  PROVE  Shape'
<1>1. conn[c].pc # "idle" /\ "purge" \in ConnPCs
  BY DEF DeleteObjects, ConnPCs
<1>2. FileOK'
  BY <1>1, ConnFacts, PurgeTyped DEF DeleteObjects
<1>3. RegOK' /\ HistOK'
  BY <1>1, ConnFacts, HistTyped DEF DeleteObjects, CoreTypes, RegOK, HistOK
<1> QED BY <1>1, <1>2, <1>3, ConnFacts, GotoOK, ConnStepKeeps2 DEF DeleteObjects

(* PurgeDir keeps the invariant.                                            *)
LEMMA PurgeDirOK ==
  ASSUME Shape, NEW c \in Conn, NEW ok \in BOOLEAN, PurgeDir(c, ok)
  PROVE  Shape'
<1>1. conn[c].pc # "idle"
  BY DEF PurgeDir
<1>2. FileOK'
  BY <1>1, ConnFacts, PurgeTyped DEF PurgeDir
<1>3. RegOK' /\ HistOK'
  BY <1>1, ConnFacts, HistTyped DEF PurgeDir, CoreTypes, RegOK, HistOK
<1> QED BY <1>1, <1>2, <1>3, ConnFacts, IdleOK, ConnStepKeeps2 DEF PurgeDir, Reply

-----------------------------------------------------------------------------
(* A step of start-up.                                                      *)
BootOK ==
    boot \in [pc : BootPCs, todo : SUBSET Session, sid : Session \cup {None},
              place : Path \cup {None}]

(* The fields of boot.                                                      *)
LEMMA BootFields ==
  ASSUME NEW pc \in BootPCs, NEW todo \in SUBSET Session, NEW s \in Session \cup {None},
         NEW p \in Path \cup {None}, boot' = Boot(pc, todo, s, p)
  PROVE  /\ BootOK'
         /\ boot'.pc = pc /\ boot'.todo = todo /\ boot'.sid = s /\ boot'.place = p
  BY DEF BootOK, Boot

(* What is known while a sweep runs.                                        *)
LEMMA BootFacts ==
  ASSUME Shape, boot.pc # "serving"
  PROVE  /\ CoreTypes /\ BootOK /\ boot # Serving
         /\ boot.pc \in BootPCs /\ boot.todo \subseteq Session
         /\ boot.sid \in Session \cup {None} /\ boot.place \in Path \cup {None}
  BY DEF Shape, CoreTypes, BootOK, Serving, Boot

(* A step of a sweep that keeps the rest typed.                             *)
LEMMA BootStepKeeps ==
  ASSUME Shape, boot.pc # "serving", BootOK', RegOK', FileOK', HistOK',
         UNCHANGED <<loop, handles, degraded, conn, stop>>,
         boot'.pc \in {"active", "rename", "repath", "demote", "restore"} =>
            \A s \in boot'.todo : HasRecord(s)',
         boot'.pc \in {"rename", "repath", "demote", "restore", "objects", "purge"} =>
            boot'.sid \in Session,
         boot'.pc \in {"rename", "repath"} => Local /\ boot'.place \in Path
  PROVE  Shape'
<1>1. /\ \A c \in Conn : conn[c].pc = "idle"
      /\ \A l \in Loop : loop[l].pc = "none"
      /\ ~stop.on
  BY BootFacts DEF Shape, BootShape
<1>2. BootShape'
  BY <1>1 DEF BootShape
<1> QED BY <1>2 DEF Shape, CoreTypes, StopShape, RegOK, FileOK, HistOK, BootOK

(* SweepActive keeps the invariant.                                         *)
LEMMA SweepActiveOK ==
  ASSUME Shape, NEW s \in Session, NEW ok \in BOOLEAN, NEW replayed \in BOOLEAN,
         SweepActive(s, ok, replayed)
  PROVE  Shape'
<1>. DEFINE m == IF ok /\ Mode # "cloud" THEN file[MetaPlace(s)] ELSE NoFile
            replay == /\ Mode = "kafka"
                      /\ m.prog = "interrupted"
                      /\ m.status # "complete"
                      /\ replayed
            next == CASE m.status = "complete" \/ replay -> "restore"
                      [] Local -> "rename"
                      [] OTHER -> "demote"
<1>1. boot.pc # "serving" /\ HasRecord(s) /\ \A t \in boot.todo : HasRecord(t)
  BY DEF SweepActive, Shape, BootShape
<1>2. MetaPlace(s) \in Place /\ reg[s].path \in Path
  BY <1>1, BootFacts, MetaPlaceTyped
<1>3. next \in {"restore", "rename", "demote"} /\ (next = "rename" => Local)
  OBVIOUS
<1>4. boot' = Boot(next, boot.todo \ {s}, s, reg[s].path)
  BY DEF SweepActive
<1>5. FileOK'
  <2>1. CASE replay
    <3>1. ~Local /\ s \in Place /\ MetaPlace(s) = s
      BY <2>1, Places DEF Local, MetaPlace
    <3>2. m.prog = "interrupted" /\ NoFile.prog = "none"
      BY <2>1 DEF NoFile
    <3>3. m = file[s] /\ file[s] # NoFile
      BY <3>1, <3>2
    <3>4. [file[s] EXCEPT !.status = "pending_annotation", !.prog = "none"] \in Meta
      BY <3>1, <3>3, <1>1, BootFacts, MetaEdits DEF CoreTypes
    <3>5. file' = [file EXCEPT ![s] =
                     [file[s] EXCEPT !.status = "pending_annotation", !.prog = "none"]]
      BY <2>1, <3>1, <1>1, BootFacts DEF SweepActive, CoreTypes
    <3> QED BY <3>1, <3>4, <3>5, <1>1, BootFacts DEF CoreTypes, FileOK
  <2>2. CASE ~replay
    BY <2>2, <1>1, BootFacts DEF SweepActive, CoreTypes, FileOK
  <2> QED BY <2>1, <2>2
<1>6. RegOK' /\ HistOK' /\ UNCHANGED <<loop, handles, degraded, conn, stop>>
  BY <1>1, BootFacts, HistTyped DEF SweepActive, CoreTypes, RegOK, HistOK
<1>. HIDE DEF next, replay, m
<1>7. /\ BootOK' /\ boot'.pc = next /\ boot'.sid = s /\ boot'.place = reg[s].path
      /\ boot'.todo = boot.todo \ {s}
  <2>1. next \in BootPCs /\ boot.todo \ {s} \in SUBSET Session
    BY <1>1, <1>3, BootFacts DEF BootPCs
  <2> QED BY <1>2, <1>4, <2>1, BootFields
<1>8. \A t \in boot'.todo : HasRecord(t)'
  BY <1>1, <1>7 DEF SweepActive, HasRecord
<1> QED BY <1>1, <1>2, <1>3, <1>5, <1>6, <1>7, <1>8, BootStepKeeps

(* SweepRename keeps the invariant.                                         *)
LEMMA SweepRenameOK ==
  ASSUME Shape, NEW ok \in BOOLEAN, SweepRename(ok)
  PROVE  Shape'
<1>. DEFINE p == boot.place
<1>1. /\ boot.pc # "serving" /\ boot.sid \in Session /\ Local
      /\ p \in Path /\ Incomplete(p) \in Path /\ Place = Path
      /\ \A t \in boot.todo : HasRecord(t)
  BY Siblings, Places DEF SweepRename, Shape, BootShape
<1>2. FileOK'
  BY <1>1, BootFacts DEF SweepRename, Rename, CoreTypes, FileOK
<1>3. RegOK' /\ HistOK'
  BY <1>1, BootFacts, HistTyped DEF SweepRename, CoreTypes, RegOK, HistOK
<1>4. \/ boot' = [boot EXCEPT !.pc = "repath", !.place = Incomplete(p)]
      \/ boot' = [boot EXCEPT !.pc = "demote"]
  BY DEF SweepRename
<1>5. BootOK' /\ boot'.sid = boot.sid /\ boot'.pc \in {"repath", "demote"}
      /\ boot'.place \in Path /\ boot'.todo = boot.todo
  BY <1>1, <1>4, BootFacts DEF BootOK, BootPCs
<1>6. \A t \in boot'.todo : HasRecord(t)'
  BY <1>1, <1>5 DEF SweepRename, HasRecord
<1> QED BY <1>1, <1>2, <1>3, <1>5, <1>6, BootStepKeeps DEF SweepRename

(* SweepRepath keeps the invariant.                                         *)
LEMMA SweepRepathOK ==
  ASSUME Shape, NEW ok \in BOOLEAN, SweepRepath(ok)
  PROVE  Shape'
<1>1. boot.pc # "serving" /\ boot.sid \in Session /\ boot.place \in Path
      /\ \A t \in boot.todo : HasRecord(t)
  BY DEF SweepRepath, Shape, BootShape
<1>2. RegOK' /\ \A t \in Session : HasRecord(t)' <=> HasRecord(t)
  BY <1>1, BootFacts, UpdatePathTyped DEF SweepRepath, RegOK
<1>3. FileOK' /\ HistOK'
  BY <1>1, BootFacts, HistTyped DEF SweepRepath, CoreTypes, FileOK, HistOK
<1>4. BootOK' /\ boot'.sid = boot.sid /\ boot'.pc = "demote" /\ boot'.todo = boot.todo
  BY <1>1, BootFacts DEF SweepRepath, BootOK, BootPCs
<1>5. \A t \in boot'.todo : HasRecord(t)'
  BY <1>1, <1>2, <1>4, BootFacts
<1> QED BY <1>1, <1>2, <1>3, <1>4, <1>5, BootStepKeeps DEF SweepRepath

(* What the sweeps set is a status.                                         *)
LEMMA StatusSteps ==
  ASSUME Shape, NEW s \in Session, NEW new \in Status, NEW ok, boot.pc # "serving",
         UpdateStatus(s, new, ok)
  PROVE  RegOK' /\ \A t \in Session : HasRecord(t)' <=> HasRecord(t)
  BY BootFacts, UpdateStatusTyped DEF RegOK

(* SweepStatus keeps the invariant.                                         *)
LEMMA SweepStatusOK ==
  ASSUME Shape, NEW ok \in BOOLEAN, SweepStatus(ok)
  PROVE  Shape'
<1>1. boot.pc # "serving" /\ boot.sid \in Session /\ \A t \in boot.todo : HasRecord(t)
  BY DEF SweepStatus, Shape, BootShape
<1>2. RegOK' /\ \A t \in Session : HasRecord(t)' <=> HasRecord(t)
  BY <1>1, StatusSteps DEF SweepStatus, Status
<1>3. FileOK' /\ HistOK'
  BY <1>1, BootFacts, HistTyped DEF SweepStatus, CoreTypes, FileOK, HistOK
<1>4. "active" \in BootPCs
  BY DEF BootPCs
<1>5. BootOK' /\ boot'.pc = "active" /\ boot'.todo = boot.todo
  BY <1>1, <1>4, BootFacts, BootFields DEF SweepStatus
<1>6. \A t \in boot'.todo : HasRecord(t)'
  BY <1>1, <1>2, <1>5, BootFacts
<1> QED BY <1>1, <1>2, <1>3, <1>5, <1>6, BootStepKeeps DEF SweepStatus

(* The steps that go from one sweep to the next.                            *)
LEMMA NextSweepOK ==
  ASSUME Shape, NEW pc \in {"reconcile", "retention", "serving"},
         NEW todo \in SUBSET Session, boot.pc # "serving",
         boot' = Boot(pc, todo, None, None),
         UNCHANGED <<reg, file, loop, handles, degraded, conn, stop, hist>>
  PROVE  Shape'
<1>1. pc \in BootPCs
  BY DEF BootPCs
<1>2. BootOK' /\ boot'.pc = pc
  BY <1>1, BootFields
<1>3. RegOK' /\ FileOK' /\ HistOK'
  BY BootFacts DEF CoreTypes, RegOK, FileOK, HistOK
<1> QED BY <1>2, <1>3, BootStepKeeps

(* Reconcile keeps the invariant.                                           *)
LEMMA ReconcileOK ==
  ASSUME Shape, NEW s \in Session, NEW ok \in BOOLEAN, Reconcile(s, ok)
  PROVE  Shape'
<1>1. boot.pc # "serving"
  BY DEF Reconcile
<1>2. RegOK'
  BY <1>1, StatusSteps DEF Reconcile, Status
<1>3. FileOK' /\ HistOK'
  BY <1>1, BootFacts, HistTyped DEF Reconcile, CoreTypes, FileOK, HistOK
<1>4. BootOK' /\ boot'.pc = "reconcile"
  BY <1>1, BootFacts DEF Reconcile, BootOK
<1> QED BY <1>1, <1>2, <1>3, <1>4, BootStepKeeps DEF Reconcile

(* RetireRecord keeps the invariant.                                        *)
LEMMA RetireRecordOK ==
  ASSUME Shape, NEW s \in Session, NEW ok \in BOOLEAN, RetireRecord(s, ok)
  PROVE  Shape'
<1>1. boot.pc # "serving" /\ reg[s].path \in Path \cup {None} /\ "objects" \in BootPCs
  BY DEF RetireRecord, Shape, CoreTypes, Records, NoRecord, BootPCs
<1>2. RegOK' /\ FileOK' /\ HistOK'
  BY <1>1, BootFacts, HistTyped DEF RetireRecord, CoreTypes, RegOK, FileOK, HistOK, Records
<1>3. CASE ok
  <2>1. boot' = Boot("objects", boot.todo \ {s}, s, reg[s].path)
        /\ boot.todo \ {s} \in SUBSET Session
    BY <1>1, <1>3, BootFacts DEF RetireRecord
  <2>2. BootOK' /\ boot'.pc = "objects" /\ boot'.sid = s
    BY <1>1, <2>1, BootFields
  <2> QED BY <1>1, <1>2, <2>2, BootStepKeeps DEF RetireRecord
<1>4. CASE ~ok
  <2>1. BootOK' /\ boot'.pc = "retention"
    BY <1>1, <1>4, BootFacts DEF RetireRecord, BootOK
  <2> QED BY <1>1, <1>2, <2>1, BootStepKeeps DEF RetireRecord
<1> QED BY <1>3, <1>4

(* RetireObjects keeps the invariant.                                       *)
LEMMA RetireObjectsOK ==
  ASSUME Shape, NEW ok \in BOOLEAN, RetireObjects(ok)
  PROVE  Shape'
<1>1. boot.pc # "serving" /\ boot.sid \in Session
  BY DEF RetireObjects, Shape, BootShape
<1>2. FileOK'
  BY <1>1, BootFacts, PurgeTyped DEF RetireObjects
<1>3. RegOK' /\ HistOK'
  BY <1>1, BootFacts, HistTyped DEF RetireObjects, CoreTypes, RegOK, HistOK
<1>4. BootOK' /\ boot'.sid = boot.sid /\ boot'.pc = "purge"
  BY <1>1, BootFacts DEF RetireObjects, BootOK, BootPCs
<1> QED BY <1>1, <1>2, <1>3, <1>4, BootStepKeeps DEF RetireObjects

(* RetireDir keeps the invariant.                                           *)
LEMMA RetireDirOK ==
  ASSUME Shape, NEW ok \in BOOLEAN, RetireDir(ok)
  PROVE  Shape'
<1>1. boot.pc # "serving" /\ boot.sid \in Session /\ "retention" \in BootPCs
  BY DEF RetireDir, Shape, BootShape, BootPCs
<1>2. FileOK'
  BY <1>1, BootFacts, PurgeTyped DEF RetireDir
<1>3. RegOK' /\ HistOK'
  BY <1>1, BootFacts, HistTyped DEF RetireDir, CoreTypes, RegOK, HistOK
<1>4. BootOK' /\ boot'.pc = "retention"
  BY <1>1, BootFacts, BootFields DEF RetireDir
<1> QED BY <1>1, <1>2, <1>3, <1>4, BootStepKeeps DEF RetireDir

-----------------------------------------------------------------------------
(* Signals and crashes.                                                     *)
LEMMA DiesOK ==
  ASSUME Shape, NEW r \in [Session -> Records], Dies(r)
  PROVE  Shape'
<1>. DEFINE todo == {s \in Session : r[s].status = "active"}
<1>1. RegOK' /\ FileOK'
  BY DEF Dies, Shape, CoreTypes, RegOK, FileOK
<1>2. HistOK'
  BY TrackedAssumption DEF Dies, Shape, CoreTypes, HistOK
<1>3. LoopOK(NoLoop) /\ NoLoop.pc = "none" /\ Idle.pc = "idle"
  BY DEF LoopOK, NoLoop, Loops, LoopPCs, Idle, Message
<1>4. /\ loop' \in [Loop -> Loops]
      /\ \A l \in Loop : LoopOK(loop'[l]) /\ loop'[l].pc = "none"
  BY <1>3 DEF Dies, LoopOK
<1>5. /\ conn' \in [Conn -> Messages]
      /\ \A c \in Conn : ConnOK(conn'[c]) /\ conn'[c].pc = "idle"
  BY <1>3, IdleOK DEF Dies, ConnOK
<1>6. handles' \in [Session -> Loop \cup {None}] /\ degraded' \subseteq Session
  BY DEF Dies
<1>7. /\ stop'.on = FALSE /\ stop'.todo = {} /\ stop'.sid = None
      /\ stop' \in [on : BOOLEAN, todo : SUBSET Session, sid : Session \cup {None},
                    mem : Meta \cup {NoFile}]
  <2>1. stop' = NoSignal /\ FALSE \in BOOLEAN /\ {} \in SUBSET Session
    BY DEF Dies
  <2> QED BY <2>1 DEF NoSignal
<1>8. BootOK' /\ boot'.pc = "active" /\ boot'.todo = todo
  <2>1. "active" \in BootPCs /\ todo \in SUBSET Session
    BY DEF BootPCs
  <2> QED BY <2>1, BootFields DEF Dies
<1>9. \A s \in boot'.todo : HasRecord(s)'
  BY <1>8 DEF Dies, HasRecord, NoRecord
<1>10. BootShape'
  BY <1>4, <1>5, <1>7, <1>8, <1>9 DEF BootShape
<1>11. StopShape'
  BY <1>7 DEF StopShape
<1> QED BY <1>1, <1>2, <1>4, <1>5, <1>6, <1>7, <1>8, <1>10, <1>11
        DEF Shape, CoreTypes, RegOK, FileOK, HistOK, BootOK

(* Redis comes back with older records.                                     *)
LEMMA HostCrashOK ==
  ASSUME Shape, NEW lost \in SUBSET Session, HostCrash(lost)
  PROVE  Shape'
<1>. DEFINE r == [s \in Session |->
               IF s \in lost THEN [status |-> "active", path |-> <<reg[s].path[1], FALSE>>]
               ELSE reg[s]]
<1>1. ASSUME NEW s \in lost
      PROVE  [status |-> "active", path |-> <<reg[s].path[1], FALSE>>] \in Records
  <2>1. reg[s].path \in Path
    BY <1>1, MetaPlaceTyped DEF HostCrash, Shape
  <2>2. <<reg[s].path[1], FALSE>> \in Path /\ "active" \in Status
    BY <2>1 DEF Path, Status
  <2> QED BY <2>2 DEF Records
<1>2. r \in [Session -> Records]
  BY <1>1 DEF Shape, CoreTypes
<1> QED BY <1>2, DiesOK DEF HostCrash

(* A step of the signal handler.                                            *)
LEMMA StopStepKeeps ==
  ASSUME Shape, boot = Serving, FileOK', HistOK',
         stop' \in [on : BOOLEAN, todo : SUBSET Session, sid : Session \cup {None},
                    mem : Meta \cup {NoFile}],
         ~stop'.on => stop'.todo = {} /\ stop'.sid = None,
         stop'.sid # None => ~Local /\ stop'.mem \in Meta,
         UNCHANGED <<reg, loop, handles, degraded, conn, boot>>
  PROVE  Shape'
<1>1. BootShape'
  BY BootStays
<1> QED BY <1>1 DEF Shape, CoreTypes, StopShape, FileOK, HistOK

(* Signal keeps the invariant.                                              *)
LEMMA SignalOK ==
  ASSUME Shape, Signal
  PROVE  Shape'
<1>. DEFINE todo == {s \in Session : handles[s] # None}
<1>1. TRUE \in BOOLEAN /\ todo \in SUBSET Session
  OBVIOUS
<1>2. stop' = [on |-> TRUE, todo |-> todo, sid |-> None, mem |-> NoFile]
  BY DEF Signal, NoSignal
<1>. HIDE DEF todo
<1>3. /\ stop' \in [on : BOOLEAN, todo : SUBSET Session, sid : Session \cup {None},
                    mem : Meta \cup {NoFile}]
      /\ stop'.on /\ stop'.sid = None
  BY <1>1, <1>2
<1>4. FileOK' /\ HistOK'
  BY DEF Signal, Shape, CoreTypes, FileOK, HistOK
<1> QED BY <1>3, <1>4, StopStepKeeps DEF Signal

(* FlagInterrupted keeps the invariant.                                     *)
LEMMA FlagInterruptedOK ==
  ASSUME Shape, NEW s \in Session, NEW ok \in BOOLEAN, FlagInterrupted(s, ok)
  PROVE  Shape'
<1>. DEFINE p == MetaPlace(s)
            found == ok /\ HasRecord(s)
            fetched == found /\ ~Local /\ file[p] # NoFile
<1>1. CoreTypes /\ (found => p \in Place) /\ stop.on /\ boot = Serving
  BY MetaPlaceTyped DEF FlagInterrupted, Shape, StopShape, BootShape
<1>2. FileOK'
  <2>1. CASE found /\ Local
    <3>1. Edit(p, [file[p] EXCEPT !.prog = "interrupted"], ok)
      BY <2>1 DEF FlagInterrupted
    <3>2. file \in [Place -> Meta \cup {NoFile}] /\ p \in Place
      BY <1>1, <2>1 DEF CoreTypes
    <3>3. file[p] # NoFile => [file[p] EXCEPT !.prog = "interrupted"] \in Meta
      BY <3>2, MetaEdits
    <3>. HIDE DEF p
    <3> QED BY <3>1, <3>2, <3>3 DEF Edit, FileOK
  <2>2. CASE ~(found /\ Local)
    BY <1>1, <2>2 DEF FlagInterrupted, CoreTypes, FileOK
  <2> QED BY <2>1, <2>2
<1>3. HistOK'
  BY <1>1, HistTyped DEF FlagInterrupted, HistOK
<1>4. stop \in [on : BOOLEAN, todo : SUBSET Session, sid : Session \cup {None},
                mem : Meta \cup {NoFile}]
  BY <1>1 DEF CoreTypes
<1>5. CASE fetched
  <2>1. file[p] \in Meta /\ stop.todo \ {s} \in SUBSET Session
    BY <1>1, <1>4, <1>5 DEF CoreTypes
  <2>2. stop' = [stop EXCEPT !.todo = stop.todo \ {s}, !.sid = s, !.mem = file[p]]
    BY <1>5 DEF FlagInterrupted
  <2>3. /\ stop' \in [on : BOOLEAN, todo : SUBSET Session, sid : Session \cup {None},
                      mem : Meta \cup {NoFile}]
        /\ stop'.on = stop.on /\ stop'.sid = s /\ stop'.mem \in Meta
    <3>. DEFINE m == file[p]
                todo == stop.todo \ {s}
    <3>1. m \in Meta /\ todo \in SUBSET Session
      BY <2>1
    <3>. HIDE DEF m, todo
    <3> QED BY <1>4, <2>2, <3>1 DEF m, todo
  <2> QED BY <1>1, <1>2, <1>3, <1>5, <2>3, StopStepKeeps DEF FlagInterrupted
<1>6. CASE ~fetched
  <2>1. stop' = [stop EXCEPT !.todo = @ \ {s}, !.sid = None, !.mem = NoFile]
    BY <1>6 DEF FlagInterrupted
  <2>2. /\ stop' \in [on : BOOLEAN, todo : SUBSET Session, sid : Session \cup {None},
                      mem : Meta \cup {NoFile}]
        /\ stop'.on = stop.on /\ stop'.sid = None
    BY <1>4, <2>1
  <2> QED BY <1>1, <1>2, <1>3, <2>2, StopStepKeeps DEF FlagInterrupted
<1> QED BY <1>5, <1>6

(* StoreInterrupted keeps the invariant.                                    *)
LEMMA StoreInterruptedOK ==
  ASSUME Shape, NEW ok \in BOOLEAN, StoreInterrupted(ok)
  PROVE  Shape'
<1>1. /\ stop.on /\ boot = Serving /\ CoreTypes
      /\ stop.sid \in Session /\ stop.sid \in Place /\ stop.mem \in Meta
  BY Places DEF StoreInterrupted, Shape, StopShape, BootShape, CoreTypes
<1>2. FileOK' /\ HistOK'
  BY <1>1, MetaEdits, WriteTyped, HistTyped DEF StoreInterrupted, FileOK, HistOK
<1>3. stop \in [on : BOOLEAN, todo : SUBSET Session, sid : Session \cup {None},
                mem : Meta \cup {NoFile}]
  BY <1>1 DEF CoreTypes
<1>4. /\ stop' \in [on : BOOLEAN, todo : SUBSET Session, sid : Session \cup {None},
                    mem : Meta \cup {NoFile}]
      /\ stop'.on = stop.on /\ stop'.sid = None
  BY <1>3 DEF StoreInterrupted
<1> QED BY <1>1, <1>2, <1>4, StopStepKeeps DEF StoreInterrupted

-----------------------------------------------------------------------------
(* The steps of a loop together.                                            *)
LEMMA LoopKeepsShape ==
  ASSUME Shape, NEW l \in Loop, LoopNext(l) \/ LoopStep(l) \/ LoopStops(l, FALSE)
  PROVE  Shape'
<1>1. Outcomes \subseteq BOOLEAN
  BY DEF Outcomes
<1>2. CASE LoopArm(l) \/ LoopDrain(l) \/ LoopEnd(l) \/ LoopStops(l, TRUE)
  BY <1>2, LoopArmOK, LoopDrainOK, LoopEndOK, LoopStopsOK
<1>3. ASSUME NEW ok \in BOOLEAN,
             \/ LoopLoad(l, ok) \/ LoopReadMetadata(l, ok) \/ LoopConnect(l, ok)
             \/ LoopBegin(l, ok)
      PROVE  Shape'
  BY <1>3, LoopLoadOK, LoopReadMetadataOK, LoopConnectOK, LoopBeginOK
<1>4. ASSUME NEW ok \in BOOLEAN,
             \/ LoopComplete(l, ok) \/ LoopSettle(l, ok)
             \/ LoopInterrupt(l, ok) \/ LoopDemote(l, ok)
             \/ LoopFlag(l, ok) \/ LoopRename(l, ok) \/ LoopRepath(l, ok)
      PROVE  Shape'
  BY <1>4, LoopCompleteOK, LoopSettleOK, LoopInterruptOK, LoopDemoteOK,
     LoopFlagOK, LoopRenameOK, LoopRepathOK
<1>5. CASE LoopStep(l) \/ LoopStops(l, FALSE)
  BY <1>5, LoopStepOK, LoopStopsOK
<1> QED BY <1>1, <1>2, <1>3, <1>4, <1>5 DEF LoopNext

(* The steps of a message together.                                         *)
LEMMA ConnKeepsShape ==
  ASSUME Shape, NEW c \in Conn, ConnNext(c)
  PROVE  Shape'
<1>1. Outcomes \subseteq BOOLEAN
  BY DEF Outcomes
<1>2. CASE SendDone(c) \/ ClosingImage(c) \/ ForgetDegraded(c) \/ DropHandle(c)
  BY <1>2, SendDoneOK, ClosingImageOK, ForgetDegradedOK, DropHandleOK
<1>3. ASSUME NEW ok \in BOOLEAN, NEW uploaded \in BOOLEAN, InitialiseDir(c, ok, uploaded)
      PROVE  Shape'
  BY <1>3, InitialiseDirOK
<1>4. ASSUME NEW ok \in BOOLEAN,
             \/ GiveUp(c, ok) \/ LookUp(c, ok) \/ RouteDirect(c, ok)
             \/ MarkComplete(c, ok) \/ ClearInProgress(c, ok)
             \/ FetchObject(c, ok) \/ StoreComplete(c, ok)
      PROVE  Shape'
  BY <1>4, GiveUpOK, LookUpOK, RouteDirectOK, MarkCompleteOK, ClearInProgressOK,
     FetchObjectOK, StoreCompleteOK
<1>5. ASSUME NEW ok \in BOOLEAN,
             \/ SetReasoningStatus(c, ok)
             \/ DeleteRecord(c, ok) \/ DeleteObjects(c, ok) \/ PurgeDir(c, ok)
      PROVE  Shape'
  BY <1>5, SetReasoningStatusOK, DeleteRecordOK, DeleteObjectsOK, PurgeDirOK
<1> QED BY <1>1, <1>2, <1>3, <1>4, <1>5 DEF ConnNext

(* The messages together.                                                   *)
LEMMA ReceiveKeepsShape ==
  ASSUME Shape, NEW c \in Conn, Receive(c)
  PROVE  Shape'
<1>1. Outcomes \subseteq BOOLEAN
  BY DEF Outcomes
<1>2. PICK s \in Session :
        \/ \E n \in Name : RegisterSession(c, s, n)
        \/ \E l \in Loop : StartWatch(c, s, l)
        \/ Done(c, s) \/ ReasoningDegraded(c, s) \/ CircuitReset(c, s)
        \/ \E force \in BOOLEAN, ok \in Outcomes : DeleteSession(c, s, force, ok)
  BY DEF Receive
<1> QED BY <1>1, <1>2, RegisterSessionOK, StartWatchOK, DoneOK, ReasoningDegradedOK,
           CircuitResetOK, DeleteSessionOK

(* The steps of the sweeps together.                                        *)
LEMMA BootKeepsShape ==
  ASSUME Shape, BootNext
  PROVE  Shape'
<1>1. Outcomes \subseteq BOOLEAN
  BY DEF Outcomes
<1>2. CASE StartReconcile
  BY <1>2, NextSweepOK DEF StartReconcile
<1>3. CASE Serve
  BY <1>3, NextSweepOK DEF Serve, Serving
<1>4. ASSUME NEW old \in SUBSET Session, StartRetention(old)
      PROVE  Shape'
  BY <1>4, NextSweepOK DEF StartRetention
<1>5. ASSUME NEW ok \in BOOLEAN,
             \/ SweepRename(ok) \/ SweepRepath(ok) \/ SweepStatus(ok)
             \/ RetireObjects(ok) \/ RetireDir(ok)
      PROVE  Shape'
  BY <1>5, SweepRenameOK, SweepRepathOK, SweepStatusOK, RetireObjectsOK, RetireDirOK
<1>6. ASSUME NEW ok \in BOOLEAN, NEW s \in Session,
             \/ \E replayed \in BOOLEAN : SweepActive(s, ok, replayed)
             \/ Reconcile(s, ok) \/ RetireRecord(s, ok)
      PROVE  Shape'
  BY <1>6, SweepActiveOK, ReconcileOK, RetireRecordOK
<1> QED BY <1>1, <1>2, <1>3, <1>4, <1>5, <1>6 DEF BootNext

(* Signals, exits and crashes together.                                     *)
LEMMA ProcessKeepsShape ==
  ASSUME Shape,
         \/ Signal \/ SignalNext \/ Crash
         \/ \E lost \in SUBSET Session : HostCrash(lost)
  PROVE  Shape'
<1>1. Outcomes \subseteq BOOLEAN
  BY DEF Outcomes
<1>2. CASE Signal
  BY <1>2, SignalOK
<1>3. CASE Exit \/ Crash
  BY <1>3, DiesOK DEF Exit, Crash, Shape, CoreTypes
<1>4. CASE \E lost \in SUBSET Session : HostCrash(lost)
  BY <1>4, HostCrashOK
<1>5. ASSUME NEW ok \in BOOLEAN,
             StoreInterrupted(ok) \/ \E s \in Session : FlagInterrupted(s, ok)
      PROVE  Shape'
  BY <1>5, StoreInterruptedOK, FlagInterruptedOK
<1> QED BY <1>1, <1>2, <1>3, <1>4, <1>5 DEF SignalNext

(* Closing-image tasks begin where a Done takes a picture; the other steps  *)
(* leave them alone, but for those that end the process.                    *)
LEMMA PictureOK ==
  ASSUME ShotShape, NEW s \in Session, NEW p, Local => p \in Place, TakesPicture(s, p)
  PROVE  ShotShape' /\ \A k \in Shot : shot'[k].mem \in {shot[k].mem, NoFile}
<1>1. CASE UNCHANGED shot
  BY <1>1 DEF ShotShape
<1>2. CASE ~UNCHANGED shot
  <2>. DEFINE v == [NoShot EXCEPT !.pc = "read", !.sid = s, !.place = p]
  <2>1. PICK k \in Shot : Local /\ shot' = [shot EXCEPT ![k] = v]
    BY <1>2 DEF TakesPicture
  <2>2. ShotOK(v) /\ v.mem = NoFile
    BY <2>1 DEF ShotOK, Shots, NoShot
  <2>. HIDE DEF v
  <2> QED BY <2>1, <2>2 DEF ShotShape, ShotOK
<1> QED BY <1>1, <1>2

(* A shot reads: the types stay.                                            *)
LEMMA ShotReadOK ==
  ASSUME Shape, ShotShape, NEW k \in Shot, ShotRead(k)
  PROVE  Shape' /\ ShotShape'
<1>1. /\ shot[k] \in Shots /\ shot[k].pc = "read" /\ Local
      /\ shot[k].sid \in Session /\ shot[k].place \in Place
  BY DEF ShotRead, ShotShape, ShotOK
<1>2. HistOK'
  BY <1>1, HistTyped DEF ShotRead, Shape, HistOK
<1>3. UNCHANGED <<reg, file, loop, handles, degraded, conn, boot, stop>>
  BY DEF ShotRead
<1>4. Shape'
  BY <1>2, <1>3 DEF Shape, CoreTypes, HistOK, BootShape, StopShape, HasRecord
<1>5. file[shot[k].place] \in Meta \cup {NoFile}
  BY <1>1 DEF Shape, CoreTypes
<1>. DEFINE m == file[shot[k].place]
            v == [shot[k] EXCEPT !.pc = "write", !.mem = m]
<1>6. shot' = [shot EXCEPT ![k] = IF m = NoFile THEN NoShot ELSE v]
  BY DEF ShotRead, ShotShape
<1>7. ShotOK(NoShot)
  BY DEF ShotOK, NoShot, Shots
<1>8. m # NoFile => ShotOK(v)
  <2>. HIDE DEF m
  <2> QED BY <1>1, <1>5 DEF ShotOK, Shots, m
<1>9. ShotShape'
  <2>. HIDE DEF m, v
  <2> QED BY <1>6, <1>7, <1>8 DEF ShotShape, ShotOK
<1> QED BY <1>4, <1>9

(* A shot writes what it has read: the types stay.                          *)
LEMMA ShotWriteOK ==
  ASSUME Shape, ShotShape, NEW k \in Shot, ShotWrite(k)
  PROVE  Shape' /\ ShotShape'
<1>1. /\ shot[k] \in Shots /\ shot[k].pc = "write" /\ Local
      /\ shot[k].place \in Place /\ shot[k].mem \in Meta
  BY DEF ShotWrite, ShotShape, ShotOK
<1>2. FileOK'
  BY <1>1, WriteTyped DEF ShotWrite, Shape, FileOK
<1>3. HistOK'
  BY TrackedAssumption DEF ShotWrite, Shape, CoreTypes, HistOK
<1>4. UNCHANGED <<reg, loop, handles, degraded, conn, boot, stop>>
  BY DEF ShotWrite
<1>5. Shape'
  BY <1>2, <1>3, <1>4 DEF Shape, CoreTypes, FileOK, HistOK, BootShape, StopShape, HasRecord
<1>6. ShotOK(NoShot)
  BY DEF ShotOK, NoShot, Shots
<1>7. ShotShape'
  BY <1>6 DEF ShotWrite, ShotShape, ShotOK
<1> QED BY <1>5, <1>7

(* A closing-image task touches metadata.json and the history, no more.     *)
LEMMA ShotLeaves ==
  ASSUME Shape, ShotShape, NEW k \in Shot, ShotRead(k) \/ ShotWrite(k)
  PROVE  /\ UNCHANGED <<reg, loop, handles, degraded, conn, boot, stop>>
         /\ \A s \in Session : /\ hist[s] \subseteq hist'[s]
                               /\ hist'[s] \subseteq hist[s] \cup {"mixed", "stale"}
<1>1. hist \in [Session -> SUBSET Marks]
  BY DEF Shape, CoreTypes
<1>2. CASE ShotRead(k)
  <2>1. /\ UNCHANGED <<reg, loop, handles, degraded, conn, boot, stop>>
        /\ hist' = hist \/ \E a, b : hist' = Mixes(hist, a, b)
    BY <1>2 DEF ShotRead, Works, Outcome
  <2> QED BY <1>1, <2>1, MixesGrow
<1>3. CASE ShotWrite(k)
  <2>1. UNCHANGED <<reg, loop, handles, degraded, conn, boot, stop>>
    BY <1>3 DEF ShotWrite
  <2>2. \A s \in Session : hist'[s] \in {hist[s], hist[s] \cup ({"stale"} \cap Tracked)}
    BY <1>1, <1>3 DEF ShotWrite
  <2> QED BY <2>1, <2>2
<1> QED BY <1>2, <1>3

(* metadata.json changes only when a copy of it is written back late.       *)
LEMMA ShotRewrites ==
  ASSUME Shape, ShotShape, NEW k \in Shot, ShotRead(k) \/ ShotWrite(k), ~UNCHANGED file
  PROVE  /\ shot[k].place \in Place /\ shot[k].mem \in Meta
         /\ ShotWrite(k) /\ Overtaken(k)
         /\ file' = [file EXCEPT ![shot[k].place] = shot[k].mem]
<1>1. ShotWrite(k)
  BY DEF ShotRead
<1>2. shot[k].place \in Place /\ shot[k].mem \in Meta /\ Local
  BY <1>1 DEF ShotWrite, ShotShape, ShotOK
<1>3. /\ file[shot[k].place] # NoFile
      /\ file' = [file EXCEPT ![shot[k].place] = shot[k].mem]
  BY <1>1, <1>2 DEF ShotWrite, Write
<1>4. file[shot[k].place] # shot[k].mem
  BY <1>2, <1>3 DEF Shape, CoreTypes
<1> QED BY <1>1, <1>2, <1>3, <1>4 DEF Overtaken

(* The other steps leave the shots alone.                                   *)
LEMMA LoopLeavesShots ==
  ASSUME NEW l \in Loop, LoopNext(l) \/ LoopStep(l) \/ LoopStops(l, FALSE)
  PROVE  UNCHANGED shot
<1>1. LoopArm(l) \/ LoopDrain(l) \/ LoopEnd(l) \/ LoopStep(l) \/ LoopStops(l, TRUE)
      \/ LoopStops(l, FALSE) => UNCHANGED shot
  BY DEF LoopArm, LoopDrain, LoopEnd, LoopStep, LoopStops
<1>2. \A ok \in Outcomes : LoopLoad(l, ok) \/ LoopReadMetadata(l, ok) \/ LoopConnect(l, ok)
                           \/ LoopBegin(l, ok) \/ LoopComplete(l, ok) \/ LoopSettle(l, ok)
                           => UNCHANGED shot
  BY DEF LoopLoad, LoopReadMetadata, LoopConnect, LoopBegin, LoopComplete, LoopSettle
<1>3. \A ok \in Outcomes : LoopInterrupt(l, ok) \/ LoopDemote(l, ok) \/ LoopFlag(l, ok)
                           \/ LoopRename(l, ok) \/ LoopRepath(l, ok)
                           => UNCHANGED shot
  BY DEF LoopInterrupt, LoopDemote, LoopFlag, LoopRename, LoopRepath
<1> QED BY <1>1, <1>2, <1>3 DEF LoopNext

(* A step that does not read a copy of metadata.json.                       *)
NoNewCopy == \A k \in Shot : shot'[k].mem \in {shot[k].mem, NoFile}

(* Only a message that asks for the closing image starts one.               *)
LEMMA ConnLeavesShots ==
  ASSUME Shape, ShotShape, NEW c \in Conn, ConnNext(c) \/ Receive(c)
  PROVE  ShotShape' /\ NoNewCopy
<1>1. SendDone(c) \/ ForgetDegraded(c) \/ DropHandle(c) => UNCHANGED shot
  BY DEF SendDone, ForgetDegraded, DropHandle
<1>2. \A ok \in Outcomes : (\E uploaded \in Outcomes : InitialiseDir(c, ok, uploaded))
                           \/ GiveUp(c, ok) \/ LookUp(c, ok)
                           \/ MarkComplete(c, ok) \/ ClearInProgress(c, ok)
                           \/ FetchObject(c, ok) \/ StoreComplete(c, ok)
                           => UNCHANGED shot
  BY DEF InitialiseDir, GiveUp, LookUp, MarkComplete, ClearInProgress, FetchObject, StoreComplete
<1>3. \A ok \in Outcomes : SetReasoningStatus(c, ok) \/ DeleteRecord(c, ok)
                           \/ DeleteObjects(c, ok) \/ PurgeDir(c, ok)
                           => UNCHANGED shot
  BY DEF SetReasoningStatus, DeleteRecord, DeleteObjects, PurgeDir
<1>4. Receive(c) => UNCHANGED shot
  BY DEF Receive, RegisterSession, StartWatch, Done, ReasoningDegraded, CircuitReset,
     DeleteSession
<1>5. UNCHANGED shot => ShotShape' /\ NoNewCopy
  BY DEF ShotShape, NoNewCopy
<1>6. CASE ClosingImage(c)
  <2>1. conn[c].sid \in Session /\ CoreTypes
    BY <1>6, ConnFacts DEF ClosingImage
  <2>2. CASE HasRecord(conn[c].sid)
    BY <1>6, <2>1, <2>2, MetaPlaceTyped, PictureOK DEF ClosingImage, NoNewCopy
  <2>3. CASE ~HasRecord(conn[c].sid)
    BY <1>5, <1>6, <2>3 DEF ClosingImage
  <2> QED BY <2>2, <2>3
<1>7. ASSUME NEW ok \in Outcomes, RouteDirect(c, ok) PROVE ShotShape' /\ NoNewCopy
  <2>1. conn[c].sid \in Session /\ conn[c].place \in Place
    BY <1>7, ConnFacts DEF RouteDirect, ConnOK
  <2> QED BY <1>7, <2>1, PictureOK DEF RouteDirect, NoNewCopy
<1> QED BY <1>1, <1>2, <1>3, <1>4, <1>5, <1>6, <1>7 DEF ConnNext

(* The sweeps and the signal handler leave them alone, an exit ends them.   *)
LEMMA ProcessLeavesShots ==
  ASSUME ShotShape,
         \/ BootNext \/ Signal \/ SignalNext \/ Crash
         \/ \E lost \in SUBSET Session : HostCrash(lost)
  PROVE  ShotShape' /\ NoNewCopy
<1>1. CASE BootNext
  <2>1. StartReconcile \/ Serve \/ (\E old \in SUBSET Session : StartRetention(old))
        => UNCHANGED shot
    BY DEF StartReconcile, Serve, StartRetention
  <2>2. ASSUME NEW ok, SweepRename(ok) \/ SweepRepath(ok) \/ SweepStatus(ok)
        PROVE  UNCHANGED shot
    BY <2>2 DEF SweepRename, SweepRepath, SweepStatus
  <2>3. ASSUME NEW ok, RetireObjects(ok) \/ RetireDir(ok)
        PROVE  UNCHANGED shot
    BY <2>3 DEF RetireObjects, RetireDir
  <2>4. ASSUME NEW ok, NEW s, NEW replayed,
               SweepActive(s, ok, replayed) \/ Reconcile(s, ok) \/ RetireRecord(s, ok)
        PROVE  UNCHANGED shot
    BY <2>4 DEF SweepActive, Reconcile, RetireRecord
  <2>5. UNCHANGED shot
    BY <1>1, <2>1, <2>2, <2>3, <2>4 DEF BootNext
  <2> QED BY <2>5 DEF ShotShape, NoNewCopy
<1>2. CASE \/ Signal
           \/ \E ok \in Outcomes :
                 StoreInterrupted(ok) \/ \E s \in Session : FlagInterrupted(s, ok)
  BY <1>2 DEF ShotShape, NoNewCopy, Signal, StoreInterrupted, FlagInterrupted
<1>3. CASE Exit \/ Crash \/ \E lost \in SUBSET Session : HostCrash(lost)
  <2>1. shot' = [k \in Shot |-> NoShot]
    BY <1>3 DEF Exit, Crash, HostCrash, Dies
  <2>2. ShotOK(NoShot) /\ NoShot.mem = NoFile
    BY DEF ShotOK, NoShot, Shots
  <2> QED BY <2>1, <2>2 DEF ShotShape, ShotOK, NoNewCopy
<1> QED BY <1>1, <1>2, <1>3 DEF SignalNext

(* The invariant holds at first.                                            *)
LEMMA InitShape == Init => Shape /\ ShotShape
<1>. SUFFICES ASSUME Init PROVE Shape /\ ShotShape
  OBVIOUS
<1>1. /\ reg \in [Session -> Records] /\ file \in [Place -> Meta \cup {NoFile}]
      /\ handles \in [Session -> Loop \cup {None}] /\ degraded \subseteq Session
      /\ hist \in [Session -> SUBSET Marks]
  BY DEF Init, Records
<1>2. loop \in [Loop -> Loops] /\ \A l \in Loop : LoopOK(loop[l])
  <2>1. LoopOK(NoLoop)
    BY DEF LoopOK, NoLoop, Loops, LoopPCs
  <2> QED BY <2>1 DEF Init, LoopOK
<1>3. conn \in [Conn -> Messages] /\ \A c \in Conn : ConnOK(conn[c])
  BY IdleOK DEF Init, ConnOK
<1>4. boot = Serving /\ stop = NoSignal
  BY DEF Init
<1>5. /\ boot \in [pc : BootPCs, todo : SUBSET Session, sid : Session \cup {None},
                   place : Path \cup {None}]
      /\ BootShape
  <2>1. "serving" \in BootPCs /\ {} \in SUBSET Session
    BY DEF BootPCs
  <2> QED BY <1>4, <2>1 DEF Serving, Boot, BootShape
<1>6. /\ stop \in [on : BOOLEAN, todo : SUBSET Session, sid : Session \cup {None},
                   mem : Meta \cup {NoFile}]
      /\ StopShape
  <2>1. FALSE \in BOOLEAN /\ {} \in SUBSET Session
    OBVIOUS
  <2> QED BY <1>4, <2>1 DEF NoSignal, StopShape
<1>7. ShotShape
  <2>1. ShotOK(NoShot)
    BY DEF ShotOK, NoShot, Shots
  <2> QED BY <2>1 DEF Init, ShotShape, ShotOK
<1> QED BY <1>1, <1>2, <1>3, <1>5, <1>6, <1>7 DEF Shape, CoreTypes

(* The invariant is inductive.                                              *)
LEMMA ShapeInductive == Shape /\ ShotShape /\ [Next]_vars => Shape' /\ ShotShape'
<1>. SUFFICES ASSUME Shape, ShotShape, [Next]_vars PROVE Shape' /\ ShotShape'
  OBVIOUS
<1>1. CASE \E l \in Loop : LoopNext(l) \/ LoopStep(l) \/ LoopStops(l, FALSE)
  BY <1>1, LoopKeepsShape, LoopLeavesShots DEF ShotShape
<1>2. CASE \E c \in Conn : ConnNext(c) \/ Receive(c)
  BY <1>2, ConnKeepsShape, ReceiveKeepsShape, ConnLeavesShots
<1>3. CASE BootNext
  BY <1>3, BootKeepsShape, ProcessLeavesShots
<1>4. CASE Signal \/ SignalNext \/ Crash \/ \E lost \in SUBSET Session : HostCrash(lost)
  BY <1>4, ProcessKeepsShape, ProcessLeavesShots
<1>5. CASE \E k \in Shot : ShotRead(k) \/ ShotWrite(k)
  BY <1>5, ShotReadOK, ShotWriteOK
<1>6. CASE UNCHANGED vars
  BY <1>6 DEF vars, Shape, ShotShape, CoreTypes, BootShape, StopShape, HasRecord
<1> QED BY <1>1, <1>2, <1>3, <1>4, <1>5, <1>6 DEF Next

(* Every variable keeps its type in every behaviour, whatever fails and     *)
(* whatever runs at the same time: what a loop or a message carries from    *)
(* one step to the next is what its next step needs.                        *)
THEOREM LifecycleTypes == Spec => []TypeOK
<1>1. Shape /\ ShotShape => TypeOK
  BY DEF Shape, ShotShape, CoreTypes, TypeOK
<1> QED BY <1>1, InitShape, ShapeInductive, PTL DEF Spec

-----------------------------------------------------------------------------
(* Someone can still end the capture of loop l.                             *)
Told(l) ==
    \/ loop[l].fired
    \/ handles[loop[l].sid] = l
    \/ \E c \in Conn : conn[c].pc = "send" /\ conn[c].loop = l

InCapture(v) == v.pc \in {"begin", "capture"}

(* Firing a handle changes nothing but fired, and a capture that held it    *)
(* has been told.                                                           *)
LEMMA FireTells ==
  ASSUME NEW lp \in [Loop -> Loops], NEW k, NEW x \in Loop
  PROVE  /\ Fire(lp, k)[x].pc = lp[x].pc /\ Fire(lp, k)[x].sid = lp[x].sid
         /\ lp[x].fired => Fire(lp, k)[x].fired
         /\ x = k /\ InCapture(lp[x]) => Fire(lp, k)[x].fired
  BY DEF Fire, Loops, InCapture

(* A step keeps a capture's way out when it starts no capture and neither   *)
(* takes a handle nor ends a Done that is about to send.                    *)
LEMMA HandlesKept ==
  ASSUME NoOrphanLoop, UNCHANGED handles,
         \A x \in Loop : InCapture(loop'[x]) =>
            /\ InCapture(loop[x]) /\ loop'[x].sid = loop[x].sid
            /\ loop[x].fired => loop'[x].fired,
         \A c \in Conn : conn[c].pc = "send" =>
            conn'[c].pc = "send" /\ conn'[c].loop = conn[c].loop
  PROVE  NoOrphanLoop'
  BY DEF NoOrphanLoop, InCapture

(* The steps before a loop is armed may answer the StartWatch that waits,   *)
(* and no other message.                                                    *)
LEMMA StartUpLeavesHandles ==
  ASSUME Shape, NoOrphanLoop, NEW l \in Loop, NEW ok \in BOOLEAN,
         LoopLoad(l, ok) \/ LoopReadMetadata(l, ok) \/ LoopConnect(l, ok)
  PROVE  NoOrphanLoop'
<1>1. loop[l] \in Loops /\ loop \in [Loop -> Loops] /\ Running(l)
  BY DEF Shape, CoreTypes, LoopLoad, LoopReadMetadata, LoopConnect, Running
<1>2. UNCHANGED handles
  BY DEF LoopLoad, LoopReadMetadata, LoopConnect
<1>. DEFINE Leaves == /\ ~InCapture(loop'[l])
                      /\ \A x \in Loop \ {l} : loop'[x] = loop[x]
<1>3. Leaves
  <2>1. LoopFails(l) => Leaves
    <3>1. LoopFails(l) => loop' = [loop EXCEPT ![l] = NoLoop]
      BY DEF LoopFails
    <3>2. ~InCapture(NoLoop)
      BY DEF NoLoop, InCapture
    <3> QED BY <1>1, <3>1, <3>2
  <2>2. LoopLoad(l, ok) => Leaves
    BY <1>1, <2>1 DEF LoopLoad, Loops, InCapture
  <2>3. LoopReadMetadata(l, ok) => Leaves
    BY <1>1, <2>1 DEF LoopReadMetadata, Loops, InCapture
  <2>4. LoopConnect(l, ok) => Leaves
    BY <1>1, <2>1 DEF LoopConnect, LoopGoto, Loops, InCapture
  <2> QED BY <2>2, <2>3, <2>4
<1>4. \A c \in Conn : conn[c].pc = "send" => conn'[c] = conn[c]
  BY DEF LoopLoad, LoopReadMetadata, LoopConnect, LoopFails
<1> QED BY <1>2, <1>3, <1>4, HandlesKept

(* The steps of a loop: arming and ending tell the loop whose handle goes.  *)
LEMMA LoopKeepsOut ==
  ASSUME Shape, NoOrphanLoop, NEW l \in Loop,
         LoopNext(l) \/ LoopStep(l) \/ LoopStops(l, FALSE)
  PROVE  NoOrphanLoop'
<1>. DEFINE s == loop[l].sid
<1>1. Outcomes \subseteq BOOLEAN
  BY DEF Outcomes
<1>2. loop[l] \in Loops /\ loop \in [Loop -> Loops] /\ handles \in [Session -> Loop \cup {None}]
  BY DEF Shape, CoreTypes
<1>3. CASE LoopArm(l)
  <2>. DEFINE lp == LoopGoto(l, "begin")
  <2>1. /\ lp \in [Loop -> Loops] /\ lp[l].sid = s
        /\ \A x \in Loop \ {l} : lp[x] = loop[x]
    BY <1>2 DEF LoopGoto, Loops, LoopPCs
  <2>2. s \in Session
    BY <1>3 DEF LoopArm, Shape, LoopOK
  <2>3. loop' = Fire(lp, handles[s]) /\ handles' = [handles EXCEPT ![s] = l] /\ UNCHANGED conn
    BY <1>3 DEF LoopArm
  <2>. HIDE DEF lp
  <2>4. handles'[s] = l /\ loop'[l].sid = s
    BY <1>2, <2>1, <2>2, <2>3, FireTells
  <2>5. ASSUME NEW x \in Loop \ {l}, InCapture(loop'[x])
        PROVE  Told(x)'
    <3>1. /\ loop'[x].sid = loop[x].sid /\ InCapture(loop[x])
          /\ loop[x].fired => loop'[x].fired
          /\ x = handles[s] => loop'[x].fired
      BY <2>1, <2>3, <2>5, FireTells DEF InCapture
    <3>2. loop[x].sid \in Session
      BY <3>1 DEF InCapture, Shape, LoopOK
    <3>3. Told(x)
      BY <3>1 DEF NoOrphanLoop, InCapture, Told
    <3> QED BY <1>2, <2>2, <2>3, <3>1, <3>2, <3>3 DEF Told
  <2> QED BY <2>4, <2>5 DEF NoOrphanLoop, Told, InCapture
<1>4. CASE LoopEnd(l)
  <2>. DEFINE lp == Fire(loop, handles[s])
  <2>1. s \in Session
    BY <1>4 DEF LoopEnd, Shape, LoopOK
  <2>2. /\ lp \in [Loop -> Loops]
        /\ loop' = [lp EXCEPT ![l] = NoLoop]
        /\ handles' = [handles EXCEPT ![s] = None]
    BY <1>2, <1>4, FireTyped DEF LoopEnd, Shape
  <2>3. \A x \in Loop : /\ lp[x].pc = loop[x].pc /\ lp[x].sid = loop[x].sid
                        /\ loop[x].fired => lp[x].fired
                        /\ x = handles[s] /\ InCapture(loop[x]) => lp[x].fired
    BY <1>2, FireTells
  <2>. HIDE DEF lp
  <2>4. ~InCapture(loop'[l])
    BY <2>2 DEF InCapture, NoLoop
  <2>5. \A c \in Conn : conn[c].pc = "send" /\ conn[c].loop # l => conn'[c] = conn[c]
    BY <1>4 DEF LoopEnd
  <2>6. ASSUME NEW x \in Loop \ {l}, InCapture(loop'[x])
        PROVE  Told(x)'
    <3>1. /\ loop'[x].sid = loop[x].sid /\ InCapture(loop[x])
          /\ loop[x].fired => loop'[x].fired
          /\ x = handles[s] => loop'[x].fired
      BY <2>2, <2>3, <2>6 DEF InCapture
    <3>2. loop[x].sid \in Session
      BY <3>1 DEF InCapture, Shape, LoopOK
    <3>3. Told(x)
      BY <3>1 DEF NoOrphanLoop, InCapture, Told
    <3> QED BY <1>2, <2>1, <2>2, <2>5, <3>1, <3>2, <3>3 DEF Told
  <2> QED BY <2>4, <2>6 DEF NoOrphanLoop, Told, InCapture
<1>5. CASE \/ \E ok \in BOOLEAN : LoopBegin(l, ok)
           \/ LoopDrain(l) \/ LoopStep(l)
           \/ \E clean \in BOOLEAN : LoopStops(l, clean)
  <2>. DEFINE Leaves ==
         /\ UNCHANGED <<handles, conn>>
         /\ \A x \in Loop \ {l} : loop'[x] = loop[x]
         /\ InCapture(loop'[l]) => /\ InCapture(loop[l]) /\ loop'[l].sid = loop[l].sid
                                   /\ loop[l].fired => loop'[l].fired
  <2>1. \A ok \in BOOLEAN : LoopBegin(l, ok) => Leaves
    BY <1>2 DEF LoopBegin, InCapture, Loops
  <2>2. LoopDrain(l) => Leaves
    BY <1>2 DEF LoopDrain, InCapture, Loops
  <2>3. LoopStep(l) => Leaves
    BY DEF LoopStep
  <2>4. \A clean \in BOOLEAN : LoopStops(l, clean) => Leaves
    BY <1>2 DEF LoopStops, InCapture, Loops
  <2>5. Leaves
    BY <1>5, <2>1, <2>2, <2>3, <2>4
  <2> QED BY <2>5, HandlesKept
<1>6. ASSUME NEW ok \in BOOLEAN,
             \/ LoopComplete(l, ok) \/ LoopSettle(l, ok)
             \/ LoopInterrupt(l, ok) \/ LoopDemote(l, ok)
             \/ LoopFlag(l, ok) \/ LoopRename(l, ok) \/ LoopRepath(l, ok)
      PROVE  NoOrphanLoop'
  <2>. DEFINE Leaves == /\ UNCHANGED <<handles, conn>>
                        /\ \A x \in Loop \ {l} : loop'[x] = loop[x]
                        /\ ~InCapture(loop'[l])
  <2>1. LoopComplete(l, ok) \/ LoopInterrupt(l, ok) => Leaves
    BY <1>2 DEF LoopComplete, LoopInterrupt, InCapture, Loops
  <2>2. /\ LoopOver(l)[l].pc = "end"
        /\ \A x \in Loop \ {l} : LoopOver(l)[x] = loop[x]
    BY <1>2 DEF LoopOver, NoLoop
  <2>3. LoopSettle(l, ok) \/ LoopRepath(l, ok) => Leaves
    BY <2>2 DEF LoopSettle, LoopRepath, InCapture
  <2>4. LoopDemote(l, ok) \/ LoopFlag(l, ok) => Leaves
    BY <1>2, <2>2 DEF LoopDemote, LoopFlag, LoopGoto, InCapture, Loops
  <2>5. LoopRename(l, ok) => Leaves
    BY <1>2, <2>2 DEF LoopRename, InCapture, Loops
  <2>6. Leaves
    BY <1>6, <2>1, <2>3, <2>4, <2>5
  <2> QED BY <2>6, HandlesKept
<1> QED BY <1>1, <1>3, <1>4, <1>5, <1>6, StartUpLeavesHandles DEF LoopNext

(* The steps of a message: the send and the dropped handle tell the loop.   *)
LEMMA ConnKeepsOut ==
  ASSUME Shape, NoOrphanLoop, NEW c \in Conn, ConnNext(c)
  PROVE  NoOrphanLoop'
<1>1. Outcomes \subseteq BOOLEAN
  BY DEF Outcomes
<1>2. /\ loop \in [Loop -> Loops] /\ handles \in [Session -> Loop \cup {None}]
      /\ conn \in [Conn -> Messages] /\ conn[c] \in Messages
  BY DEF Shape, CoreTypes
<1>3. CASE SendDone(c)
  <2>1. /\ loop' = Fire(loop, conn[c].loop) /\ UNCHANGED handles
        /\ \A d \in Conn \ {c} : conn'[d] = conn[d]
    BY <1>2, <1>3 DEF SendDone, Awaits, Reply, Goto
  <2>2. ASSUME NEW x \in Loop, InCapture(loop'[x])
        PROVE  Told(x)'
    <3>1. /\ loop'[x].sid = loop[x].sid /\ InCapture(loop[x])
          /\ loop[x].fired => loop'[x].fired
          /\ x = conn[c].loop => loop'[x].fired
      BY <1>2, <2>1, <2>2, FireTells DEF InCapture
    <3>2. Told(x)
      BY <3>1 DEF NoOrphanLoop, InCapture, Told
    <3> QED BY <2>1, <3>1, <3>2 DEF Told
  <2> QED BY <2>2 DEF NoOrphanLoop, Told, InCapture
<1>4. CASE DropHandle(c)
  <2>. DEFINE s == conn[c].sid
  <2>1. /\ loop' = Fire(loop, handles[s]) /\ handles' = [handles EXCEPT ![s] = None]
        /\ \A d \in Conn : conn[d].pc = "send" => conn'[d] = conn[d]
        /\ s \in Session
    BY <1>2, <1>4 DEF DropHandle, Goto, Shape, ConnOK
  <2>2. ASSUME NEW x \in Loop, InCapture(loop'[x])
        PROVE  Told(x)'
    <3>1. /\ loop'[x].sid = loop[x].sid /\ InCapture(loop[x])
          /\ loop[x].fired => loop'[x].fired
          /\ x = handles[s] => loop'[x].fired
      BY <1>2, <2>1, <2>2, FireTells DEF InCapture
    <3>2. loop[x].sid \in Session
      BY <3>1 DEF InCapture, Shape, LoopOK
    <3>3. Told(x)
      BY <3>1 DEF NoOrphanLoop, InCapture, Told
    <3> QED BY <1>2, <2>1, <3>1, <3>2, <3>3 DEF Told
  <2> QED BY <2>2 DEF NoOrphanLoop, Told, InCapture
<1>5. ASSUME NEW ok \in BOOLEAN, NEW uploaded \in BOOLEAN,
             \/ InitialiseDir(c, ok, uploaded) \/ ForgetDegraded(c) \/ ClosingImage(c)
             \/ GiveUp(c, ok) \/ LookUp(c, ok) \/ RouteDirect(c, ok)
             \/ MarkComplete(c, ok) \/ ClearInProgress(c, ok)
             \/ FetchObject(c, ok) \/ StoreComplete(c, ok)
             \/ SetReasoningStatus(c, ok)
             \/ DeleteRecord(c, ok) \/ DeleteObjects(c, ok) \/ PurgeDir(c, ok)
      PROVE  NoOrphanLoop'
  <2>1. /\ UNCHANGED <<loop, handles>> /\ conn[c].pc # "send"
        /\ \A d \in Conn \ {c} : conn'[d] = conn[d]
    BY <1>2, <1>5 DEF InitialiseDir, ForgetDegraded, GiveUp, LookUp, RouteDirect,
       MarkComplete, ClearInProgress, FetchObject, StoreComplete, SetReasoningStatus,
       DeleteRecord, DeleteObjects, PurgeDir, ClosingImage, Awaits, Goto, Reply
  <2> QED BY <2>1, HandlesKept
<1> QED BY <1>1, <1>3, <1>4, <1>5 DEF ConnNext

(* The messages: Done takes the handle and will send.                       *)
LEMMA ReceiveKeepsOut ==
  ASSUME Shape, NoOrphanLoop, NEW c \in Conn, Receive(c)
  PROVE  NoOrphanLoop'
<1>1. PICK s \in Session :
        \/ \E n \in Name : RegisterSession(c, s, n)
        \/ \E l \in Loop : StartWatch(c, s, l)
        \/ Done(c, s) \/ ReasoningDegraded(c, s) \/ CircuitReset(c, s)
        \/ \E force \in BOOLEAN, ok \in Outcomes : DeleteSession(c, s, force, ok)
  BY DEF Receive
<1>2. /\ loop \in [Loop -> Loops] /\ handles \in [Session -> Loop \cup {None}]
      /\ conn \in [Conn -> Messages]
  BY DEF Shape, CoreTypes
<1>3. CASE Done(c, s)
  <2>1. /\ UNCHANGED loop /\ handles' = [handles EXCEPT ![s] = None]
        /\ conn[c].pc = "idle" /\ \A d \in Conn \ {c} : conn'[d] = conn[d]
        /\ handles[s] # None => conn'[c].pc = "send" /\ conn'[c].loop = handles[s]
    BY <1>2, <1>3 DEF Done, Accepts, Message
  <2>2. ASSUME NEW x \in Loop, InCapture(loop[x])
        PROVE  Told(x)'
    <3>1. loop[x].sid \in Session /\ x # None
      BY <2>2, NoneAssumption DEF InCapture, Shape, LoopOK
    <3>2. Told(x)
      BY <2>2 DEF NoOrphanLoop, InCapture, Told
    <3> QED BY <1>2, <2>1, <3>1, <3>2 DEF Told
  <2> QED BY <2>1, <2>2 DEF NoOrphanLoop, Told, InCapture
<1>4. CASE \E l \in Loop : StartWatch(c, s, l)
  <2>1. PICK l \in Loop : StartWatch(c, s, l)
    BY <1>4
  <2>2. /\ UNCHANGED handles /\ ~InCapture(loop'[l])
        /\ \A x \in Loop \ {l} : loop'[x] = loop[x]
        /\ conn[c].pc = "idle" /\ \A d \in Conn \ {c} : conn'[d] = conn[d]
    BY <1>2, <2>1 DEF StartWatch, Accepts, InCapture, NoLoop
  <2> QED BY <2>2, HandlesKept
<1>5. CASE \/ \E n \in Name : RegisterSession(c, s, n)
           \/ ReasoningDegraded(c, s) \/ CircuitReset(c, s)
           \/ \E force \in BOOLEAN, ok \in Outcomes : DeleteSession(c, s, force, ok)
  <2>1. /\ UNCHANGED <<loop, handles>>
        /\ conn[c].pc = "idle" /\ \A d \in Conn \ {c} : conn'[d] = conn[d]
    BY <1>2, <1>5 DEF RegisterSession, ReasoningDegraded, CircuitReset, DeleteSession, Accepts
  <2> QED BY <2>1, HandlesKept
<1> QED BY <1>1, <1>3, <1>4, <1>5

(* Sweeps run and signals come without touching a loop; a crash ends all.   *)
LEMMA ProcessKeepsOut ==
  ASSUME Shape, NoOrphanLoop,
         \/ BootNext \/ Signal \/ SignalNext \/ Crash
         \/ \E lost \in SUBSET Session : HostCrash(lost)
  PROVE  NoOrphanLoop'
<1>1. CASE BootNext
  <2>1. StartReconcile \/ Serve \/ (\E old \in SUBSET Session : StartRetention(old))
        => UNCHANGED <<loop, handles, conn>>
    BY DEF StartReconcile, Serve, StartRetention
  <2>2. ASSUME NEW ok, SweepRename(ok) \/ SweepRepath(ok) \/ SweepStatus(ok)
        PROVE  UNCHANGED <<loop, handles, conn>>
    BY <2>2 DEF SweepRename, SweepRepath, SweepStatus
  <2>3. ASSUME NEW ok, RetireObjects(ok) \/ RetireDir(ok)
        PROVE  UNCHANGED <<loop, handles, conn>>
    BY <2>3 DEF RetireObjects, RetireDir
  <2>4. ASSUME NEW ok, NEW s, NEW replayed,
               SweepActive(s, ok, replayed) \/ Reconcile(s, ok) \/ RetireRecord(s, ok)
        PROVE  UNCHANGED <<loop, handles, conn>>
    BY <2>4 DEF SweepActive, Reconcile, RetireRecord
  <2>5. UNCHANGED <<loop, handles, conn>>
    BY <1>1, <2>1, <2>2, <2>3, <2>4 DEF BootNext
  <2> QED BY <2>5 DEF NoOrphanLoop
<1>2. CASE \/ Signal
           \/ \E ok \in Outcomes :
                 StoreInterrupted(ok) \/ \E s \in Session : FlagInterrupted(s, ok)
  <2>1. UNCHANGED <<loop, handles, conn>>
    BY <1>2 DEF Signal, StoreInterrupted, FlagInterrupted
  <2> QED BY <2>1 DEF NoOrphanLoop
<1>3. CASE Exit \/ Crash \/ \E lost \in SUBSET Session : HostCrash(lost)
  <2>1. loop' = [l \in Loop |-> NoLoop]
    BY <1>3 DEF Exit, Crash, HostCrash, Dies
  <2> QED BY <2>1 DEF NoOrphanLoop, NoLoop
<1> QED BY <1>1, <1>2, <1>3 DEF SignalNext

(* No step leaves a capture that nothing can end.                           *)
LEMMA OrphansInductive == Shape /\ NoOrphanLoop /\ [Next]_vars => NoOrphanLoop'
<1> SUFFICES ASSUME Shape, NoOrphanLoop, [Next]_vars PROVE NoOrphanLoop'
  OBVIOUS
<1>0. ASSUME NEW k \in Shot, ShotRead(k) \/ ShotWrite(k) PROVE NoOrphanLoop'
  <2>1. UNCHANGED <<loop, handles, conn>>
    BY <1>0 DEF ShotRead, ShotWrite
  <2> QED BY <2>1 DEF NoOrphanLoop
<1>1. CASE Next
  BY <1>0, <1>1, LoopKeepsOut, ConnKeepsOut, ReceiveKeepsOut, ProcessKeepsOut DEF Next
<1>2. CASE UNCHANGED vars
  BY <1>2 DEF vars, NoOrphanLoop
<1> QED BY <1>1, <1>2

(* However StartWatch, Done, DeleteSession and the loops of one session     *)
(* interleave, a capture can always be ended: with any number of sessions,  *)
(* connections and loops.                                                   *)
THEOREM NoCaptureOrphaned == Spec => []NoOrphanLoop
<1>1. Init => NoOrphanLoop
  BY DEF Init, NoOrphanLoop, NoLoop
<1> QED BY <1>1, OrphansInductive, InitShape, ShapeInductive, PTL DEF Spec

-----------------------------------------------------------------------------
(* Start-up.  A session that looks active is one the first sweep has yet to *)
(* settle, or one a call failed for.                                        *)
Excused(s) == "failed" \in hist[s]
Sweeping ==
    /\ boot.pc = "active" =>
          \A s \in Session : reg[s].status = "active" => s \in boot.todo \/ Excused(s)
    /\ boot.pc \in {"rename", "repath", "demote", "restore"} =>
          \A s \in Session : reg[s].status = "active" =>
             s \in boot.todo \/ s = boot.sid \/ Excused(s)
    /\ boot.pc \in {"reconcile", "retention", "objects", "purge"} =>
          \A s \in Session : reg[s].status = "active" => Excused(s)

ShotStep == \E k \in Shot : ShotRead(k) \/ ShotWrite(k)

(* Until ma-core serves, only the sweeps and a crash change a record.       *)
LEMMA OnlySweeps ==
  ASSUME Shape, boot # Serving, Next
  PROVE  BootNext \/ ShotStep \/ \E r : Dies(r)
<1>1. /\ \A c \in Conn : conn[c].pc = "idle"
      /\ \A l \in Loop : loop[l].pc = "none"
      /\ ~stop.on /\ stop.todo = {} /\ stop.sid = None
  BY DEF Shape, BootShape, StopShape
<1>2. ASSUME NEW l \in Loop PROVE ~(LoopNext(l) \/ LoopStep(l) \/ LoopStops(l, FALSE))
  <2>1. loop[l].pc = "none"
    BY <1>1
  <2> QED BY <2>1 DEF LoopNext, LoopArm, LoopDrain, LoopEnd, LoopStops, LoopLoad,
       LoopReadMetadata, LoopConnect, LoopBegin, LoopComplete, LoopSettle, LoopInterrupt,
       LoopDemote, LoopFlag, LoopRename, LoopRepath, LoopStep, Capturing
<1>3. ASSUME NEW c \in Conn PROVE ~ConnNext(c)
  <2>1. conn[c].pc = "idle"
    BY <1>1
  <2> QED BY <2>1 DEF ConnNext, SendDone, ClosingImage, ForgetDegraded, DropHandle,
       InitialiseDir, GiveUp, LookUp, RouteDirect, MarkComplete, ClearInProgress, FetchObject, StoreComplete,
       SetReasoningStatus, DeleteRecord, DeleteObjects, PurgeDir
<1>4. ASSUME NEW c \in Conn PROVE ~Receive(c)
  BY DEF Receive, RegisterSession, StartWatch, Done, ReasoningDegraded, CircuitReset,
     DeleteSession, Accepts
<1>5. ~Signal
  BY DEF Signal
<1>6. SignalNext => FALSE
  BY <1>1 DEF SignalNext, Exit, StoreInterrupted, FlagInterrupted
<1>7. Crash \/ (\E lost \in SUBSET Session : HostCrash(lost)) => \E r : Dies(r)
  BY DEF Crash, HostCrash
<1> QED BY <1>2, <1>3, <1>4, <1>5, <1>6, <1>7 DEF Next, ShotStep

(* While ma-core serves, only a crash or an exit starts the sweeps.         *)
LEMMA ServesOn ==
  ASSUME boot = Serving, Next
  PROVE  UNCHANGED boot \/ \E r : Dies(r)
<1>1. boot.pc = "serving"
  BY DEF Serving, Boot
<1>2. ~BootNext
  BY <1>1 DEF BootNext, StartReconcile, Serve, StartRetention, SweepRename, SweepRepath,
     SweepStatus, RetireObjects, RetireDir, SweepActive, Reconcile, RetireRecord
<1>3. ASSUME NEW l \in Loop, LoopNext(l) \/ LoopStep(l) \/ LoopStops(l, FALSE)
      PROVE  UNCHANGED boot
  BY <1>3 DEF LoopNext, LoopArm, LoopDrain, LoopEnd, LoopStops, LoopLoad,
     LoopReadMetadata, LoopConnect, LoopBegin, LoopComplete, LoopSettle, LoopInterrupt,
     LoopDemote, LoopFlag, LoopRename, LoopRepath, LoopStep
<1>4. ASSUME NEW c \in Conn, ConnNext(c) PROVE UNCHANGED boot
  BY <1>4 DEF ConnNext, SendDone, ClosingImage, ForgetDegraded, DropHandle,
     InitialiseDir, GiveUp, LookUp, RouteDirect, MarkComplete, ClearInProgress, FetchObject, StoreComplete,
     SetReasoningStatus, DeleteRecord, DeleteObjects, PurgeDir
<1>5. ASSUME NEW c \in Conn, Receive(c) PROVE UNCHANGED boot
  BY <1>5 DEF Receive, RegisterSession, StartWatch, Done, ReasoningDegraded, CircuitReset,
     DeleteSession
<1>6. Signal \/ SignalNext => UNCHANGED boot \/ \E r : Dies(r)
  BY DEF Signal, SignalNext, Exit, StoreInterrupted, FlagInterrupted
<1>7. Crash \/ (\E lost \in SUBSET Session : HostCrash(lost)) => \E r : Dies(r)
  BY DEF Crash, HostCrash
<1>8. ShotStep => UNCHANGED boot
  BY DEF ShotStep, ShotRead, ShotWrite
<1> QED BY <1>2, <1>3, <1>4, <1>5, <1>6, <1>7, <1>8 DEF Next, ShotStep

(* After a crash every session that looks active is in the sweep.           *)
LEMMA DeathListsActive ==
  ASSUME Shape, NEW r, Dies(r)
  PROVE  Sweeping' /\ boot' # Serving
<1>1. boot' = Boot("active", {s \in Session : reg'[s].status = "active"}, None, None)
  BY DEF Dies
<1>2. boot'.pc = "active" /\ boot'.todo = {s \in Session : reg'[s].status = "active"}
  BY <1>1 DEF Boot
<1> QED BY <1>2 DEF Sweeping, Serving, Boot

(* A call that failed excuses its session, for good.                        *)
LEMMA FailureExcuses ==
  ASSUME Shape, "failed" \in Tracked, NEW s \in Session, NEW ok \in BOOLEAN,
         hist' = Outcome(s, ok) \/ \E p : hist' = Works(s, p, ok)
  PROVE  /\ \A t \in Session : Excused(t) => Excused(t)'
         /\ ~ok => Excused(s)'
<1>1. hist \in [Session -> SUBSET Marks] /\ Outcome(s, ok) \in [Session -> SUBSET Marks]
  BY HistTyped DEF Shape, CoreTypes
<1>2. \A t \in Session : Outcome(s, ok)[t] \subseteq hist'[t]
  BY <1>1, MixesGrow DEF Works
<1> QED BY <1>1, <1>2 DEF Outcome, Mark, Excused

(* A status that a call sets on s is active only if it says so or failed.   *)
LEMMA StatusSet ==
  ASSUME Shape, NEW s \in Session, NEW new, new # "active", NEW ok \in BOOLEAN,
         UpdateStatus(s, new, ok)
  PROVE  /\ \A t \in Session : reg'[t].status = "active" => reg[t].status = "active"
         /\ ok => reg'[s].status # "active"
<1>1. reg \in [Session -> Records]
  BY DEF Shape, CoreTypes
<1>2. CASE ok /\ HasRecord(s)
  <2>1. reg' = [reg EXCEPT ![s].status = new] /\ reg[s] \in [status : Status, path : Path]
    BY <1>1, <1>2 DEF UpdateStatus, HasRecord, Records
  <2> QED BY <1>1, <2>1
<1>3. CASE ~(ok /\ HasRecord(s))
  BY <1>3 DEF UpdateStatus, HasRecord, NoRecord
<1> QED BY <1>2, <1>3

(* The first sweep: a session leaves it settled or excused.                 *)
LEMMA ActiveSweepSettles ==
  ASSUME Shape, Sweeping, "failed" \in Tracked, NEW ok \in BOOLEAN,
         \/ \E s \in Session, replayed \in BOOLEAN : SweepActive(s, ok, replayed)
         \/ SweepRename(ok) \/ SweepRepath(ok) \/ SweepStatus(ok)
  PROVE  Sweeping'
<1>0. boot \in [pc : BootPCs, todo : SUBSET Session, sid : Session \cup {None},
                place : Path \cup {None}]
      /\ reg \in [Session -> Records]
  BY DEF Shape, CoreTypes
<1>1. ASSUME NEW s \in Session, NEW replayed \in BOOLEAN, SweepActive(s, ok, replayed)
      PROVE  Sweeping'
  <2>1. /\ boot.pc = "active" /\ UNCHANGED reg /\ hist' = Works(s, MetaPlace(s), ok)
        /\ \E next \in {"restore", "rename", "demote"} :
              boot' = Boot(next, boot.todo \ {s}, s, reg[s].path)
    BY <1>1 DEF SweepActive
  <2>2. boot'.pc \in {"restore", "rename", "demote"} /\ boot'.todo = boot.todo \ {s}
        /\ boot'.sid = s
    BY <2>1 DEF Boot
  <2>3. \A t \in Session : Excused(t) => Excused(t)'
    BY <2>1, FailureExcuses
  <2> QED BY <2>1, <2>2, <2>3 DEF Sweeping
<1>2. CASE SweepRename(ok)
  <2>1. /\ boot.pc = "rename" /\ UNCHANGED reg /\ boot.sid \in Session
        /\ \E moved \in BOOLEAN : \E p : hist' = Works(boot.sid, p, moved)
        /\ boot'.pc \in {"repath", "demote"} /\ boot'.todo = boot.todo /\ boot'.sid = boot.sid
    BY <1>0, <1>2 DEF SweepRename, Shape, BootShape
  <2>2. \A t \in Session : Excused(t) => Excused(t)'
    BY <2>1, FailureExcuses
  <2> QED BY <2>1, <2>2 DEF Sweeping
<1>3. CASE SweepRepath(ok)
  <2>1. /\ boot.pc = "repath" /\ boot.sid \in Session /\ hist' = Outcome(boot.sid, ok)
        /\ boot'.pc = "demote" /\ boot'.todo = boot.todo /\ boot'.sid = boot.sid
    BY <1>0, <1>3 DEF SweepRepath, Shape, BootShape
  <2>2. \A t \in Session : reg'[t].status = reg[t].status
    BY <1>0, <1>3 DEF SweepRepath, UpdateMemoryPath, HasRecord, Records
  <2>3. \A t \in Session : Excused(t) => Excused(t)'
    BY <2>1, FailureExcuses
  <2> QED BY <2>1, <2>2, <2>3 DEF Sweeping
<1>4. CASE SweepStatus(ok)
  <2>0. PICK s \in Session : s = boot.sid
    BY <1>4 DEF SweepStatus, Shape, BootShape
  <2>1. /\ boot.pc \in {"demote", "restore"} /\ hist' = Outcome(s, ok)
        /\ boot'.pc = "active" /\ boot'.todo = boot.todo
    BY <1>4, <2>0 DEF SweepStatus, Boot
  <2>2. /\ \A t \in Session : reg'[t].status = "active" => reg[t].status = "active"
        /\ ok => reg'[s].status # "active"
    BY <1>4, <2>0, StatusSet DEF SweepStatus
  <2>3. (\A t \in Session : Excused(t) => Excused(t)') /\ (~ok => Excused(s)')
    BY <2>1, FailureExcuses
  <2> QED BY <2>0, <2>1, <2>2, <2>3 DEF Sweeping
<1> QED BY <1>1, <1>2, <1>3, <1>4

(* The later sweeps make no session active.                                 *)
LEMMA LaterSweepsSettle ==
  ASSUME Shape, Sweeping, "failed" \in Tracked, NEW ok \in BOOLEAN,
         \/ \E s \in Session : Reconcile(s, ok) \/ RetireRecord(s, ok)
         \/ RetireObjects(ok) \/ RetireDir(ok)
  PROVE  Sweeping'
<1>0. boot \in [pc : BootPCs, todo : SUBSET Session, sid : Session \cup {None},
                place : Path \cup {None}]
      /\ reg \in [Session -> Records]
  BY DEF Shape, CoreTypes
<1>1. ASSUME NEW s \in Session, Reconcile(s, ok) PROVE Sweeping'
  <2>1. boot.pc = "reconcile" /\ boot'.pc = "reconcile" /\ hist' = Outcome(s, ok)
    BY <1>0, <1>1 DEF Reconcile
  <2>2. \E new \in {"pending_annotation", "incomplete", "reasoning_degraded"} :
          UpdateStatus(s, new, ok)
    BY <1>1 DEF Reconcile
  <2>3. \A t \in Session : reg'[t].status = "active" => reg[t].status = "active"
    BY <2>2, StatusSet
  <2>4. \A t \in Session : Excused(t) => Excused(t)'
    BY <2>1, FailureExcuses
  <2> QED BY <2>1, <2>3, <2>4 DEF Sweeping
<1>2. ASSUME NEW s \in Session, RetireRecord(s, ok) PROVE Sweeping'
  <2>1. boot.pc = "retention" /\ boot'.pc \in {"objects", "retention"} /\ hist' = Outcome(s, ok)
    BY <1>0, <1>2 DEF RetireRecord, Boot
  <2>2. \A t \in Session : reg'[t].status = "active" => reg[t].status = "active"
    BY <1>0, <1>2 DEF RetireRecord, NoRecord
  <2>3. \A t \in Session : Excused(t) => Excused(t)'
    BY <2>1, FailureExcuses
  <2> QED BY <2>1, <2>2, <2>3 DEF Sweeping
<1>3. CASE RetireObjects(ok) \/ RetireDir(ok)
  <2>1. /\ boot.pc \in {"objects", "purge"} /\ boot'.pc \in {"purge", "retention"}
        /\ UNCHANGED reg /\ hist' = Outcome(boot.sid, ok) /\ boot.sid \in Session
    BY <1>0, <1>3 DEF RetireObjects, RetireDir, Boot, Shape, BootShape
  <2>2. \A t \in Session : Excused(t) => Excused(t)'
    BY <2>1, FailureExcuses
  <2> QED BY <2>1, <2>2 DEF Sweeping
<1> QED BY <1>1, <1>2, <1>3

(* One sweep follows the other; the last one makes ma-core serve.           *)
LEMMA SweepsFollow ==
  ASSUME Shape, Sweeping,
         StartReconcile \/ Serve \/ \E old \in SUBSET Session : StartRetention(old)
  PROVE  Sweeping'
<1>1. UNCHANGED <<reg, hist>>
  BY DEF StartReconcile, Serve, StartRetention
<1>2. CASE StartReconcile
  BY <1>1, <1>2 DEF StartReconcile, Boot, Sweeping, Excused
<1>3. CASE Serve
  BY <1>3 DEF Serve, Serving, Boot, Sweeping
<1>4. CASE \E old \in SUBSET Session : StartRetention(old)
  BY <1>1, <1>4 DEF StartRetention, Boot, Sweeping, Excused
<1> QED BY <1>2, <1>3, <1>4

LEMMA SweepingInductive ==
  ASSUME "failed" \in Tracked
  PROVE  Shape /\ ShotShape /\ Sweeping /\ [Next]_vars => Sweeping'
<1> SUFFICES ASSUME Shape, ShotShape, Sweeping, [Next]_vars PROVE Sweeping'
  OBVIOUS
<1>1. CASE BootNext
  <2>1. Outcomes \subseteq BOOLEAN
    BY DEF Outcomes
  <2>2. \/ StartReconcile \/ Serve \/ \E old \in SUBSET Session : StartRetention(old)
        \/ \E ok \in BOOLEAN :
              \/ \E s \in Session, replayed \in BOOLEAN : SweepActive(s, ok, replayed)
              \/ SweepRename(ok) \/ SweepRepath(ok) \/ SweepStatus(ok)
        \/ \E ok \in BOOLEAN :
              \/ \E s \in Session : Reconcile(s, ok) \/ RetireRecord(s, ok)
              \/ RetireObjects(ok) \/ RetireDir(ok)
    BY <1>1, <2>1 DEF BootNext
  <2> QED BY <2>2, ActiveSweepSettles, LaterSweepsSettle, SweepsFollow
<1>2. CASE \E r : Dies(r)
  BY <1>2, DeathListsActive
<1>3. CASE boot = Serving /\ UNCHANGED boot
  BY <1>3 DEF Sweeping, Serving, Boot
<1>4. CASE ShotStep
  <2>1. UNCHANGED <<reg, boot>> /\ \A s \in Session : hist[s] \subseteq hist'[s]
    BY <1>4, ShotLeaves DEF ShotStep
  <2> QED BY <2>1 DEF Sweeping, Excused
<1>5. CASE UNCHANGED vars
  BY <1>5 DEF vars, Sweeping, Excused
<1> QED BY <1>1, <1>2, <1>3, <1>4, <1>5, OnlySweeps, ServesOn

(* When start-up is over no session looks as if it was being captured,      *)
(* unless a call of a sweep failed for it: in every storage mode, whatever  *)
(* the crash left and however often start-up itself was cut short.          *)
THEOREM StartUpEnds ==
  ASSUME "failed" \in Tracked
  PROVE  Spec => StartupSettles
<1>1. Init => Sweeping
  BY DEF Init, Sweeping, Serving, Boot
<1>2. Shape /\ Sweeping /\ [Next]_vars =>
        [boot # Serving /\ boot' = Serving =>
            \A s \in Session : reg[s].status = "active" => "failed" \in hist[s]]_vars
  <2> SUFFICES ASSUME Shape, Sweeping, Next, boot # Serving, boot' = Serving
               PROVE  \A s \in Session : reg[s].status = "active" => "failed" \in hist[s]
    OBVIOUS
  <2>1. boot'.pc = "serving"
    BY DEF Serving, Boot
  <2>2. ASSUME NEW r, Dies(r) PROVE FALSE
    BY <2>1, <2>2 DEF Dies, Boot
  <2>3. BootNext
    BY <2>2, OnlySweeps DEF ShotStep, ShotRead, ShotWrite
  <2>4. boot \in [pc : BootPCs, todo : SUBSET Session, sid : Session \cup {None},
                  place : Path \cup {None}]
    BY DEF Shape, CoreTypes
  <2>5. ASSUME NEW ok, NEW s, NEW replayed,
               \/ SweepActive(s, ok, replayed) \/ SweepRename(ok) \/ SweepRepath(ok)
               \/ SweepStatus(ok) \/ RetireObjects(ok) \/ RetireDir(ok)
               \/ Reconcile(s, ok) \/ RetireRecord(s, ok)
        PROVE  FALSE
    <3>1. ~SweepActive(s, ok, replayed)
      BY <2>1 DEF SweepActive, Boot
    <3>2. SweepRename(ok) => boot'.pc \in {"repath", "demote"}
      BY <2>4 DEF SweepRename
    <3>3. ~SweepRepath(ok) /\ ~SweepStatus(ok)
      BY <2>1, <2>4 DEF SweepRepath, SweepStatus, Boot
    <3>4. ~RetireObjects(ok) /\ ~RetireDir(ok) /\ ~Reconcile(s, ok) /\ ~RetireRecord(s, ok)
      BY <2>1, <2>4 DEF RetireObjects, RetireDir, Reconcile, RetireRecord, Boot
    <3> QED BY <2>1, <2>5, <3>1, <3>2, <3>3, <3>4
  <2>6. ~StartReconcile /\ ~\E old \in SUBSET Session : StartRetention(old)
    BY <2>1 DEF StartReconcile, StartRetention, Boot
  <2>7. Serve
    BY <2>3, <2>5, <2>6 DEF BootNext
  <2> QED BY <2>7 DEF Serve, Sweeping, Excused
<1>3. Shape /\ ShotShape /\ Sweeping /\ [Next]_vars => Sweeping'
  BY SweepingInductive
<1> QED BY <1>1, <1>2, <1>3, InitShape, ShapeInductive, PTL DEF Spec, StartupSettles

-----------------------------------------------------------------------------
(* The history only grows.  What follows needs it where a session that is   *)
(* unmarked after a step was unmarked before.                               *)
MarksStay == \A s \in Session : hist[s] \subseteq hist'[s]

LEMMA MarkStays ==
  ASSUME Shape, NEW s \in Session, NEW ms, NEW ok, NEW p,
         \/ hist' \in {hist, Mark(s, ms), Outcome(s, ok), Works(s, p, ok)}
         \/ hist' \in {Arrives(s), Interrupts(s), Starts(s), Reports(s)}
  PROVE  MarksStay
<1>1. hist \in [Session -> SUBSET Marks]
  BY DEF Shape, CoreTypes
<1>2. \A x, m : x \in Session => \A t \in Session : hist[t] \subseteq Mark(x, m)[t]
  BY <1>1 DEF Mark
<1>3. \A t \in Session : hist[t] \subseteq Outcome(s, ok)[t]
  BY <1>1, <1>2 DEF Outcome
<1>4. \A t \in Session : hist[t] \subseteq Works(s, p, ok)[t]
  <2>1. Outcome(s, ok) \in [Session -> SUBSET Marks]
    BY HistTyped DEF Shape
  <2> QED BY <1>3, <2>1, MixesGrow DEF Works
<1> QED BY <1>2, <1>3, <1>4 DEF MarksStay, Arrives, Interrupts, Starts, Reports

LEMMA LoopMarksStay ==
  ASSUME Shape, NEW l \in Loop, LoopNext(l) \/ LoopStep(l) \/ LoopStops(l, FALSE)
  PROVE  MarksStay
<1>. DEFINE s == loop[l].sid
<1>0. Running(l) => s \in Session
  BY DEF Shape, LoopOK, Running
<1>1. LoopArm(l) \/ LoopDrain(l) \/ LoopEnd(l) \/ LoopStops(l, TRUE) \/ LoopStops(l, FALSE)
      => MarksStay
  BY DEF LoopArm, LoopDrain, LoopEnd, LoopStops, MarksStay
<1>2. ASSUME NEW ok,
             \/ LoopLoad(l, ok) \/ LoopConnect(l, ok) \/ LoopSettle(l, ok)
             \/ LoopInterrupt(l, ok) \/ LoopDemote(l, ok) \/ LoopRepath(l, ok)
      PROVE  MarksStay
  <2>1. Running(l) /\ hist' = Outcome(s, ok)
    BY <1>2 DEF LoopLoad, LoopConnect, LoopSettle, LoopInterrupt, LoopDemote, LoopRepath,
       Running
  <2> QED BY <1>0, <2>1, MarkStays
<1>3. ASSUME NEW ok, LoopBegin(l, ok) \/ LoopComplete(l, ok) \/ LoopFlag(l, ok)
      PROVE  MarksStay
  <2>1. Running(l) /\ hist' = Works(s, loop[l].place, ok)
    BY <1>3 DEF LoopBegin, LoopComplete, LoopFlag, Running
  <2> QED BY <1>0, <2>1, MarkStays
<1>4. ASSUME NEW ok, LoopRename(l, ok) PROVE MarksStay
  <2>1. Running(l) /\ \E b : hist' = Works(s, loop[l].place, b)
    BY <1>4 DEF LoopRename, Running
  <2> QED BY <1>0, <2>1, MarkStays
<1>5. CASE LoopStep(l)
  <2>1. Running(l) /\ \E b : hist' = Works(s, loop[l].place, b)
    BY <1>5 DEF LoopStep, Capturing, Running
  <2> QED BY <1>0, <2>1, MarkStays
<1>6. ASSUME NEW ok, LoopReadMetadata(l, ok) PROVE MarksStay
  <2>. DEFINE m == file[loop[l].place]
  <2>1. Running(l) /\ loop[l].place \in Place /\ m \in Meta \cup {NoFile}
    BY <1>6 DEF LoopReadMetadata, Running, Shape, LoopOK, CoreTypes
  <2>2. CASE hist' = hist \/ hist' = Outcome(s, ok)
    BY <1>0, <2>1, <2>2, MarkStays
  <2>3. CASE m # NoFile /\ hist' = Mixes(Mark(m.owner, {"shared"}), s, m.owner)
    <3>1. m.owner \in Session /\ hist \in [Session -> SUBSET Marks]
      BY <2>1, <2>3 DEF Meta, Shape, CoreTypes
    <3>2. Mark(m.owner, {"shared"}) \in [Session -> SUBSET Marks]
      BY <3>1, HistTyped DEF Shape
    <3>3. \A t \in Session : hist[t] \subseteq Mark(m.owner, {"shared"})[t]
      BY <3>1 DEF Mark
    <3>. HIDE DEF m
    <3> QED BY <2>3, <3>2, <3>3, MixesGrow DEF MarksStay
  <2> QED BY <1>6, <2>2, <2>3 DEF LoopReadMetadata
<1> QED BY <1>1, <1>2, <1>3, <1>4, <1>5, <1>6 DEF LoopNext

LEMMA ConnMarksStay ==
  ASSUME Shape, NEW c \in Conn, ConnNext(c) \/ Receive(c)
  PROVE  MarksStay
<1>. DEFINE s == conn[c].sid
<1>0. conn[c].pc # "idle" => s \in Session
  BY DEF Shape, ConnOK
<1>1. SendDone(c) \/ ClosingImage(c) \/ ForgetDegraded(c) \/ DropHandle(c) => MarksStay
  BY DEF SendDone, ClosingImage, ForgetDegraded, DropHandle, MarksStay
<1>2. ASSUME NEW ok,
             \/ GiveUp(c, ok) \/ RouteDirect(c, ok) \/ FetchObject(c, ok)
             \/ StoreComplete(c, ok) \/ SetReasoningStatus(c, ok)
             \/ DeleteRecord(c, ok) \/ DeleteObjects(c, ok)
      PROVE  MarksStay
  <2>1. conn[c].pc # "idle" /\ hist' = Outcome(s, ok)
    BY <1>2 DEF GiveUp, RouteDirect, FetchObject, StoreComplete, SetReasoningStatus,
       DeleteRecord, DeleteObjects
  <2> QED BY <1>0, <2>1, MarkStays
<1>3. ASSUME NEW ok, MarkComplete(c, ok) \/ ClearInProgress(c, ok) PROVE MarksStay
  <2>1. conn[c].pc # "idle" /\ hist' = Works(s, conn[c].place, ok)
    BY <1>3 DEF MarkComplete, ClearInProgress
  <2> QED BY <1>0, <2>1, MarkStays
<1>4. ASSUME NEW ok, NEW uploaded, InitialiseDir(c, ok, uploaded) PROVE MarksStay
  <2>1. conn[c].pc # "idle" /\ \E b : hist' = Outcome(s, b)
    BY <1>4 DEF InitialiseDir
  <2> QED BY <1>0, <2>1, MarkStays
<1>5. ASSUME NEW ok, LookUp(c, ok) PROVE MarksStay
  BY <1>5 DEF LookUp, MarksStay
<1>6. ASSUME NEW ok, PurgeDir(c, ok) PROVE MarksStay
  <2>1. /\ conn[c].pc # "idle"
        /\ hist' = Outcome(s, ok) \/ \E ms : hist' = Mark(s, ms)
    BY <1>6 DEF PurgeDir
  <2> QED BY <1>0, <2>1, MarkStays
<1>7. CASE Receive(c)
  <2>1. PICK t \in Session :
          \/ \E n \in Name : RegisterSession(c, t, n)
          \/ \E l \in Loop : StartWatch(c, t, l)
          \/ Done(c, t) \/ ReasoningDegraded(c, t) \/ CircuitReset(c, t)
          \/ \E force \in BOOLEAN, ok \in Outcomes : DeleteSession(c, t, force, ok)
    BY <1>7 DEF Receive
  <2>2. \/ hist' = [hist EXCEPT ![t] = @ \cup {"issued"}]
        \/ hist' \in {Arrives(t), Interrupts(t), Starts(t), Reports(t)}
    BY <2>1 DEF RegisterSession, StartWatch, Done, ReasoningDegraded, CircuitReset,
       DeleteSession
  <2>3. hist' = [hist EXCEPT ![t] = @ \cup {"issued"}] => MarksStay
    BY DEF MarksStay, Shape, CoreTypes
  <2> QED BY <2>2, <2>3, MarkStays
<1> QED BY <1>1, <1>2, <1>3, <1>4, <1>5, <1>6, <1>7 DEF ConnNext

LEMMA ProcessMarksStay ==
  ASSUME Shape,
         \/ BootNext \/ Signal \/ SignalNext \/ Crash
         \/ \E lost \in SUBSET Session : HostCrash(lost)
  PROVE  MarksStay
<1>1. boot.pc \in {"rename", "repath", "demote", "restore", "objects", "purge"} =>
         boot.sid \in Session
  BY DEF Shape, BootShape
<1>2. StartReconcile \/ Serve \/ (\E old \in SUBSET Session : StartRetention(old)) \/ Signal
      => MarksStay
  BY DEF StartReconcile, Serve, StartRetention, Signal, MarksStay
<1>3. ASSUME NEW ok, SweepRename(ok) PROVE MarksStay
  <2>1. boot.sid \in Session /\ \E p, b : hist' = Works(boot.sid, p, b)
    BY <1>1, <1>3 DEF SweepRename
  <2> QED BY <2>1, MarkStays
<1>4. ASSUME NEW ok, SweepRepath(ok) \/ SweepStatus(ok) \/ RetireObjects(ok) \/ RetireDir(ok)
      PROVE  MarksStay
  <2>1. boot.sid \in Session /\ hist' = Outcome(boot.sid, ok)
    BY <1>1, <1>4 DEF SweepRepath, SweepStatus, RetireObjects, RetireDir
  <2> QED BY <2>1, MarkStays
<1>5. ASSUME NEW ok, NEW s \in Session, NEW replayed,
             SweepActive(s, ok, replayed) \/ Reconcile(s, ok) \/ RetireRecord(s, ok)
      PROVE  MarksStay
  <2>1. hist' = Outcome(s, ok) \/ \E p : hist' = Works(s, p, ok)
    BY <1>5 DEF SweepActive, Reconcile, RetireRecord
  <2> QED BY <2>1, MarkStays
<1>6. BootNext => MarksStay
  BY <1>2, <1>3, <1>4, <1>5 DEF BootNext
<1>7. ASSUME NEW ok, StoreInterrupted(ok) PROVE MarksStay
  <2>1. stop.sid \in Session /\ hist' = Outcome(stop.sid, ok)
    BY <1>7 DEF StoreInterrupted, Shape, CoreTypes
  <2> QED BY <2>1, MarkStays
<1>8. ASSUME NEW ok, NEW s \in Session, FlagInterrupted(s, ok) PROVE MarksStay
  <2>1. hist' = Outcome(s, ok) \/ \E p : hist' = Works(s, p, ok)
    BY <1>8 DEF FlagInterrupted
  <2> QED BY <2>1, MarkStays
<1>9. ASSUME NEW r, Dies(r) PROVE MarksStay
  <2>1. \A s \in Session : hist'[s] \in {hist[s], hist[s] \cup ({"torn"} \cap Tracked)}
    BY <1>9 DEF Dies
  <2> QED BY <2>1 DEF MarksStay
<1> QED BY <1>2, <1>6, <1>7, <1>8, <1>9 DEF SignalNext, Exit, Crash, HostCrash

LEMMA HistoryGrows ==
  ASSUME Shape, ShotShape, [Next]_vars
  PROVE  MarksStay
<1>1. CASE \E k \in Shot : ShotRead(k) \/ ShotWrite(k)
  BY <1>1, ShotLeaves DEF MarksStay
<1>2. CASE UNCHANGED vars
  BY <1>2 DEF vars, MarksStay
<1> QED BY <1>1, <1>2, LoopMarksStay, ConnMarksStay, ProcessMarksStay DEF Next

-----------------------------------------------------------------------------
(* Directories.  What follows is about local mode, where a memory directory *)
(* is found by a name that several sessions may have asked for.             *)
Crowded(s) == "crowded" \in hist[s]
Shared(s) == "shared" \in hist[s]

(* A loop that has metadata.json of its directory in hand, and a message    *)
(* that deletes.                                                            *)
Working(v) == v.pc \in {"connect", "arm", "begin", "capture", "drain", "complete",
                        "interrupt", "demote", "flag", "rename"}
Deleting(m) == m.pc \in {"unhandle", "wipe", "objects", "purge"}

(* Before its id is drawn nothing knows of a session.                       *)
Unknown(s) ==
    /\ ~HasRecord(s)
    /\ \A p \in Place : file[p].owner # s
    /\ \A l \in Loop : loop[l].sid # s /\ loop[l].mem.owner # s
    /\ \A c \in Conn : conn[c].sid # s
DrawnFirst == \A s \in Session : ~Issued(s) => Unknown(s)

(* What a closing-image task has read is of a session that is drawn.        *)
ShotsKnown ==
    \A k \in Shot : shot[k].mem.owner # None => Issued(shot[k].mem.owner)

LEMMA CopiesKnown ==
  ASSUME Local, Shape, ShotShape, ShotsKnown, DrawnFirst, [Next]_vars
  PROVE  ShotsKnown'
<1>1. \A s \in Session : Issued(s) => Issued(s)'
  BY HistoryGrows DEF MarksStay, Issued
<1>2. \A k \in Shot : shot[k].mem.owner # None => shot[k].mem.owner \in Session
  BY DEF ShotShape, ShotOK, Shots, Meta, NoFile
<1>3. NoFile.owner = None /\ NoShot.mem = NoFile
  BY DEF NoFile, NoShot
<1>4. \A k \in Shot : \/ shot'[k].mem \in {shot[k].mem, NoFile}
                      \/ \E p \in Place : file[p] # NoFile /\ shot'[k].mem = file[p]
  <2>1. CASE \E k \in Shot : ShotRead(k)
    BY <1>3, <2>1 DEF ShotRead, ShotShape, ShotOK, Shots
  <2>2. CASE \E k \in Shot : ShotWrite(k)
    BY <1>3, <2>2 DEF ShotWrite, ShotShape
  <2>3. CASE UNCHANGED shot
    BY <2>3
  <2>4. CASE \E c \in Conn : ConnNext(c) \/ Receive(c)
    BY <2>4, ConnLeavesShots DEF NoNewCopy
  <2>5. CASE \E l \in Loop : LoopNext(l) \/ LoopStep(l) \/ LoopStops(l, FALSE)
    BY <2>3, <2>5, LoopLeavesShots
  <2>6. CASE \/ BootNext \/ Signal \/ SignalNext \/ Crash
             \/ \E lost \in SUBSET Session : HostCrash(lost)
    BY <2>6, ProcessLeavesShots DEF NoNewCopy
  <2> QED BY <2>1, <2>2, <2>3, <2>4, <2>5, <2>6 DEF Next, vars
<1>5. \A p \in Place : file[p] # NoFile => file[p].owner \in Session /\ Issued(file[p].owner)
  <2>1. \A p \in Place : file[p] # NoFile => file[p].owner \in Session
    BY DEF Shape, CoreTypes, Meta
  <2> QED BY <2>1 DEF DrawnFirst, Unknown
<1> QED BY <1>1, <1>2, <1>3, <1>4, <1>5 DEF ShotsKnown, Issued

(* The metadata a loop holds is its session's, or its owner is shared.      *)
OwnCopy ==
    \A l \in Loop : loop[l].mem.owner \in {None, loop[l].sid} \/ Shared(loop[l].mem.owner)

(* One loop works on a session, and none while it is being registered.      *)
OneAtWork ==
    /\ \A k, l \in Loop : loop[k].sid = loop[l].sid /\ loop[k].sid # None =>
          k = l \/ Crowded(loop[k].sid)
    /\ \A c \in Conn, l \in Loop : conn[c].pc = "init" /\ loop[l].sid = conn[c].sid =>
          Crowded(conn[c].sid)

(* The directory of s was renamed to q, which the record does not say yet.  *)
Plain(p) == <<p[1], FALSE>>
Moved(s, q) ==
    /\ q[2]
    /\ HasRecord(s) /\ ~Crowded(s) => q \in Candidates(reg[s].path)
    /\ file[Plain(q)].owner = s =>
          Crowded(s) \/ Shared(s) \/ "stale" \in hist[s] \/ ~HasRecord(s)

(* What a task took for the path of its session still is.                   *)
ConnPath(c) ==
    conn[c].pc = "init" /\ HasRecord(conn[c].sid) /\ ~Crowded(conn[c].sid) =>
        reg[conn[c].sid].path = conn[c].place
LoopPath(l) ==
    /\ /\ Working(loop[l]) \/ loop[l].pc = "read"
       /\ HasRecord(loop[l].sid) /\ ~Crowded(loop[l].sid)
       => reg[loop[l].sid].path = loop[l].place
    /\ loop[l].pc = "repath" => Moved(loop[l].sid, loop[l].place)
BootPath ==
    /\ boot.pc = "rename" /\ HasRecord(boot.sid) => reg[boot.sid].path = boot.place
    /\ boot.pc = "repath" => Moved(boot.sid, boot.place)
PathsKept == (\A c \in Conn : ConnPath(c)) /\ (\A l \in Loop : LoopPath(l)) /\ BootPath

(* While nothing was raced or shared, a loop works in a directory of its    *)
(* session's, and nothing deletes it.                                       *)
Clean == \A s \in Session : hist[s] \cap {"raced", "shared", "stale"} = {}
OwnDirectory ==
    /\ \A s \in Session : Crowded(s) => "raced" \in hist[s]
    /\ Clean => /\ \A l \in Loop : Working(loop[l]) => file[loop[l].place].owner = loop[l].sid
                /\ \A c \in Conn, l \in Loop : Deleting(conn[c]) => conn[c].sid # loop[l].sid

DirInv ==
    /\ DrawnFirst /\ OwnCopy /\ OneAtWork /\ PathsKept
    /\ PurgeFindsDirectory /\ OwnDirectory
    /\ \A c \in Conn : conn[c].pc # "store"

(* A step that leaves all this aside: records keep their path or go, files  *)
(* keep their owner, go, or are written by who knows of the directory, and  *)
(* what a task knows of a directory stays or has just been read.            *)
RegAside ==
    \A s \in Session : reg'[s] # NoRecord => reg[s] # NoRecord /\ reg'[s].path = reg[s].path
MovedNow(s, q) ==
    /\ q[2]
    /\ reg'[s] # NoRecord /\ "crowded" \notin hist'[s] => q \in Candidates(reg'[s].path)
    /\ file'[Plain(q)].owner = s =>
          hist'[s] \cap {"crowded", "shared", "stale"} # {} \/ reg'[s] = NoRecord
Written(p) ==
    \/ \E l \in Loop : Working(loop[l]) /\ p = loop[l].place /\ file'[p].owner = loop[l].mem.owner
    \/ \E c \in Conn : conn[c].pc = "init" /\ p = conn[c].place /\ file'[p].owner = conn[c].sid
Restored(p) ==   \* a closing-image task put an old copy back
    LET s == file'[p].owner IN s \in Session /\ Issued(s) /\ "stale" \in hist'[s]
FileAside ==
    /\ \A p \in Place : file'[p].owner \in {None, file[p].owner} \/ Written(p) \/ Restored(p)
    /\ Clean /\ Clean' =>
          \A l \in Loop : Working(loop[l]) => file'[loop[l].place].owner = loop[l].sid
HistAside ==
    \A s \in Session : hist[s] \subseteq hist'[s] /\ ("crowded" \in hist'[s] => Crowded(s))
Copied(v, w) ==   \* metadata.json was just read
    /\ v.pc = "read" /\ w.sid = v.sid
    /\ w.mem.owner = file[v.place].owner /\ w.mem.owner \in Session
    /\ w.mem.owner = v.sid \/ "shared" \in hist'[w.mem.owner]
LoopAside(v, w) ==
    /\ w.sid \in {None, v.sid}
    /\ w.mem.owner = None \/ (w.mem.owner = v.mem.owner /\ w.sid = v.sid) \/ Copied(v, w)
    /\ Working(w) => /\ w.place = v.place /\ w.sid = v.sid
                     /\ Working(v) \/ (v.pc = "read" /\ Copied(v, w) /\ UNCHANGED file)
    /\ w.pc = "read" => /\ w.sid = v.sid
                        /\ (v.pc = "read" /\ w.place = v.place) \/ w.place = reg'[w.sid].path
    /\ w.pc = "repath" => v.pc = "repath" /\ w.place = v.place /\ w.sid = v.sid
ConnAside(m, n) ==
    /\ n.sid \in {None, m.sid} \/ Issued(n.sid)
    /\ n.pc = "init" => m.pc = "init" /\ n.place = m.place /\ n.sid = m.sid
    /\ Deleting(n) => \/ Deleting(m) /\ n.sid = m.sid
                      \/ ~Clean'
                      \/ \A l \in Loop : loop[l].sid # n.sid
    /\ n.pc # "store"
BootAside ==
    /\ boot'.pc = "rename" =>
          \/ boot.pc = "rename" /\ boot'.sid = boot.sid /\ boot'.place = boot.place
          \/ boot'.place = reg'[boot'.sid].path
    /\ boot'.pc = "repath" =>
          boot.pc = "repath" /\ boot'.sid = boot.sid /\ boot'.place = boot.place
Aside ==
    /\ RegAside /\ FileAside /\ HistAside /\ BootAside
    /\ \A l \in Loop : LoopAside(loop[l], loop'[l])
    /\ \A c \in Conn : ConnAside(conn[c], conn'[c])

(* Sessions of loops, messages and metadata are sessions.                   *)
LEMMA DirTypes ==
  ASSUME Shape
  PROVE  /\ \A l \in Loop : /\ loop[l] \in Loops /\ LoopOK(loop[l])
                            /\ loop[l].sid \in Session \cup {None}
                            /\ loop[l].mem.owner \in Session \cup {None}
         /\ \A c \in Conn : conn[c].sid \in Session \cup {None} /\ ConnOK(conn[c])
         /\ \A p \in Place : file[p].owner \in Session \cup {None}
         /\ \A s \in Session : reg[s] \in Records
         /\ hist \in [Session -> SUBSET Marks]
         /\ boot.sid \in Session \cup {None} /\ None \notin Session
<1>1. ASSUME NEW m \in Meta \cup {NoFile} PROVE m.owner \in Session \cup {None}
  BY DEF Meta, NoFile
<1>2. ASSUME NEW l \in Loop
      PROVE  /\ loop[l] \in Loops /\ LoopOK(loop[l])
             /\ loop[l].sid \in Session \cup {None}
             /\ loop[l].mem.owner \in Session \cup {None}
  <2>1. loop[l] \in Loops /\ LoopOK(loop[l])
    BY DEF Shape, CoreTypes
  <2> QED BY <1>1, <2>1 DEF Loops
<1>3. ASSUME NEW c \in Conn PROVE conn[c].sid \in Session \cup {None} /\ ConnOK(conn[c])
  BY DEF Shape, CoreTypes, Messages
<1>4. ASSUME NEW p \in Place PROVE file[p].owner \in Session \cup {None}
  BY <1>1 DEF Shape, CoreTypes
<1>5. boot.sid \in Session \cup {None}
  BY DEF Shape, CoreTypes
<1> QED BY <1>2, <1>3, <1>4, <1>5, NoneAssumption DEF Shape, CoreTypes

(* Nothing learns of a session before its id is drawn.                      *)
LEMMA AsideDrawn ==
  ASSUME Shape, Shape', DrawnFirst, Aside
  PROVE  DrawnFirst'
<1> SUFFICES ASSUME NEW s \in Session, ~Issued(s)' PROVE Unknown(s)'
  BY DEF DrawnFirst
<1>1. ~Issued(s) /\ s # None
  BY DirTypes DEF Aside, HistAside, Issued
<1>2. Unknown(s)
  BY <1>1 DEF DrawnFirst
<1>3. reg'[s] = NoRecord
  BY <1>2 DEF Aside, RegAside, Unknown, HasRecord
<1>4. \A p \in Place : file'[p].owner # s
  BY <1>1, <1>2 DEF Aside, FileAside, Written, Restored, Unknown
<1>5. \A l \in Loop : loop[l].pc = "read" => loop[l].place \in Place
  BY DEF Shape, LoopOK
<1>6. ASSUME NEW l \in Loop PROVE loop'[l].sid # s /\ loop'[l].mem.owner # s
  <2>1. LoopAside(loop[l], loop'[l])
    BY DEF Aside
  <2>2. loop[l].sid # s /\ loop[l].mem.owner # s
    BY <1>2 DEF Unknown
  <2>3. loop[l].pc = "read" => file[loop[l].place].owner # s
    BY <1>2, <1>5 DEF Unknown
  <2> QED BY <1>1, <2>1, <2>2, <2>3 DEF LoopAside, Copied
<1>7. \A c \in Conn : conn'[c].sid # s
  BY <1>1, <1>2 DEF Aside, ConnAside, Unknown
<1> QED BY <1>3, <1>4, <1>6, <1>7 DEF Unknown, HasRecord, Place, Path

(* What a loop holds stays its session's, or its owner is marked shared.    *)
LEMMA AsideOwnCopy ==
  ASSUME Shape, Shape', OwnCopy, Aside
  PROVE  OwnCopy'
<1> SUFFICES ASSUME NEW l \in Loop, loop'[l].mem.owner # None, loop'[l].mem.owner # loop'[l].sid
             PROVE  "shared" \in hist'[loop'[l].mem.owner]
  BY DEF OwnCopy, Shared
<1>1. LoopAside(loop[l], loop'[l])
  BY DEF Aside
<1>2. CASE loop'[l].mem.owner = loop[l].mem.owner /\ loop'[l].sid = loop[l].sid
  <2>1. loop[l].mem.owner \in Session
    BY <1>2, DirTypes
  <2>2. "shared" \in hist[loop[l].mem.owner]
    BY <1>2 DEF OwnCopy, Shared
  <2>3. hist[loop[l].mem.owner] \subseteq hist'[loop[l].mem.owner]
    BY <2>1 DEF Aside, HistAside
  <2> QED BY <1>2, <2>2, <2>3
<1>3. CASE Copied(loop[l], loop'[l])
  BY <1>3 DEF Copied
<1> QED BY <1>1, <1>2, <1>3 DEF LoopAside

(* No second task starts to work on a session.                              *)
LEMMA AsideOneAtWork ==
  ASSUME Shape, Shape', OneAtWork, Aside
  PROVE  OneAtWork'
<1>0. ASSUME NEW s \in Session, Crowded(s) PROVE "crowded" \in hist'[s]
  <2>1. hist[s] \subseteq hist'[s]
    BY DEF Aside, HistAside
  <2> QED BY <1>0, <2>1 DEF Crowded
<1>1. ASSUME NEW k \in Loop, NEW l \in Loop, loop'[k].sid = loop'[l].sid, loop'[k].sid # None,
             k # l
      PROVE  "crowded" \in hist'[loop'[k].sid]
  <2>0. LoopAside(loop[k], loop'[k]) /\ LoopAside(loop[l], loop'[l])
    BY DEF Aside
  <2>1. loop'[k].sid = loop[k].sid /\ loop'[l].sid = loop[l].sid
    BY <1>1, <2>0 DEF LoopAside
  <2>2. loop[k].sid \in Session
    BY <1>1, <2>1, DirTypes
  <2>3. Crowded(loop[k].sid)
    BY <1>1, <2>1 DEF OneAtWork
  <2> QED BY <1>0, <2>1, <2>2, <2>3
<1>2. ASSUME NEW c \in Conn, NEW l \in Loop, conn'[c].pc = "init", loop'[l].sid = conn'[c].sid
      PROVE  "crowded" \in hist'[conn'[c].sid]
  <2>0. LoopAside(loop[l], loop'[l]) /\ ConnAside(conn[c], conn'[c])
    BY DEF Aside
  <2>1. conn[c].pc = "init" /\ conn'[c].sid = conn[c].sid
    BY <1>2, <2>0 DEF ConnAside
  <2>2. conn[c].sid \in Session /\ conn[c].sid # None
    BY <2>1, DirTypes DEF ConnOK
  <2>3. loop[l].sid = conn[c].sid
    BY <1>2, <2>0, <2>1, <2>2 DEF LoopAside
  <2>4. Crowded(conn[c].sid)
    BY <2>1, <2>3 DEF OneAtWork
  <2> QED BY <1>0, <2>1, <2>2, <2>4
<1> QED BY <1>1, <1>2 DEF OneAtWork, Crowded

(* A directory whose renaming the record does not say yet stays away from   *)
(* its old name, unless another task of its session, or a loop of another   *)
(* session, writes.                                                         *)
LEMMA AsideMoved ==
  ASSUME Local, Shape, OwnCopy, OneAtWork, Aside, NEW s \in Session, NEW q \in Path,
         Moved(s, q),
         \/ (\A k \in Loop : ~Working(loop[k])) /\ \A c \in Conn : conn[c].pc # "init"
         \/ \E l \in Loop : loop[l].sid = s /\ ~Working(loop[l])
  PROVE  MovedNow(s, q)
<1> DEFINE p == Plain(q)
<1>0. p \in Place /\ s # None
  BY DirTypes DEF Place, Path, Plain
<1>1. hist[s] \subseteq hist'[s]
  BY DEF Aside, HistAside
<1>2. reg'[s] # NoRecord => reg[s] # NoRecord /\ reg'[s].path = reg[s].path
  BY DEF Aside, RegAside
<1>3. CASE file'[p].owner = file[p].owner \/ file'[p].owner = None
  BY <1>0, <1>1, <1>2, <1>3 DEF Moved, MovedNow, HasRecord, Crowded, Shared, Candidates, Incomplete
<1>4. CASE Written(p) /\ file'[p].owner = s
  <2>1. PICK l \in Loop : loop[l].sid = s /\ ~Working(loop[l])
    BY <1>4 DEF Written
  <2>2. ASSUME NEW k \in Loop, Working(loop[k]), loop[k].mem.owner = s
        PROVE  Crowded(s) \/ Shared(s)
    BY <1>0, <2>1, <2>2 DEF OwnCopy, OneAtWork
  <2>3. ASSUME NEW c \in Conn, conn[c].pc = "init", conn[c].sid = s
        PROVE  Crowded(s)
    BY <2>1, <2>3 DEF OneAtWork
  <2>4. Crowded(s) \/ Shared(s)
    BY <1>4, <2>2, <2>3 DEF Written
  <2> QED BY <1>1, <1>2, <2>4
          DEF Moved, MovedNow, HasRecord, Crowded, Shared, Candidates, Incomplete
<1>5. CASE file'[p].owner # s
  BY <1>1, <1>2, <1>5 DEF Moved, MovedNow, HasRecord, Crowded, Shared, Candidates, Incomplete
<1>6. CASE Restored(p) /\ file'[p].owner = s
  BY <1>1, <1>2, <1>6
     DEF Restored, Moved, MovedNow, HasRecord, Crowded, Shared, Candidates, Incomplete
<1> QED BY <1>0, <1>3, <1>4, <1>5, <1>6 DEF Aside, FileAside

(* What the tasks took for the path of their sessions stays that path.      *)
LEMMA AsidePaths ==
  ASSUME Local, Shape, Shape', DirInv, Aside
  PROVE  PathsKept'
<1>1. ASSUME NEW s \in Session
      PROVE  /\ hist[s] \subseteq hist'[s]
             /\ reg'[s] # NoRecord => reg[s] # NoRecord /\ reg'[s].path = reg[s].path
  BY DEF Aside, HistAside, RegAside
<1>2. ASSUME NEW c \in Conn PROVE ConnPath(c)'
  <2> SUFFICES ASSUME conn'[c].pc = "init", reg'[conn'[c].sid] # NoRecord,
                      "crowded" \notin hist'[conn'[c].sid]
               PROVE  reg'[conn'[c].sid].path = conn'[c].place
    BY DEF ConnPath, Crowded, HasRecord
  <2>1. ConnAside(conn[c], conn'[c])
    BY DEF Aside
  <2>2. conn[c].pc = "init" /\ conn'[c].place = conn[c].place /\ conn'[c].sid = conn[c].sid
    BY <2>1 DEF ConnAside
  <2>3. conn[c].sid \in Session
    BY <2>2, DirTypes DEF ConnOK
  <2>4. HasRecord(conn[c].sid) /\ ~Crowded(conn[c].sid)
        /\ reg'[conn[c].sid].path = reg[conn[c].sid].path
    BY <1>1, <2>2, <2>3 DEF Crowded, HasRecord
  <2>5. ConnPath(c)
    BY DEF DirInv, PathsKept
  <2> QED BY <2>2, <2>4, <2>5 DEF ConnPath
<1>3. ASSUME NEW l \in Loop PROVE LoopPath(l)'
  <2>1. LoopAside(loop[l], loop'[l])
    BY DEF Aside
  <2>2. LoopPath(l)
    BY DEF DirInv, PathsKept
  <2>3. ASSUME Working(loop'[l]) \/ loop'[l].pc = "read", reg'[loop'[l].sid] # NoRecord,
               "crowded" \notin hist'[loop'[l].sid]
        PROVE  reg'[loop'[l].sid].path = loop'[l].place
    <3>1. CASE loop'[l].place = reg'[loop'[l].sid].path
      BY <3>1
    <3>2. CASE loop'[l].place = loop[l].place /\ (Working(loop[l]) \/ loop[l].pc = "read")
      <4>1. loop'[l].sid = loop[l].sid /\ loop[l].sid \in Session
        BY <2>1, <2>3, <3>2, DirTypes DEF LoopAside, Working, LoopOK
      <4>2. HasRecord(loop[l].sid) /\ ~Crowded(loop[l].sid)
            /\ reg'[loop[l].sid].path = reg[loop[l].sid].path
        BY <1>1, <2>3, <4>1 DEF Crowded, HasRecord
      <4> QED BY <2>2, <3>2, <4>1, <4>2 DEF LoopPath
    <3> QED BY <2>1, <2>3, <3>1, <3>2 DEF LoopAside
  <2>4. ASSUME loop'[l].pc = "repath" PROVE MovedNow(loop'[l].sid, loop'[l].place)
    <3>1. loop[l].pc = "repath" /\ loop'[l].place = loop[l].place /\ loop'[l].sid = loop[l].sid
      BY <2>1, <2>4 DEF LoopAside
    <3>2. loop[l].sid \in Session /\ loop[l].place \in Path
      BY <3>1, DirTypes, Places DEF LoopOK
    <3>3. Moved(loop[l].sid, loop[l].place) /\ ~Working(loop[l])
      BY <2>2, <3>1 DEF LoopPath, Working
    <3>4. ASSUME NEW s \in Session, NEW q \in Path, Moved(s, q), loop[l].sid = s
          PROVE  MovedNow(s, q)
      BY <3>3, <3>4, AsideMoved DEF DirInv
    <3>5. MovedNow(loop[l].sid, loop[l].place)
      BY <3>2, <3>3, <3>4
    <3> QED BY <3>1, <3>5
  <2> QED BY <2>3, <2>4 DEF LoopPath, Moved, MovedNow, HasRecord, Crowded, Shared
<1>4. BootPath'
  <2>1. BootAside /\ BootPath
    BY DEF Aside, DirInv, PathsKept
  <2>2. ASSUME boot'.pc = "rename", reg'[boot'.sid] # NoRecord
        PROVE  reg'[boot'.sid].path = boot'.place
    <3>1. CASE boot.pc = "rename" /\ boot'.sid = boot.sid /\ boot'.place = boot.place
      <4>1. boot.sid \in Session
        BY <3>1 DEF Shape, BootShape
      <4> QED BY <1>1, <2>1, <2>2, <3>1, <4>1 DEF BootPath, HasRecord
    <3> QED BY <2>1, <2>2, <3>1 DEF BootAside
  <2>3. ASSUME boot'.pc = "repath" PROVE MovedNow(boot'.sid, boot'.place)
    <3>1. boot.pc = "repath" /\ boot'.place = boot.place /\ boot'.sid = boot.sid
      BY <2>1, <2>3 DEF BootAside
    <3>2. boot.sid \in Session /\ boot.place \in Path /\ Moved(boot.sid, boot.place)
      BY <2>1, <3>1 DEF BootPath, Shape, BootShape
    <3>3. boot # Serving
      BY <3>1 DEF Serving, Boot
    <3>4. (\A k \in Loop : ~Working(loop[k])) /\ \A c \in Conn : conn[c].pc # "init"
      BY <3>3 DEF Shape, BootShape, Working
    <3>5. ASSUME NEW s \in Session, NEW q \in Path, Moved(s, q)
          PROVE  MovedNow(s, q)
      BY <3>4, <3>5, AsideMoved DEF DirInv
    <3>6. MovedNow(boot.sid, boot.place)
      BY <3>2, <3>5
    <3> QED BY <3>1, <3>6
  <2> QED BY <2>2, <2>3 DEF BootPath, Moved, MovedNow, HasRecord, Crowded, Shared
<1> QED BY <1>2, <1>3, <1>4 DEF PathsKept

(* No directory gets out of reach of the path in the record.                *)
LEMMA AsideFinds ==
  ASSUME Local, Shape, Shape', DirInv, Aside
  PROVE  PurgeFindsDirectory'
<1> SUFFICES ASSUME NEW p \in Place, NEW s \in Session, file'[p].owner = s, reg'[s] # NoRecord,
                    hist'[s] \cap {"crowded", "shared", "stale"} = {}
             PROVE  p \in Candidates(reg'[s].path)
  <2>1. Place' = Place /\ \A p \in Place : file'[p].owner # None => file'[p].owner \in Session
    <3>1. Place' = Place
      BY DEF Place, Path
    <3>2. file' \in [Place -> Meta \cup {NoFile}]
      BY <3>1 DEF Shape, CoreTypes
    <3> QED BY <3>1, <3>2 DEF Meta, NoFile
  <2> QED BY <2>1 DEF PurgeFindsDirectory, HasRecord, Candidates, Incomplete
<1>1. /\ hist[s] \subseteq hist'[s]
      /\ reg[s] # NoRecord /\ reg'[s].path = reg[s].path
  BY DEF Aside, HistAside, RegAside
<1>2. /\ HasRecord(s) /\ ~Crowded(s) /\ ~Shared(s) /\ s # None
      /\ "stale" \notin hist[s] /\ ~Restored(p)
  BY <1>1, DirTypes DEF HasRecord, Crowded, Shared, Restored
<1>3. CASE file[p].owner = s
  <2>1. hist[s] \cap {"crowded", "shared", "stale"} = {}
    BY <1>2 DEF Crowded, Shared
  <2>2. p \in Candidates(reg[s].path)
    BY <1>2, <1>3, <2>1 DEF DirInv, PurgeFindsDirectory
  <2> QED BY <1>1, <2>2
<1>4. CASE Written(p)
  <2>1. ASSUME NEW l \in Loop, Working(loop[l]), p = loop[l].place, loop[l].mem.owner = s
        PROVE  p = reg[s].path
    <3>1. loop[l].sid = s
      BY <1>2, <2>1 DEF DirInv, OwnCopy
    <3>2. LoopPath(l)
      BY DEF DirInv, PathsKept
    <3> QED BY <1>2, <2>1, <3>1, <3>2 DEF LoopPath
  <2>2. ASSUME NEW c \in Conn, conn[c].pc = "init", p = conn[c].place, conn[c].sid = s
        PROVE  p = reg[s].path
    <3>1. ConnPath(c)
      BY DEF DirInv, PathsKept
    <3> QED BY <1>2, <2>2, <3>1 DEF ConnPath
  <2>3. p = reg[s].path
    BY <1>4, <2>1, <2>2 DEF Written
  <2>4. p # None
    BY Places, NoneAssumption, <1>2, <2>3, DirTypes DEF Records, HasRecord, NoRecord, Path
  <2> QED BY <1>1, <2>3, <2>4 DEF Candidates
<1> QED BY <1>2, <1>3, <1>4 DEF Aside, FileAside

(* While nothing is raced or shared, loops stay in directories of their     *)
(* own.                                                                     *)
LEMMA AsideOwn ==
  ASSUME Local, Shape, Shape', DirInv, Aside
  PROVE  OwnDirectory'
<1>0. ASSUME NEW s \in Session PROVE hist[s] \subseteq hist'[s]
  BY DEF Aside, HistAside
<1>1. ASSUME NEW s \in Session, "crowded" \in hist'[s] PROVE "raced" \in hist'[s]
  BY <1>0, <1>1 DEF Aside, HistAside, DirInv, OwnDirectory
<1>. DEFINE CleanNow == \A s \in Session : hist'[s] \cap {"raced", "shared", "stale"} = {}
<1>2. CleanNow => Clean /\ Clean'
  BY <1>0 DEF Clean
<1>3. ASSUME CleanNow, NEW l \in Loop, Working(loop'[l])
      PROVE  file'[loop'[l].place].owner = loop'[l].sid
  <2>1. LoopAside(loop[l], loop'[l])
    BY DEF Aside
  <2>2. CASE Working(loop[l])
    BY <1>2, <1>3, <2>1, <2>2 DEF Aside, FileAside, LoopAside
  <2>3. CASE loop[l].pc = "read" /\ Copied(loop[l], loop'[l]) /\ UNCHANGED file
    <3>1. loop'[l].mem.owner = loop[l].sid
      BY <1>3, <2>3 DEF Copied
    <3> QED BY <1>3, <2>1, <2>3, <3>1 DEF LoopAside, Copied
  <2> QED BY <1>3, <2>1, <2>2, <2>3 DEF LoopAside
<1>4. ASSUME CleanNow, NEW c \in Conn, NEW l \in Loop, Deleting(conn'[c])
      PROVE  conn'[c].sid # loop'[l].sid
  <2>1. LoopAside(loop[l], loop'[l]) /\ ConnAside(conn[c], conn'[c])
    BY DEF Aside
  <2>2. conn'[c].sid # None
    <3>1. ConnOK(conn'[c])
      BY DEF Shape
    <3> QED BY <1>4, <3>1, NoneAssumption DEF ConnOK, Deleting
  <2>3. conn'[c].sid # loop[l].sid
    BY <1>2, <1>4, <2>1 DEF ConnAside, DirInv, OwnDirectory, Clean
  <2> QED BY <2>1, <2>2, <2>3 DEF LoopAside
<1> QED BY <1>1, <1>3, <1>4 DEF OwnDirectory, Crowded, Clean

(* Such a step keeps the whole invariant.                                   *)
LEMMA AsideKeeps ==
  ASSUME Local, Shape, Shape', DirInv, Aside
  PROVE  DirInv'
<1>1. DrawnFirst' /\ OwnCopy' /\ OneAtWork'
  BY AsideDrawn, AsideOwnCopy, AsideOneAtWork DEF DirInv
<1>2. PathsKept' /\ PurgeFindsDirectory' /\ OwnDirectory'
  BY AsidePaths, AsideFinds, AsideOwn
<1>3. \A c \in Conn : conn'[c].pc # "store"
  BY DEF Aside, ConnAside
<1> QED BY <1>1, <1>2, <1>3 DEF DirInv

-----------------------------------------------------------------------------
(* What is untouched stays aside.                                           *)
LEMMA FileSame ==
  ASSUME DirInv, UNCHANGED file
  PROVE  FileAside
BY DEF FileAside, DirInv, OwnDirectory

(* A mark other than crowded crowds nothing.                                *)
LEMMA MarkAside ==
  ASSUME Shape, NEW s \in Session, NEW ms, "crowded" \notin ms, hist' = hist \/ hist' = Mark(s, ms)
  PROVE  HistAside
<1>1. hist \in [Session -> SUBSET Marks]
  BY DEF Shape, CoreTypes
<1> QED BY <1>1 DEF HistAside, Mark, Crowded

(* The outcome of a call crowds nothing.                                    *)
LEMMA OutcomeAside ==
  ASSUME Shape, NEW s \in Session, NEW ok,
         hist' = hist \/ hist' = Outcome(s, ok) \/ \E p : hist' = Works(s, p, ok)
  PROVE  HistAside
<1>1. hist \in [Session -> SUBSET Marks] /\ Outcome(s, ok) \in [Session -> SUBSET Marks]
  BY HistTyped DEF Shape, CoreTypes
<1>2. \A x \in Session : /\ hist[x] \subseteq Outcome(s, ok)[x]
                         /\ Outcome(s, ok)[x] \subseteq hist[x] \cup {"failed"}
  BY <1>1 DEF Outcome, Mark
<1>3. \A x \in Session : \/ hist'[x] = hist[x]
                         \/ /\ Outcome(s, ok)[x] \subseteq hist'[x]
                            /\ hist'[x] \subseteq Outcome(s, ok)[x] \cup {"mixed"}
  BY <1>1, MixesGrow DEF Works
<1> QED BY <1>2, <1>3 DEF HistAside, Crowded

(* Nor does a loop that takes metadata.json for its session's.              *)
LEMMA SharesAside ==
  ASSUME Shape, NEW s \in Session, NEW t \in Session,
         hist' = hist \/ hist' = Mixes(Mark(t, {"shared"}), s, t)
  PROVE  HistAside
<1>1. hist \in [Session -> SUBSET Marks] /\ Mark(t, {"shared"}) \in [Session -> SUBSET Marks]
  BY HistTyped DEF Shape, CoreTypes
<1>2. CASE hist' = Mixes(Mark(t, {"shared"}), s, t)
  <2>1. \A x \in Session : /\ Mark(t, {"shared"})[x] \subseteq hist'[x]
                           /\ hist'[x] \subseteq Mark(t, {"shared"})[x] \cup {"mixed"}
    BY <1>1, <1>2, MixesGrow
  <2>2. \A x \in Session : /\ hist[x] \subseteq Mark(t, {"shared"})[x]
                           /\ Mark(t, {"shared"})[x] \subseteq hist[x] \cup {"shared"}
    BY <1>1 DEF Mark
  <2> QED BY <2>1, <2>2 DEF HistAside, Crowded
<1>3. CASE hist' = hist
  BY <1>3 DEF HistAside, Crowded
<1> QED BY <1>2, <1>3

(* A message other than StartWatch crowds nothing.                          *)
LEMMA ArrivesAside ==
  ASSUME Shape, NEW s \in Session, 
         hist' = Arrives(s) \/ hist' = Interrupts(s) \/ hist' = Reports(s)
  PROVE  HistAside
BY MarkAside DEF Arrives, Interrupts, Reports

(* update_status and delete leave memory_path as it is.                     *)
LEMMA RecordAside ==
  ASSUME Shape,
         \/ UNCHANGED reg
         \/ \E s \in Session : \E new, ok : UpdateStatus(s, new, ok)
         \/ \E s \in Session : reg' = [reg EXCEPT ![s] = NoRecord]
  PROVE  RegAside
<1>1. reg \in [Session -> Records]
  BY DEF Shape, CoreTypes
<1>2. CASE UNCHANGED reg
  BY <1>2 DEF RegAside
<1>3. ASSUME NEW s \in Session, NEW new, NEW ok, UpdateStatus(s, new, ok)
      PROVE  RegAside
  <2>1. \A t \in Session :
          reg'[t] = reg[t] \/ (HasRecord(t) /\ reg'[t] = [reg[t] EXCEPT !.status = new])
    BY <1>1, <1>3 DEF UpdateStatus
  <2>2. ASSUME NEW t \in Session, HasRecord(t)
        PROVE  [reg[t] EXCEPT !.status = new].path = reg[t].path
    BY <1>1, <2>2 DEF Records, HasRecord, NoRecord
  <2> QED BY <2>1, <2>2 DEF RegAside, HasRecord
<1>4. ASSUME NEW s \in Session, reg' = [reg EXCEPT ![s] = NoRecord]
      PROVE  RegAside
  BY <1>1, <1>4 DEF RegAside
<1> QED BY <1>2, <1>3, <1>4

(* A loop that goes on with what it has, or with less.                      *)
LEMMA LoopKeepsAside ==
  ASSUME NEW v, NEW w, w.sid = v.sid, w.place = v.place, w.mem.owner \in {None, v.mem.owner},
         \/ w.pc = v.pc
         \/ Working(v) /\ w.pc \notin {"read", "repath"}
         \/ ~Working(w) /\ w.pc \notin {"read", "repath"}
  PROVE  LoopAside(v, w)
BY DEF LoopAside, Working

(* A loop that is over knows nothing.                                       *)
LEMMA LoopEndsAside ==
  ASSUME NEW v, NEW w, w.mem.owner = None, w.sid \in {None, v.sid},
         w.pc \in {"none", "end"}
  PROVE  LoopAside(v, w)
BY DEF LoopAside, Working

(* A loop that fails, or has only its handle left to remove.                *)
LEMMA LoopOverAside ==
  ASSUME NEW v
  PROVE  LoopAside(v, NoLoop) /\ LoopAside(v, [NoLoop EXCEPT !.pc = "end", !.sid = v.sid])
<1>. DEFINE w == [NoLoop EXCEPT !.pc = "end", !.sid = v.sid]
<1>1. NoLoop.mem.owner = None /\ NoLoop.sid = None /\ NoLoop.pc = "none"
  BY DEF NoLoop, NoFile
<1>2. w.mem.owner = None /\ w.sid = v.sid /\ w.pc = "end"
  BY DEF NoLoop, NoFile
<1>3. LoopAside(v, NoLoop)
  BY <1>1, LoopEndsAside
<1>. HIDE DEF w
<1>4. LoopAside(v, w)
  BY <1>2, LoopEndsAside
<1> QED BY <1>3, <1>4 DEF w

(* A loop that is woken keeps what it has.                                  *)
LEMMA FireAside ==
  ASSUME Shape, NEW k, loop' = Fire(loop, k)
  PROVE  \A l \in Loop : LoopAside(loop[l], loop'[l])
<1> SUFFICES ASSUME NEW l \in Loop PROVE LoopAside(loop[l], loop'[l])
  OBVIOUS
<1>1. loop[l] \in Loops
  BY DirTypes
<1>2. loop'[l] = loop[l] \/ loop'[l] = [loop[l] EXCEPT !.fired = TRUE]
  BY DEF Fire
<1> QED BY <1>1, <1>2, LoopKeepsAside DEF Loops

(* A step of one loop.                                                      *)
LEMMA LoopStepAside ==
  ASSUME Shape, DirInv, NEW l \in Loop, NEW w, loop' = [loop EXCEPT ![l] = w],
         LoopAside(loop[l], w), RegAside, FileAside, HistAside, UNCHANGED boot,
         \A c \in Conn : conn'[c] = conn[c] \/ ConnAside(conn[c], conn'[c])
  PROVE  Aside
<1>1. \A k \in Loop : LoopAside(loop[k], loop'[k])
  <2>1. loop \in [Loop -> Loops]
    BY DEF Shape, CoreTypes
  <2>2. \A k \in Loop : LoopAside(loop[k], loop[k])
    BY DEF LoopAside
  <2> QED BY <2>1, <2>2
<1>2. \A c \in Conn : ConnAside(conn[c], conn[c])
  BY DEF DirInv, ConnAside
<1>3. \A c \in Conn : ConnAside(conn[c], conn'[c])
  BY <1>2
<1>4. BootAside
  BY DEF BootAside
<1> QED BY <1>1, <1>3, <1>4 DEF Aside

(* A step of the handler of one message.                                    *)
LEMMA ConnStepAside ==
  ASSUME Shape, DirInv, NEW c \in Conn, NEW n, conn' = [conn EXCEPT ![c] = n],
         ConnAside(conn[c], n), RegAside, FileAside, HistAside, UNCHANGED boot,
         \A l \in Loop : loop'[l] = loop[l] \/ LoopAside(loop[l], loop'[l])
  PROVE  Aside
<1>1. \A k \in Loop : LoopAside(loop[k], loop'[k])
  <2>1. \A k \in Loop : LoopAside(loop[k], loop[k])
    BY DEF LoopAside
  <2> QED BY <2>1
<1>2. \A d \in Conn : ConnAside(conn[d], conn[d])
  BY DEF DirInv, ConnAside
<1>3. \A d \in Conn : ConnAside(conn[d], conn'[d])
  <2>1. conn \in [Conn -> Messages]
    BY DEF Shape, CoreTypes
  <2> QED BY <1>2, <2>1
<1>4. BootAside
  BY DEF BootAside
<1> QED BY <1>1, <1>3, <1>4 DEF Aside

(* A step of start-up: nothing else runs.                                   *)
LEMMA BootStepAside ==
  ASSUME Shape, DirInv, RegAside, FileAside, HistAside, BootAside, UNCHANGED <<loop, conn>>
  PROVE  Aside
<1>1. \A k \in Loop : LoopAside(loop[k], loop'[k])
  BY DEF LoopAside
<1>2. \A c \in Conn : ConnAside(conn[c], conn'[c])
  BY DEF DirInv, ConnAside
<1> QED BY <1>1, <1>2 DEF Aside

(* Handlers move on to where no path is needed, or end.                     *)
LEMMA ConnMovesOn ==
  ASSUME DirInv, NEW c \in Conn, NEW n, n.sid = conn[c].sid \/ n.sid = None,
         n.pc \notin {"init", "store"}, Deleting(n) => Deleting(conn[c]) /\ n.sid = conn[c].sid
  PROVE  ConnAside(conn[c], n)
BY DEF ConnAside

-----------------------------------------------------------------------------
(* Where loop l stands when it takes a step.                                *)
LEMMA LoopKnows ==
  ASSUME Shape, DirInv, NEW l \in Loop, Running(l)
  PROVE  /\ loop[l] \in Loops /\ LoopOK(loop[l]) /\ loop[l].sid \in Session
         /\ loop \in [Loop -> Loops] /\ file \in [Place -> Meta \cup {NoFile}]
BY LoopFacts DEF Shape, CoreTypes

(* The StartWatch of a loop that fails or comes up moves on.                *)
LEMMA ReadyAside ==
  ASSUME Shape, DirInv, NEW l \in Loop,
         \/ LoopFails(l)
         \/ conn' = [c \in Conn |-> IF conn[c].pc = "ready" /\ conn[c].loop = l
                                    THEN Idle ELSE conn[c]]
         \/ UNCHANGED conn
  PROVE  \A c \in Conn : conn'[c] = conn[c] \/ ConnAside(conn[c], conn'[c])
<1> SUFFICES ASSUME NEW c \in Conn, conn'[c] # conn[c] PROVE ConnAside(conn[c], conn'[c])
  OBVIOUS
<1>1. conn[c] \in Messages
  BY DEF Shape, CoreTypes
<1>2. \/ conn'[c] = [conn[c] EXCEPT !.pc = "unstart", !.loop = None]
      \/ conn'[c] = Idle
  BY DEF LoopFails
<1>3. conn'[c].pc \in {"unstart", "idle"} /\ conn'[c].sid \in {conn[c].sid, None}
  <2>1. CASE conn'[c] = [conn[c] EXCEPT !.pc = "unstart", !.loop = None]
    BY <1>1, <2>1 DEF Messages
  <2>2. CASE conn'[c] = Idle
    BY <2>2 DEF Idle, Message
  <2> QED BY <1>2, <2>1, <2>2
<1> QED BY <1>3, ConnMovesOn DEF Deleting

(* A write of the metadata a loop holds.                                    *)
LEMMA LoopWrites ==
  ASSUME Local, Shape, DirInv, NEW l \in Loop, Working(loop[l]), loop[l].mem \in Meta,
         NEW m, NEW ok, m.owner = loop[l].mem.owner, Write(loop[l].place, m, ok)
  PROVE  FileAside
<1>1. loop[l].place \in Place /\ file \in [Place -> Meta \cup {NoFile}]
  BY DirTypes DEF LoopOK, Working, Shape, CoreTypes
<1>2. \A p \in Place : \/ file'[p].owner = file[p].owner
                       \/ p = loop[l].place /\ file'[p].owner = loop[l].mem.owner
  BY <1>1 DEF Write
<1>3. \A p \in Place : file'[p].owner \in {None, file[p].owner} \/ Written(p)
  BY <1>2 DEF Written
<1>4. ASSUME Clean, NEW k \in Loop, Working(loop[k])
      PROVE  file'[loop[k].place].owner = loop[k].sid
  <2>1. \A j \in Loop : Working(loop[j]) => file[loop[j].place].owner = loop[j].sid
    BY <1>4 DEF DirInv, OwnDirectory
  <2>2. loop[l].mem.owner = loop[l].sid
    <3>1. loop[l].mem.owner \in Session
      BY DEF Meta
    <3>2. ~Shared(loop[l].mem.owner)
      BY <1>4, <3>1 DEF Clean, Shared
    <3> QED BY <3>1, <3>2, DirTypes DEF DirInv, OwnCopy
  <2>3. loop[k].place \in Place
    BY <1>4, DirTypes DEF LoopOK, Working
  <2> QED BY <1>2, <1>4, <2>1, <2>2, <2>3
<1> QED BY <1>3, <1>4 DEF FileAside

(* A change of metadata.json that leaves its owner.                         *)
LEMMA EditAside ==
  ASSUME Shape, DirInv, NEW p, NEW m, NEW ok, m.owner = file[p].owner, Edit(p, m, ok)
  PROVE  FileAside
<1>1. file \in [Place -> Meta \cup {NoFile}]
  BY DEF Shape, CoreTypes
<1>2. \A q \in Place : file'[q].owner = file[q].owner
  BY <1>1 DEF Edit
<1>3. \A k \in Loop : Working(loop[k]) => loop[k].place \in Place
  BY DirTypes DEF LoopOK, Working
<1> QED BY <1>2, <1>3 DEF FileAside, DirInv, OwnDirectory

(* A loop that starts reads the record, then metadata.json, and connects.   *)
LEMMA LoopStartsAside ==
  ASSUME Local, Shape, DirInv, {"raced", "crowded", "shared", "stale"} \subseteq Tracked,
         NEW l \in Loop, NEW ok,
         LoopLoad(l, ok) \/ LoopReadMetadata(l, ok) \/ LoopConnect(l, ok)
  PROVE  Aside
<1>. DEFINE s == loop[l].sid
<1>1. Running(l)
  BY DEF LoopLoad, LoopReadMetadata, LoopConnect, Running
<1>2. RegAside /\ FileAside /\ UNCHANGED <<reg, file, boot>>
  BY RecordAside, FileSame DEF LoopLoad, LoopReadMetadata, LoopConnect
<1>3. ASSUME LoopFails(l), HistAside PROVE Aside
  BY <1>2, <1>3, LoopStepAside, LoopOverAside, ReadyAside DEF LoopFails
<1>4. ASSUME LoopLoad(l, ok) PROVE Aside
  <2>1. HistAside
    BY <1>1, <1>4, LoopKnows, OutcomeAside DEF LoopLoad
  <2>2. CASE LoopFails(l)
    BY <1>3, <2>1, <2>2
  <2>3. CASE ~LoopFails(l)
    <3>. DEFINE w == [loop[l] EXCEPT !.pc = "read", !.place = MetaPlace(s)]
    <3>1. loop' = [loop EXCEPT ![l] = w] /\ UNCHANGED conn
      BY <1>4, <2>3 DEF LoopLoad
    <3>2. w.pc = "read" /\ w.place = reg[s].path /\ w.sid = s /\ w.mem = loop[l].mem
      BY <1>1, LoopKnows DEF Loops, MetaPlace
    <3>3. LoopAside(loop[l], w)
      <4>. HIDE DEF w
      <4> QED BY <1>2, <3>2 DEF LoopAside, Working
    <3>. HIDE DEF w
    <3> QED BY <1>2, <2>1, <3>1, <3>3, LoopStepAside
  <2> QED BY <2>2, <2>3
<1>5. ASSUME LoopReadMetadata(l, ok) PROVE Aside
  <2>. DEFINE m == file[loop[l].place]
              w == [loop[l] EXCEPT !.pc = "connect", !.mem = m]
  <2>1. CASE LoopFails(l) /\ hist' = Outcome(s, ok)
    BY <1>1, <1>3, <2>1, LoopKnows, OutcomeAside
  <2>2. CASE /\ m # NoFile /\ loop' = [loop EXCEPT ![l] = w] /\ UNCHANGED conn
             /\ hist' = IF m.owner = s THEN hist
                        ELSE Mixes(Mark(m.owner, {"shared"}), s, m.owner)
    <3>1. loop[l].pc = "read" /\ loop[l].place \in Place
      BY <1>1, <1>5, LoopKnows DEF LoopReadMetadata, LoopOK
    <3>2. m.owner \in Session
      BY <1>1, <2>2, <3>1, LoopKnows DEF Meta
    <3>3. HistAside
      <4>. HIDE DEF m
      <4> QED BY <1>1, <2>2, <3>2, LoopKnows, SharesAside
    <3>4. m.owner = s \/ "shared" \in hist'[m.owner]
      <4>1. hist \in [Session -> SUBSET Marks]
        BY DirTypes
      <4>2. Mark(m.owner, {"shared"}) \in [Session -> SUBSET Marks]
        BY <3>2, HistTyped DEF Shape
      <4>3. "shared" \in Mark(m.owner, {"shared"})[m.owner]
        BY <3>2, <4>1 DEF Mark
      <4>. HIDE DEF m
      <4> QED BY <2>2, <3>2, <4>2, <4>3, MixesGrow
    <3>5. w.pc = "connect" /\ w.sid = s /\ w.place = loop[l].place /\ w.mem = m
      BY <1>1, LoopKnows DEF Loops
    <3>6. LoopAside(loop[l], w)
      <4>1. Copied(loop[l], w)
        <5>. HIDE DEF w
        <5> QED BY <3>1, <3>2, <3>4, <3>5 DEF Copied
      <4>. HIDE DEF w, m
      <4> QED BY <1>2, <3>1, <3>5, <4>1 DEF LoopAside
    <3>. HIDE DEF w, m
    <3> QED BY <1>2, <2>2, <3>3, <3>6, LoopStepAside
  <2> QED BY <1>5, <2>1, <2>2 DEF LoopReadMetadata
<1>6. ASSUME LoopConnect(l, ok) PROVE Aside
  <2>1. HistAside
    BY <1>1, <1>6, LoopKnows, OutcomeAside DEF LoopConnect
  <2>2. CASE LoopFails(l)
    BY <1>3, <2>1, <2>2
  <2>3. CASE ~LoopFails(l)
    <3>. DEFINE w == [loop[l] EXCEPT !.pc = "arm"]
    <3>1. loop' = [loop EXCEPT ![l] = w]
      BY <1>6, <2>3 DEF LoopConnect, LoopGoto
    <3>2. \A c \in Conn : conn'[c] = conn[c] \/ ConnAside(conn[c], conn'[c])
      BY <1>6, <2>3, ReadyAside DEF LoopConnect
    <3>3. loop[l].pc = "connect" /\ w.pc = "arm" /\ w.sid = s
          /\ w.place = loop[l].place /\ w.mem = loop[l].mem
      BY <1>1, <1>6, LoopKnows DEF Loops, LoopConnect
    <3>4. LoopAside(loop[l], w)
      <4>. HIDE DEF w
      <4> QED BY <3>3, LoopKeepsAside DEF Working
    <3>. HIDE DEF w
    <3> QED BY <1>2, <2>1, <3>1, <3>2, <3>4, LoopStepAside
  <2> QED BY <2>2, <2>3
<1> QED BY <1>4, <1>5, <1>6

(* A loop that puts its handle in the map, where it may wake another.       *)
LEMMA LoopArmAside ==
  ASSUME Local, Shape, DirInv, NEW l \in Loop, LoopArm(l)
  PROVE  Aside
<1>. DEFINE lp == LoopGoto(l, "begin")
<1>1. Running(l)
  BY DEF LoopArm, Running
<1>2. ASSUME NEW k \in Loop PROVE LoopAside(loop[k], loop'[k])
  <2>1. \/ lp[k] = loop[k]
        \/ k = l /\ lp[k] = [loop[k] EXCEPT !.pc = "begin"]
    BY <1>1, LoopKnows DEF LoopGoto
  <2>2. loop'[k] = lp[k] \/ loop'[k] = [lp[k] EXCEPT !.fired = TRUE]
    BY DEF LoopArm, Fire
  <2>3. lp[k] \in Loops /\ loop[k] \in Loops
    BY <2>1, DirTypes DEF Loops, LoopPCs
  <2>4. /\ lp[k].sid = loop[k].sid /\ lp[k].place = loop[k].place
        /\ lp[k].mem = loop[k].mem
        /\ lp[k].pc = loop[k].pc \/ (lp[k].pc = "begin" /\ loop[k].pc = "arm")
    BY <2>1, <2>3 DEF LoopArm, Loops
  <2>. HIDE DEF lp
  <2>5. /\ loop'[k].sid = loop[k].sid /\ loop'[k].place = loop[k].place
        /\ loop'[k].mem = loop[k].mem
        /\ loop'[k].pc = loop[k].pc \/ (loop'[k].pc = "begin" /\ loop[k].pc = "arm")
    BY <2>2, <2>3, <2>4 DEF Loops
  <2> QED BY <2>5, LoopKeepsAside DEF Working
<1>3. RegAside /\ FileAside /\ HistAside /\ BootAside
  BY <1>1, RecordAside, FileSame DEF LoopArm, HistAside, BootAside, Crowded
<1>4. \A c \in Conn : ConnAside(conn[c], conn'[c])
  BY DEF LoopArm, DirInv, ConnAside
<1> QED BY <1>2, <1>3, <1>4 DEF Aside

(* A loop that captures writes the metadata it holds.                       *)
LEMMA LoopCapturesAside ==
  ASSUME Local, Shape, DirInv, NEW l \in Loop, NEW ok, NEW clean \in BOOLEAN,
         \/ LoopBegin(l, ok) \/ LoopStops(l, clean) \/ LoopDrain(l)
         \/ LoopComplete(l, ok) \/ LoopInterrupt(l, ok)
  PROVE  Aside
<1>. DEFINE s == loop[l].sid
<1>1. Running(l)
  BY DEF LoopBegin, LoopStops, LoopDrain, LoopComplete, LoopInterrupt, Capturing, Running
<1>2. Working(loop[l]) /\ loop[l].mem \in Meta
  BY <1>1, LoopKnows
     DEF LoopBegin, LoopStops, LoopDrain, LoopComplete, LoopInterrupt, Capturing, Working, LoopOK
<1>3. RegAside /\ UNCHANGED <<reg, conn, boot>>
  BY RecordAside DEF LoopBegin, LoopStops, LoopDrain, LoopComplete, LoopInterrupt
<1>4. HistAside
  BY <1>1, LoopKnows, OutcomeAside
     DEF LoopBegin, LoopStops, LoopDrain, LoopComplete, LoopInterrupt
<1>5. FileAside
  <2>1. /\ [loop[l].mem EXCEPT !.prog = "capturing"].owner = loop[l].mem.owner
        /\ [loop[l].mem EXCEPT !.status = "complete", !.prog = "none"].owner
              = loop[l].mem.owner
    BY <1>2 DEF Meta
  <2>2. CASE LoopBegin(l, ok)
    BY <1>2, <2>1, <2>2, LoopWrites DEF LoopBegin
  <2>3. CASE LoopComplete(l, ok)
    BY <1>2, <2>1, <2>3, LoopWrites DEF LoopComplete
  <2>4. CASE LoopStops(l, clean) \/ LoopDrain(l) \/ LoopInterrupt(l, ok)
    BY <2>4, FileSame DEF LoopStops, LoopDrain, LoopInterrupt
  <2> QED BY <2>2, <2>3, <2>4
<1>6. PICK w : /\ loop' = [loop EXCEPT ![l] = w] /\ w.sid = s /\ w.place = loop[l].place
               /\ w.mem.owner \in {None, loop[l].mem.owner}
               /\ w.pc \notin {"read", "repath"}
  <2>1. CASE LoopBegin(l, ok)
    <3>. DEFINE w == [loop[l] EXCEPT !.pc = "capture",
                                     !.mem = [loop[l].mem EXCEPT !.prog = "capturing"]]
    <3>1. loop' = [loop EXCEPT ![l] = w]
      BY <2>1 DEF LoopBegin
    <3>2. w.sid = s /\ w.place = loop[l].place /\ w.pc = "capture"
          /\ w.mem = [loop[l].mem EXCEPT !.prog = "capturing"]
      BY <1>1, LoopKnows DEF Loops
    <3>3. w.mem.owner = loop[l].mem.owner
      BY <1>2, <3>2 DEF Meta
    <3>. HIDE DEF w
    <3> QED BY <3>1, <3>2, <3>3
  <2>2. CASE LoopStops(l, clean)
    <3>. DEFINE w == [loop[l] EXCEPT !.pc = "drain", !.clean = clean, !.fired = FALSE]
    <3>1. loop' = [loop EXCEPT ![l] = w]
      BY <2>2 DEF LoopStops
    <3>2. w.sid = s /\ w.place = loop[l].place /\ w.pc = "drain" /\ w.mem = loop[l].mem
      BY <1>1, LoopKnows DEF Loops
    <3>. HIDE DEF w
    <3> QED BY <3>1, <3>2
  <2>3. CASE LoopDrain(l)
    <3>. DEFINE w == [loop[l] EXCEPT !.pc = IF loop[l].clean THEN "complete" ELSE "interrupt",
                                     !.clean = FALSE,
                                     !.deg = loop[l].clean /\ s \in degraded]
    <3>1. loop' = [loop EXCEPT ![l] = w]
      BY <2>3 DEF LoopDrain
    <3>2. w.sid = s /\ w.place = loop[l].place /\ w.mem = loop[l].mem
          /\ w.pc = IF loop[l].clean THEN "complete" ELSE "interrupt"
      BY <1>1, LoopKnows DEF Loops
    <3>. HIDE DEF w
    <3> QED BY <3>1, <3>2
  <2>4. CASE LoopComplete(l, ok) \/ LoopInterrupt(l, ok)
    <3>1. PICK pc \in {"settle", "demote"} :
             loop' = [loop EXCEPT ![l] = [loop[l] EXCEPT !.pc = pc, !.mem = NoFile]]
      BY <2>4 DEF LoopComplete, LoopInterrupt
    <3>. DEFINE w == [loop[l] EXCEPT !.pc = pc, !.mem = NoFile]
    <3>2. w.sid = s /\ w.place = loop[l].place /\ w.mem = NoFile /\ w.pc = pc
      BY <1>1, LoopKnows DEF Loops
    <3>3. w.mem.owner = None
      BY <3>2 DEF NoFile
    <3>. HIDE DEF w
    <3> QED BY <3>1, <3>2, <3>3 DEF w
  <2> QED BY <2>1, <2>2, <2>3, <2>4
<1>7. LoopAside(loop[l], w)
  BY <1>2, <1>6, LoopKeepsAside
<1> QED BY <1>3, <1>4, <1>5, <1>6, <1>7, LoopStepAside

(* A loop that flushes a step writes the metadata it holds.                 *)
LEMMA LoopStepsAside ==
  ASSUME Local, Shape, DirInv, NEW l \in Loop, LoopStep(l)
  PROVE  Aside
<1>1. Running(l)
  BY DEF LoopStep, Capturing, Running
<1>2. Working(loop[l]) /\ loop[l].mem \in Meta
  BY <1>1, LoopKnows DEF LoopStep, Capturing, Working, LoopOK
<1>3. FileAside
  BY <1>2, LoopWrites DEF LoopStep
<1>4. RegAside /\ HistAside /\ BootAside
  BY <1>1, LoopKnows, RecordAside, OutcomeAside DEF LoopStep, BootAside
<1>5. \A c \in Conn : ConnAside(conn[c], conn'[c])
  BY DEF LoopStep, DirInv, ConnAside
<1>6. \A k \in Loop : LoopAside(loop[k], loop'[k])
  BY DEF LoopStep, LoopAside
<1> QED BY <1>3, <1>4, <1>5, <1>6 DEF Aside

(* A loop that ends changes the status, and metadata.json where it is.      *)
LEMMA LoopClosesAside ==
  ASSUME Local, Shape, DirInv, NEW l \in Loop, NEW ok,
         LoopSettle(l, ok) \/ LoopDemote(l, ok) \/ LoopFlag(l, ok)
  PROVE  Aside
<1>1. Running(l)
  BY DEF LoopSettle, LoopDemote, LoopFlag, Running
<1>2. UNCHANGED <<conn, boot>> /\ HistAside
  BY <1>1, LoopKnows, OutcomeAside DEF LoopSettle, LoopDemote, LoopFlag
<1>3. RegAside
  BY <1>1, LoopKnows, RecordAside DEF LoopSettle, LoopDemote, LoopFlag
<1>4. FileAside
  <2>1. CASE LoopSettle(l, ok) \/ LoopDemote(l, ok)
    BY <2>1, FileSame DEF LoopSettle, LoopDemote
  <2>2. CASE LoopFlag(l, ok)
    <3>. DEFINE p == loop[l].place
    <3>1. p \in Place
      BY <1>1, <2>2, LoopKnows DEF LoopFlag, LoopOK
    <3>2. CASE file[p] \in Meta
      <4>1. [file[p] EXCEPT !.status = "incomplete"].owner = file[p].owner
        BY <3>2 DEF Meta
      <4> QED BY <2>2, <4>1, EditAside DEF LoopFlag
    <3>3. CASE file[p] = NoFile
      <4>1. UNCHANGED file
        BY <2>2, <3>3 DEF LoopFlag, Edit
      <4> QED BY <4>1, FileSame
    <3> QED BY <1>1, <3>1, <3>2, <3>3, LoopKnows
  <2> QED BY <2>1, <2>2
<1>5. CASE LoopSettle(l, ok)
  BY <1>2, <1>3, <1>4, <1>5, LoopOverAside, LoopStepAside DEF LoopSettle, LoopOver
<1>6. CASE LoopDemote(l, ok) \/ LoopFlag(l, ok)
  <2>1. PICK pc \in {"flag", "rename"} :
           loop' = [loop EXCEPT ![l] = [loop[l] EXCEPT !.pc = pc]]
    BY <1>6 DEF LoopDemote, LoopFlag, LoopGoto
  <2>. DEFINE w == [loop[l] EXCEPT !.pc = pc]
  <2>2. w.sid = loop[l].sid /\ w.place = loop[l].place /\ w.mem = loop[l].mem /\ w.pc = pc
    BY <1>1, LoopKnows DEF Loops
  <2>3. Working(loop[l])
    BY <1>6 DEF LoopDemote, LoopFlag, Working
  <2>. HIDE DEF w
  <2>4. LoopAside(loop[l], w)
    BY <2>1, <2>2, <2>3, LoopKeepsAside
  <2> QED BY <1>2, <1>3, <1>4, <2>1, <2>4, LoopStepAside DEF w
<1> QED BY <1>5, <1>6

(* A loop that removes the handle of its session.                           *)
LEMMA LoopEndAside ==
  ASSUME Local, Shape, DirInv, NEW l \in Loop, LoopEnd(l)
  PROVE  Aside
<1>1. Running(l)
  BY DEF LoopEnd, Running
<1>2. RegAside /\ FileAside /\ HistAside /\ BootAside
  BY RecordAside, FileSame DEF LoopEnd, HistAside, BootAside, Crowded
<1>3. ASSUME NEW k \in Loop PROVE LoopAside(loop[k], loop'[k])
  <2>1. \/ k = l /\ loop'[k] = NoLoop
        \/ loop'[k] = Fire(loop, handles[loop[l].sid])[k]
    BY DEF LoopEnd, Fire
  <2>2. Fire(loop, handles[loop[l].sid])[k] \in {loop[k], [loop[k] EXCEPT !.fired = TRUE]}
    BY DEF Fire
  <2>3. /\ [loop[k] EXCEPT !.fired = TRUE].sid = loop[k].sid
        /\ [loop[k] EXCEPT !.fired = TRUE].pc = loop[k].pc
        /\ [loop[k] EXCEPT !.fired = TRUE].place = loop[k].place
        /\ [loop[k] EXCEPT !.fired = TRUE].mem = loop[k].mem
    BY DirTypes DEF Loops
  <2>4. LoopAside(loop[k], loop[k]) /\ LoopAside(loop[k], [loop[k] EXCEPT !.fired = TRUE])
    BY <2>3, LoopKeepsAside
  <2> QED BY <2>1, <2>2, <2>4, LoopOverAside
<1>4. ASSUME NEW c \in Conn PROVE ConnAside(conn[c], conn'[c])
  <2>1. \/ conn'[c] = conn[c]
        \/ conn'[c] = Idle
        \/ conn[c].pc \in {"send", "picture"} /\ conn'[c] = [conn[c] EXCEPT !.loop = None]
    BY DEF LoopEnd
  <2>2. CASE conn'[c] = conn[c]
    BY <2>2 DEF DirInv, ConnAside
  <2>3. CASE conn'[c] = Idle
    BY <2>3, ConnMovesOn DEF Idle, Message, Deleting
  <2>4. CASE conn[c].pc \in {"send", "picture"} /\ conn'[c] = [conn[c] EXCEPT !.loop = None]
    <3>1. conn'[c].pc \in {"send", "picture"} /\ conn'[c].sid = conn[c].sid
      BY <2>4, DirTypes DEF ConnOK, Messages
    <3> QED BY <3>1, ConnMovesOn DEF Deleting
  <2> QED BY <2>1, <2>2, <2>3, <2>4
<1> QED BY <1>2, <1>3, <1>4 DEF Aside

-----------------------------------------------------------------------------
(* Where the handler of a message stands when it takes a step.              *)
LEMMA ConnKnows ==
  ASSUME Shape, NEW c \in Conn, conn[c].pc # "idle"
  PROVE  /\ conn[c] \in Messages /\ conn[c].sid \in Session /\ conn[c].sid # None
         /\ conn \in [Conn -> Messages] /\ file \in [Place -> Meta \cup {NoFile}]
BY NoneAssumption DEF Shape, CoreTypes, ConnOK

(* A handler goes on to another point.                                      *)
LEMMA GotoAside ==
  ASSUME Shape, DirInv, NEW c \in Conn, conn[c].pc # "idle", NEW pc,
         pc \notin {"init", "store"},
         Deleting(conn[c]) \/ pc \notin {"unhandle", "wipe", "objects", "purge"}
  PROVE  ConnAside(conn[c], [conn[c] EXCEPT !.pc = pc])
<1>. DEFINE n == [conn[c] EXCEPT !.pc = pc]
<1>1. n.pc = pc /\ n.sid = conn[c].sid
  BY ConnKnows DEF Messages
<1>. HIDE DEF n
<1>2. ConnAside(conn[c], n)
  BY <1>1, ConnMovesOn DEF Deleting
<1> QED BY <1>2 DEF n

(* A handler that is done knows nothing.                                    *)
LEMMA ReplyAside ==
  ASSUME DirInv, NEW c \in Conn
  PROVE  ConnAside(conn[c], Idle)
BY ConnMovesOn DEF Idle, Message, Deleting

(* The messages that name a session and no path.                            *)
LEMMA NamesAside ==
  ASSUME NEW m, NEW s \in Session, Issued(s), NEW pc, NEW k, NEW p, NEW flag,
         pc \notin {"init", "store"},
         \/ pc \notin {"unhandle", "wipe", "objects", "purge"}
         \/ ~Clean'
         \/ \A l \in Loop : loop[l].sid # s
  PROVE  ConnAside(m, Message(pc, s, k, p, flag))
BY DEF ConnAside, Message, Deleting

(* The handlers that end with update_status.                                *)
LEMMA RepliesAside ==
  ASSUME Local, Shape, DirInv, NEW c \in Conn, NEW ok,
         GiveUp(c, ok) \/ RouteDirect(c, ok) \/ SetReasoningStatus(c, ok)
  PROVE  Aside
<1>1. conn[c].pc # "idle"
  BY DEF GiveUp, RouteDirect, SetReasoningStatus
<1>2. RegAside
  BY <1>1, ConnKnows, RecordAside DEF GiveUp, RouteDirect, SetReasoningStatus
<1>3. FileAside /\ HistAside
  BY <1>1, ConnKnows, FileSame, OutcomeAside DEF GiveUp, RouteDirect, SetReasoningStatus
<1>4. conn' = [conn EXCEPT ![c] = Idle] /\ UNCHANGED <<loop, boot>>
  BY DEF GiveUp, RouteDirect, SetReasoningStatus, Reply
<1> QED BY <1>2, <1>3, <1>4, ReplyAside, ConnStepAside

(* Done finalises a session: metadata.json keeps its owner.                 *)
LEMMA FinaliseAside ==
  ASSUME Local, Shape, DirInv, NEW c \in Conn, NEW ok,
         \/ LookUp(c, ok) \/ MarkComplete(c, ok) \/ ClearInProgress(c, ok)
         \/ ForgetDegraded(c)
  PROVE  Aside
<1>1. conn[c].pc # "idle"
  BY DEF LookUp, MarkComplete, ClearInProgress, ForgetDegraded
<1>2. RegAside /\ UNCHANGED <<loop, boot>>
  <2>1. UNCHANGED reg /\ UNCHANGED loop /\ UNCHANGED boot
    BY DEF LookUp, MarkComplete, ClearInProgress, ForgetDegraded
  <2>2. RegAside
    BY <2>1 DEF RegAside
  <2> QED BY <2>1, <2>2
<1>3. HistAside
  <2>1. hist' = hist \/ \E p : hist' = Works(conn[c].sid, p, ok)
    <3>1. CASE LookUp(c, ok)
      BY <3>1 DEF LookUp
    <3>2. CASE MarkComplete(c, ok)
      BY <3>2 DEF MarkComplete
    <3>3. CASE ClearInProgress(c, ok)
      BY <3>3 DEF ClearInProgress
    <3>4. CASE ForgetDegraded(c)
      BY <3>4 DEF ForgetDegraded
    <3> QED BY <3>1, <3>2, <3>3, <3>4
  <2> QED BY <1>1, <2>1, ConnKnows, OutcomeAside
<1>4. FileAside
  <2>1. CASE LookUp(c, ok) \/ ForgetDegraded(c)
    BY <2>1, FileSame DEF LookUp, ForgetDegraded
  <2>2. CASE MarkComplete(c, ok) \/ ClearInProgress(c, ok)
    <3>. DEFINE p == conn[c].place
    <3>1. p \in Place
      BY <2>2, DirTypes DEF MarkComplete, ClearInProgress, ConnOK
    <3>2. CASE file[p] \in Meta
      <4>1. [file[p] EXCEPT !.status = "complete"].owner = file[p].owner
        BY <3>2 DEF Meta
      <4>2. [file[p] EXCEPT !.prog = "none"].owner = file[p].owner
        BY <3>2 DEF Meta
      <4> QED BY <2>2, <4>1, <4>2, EditAside DEF MarkComplete, ClearInProgress
    <3>3. CASE file[p] = NoFile
      <4>1. UNCHANGED file
        BY <2>2, <3>3 DEF MarkComplete, ClearInProgress, Edit
      <4> QED BY <4>1, FileSame
    <3> QED BY <1>1, <3>1, <3>2, <3>3, ConnKnows
  <2> QED BY <2>1, <2>2
<1>5. CASE conn' = Reply(c)
  BY <1>2, <1>3, <1>4, <1>5, ReplyAside, ConnStepAside DEF Reply
<1>6. CASE conn' = Goto(c, "clear") \/ conn' = Goto(c, "forget")
  <2>1. PICK pc \in {"clear", "forget"} : conn' = [conn EXCEPT ![c] = [conn[c] EXCEPT !.pc = pc]]
    BY <1>6 DEF Goto
  <2>2. ConnAside(conn[c], [conn[c] EXCEPT !.pc = pc])
    BY <1>1, GotoAside
  <2> QED BY <1>2, <1>3, <1>4, <2>1, <2>2, ConnStepAside
<1>7. CASE \E p : conn' = [conn EXCEPT ![c] = [conn[c] EXCEPT !.pc = "finalise", !.place = p]]
  <2>1. PICK p : conn' = [conn EXCEPT ![c] = [conn[c] EXCEPT !.pc = "finalise", !.place = p]]
    BY <1>7
  <2>. DEFINE n == [conn[c] EXCEPT !.pc = "finalise", !.place = p]
  <2>2. n.pc = "finalise" /\ n.sid = conn[c].sid
    BY <1>1, ConnKnows DEF Messages
  <2>. HIDE DEF n
  <2>3. ConnAside(conn[c], n)
    BY <2>2, ConnMovesOn DEF Deleting
  <2> QED BY <1>2, <1>3, <1>4, <2>1, <2>3, ConnStepAside DEF n
<1>8. CASE \E f : conn' = [conn EXCEPT ![c] = [conn[c] EXCEPT !.pc = "route", !.flag = f]]
  <2>1. PICK f : conn' = [conn EXCEPT ![c] = [conn[c] EXCEPT !.pc = "route", !.flag = f]]
    BY <1>8
  <2>. DEFINE n == [conn[c] EXCEPT !.pc = "route", !.flag = f]
  <2>2. n.pc = "route" /\ n.sid = conn[c].sid
    BY <1>1, ConnKnows DEF Messages
  <2>. HIDE DEF n
  <2>3. ConnAside(conn[c], n)
    BY <2>2, ConnMovesOn DEF Deleting
  <2> QED BY <1>2, <1>3, <1>4, <2>1, <2>3, ConnStepAside DEF n
<1> QED BY <1>5, <1>6, <1>7, <1>8 DEF LookUp, MarkComplete, ClearInProgress, ForgetDegraded

(* Done wakes a loop, and may start a task for the closing image.           *)
LEMMA SendDoneAside ==
  ASSUME Local, Shape, DirInv, NEW c \in Conn, SendDone(c) \/ ClosingImage(c)
  PROVE  Aside
<1>1. conn[c].pc # "idle"
  BY DEF SendDone, ClosingImage
<1>2. RegAside /\ FileAside /\ HistAside
  BY RecordAside, FileSame DEF SendDone, ClosingImage, HistAside, Crowded
<1>3. \A l \in Loop : loop'[l] = loop[l] \/ LoopAside(loop[l], loop'[l])
  BY FireAside DEF SendDone, ClosingImage
<1>4. \/ conn' = [conn EXCEPT ![c] = Idle]
      \/ conn' = [conn EXCEPT ![c] = [conn[c] EXCEPT !.pc = "await"]]
      \/ conn' = [conn EXCEPT ![c] = [conn[c] EXCEPT !.pc = "picture"]]
  BY DEF SendDone, ClosingImage, Awaits, Reply, Goto
<1>5. /\ ConnAside(conn[c], [conn[c] EXCEPT !.pc = "await"])
      /\ ConnAside(conn[c], [conn[c] EXCEPT !.pc = "picture"])
  BY <1>1, GotoAside
<1>6. UNCHANGED boot
  BY DEF SendDone, ClosingImage
<1> QED BY <1>2, <1>3, <1>4, <1>5, <1>6, ReplyAside, ConnStepAside

(* The messages that arrive.                                                *)
LEMMA ReceiveAside ==
  ASSUME Local, Shape, DirInv, {"raced", "crowded", "shared", "stale"} \subseteq Tracked,
         NEW c \in Conn, NEW s \in Session, NEW force, NEW ok,
         \/ Done(c, s) \/ ReasoningDegraded(c, s) \/ CircuitReset(c, s)
         \/ DeleteSession(c, s, force, ok)
  PROVE  Aside
<1>1. RegAside /\ FileAside /\ UNCHANGED <<loop, boot>>
  BY RecordAside, FileSame DEF Done, ReasoningDegraded, CircuitReset, DeleteSession
<1>2. HistAside
  BY ArrivesAside DEF Done, ReasoningDegraded, CircuitReset, DeleteSession
<1>3. Issued(s)
  BY DEF Done, ReasoningDegraded, CircuitReset, DeleteSession
<1>4. ASSUME DeleteSession(c, s, force, ok)
      PROVE  ~Clean' \/ \A l \in Loop : loop[l].sid # s
  <2>1. CASE Free(s)
    BY <2>1 DEF Free
  <2>2. CASE ~Free(s)
    <3>1. hist \in [Session -> SUBSET Marks]
      BY DEF Shape, CoreTypes
    <3>2. "raced" \in hist'[s]
      BY <1>4, <2>2, <3>1 DEF DeleteSession, Interrupts, Mark
    <3> QED BY <3>2 DEF Clean
  <2> QED BY <2>1, <2>2
<1>5. ASSUME NEW pc, NEW k, NEW p, NEW flag,
             conn' = [conn EXCEPT ![c] = Message(pc, s, k, p, flag)],
             pc \notin {"init", "store"},
             \/ pc \notin {"unhandle", "wipe", "objects", "purge"}
             \/ DeleteSession(c, s, force, ok)
      PROVE  Aside
  <2>1. ConnAside(conn[c], Message(pc, s, k, p, flag))
    BY <1>3, <1>4, <1>5, NamesAside
  <2> QED BY <1>1, <1>2, <1>5, <2>1, ConnStepAside
<1>6. CASE Done(c, s)
  <2>. DEFINE pc == IF handles[s] = None THEN "lookup" ELSE "send"
  <2>1. conn' = [conn EXCEPT ![c] = Message(pc, s, handles[s], None, FALSE)]
    BY <1>6 DEF Done
  <2>2. pc \notin {"init", "store", "unhandle", "wipe", "objects", "purge"}
    OBVIOUS
  <2>. HIDE DEF pc
  <2> QED BY <1>5, <2>1, <2>2
<1>7. CASE ReasoningDegraded(c, s)
  <2>. DEFINE pc == "degrade"
              flag == FALSE
  <2>1. conn' = [conn EXCEPT ![c] = Message(pc, s, None, None, flag)]
    BY <1>7 DEF ReasoningDegraded
  <2>2. pc \notin {"init", "store", "unhandle", "wipe", "objects", "purge"}
    OBVIOUS
  <2>. HIDE DEF pc, flag
  <2> QED BY <1>5, <2>1, <2>2
<1>8. CASE CircuitReset(c, s)
  <2>. DEFINE pc == "reset"
              flag == FALSE
  <2>1. conn' = [conn EXCEPT ![c] = Message(pc, s, None, None, flag)]
    BY <1>8 DEF CircuitReset
  <2>2. pc \notin {"init", "store", "unhandle", "wipe", "objects", "purge"}
    OBVIOUS
  <2>. HIDE DEF pc, flag
  <2> QED BY <1>5, <2>1, <2>2
<1>9. CASE DeleteSession(c, s, force, ok)
  <2>. DEFINE pc == IF ok /\ reg[s].status = "active" THEN "unhandle" ELSE "wipe"
              p == IF ok THEN reg[s].path ELSE None
  <2>1. conn' = [conn EXCEPT ![c] = Message(pc, s, None, p, force)]
    BY <1>9 DEF DeleteSession
  <2>2. pc \notin {"init", "store"}
    OBVIOUS
  <2>. HIDE DEF pc, p
  <2> QED BY <1>5, <1>9, <2>1, <2>2
<1> QED BY <1>6, <1>7, <1>8, <1>9

(* The first metadata.json of a session, in a directory nobody had.         *)
LEMMA InitialiseAside ==
  ASSUME Local, Shape, DirInv, NEW c \in Conn, NEW ok, NEW uploaded,
         InitialiseDir(c, ok, uploaded)
  PROVE  Aside
<1>. DEFINE p == conn[c].place
            s == conn[c].sid
            m == [owner |-> s, status |-> "active", prog |-> "none"]
<1>1. conn[c].pc = "init" /\ conn[c].pc # "idle" /\ p \in Place
  BY DirTypes DEF InitialiseDir, ConnOK
<1>2. RegAside /\ UNCHANGED <<loop, boot>>
  BY RecordAside DEF InitialiseDir
<1>3. HistAside
  BY <1>1, ConnKnows, OutcomeAside DEF InitialiseDir
<1>4. FileAside
  <2>1. CASE UNCHANGED file
    BY <2>1, FileSame
  <2>2. CASE file[p] = NoFile /\ file' = [file EXCEPT ![p] = m]
    <3>1. \A q \in Place : file'[q].owner = file[q].owner \/ (q = p /\ file'[q].owner = s)
      BY <1>1, <2>2, ConnKnows
    <3>2. \A q \in Place : file'[q].owner \in {None, file[q].owner} \/ Written(q)
      BY <1>1, <3>1 DEF Written
    <3>3. file[p].owner = None
      BY <2>2 DEF NoFile
    <3>4. ASSUME Clean, NEW k \in Loop, Working(loop[k])
          PROVE  file'[loop[k].place].owner = loop[k].sid
      <4>1. file[loop[k].place].owner = loop[k].sid
        BY <3>4 DEF DirInv, OwnDirectory
      <4>2. loop[k].sid # None /\ loop[k].place \in Place
        BY <3>4, NoneAssumption, DirTypes DEF LoopOK, Working
      <4>3. loop[k].place # p
        BY <3>3, <4>1, <4>2
      <4> QED BY <2>2, <4>1, <4>2, <4>3, <1>1, ConnKnows
    <3> QED BY <3>2, <3>4 DEF FileAside
  <2> QED BY <2>1, <2>2 DEF InitialiseDir
<1>5. CASE conn' = Reply(c)
  BY <1>2, <1>3, <1>4, <1>5, ReplyAside, ConnStepAside DEF Reply
<1>6. CASE conn' = Goto(c, "rollback")
  <2>1. ConnAside(conn[c], [conn[c] EXCEPT !.pc = "rollback"])
    BY <1>1, GotoAside
  <2> QED BY <1>2, <1>3, <1>4, <1>6, <2>1, ConnStepAside DEF Goto
<1> QED BY <1>5, <1>6 DEF InitialiseDir

(* A purge takes what belongs to the session it is for.                     *)
LEMMA PurgeAside ==
  ASSUME Shape, DirInv, NEW s \in Session, NEW p, NEW ok, PurgeMemoryDir(s, p, ok),
         Clean => \A l \in Loop : Working(loop[l]) => loop[l].sid # s
  PROVE  FileAside
<1>1. \A q \in Place : file'[q] = file[q] \/ (file[q].owner = s /\ file'[q] = NoFile)
  BY DEF PurgeMemoryDir
<1>2. \A q \in Place : file'[q].owner \in {None, file[q].owner}
  BY <1>1 DEF NoFile
<1>3. ASSUME Clean, NEW k \in Loop, Working(loop[k])
      PROVE  file'[loop[k].place].owner = loop[k].sid
  <2>1. file[loop[k].place].owner = loop[k].sid
    BY <1>3 DEF DirInv, OwnDirectory
  <2>2. loop[k].sid # s /\ loop[k].place \in Place
    BY <1>3, DirTypes DEF LoopOK, Working
  <2> QED BY <1>1, <2>1, <2>2
<1> QED BY <1>2, <1>3 DEF FileAside

(* DeleteSession removes the record and what belongs to the session.        *)
LEMMA DeleteAside ==
  ASSUME Local, Shape, DirInv, NEW c \in Conn, NEW ok,
         \/ DropHandle(c) \/ DeleteRecord(c, ok) \/ DeleteObjects(c, ok) \/ PurgeDir(c, ok)
  PROVE  Aside
<1>. DEFINE s == conn[c].sid
<1>1. Deleting(conn[c]) /\ conn[c].pc # "idle"
  BY DEF DropHandle, DeleteRecord, DeleteObjects, PurgeDir, Deleting
<1>2. ConnAside(conn[c], Idle) /\ ConnAside(conn[c], [conn[c] EXCEPT !.pc = "wipe"])
      /\ ConnAside(conn[c], [conn[c] EXCEPT !.pc = "objects"])
      /\ ConnAside(conn[c], [conn[c] EXCEPT !.pc = "purge"])
  BY <1>1, ReplyAside, GotoAside
<1>3. CASE DropHandle(c)
  <2>1. RegAside /\ FileAside /\ HistAside
    BY <1>3, RecordAside, FileSame DEF DropHandle, HistAside, Crowded
  <2>2. \A l \in Loop : LoopAside(loop[l], loop'[l])
    BY <1>3, FireAside DEF DropHandle
  <2>3. conn' = [conn EXCEPT ![c] = [conn[c] EXCEPT !.pc = "wipe"]] /\ UNCHANGED boot
    BY <1>3 DEF DropHandle, Goto
  <2> QED BY <1>2, <2>1, <2>2, <2>3, ConnStepAside
<1>4. CASE DeleteRecord(c, ok)
  <2>1. reg' = reg \/ reg' = [reg EXCEPT ![s] = NoRecord]
    BY <1>4 DEF DeleteRecord
  <2>2. RegAside
    BY <1>1, <2>1, ConnKnows, RecordAside
  <2>4. FileAside
    BY <1>4, FileSame DEF DeleteRecord
  <2>5. HistAside
    BY <1>1, <1>4, ConnKnows, OutcomeAside DEF DeleteRecord
  <2>3. UNCHANGED loop /\ UNCHANGED boot
        /\ \/ conn' = [conn EXCEPT ![c] = Idle]
           \/ conn' = [conn EXCEPT ![c] = [conn[c] EXCEPT !.pc = "objects"]]
    BY <1>4 DEF DeleteRecord, Goto, Reply
  <2> QED BY <1>2, <2>2, <2>3, <2>4, <2>5, ConnStepAside
<1>5. CASE DeleteObjects(c, ok)
  <2>1. UNCHANGED file
    BY <1>5 DEF DeleteObjects, DeleteAll
  <2>2. RegAside /\ FileAside /\ HistAside
    BY <1>1, <1>5, <2>1, ConnKnows, RecordAside, FileSame, OutcomeAside DEF DeleteObjects
  <2>3. UNCHANGED loop /\ UNCHANGED boot
        /\ conn' = [conn EXCEPT ![c] = [conn[c] EXCEPT !.pc = "purge"]]
    BY <1>5 DEF DeleteObjects, Goto
  <2> QED BY <1>2, <2>2, <2>3, ConnStepAside
<1>6. CASE PurgeDir(c, ok)
  <2>1. Clean => \A l \in Loop : loop[l].sid # s
    BY <1>1 DEF DirInv, OwnDirectory
  <2>2. FileAside
    BY <1>1, <1>6, <2>1, ConnKnows, PurgeAside DEF PurgeDir
  <2>3. (hist' = Mark(s, {"purged"}) \/ hist' = Outcome(s, ok)) /\ UNCHANGED <<reg, loop, boot>>
        /\ conn' = [conn EXCEPT ![c] = Idle]
    BY <1>6 DEF PurgeDir, Reply
  <2>4. RegAside /\ HistAside
    BY <1>1, <2>3, ConnKnows, RecordAside, MarkAside, OutcomeAside
  <2> QED BY <1>2, <2>2, <2>3, <2>4, ConnStepAside
<1> QED BY <1>3, <1>4, <1>5, <1>6

(* The signal handler.                                                      *)
LEMMA SignalAside ==
  ASSUME Local, Shape, DirInv,
         \/ Signal
         \/ \E s \in Session : \E ok : FlagInterrupted(s, ok)
  PROVE  Aside
<1>1. UNCHANGED reg /\ UNCHANGED loop /\ UNCHANGED conn /\ UNCHANGED boot
  BY DEF Signal, FlagInterrupted
<1>2. /\ \A k \in Loop : LoopAside(loop[k], loop'[k])
      /\ \A c \in Conn : ConnAside(conn[c], conn'[c])
      /\ RegAside /\ BootAside
  BY <1>1 DEF LoopAside, ConnAside, DirInv, RegAside, BootAside
<1>3. CASE Signal
  BY <1>2, <1>3, FileSame DEF Signal, Aside, HistAside, Crowded
<1>4. ASSUME NEW s \in Session, NEW ok, FlagInterrupted(s, ok)
      PROVE  Aside
  <2>. DEFINE p == MetaPlace(s)
  <2>1. HistAside
    <3>1. hist' = Outcome(s, ok) \/ hist' = Works(s, p, ok)
      BY <1>4 DEF FlagInterrupted
    <3> QED BY <3>1, OutcomeAside
  <2>2. CASE UNCHANGED file
    BY <1>2, <2>1, <2>2, FileSame DEF Aside
  <2>3. CASE HasRecord(s) /\ Edit(p, [file[p] EXCEPT !.prog = "interrupted"], ok)
    <3>1. p \in Place /\ file \in [Place -> Meta \cup {NoFile}]
      BY <2>3, MetaPlaceTyped DEF Shape, CoreTypes
    <3>2. CASE file[p] = NoFile
      BY <1>2, <2>1, <2>3, <3>2, FileSame DEF Edit, Aside
    <3>3. CASE file[p] \in Meta
      <4>1. [file[p] EXCEPT !.prog = "interrupted"].owner = file[p].owner
        BY <3>3 DEF Meta
      <4>2. FileAside
        BY <2>3, <4>1, EditAside
      <4> QED BY <1>2, <2>1, <4>2 DEF Aside
    <3> QED BY <3>1, <3>2, <3>3
  <2> QED BY <1>4, <2>2, <2>3 DEF FlagInterrupted
<1> QED BY <1>3, <1>4

-----------------------------------------------------------------------------
(* Start-up.                                                                *)
LEMMA SweepsAside ==
  ASSUME Local, Shape, DirInv, NEW s \in Session, NEW ok, NEW replayed,
         \/ SweepActive(s, ok, replayed) \/ SweepStatus(ok) \/ Reconcile(s, ok)
  PROVE  Aside
<1>1. CASE SweepActive(s, ok, replayed)
  <2>1. UNCHANGED file
    BY <1>1, ModeAssumption DEF SweepActive, Local
  <2>2. RegAside /\ UNCHANGED <<loop, conn>>
    BY <1>1, RecordAside DEF SweepActive
  <2>3. HistAside
    BY <1>1, OutcomeAside DEF SweepActive
  <2>4. BootAside
    <3>1. boot'.sid = s /\ boot'.place = reg[s].path /\ UNCHANGED reg
      BY <1>1 DEF SweepActive, Boot
    <3>2. boot'.pc \in {"restore", "rename", "demote"}
      BY <1>1 DEF SweepActive, Boot
    <3> QED BY <3>1, <3>2 DEF BootAside
  <2> QED BY <2>1, <2>2, <2>3, <2>4, FileSame, BootStepAside
<1>2. CASE SweepStatus(ok)
  <2>1. boot.sid \in Session
    BY <1>2 DEF SweepStatus, Shape, BootShape
  <2>2. RegAside
    BY <1>2, <2>1, RecordAside DEF SweepStatus
  <2>3. HistAside
    BY <1>2, <2>1, OutcomeAside DEF SweepStatus
  <2>4. BootAside /\ UNCHANGED file /\ UNCHANGED <<loop, conn>>
    BY <1>2 DEF SweepStatus, BootAside, Boot
  <2> QED BY <2>2, <2>3, <2>4, FileSame, BootStepAside
<1>3. CASE Reconcile(s, ok)
  <2>2. RegAside
    BY <1>3, RecordAside DEF Reconcile
  <2>3. HistAside
    BY <1>3, OutcomeAside DEF Reconcile
  <2>4. UNCHANGED file /\ UNCHANGED <<loop, conn>>
    BY <1>3 DEF Reconcile
  <2>5. BootAside
    <3>1. boot'.pc = "reconcile"
      BY <1>3, BootFacts DEF Reconcile, BootOK
    <3> QED BY <3>1 DEF BootAside
  <2> QED BY <2>2, <2>3, <2>4, <2>5, FileSame, BootStepAside
<1> QED BY <1>1, <1>2, <1>3

(* The retention sweep removes the record and what belongs to the session.  *)
LEMMA RetiresAside ==
  ASSUME Local, Shape, DirInv, NEW s \in Session, NEW ok, NEW old,
         \/ RetireRecord(s, ok) \/ RetireObjects(ok) \/ RetireDir(ok)
         \/ StartReconcile \/ StartRetention(old) \/ Serve
  PROVE  Aside
<1>1. CASE RetireRecord(s, ok)
  <2>1. reg' = reg \/ reg' = [reg EXCEPT ![s] = NoRecord]
    BY <1>1 DEF RetireRecord
  <2>2. RegAside
    BY <2>1, RecordAside
  <2>3. HistAside
    BY <1>1, OutcomeAside DEF RetireRecord
  <2>4. UNCHANGED file /\ UNCHANGED <<loop, conn>>
    BY <1>1 DEF RetireRecord
  <2>5. BootAside
    <3>1. boot'.pc \in {"objects", "retention"}
      BY <1>1, BootFacts DEF RetireRecord, Boot, BootOK
    <3> QED BY <3>1 DEF BootAside
  <2> QED BY <2>2, <2>3, <2>4, <2>5, FileSame, BootStepAside
<1>2. CASE RetireObjects(ok)
  <2>1. boot.sid \in Session
    BY <1>2 DEF RetireObjects, Shape, BootShape
  <2>2. RegAside
    BY <1>2, RecordAside DEF RetireObjects
  <2>3. HistAside
    BY <1>2, <2>1, OutcomeAside DEF RetireObjects
  <2>4. UNCHANGED file /\ UNCHANGED <<loop, conn>>
    BY <1>2 DEF RetireObjects, DeleteAll
  <2>5. BootAside
    <3>1. boot'.pc = "purge"
      BY <1>2, BootFacts DEF RetireObjects, BootOK
    <3> QED BY <3>1 DEF BootAside
  <2> QED BY <2>2, <2>3, <2>4, <2>5, FileSame, BootStepAside
<1>3. CASE RetireDir(ok)
  <2>1. boot.sid \in Session /\ boot # Serving
    BY <1>3 DEF RetireDir, Shape, BootShape, Serving, Boot
  <2>2. RegAside
    BY <1>3, RecordAside DEF RetireDir
  <2>3. HistAside
    BY <1>3, <2>1, OutcomeAside DEF RetireDir
  <2>4. FileAside
    <3>1. \A l \in Loop : ~Working(loop[l])
      BY <2>1 DEF Shape, BootShape, Working
    <3> QED BY <1>3, <2>1, <3>1, PurgeAside DEF RetireDir
  <2>5. BootAside /\ UNCHANGED <<loop, conn>>
    BY <1>3 DEF RetireDir, BootAside, Boot
  <2> QED BY <2>2, <2>3, <2>4, <2>5, BootStepAside
<1>4. CASE StartReconcile \/ StartRetention(old) \/ Serve
  <2>1. UNCHANGED <<reg, file, loop, conn, hist>>
    BY <1>4 DEF StartReconcile, StartRetention, Serve
  <2>2. boot'.pc \in {"reconcile", "retention", "serving"}
    BY <1>4 DEF StartReconcile, StartRetention, Serve, Boot, Serving
  <2>3. RegAside /\ HistAside /\ BootAside
    BY <2>1, <2>2 DEF RegAside, HistAside, Crowded, BootAside
  <2> QED BY <2>1, <2>3, FileSame, BootStepAside
<1> QED BY <1>1, <1>2, <1>3, <1>4

-----------------------------------------------------------------------------
(* RegisterSession: nothing knew of the session.                            *)
LEMMA RegisterKeeps ==
  ASSUME Local, Shape, Shape', DirInv, NEW c \in Conn, NEW s \in Session, NEW n \in Name,
         RegisterSession(c, s, n)
  PROVE  DirInv'
<1>. DEFINE p == <<n, FALSE>>
<1>1. Unknown(s) /\ s # None
  BY DirTypes DEF RegisterSession, DirInv, DrawnFirst
<1>2. /\ \A t \in Session : t # s => reg'[t] = reg[t] /\ hist'[t] = hist[t]
      /\ hist'[s] = hist[s] \cup {"issued"}
      /\ reg'[s].path = p /\ reg'[s] # NoRecord
      /\ UNCHANGED <<file, loop, boot>>
  BY DEF RegisterSession, Shape, CoreTypes, NoRecord
<1>3. /\ \A d \in Conn : d # c => conn'[d] = conn[d]
      /\ conn'[c].pc = "init" /\ conn'[c].sid = s /\ conn'[c].place = p
  BY DEF RegisterSession, Shape, CoreTypes, Message
<1>4. \A t \in Session : /\ "crowded" \in hist'[t] <=> Crowded(t)
                         /\ "shared" \in hist'[t] <=> Shared(t)
                         /\ "raced" \in hist'[t] <=> "raced" \in hist[t]
                         /\ hist[t] \subseteq hist'[t]
  BY <1>2 DEF Crowded, Shared
<1>5. DrawnFirst'
  <2> SUFFICES ASSUME NEW t \in Session, "issued" \notin hist'[t]
               PROVE  Unknown(t)'
    BY DEF DrawnFirst, Issued
  <2>1. t # s /\ Unknown(t)
    BY <1>2 DEF DirInv, DrawnFirst, Issued
  <2> QED BY <1>2, <1>3, <2>1 DEF Unknown, HasRecord, Place, Path
<1>6. OwnCopy'
  <2> SUFFICES ASSUME NEW l \in Loop, loop[l].mem.owner # None, loop[l].mem.owner # loop[l].sid
               PROVE  "shared" \in hist'[loop[l].mem.owner]
    BY <1>2 DEF OwnCopy, Shared
  <2> QED BY <1>4, DirTypes DEF DirInv, OwnCopy
<1>7. OneAtWork'
  <2>1. ASSUME NEW k \in Loop, NEW l \in Loop, loop[k].sid = loop[l].sid, loop[k].sid # None,
               k # l
        PROVE  "crowded" \in hist'[loop[k].sid]
    BY <1>4, <2>1, DirTypes DEF DirInv, OneAtWork
  <2>2. ASSUME NEW d \in Conn, NEW l \in Loop, conn'[d].pc = "init",
               loop[l].sid = conn'[d].sid
        PROVE  "crowded" \in hist'[conn'[d].sid]
    <3>1. d # c
      BY <1>1, <1>3, <2>2 DEF Unknown
    <3> QED BY <1>3, <1>4, <2>2, <3>1, DirTypes DEF DirInv, OneAtWork, ConnOK
  <2> QED BY <1>2, <2>1, <2>2 DEF OneAtWork, Crowded
<1>8. PathsKept'
  <2>1. ASSUME NEW d \in Conn PROVE ConnPath(d)'
    <3>1. CASE d = c
      BY <1>2, <1>3, <3>1 DEF ConnPath
    <3>2. CASE d # c
      <4>1. ConnPath(d) /\ conn'[d] = conn[d] /\ conn[d].sid # s
        BY <1>1, <1>3, <3>2 DEF DirInv, PathsKept, Unknown
      <4>2. conn[d].pc = "init" => conn[d].sid \in Session
        BY DirTypes DEF ConnOK
      <4> QED BY <1>2, <4>1, <4>2 DEF ConnPath, HasRecord, Crowded
    <3> QED BY <3>1, <3>2
  <2>2. ASSUME NEW l \in Loop PROVE LoopPath(l)'
    <3>1. LoopPath(l) /\ loop[l].sid # s /\ loop'[l] = loop[l]
      BY <1>1, <1>2 DEF DirInv, PathsKept, Unknown
    <3>2. loop[l].pc # "none" => loop[l].sid \in Session
      BY DirTypes DEF LoopOK
    <3>3. CASE loop[l].pc = "none"
      BY <3>1, <3>3 DEF LoopPath, Working
    <3>4. CASE loop[l].pc # "none"
      <4>1. /\ reg'[loop[l].sid] = reg[loop[l].sid]
            /\ hist'[loop[l].sid] = hist[loop[l].sid]
        BY <1>2, <3>1, <3>2, <3>4
      <4> QED BY <1>2, <3>1, <4>1
              DEF LoopPath, Moved, HasRecord, Crowded, Shared, Candidates, Incomplete
    <3> QED BY <3>3, <3>4
  <2>3. BootPath'
    BY DEF RegisterSession, Accepts, BootPath, Serving, Boot
  <2> QED BY <2>1, <2>2, <2>3 DEF PathsKept
<1>9. PurgeFindsDirectory'
  <2> SUFFICES ASSUME NEW q \in Place, NEW t \in Session, file[q].owner = t, reg'[t] # NoRecord,
                      hist'[t] \cap {"crowded", "shared", "stale"} = {}
               PROVE  q \in Candidates(reg'[t].path)
    BY <1>2, DirTypes DEF PurgeFindsDirectory, HasRecord, Candidates, Incomplete, Place, Path
  <2>1. t # s /\ t # None
    BY <1>1, DirTypes DEF Unknown
  <2> QED BY <1>2, <2>1 DEF DirInv, PurgeFindsDirectory, HasRecord
<1>10. OwnDirectory'
  <2>1. ASSUME NEW t \in Session, "crowded" \in hist'[t] PROVE "raced" \in hist'[t]
    BY <1>4, <2>1 DEF DirInv, OwnDirectory
  <2>2. ASSUME \A t \in Session : hist'[t] \cap {"raced", "shared", "stale"} = {} PROVE Clean
    BY <1>4, <2>2 DEF Clean, Shared
  <2>3. \A d \in Conn : Deleting(conn'[d]) => Deleting(conn[d]) /\ conn'[d].sid = conn[d].sid
    BY <1>3 DEF Deleting
  <2> QED BY <1>2, <2>1, <2>2, <2>3 DEF DirInv, OwnDirectory, Clean, Crowded
<1>11. \A d \in Conn : conn'[d].pc # "store"
  BY <1>3 DEF DirInv
<1> QED BY <1>5, <1>6, <1>7, <1>8, <1>9, <1>10, <1>11 DEF DirInv

(* StartWatch: either nothing was at work on the session, or it is marked.  *)
LEMMA StartKeeps ==
  ASSUME Local, Shape, Shape', DirInv, {"raced", "crowded", "shared", "stale"} \subseteq Tracked,
         NEW c \in Conn, NEW s \in Session, NEW l \in Loop, StartWatch(c, s, l)
  PROVE  DirInv'
<1>1. Issued(s) /\ HasRecord(s) /\ s # None
  BY DirTypes DEF StartWatch, DirInv, DrawnFirst, Unknown
<1>2. /\ \A k \in Loop : k # l => loop'[k] = loop[k]
      /\ loop'[l].sid = s /\ loop'[l].pc = "load" /\ loop'[l].mem.owner = None
      /\ UNCHANGED <<reg, file, boot>>
  BY DEF StartWatch, Shape, CoreTypes, NoLoop, NoFile
<1>3. /\ \A d \in Conn : d # c => conn'[d] = conn[d]
      /\ conn'[c].pc = "ready" /\ conn'[c].sid = s
  BY DEF StartWatch, Shape, CoreTypes, Message
<1>4. /\ \A t \in Session : hist[t] \subseteq hist'[t]
      /\ \A t \in Session : t # s => hist'[t] = hist[t]
      /\ \A t \in Session : "issued" \in hist'[t] => "issued" \in hist[t] \/ t = s
      /\ \/ hist'[s] \subseteq hist[s] \cup {"raced"} /\ Free(s)
         \/ {"raced", "crowded"} \subseteq hist'[s]
  BY DEF StartWatch, Starts, Mark, Shape, CoreTypes
<1>5. DrawnFirst'
  <2> SUFFICES ASSUME NEW t \in Session, "issued" \notin hist'[t]
               PROVE  Unknown(t)'
    BY DEF DrawnFirst, Issued
  <2>1. t # s /\ t # None /\ Unknown(t)
    BY <1>1, <1>4, DirTypes DEF DirInv, DrawnFirst, Issued
  <2> QED BY <1>2, <1>3, <2>1 DEF Unknown, HasRecord, Place, Path
<1>6. OwnCopy'
  <2> SUFFICES ASSUME NEW k \in Loop, loop'[k].mem.owner # None,
                      loop'[k].mem.owner # loop'[k].sid
               PROVE  "shared" \in hist'[loop'[k].mem.owner]
    BY DEF OwnCopy, Shared
  <2>1. loop'[k] = loop[k]
    BY <1>2
  <2> QED BY <1>4, <2>1, DirTypes DEF DirInv, OwnCopy, Shared
<1>7. ASSUME \/ \E k \in Loop : k # l /\ loop[k].sid = s
             \/ \E d \in Conn : conn[d].sid = s
      PROVE  "crowded" \in hist'[s]
  BY <1>4, <1>7 DEF Free
<1>8. OneAtWork'
  <2>1. ASSUME NEW k \in Loop, NEW j \in Loop, loop'[k].sid = loop'[j].sid,
               loop'[k].sid # None, k # j
        PROVE  "crowded" \in hist'[loop'[k].sid]
    <3>1. CASE k = l \/ j = l
      BY <1>2, <1>7, <2>1, <3>1
    <3>2. CASE k # l /\ j # l
      BY <1>2, <1>4, <2>1, <3>2, DirTypes DEF DirInv, OneAtWork, Crowded
    <3> QED BY <3>1, <3>2
  <2>2. ASSUME NEW d \in Conn, NEW j \in Loop, conn'[d].pc = "init",
               loop'[j].sid = conn'[d].sid
        PROVE  "crowded" \in hist'[conn'[d].sid]
    <3>1. conn'[d] = conn[d]
      BY <1>3, <2>2
    <3>2. CASE j = l
      BY <1>2, <1>7, <2>2, <3>1, <3>2
    <3>3. CASE j # l
      BY <1>2, <1>4, <2>2, <3>1, <3>3, DirTypes DEF DirInv, OneAtWork, Crowded, ConnOK
    <3> QED BY <3>2, <3>3
  <2> QED BY <2>1, <2>2 DEF OneAtWork, Crowded
<1>9. PathsKept'
  <2>1. ASSUME NEW d \in Conn PROVE ConnPath(d)'
    <3>1. CASE d = c
      BY <1>3, <3>1 DEF ConnPath
    <3>2. CASE d # c
      <4>1. ConnPath(d) /\ conn'[d] = conn[d]
        BY <1>3, <3>2 DEF DirInv, PathsKept
      <4>2. conn[d].pc = "init" => conn[d].sid \in Session
        BY DirTypes DEF ConnOK
      <4> QED BY <1>2, <1>4, <4>1, <4>2 DEF ConnPath, HasRecord, Crowded
    <3> QED BY <3>1, <3>2
  <2>2. ASSUME NEW k \in Loop PROVE LoopPath(k)'
    <3>1. CASE k = l
      BY <1>2, <3>1 DEF LoopPath, Working
    <3>2. CASE k # l
      <4>1. LoopPath(k) /\ loop'[k] = loop[k]
        BY <1>2, <3>2 DEF DirInv, PathsKept
      <4>2. loop[k].pc # "none" => loop[k].sid \in Session
        BY DirTypes DEF LoopOK
      <4>3. CASE loop[k].pc = "none"
        BY <4>1, <4>3 DEF LoopPath, Working
      <4>4. CASE loop[k].pc # "none"
        <5>1. hist[loop[k].sid] \subseteq hist'[loop[k].sid]
          BY <1>4, <4>2, <4>4
        <5> QED BY <1>2, <4>1, <5>1
                DEF LoopPath, Moved, HasRecord, Crowded, Shared, Candidates, Incomplete
      <4> QED BY <4>3, <4>4
    <3> QED BY <3>1, <3>2
  <2>3. BootPath'
    BY DEF StartWatch, Accepts, BootPath, Serving, Boot
  <2> QED BY <2>1, <2>2, <2>3 DEF PathsKept
<1>10. PurgeFindsDirectory'
  <2> SUFFICES ASSUME NEW q \in Place, NEW t, t = file[q].owner, t # None, reg[t] # NoRecord,
                      hist'[t] \cap {"crowded", "shared", "stale"} = {}
               PROVE  q \in Candidates(reg[t].path)
    <3>1. file' = file /\ reg' = reg
      BY <1>2
    <3> QED BY <3>1 DEF PurgeFindsDirectory, HasRecord, Candidates, Incomplete, Place, Path
  <2>1. t \in Session
    BY DirTypes
  <2>2. hist[t] \cap {"crowded", "shared", "stale"} = {}
    BY <1>4, <2>1
  <2> QED BY <2>2 DEF DirInv, PurgeFindsDirectory, HasRecord
<1>11. OwnDirectory'
  <2>1. ASSUME NEW t \in Session, "crowded" \in hist'[t] PROVE "raced" \in hist'[t]
    BY <1>4, <2>1 DEF DirInv, OwnDirectory, Crowded
  <2>2. ASSUME \A t \in Session : hist'[t] \cap {"raced", "shared", "stale"} = {}
        PROVE  Clean /\ Free(s)
    BY <1>4, <2>2 DEF Clean, Shared
  <2>3. \A k \in Loop : Working(loop'[k]) => loop'[k] = loop[k]
    BY <1>2 DEF Working
  <2>4. \A d \in Conn : Deleting(conn'[d]) => conn'[d] = conn[d]
    BY <1>3 DEF Deleting
  <2>5. ASSUME \A t \in Session : hist'[t] \cap {"raced", "shared", "stale"} = {},
               NEW d \in Conn, NEW k \in Loop, Deleting(conn[d])
        PROVE  conn[d].sid # loop'[k].sid
    <3>1. conn[d].sid # loop[k].sid
      BY <2>2, <2>5 DEF DirInv, OwnDirectory
    <3>2. conn[d].sid # s
      BY <2>2, <2>5 DEF Free
    <3> QED BY <1>2, <3>1, <3>2
  <2> QED BY <1>2, <2>1, <2>2, <2>3, <2>4, <2>5 DEF DirInv, OwnDirectory, Clean, Crowded
<1>12. \A d \in Conn : conn'[d].pc # "store"
  BY <1>3 DEF DirInv
<1> QED BY <1>5, <1>6, <1>8, <1>9, <1>10, <1>11, <1>12 DEF DirInv

-----------------------------------------------------------------------------
(* A path and its two names.                                                *)
LEMMA PathParts ==
  ASSUME NEW p \in Path
  PROVE  /\ p[1] \in Name /\ p[2] \in BOOLEAN
         /\ p = <<p[1], p[2]>>
  BY DEF Path

(* The two names of a directory are not each other's.                       *)
LEMMA PathNames ==
  ASSUME NEW p \in Path
  PROVE  /\ Incomplete(p) \in Path /\ Plain(p) \in Path
         /\ Incomplete(p)[2] /\ ~Plain(p)[2]
         /\ Incomplete(Incomplete(p)) = Incomplete(p)
         /\ Plain(Incomplete(p)) = Plain(p)
         /\ p[2] => p = Incomplete(p)
         /\ ~p[2] => p = Plain(p)
<1>1. p[1] \in Name /\ p[2] \in {TRUE, FALSE} /\ p = <<p[1], p[2]>>
  BY PathParts
<1>2. CASE p[2] = TRUE
  BY <1>1, <1>2 DEF Path, Incomplete, Plain
<1>3. CASE p[2] = FALSE
  BY <1>1, <1>3 DEF Path, Incomplete, Plain
<1> QED BY <1>1, <1>2, <1>3

(* mark_incomplete moves a directory to a name nothing has.                 *)
LEMMA Renamed ==
  ASSUME Local, Shape, NEW p \in Path, ~p[2], file[p] # NoFile, file[Incomplete(p)] = NoFile,
         file' = Rename(p)
  PROVE  /\ p # Incomplete(p) /\ Incomplete(p) \in Path /\ Incomplete(p)[2]
         /\ Plain(Incomplete(p)) = p
         /\ file'[p] = NoFile /\ file'[Incomplete(p)] = file[p]
         /\ \A q \in Path : q \notin {p, Incomplete(p)} => file'[q] = file[q]
<1>1. p # Incomplete(p) /\ Incomplete(p) \in Path /\ Incomplete(p)[2]
  BY PathNames
<1>2. Plain(Incomplete(p)) = p
  BY PathNames
<1>3. file \in [Path -> Meta \cup {NoFile}]
  BY Places DEF Shape, CoreTypes
<1> QED BY <1>1, <1>2, <1>3 DEF Rename

(* Purging still finds a directory that was renamed.                        *)
LEMMA RenameFinds ==
  ASSUME Local, Shape, Shape', PurgeFindsDirectory, NEW p \in Path, ~p[2], file[p] # NoFile,
         file[Incomplete(p)] = NoFile, file' = Rename(p), UNCHANGED reg,
         \A s \in Session : hist[s] \subseteq hist'[s]
  PROVE  PurgeFindsDirectory'
<1> SUFFICES ASSUME NEW q \in Path, NEW t \in Session, file'[q].owner = t, reg[t] # NoRecord,
                    hist'[t] \cap {"crowded", "shared", "stale"} = {}
             PROVE  q \in Candidates(reg[t].path)
  <2>1. Place' = Path
    BY DEF Place, Path
  <2>2. \A q \in Path : file'[q].owner # None => file'[q].owner \in Session
    BY <2>1 DEF Shape, CoreTypes, Meta, NoFile
  <2> QED BY <2>1, <2>2 DEF PurgeFindsDirectory, HasRecord, Candidates, Incomplete
<1>1. t # None /\ hist[t] \cap {"crowded", "shared", "stale"} = {} /\ reg[t].path \in Path
  BY DirTypes, MetaPlaceTyped DEF HasRecord, Shape
<1>2. \A r \in Path : file[r].owner = t => r \in Candidates(reg[t].path)
  BY <1>1, Places DEF PurgeFindsDirectory, HasRecord
<1>3. q # p
  BY <1>1, Renamed DEF NoFile
<1>4. CASE q = Incomplete(p)
  <2>1. p \in Candidates(reg[t].path)
    BY <1>2, <1>4, Renamed
  <2>2. p = reg[t].path
    <3>1. ~Incomplete(reg[t].path)[2] => FALSE
      BY DEF Incomplete
    <3>2. p # Incomplete(reg[t].path)
      BY <3>1
    <3> QED BY <2>1, <3>2 DEF Candidates
  <2>3. reg[t].path # None
    BY <1>1, NoneAssumption DEF Path
  <2> QED BY <1>4, <2>2, <2>3 DEF Candidates
<1>5. CASE q # Incomplete(p)
  BY <1>2, <1>3, <1>5, Renamed
<1> QED BY <1>4, <1>5

(* Where a task has just renamed the directory of s, or found it renamed.   *)
LEMMA RenameMoves ==
  ASSUME Local, Shape, DirInv, NEW s \in Session, NEW p \in Path,
         reg[s] # NoRecord /\ ~Crowded(s) => reg[s].path = p,
         UNCHANGED reg, \A t \in Session : hist[t] \subseteq hist'[t],
         \/ p[2] /\ UNCHANGED file
         \/ ~p[2] /\ file[p] # NoFile /\ file[Incomplete(p)] = NoFile /\ file' = Rename(p)
  PROVE  MovedNow(s, Incomplete(p))
<1>1. Incomplete(p)[2] /\ p # None /\ Incomplete(p) \in Path /\ s # None
  BY NoneAssumption DEF Incomplete, Path
<1>2. reg'[s] # NoRecord /\ "crowded" \notin hist'[s] =>
         Incomplete(p) \in Candidates(reg'[s].path)
  BY <1>1 DEF Candidates, Crowded
<1>3. CASE p[2] /\ UNCHANGED file
  <2>1. p = Incomplete(p) /\ Plain(p) \in Place /\ Plain(p) # p
    BY <1>3, Places, PathNames
  <2>2. ASSUME file[Plain(p)].owner = s, reg[s] # NoRecord, ~Crowded(s), ~Shared(s),
               "stale" \notin hist[s]
        PROVE  FALSE
    <3>1. hist[s] \cap {"crowded", "shared", "stale"} = {}
      BY <2>2 DEF Crowded, Shared
    <3>2. Plain(p) \in Candidates(reg[s].path)
      BY <1>1, <2>1, <2>2, <3>1 DEF DirInv, PurgeFindsDirectory, HasRecord
    <3> QED BY <2>1, <2>2, <3>2 DEF Candidates
  <2> QED BY <1>1, <1>2, <1>3, <2>1, <2>2 DEF MovedNow, Crowded, Shared
<1>4. CASE ~p[2] /\ file[p] # NoFile /\ file[Incomplete(p)] = NoFile /\ file' = Rename(p)
  <2>1. file'[Plain(Incomplete(p))].owner # s
    BY <1>1, <1>4, Renamed DEF NoFile
  <2> QED BY <1>1, <1>2, <2>1 DEF MovedNow
<1> QED BY <1>3, <1>4

(* A rename of another directory does not bring one back to its old name.   *)
LEMMA RenameKeepsMoved ==
  ASSUME Local, Shape, NEW p \in Path, ~p[2], file[p] # NoFile, file[Incomplete(p)] = NoFile,
         file' = Rename(p), UNCHANGED reg, \A t \in Session : hist[t] \subseteq hist'[t],
         NEW t \in Session, NEW q \in Path, Moved(t, q)
  PROVE  MovedNow(t, q)
<1>1. Plain(q) \in Path /\ Plain(q) # Incomplete(p) /\ t # None
  BY NoneAssumption DEF Path, Plain, Incomplete
<1>2. file'[Plain(q)] = file[Plain(q)] \/ file'[Plain(q)] = NoFile
  BY <1>1, Renamed
<1>3. file'[Plain(q)].owner = t => file[Plain(q)].owner = t
  BY <1>1, <1>2 DEF NoFile
<1> QED BY <1>3 DEF Moved, MovedNow, HasRecord, Crowded, Shared, Candidates, Incomplete

(* update_memory_path after a rename: what is found under the old path or   *)
(* its sibling is under the new one.                                        *)
LEMMA RepathFinds ==
  ASSUME Local, Shape, Shape', DirInv, NEW s \in Session, NEW q \in Path, NEW ok,
         Moved(s, q), UpdateMemoryPath(s, q, ok), UNCHANGED file,
         \A t \in Session : hist[t] \subseteq hist'[t]
  PROVE  PurgeFindsDirectory'
<1> SUFFICES ASSUME NEW p \in Path, NEW t \in Session, file[p].owner = t, reg'[t] # NoRecord,
                    hist'[t] \cap {"crowded", "shared", "stale"} = {}
             PROVE  p \in Candidates(reg'[t].path)
  <2>1. Place' = Path /\ Place = Path
    BY DEF Place, Path
  <2> QED BY <2>1, DirTypes DEF PurgeFindsDirectory, HasRecord, Candidates, Incomplete
<1>1. t # None /\ ~Crowded(t) /\ ~Shared(t) /\ "stale" \notin hist[t]
  BY DirTypes DEF Crowded, Shared
<1>2. reg[t] # NoRecord
  <2>1. HasRecord(t)' <=> HasRecord(t)
    BY UpdatePathTyped DEF Shape
  <2> QED BY <2>1 DEF HasRecord
<1>3. p \in Candidates(reg[t].path)
  <2>1. hist[t] \cap {"crowded", "shared", "stale"} = {}
    BY <1>1 DEF Crowded, Shared
  <2> QED BY <1>1, <1>2, <2>1, Places DEF DirInv, PurgeFindsDirectory, HasRecord
<1>4. CASE reg'[t] = reg[t]
  BY <1>3, <1>4
<1>5. CASE t = s /\ reg' = [reg EXCEPT ![s].path = q]
  <2>1. reg'[t].path = q
    BY <1>2, <1>5 DEF Shape, CoreTypes, Records, NoRecord
  <2>2. q[2] /\ q \in Candidates(reg[t].path) /\ p # Plain(q)
    BY <1>1, <1>2, <1>5 DEF Moved, HasRecord
  <2>3. p = q
    <3>1. reg[t].path \in Path
      BY <1>2, MetaPlaceTyped DEF HasRecord, Shape
    <3>2. /\ p \in {reg[t].path, Incomplete(reg[t].path)}
          /\ q \in {reg[t].path, Incomplete(reg[t].path)}
      BY <1>3, <2>2 DEF Candidates
    <3>3. q = Incomplete(reg[t].path)
      BY <2>2, <3>1, <3>2, PathNames
    <3>4. Plain(q) = Plain(reg[t].path)
      BY <3>1, <3>3, PathNames
    <3>5. reg[t].path[2] => reg[t].path = q
      BY <3>1, <3>3, PathNames
    <3>6. ~reg[t].path[2] => reg[t].path = Plain(q)
      BY <3>1, <3>4, PathNames
    <3> QED BY <2>2, <3>2, <3>3, <3>5, <3>6
  <2>4. q # None
    BY NoneAssumption DEF Path
  <2> QED BY <2>1, <2>3, <2>4 DEF Candidates
<1> QED BY <1>4, <1>5 DEF UpdateMemoryPath, Shape, CoreTypes

-----------------------------------------------------------------------------
(* What a task knows of sessions is kept, whichever file it moves.          *)
LEMMA KnownKept ==
  ASSUME Shape, Shape', DirInv, HistAside,
         \A t \in Session : reg'[t] # NoRecord => reg[t] # NoRecord,
         \A q \in Place : file'[q].owner = None \/ \E p \in Place : file'[q].owner = file[p].owner,
         \A k \in Loop : /\ loop'[k].sid \in {None, loop[k].sid}
                         /\ \/ loop'[k].mem.owner = None
                            \/ loop'[k].mem = loop[k].mem /\ loop'[k].sid = loop[k].sid,
         \A c \in Conn : conn'[c] = conn[c] \/ conn'[c] = Idle
  PROVE  /\ DrawnFirst' /\ OwnCopy' /\ OneAtWork'
         /\ \A c \in Conn : conn'[c].pc # "store"
<1>1. \A t \in Session : /\ hist[t] \subseteq hist'[t]
                         /\ "crowded" \in hist'[t] => Crowded(t)
  BY DEF HistAside
<1>0. Idle.pc = "idle" /\ Idle.sid = None
  BY DEF Idle, Message
<1>2. DrawnFirst'
  <2> SUFFICES ASSUME NEW t \in Session, "issued" \notin hist'[t]
               PROVE  Unknown(t)'
    BY DEF DrawnFirst, Issued
  <2>1. Unknown(t) /\ t # None
    BY <1>1, DirTypes DEF DirInv, DrawnFirst, Issued
  <2>2. \A q \in Place : file'[q].owner # t
    BY <2>1 DEF Unknown
  <2>3. \A k \in Loop : loop'[k].sid # t /\ loop'[k].mem.owner # t
    BY <2>1 DEF Unknown
  <2>4. \A c \in Conn : conn'[c].sid # t
    BY <1>0, <2>1 DEF Unknown
  <2>5. reg'[t] = NoRecord
    BY <2>1 DEF Unknown, HasRecord
  <2> QED BY <2>2, <2>3, <2>4, <2>5 DEF Unknown, HasRecord, Place, Path
<1>3. OwnCopy'
  <2> SUFFICES ASSUME NEW k \in Loop, loop'[k].mem.owner # None,
                      loop'[k].mem.owner # loop'[k].sid
               PROVE  "shared" \in hist'[loop'[k].mem.owner]
    BY DEF OwnCopy, Shared
  <2>1. loop'[k].mem = loop[k].mem /\ loop'[k].sid = loop[k].sid
    OBVIOUS
  <2>2. loop[k].mem.owner \in Session /\ Shared(loop[k].mem.owner)
    BY <2>1, DirTypes DEF DirInv, OwnCopy
  <2> QED BY <1>1, <2>1, <2>2 DEF Shared
<1>4. OneAtWork'
  <2>1. ASSUME NEW k \in Loop, NEW j \in Loop, loop'[k].sid = loop'[j].sid,
               loop'[k].sid # None, k # j
        PROVE  "crowded" \in hist'[loop'[k].sid]
    <3>1. loop'[k].sid = loop[k].sid /\ loop[j].sid = loop[k].sid /\ loop[k].sid \in Session
      BY <2>1, DirTypes
    <3>2. Crowded(loop[k].sid)
      BY <2>1, <3>1 DEF DirInv, OneAtWork
    <3> QED BY <1>1, <3>1, <3>2 DEF Crowded
  <2>2. ASSUME NEW c \in Conn, NEW j \in Loop, conn'[c].pc = "init",
               loop'[j].sid = conn'[c].sid
        PROVE  "crowded" \in hist'[conn'[c].sid]
    <3>1. conn'[c] = conn[c]
      BY <1>0, <2>2
    <3>2. conn[c].sid \in Session /\ conn[c].sid # None
      BY <2>2, <3>1, DirTypes DEF ConnOK
    <3>3. Crowded(conn[c].sid)
      BY <2>2, <3>1, <3>2 DEF DirInv, OneAtWork
    <3> QED BY <1>1, <3>1, <3>2, <3>3 DEF Crowded
  <2> QED BY <2>1, <2>2 DEF OneAtWork, Crowded
<1>5. \A c \in Conn : conn'[c].pc # "store"
  BY <1>0 DEF DirInv
<1> QED BY <1>2, <1>3, <1>4, <1>5

(* A path another task has moved to is kept, unless its own session is      *)
(* crowded.                                                                 *)
LEMMA MovedStays ==
  ASSUME NEW t \in Session, NEW q, Moved(t, q), UNCHANGED file, hist[t] \subseteq hist'[t],
         reg'[t] # NoRecord => reg[t] # NoRecord, reg'[t] = reg[t] \/ Crowded(t)
  PROVE  MovedNow(t, q)
BY DEF Moved, MovedNow, HasRecord, Crowded, Shared, Candidates, Incomplete

(* mark_incomplete: the directory is where the record will say.             *)
LEMMA LoopRenameKeeps ==
  ASSUME Local, Shape, Shape', DirInv, NEW l \in Loop, NEW ok, LoopRename(l, ok)
  PROVE  DirInv'
<1>. DEFINE p == loop[l].place
            s == loop[l].sid
            moved == ~p[2] /\ CanRename(p, ok)
            w == [loop[l] EXCEPT !.pc = "repath", !.place = Incomplete(p)]
<1>1. Running(l) /\ loop[l].pc = "rename" /\ p \in Path /\ s \in Session
  BY LoopKnows, Places DEF LoopRename, Running, LoopOK
<1>2. HistAside /\ UNCHANGED <<reg, conn, boot>>
  <2>1. hist' = Works(s, p, moved \/ p[2])
    BY DEF LoopRename
  <2>2. HistAside
    BY <1>1, <2>1, OutcomeAside
  <2> QED BY <2>2 DEF LoopRename
<1>3. CASE ~(moved \/ p[2])
  <2>1. UNCHANGED file /\ loop' = [loop EXCEPT ![l] = [NoLoop EXCEPT !.pc = "end", !.sid = s]]
    BY <1>3 DEF LoopRename, LoopOver
  <2>2. RegAside /\ FileAside
    BY <1>2, <2>1, FileSame DEF RegAside
  <2>3. Aside
    BY <1>2, <2>1, <2>2, LoopOverAside, LoopStepAside
  <2> QED BY <2>3, AsideKeeps
<1>4. CASE moved \/ p[2]
  <2>1. loop' = [loop EXCEPT ![l] = w]
    BY <1>4 DEF LoopRename
  <2>2. w.pc = "repath" /\ w.place = Incomplete(p) /\ w.sid = s /\ w.mem = loop[l].mem
    BY <1>1, LoopKnows DEF Loops
  <2>. HIDE DEF w
  <2>3. \A k \in Loop : /\ loop'[k].sid = loop[k].sid /\ loop'[k].mem = loop[k].mem
                        /\ k # l => loop'[k] = loop[k]
                        /\ k = l => loop'[k] = w
    BY <1>1, <2>1, <2>2, LoopKnows
  <2>4. \/ p[2] /\ UNCHANGED file
        \/ ~p[2] /\ file[p] # NoFile /\ file[Incomplete(p)] = NoFile /\ file' = Rename(p)
    BY <1>4 DEF LoopRename, CanRename
  <2>5. \A t \in Session : hist[t] \subseteq hist'[t]
    BY <1>2 DEF HistAside
  <2>6. \A q \in Place : file'[q].owner = None \/ \E r \in Place : file'[q].owner = file[r].owner
    <3>1. CASE UNCHANGED file
      BY <3>1
    <3>2. CASE ~p[2] /\ file[p] # NoFile /\ file[Incomplete(p)] = NoFile /\ file' = Rename(p)
      BY <1>1, <3>2, Renamed, Places DEF NoFile
    <3> QED BY <2>4, <3>1, <3>2
  <2>7. /\ DrawnFirst' /\ OwnCopy' /\ OneAtWork'
        /\ \A c \in Conn : conn'[c].pc # "store"
    BY <1>2, <2>3, <2>6, KnownKept
  <2>8. PathsKept'
    <3>1. ASSUME NEW c \in Conn PROVE ConnPath(c)'
      <4>1. conn[c].pc = "init" => conn[c].sid \in Session
        BY DirTypes DEF ConnOK
      <4> QED BY <1>2, <2>5, <4>1 DEF DirInv, PathsKept, ConnPath, HasRecord, Crowded
    <3>2. LoopPath(l)
      BY DEF DirInv, PathsKept
    <3>3. MovedNow(s, Incomplete(p))
      <4>1. reg[s] # NoRecord /\ ~Crowded(s) => reg[s].path = p
        BY <1>1, <3>2 DEF LoopPath, HasRecord, Working
      <4> QED BY <1>1, <1>2, <2>4, <2>5, <4>1, RenameMoves
    <3>4. LoopPath(l)'
      BY <2>2, <2>3, <3>3 DEF LoopPath, Working, Moved, MovedNow, HasRecord, Crowded, Shared
    <3>5. ASSUME NEW k \in Loop, k # l PROVE LoopPath(k)'
      <4>1. LoopPath(k) /\ loop'[k] = loop[k]
        BY <2>3, <3>5 DEF DirInv, PathsKept
      <4>2. loop[k].pc # "none" => loop[k].sid \in Session
        BY DirTypes DEF LoopOK
      <4>3. ASSUME Working(loop[k]) \/ loop[k].pc = "read", reg[loop[k].sid] # NoRecord,
                   "crowded" \notin hist'[loop[k].sid]
            PROVE  reg[loop[k].sid].path = loop[k].place
        BY <2>5, <4>1, <4>2, <4>3 DEF LoopPath, Working, HasRecord, Crowded
      <4>4. ASSUME loop[k].pc = "repath" PROVE MovedNow(loop[k].sid, loop[k].place)
        <5>1. /\ Moved(loop[k].sid, loop[k].place) /\ loop[k].sid \in Session
              /\ loop[k].place \in Path
          BY <4>1, <4>2, <4>4, DirTypes, Places DEF LoopPath, LoopOK
        <5>2. CASE UNCHANGED file
          BY <1>2, <2>5, <5>1, <5>2, MovedStays
        <5>3. CASE /\ ~p[2] /\ file[p] # NoFile /\ file[Incomplete(p)] = NoFile
                   /\ file' = Rename(p)
          BY <1>1, <1>2, <2>5, <5>1, <5>3, RenameKeepsMoved
        <5> QED BY <2>4, <5>2, <5>3
      <4> QED BY <1>2, <4>1, <4>3, <4>4
              DEF LoopPath, Moved, MovedNow, HasRecord, Crowded, Shared
    <3>6. BootPath'
      <4>1. boot' = Serving
        BY <1>1, <1>2, LoopFacts
      <4>2. boot'.pc = "serving"
        BY <4>1 DEF Serving, Boot
      <4> QED BY <4>2 DEF BootPath
    <3> QED BY <3>1, <3>4, <3>5, <3>6 DEF PathsKept
  <2>9. PurgeFindsDirectory'
    <3>1. CASE UNCHANGED file
      <4> SUFFICES ASSUME NEW q \in Place, NEW t \in Session, file[q].owner = t,
                          reg[t] # NoRecord, hist'[t] \cap {"crowded", "shared", "stale"} = {}
                   PROVE  q \in Candidates(reg[t].path)
        BY <1>2, <3>1, DirTypes
           DEF PurgeFindsDirectory, HasRecord, Candidates, Incomplete, Place, Path
      <4>1. hist[t] \cap {"crowded", "shared", "stale"} = {} /\ t # None
        BY <2>5, DirTypes
      <4> QED BY <4>1 DEF DirInv, PurgeFindsDirectory, HasRecord
    <3>2. CASE ~p[2] /\ file[p] # NoFile /\ file[Incomplete(p)] = NoFile /\ file' = Rename(p)
      BY <1>1, <1>2, <2>5, <3>2, RenameFinds DEF DirInv
    <3> QED BY <2>4, <3>1, <3>2
  <2>10. OwnDirectory'
    <3>1. ASSUME NEW t \in Session, "crowded" \in hist'[t] PROVE "raced" \in hist'[t]
      BY <1>2, <2>5, <3>1 DEF HistAside, DirInv, OwnDirectory
    <3>2. ASSUME \A t \in Session : hist'[t] \cap {"raced", "shared", "stale"} = {} PROVE Clean
      BY <2>5, <3>2 DEF Clean
    <3>3. \A c \in Conn, k \in Loop : Clean /\ Deleting(conn[c]) => conn[c].sid # loop'[k].sid
      BY <2>3 DEF DirInv, OwnDirectory
    <3>4. ASSUME Clean, NEW k \in Loop, Working(loop'[k])
          PROVE  file'[loop'[k].place].owner = loop'[k].sid
      <4>1. k # l /\ loop'[k] = loop[k]
        BY <2>2, <2>3, <3>4 DEF Working
      <4>2. /\ file[loop[k].place].owner = loop[k].sid /\ loop[k].place \in Path
            /\ loop[k].sid \in Session /\ loop[k].sid # None
        BY <3>4, <4>1, DirTypes, Places DEF DirInv, OwnDirectory, LoopOK, Working
      <4>3. CASE UNCHANGED file
        BY <4>1, <4>2, <4>3
      <4>4. CASE ~p[2] /\ file[p] # NoFile /\ file[Incomplete(p)] = NoFile /\ file' = Rename(p)
        <5>1. file[p].owner = s
          BY <1>1, <3>4 DEF DirInv, OwnDirectory, Working
        <5>2. loop[k].place # p
          <6>1. ASSUME loop[k].place = p PROVE FALSE
            <7>1. Crowded(s)
              BY <1>1, <4>1, <4>2, <5>1, <6>1 DEF DirInv, OneAtWork
            <7> QED BY <1>1, <3>4, <7>1 DEF DirInv, OwnDirectory, Clean
          <6> QED BY <6>1
        <5>3. loop[k].place # Incomplete(p)
          BY <4>2, <4>4 DEF NoFile
        <5> QED BY <1>1, <4>1, <4>2, <4>4, <5>2, <5>3, Renamed
      <4> QED BY <2>4, <4>3, <4>4
    <3> QED BY <1>2, <3>1, <3>2, <3>3, <3>4 DEF OwnDirectory, Clean, Crowded
  <2> QED BY <2>7, <2>8, <2>9, <2>10 DEF DirInv
<1> QED BY <1>3, <1>4

(* update_memory_path: the record says where the directory is.              *)
LEMMA LoopRepathKeeps ==
  ASSUME Local, Shape, Shape', DirInv, NEW l \in Loop, NEW ok, LoopRepath(l, ok)
  PROVE  DirInv'
<1>. DEFINE q == loop[l].place
            s == loop[l].sid
<1>1. Running(l) /\ loop[l].pc = "repath" /\ q \in Path /\ s \in Session
  BY LoopKnows, Places DEF LoopRepath, Running, LoopOK
<1>2. HistAside /\ UNCHANGED <<file, conn, boot>>
  BY <1>1, OutcomeAside DEF LoopRepath
<1>3. \A k \in Loop : /\ k # l => loop'[k] = loop[k]
                      /\ k = l => /\ loop'[k].pc = "end" /\ loop'[k].sid = s
                                  /\ loop'[k].mem.owner = None
  BY <1>1, LoopKnows DEF LoopRepath, LoopOver, NoLoop, NoFile
<1>4. /\ UpdateMemoryPath(s, q, ok)
      /\ \A t \in Session : t # s => reg'[t] = reg[t]
      /\ \A t \in Session : reg'[t] # NoRecord => reg[t] # NoRecord
  <2>1. UpdateMemoryPath(s, q, ok)
    BY DEF LoopRepath
  <2>2. \A t \in Session : HasRecord(t)' <=> HasRecord(t)
    BY <1>1, <2>1, UpdatePathTyped DEF Shape
  <2>3. \A t \in Session : t # s => reg'[t] = reg[t]
    BY <2>1 DEF UpdateMemoryPath, Shape, CoreTypes
  <2> QED BY <2>1, <2>2, <2>3 DEF HasRecord
<1>5. \A t \in Session : hist[t] \subseteq hist'[t]
  BY <1>2 DEF HistAside
<1>6. /\ DrawnFirst' /\ OwnCopy' /\ OneAtWork'
      /\ \A c \in Conn : conn'[c].pc # "store"
  <2>1. \A p \in Place : file'[p].owner = None \/ \E r \in Place : file'[p].owner = file[r].owner
    BY <1>2
  <2>2. \A k \in Loop : /\ loop'[k].sid \in {None, loop[k].sid}
                        /\ \/ loop'[k].mem.owner = None
                           \/ loop'[k].mem = loop[k].mem /\ loop'[k].sid = loop[k].sid
    BY <1>3
  <2> QED BY <1>2, <1>4, <2>1, <2>2, KnownKept
<1>7. ASSUME NEW t \in Session, ~Crowded(t),
             \/ \E k \in Loop : k # l /\ loop[k].sid = t
             \/ \E c \in Conn : conn[c].pc = "init" /\ conn[c].sid = t
      PROVE  t # s
  BY <1>1, <1>7, NoneAssumption DEF DirInv, OneAtWork
<1>8. PathsKept'
  <2>1. ASSUME NEW c \in Conn PROVE ConnPath(c)'
    <3>1. conn[c].pc = "init" => conn[c].sid \in Session
      BY DirTypes DEF ConnOK
    <3>2. ASSUME conn[c].pc = "init", reg'[conn[c].sid] # NoRecord,
                 "crowded" \notin hist'[conn[c].sid]
          PROVE  reg'[conn[c].sid].path = conn[c].place
      <4>1. ~Crowded(conn[c].sid)
        BY <1>5, <3>1, <3>2 DEF Crowded
      <4>2. reg'[conn[c].sid] = reg[conn[c].sid]
        BY <1>4, <1>7, <3>1, <3>2, <4>1
      <4> QED BY <3>2, <4>1, <4>2 DEF DirInv, PathsKept, ConnPath, HasRecord
    <3> QED BY <1>2, <3>2 DEF ConnPath, HasRecord, Crowded
  <2>2. LoopPath(l)'
    BY <1>3 DEF LoopPath, Working
  <2>3. ASSUME NEW k \in Loop, k # l PROVE LoopPath(k)'
    <3>1. LoopPath(k) /\ loop'[k] = loop[k]
      BY <1>3, <2>3 DEF DirInv, PathsKept
    <3>2. loop[k].pc # "none" => loop[k].sid \in Session
      BY DirTypes DEF LoopOK
    <3>3. loop[k].pc # "none" => reg'[loop[k].sid] = reg[loop[k].sid] \/ Crowded(loop[k].sid)
      BY <1>4, <1>7, <2>3, <3>2
    <3>4. ASSUME Working(loop[k]) \/ loop[k].pc = "read", reg'[loop[k].sid] # NoRecord,
                 "crowded" \notin hist'[loop[k].sid]
          PROVE  reg'[loop[k].sid].path = loop[k].place
      <4>1. loop[k].pc # "none"
        BY <3>4 DEF Working
      <4>2. ~Crowded(loop[k].sid)
        BY <1>5, <3>2, <3>4, <4>1 DEF Crowded
      <4>3. reg'[loop[k].sid] = reg[loop[k].sid]
        BY <3>3, <4>1, <4>2
      <4> QED BY <3>1, <3>4, <4>2, <4>3 DEF LoopPath, HasRecord
    <3>5. ASSUME loop[k].pc = "repath" PROVE MovedNow(loop[k].sid, loop[k].place)
      <4>1. Moved(loop[k].sid, loop[k].place) /\ loop[k].sid \in Session
        BY <3>1, <3>2, <3>5 DEF LoopPath
      <4> QED BY <1>2, <1>4, <1>5, <3>3, <3>5, <4>1, MovedStays
    <3> QED BY <3>1, <3>4, <3>5
            DEF LoopPath, Moved, MovedNow, HasRecord, Crowded, Shared
  <2>4. BootPath'
    <3>1. boot' = Serving
      BY <1>1, <1>2, LoopFacts
    <3>2. boot'.pc = "serving"
      BY <3>1 DEF Serving, Boot
    <3> QED BY <3>2 DEF BootPath
  <2> QED BY <2>1, <2>2, <2>3, <2>4 DEF PathsKept
<1>9. PurgeFindsDirectory'
  <2>1. LoopPath(l)
    BY DEF DirInv, PathsKept
  <2>2. Moved(s, q)
    BY <1>1, <2>1 DEF LoopPath
  <2> QED BY <1>1, <1>2, <1>4, <1>5, <2>2, RepathFinds
<1>10. OwnDirectory'
  <2>1. ASSUME NEW t \in Session, "crowded" \in hist'[t] PROVE "raced" \in hist'[t]
    BY <1>2, <1>5, <2>1 DEF HistAside, DirInv, OwnDirectory
  <2>2. ASSUME \A t \in Session : hist'[t] \cap {"raced", "shared", "stale"} = {} PROVE Clean
    BY <1>5, <2>2 DEF Clean
  <2>3. \A k \in Loop : loop'[k].sid = loop[k].sid /\ (Working(loop'[k]) => loop'[k] = loop[k])
    BY <1>3 DEF Working
  <2> QED BY <1>2, <2>1, <2>2, <2>3 DEF DirInv, OwnDirectory, Clean, Crowded
<1> QED BY <1>6, <1>8, <1>9, <1>10 DEF DirInv

(* While a sweep runs nothing else does, and nothing starts.                *)
LEMMA Alone ==
  ASSUME Shape, Shape', DirInv, HistAside, UNCHANGED <<loop, conn>>,
         boot # Serving,
         \A t \in Session : reg'[t] # NoRecord => reg[t] # NoRecord,
         \A q \in Place : file'[q].owner = None \/ \E p \in Place : file'[q].owner = file[p].owner,
         BootPath', PurgeFindsDirectory'
  PROVE  DirInv'
<1>1. /\ \A c \in Conn : conn'[c].pc = "idle"
      /\ \A k \in Loop : loop'[k].pc = "none"
  BY DEF Shape, BootShape
<1>2. /\ DrawnFirst' /\ OwnCopy' /\ OneAtWork'
      /\ \A c \in Conn : conn'[c].pc # "store"
  BY KnownKept
<1>3. PathsKept'
  BY <1>1 DEF PathsKept, ConnPath, LoopPath, Working
<1>4. OwnDirectory'
  <2>1. ASSUME NEW t \in Session, "crowded" \in hist'[t] PROVE "raced" \in hist'[t]
    BY <2>1 DEF HistAside, DirInv, OwnDirectory
  <2> QED BY <1>1, <2>1 DEF OwnDirectory, Clean, Crowded, Working, Deleting
<1> QED BY <1>2, <1>3, <1>4 DEF DirInv

(* The same renaming by the sweep of the active sessions.                   *)
LEMMA SweepRenameKeeps ==
  ASSUME Local, Shape, Shape', DirInv, NEW ok, SweepRename(ok)
  PROVE  DirInv'
<1>. DEFINE p == boot.place
            s == boot.sid
            moved == ~p[2] /\ CanRename(p, ok)
<1>1. boot.pc = "rename" /\ p \in Path /\ s \in Session /\ boot # Serving
  BY DEF SweepRename, Shape, BootShape, Serving, Boot
<1>2. HistAside /\ UNCHANGED <<reg, loop, conn>>
  <2>1. hist' = Works(s, p, moved \/ p[2])
    BY DEF SweepRename
  <2>2. HistAside
    BY <1>1, <2>1, OutcomeAside
  <2> QED BY <2>2 DEF SweepRename
<1>3. CASE ~(moved \/ p[2])
  <2>1. UNCHANGED file /\ boot'.pc = "demote"
    BY <1>3, BootFacts, <1>1 DEF SweepRename, BootOK
  <2>2. RegAside /\ FileAside /\ BootAside
    BY <1>2, <2>1, FileSame DEF RegAside, BootAside
  <2>3. Aside
    BY <1>2, <2>2, BootStepAside
  <2> QED BY <2>3, AsideKeeps
<1>4. CASE moved \/ p[2]
  <2>1. boot'.pc = "repath" /\ boot'.place = Incomplete(p) /\ boot'.sid = s
    BY <1>1, <1>4, BootFacts DEF SweepRename, BootOK
  <2>2. \/ p[2] /\ UNCHANGED file
        \/ ~p[2] /\ file[p] # NoFile /\ file[Incomplete(p)] = NoFile /\ file' = Rename(p)
    BY <1>4 DEF SweepRename, CanRename
  <2>3. \A t \in Session : hist[t] \subseteq hist'[t]
    BY <1>2 DEF HistAside
  <2>4. \A q \in Place : file'[q].owner = None \/ \E r \in Place : file'[q].owner = file[r].owner
    <3>1. CASE UNCHANGED file
      BY <3>1
    <3>2. CASE ~p[2] /\ file[p] # NoFile /\ file[Incomplete(p)] = NoFile /\ file' = Rename(p)
      BY <1>1, <3>2, Renamed, Places DEF NoFile
    <3> QED BY <2>2, <3>1, <3>2
  <2>5. BootPath'
    <3>1. reg[s] # NoRecord => reg[s].path = p
      BY <1>1 DEF DirInv, PathsKept, BootPath, HasRecord
    <3>2. MovedNow(s, Incomplete(p))
      BY <1>1, <1>2, <2>2, <2>3, <3>1, RenameMoves
    <3> QED BY <2>1, <3>2 DEF BootPath, Moved, MovedNow, HasRecord, Crowded, Shared
  <2>6. PurgeFindsDirectory'
    <3>1. CASE UNCHANGED file
      <4> SUFFICES ASSUME NEW q \in Place, NEW t \in Session, file[q].owner = t,
                          reg[t] # NoRecord, hist'[t] \cap {"crowded", "shared", "stale"} = {}
                   PROVE  q \in Candidates(reg[t].path)
        BY <1>2, <3>1, DirTypes
           DEF PurgeFindsDirectory, HasRecord, Candidates, Incomplete, Place, Path
      <4>1. hist[t] \cap {"crowded", "shared", "stale"} = {} /\ t # None
        BY <2>3, DirTypes
      <4> QED BY <4>1 DEF DirInv, PurgeFindsDirectory, HasRecord
    <3>2. CASE ~p[2] /\ file[p] # NoFile /\ file[Incomplete(p)] = NoFile /\ file' = Rename(p)
      BY <1>1, <1>2, <2>3, <3>2, RenameFinds DEF DirInv
    <3> QED BY <2>2, <3>1, <3>2
  <2> QED BY <1>1, <1>2, <2>4, <2>5, <2>6, Alone
<1> QED BY <1>3, <1>4

(* The same update of the record by the sweep of the active sessions.       *)
LEMMA SweepRepathKeeps ==
  ASSUME Local, Shape, Shape', DirInv, NEW ok, SweepRepath(ok)
  PROVE  DirInv'
<1>. DEFINE q == boot.place
            s == boot.sid
<1>1. boot.pc = "repath" /\ q \in Path /\ s \in Session /\ boot # Serving
  BY DEF SweepRepath, Shape, BootShape, Serving, Boot
<1>2. HistAside /\ UNCHANGED <<file, loop, conn>> /\ UpdateMemoryPath(s, q, ok)
  BY <1>1, OutcomeAside DEF SweepRepath
<1>3. boot'.pc = "demote"
  BY <1>1, BootFacts DEF SweepRepath, BootOK
<1>4. \A t \in Session : reg'[t] # NoRecord => reg[t] # NoRecord
  <2>1. \A t \in Session : HasRecord(t)' <=> HasRecord(t)
    BY <1>1, <1>2, UpdatePathTyped DEF Shape
  <2> QED BY <2>1 DEF HasRecord
<1>5. BootPath'
  BY <1>3 DEF BootPath
<1>6. PurgeFindsDirectory'
  <2>1. Moved(s, q)
    BY <1>1 DEF DirInv, PathsKept, BootPath
  <2>2. \A t \in Session : hist[t] \subseteq hist'[t]
    BY <1>2 DEF HistAside
  <2> QED BY <1>1, <1>2, <2>1, <2>2, RepathFinds
<1>7. \A p \in Place : file'[p].owner = None \/ \E r \in Place : file'[p].owner = file[r].owner
  BY <1>2
<1> QED BY <1>1, <1>2, <1>4, <1>5, <1>6, <1>7, Alone

(* ma-core dies; Redis may come back with a record that says the plain name *)
(* of the directory.                                                        *)
LEMMA DiesKeeps ==
  ASSUME Local, Shape, Shape', DirInv, NEW r, Dies(r),
         \A t \in Session : r[t] # NoRecord => /\ reg[t] # NoRecord
                                               /\ r[t].path \in {reg[t].path, Plain(reg[t].path)}
  PROVE  DirInv'
<1>1. UNCHANGED file /\ reg' = r /\ boot'.pc = "active"
  BY DEF Dies, Boot
<1>2. /\ \A c \in Conn : conn'[c] = Idle
      /\ \A k \in Loop : loop'[k] = NoLoop
  BY DEF Dies
<1>3. HistAside
  <2>1. \A t \in Session : hist'[t] = hist[t] \/ hist'[t] = hist[t] \cup ({"torn"} \cap Tracked)
    BY DEF Dies
  <2> QED BY <2>1 DEF HistAside, Crowded
<1>4. /\ DrawnFirst' /\ OwnCopy' /\ OneAtWork'
      /\ \A c \in Conn : conn'[c].pc # "store"
  <2>1. NoLoop.sid = None /\ NoLoop.mem.owner = None
    BY DEF NoLoop, NoFile
  <2> QED BY <1>1, <1>2, <1>3, <2>1, KnownKept
<1>5. Idle.pc = "idle" /\ NoLoop.pc = "none"
  BY DEF Idle, Message, NoLoop
<1>6. PathsKept'
  BY <1>1, <1>2, <1>5 DEF PathsKept, ConnPath, LoopPath, BootPath, Working
<1>7. PurgeFindsDirectory'
  <2> SUFFICES ASSUME NEW p \in Path, NEW t \in Session, file[p].owner = t, r[t] # NoRecord,
                      hist'[t] \cap {"crowded", "shared", "stale"} = {}
               PROVE  p \in Candidates(r[t].path)
    <3>1. Place' = Path /\ Place = Path
      BY DEF Place, Path
    <3> QED BY <1>1, <3>1, DirTypes DEF PurgeFindsDirectory, HasRecord, Candidates, Incomplete
  <2>1. hist[t] \cap {"crowded", "shared", "stale"} = {} /\ t # None
    BY <1>3, DirTypes DEF HistAside
  <2>2. reg[t] # NoRecord /\ reg[t].path \in Path
    BY MetaPlaceTyped DEF HasRecord, Shape
  <2>3. p \in Candidates(reg[t].path)
    BY <2>1, <2>2, Places DEF DirInv, PurgeFindsDirectory, HasRecord
  <2>4. CASE r[t].path = reg[t].path
    BY <2>3, <2>4
  <2>5. CASE r[t].path = Plain(reg[t].path)
    <3>. DEFINE x == reg[t].path
    <3>1. x \in {Plain(x), Incomplete(x)}
      BY <2>2, PathNames
    <3>2. Incomplete(Plain(x)) = Incomplete(x)
      BY DEF Incomplete, Plain
    <3>3. Plain(x) # None
      BY <2>2, PathNames, NoneAssumption DEF Path
    <3>4. p = x \/ p = Incomplete(x)
      BY <2>3 DEF Candidates
    <3>. HIDE DEF x
    <3> QED BY <2>5, <3>1, <3>2, <3>3, <3>4 DEF Candidates, x
  <2> QED BY <2>2, <2>4, <2>5
<1>8. OwnDirectory'
  <2>1. ASSUME NEW t \in Session, "crowded" \in hist'[t] PROVE "raced" \in hist'[t]
    BY <1>3, <2>1 DEF HistAside, DirInv, OwnDirectory
  <2> QED BY <1>2, <1>5, <2>1 DEF OwnDirectory, Clean, Crowded, Working, Deleting
<1> QED BY <1>4, <1>6, <1>7, <1>8 DEF DirInv

-----------------------------------------------------------------------------
(* The steps together.                                                      *)
LEMMA LoopKeepsDirs ==
  ASSUME Local, Shape, Shape', DirInv, {"raced", "crowded", "shared", "stale"} \subseteq Tracked,
         NEW l \in Loop, LoopNext(l) \/ LoopStep(l) \/ LoopStops(l, FALSE)
  PROVE  DirInv'
<1>1. CASE LoopArm(l) \/ LoopEnd(l) \/ LoopStep(l)
  BY <1>1, LoopArmAside, LoopEndAside, LoopStepsAside, AsideKeeps
<1>2. CASE LoopDrain(l) \/ LoopStops(l, TRUE) \/ LoopStops(l, FALSE)
  BY <1>2, LoopCapturesAside, AsideKeeps
<1>3. ASSUME NEW ok, LoopLoad(l, ok) \/ LoopReadMetadata(l, ok) \/ LoopConnect(l, ok)
      PROVE  DirInv'
  BY <1>3, LoopStartsAside, AsideKeeps
<1>4. ASSUME NEW ok, LoopBegin(l, ok) \/ LoopComplete(l, ok) \/ LoopInterrupt(l, ok)
      PROVE  DirInv'
  <2>1. TRUE \in BOOLEAN
    OBVIOUS
  <2> QED BY <1>4, <2>1, LoopCapturesAside, AsideKeeps
<1>5. ASSUME NEW ok, LoopSettle(l, ok) \/ LoopDemote(l, ok) \/ LoopFlag(l, ok)
      PROVE  DirInv'
  BY <1>5, LoopClosesAside, AsideKeeps
<1>6. ASSUME NEW ok, LoopRename(l, ok) \/ LoopRepath(l, ok)
      PROVE  DirInv'
  BY <1>6, LoopRenameKeeps, LoopRepathKeeps
<1> QED BY <1>1, <1>2, <1>3, <1>4, <1>5, <1>6 DEF LoopNext

(* The steps of a message keep the invariant.                               *)
LEMMA ConnKeepsDirs ==
  ASSUME Local, Shape, Shape', DirInv, NEW c \in Conn, ConnNext(c)
  PROVE  DirInv'
<1>1. CASE SendDone(c) \/ ClosingImage(c) \/ ForgetDegraded(c) \/ DropHandle(c)
  BY <1>1, SendDoneAside, FinaliseAside, DeleteAside, AsideKeeps
<1>2. ASSUME NEW ok, NEW uploaded, InitialiseDir(c, ok, uploaded) PROVE DirInv'
  BY <1>2, InitialiseAside, AsideKeeps
<1>3. ASSUME NEW ok, GiveUp(c, ok) \/ RouteDirect(c, ok) \/ SetReasoningStatus(c, ok)
      PROVE  DirInv'
  BY <1>3, RepliesAside, AsideKeeps
<1>4. ASSUME NEW ok, LookUp(c, ok) \/ MarkComplete(c, ok) \/ ClearInProgress(c, ok)
      PROVE  DirInv'
  BY <1>4, FinaliseAside, AsideKeeps
<1>5. ASSUME NEW ok, DeleteRecord(c, ok) \/ DeleteObjects(c, ok) \/ PurgeDir(c, ok)
      PROVE  DirInv'
  BY <1>5, DeleteAside, AsideKeeps
<1>6. ASSUME NEW ok PROVE ~FetchObject(c, ok) /\ ~StoreComplete(c, ok)
  BY DEF FetchObject, StoreComplete, DirInv
<1> QED BY <1>1, <1>2, <1>3, <1>4, <1>5, <1>6 DEF ConnNext

(* The messages that arrive keep the invariant.                             *)
LEMMA ReceiveKeepsDirs ==
  ASSUME Local, Shape, Shape', DirInv, {"raced", "crowded", "shared", "stale"} \subseteq Tracked,
         NEW c \in Conn, Receive(c)
  PROVE  DirInv'
<1>1. PICK s \in Session :
        \/ \E n \in Name : RegisterSession(c, s, n)
        \/ \E l \in Loop : StartWatch(c, s, l)
        \/ Done(c, s) \/ ReasoningDegraded(c, s) \/ CircuitReset(c, s)
        \/ \E force \in BOOLEAN, ok \in Outcomes : DeleteSession(c, s, force, ok)
  BY DEF Receive
<1>2. CASE \E n \in Name : RegisterSession(c, s, n)
  BY <1>2, RegisterKeeps
<1>3. CASE \E l \in Loop : StartWatch(c, s, l)
  BY <1>3, StartKeeps
<1>4. ASSUME NEW force, NEW ok,
             \/ Done(c, s) \/ ReasoningDegraded(c, s) \/ CircuitReset(c, s)
             \/ DeleteSession(c, s, force, ok)
      PROVE  DirInv'
  BY <1>4, ReceiveAside, AsideKeeps
<1> QED BY <1>1, <1>2, <1>3, <1>4

(* The sweeps keep the invariant.                                           *)
LEMMA BootKeepsDirs ==
  ASSUME Local, Shape, Shape', DirInv, BootNext
  PROVE  DirInv'
<1>1. ASSUME NEW ok, SweepRename(ok) \/ SweepRepath(ok) PROVE DirInv'
  BY <1>1, SweepRenameKeeps, SweepRepathKeeps
<1>2. ASSUME NEW s \in Session, NEW ok, NEW replayed,
             SweepActive(s, ok, replayed) \/ Reconcile(s, ok)
      PROVE  DirInv'
  BY <1>2, SweepsAside, AsideKeeps
<1>3. ASSUME NEW s \in Session, NEW ok, RetireRecord(s, ok) PROVE DirInv'
  BY <1>3, RetiresAside, AsideKeeps
<1>4. ASSUME NEW ok, SweepStatus(ok) PROVE DirInv'
  <2>1. boot.sid \in Session
    BY <1>4 DEF SweepStatus, Shape, BootShape
  <2> QED BY <1>4, <2>1, SweepsAside, AsideKeeps
<1>5. ASSUME NEW ok, RetireObjects(ok) \/ RetireDir(ok) PROVE DirInv'
  <2>1. boot.sid \in Session
    BY <1>5 DEF RetireObjects, RetireDir, Shape, BootShape
  <2> QED BY <1>5, <2>1, RetiresAside, AsideKeeps
<1>6. ASSUME NEW old, StartReconcile \/ Serve \/ StartRetention(old) PROVE DirInv'
  <2>1. RegAside /\ FileAside /\ HistAside /\ BootAside /\ UNCHANGED <<loop, conn>>
    <3>1. UNCHANGED <<reg, file, loop, conn, hist>>
      BY <1>6 DEF StartReconcile, StartRetention, Serve
    <3>2. boot'.pc \in {"reconcile", "retention", "serving"}
      BY <1>6 DEF StartReconcile, StartRetention, Serve, Boot, Serving
    <3> QED BY <3>1, <3>2, FileSame DEF RegAside, HistAside, Crowded, BootAside
  <2> QED BY <2>1, BootStepAside, AsideKeeps
<1> QED BY <1>1, <1>2, <1>3, <1>4, <1>5, <1>6 DEF BootNext

(* Signals, exits and crashes keep the invariant.                           *)
LEMMA ProcessKeepsDirs ==
  ASSUME Local, Shape, Shape', DirInv,
         \/ Signal \/ SignalNext \/ Crash
         \/ \E lost \in SUBSET Session : HostCrash(lost)
  PROVE  DirInv'
<1>1. ASSUME NEW ok PROVE ~StoreInterrupted(ok)
  BY DEF StoreInterrupted, Shape, StopShape
<1>2. CASE Signal \/ \E s \in Session : \E ok : FlagInterrupted(s, ok)
  BY <1>2, SignalAside, AsideKeeps
<1>3. CASE Exit \/ Crash
  BY <1>3, DiesKeeps DEF Exit, Crash
<1>4. ASSUME NEW lost \in SUBSET Session, HostCrash(lost) PROVE DirInv'
  <2>. DEFINE r == [s \in Session |->
               IF s \in lost THEN [status |-> "active", path |-> <<reg[s].path[1], FALSE>>]
               ELSE reg[s]]
  <2>1. Dies(r)
    BY <1>4 DEF HostCrash
  <2>2. \A t \in Session : r[t] # NoRecord => /\ reg[t] # NoRecord
                                               /\ r[t].path \in {reg[t].path, Plain(reg[t].path)}
    BY <1>4 DEF HostCrash, HasRecord, Plain
  <2>. HIDE DEF r
  <2> QED BY <2>1, <2>2, DiesKeeps
<1> QED BY <1>1, <1>2, <1>3, <1>4 DEF SignalNext

(* At first there is no directory.                                          *)
LEMMA InitDirs == Init => DirInv
<1> SUFFICES ASSUME Init PROVE DirInv
  OBVIOUS
<1>1. /\ \A s \in Session : reg[s] = NoRecord /\ hist[s] = {}
      /\ \A p \in Place : file[p].owner = None
      /\ \A l \in Loop : loop[l].pc = "none" /\ loop[l].sid = None /\ loop[l].mem.owner = None
      /\ \A c \in Conn : conn[c].pc = "idle" /\ conn[c].sid = None
      /\ boot.pc = "serving"
  BY DEF Init, NoFile, NoLoop, Idle, Message, Serving, Boot
<1>2. DrawnFirst /\ OwnCopy /\ OneAtWork /\ PurgeFindsDirectory
  BY <1>1, NoneAssumption
     DEF DrawnFirst, Unknown, HasRecord, OwnCopy, OneAtWork, PurgeFindsDirectory
<1>3. PathsKept
  BY <1>1 DEF PathsKept, ConnPath, LoopPath, BootPath, Working
<1>4. OwnDirectory
  BY <1>1 DEF OwnDirectory, Crowded, Working, Deleting
<1> QED BY <1>1, <1>2, <1>3, <1>4 DEF DirInv

(* A closing-image task that reads changes no file; one that writes an old  *)
(* copy back marks the session of the copy and that of the file.            *)
LEMMA ShotAside ==
  ASSUME Local, Shape, ShotShape, ShotsKnown, DirInv, "stale" \in Tracked, NEW k \in Shot,
         ShotRead(k) \/ ShotWrite(k)
  PROVE  Aside
<1>1. UNCHANGED <<reg, loop, conn, boot>> /\ RegAside /\ HistAside /\ BootAside
  BY ShotLeaves DEF RegAside, HistAside, BootAside, Crowded
<1>2. CASE UNCHANGED file
  BY <1>1, <1>2, FileSame, BootStepAside
<1>3. CASE ~UNCHANGED file
  <2>. DEFINE p == shot[k].place
              m == shot[k].mem
  <2>1. /\ p \in Place /\ m \in Meta /\ Overtaken(k) /\ ShotWrite(k)
        /\ file' = [file EXCEPT ![p] = m]
    BY <1>3, ShotRewrites
  <2>2. m.owner \in Session /\ Issued(m.owner) /\ "stale" \in hist'[m.owner]
    <3>1. m.owner \in Session /\ m.owner # None
      BY <2>1, NoneAssumption DEF Meta
    <3> QED BY <2>1, <3>1 DEF ShotsKnown, ShotWrite
  <2>3. \A q \in Place : file'[q] = file[q] \/ (q = p /\ file'[q] = m)
    BY <2>1 DEF Shape, CoreTypes
  <2>4. \A q \in Place : file'[q].owner = file[q].owner \/ Restored(q)
    BY <2>2, <2>3 DEF Restored
  <2>5. ~Clean'
    BY <2>2 DEF Clean
  <2>6. FileAside
    BY <2>4, <2>5 DEF FileAside
  <2> QED BY <1>1, <2>6, BootStepAside
<1> QED BY <1>2, <1>3

(* The invariant is inductive.                                              *)
LEMMA DirsInductive ==
  ASSUME Local, {"raced", "crowded", "shared", "stale"} \subseteq Tracked,
         Shape, Shape', ShotShape, ShotsKnown, DirInv, [Next]_vars
  PROVE  DirInv'
<1>1. CASE \E l \in Loop : LoopNext(l) \/ LoopStep(l) \/ LoopStops(l, FALSE)
  BY <1>1, LoopKeepsDirs
<1>2. CASE \E c \in Conn : ConnNext(c) \/ Receive(c)
  BY <1>2, ConnKeepsDirs, ReceiveKeepsDirs
<1>3. CASE BootNext
  BY <1>3, BootKeepsDirs
<1>4. CASE Signal \/ SignalNext \/ Crash \/ \E lost \in SUBSET Session : HostCrash(lost)
  BY <1>4, ProcessKeepsDirs
<1>5. CASE \E k \in Shot : ShotRead(k) \/ ShotWrite(k)
  BY <1>5, ShotAside, AsideKeeps
<1>6. CASE UNCHANGED vars
  <2>1. UNCHANGED <<reg, file, loop, conn, boot, hist>>
    BY <1>6 DEF vars
  <2>2. RegAside /\ FileAside /\ HistAside /\ BootAside
    BY <2>1, FileSame DEF RegAside, HistAside, Crowded, BootAside
  <2> QED BY <2>1, <2>2, BootStepAside, AsideKeeps
<1> QED BY <1>1, <1>2, <1>3, <1>4, <1>5, <1>6 DEF Next

(* Deleting or retiring a session finds its directory, whatever fails,      *)
(* whenever ma-core dies and however many sessions, loops and messages      *)
(* there are: mark_incomplete, update_memory_path and purge_memory_dir      *)
(* leave no directory behind that belongs to a session with a record.       *)
THEOREM DirectoryFound ==
  ASSUME {"raced", "crowded", "shared", "stale"} \subseteq Tracked
  PROVE  Spec => []PurgeFindsDirectory
<1>1. CASE Local
  <2>1. Shape /\ ShotShape /\ ShotsKnown /\ DirInv /\ [Next]_vars => ShotsKnown' /\ DirInv'
    BY <1>1, ShapeInductive, DirsInductive, CopiesKnown DEF DirInv
  <2>2. DirInv => PurgeFindsDirectory
    BY DEF DirInv
  <2>3. Init => ShotsKnown
    BY DEF Init, ShotsKnown, NoShot, NoFile
  <2> QED BY <2>1, <2>2, <2>3, InitShape, InitDirs, ShapeInductive, PTL DEF Spec
<1>2. CASE ~Local
  <2>1. PurgeFindsDirectory
    BY <1>2 DEF PurgeFindsDirectory
  <2> QED BY <2>1, PTL
<1> QED BY <1>1, <1>2

-----------------------------------------------------------------------------
(* Recordings.  Who deletes or retires s at the moment takes its files.     *)
Takes(s) ==
    \/ \E c \in Conn : conn[c].pc \in {"objects", "purge"} /\ conn[c].sid = s
    \/ boot.pc \in {"objects", "purge"} /\ boot.sid = s
Stays ==
    \A p \in Place : file[p].owner # None =>
        file'[p].owner = file[p].owner \/ Takes(file[p].owner)
RecordingsKept ==
    \A s \in Session : (\E p \in Place : file[p].owner = s) =>
        Takes(s) \/ \E p \in Place : file'[p].owner = s

(* Whoever is about to write metadata.json writes it for the session it     *)
(* belongs to, and an object lies under the key of its session.             *)
Writing(v) == v.pc \in {"begin", "capture", "complete", "interrupt"}
Belongs(m, p) == file[p].owner \in {None, m.owner}
RightHand ==
    /\ \A l \in Loop : Writing(loop[l]) => Belongs(loop[l].mem, loop[l].place)
    /\ \A c \in Conn : conn[c].pc = "store" => Belongs(conn[c].mem, conn[c].place)
    /\ stop.sid # None => Belongs(stop.mem, stop.sid)
    /\ ~Local => /\ \A s \in Session : file[s].owner \in {None, s}
                 /\ \A c \in Conn : conn[c].pc = "init" => conn[c].place = conn[c].sid

(* No recording goes when every file keeps its owner or is taken.           *)
LEMMA StaysKept ==
  ASSUME Stays
  PROVE  RecordingsKept
<1> SUFFICES ASSUME NEW s \in Session, NEW p \in Place, file[p].owner = s, ~Takes(s)
             PROVE  \E q \in Place : file'[q].owner = s
  BY DEF RecordingsKept
<1>1. s # None
  BY NoneAssumption
<1>2. file'[p].owner = s
  BY <1>1 DEF Stays
<1> QED BY <1>2

(* The typed facts the steps below start from.                              *)
LEMMA FilesTyped ==
  ASSUME Shape
  PROVE  /\ file \in [Place -> Meta \cup {NoFile}] /\ NoFile.owner = None
         /\ \A m \in Meta : m.owner \in Session /\ m.owner # None
         /\ \A m \in Meta : /\ [m EXCEPT !.prog = "capturing"].owner = m.owner
                            /\ [m EXCEPT !.prog = "interrupted"].owner = m.owner
                            /\ [m EXCEPT !.prog = "none"].owner = m.owner
                            /\ [m EXCEPT !.status = "complete"].owner = m.owner
                            /\ [m EXCEPT !.status = "incomplete"].owner = m.owner
                            /\ [m EXCEPT !.status = "complete", !.prog = "none"].owner = m.owner
                            /\ [m EXCEPT !.status = "pending_annotation",
                                         !.prog = "none"].owner = m.owner
                            /\ [m EXCEPT !.status = "incomplete",
                                         !.prog = "interrupted"].owner = m.owner
BY NoneAssumption DEF Shape, CoreTypes, Meta, NoFile

(* A write by whom the file belongs to keeps its owner.                     *)
LEMMA WriteStays ==
  ASSUME Shape, NEW p \in Place, NEW m, NEW n, NEW ok, Write(p, n, ok), Belongs(m, p),
         n.owner = m.owner
  PROVE  Stays
BY FilesTyped DEF Write, Stays, Belongs

(* A change of metadata.json keeps its owner.                               *)
LEMMA EditStays ==
  ASSUME Shape, NEW p \in Place, NEW n, NEW ok, Edit(p, n, ok),
         file[p] \in Meta => n.owner = file[p].owner
  PROVE  Stays
BY FilesTyped DEF Edit, Stays

(* mark_incomplete moves a directory onto nothing.                          *)
LEMMA RenameKeeps ==
  ASSUME Local, Shape, NEW p \in Path, NEW ok,
         file' = IF ~p[2] /\ CanRename(p, ok) THEN Rename(p) ELSE file
  PROVE  RecordingsKept
<1>1. CASE ~(~p[2] /\ CanRename(p, ok))
  BY <1>1 DEF RecordingsKept
<1>2. CASE ~p[2] /\ CanRename(p, ok)
  <2>. DEFINE q == Incomplete(p)
  <2>0. q[2] = TRUE
    BY DEF Incomplete
  <2>1. p \in Place /\ q \in Place /\ p # q
    <3>1. p # q
      <4>. HIDE DEF q
      <4> QED BY <1>2, <2>0
    <3> QED BY <3>1, Siblings, Places
  <2>2. file' = [file EXCEPT ![q] = file[p], ![p] = NoFile] /\ file[q] = NoFile
    BY <1>2 DEF Rename, CanRename
  <2>3. file'[q] = file[p] /\ \A x \in Place : x # p /\ x # q => file'[x] = file[x]
    <3>. HIDE DEF q
    <3> QED BY <2>1, <2>2, FilesTyped
  <2>4. ASSUME NEW s \in Session, NEW x \in Place, file[x].owner = s
        PROVE  \E y \in Place : file'[y].owner = s
    <3>1. x # q
      BY <2>2, <2>4, FilesTyped, NoneAssumption
    <3>. HIDE DEF q
    <3>2. CASE x = p
      BY <2>1, <2>3, <2>4, <3>2
    <3>3. CASE x # p
      BY <2>3, <2>4, <3>1, <3>3
    <3> QED BY <3>2, <3>3
  <2> QED BY <2>4 DEF RecordingsKept
<1> QED BY <1>1, <1>2

(* The steps of a loop keep the recordings.                                 *)
LEMMA LoopRecordings ==
  ASSUME Shape, RightHand, NEW l \in Loop, LoopNext(l) \/ LoopStep(l) \/ LoopStops(l, FALSE)
  PROVE  RecordingsKept
<1>. DEFINE p == loop[l].place
            m == loop[l].mem
<1>0. LoopOK(loop[l])
  BY DEF Shape
<1>1. ASSUME Writing(loop[l]) PROVE p \in Place /\ m \in Meta /\ Belongs(m, p)
  BY <1>0, <1>1 DEF LoopOK, Writing, RightHand
<1>2. ASSUME NEW n, NEW ok, Writing(loop[l]), Write(p, n, ok), n.owner = m.owner
      PROVE  RecordingsKept
  <2>1. Stays
    BY <1>1, <1>2, WriteStays
  <2> QED BY <2>1, StaysKept
<1>3. CASE UNCHANGED file
  BY <1>3 DEF RecordingsKept
<1>4. CASE LoopStep(l)
  <2>. DEFINE ok == TRUE
  <2>1. Writing(loop[l]) /\ Write(p, m, ok)
    BY <1>4 DEF LoopStep, Capturing, Writing
  <2>. HIDE DEF ok
  <2> QED BY <1>2, <2>1
<1>5. ASSUME NEW ok, LoopBegin(l, ok) \/ LoopComplete(l, ok) PROVE RecordingsKept
  <2>1. Writing(loop[l])
    BY <1>5 DEF LoopBegin, LoopComplete, Writing
  <2>2. /\ [m EXCEPT !.prog = "capturing"].owner = m.owner
        /\ [m EXCEPT !.status = "complete", !.prog = "none"].owner = m.owner
    BY <1>1, <2>1, FilesTyped
  <2> QED BY <1>2, <1>5, <2>1, <2>2 DEF LoopBegin, LoopComplete
<1>6. ASSUME NEW ok, LoopInterrupt(l, ok) PROVE RecordingsKept
  <2>1. Writing(loop[l])
    BY <1>6 DEF LoopInterrupt, Writing
  <2>2. [m EXCEPT !.status = "incomplete", !.prog = "interrupted"].owner = m.owner
    BY <1>1, <2>1, FilesTyped
  <2> QED BY <1>2, <1>3, <1>6, <2>1, <2>2 DEF LoopInterrupt
<1>7. ASSUME NEW ok, LoopFlag(l, ok) PROVE RecordingsKept
  <2>1. p \in Place
    BY <1>0, <1>7 DEF LoopFlag, LoopOK
  <2>2. file[p] \in Meta => [file[p] EXCEPT !.status = "incomplete"].owner = file[p].owner
    BY FilesTyped
  <2>3. Stays
    BY <1>7, <2>1, <2>2, EditStays DEF LoopFlag
  <2> QED BY <2>3, StaysKept
<1>8. ASSUME NEW ok, LoopRename(l, ok) PROVE RecordingsKept
  <2>1. Local /\ p \in Path
    BY <1>0, <1>8, Places DEF LoopRename, LoopOK
  <2> QED BY <1>8, <2>1, RenameKeeps DEF LoopRename
<1>9. CASE LoopArm(l) \/ LoopDrain(l) \/ LoopEnd(l) \/ LoopStops(l, TRUE) \/ LoopStops(l, FALSE)
  BY <1>3, <1>9 DEF LoopArm, LoopDrain, LoopEnd, LoopStops
<1>10. ASSUME NEW ok,
              \/ LoopLoad(l, ok) \/ LoopReadMetadata(l, ok) \/ LoopConnect(l, ok)
              \/ LoopSettle(l, ok) \/ LoopDemote(l, ok) \/ LoopRepath(l, ok)
       PROVE  RecordingsKept
  BY <1>3, <1>10
     DEF LoopLoad, LoopReadMetadata, LoopConnect, LoopSettle, LoopDemote, LoopRepath
<1> QED BY <1>4, <1>5, <1>6, <1>7, <1>8, <1>9, <1>10 DEF LoopNext

(* purge_memory_dir and delete_all take what belongs to the session.        *)
LEMMA PurgeStays ==
  ASSUME Shape, RightHand, NEW s \in Session, Takes(s), NEW p, NEW ok,
         PurgeMemoryDir(s, p, ok) \/ DeleteAll(s, ok)
  PROVE  RecordingsKept
<1>1. \A q \in Place : file'[q].owner = file[q].owner \/ file[q].owner = s \/ file[q].owner = None
  <2>1. CASE PurgeMemoryDir(s, p, ok)
    BY <2>1 DEF PurgeMemoryDir
  <2>2. CASE DeleteAll(s, ok)
    BY <2>2, FilesTyped, Places DEF DeleteAll, RightHand
  <2> QED BY <2>1, <2>2
<1>2. Stays
  BY <1>1 DEF Stays
<1> QED BY <1>2, StaysKept

(* The steps of a message keep the recordings.                              *)
LEMMA ConnRecordings ==
  ASSUME Shape, RightHand, NEW c \in Conn, ConnNext(c) \/ Receive(c)
  PROVE  RecordingsKept
<1>. DEFINE p == conn[c].place
            s == conn[c].sid
<1>0. ConnOK(conn[c])
  BY DEF Shape
<1>1. CASE UNCHANGED file
  BY <1>1 DEF RecordingsKept
<1>2. ASSUME NEW ok, NEW uploaded, InitialiseDir(c, ok, uploaded) PROVE RecordingsKept
  <2>1. p \in Place /\ s \in Session
    BY <1>0, <1>2 DEF InitialiseDir, ConnOK
  <2>2. CASE file' # file
    <3>. DEFINE n == [owner |-> s, status |-> "active", prog |-> "none"]
    <3>1. file' = [file EXCEPT ![p] = n] /\ (Local => file[p] = NoFile)
      BY <1>2, <2>2 DEF InitialiseDir
    <3>2. ~Local => file[p].owner \in {None, s}
      BY <1>2, <2>1 DEF InitialiseDir, RightHand
    <3>3. file[p].owner \in {None, s} /\ n.owner = s
      BY <3>1, <3>2, FilesTyped
    <3>4. Stays
      <4>. HIDE DEF n
      <4> QED BY <2>1, <3>1, <3>3, FilesTyped DEF Stays
    <3> QED BY <3>4, StaysKept
  <2> QED BY <1>1, <2>2
<1>3. ASSUME NEW ok, MarkComplete(c, ok) \/ ClearInProgress(c, ok) PROVE RecordingsKept
  <2>1. p \in Place
    BY <1>0, <1>3 DEF MarkComplete, ClearInProgress, ConnOK
  <2>2. file[p] \in Meta => /\ [file[p] EXCEPT !.status = "complete"].owner = file[p].owner
                            /\ [file[p] EXCEPT !.prog = "none"].owner = file[p].owner
    BY FilesTyped
  <2>3. Stays
    BY <1>3, <2>1, <2>2, EditStays DEF MarkComplete, ClearInProgress
  <2> QED BY <2>3, StaysKept
<1>4. ASSUME NEW ok, StoreComplete(c, ok) PROVE RecordingsKept
  <2>1. p \in Place /\ conn[c].mem \in Meta /\ Belongs(conn[c].mem, p)
    BY <1>0, <1>4 DEF StoreComplete, ConnOK, RightHand
  <2>2. [conn[c].mem EXCEPT !.status = "complete", !.prog = "none"].owner = conn[c].mem.owner
    BY <2>1, FilesTyped
  <2>3. Stays
    BY <1>4, <2>1, <2>2, WriteStays DEF StoreComplete
  <2> QED BY <2>3, StaysKept
<1>5. ASSUME NEW ok, DeleteObjects(c, ok) \/ PurgeDir(c, ok) PROVE RecordingsKept
  <2>1. s \in Session /\ Takes(s)
    BY <1>0, <1>5 DEF DeleteObjects, PurgeDir, ConnOK, Takes
  <2> QED BY <1>5, <2>1, PurgeStays DEF DeleteObjects, PurgeDir
<1>6. CASE SendDone(c) \/ ClosingImage(c) \/ ForgetDegraded(c) \/ DropHandle(c)
  BY <1>1, <1>6 DEF SendDone, ClosingImage, ForgetDegraded, DropHandle
<1>7. ASSUME NEW ok,
             \/ GiveUp(c, ok) \/ LookUp(c, ok) \/ RouteDirect(c, ok) \/ FetchObject(c, ok)
             \/ SetReasoningStatus(c, ok) \/ DeleteRecord(c, ok)
      PROVE  RecordingsKept
  BY <1>1, <1>7
     DEF GiveUp, LookUp, RouteDirect, FetchObject, SetReasoningStatus, DeleteRecord
<1>8. CASE Receive(c)
  BY <1>1, <1>8 DEF Receive, RegisterSession, StartWatch, Done, ReasoningDegraded,
                    CircuitReset, DeleteSession
<1> QED BY <1>2, <1>3, <1>4, <1>5, <1>6, <1>7, <1>8 DEF ConnNext

(* The sweeps keep the recordings.                                          *)
LEMMA BootRecordings ==
  ASSUME Shape, RightHand, BootNext
  PROVE  RecordingsKept
<1>1. CASE UNCHANGED file
  BY <1>1 DEF RecordingsKept
<1>2. ASSUME NEW ok, RetireObjects(ok) \/ RetireDir(ok) PROVE RecordingsKept
  <2>1. boot.sid \in Session /\ Takes(boot.sid)
    BY <1>2 DEF RetireObjects, RetireDir, Shape, BootShape, Takes
  <2> QED BY <1>2, <2>1, PurgeStays DEF RetireObjects, RetireDir
<1>3. ASSUME NEW ok, SweepRename(ok) PROVE RecordingsKept
  <2>1. Local /\ boot.place \in Path
    BY <1>3 DEF SweepRename, Shape, BootShape
  <2> QED BY <1>3, <2>1, RenameKeeps DEF SweepRename
<1>4. ASSUME NEW s \in Session, NEW ok, NEW replayed, SweepActive(s, ok, replayed), file' # file
      PROVE  RecordingsKept
  <2>. DEFINE n == [file[s] EXCEPT !.status = "pending_annotation", !.prog = "none"]
  <2>1. file' = [file EXCEPT ![s].status = "pending_annotation", ![s].prog = "none"] /\ ~Local
    BY <1>4, ModeAssumption DEF SweepActive, Local
  <2>2. s \in Place
    BY <2>1, Places
  <2>3. \A q \in Place : file'[q] = IF q = s THEN n ELSE file[q]
    BY <2>1, <2>2, FilesTyped
  <2>4. file[s] \in Meta => n.owner = file[s].owner
    BY FilesTyped
  <2>5. Stays
    <3>. HIDE DEF n
    <3> QED BY <2>2, <2>3, <2>4, FilesTyped DEF Stays
  <2> QED BY <2>5, StaysKept
<1>5. ASSUME NEW s \in Session, NEW ok, Reconcile(s, ok) \/ RetireRecord(s, ok)
      PROVE  RecordingsKept
  BY <1>1, <1>5 DEF Reconcile, RetireRecord
<1>6. ASSUME NEW ok, SweepRepath(ok) \/ SweepStatus(ok) PROVE RecordingsKept
  BY <1>1, <1>6 DEF SweepRepath, SweepStatus
<1>7. ASSUME NEW old, StartReconcile \/ Serve \/ StartRetention(old) PROVE RecordingsKept
  BY <1>1, <1>7 DEF StartReconcile, Serve, StartRetention
<1> QED BY <1>1, <1>2, <1>3, <1>4, <1>5, <1>6, <1>7 DEF BootNext

(* Signals, exits and crashes keep the recordings.                          *)
LEMMA ProcessRecordings ==
  ASSUME Shape, RightHand,
         \/ Signal \/ SignalNext \/ Crash
         \/ \E lost \in SUBSET Session : HostCrash(lost)
  PROVE  RecordingsKept
<1>1. CASE UNCHANGED file
  BY <1>1 DEF RecordingsKept
<1>2. CASE Signal \/ Exit \/ Crash \/ \E lost \in SUBSET Session : HostCrash(lost)
  BY <1>1, <1>2 DEF Signal, Exit, Crash, HostCrash, Dies
<1>3. ASSUME NEW s \in Session, NEW ok, FlagInterrupted(s, ok), file' # file
      PROVE  RecordingsKept
  <2>. DEFINE p == MetaPlace(s)
  <2>1. HasRecord(s) /\ Edit(p, [file[p] EXCEPT !.prog = "interrupted"], ok)
    BY <1>3 DEF FlagInterrupted
  <2>2. p \in Place
    BY <2>1, MetaPlaceTyped DEF Shape
  <2>3. file[p] \in Meta => [file[p] EXCEPT !.prog = "interrupted"].owner = file[p].owner
    BY FilesTyped
  <2>4. Stays
    <3>. HIDE DEF p
    <3> QED BY <2>1, <2>2, <2>3, EditStays
  <2> QED BY <2>4, StaysKept
<1>4. ASSUME NEW ok, StoreInterrupted(ok) PROVE RecordingsKept
  <2>1. stop.sid \in Place /\ stop.mem \in Meta /\ Belongs(stop.mem, stop.sid)
    BY <1>4, Places DEF StoreInterrupted, Shape, StopShape, CoreTypes, RightHand
  <2>2. [stop.mem EXCEPT !.prog = "interrupted"].owner = stop.mem.owner
    BY <2>1, FilesTyped
  <2>3. Stays
    BY <1>4, <2>1, <2>2, WriteStays DEF StoreInterrupted
  <2> QED BY <2>3, StaysKept
<1> QED BY <1>1, <1>2, <1>3, <1>4 DEF SignalNext

(* A copy written back late replaces the file, and then the session of the  *)
(* copy is marked.                                                          *)
LEMMA ShotRecordings ==
  ASSUME Shape, ShotShape, "stale" \in Tracked, NEW k \in Shot, ShotRead(k) \/ ShotWrite(k)
  PROVE  RecordingsKept \/ (Local /\ \E t \in Session : "stale" \in hist'[t])
<1>1. CASE UNCHANGED file
  BY <1>1 DEF RecordingsKept
<1>2. CASE ~UNCHANGED file
  <2>1. shot[k].mem \in Meta /\ ShotWrite(k) /\ Overtaken(k)
    BY <1>2, ShotRewrites
  <2>2. Local /\ shot[k].mem.owner \in Session
    BY <2>1, FilesTyped DEF ShotWrite, ShotShape, ShotOK
  <2>3. hist'[shot[k].mem.owner] = hist[shot[k].mem.owner] \cup ({"stale"} \cap Tracked)
    BY <2>1, <2>2 DEF ShotWrite
  <2> QED BY <2>2, <2>3
<1> QED BY <1>1, <1>2

(* No step of the system makes a recording disappear but the deletion or    *)
(* the retirement of its session, while everyone writes what belongs to it. *)
LEMMA NextRecordings ==
  ASSUME Shape, ShotShape, "stale" \in Tracked, RightHand, [Next]_vars
  PROVE  RecordingsKept \/ (Local /\ \E t \in Session : "stale" \in hist'[t])
<1>1. CASE UNCHANGED vars
  BY <1>1 DEF vars, RecordingsKept
<1> QED BY <1>1, LoopRecordings, ConnRecordings, ShotRecordings, BootRecordings,
           ProcessRecordings DEF Next

(* In local mode it is so while no loop outlives what it knows.             *)
LEMMA CleanHands ==
  ASSUME Local, Shape, DirInv, Clean
  PROVE  RightHand
<1>1. ASSUME NEW l \in Loop, Writing(loop[l]) PROVE Belongs(loop[l].mem, loop[l].place)
  <2>1. Working(loop[l]) /\ loop[l].mem \in Meta
    BY <1>1, DirTypes DEF Writing, Working, LoopOK
  <2>2. file[loop[l].place].owner = loop[l].sid
    BY <2>1 DEF DirInv, OwnDirectory
  <2>3. loop[l].mem.owner \in Session /\ loop[l].mem.owner # None
    BY <2>1, FilesTyped
  <2>4. ~Shared(loop[l].mem.owner)
    BY <2>3 DEF Clean, Shared
  <2>5. loop[l].mem.owner = loop[l].sid
    BY <2>3, <2>4 DEF DirInv, OwnCopy
  <2> QED BY <2>2, <2>5 DEF Belongs
<1>2. stop.sid = None
  BY DEF Shape, StopShape
<1>3. \A c \in Conn : conn[c].pc # "store"
  BY DEF DirInv
<1> QED BY <1>1, <1>2, <1>3 DEF RightHand

(* In cloud_primary mode it is always so: every object and every copy of    *)
(* one is under its session's key.                                          *)
KeyedLoop(v) == v.mem.owner \in {None, v.sid} /\ v.place \in {None, v.sid}
KeyedConn(m) ==
    /\ m.mem.owner \in {None, m.sid}
    /\ m.pc \in {"init", "finalise", "clear", "store"} => m.place = m.sid
KeyedFiles == \A s \in Session : file[s].owner \in {None, s}
KeyedStop == stop.mem.owner \in {None, stop.sid}
Keyed ==
    /\ KeyedFiles /\ KeyedStop
    /\ \A l \in Loop : KeyedLoop(loop[l])
    /\ \A c \in Conn : KeyedConn(conn[c])

(* Then everyone writes what belongs to it.                                 *)
LEMMA KeyedHands ==
  ASSUME ~Local, Shape, Keyed
  PROVE  RightHand
<1>1. ASSUME NEW l \in Loop, Writing(loop[l]) PROVE Belongs(loop[l].mem, loop[l].place)
  <2>1. loop[l].place \in Session /\ loop[l].mem \in Meta
    BY <1>1, Places DEF Writing, Shape, LoopOK
  <2>2. loop[l].mem.owner = loop[l].sid /\ loop[l].place = loop[l].sid
    BY <2>1, FilesTyped, NoneAssumption DEF Keyed, KeyedLoop
  <2> QED BY <2>1, <2>2 DEF Keyed, KeyedFiles, Belongs
<1>2. ASSUME NEW c \in Conn, conn[c].pc = "store" PROVE Belongs(conn[c].mem, conn[c].place)
  <2>1. conn[c].place \in Session /\ conn[c].mem \in Meta
    BY <1>2, Places DEF Shape, ConnOK
  <2>2. conn[c].mem.owner = conn[c].sid /\ conn[c].place = conn[c].sid
    BY <1>2, <2>1, FilesTyped DEF Keyed, KeyedConn
  <2> QED BY <2>1, <2>2 DEF Keyed, KeyedFiles, Belongs
<1>3. ASSUME stop.sid # None PROVE Belongs(stop.mem, stop.sid)
  <2>1. stop.sid \in Session /\ stop.mem \in Meta
    BY <1>3 DEF Shape, StopShape, CoreTypes
  <2>2. stop.mem.owner = stop.sid
    BY <2>1, FilesTyped DEF Keyed, KeyedStop
  <2> QED BY <2>1, <2>2 DEF Keyed, KeyedFiles, Belongs
<1>4. \A c \in Conn : conn[c].pc = "init" => conn[c].place = conn[c].sid
  BY DEF Keyed, KeyedConn
<1> QED BY <1>1, <1>2, <1>3, <1>4 DEF RightHand, Keyed, KeyedFiles

(* At first, and after ma-core dies, nothing but objects is there.          *)
LEMMA NothingKeyed == KeyedLoop(NoLoop) /\ KeyedConn(Idle) /\ NoSignal.mem.owner = None
<1>1. NoLoop.mem.owner = None /\ NoLoop.place = None
  BY DEF NoLoop, NoFile
<1>2. Idle.mem.owner = None /\ Idle.pc = "idle"
  BY DEF Idle, Message, NoFile
<1>3. NoSignal.mem.owner = None
  BY DEF NoSignal, NoFile
<1> QED BY <1>1, <1>2, <1>3 DEF KeyedLoop, KeyedConn

(* A write under the key of the session it is for.                          *)
LEMMA WriteKeyed ==
  ASSUME ~Local, Shape, Keyed, NEW s \in Session, NEW m, NEW ok, m.owner \in {None, s},
         Write(s, m, ok) \/ Edit(s, m, ok) \/ file' = [file EXCEPT ![s] = m] \/ UNCHANGED file
  PROVE  KeyedFiles'
<1>1. \A t \in Session : file'[t] = file[t] \/ (t = s /\ file'[t] = m)
  BY FilesTyped, Places DEF Write, Edit
<1> QED BY <1>1 DEF Keyed, KeyedFiles

(* A step of loop l.                                                        *)
LEMMA LoopStepKeyed ==
  ASSUME Shape, Keyed, KeyedFiles', NEW l \in Loop, NEW v, KeyedLoop(v),
         loop' = [loop EXCEPT ![l] = v], UNCHANGED stop,
         \A c \in Conn : conn'[c] = conn[c] \/ KeyedConn(conn'[c])
  PROVE  Keyed'
<1>1. \A k \in Loop : KeyedLoop(loop'[k])
  <2>1. loop \in [Loop -> Loops]
    BY DEF Shape, CoreTypes
  <2> QED BY <2>1 DEF Keyed
<1>2. \A c \in Conn : KeyedConn(conn'[c])
  BY DEF Keyed
<1>3. KeyedStop'
  BY DEF Keyed, KeyedStop
<1> QED BY <1>1, <1>2, <1>3 DEF Keyed

(* A step of the handler of one message.                                    *)
LEMMA ConnStepKeyed ==
  ASSUME Shape, Keyed, KeyedFiles', NEW c \in Conn, NEW n, KeyedConn(n),
         conn' = [conn EXCEPT ![c] = n], UNCHANGED stop,
         \A l \in Loop : loop'[l] = loop[l] \/ KeyedLoop(loop'[l])
  PROVE  Keyed'
<1>1. \A d \in Conn : KeyedConn(conn'[d])
  <2>1. conn \in [Conn -> Messages]
    BY DEF Shape, CoreTypes
  <2> QED BY <2>1 DEF Keyed
<1>2. \A l \in Loop : KeyedLoop(loop'[l])
  BY DEF Keyed
<1>3. KeyedStop'
  BY DEF Keyed, KeyedStop
<1> QED BY <1>1, <1>2, <1>3 DEF Keyed

(* A woken loop keeps what it has.                                          *)
LEMMA FireKeyed ==
  ASSUME NEW lp, \A x \in Loop : lp[x] \in Loops /\ KeyedLoop(lp[x]), NEW k
  PROVE  \A x \in Loop : KeyedLoop(Fire(lp, k)[x])
<1> SUFFICES ASSUME NEW x \in Loop PROVE KeyedLoop(Fire(lp, k)[x])
  OBVIOUS
<1>1. Fire(lp, k)[x] = lp[x] \/ Fire(lp, k)[x] = [lp[x] EXCEPT !.fired = TRUE]
  BY DEF Fire
<1>2. lp[x] \in Loops /\ KeyedLoop(lp[x])
  OBVIOUS
<1>3. KeyedLoop([lp[x] EXCEPT !.fired = TRUE])
  BY <1>2 DEF KeyedLoop, Loops
<1> QED BY <1>1, <1>2, <1>3

(* Unchanged files stay keyed, and so do the tasks that are left alone.     *)
LEMMA FilesStayKeyed == ASSUME Keyed, UNCHANGED file PROVE KeyedFiles'
BY DEF Keyed, KeyedFiles

(* The StartWatch of a loop that fails or comes up.                         *)
LEMMA ReadyKeyed ==
  ASSUME Shape, Keyed, NEW l \in Loop,
         \/ LoopFails(l)
         \/ conn' = [c \in Conn |-> IF conn[c].pc = "ready" /\ conn[c].loop = l
                                    THEN Idle ELSE conn[c]]
         \/ UNCHANGED conn
  PROVE  \A c \in Conn : conn'[c] = conn[c] \/ KeyedConn(conn'[c])
<1> SUFFICES ASSUME NEW c \in Conn, conn'[c] # conn[c] PROVE KeyedConn(conn'[c])
  OBVIOUS
<1>1. conn'[c] = [conn[c] EXCEPT !.pc = "unstart", !.loop = None] \/ conn'[c] = Idle
  BY DEF LoopFails
<1>2. KeyedConn([conn[c] EXCEPT !.pc = "unstart", !.loop = None])
  <2>1. conn[c] \in Messages /\ KeyedConn(conn[c])
    BY DEF Shape, CoreTypes, Keyed
  <2> QED BY <2>1 DEF KeyedConn, Messages
<1> QED BY <1>1, <1>2, NothingKeyed

(* A loop that keeps its place and, if it keeps it, its metadata.           *)
LEMMA LoopMovesKeyed ==
  ASSUME NEW v, NEW w, KeyedLoop(v), w.sid = v.sid, w.place = v.place,
         w.mem.owner \in {None, v.mem.owner}
  PROVE  KeyedLoop(w)
BY DEF KeyedLoop

(* The steps of a loop, in order of its life.                               *)
LEMMA LoopStartsKeyed ==
  ASSUME ~Local, Shape, Keyed, NEW l \in Loop, NEW ok,
         LoopLoad(l, ok) \/ LoopReadMetadata(l, ok) \/ LoopConnect(l, ok)
  PROVE  Keyed'
<1>. DEFINE s == loop[l].sid
<1>0. loop[l] \in Loops /\ LoopOK(loop[l]) /\ KeyedLoop(loop[l])
  BY DEF Shape, CoreTypes, Keyed
<1>1. KeyedFiles' /\ UNCHANGED <<file, stop>>
  BY FilesStayKeyed DEF LoopLoad, LoopReadMetadata, LoopConnect
<1>2. CASE LoopFails(l)
  <2>1. loop' = [loop EXCEPT ![l] = NoLoop]
    BY <1>2 DEF LoopFails
  <2>2. \A c \in Conn : conn'[c] = conn[c] \/ KeyedConn(conn'[c])
    BY <1>2, ReadyKeyed
  <2> QED BY <1>1, <2>1, <2>2, NothingKeyed, LoopStepKeyed
<1>3. CASE LoopLoad(l, ok) /\ ~LoopFails(l)
  <2>. DEFINE w == [loop[l] EXCEPT !.pc = "read", !.place = MetaPlace(s)]
  <2>1. loop' = [loop EXCEPT ![l] = w] /\ UNCHANGED conn
    BY <1>3 DEF LoopLoad
  <2>2. w.sid = s /\ w.place = s /\ w.mem = loop[l].mem
    BY <1>0 DEF MetaPlace, Loops
  <2>3. KeyedLoop(w)
    <3>. HIDE DEF w
    <3> QED BY <1>0, <2>2 DEF KeyedLoop
  <2>. HIDE DEF w
  <2> QED BY <1>1, <2>1, <2>3, LoopStepKeyed
<1>4. CASE LoopReadMetadata(l, ok) /\ ~LoopFails(l)
  <2>. DEFINE m == file[loop[l].place]
              w == [loop[l] EXCEPT !.pc = "connect", !.mem = m]
  <2>1. loop' = [loop EXCEPT ![l] = w] /\ UNCHANGED conn
    BY <1>4 DEF LoopReadMetadata
  <2>2. loop[l].place = s /\ s \in Session
    BY <1>0, <1>4, Places, NoneAssumption DEF LoopReadMetadata, LoopOK, KeyedLoop
  <2>3. w.sid = s /\ w.place = loop[l].place /\ w.mem = m
    BY <1>0 DEF Loops
  <2>4. m.owner \in {None, s}
    BY <2>2 DEF Keyed, KeyedFiles
  <2>5. KeyedLoop(w)
    <3>. HIDE DEF w, m
    <3> QED BY <1>0, <2>3, <2>4 DEF KeyedLoop
  <2>. HIDE DEF w
  <2> QED BY <1>1, <2>1, <2>5, LoopStepKeyed
<1>5. CASE LoopConnect(l, ok) /\ ~LoopFails(l)
  <2>. DEFINE w == [loop[l] EXCEPT !.pc = "arm"]
  <2>1. loop' = [loop EXCEPT ![l] = w]
    BY <1>5 DEF LoopConnect, LoopGoto
  <2>2. \A c \in Conn : conn'[c] = conn[c] \/ KeyedConn(conn'[c])
    BY <1>5, ReadyKeyed DEF LoopConnect
  <2>3. KeyedLoop(w)
    BY <1>0 DEF KeyedLoop, Loops
  <2>. HIDE DEF w
  <2> QED BY <1>1, <2>1, <2>2, <2>3, LoopStepKeyed
<1> QED BY <1>2, <1>3, <1>4, <1>5

(* A loop that puts its handle in the map, or removes it.                   *)
LEMMA LoopArmsKeyed ==
  ASSUME ~Local, Shape, Keyed, NEW l \in Loop, LoopArm(l) \/ LoopEnd(l)
  PROVE  Keyed'
<1>0. /\ loop \in [Loop -> Loops] /\ conn \in [Conn -> Messages]
      /\ \A x \in Loop : loop[x] \in Loops /\ KeyedLoop(loop[x])
  BY DEF Shape, CoreTypes, Keyed
<1>1. KeyedFiles' /\ KeyedStop'
  BY FilesStayKeyed DEF LoopArm, LoopEnd, Keyed, KeyedStop
<1>2. \A x \in Loop : KeyedLoop(loop'[x])
  <2>1. CASE LoopArm(l)
    <3>. DEFINE lp == LoopGoto(l, "begin")
    <3>1. [loop[l] EXCEPT !.pc = "begin"] \in Loops /\ KeyedLoop([loop[l] EXCEPT !.pc = "begin"])
      BY <1>0 DEF KeyedLoop, Loops, LoopPCs
    <3>2. \A x \in Loop : lp[x] \in Loops /\ KeyedLoop(lp[x])
      BY <1>0, <3>1 DEF LoopGoto
    <3>3. loop' = Fire(lp, handles[loop[l].sid])
      BY <2>1 DEF LoopArm
    <3>. HIDE DEF lp
    <3> QED BY <3>2, <3>3, FireKeyed
  <2>2. CASE LoopEnd(l)
    <3>. DEFINE lp == Fire(loop, handles[loop[l].sid])
    <3>1. \A x \in Loop : KeyedLoop(lp[x])
      BY <1>0, FireKeyed
    <3>2. loop' = [lp EXCEPT ![l] = NoLoop]
      BY <2>2 DEF LoopEnd
    <3>3. \A x \in Loop : loop'[x] = NoLoop \/ loop'[x] = lp[x]
      BY <3>2 DEF Fire
    <3>. HIDE DEF lp
    <3> QED BY <3>1, <3>3, NothingKeyed
  <2> QED BY <2>1, <2>2
<1>3. \A c \in Conn : KeyedConn(conn'[c])
  <2>1. ASSUME NEW c \in Conn
        PROVE  \/ conn'[c] = conn[c] \/ conn'[c] = Idle
               \/ conn'[c] = [conn[c] EXCEPT !.loop = None]
    BY DEF LoopArm, LoopEnd
  <2>2. ASSUME NEW c \in Conn PROVE KeyedConn([conn[c] EXCEPT !.loop = None])
    <3>1. conn[c] \in Messages /\ KeyedConn(conn[c])
      BY <1>0 DEF Keyed
    <3> QED BY <3>1 DEF KeyedConn, Messages
  <2> QED BY <2>1, <2>2, NothingKeyed DEF Keyed
<1> QED BY <1>1, <1>2, <1>3 DEF Keyed

(* A loop that captures, until it has nothing left but its handle.          *)
LEMMA LoopCapturesKeyed ==
  ASSUME ~Local, Shape, Keyed, NEW l \in Loop, NEW ok, NEW clean,
         \/ LoopBegin(l, ok) \/ LoopStep(l) \/ LoopStops(l, clean) \/ LoopDrain(l)
         \/ LoopComplete(l, ok) \/ LoopInterrupt(l, ok)
         \/ LoopSettle(l, ok) \/ LoopDemote(l, ok)
  PROVE  Keyed'
<1>. DEFINE m == loop[l].mem
            s == loop[l].sid
<1>0. loop[l] \in Loops /\ LoopOK(loop[l]) /\ KeyedLoop(loop[l])
  BY DEF Shape, CoreTypes, Keyed
<1>1. ASSUME Writing(loop[l])
      PROVE  /\ s \in Session /\ loop[l].place = s /\ m \in Meta
             /\ [m EXCEPT !.prog = "capturing"].owner = m.owner
             /\ [m EXCEPT !.status = "complete", !.prog = "none"].owner = m.owner
             /\ [m EXCEPT !.status = "incomplete", !.prog = "interrupted"].owner = m.owner
             /\ m.owner \in {None, s}
  <2>1. m \in Meta /\ loop[l].place \in Session
    BY <1>0, <1>1, Places DEF Writing, LoopOK
  <2>2. loop[l].place = s
    BY <1>0, <2>1, NoneAssumption DEF KeyedLoop
  <2> QED BY <1>0, <2>1, <2>2, FilesTyped DEF KeyedLoop
<1>2. ASSUME NEW n, NEW o, Writing(loop[l]), n.owner = m.owner, Write(loop[l].place, n, o)
      PROVE  KeyedFiles'
  BY <1>1, <1>2, WriteKeyed
<1>3. ASSUME NEW v, KeyedLoop(v), loop' = [loop EXCEPT ![l] = v], UNCHANGED <<conn, stop>>,
             KeyedFiles'
      PROVE  Keyed'
  BY <1>3, LoopStepKeyed
<1>4. CASE LoopBegin(l, ok)
  <2>. DEFINE n == [m EXCEPT !.prog = "capturing"]
              v == [loop[l] EXCEPT !.pc = "capture", !.mem = n]
  <2>1. Writing(loop[l])
    BY <1>4 DEF LoopBegin, Writing
  <2>2. n.owner = m.owner
    BY <1>1, <2>1
  <2>3. v.sid = s /\ v.place = loop[l].place /\ v.mem = n
    BY <1>0 DEF Loops
  <2>4. KeyedLoop(v)
    <3>. HIDE DEF v, n
    <3> QED BY <1>0, <2>2, <2>3 DEF KeyedLoop
  <2>5. loop' = [loop EXCEPT ![l] = v] /\ Write(loop[l].place, n, ok) /\ UNCHANGED <<conn, stop>>
    BY <1>4 DEF LoopBegin
  <2>. HIDE DEF v, n
  <2> QED BY <1>2, <1>3, <2>1, <2>2, <2>4, <2>5
<1>5. CASE LoopStep(l)
  <2>. DEFINE o == TRUE
  <2>1. Writing(loop[l]) /\ Write(loop[l].place, m, o) /\ UNCHANGED <<loop, conn, stop>>
    BY <1>5 DEF LoopStep, Capturing, Writing
  <2>. HIDE DEF o
  <2>2. KeyedFiles'
    BY <1>2, <2>1
  <2> QED BY <2>1, <2>2 DEF Keyed, KeyedStop
<1>6. CASE LoopComplete(l, ok)
  <2>. DEFINE n == [m EXCEPT !.status = "complete", !.prog = "none"]
              v == [loop[l] EXCEPT !.pc = "settle", !.mem = NoFile]
  <2>1. Writing(loop[l])
    BY <1>6 DEF LoopComplete, Writing
  <2>2. n.owner = m.owner
    BY <1>1, <2>1
  <2>3. v.sid = s /\ v.place = loop[l].place /\ v.mem.owner = None
    BY <1>0 DEF Loops, NoFile
  <2>4. KeyedLoop(v)
    <3>. HIDE DEF v
    <3> QED BY <1>0, <2>3 DEF KeyedLoop
  <2>5. loop' = [loop EXCEPT ![l] = v] /\ Write(loop[l].place, n, ok) /\ UNCHANGED <<conn, stop>>
    BY <1>6 DEF LoopComplete
  <2>. HIDE DEF v, n
  <2> QED BY <1>2, <1>3, <2>1, <2>2, <2>4, <2>5
<1>7. CASE LoopInterrupt(l, ok)
  <2>. DEFINE n == [m EXCEPT !.status = "incomplete", !.prog = "interrupted"]
              v == [loop[l] EXCEPT !.pc = "demote", !.mem = NoFile]
  <2>1. Writing(loop[l])
    BY <1>7 DEF LoopInterrupt, Writing
  <2>2. n.owner = m.owner
    BY <1>1, <2>1
  <2>3. v.sid = s /\ v.place = loop[l].place /\ v.mem.owner = None
    BY <1>0 DEF Loops, NoFile
  <2>4. KeyedLoop(v)
    <3>. HIDE DEF v
    <3> QED BY <1>0, <2>3 DEF KeyedLoop
  <2>5. loop' = [loop EXCEPT ![l] = v] /\ Write(loop[l].place, n, ok) /\ UNCHANGED <<conn, stop>>
    BY <1>7 DEF LoopInterrupt
  <2>. HIDE DEF v, n
  <2> QED BY <1>2, <1>3, <2>1, <2>2, <2>4, <2>5
<1>8. CASE LoopStops(l, clean) \/ LoopDrain(l)
  <2>1. KeyedFiles' /\ UNCHANGED <<conn, stop>>
    BY <1>8, FilesStayKeyed DEF LoopStops, LoopDrain
  <2>2. CASE LoopStops(l, clean)
    <3>. DEFINE v == [loop[l] EXCEPT !.pc = "drain", !.clean = clean, !.fired = FALSE]
    <3>1. loop' = [loop EXCEPT ![l] = v] /\ KeyedLoop(v)
      BY <1>0, <2>2 DEF LoopStops, Loops, KeyedLoop
    <3>. HIDE DEF v
    <3> QED BY <1>3, <2>1, <3>1
  <2>3. CASE LoopDrain(l)
    <3>. DEFINE v == [loop[l] EXCEPT !.pc = IF loop[l].clean THEN "complete" ELSE "interrupt",
                                     !.clean = FALSE, !.deg = loop[l].clean /\ s \in degraded]
    <3>1. loop' = [loop EXCEPT ![l] = v]
      BY <2>3 DEF LoopDrain
    <3>2. v.sid = s /\ v.place = loop[l].place /\ v.mem = m
      BY <1>0 DEF Loops
    <3>. HIDE DEF v
    <3>3. KeyedLoop(v)
      BY <1>0, <3>2 DEF KeyedLoop
    <3> QED BY <1>3, <2>1, <3>1, <3>3
  <2> QED BY <1>8, <2>2, <2>3
<1>9. CASE LoopSettle(l, ok) \/ LoopDemote(l, ok)
  <2>. DEFINE v == [NoLoop EXCEPT !.pc = "end", !.sid = s]
  <2>1. KeyedFiles' /\ UNCHANGED <<conn, stop>> /\ loop' = [loop EXCEPT ![l] = v]
    BY <1>9, FilesStayKeyed DEF LoopSettle, LoopDemote, LoopOver
  <2>2. KeyedLoop(v)
    BY DEF NoLoop, NoFile, KeyedLoop
  <2>. HIDE DEF v
  <2> QED BY <1>3, <2>1, <2>2
<1> QED BY <1>4, <1>5, <1>6, <1>7, <1>8, <1>9

(* A loop's steps together: it renames nothing.                             *)
LEMMA LoopKeyed ==
  ASSUME ~Local, Shape, Keyed, NEW l \in Loop, LoopNext(l) \/ LoopStep(l) \/ LoopStops(l, FALSE)
  PROVE  Keyed'
<1>1. CASE LoopArm(l) \/ LoopEnd(l)
  BY <1>1, LoopArmsKeyed
<1>2. CASE LoopStep(l) \/ LoopDrain(l) \/ LoopStops(l, TRUE) \/ LoopStops(l, FALSE)
  BY <1>2, LoopCapturesKeyed
<1>3. ASSUME NEW ok, LoopLoad(l, ok) \/ LoopReadMetadata(l, ok) \/ LoopConnect(l, ok)
      PROVE  Keyed'
  BY <1>3, LoopStartsKeyed
<1>4. ASSUME NEW ok,
             \/ LoopBegin(l, ok) \/ LoopComplete(l, ok) \/ LoopInterrupt(l, ok)
             \/ LoopSettle(l, ok) \/ LoopDemote(l, ok)
      PROVE  Keyed'
  <2>. DEFINE clean == TRUE
  <2>. HIDE DEF clean
  <2> QED BY <1>4, LoopCapturesKeyed
<1>5. ASSUME NEW ok PROVE ~LoopFlag(l, ok) /\ ~LoopRename(l, ok) /\ ~LoopRepath(l, ok)
  BY DEF LoopFlag, LoopRename, LoopRepath, Shape, LoopOK
<1> QED BY <1>1, <1>2, <1>3, <1>4, <1>5 DEF LoopNext

(* A message that has just arrived knows no path but its own key.           *)
LEMMA MessageKeyed ==
  ASSUME NEW s, NEW pc, NEW k, NEW p, NEW flag,
         pc \in {"init", "finalise", "clear", "store"} => p = s
  PROVE  KeyedConn(Message(pc, s, k, p, flag))
BY DEF KeyedConn, Message, NoFile

(* The messages that arrive.                                                *)
LEMMA ReceiveKeyed ==
  ASSUME ~Local, Shape, Keyed, NEW c \in Conn, Receive(c)
  PROVE  Keyed'
<1>1. PICK s \in Session :
        \/ \E n \in Name : RegisterSession(c, s, n)
        \/ \E l \in Loop : StartWatch(c, s, l)
        \/ Done(c, s) \/ ReasoningDegraded(c, s) \/ CircuitReset(c, s)
        \/ \E force \in BOOLEAN, ok \in Outcomes : DeleteSession(c, s, force, ok)
  BY DEF Receive
<1>2. KeyedFiles' /\ UNCHANGED stop
  BY <1>1, FilesStayKeyed
     DEF RegisterSession, StartWatch, Done, ReasoningDegraded, CircuitReset, DeleteSession
<1>3. \A l \in Loop : loop'[l] = loop[l] \/ KeyedLoop(loop'[l])
  <2>1. ASSUME NEW k \in Loop, StartWatch(c, s, k), NEW l \in Loop
        PROVE  loop'[l] = loop[l] \/ KeyedLoop(loop'[l])
    <3>. DEFINE v == [NoLoop EXCEPT !.pc = "load", !.sid = s]
    <3>1. loop' = [loop EXCEPT ![k] = v] /\ loop \in [Loop -> Loops]
      BY <2>1 DEF StartWatch, Shape, CoreTypes
    <3>2. KeyedLoop(v)
      BY DEF NoLoop, NoFile, KeyedLoop
    <3>. HIDE DEF v
    <3> QED BY <3>1, <3>2
  <2>2. UNCHANGED loop \/ \E k \in Loop : StartWatch(c, s, k)
    BY <1>1 DEF RegisterSession, Done, ReasoningDegraded, CircuitReset, DeleteSession
  <2> QED BY <2>1, <2>2
<1>4. ASSUME NEW pc, NEW k, NEW p, NEW flag,
             pc \in {"init", "finalise", "clear", "store"} => p = s,
             conn' = [conn EXCEPT ![c] = Message(pc, s, k, p, flag)]
      PROVE  Keyed'
  <2>1. KeyedConn(Message(pc, s, k, p, flag))
    BY <1>4, MessageKeyed
  <2> QED BY <1>2, <1>3, <1>4, <2>1, ConnStepKeyed
<1>5. ASSUME NEW n \in Name, RegisterSession(c, s, n) PROVE Keyed'
  <2>. DEFINE pc == "init"
              flag == FALSE
  <2>1. conn' = [conn EXCEPT ![c] = Message(pc, s, None, s, flag)]
    BY <1>5 DEF RegisterSession
  <2>. HIDE DEF pc, flag
  <2> QED BY <1>4, <2>1
<1>6. ASSUME NEW l \in Loop, StartWatch(c, s, l) PROVE Keyed'
  <2>. DEFINE pc == "ready"
              flag == FALSE
  <2>1. conn' = [conn EXCEPT ![c] = Message(pc, s, l, None, flag)]
    BY <1>6 DEF StartWatch
  <2>2. pc \notin {"init", "finalise", "clear", "store"}
    OBVIOUS
  <2>. HIDE DEF pc, flag
  <2> QED BY <1>4, <2>1, <2>2
<1>7. CASE Done(c, s)
  <2>. DEFINE pc == IF handles[s] = None THEN "lookup" ELSE "send"
              flag == FALSE
  <2>1. conn' = [conn EXCEPT ![c] = Message(pc, s, handles[s], None, flag)]
    BY <1>7 DEF Done
  <2>2. pc \notin {"init", "finalise", "clear", "store"}
    OBVIOUS
  <2>. HIDE DEF pc, flag
  <2> QED BY <1>4, <2>1, <2>2
<1>8. CASE ReasoningDegraded(c, s) \/ CircuitReset(c, s)
  <2>. DEFINE pc == IF ReasoningDegraded(c, s) THEN "degrade" ELSE "reset"
              flag == FALSE
  <2>1. conn' = [conn EXCEPT ![c] = Message(pc, s, None, None, flag)]
    BY <1>8 DEF ReasoningDegraded, CircuitReset
  <2>2. pc \notin {"init", "finalise", "clear", "store"}
    OBVIOUS
  <2>. HIDE DEF pc, flag
  <2> QED BY <1>4, <2>1, <2>2
<1>9. ASSUME NEW force, NEW ok, DeleteSession(c, s, force, ok) PROVE Keyed'
  <2>. DEFINE pc == IF ok /\ reg[s].status = "active" THEN "unhandle" ELSE "wipe"
              p == IF ok THEN reg[s].path ELSE None
  <2>1. conn' = [conn EXCEPT ![c] = Message(pc, s, None, p, force)]
    BY <1>9 DEF DeleteSession
  <2>2. pc \notin {"init", "finalise", "clear", "store"}
    OBVIOUS
  <2>. HIDE DEF pc, p
  <2> QED BY <1>4, <2>1, <2>2
<1> QED BY <1>1, <1>5, <1>6, <1>7, <1>8, <1>9

(* A handler that goes on with what it has, or replies.                     *)
LEMMA GoesOnKeyed ==
  ASSUME Shape, Keyed, NEW c \in Conn, KeyedFiles', UNCHANGED stop,
         \A l \in Loop : loop'[l] = loop[l] \/ KeyedLoop(loop'[l]),
         \/ conn' = Reply(c)
         \/ \E pc \in {"rollback", "await", "clear", "forget", "wipe", "objects", "purge"} :
               conn' = Goto(c, pc) /\ (pc = "clear" => conn[c].pc = "finalise")
  PROVE  Keyed'
<1>1. CASE conn' = Reply(c)
  BY <1>1, NothingKeyed, ConnStepKeyed DEF Reply
<1>2. ASSUME NEW pc \in {"rollback", "await", "clear", "forget", "wipe", "objects", "purge"},
             conn' = Goto(c, pc), pc = "clear" => conn[c].pc = "finalise"
      PROVE  Keyed'
  <2>. DEFINE n == [conn[c] EXCEPT !.pc = pc]
  <2>1. n.pc = pc /\ n.sid = conn[c].sid /\ n.place = conn[c].place /\ n.mem = conn[c].mem
    BY DEF Shape, CoreTypes, Messages
  <2>2. KeyedConn(conn[c])
    BY DEF Keyed
  <2>3. conn' = [conn EXCEPT ![c] = n]
    BY <1>2 DEF Goto
  <2>. HIDE DEF n
  <2>4. KeyedConn(n)
    BY <1>2, <2>1, <2>2 DEF KeyedConn
  <2> QED BY <2>3, <2>4, ConnStepKeyed
<1> QED BY <1>1, <1>2

(* The steps of a message's handler.                                        *)
LEMMA ConnKeyed ==
  ASSUME ~Local, Shape, Keyed, NEW c \in Conn, ConnNext(c)
  PROVE  Keyed'
<1>. DEFINE s == conn[c].sid
            m == conn[c].mem
<1>0. conn[c] \in Messages /\ ConnOK(conn[c]) /\ KeyedConn(conn[c])
  BY DEF Shape, CoreTypes, Keyed
<1>1. ASSUME UNCHANGED <<loop, stop>>, NEW n, KeyedConn(n), conn' = [conn EXCEPT ![c] = n],
             KeyedFiles'
      PROVE  Keyed'
  BY <1>1, ConnStepKeyed
<1>11. CASE ClosingImage(c)
  <2>1. KeyedFiles' /\ UNCHANGED <<loop, stop>> /\ conn' = Awaits(c)
    BY <1>11, FilesStayKeyed DEF ClosingImage
  <2> QED BY <2>1, GoesOnKeyed DEF Awaits
<1>2. CASE SendDone(c) \/ DropHandle(c)
  <2>1. KeyedFiles' /\ UNCHANGED stop
    BY <1>2, FilesStayKeyed DEF SendDone, DropHandle
  <2>2. PICK k : loop' = Fire(loop, k)
    BY <1>2 DEF SendDone, DropHandle
  <2>3. \A l \in Loop : KeyedLoop(loop'[l])
    BY <2>2, FireKeyed DEF Shape, CoreTypes, Keyed
  <2>4. conn' = Reply(c) \/ conn' = Goto(c, "await") \/ conn' = Goto(c, "wipe")
    BY <1>2 DEF SendDone, Awaits, DropHandle
  <2> QED BY <2>1, <2>3, <2>4, GoesOnKeyed
<1>3. CASE ForgetDegraded(c)
  <2>. DEFINE n == [conn[c] EXCEPT !.pc = "route", !.flag = s \in degraded]
  <2>1. KeyedFiles' /\ UNCHANGED <<loop, stop>> /\ conn' = [conn EXCEPT ![c] = n]
    BY <1>3, FilesStayKeyed DEF ForgetDegraded
  <2>2. n.pc = "route" /\ n.sid = s /\ n.mem = m
    BY <1>0 DEF Messages
  <2>. HIDE DEF n
  <2>3. KeyedConn(n)
    BY <1>0, <2>2 DEF KeyedConn
  <2> QED BY <1>1, <2>1, <2>3
<1>4. ASSUME NEW ok, NEW uploaded, InitialiseDir(c, ok, uploaded) PROVE Keyed'
  <2>. DEFINE n == [owner |-> s, status |-> "active", prog |-> "none"]
  <2>1. s \in Session /\ conn[c].place = s
    BY <1>0, <1>4 DEF InitialiseDir, ConnOK, KeyedConn
  <2>2. UNCHANGED file \/ file' = [file EXCEPT ![s] = n]
    BY <1>4, <2>1 DEF InitialiseDir
  <2>3. KeyedFiles'
    <3>1. n.owner \in {None, s}
      OBVIOUS
    <3>. HIDE DEF n
    <3> QED BY <2>1, <2>2, <3>1, WriteKeyed
  <2>4. UNCHANGED <<loop, stop>> /\ (conn' = Reply(c) \/ conn' = Goto(c, "rollback"))
    BY <1>4 DEF InitialiseDir
  <2> QED BY <2>3, <2>4, GoesOnKeyed
<1>5. ASSUME NEW ok,
             \/ GiveUp(c, ok) \/ RouteDirect(c, ok) \/ SetReasoningStatus(c, ok)
             \/ DeleteRecord(c, ok)
      PROVE  Keyed'
  <2>1. KeyedFiles' /\ UNCHANGED <<loop, stop>>
    BY <1>5, FilesStayKeyed DEF GiveUp, RouteDirect, SetReasoningStatus, DeleteRecord
  <2>2. conn' = Reply(c) \/ conn' = Goto(c, "objects")
    BY <1>5 DEF GiveUp, RouteDirect, SetReasoningStatus, DeleteRecord
  <2> QED BY <2>1, <2>2, GoesOnKeyed
<1>6. ASSUME NEW ok, LookUp(c, ok) PROVE Keyed'
  <2>. DEFINE n == [conn[c] EXCEPT !.pc = "finalise", !.place = MetaPlace(s)]
  <2>1. KeyedFiles' /\ UNCHANGED <<loop, stop>>
    BY <1>6, FilesStayKeyed DEF LookUp
  <2>2. conn' = Reply(c) \/ conn' = [conn EXCEPT ![c] = n]
    BY <1>6 DEF LookUp
  <2>3. n.place = s /\ n.sid = s /\ n.mem = m
    BY <1>0 DEF Messages, MetaPlace
  <2>. HIDE DEF n
  <2>4. KeyedConn(n)
    BY <1>0, <2>3 DEF KeyedConn
  <2> QED BY <1>1, <2>1, <2>2, <2>4, GoesOnKeyed
<1>7. ASSUME NEW ok, MarkComplete(c, ok) \/ ClearInProgress(c, ok) PROVE Keyed'
  <2>1. ClearInProgress(c, ok) /\ s \in Session /\ conn[c].place = s
    BY <1>0, <1>7 DEF MarkComplete, ClearInProgress, ConnOK, KeyedConn
  <2>. DEFINE n == [file[s] EXCEPT !.prog = "none"]
  <2>2. KeyedFiles'
    <3>1. file[s] \in Meta \cup {NoFile} /\ file[s].owner \in {None, s}
      BY <2>1, FilesTyped, Places DEF Keyed, KeyedFiles
    <3>2. n.owner \in {None, s}
      BY <3>1 DEF Meta, NoFile
    <3>3. Edit(s, n, ok)
      BY <2>1 DEF ClearInProgress
    <3>. HIDE DEF n
    <3> QED BY <2>1, <3>2, <3>3, WriteKeyed
  <2>3. UNCHANGED <<loop, stop>> /\ conn' = Goto(c, "forget")
    BY <2>1 DEF ClearInProgress
  <2> QED BY <2>2, <2>3, GoesOnKeyed
<1>8. ASSUME NEW ok, FetchObject(c, ok) PROVE Keyed'
  <2>. DEFINE f == file[conn[c].place]
              n == [conn[c] EXCEPT !.pc = "store", !.mem = f]
  <2>1. s \in Session /\ conn[c].place = s
    BY <1>0, <1>8 DEF FetchObject, ConnOK, KeyedConn
  <2>2. KeyedFiles' /\ UNCHANGED <<loop, stop>>
    BY <1>8, FilesStayKeyed DEF FetchObject
  <2>3. conn' = Goto(c, "forget") \/ conn' = [conn EXCEPT ![c] = n]
    BY <1>8 DEF FetchObject
  <2>4. n.place = s /\ n.sid = s /\ n.mem = f /\ f.owner \in {None, s}
    BY <1>0, <2>1 DEF Messages, Keyed, KeyedFiles
  <2>. HIDE DEF n, f
  <2>5. KeyedConn(n)
    BY <2>4 DEF KeyedConn
  <2> QED BY <1>1, <2>2, <2>3, <2>5, GoesOnKeyed
<1>9. ASSUME NEW ok, StoreComplete(c, ok) PROVE Keyed'
  <2>. DEFINE f == [m EXCEPT !.status = "complete", !.prog = "none"]
              n == [conn[c] EXCEPT !.pc = "forget", !.mem = NoFile]
  <2>1. s \in Session /\ conn[c].place = s /\ m \in Meta
    BY <1>0, <1>9 DEF StoreComplete, ConnOK, KeyedConn
  <2>2. f.owner \in {None, s}
    BY <1>0, <2>1, FilesTyped DEF KeyedConn
  <2>3. Write(s, f, ok) /\ UNCHANGED <<loop, stop>> /\ conn' = [conn EXCEPT ![c] = n]
    BY <1>9, <2>1 DEF StoreComplete
  <2>4. n.pc = "forget" /\ n.mem.owner = None
    BY <1>0 DEF Messages, NoFile
  <2>. HIDE DEF n, f
  <2>5. KeyedConn(n) /\ KeyedFiles'
    BY <2>1, <2>2, <2>3, <2>4, WriteKeyed DEF KeyedConn
  <2> QED BY <1>1, <2>3, <2>5
<1>10. ASSUME NEW ok, DeleteObjects(c, ok) \/ PurgeDir(c, ok) PROVE Keyed'
  <2>1. s \in Session
    BY <1>0, <1>10 DEF DeleteObjects, PurgeDir, ConnOK
  <2>2. UNCHANGED file \/ file' = [file EXCEPT ![s] = NoFile]
    BY <1>10 DEF DeleteObjects, PurgeDir, DeleteAll, PurgeMemoryDir
  <2>3. KeyedFiles'
    <3>1. NoFile.owner \in {None, s}
      BY DEF NoFile
    <3> QED BY <2>1, <2>2, <3>1, WriteKeyed
  <2>4. UNCHANGED <<loop, stop>> /\ (conn' = Goto(c, "purge") \/ conn' = Reply(c))
    BY <1>10 DEF DeleteObjects, PurgeDir
  <2> QED BY <2>3, <2>4, GoesOnKeyed
<1> QED BY <1>2, <1>3, <1>4, <1>5, <1>6, <1>7, <1>8, <1>9, <1>10, <1>11 DEF ConnNext

(* The sweeps.                                                              *)
LEMMA BootKeyed ==
  ASSUME ~Local, Shape, Keyed, BootNext
  PROVE  Keyed'
<1>0. ASSUME UNCHANGED <<loop, conn, stop>>, KeyedFiles' PROVE Keyed'
  BY <1>0 DEF Keyed, KeyedStop
<1>1. ASSUME NEW s \in Session, NEW ok, NEW replayed, SweepActive(s, ok, replayed) PROVE Keyed'
  <2>. DEFINE n == [file[s] EXCEPT !.status = "pending_annotation", !.prog = "none"]
  <2>1. s \in Place /\ file[s] \in Meta \cup {NoFile} /\ file[s].owner \in {None, s}
    BY FilesTyped, Places DEF Keyed, KeyedFiles
  <2>2. n.owner \in {None, s}
    BY <2>1 DEF Meta, NoFile
  <2>3. UNCHANGED <<loop, conn, stop>> /\ (UNCHANGED file \/ file' = [file EXCEPT ![s] = n])
    BY <1>1 DEF SweepActive
  <2>4. KeyedFiles'
    <3>. HIDE DEF n
    <3> QED BY <2>2, <2>3, WriteKeyed
  <2> QED BY <1>0, <2>3, <2>4
<1>2. ASSUME NEW ok, RetireObjects(ok) \/ RetireDir(ok) PROVE Keyed'
  <2>. DEFINE s == boot.sid
  <2>1. s \in Session
    BY <1>2 DEF RetireObjects, RetireDir, Shape, BootShape
  <2>2. UNCHANGED <<loop, conn, stop>> /\ (UNCHANGED file \/ file' = [file EXCEPT ![s] = NoFile])
    BY <1>2 DEF RetireObjects, RetireDir, DeleteAll, PurgeMemoryDir
  <2>3. NoFile.owner \in {None, s}
    BY DEF NoFile
  <2>4. KeyedFiles'
    BY <2>1, <2>2, <2>3, WriteKeyed
  <2> QED BY <1>0, <2>2, <2>4
<1>3. ASSUME NEW ok PROVE ~SweepRename(ok)
  BY DEF SweepRename, Shape, BootShape
<1>4. ASSUME NEW s \in Session, NEW ok, Reconcile(s, ok) \/ RetireRecord(s, ok) PROVE Keyed'
  BY <1>0, <1>4, FilesStayKeyed DEF Reconcile, RetireRecord
<1>5. ASSUME NEW ok, SweepRepath(ok) \/ SweepStatus(ok) PROVE Keyed'
  BY <1>0, <1>5, FilesStayKeyed DEF SweepRepath, SweepStatus
<1>6. ASSUME NEW old, StartReconcile \/ Serve \/ StartRetention(old) PROVE Keyed'
  BY <1>0, <1>6, FilesStayKeyed DEF StartReconcile, Serve, StartRetention
<1> QED BY <1>1, <1>2, <1>3, <1>4, <1>5, <1>6 DEF BootNext

(* Signals, exits and crashes.                                              *)
LEMMA ProcessKeyed ==
  ASSUME ~Local, Shape, Keyed,
         \/ Signal \/ SignalNext \/ Crash
         \/ \E lost \in SUBSET Session : HostCrash(lost)
  PROVE  Keyed'
<1>1. CASE Signal
  <2>1. stop'.mem = NoSignal.mem /\ UNCHANGED <<file, loop, conn>>
    BY <1>1 DEF Signal, NoSignal
  <2> QED BY <2>1, NothingKeyed DEF Keyed, KeyedFiles, KeyedStop
<1>2. CASE Exit \/ Crash \/ \E lost \in SUBSET Session : HostCrash(lost)
  <2>1. /\ UNCHANGED file /\ loop' = [l \in Loop |-> NoLoop]
        /\ conn' = [c \in Conn |-> Idle] /\ stop' = NoSignal
    BY <1>2 DEF Exit, Crash, HostCrash, Dies
  <2> QED BY <2>1, NothingKeyed DEF Keyed, KeyedFiles, KeyedStop
<1>3. ASSUME NEW s \in Session, NEW ok, FlagInterrupted(s, ok) PROVE Keyed'
  <2>1. UNCHANGED <<file, loop, conn>>
    BY <1>3 DEF FlagInterrupted
  <2>2. stop'.mem.owner \in {None, stop'.sid}
    <3>1. file[s].owner \in {None, s} /\ NoFile.owner = None
      BY DEF Keyed, KeyedFiles, NoFile
    <3>2. stop \in [on : BOOLEAN, todo : SUBSET Session, sid : Session \cup {None},
                    mem : Meta \cup {NoFile}]
      BY DEF Shape, CoreTypes
    <3>3. (stop'.sid = s /\ stop'.mem = file[s]) \/ stop'.mem = NoFile
      BY <1>3, <3>2 DEF FlagInterrupted, MetaPlace
    <3> QED BY <3>1, <3>3
  <2> QED BY <2>1, <2>2 DEF Keyed, KeyedFiles, KeyedStop
<1>4. ASSUME NEW ok, StoreInterrupted(ok) PROVE Keyed'
  <2>. DEFINE s == stop.sid
              n == [stop.mem EXCEPT !.prog = "interrupted"]
  <2>1. s \in Session /\ stop.mem \in Meta
    BY <1>4 DEF StoreInterrupted, Shape, StopShape, CoreTypes
  <2>2. n.owner \in {None, s}
    BY <2>1, FilesTyped DEF Keyed, KeyedStop
  <2>3. Write(s, n, ok) /\ UNCHANGED <<loop, conn>>
    BY <1>4 DEF StoreInterrupted
  <2>4. KeyedFiles'
    <3>. HIDE DEF n
    <3> QED BY <2>1, <2>2, <2>3, WriteKeyed
  <2>5. stop'.mem.owner = None
    BY <1>4 DEF StoreInterrupted, Shape, CoreTypes, NoFile
  <2> QED BY <2>3, <2>4, <2>5 DEF Keyed, KeyedStop
<1> QED BY <1>1, <1>2, <1>3, <1>4 DEF SignalNext

(* There are no closing-image tasks to write under a key.                   *)
LEMMA NoShots ==
  ASSUME ~Local, ShotShape, NEW k \in Shot
  PROVE  ~ShotRead(k) /\ ~ShotWrite(k)
BY DEF ShotShape, ShotOK, ShotRead, ShotWrite

(* What is under a key stays its session's.                                 *)
LEMMA KeyedInductive == ~Local /\ Shape /\ ShotShape /\ Keyed /\ [Next]_vars => Keyed'
<1> SUFFICES ASSUME ~Local, Shape, ShotShape, Keyed, [Next]_vars PROVE Keyed'
  OBVIOUS
<1>1. CASE UNCHANGED vars
  BY <1>1 DEF vars, Keyed, KeyedFiles, KeyedStop
<1> QED BY <1>1, LoopKeyed, ConnKeyed, ReceiveKeyed, NoShots, BootKeyed, ProcessKeyed DEF Next

(* At first there is nothing under any key.                                 *)
LEMMA InitKeyed == ~Local /\ Init => Keyed
<1> SUFFICES ASSUME ~Local, Init PROVE Keyed
  OBVIOUS
<1>1. \A s \in Session : file[s].owner = None
  BY Places DEF Init, NoFile
<1> QED BY <1>1, NothingKeyed DEF Init, Keyed, KeyedFiles, KeyedStop

(* The step of OnlyOwnerPurges, in the two storage modes.                   *)
LEMMA RecordingsStep ==
  ASSUME Shape, ShotShape, "stale" \in Tracked, [Next]_vars,
         (Local /\ DirInv) \/ (~Local /\ Keyed)
  PROVE  \A s \in Session :
            /\ \E p \in Place : file[p].owner = s
            /\ \A p \in Place : file'[p].owner # s
            => \/ \E t \in Session : hist'[t] \cap {"raced", "shared", "stale"} # {}
               \/ \E c \in Conn : conn[c].pc \in {"objects", "purge"} /\ conn[c].sid = s
               \/ boot.pc \in {"objects", "purge"} /\ boot.sid = s
<1>1. CASE ~Clean
  <2>1. PICK t \in Session : hist[t] \cap {"raced", "shared", "stale"} # {}
    BY <1>1 DEF Clean
  <2>2. hist'[t] \cap {"raced", "shared", "stale"} # {}
    BY <2>1, HistoryGrows DEF MarksStay
  <2> QED BY <2>2
<1>2. CASE RightHand
  BY <1>2, NextRecordings DEF RecordingsKept, Takes
<1> QED BY <1>1, <1>2, CleanHands, KeyedHands

(* In cloud_primary mode an object goes only when its session is deleted or *)
(* retired, whatever runs at the same time: every write is under the key of *)
(* the session the metadata names, and delete_all is on one session's key.  *)
THEOREM ObjectsStay ==
  ASSUME ~Local, "stale" \in Tracked
  PROVE  Spec => [][RecordingsKept]_vars
<1>1. Shape /\ ShotShape /\ Keyed /\ [Next]_vars => Keyed' /\ [RecordingsKept]_vars
  BY KeyedInductive, KeyedHands, NextRecordings
<1>2. Init => Keyed
  BY InitKeyed
<1> QED BY <1>1, <1>2, InitShape, ShapeInductive, PTL DEF Spec

(* A recording disappears only by deleting or retiring the session it       *)
(* belongs to, in every storage mode, whatever fails and whenever ma-core   *)
(* dies, unless a loop or a closing-image task outlived what it knew of its *)
(* directory: mark_incomplete renames onto nothing, purge_memory_dir        *)
(* compares the owner, and every other write is under the owner's key or    *)
(* path.                                                                    *)
THEOREM RecordingsStay ==
  ASSUME {"raced", "crowded", "shared", "stale"} \subseteq Tracked
  PROVE  Spec => OnlyOwnerPurges
<1>. DEFINE OwnerTakes ==
              \A s \in Session :
                 /\ \E p \in Place : file[p].owner = s
                 /\ \A p \in Place : file'[p].owner # s
                 => \/ \E t \in Session : hist'[t] \cap {"raced", "shared", "stale"} # {}
                    \/ \E c \in Conn : conn[c].pc \in {"objects", "purge"} /\ conn[c].sid = s
                    \/ boot.pc \in {"objects", "purge"} /\ boot.sid = s
<1>1. CASE Local
  <2>1. Shape /\ ShotShape /\ ShotsKnown /\ DirInv /\ [Next]_vars => ShotsKnown' /\ DirInv'
    BY <1>1, ShapeInductive, DirsInductive, CopiesKnown DEF DirInv
  <2>2. Shape /\ ShotShape /\ DirInv /\ [Next]_vars => [OwnerTakes]_vars
    BY <1>1, RecordingsStep
  <2>3. Init => ShotsKnown
    BY DEF Init, ShotsKnown, NoShot, NoFile
  <2> QED BY <2>1, <2>2, <2>3, InitShape, InitDirs, ShapeInductive, PTL
          DEF Spec, OnlyOwnerPurges
<1>2. CASE ~Local
  <2>1. Shape /\ ShotShape /\ Keyed /\ [Next]_vars => Keyed'
    BY <1>2, KeyedInductive
  <2>2. Init => Keyed
    BY <1>2, InitKeyed
  <2>3. Shape /\ ShotShape /\ Keyed /\ [Next]_vars => [OwnerTakes]_vars
    BY <1>2, RecordingsStep
  <2> QED BY <2>1, <2>2, <2>3, InitShape, ShapeInductive, PTL DEF Spec, OnlyOwnerPurges
<1> QED BY <1>1, <1>2
=============================================================================
