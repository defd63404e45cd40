---------------------- MODULE FinishedRecordings_proofs ----------------------
(***************************************************************************)
(* What SessionLifecycle offers for annotation is finished, for any        *)
(* sessions, connections and loops, in every storage mode and with every   *)
(* fault.                                                                  *)
(*                                                                         *)
(* Finishes is the inductive invariant.  Orderly(s) is about one session:  *)
(* PrivateKeeps shows that a step of a task of one session is a matter of  *)
(* that session, and one lemma for each action, ...Order, that the session *)
(* stays in order.                                                         *)
(***************************************************************************)
EXTENDS SessionLifecycle_proofs

(* How tasks are tied to each other: what is idle is blank, a handle        *)
(* belongs to an armed loop of its session, a message to the loop it waits  *)
(* for or is about to tell, and the signal handler is at sessions that have *)
(* a handle.                                                                *)
Starting(v) == v.pc \in {"load", "read", "connect"}
Armed(v) == v.pc \notin {"none", "load", "read", "connect", "arm"}
ConnLinked(m) ==
    /\ m.pc = "idle" => m = Idle
    /\ m.pc \in {"ready", "await"} => m.loop # None
    /\ m.pc = "store" => ~Local
    /\ m.loop # None => /\ m.pc = "ready" => /\ loop[m.loop].sid = m.sid
                                             /\ Starting(loop[m.loop])
                        /\ m.pc \in {"send", "picture", "await"} =>
                              loop[m.loop].sid = m.sid /\ Armed(loop[m.loop])
LoopLinked(v) ==
    /\ v.pc = "none" => v = NoLoop
    /\ v.fired => v.pc \in {"begin", "capture"}
HandleLinked(s) == handles[s] # None => loop[handles[s]].sid = s /\ Armed(loop[handles[s]])
StopLinked(s) == s \in stop.todo \/ stop.sid = s => handles[s] # None
Links ==
    /\ \A l \in Loop : LoopLinked(loop[l])
    /\ \A c \in Conn : ConnLinked(conn[c])
    /\ \A s \in Session : HandleLinked(s) /\ StopLinked(s)

(* A loop that holds the metadata of another session was mixed with it.     *)
Mixed(s) == "mixed" \in hist[s]
MixedCopy == \A l \in Loop : loop[l].mem.owner \in {None, loop[l].sid} \/ Mixed(loop[l].mem.owner)

(* The first sweep is at sessions listed as active, at each one once.       *)
InSweep == boot.pc \in {"active", "rename", "repath", "demote", "restore"}
Swept ==
    InSweep => /\ \A s \in boot.todo : reg[s].status = "active" /\ s # boot.sid
               /\ boot.sid # None => reg[boot.sid].status = "active"

(* The recordings of s.                                                     *)
Finished(m) == m.status \in {"complete", "pending_annotation"}
Offered(s) == reg[s].status \in {"pending_annotation", "pending_human_annotation"}
Good(s) == LET m == file[MetaPlace(s)] IN m.owner = s /\ Finished(m) /\ m.prog = "none"
Unfinished(s) == \A p \in Place : file[p].owner = s => ~Finished(file[p])

(* The loop goes on to complete its recording, or is told to.               *)
Finishing(v) == v.fired \/ (v.pc = "drain" /\ v.clean) \/ v.pc \in {"complete", "settle"}

(* Before its id is drawn nothing knows of a session.                       *)
Unborn(s) ==
    /\ ~HasRecord(s) /\ handles[s] = None
    /\ \A p \in Place : file[p].owner # s
    /\ \A l \in Loop : loop[l].sid # s
    /\ \A c \in Conn : conn[c].sid # s

(* One message and one loop are at work on s, and they know of each other.  *)
Beside(s, m, l) ==
    \/ m.pc \in {"ready", "await"}
    \/ m.pc = "picture" /\ m.loop = l
    \/ m.pc = "send" /\ m.loop = l /\ ~Finishing(loop[l])
    \/ m.pc \in {"degrade", "reset"} /\ ~Finishing(loop[l]) /\ Armed(loop[l])
OneTask(s) ==
    /\ \A c, d \in Conn : conn[c].sid = s /\ conn[d].sid = s => c = d
    /\ \A k, l \in Loop : loop[k].sid = s /\ loop[l].sid = s => k = l
    /\ handles[s] # None => ~Finishing(loop[handles[s]])
    /\ \A c \in Conn :
          conn[c].sid = s /\ conn[c].pc \in {"send", "picture", "await"} => handles[s] = None
    /\ \A c \in Conn, l \in Loop : conn[c].sid = s /\ loop[l].sid = s => Beside(s, conn[c], l)

(* What is offered for annotation is finished, and no task will change it.  *)
Settled(s) ==
    Offered(s) =>
       /\ Good(s) /\ handles[s] = None
       /\ \A l \in Loop : loop[l].sid = s => loop[l].pc = "end"
       /\ \A c \in Conn : conn[c].sid = s =>
             conn[c].pc \notin {"init", "ready", "degrade", "reset"}

(* The record says where metadata.json is, but while the directory is made, *)
(* after its rename, and before the sweep has seen to a snapshot's path.    *)
Adrift(s) ==
    /\ Local /\ ~reg[s].path[2] /\ InSweep
    /\ s \in boot.todo \/ (boot.pc = "rename" /\ boot.sid = s)
Home(s) ==
    HasRecord(s) =>
       \/ Adrift(s)
       \/ \E c \in Conn : conn[c].sid = s /\ conn[c].pc = "init"
       \/ \E l \in Loop : loop[l].sid = s /\ loop[l].pc = "repath"
       \/ boot.sid = s /\ boot.pc = "repath"
       \/ file[MetaPlace(s)].owner = s

(* What a task of s knows at each point.                                    *)
LoopAware(s, v) ==
    /\ v.pc \in {"connect", "arm", "begin", "capture", "drain", "complete", "interrupt"} =>
          v.mem.owner = s /\ ~Finished(v.mem)
    /\ v.pc \in {"read", "connect", "arm", "begin", "capture", "drain", "complete", "interrupt",
                 "demote", "flag", "rename"} /\ HasRecord(s) => v.place = MetaPlace(s)
    /\ v.pc = "repath" /\ HasRecord(s) =>
          v.place = Incomplete(reg[s].path) /\ file[v.place].owner = s
    /\ v.pc = "settle" /\ HasRecord(s) => Good(s)
ConnAware(s, m) ==
    /\ m.pc = "init" => HasRecord(s) /\ m.place = MetaPlace(s) /\ \A p \in Place : file[p].owner # s
    /\ m.pc \in {"finalise", "clear", "store"} /\ HasRecord(s) => m.place = MetaPlace(s)
    /\ m.pc = "clear" /\ HasRecord(s) => file[m.place].owner = s /\ Finished(file[m.place])
    /\ m.pc = "store" => m.mem.owner = s
    /\ m.pc \in {"forget", "route"} /\ HasRecord(s) => Good(s)
    /\ m.pc \in {"objects", "purge"} => ~HasRecord(s)
    /\ m.pc \in {"degrade", "reset"} => Unfinished(s)
BootAware(s) ==
    /\ boot.pc = "rename" => boot.place = reg[s].path
    /\ boot.pc = "repath" => boot.place = Incomplete(reg[s].path) /\ file[boot.place].owner = s
    /\ boot.pc = "restore" => HasRecord(s) /\ Good(s)
    /\ boot.pc \in {"objects", "purge"} => ~HasRecord(s)
StopAware(s) == stop.mem.owner = s /\ ~Finished(stop.mem)
Aware(s) ==
    /\ \A l \in Loop : loop[l].sid = s => LoopAware(s, loop[l])
    /\ \A c \in Conn : conn[c].sid = s => ConnAware(s, conn[c])
    /\ boot.sid = s => BootAware(s)
    /\ stop.sid = s => StopAware(s)

(* Progress is cleared with the status, or the message is about to.         *)
Cleared(s) ==
    \A p \in Place : file[p].owner = s /\ Finished(file[p]) =>
       \/ file[p].prog = "none"
       \/ \E c \in Conn : conn[c].sid = s /\ conn[c].pc = "clear" /\ conn[c].place = p

(* While s is being captured, or can still be, its recording is not finished. *)
Open(s) ==
    \/ handles[s] # None
    \/ \E l \in Loop : loop[l].sid = s /\ loop[l].pc \notin {"settle", "end"}
    \/ /\ boot = Serving /\ reg[s].status = "active"
       /\ \A c \in Conn : conn[c].sid = s => conn[c].pc \notin {"clear", "forget", "route"}
       /\ \A l \in Loop : loop[l].sid = s => loop[l].pc # "settle"

Orderly(s) ==
    /\ ~Issued(s) => Unborn(s)
    /\ OneTask(s) /\ Settled(s) /\ Home(s) /\ Aware(s) /\ Cleared(s)
    /\ Open(s) => Unfinished(s)
InOrder == \A s \in Session : Undisturbed(s) => Orderly(s)

(* The shapes of the tasks, taken apart.                                    *)
LEMMA LinkTypes ==
  ASSUME Shape
  PROVE  /\ loop \in [Loop -> Loops] /\ conn \in [Conn -> Messages]
         /\ handles \in [Session -> Loop \cup {None}]
         /\ \A c \in Conn : conn[c].loop \in Loop \cup {None}
         /\ \A c \in Conn : conn[c].sid \in Session \cup {None}
         /\ \A l \in Loop : loop[l].sid \in Session \cup {None}
         /\ None \notin Loop /\ None \notin Session
<1>1. loop \in [Loop -> Loops] /\ conn \in [Conn -> Messages]
      /\ handles \in [Session -> Loop \cup {None}]
  BY DEF Shape, CoreTypes
<1>2. \A c \in Conn : conn[c].loop \in Loop \cup {None} /\ conn[c].sid \in Session \cup {None}
  BY <1>1 DEF Messages
<1>3. \A l \in Loop : loop[l].sid \in Session \cup {None}
  BY <1>1 DEF Loops
<1> QED BY <1>1, <1>2, <1>3, NoneAssumption

(* What is blank.                                                           *)
LEMMA Blank ==
  /\ Idle.pc = "idle" /\ Idle.sid = None /\ Idle.loop = None
  /\ NoLoop.pc = "none" /\ NoLoop.sid = None /\ ~NoLoop.fired /\ NoLoop.mem.owner = None
  /\ NoFile.owner = None /\ NoFile.status = "none"
BY DEF Idle, Message, NoLoop, NoFile

(* Loop l goes on or ends, and messages about it are answered.              *)
LEMMA LoopTied ==
  ASSUME Shape, Links, NEW l \in Loop, UNCHANGED <<handles, stop>>,
         \A k \in Loop : k # l => loop'[k] = loop[k],
         LoopLinked(loop[l])',
         Armed(loop[l]) => loop'[l].sid = loop[l].sid /\ Armed(loop'[l]),
         \A c \in Conn : conn'[c] = conn[c] \/ conn'[c] = Idle \/ conn'[c].pc = "unstart",
         \A c \in Conn : conn'[c].pc = "ready" /\ conn'[c].loop = l =>
            loop'[l].sid = loop[l].sid /\ Starting(loop'[l])
  PROVE  Links'
<1>2. \A k \in Loop : LoopLinked(loop[k])'
  BY DEF Links, LoopLinked
<1>3. ASSUME NEW c \in Conn PROVE ConnLinked(conn[c])'
  <2>1. CASE conn'[c] = conn[c]
    BY <2>1, LinkTypes DEF Links, ConnLinked
  <2>2. CASE conn'[c] = Idle
    BY <2>2, Blank DEF ConnLinked
  <2>3. CASE conn'[c].pc = "unstart"
    BY <2>3 DEF ConnLinked
  <2> QED BY <2>1, <2>2, <2>3
<1>4. \A s \in Session : HandleLinked(s)' /\ StopLinked(s)'
  BY LinkTypes DEF Links, HandleLinked, StopLinked
<1> QED BY <1>2, <1>3, <1>4 DEF Links

(* The message on c goes on or is answered.                                 *)
LEMMA ConnTied ==
  ASSUME Shape, Links, NEW c \in Conn, UNCHANGED <<loop, handles, stop>>,
         \A d \in Conn : d # c => conn'[d] = conn[d],
         conn'[c] = Idle \/ conn'[c].pc \notin {"idle", "ready", "send", "picture", "await"},
         conn'[c].pc = "store" => ~Local
  PROVE  Links'
<1>1. \A l \in Loop : LoopLinked(loop[l])'
  BY DEF Links, LoopLinked
<1>2. \A d \in Conn : ConnLinked(conn[d])'
  BY Blank DEF Links, ConnLinked
<1>3. \A s \in Session : HandleLinked(s)' /\ StopLinked(s)'
  BY DEF Links, HandleLinked, StopLinked
<1> QED BY <1>1, <1>2, <1>3 DEF Links

(* The steps of a loop, but for those that put its handle in the map and    *)
(* take it out.                                                             *)
LEMMA LoopStartsTied ==
  ASSUME Shape, Links, NEW l \in Loop, NEW ok,
         LoopLoad(l, ok) \/ LoopReadMetadata(l, ok) \/ LoopConnect(l, ok)
  PROVE  Links'
<1>1. UNCHANGED <<handles, stop>> /\ ~Armed(loop[l]) /\ Starting(loop[l]) /\ ~loop[l].fired
  BY DEF LoopLoad, LoopReadMetadata, LoopConnect, Armed, Starting, Links, LoopLinked
<1>2. CASE LoopFails(l)
  <2>1. /\ \A k \in Loop : k # l => loop'[k] = loop[k]
        /\ loop'[l] = NoLoop
    BY <1>2, LinkTypes DEF LoopFails
  <2>2. \A c \in Conn : \/ conn'[c] = conn[c] /\ ~(conn[c].pc = "ready" /\ conn[c].loop = l)
                        \/ conn'[c].pc = "unstart"
    BY <1>2, LinkTypes DEF LoopFails, Messages
  <2>3. LoopLinked(loop[l])'
    BY <2>1, Blank DEF LoopLinked
  <2> QED BY <1>1, <2>1, <2>2, <2>3, LoopTied
<1>3. CASE UNCHANGED conn /\ (LoopLoad(l, ok) \/ LoopReadMetadata(l, ok)) /\ ~LoopFails(l)
  <2>1. /\ \A k \in Loop : k # l => loop'[k] = loop[k]
        /\ loop'[l].sid = loop[l].sid /\ loop'[l].fired = loop[l].fired
        /\ loop'[l].pc \in {"read", "connect"}
    BY <1>3, LinkTypes DEF LoopLoad, LoopReadMetadata, Loops
  <2>2. LoopLinked(loop[l])'
    BY <1>1, <2>1 DEF LoopLinked
  <2> QED BY <1>1, <1>3, <2>1, <2>2, LoopTied DEF Starting
<1>4. CASE LoopConnect(l, ok) /\ ~LoopFails(l)
  <2>1. /\ \A k \in Loop : k # l => loop'[k] = loop[k]
        /\ loop'[l].sid = loop[l].sid /\ loop'[l].fired = loop[l].fired /\ loop'[l].pc = "arm"
    BY <1>4, LinkTypes DEF LoopConnect, LoopGoto, Loops
  <2>2. \A c \in Conn : \/ conn'[c] = conn[c] /\ ~(conn[c].pc = "ready" /\ conn[c].loop = l)
                        \/ conn'[c] = Idle
    BY <1>4 DEF LoopConnect
  <2>3. LoopLinked(loop[l])'
    BY <1>1, <2>1 DEF LoopLinked
  <2> QED BY <1>1, <2>1, <2>2, <2>3, LoopTied, Blank
<1> QED BY <1>2, <1>3, <1>4 DEF LoopLoad, LoopReadMetadata

(* A loop that is over holds nothing.                                       *)
LEMMA LoopOverFields ==
  ASSUME Shape, NEW l \in Loop, loop' = LoopOver(l)
  PROVE  /\ \A k \in Loop : k # l => loop'[k] = loop[k]
         /\ loop'[l].sid = loop[l].sid /\ loop'[l].pc = "end" /\ ~loop'[l].fired
         /\ loop'[l].mem.owner = None
BY LinkTypes, Blank DEF LoopOver, NoLoop

(* What a loop does between those two keeps the links.                      *)
LEMMA LoopRunsTied ==
  ASSUME Shape, Links, NEW l \in Loop, NEW ok, NEW clean,
         \/ LoopBegin(l, ok) \/ LoopStep(l) \/ LoopStops(l, clean) \/ LoopDrain(l)
         \/ LoopComplete(l, ok) \/ LoopSettle(l, ok) \/ LoopInterrupt(l, ok)
         \/ LoopDemote(l, ok) \/ LoopFlag(l, ok) \/ LoopRename(l, ok) \/ LoopRepath(l, ok)
  PROVE  Links'
<1>1. UNCHANGED <<handles, stop, conn>> /\ Armed(loop[l]) /\ ~Starting(loop[l])
  BY DEF LoopBegin, LoopStep, LoopStops, Capturing, LoopDrain, LoopComplete, LoopSettle,
     LoopInterrupt, LoopDemote, LoopFlag, LoopRename, LoopRepath, Armed, Starting
<1>2. loop[l].fired => loop[l].pc \in {"begin", "capture"}
  BY DEF Links, LoopLinked
<1>3. /\ \A k \in Loop : k # l => loop'[k] = loop[k]
      /\ loop'[l].sid = loop[l].sid
      /\ loop'[l].pc \notin {"none", "load", "read", "connect", "arm"}
      /\ loop'[l].fired => loop'[l].pc \in {"begin", "capture"}
  <2>0. CASE LoopBegin(l, ok)
    <3>1. \E m : loop' = [loop EXCEPT ![l].pc = "capture", ![l].mem = m]
      BY <2>0 DEF LoopBegin
    <3> QED BY <3>1, <1>2, LinkTypes DEF Loops
  <2>1. CASE LoopStep(l)
    BY <2>1, <1>2 DEF LoopStep, Capturing
  <2>6. CASE LoopStops(l, clean)
    BY <2>6, LinkTypes DEF LoopStops, Loops
  <2>2. CASE LoopDrain(l) \/ LoopComplete(l, ok) \/ LoopInterrupt(l, ok) \/ LoopFlag(l, ok)
    BY <2>2, <1>2, LinkTypes DEF LoopDrain, LoopComplete, LoopInterrupt, LoopFlag, LoopGoto, Loops
  <2>3. CASE LoopSettle(l, ok) \/ LoopRepath(l, ok)
    BY <2>3, LoopOverFields DEF LoopSettle, LoopRepath
  <2>4. CASE LoopDemote(l, ok)
    BY <2>4, <1>2, LinkTypes DEF LoopDemote, LoopGoto, Loops, LoopOver, NoLoop
  <2>5. CASE LoopRename(l, ok)
    <3>1. \/ loop' = [loop EXCEPT ![l].pc = "repath", ![l].place = Incomplete(loop[l].place)]
          \/ loop' = LoopOver(l)
      BY <2>5 DEF LoopRename
    <3> QED BY <2>5, <3>1, <1>2, LinkTypes DEF LoopRename, Loops, LoopOver, NoLoop
  <2> QED BY <2>0, <2>1, <2>2, <2>3, <2>4, <2>5, <2>6
<1>4. LoopLinked(loop[l])' /\ Armed(loop'[l])
  BY <1>3 DEF LoopLinked, Armed
<1>5. \A c \in Conn : ~(conn[c].pc = "ready" /\ conn[c].loop = l)
  BY <1>1, LinkTypes DEF Links, ConnLinked
<1> QED BY <1>1, <1>3, <1>4, <1>5, LoopTied

(* A woken loop is where it was.                                            *)
LEMMA FireTied ==
  ASSUME NEW lp \in [Loop -> Loops],
         \A x \in Loop : lp[x].fired => lp[x].pc \in {"begin", "capture"},
         NEW k
  PROVE  \A x \in Loop : /\ Fire(lp, k)[x].pc = lp[x].pc /\ Fire(lp, k)[x].sid = lp[x].sid
                         /\ Fire(lp, k)[x].fired => lp[x].pc \in {"begin", "capture"}
                         /\ Fire(lp, k)[x] # lp[x] => x = k /\ lp[x].pc \in {"begin", "capture"}
                         /\ Fire(lp, k)[x].clean = lp[x].clean
                         /\ Fire(lp, k)[x].mem = lp[x].mem
                         /\ Fire(lp, k)[x].place = lp[x].place
BY DEF Fire, Loops

(* The links when loops are woken and the map changes.                      *)
LEMMA MapTied ==
  ASSUME Shape, Links,
         \A k \in Loop : LoopLinked(loop[k])',
         \A s \in Session : HandleLinked(s)', UNCHANGED stop, MapFree,
         \A c \in Conn : ConnLinked(conn[c])'
  PROVE  Links'
<1>1. stop.todo = {} /\ \A s \in Session : stop.sid # s
  BY NoneAssumption DEF MapFree, Shape, StopShape
<1> QED BY <1>1 DEF Links, StopLinked

(* LoopArm puts the handle in the map: the loop is armed by then.           *)
LEMMA LoopArmTied ==
  ASSUME Shape, Links, NEW l \in Loop, LoopArm(l)
  PROVE  Links'
<1>. DEFINE s == loop[l].sid
            lp == LoopGoto(l, "begin")
<1>0. loop[l].pc = "arm" /\ s \in Session /\ MapFree /\ UNCHANGED <<conn, stop>>
      /\ handles' = [handles EXCEPT ![s] = l] /\ loop' = Fire(lp, handles[s])
  BY LoopFacts DEF LoopArm, Running
<1>1. /\ lp \in [Loop -> Loops] /\ lp[l].pc = "begin" /\ lp[l].sid = s
      /\ lp[l].fired = loop[l].fired
      /\ \A k \in Loop : k # l => lp[k] = loop[k]
  BY LinkTypes DEF LoopGoto, Loops, LoopPCs
<1>. HIDE DEF lp
<1>2. \A k \in Loop : lp[k].fired => lp[k].pc \in {"begin", "capture"}
  BY <1>1 DEF Links, LoopLinked
<1>3. /\ \A k \in Loop : /\ loop'[k].sid = loop[k].sid
                         /\ k # l => loop'[k].pc = loop[k].pc
                         /\ loop'[k].fired => loop'[k].pc \in {"begin", "capture"}
                         /\ loop'[k].pc = "none" => loop'[k] = loop[k]
      /\ loop'[l].pc = "begin"
  <2>1. \A k \in Loop : /\ loop'[k].pc = lp[k].pc /\ loop'[k].sid = lp[k].sid
                        /\ loop'[k].fired => lp[k].pc \in {"begin", "capture"}
                        /\ loop'[k] # lp[k] => lp[k].pc \in {"begin", "capture"}
    BY <1>0, <1>1, <1>2, FireTied
  <2> QED BY <1>1, <2>1
<1>4. \A k \in Loop : LoopLinked(loop[k])'
  BY <1>0, <1>3 DEF Links, LoopLinked
<1>5. \A t \in Session : HandleLinked(t)'
  BY <1>0, <1>3, LinkTypes DEF Links, HandleLinked, Armed
<1>6. \A c \in Conn : ConnLinked(conn[c])'
  BY <1>0, <1>3, LinkTypes DEF Links, ConnLinked, Armed, Starting
<1> QED BY <1>0, <1>4, <1>5, <1>6, MapTied

(* LoopEnd takes the handle out, and whoever waits for the loop is answered. *)
LEMMA LoopEndTied ==
  ASSUME Shape, Links, NEW l \in Loop, LoopEnd(l)
  PROVE  Links'
<1>. DEFINE s == loop[l].sid
            lp == Fire(loop, handles[s])
<1>0. loop[l].pc = "end" /\ s \in Session /\ MapFree /\ UNCHANGED stop
      /\ handles' = [handles EXCEPT ![s] = None] /\ loop' = [lp EXCEPT ![l] = NoLoop]
  BY LoopFacts DEF LoopEnd, Running
<1>1. \A k \in Loop : /\ lp[k].pc = loop[k].pc /\ lp[k].sid = loop[k].sid
                      /\ lp[k].fired => loop[k].pc \in {"begin", "capture"}
                      /\ lp[k] # loop[k] => loop[k].pc \in {"begin", "capture"}
  BY LinkTypes, FireTied DEF Links, LoopLinked
<1>2. DOMAIN lp = Loop
  BY DEF Fire
<1>. HIDE DEF lp
<1>3. /\ \A k \in Loop : k # l =>
            /\ loop'[k].sid = loop[k].sid /\ loop'[k].pc = loop[k].pc
            /\ loop'[k].fired => loop'[k].pc \in {"begin", "capture"}
            /\ loop'[k].pc = "none" => loop'[k] = loop[k]
      /\ loop'[l] = NoLoop
  BY <1>0, <1>1, <1>2
<1>4. ASSUME NEW k \in Loop PROVE LoopLinked(loop[k])'
  <2>1. CASE k = l
    BY <1>3, <2>1, Blank DEF LoopLinked
  <2>2. CASE k # l
    BY <1>3, <2>2 DEF Links, LoopLinked
  <2> QED BY <2>1, <2>2
<1>5. \A t \in Session : HandleLinked(t)'
  BY <1>0, <1>3, LinkTypes DEF Links, HandleLinked, Armed
<1>6. ASSUME NEW c \in Conn PROVE ConnLinked(conn[c])'
  <2>1. CASE conn'[c] = Idle
    BY <2>1, Blank DEF ConnLinked
  <2>2. CASE conn[c].loop = l /\ conn[c].pc \in {"send", "picture"}
    <3>1. conn'[c] = [conn[c] EXCEPT !.loop = None]
      BY <2>2 DEF LoopEnd
    <3>2. conn'[c].pc \in {"send", "picture"} /\ conn'[c].loop = None
      BY <2>2, <3>1, LinkTypes DEF Messages
    <3> QED BY <3>2 DEF ConnLinked
  <2>3. CASE conn'[c] = conn[c] /\ ~(conn[c].loop = l /\ conn[c].pc \in {"await", "send", "picture"})
    <3>1. ~(conn[c].pc = "ready" /\ conn[c].loop = l)
      BY <1>0, LinkTypes DEF Links, ConnLinked, Starting
    <3> QED BY <1>3, <2>3, <3>1, LinkTypes DEF Links, ConnLinked, Armed, Starting
  <2> QED BY <2>1, <2>2, <2>3 DEF LoopEnd
<1> QED BY <1>0, <1>4, <1>5, <1>6, MapTied

(* StartWatch takes a loop nobody is tied to.                                *)
LEMMA StartTied ==
  ASSUME Shape, Links, NEW c \in Conn, NEW s \in Session, NEW l \in Loop, StartWatch(c, s, l)
  PROVE  Links'
<1>1. /\ conn' = [conn EXCEPT ![c] = Message("ready", s, l, None, FALSE)]
      /\ loop[l].pc = "none" /\ UNCHANGED <<handles, stop>>
      /\ loop' = [loop EXCEPT ![l] = [NoLoop EXCEPT !.pc = "load", !.sid = s]]
  BY DEF StartWatch, Running
<1>2. loop[l].sid = None /\ ~Armed(loop[l]) /\ ~Starting(loop[l])
  BY <1>1, Blank DEF Links, LoopLinked, Armed, Starting
<1>3. /\ loop'[l].sid = s /\ loop'[l].pc = "load" /\ ~loop'[l].fired
      /\ \A k \in Loop : k # l => loop'[k] = loop[k]
  BY <1>1, LinkTypes DEF NoLoop
<1>4. /\ conn'[c].pc = "ready" /\ conn'[c].loop = l /\ conn'[c].sid = s
      /\ \A d \in Conn : d # c => conn'[d] = conn[d]
  BY <1>1, LinkTypes DEF Message
<1>5. \A k \in Loop : LoopLinked(loop[k])'
  BY <1>3 DEF Links, LoopLinked
<1>6. ConnLinked(conn[c])'
  BY <1>3, <1>4, LinkTypes DEF ConnLinked, Starting
<1>7. \A d \in Conn : d # c => ConnLinked(conn[d])'
  BY <1>2, <1>3, <1>4, LinkTypes DEF Links, ConnLinked
<1>8. \A t \in Session : HandleLinked(t)' /\ StopLinked(t)'
  BY <1>1, <1>2, <1>3, LinkTypes DEF Links, HandleLinked, StopLinked
<1> QED BY <1>5, <1>6, <1>7, <1>8 DEF Links

(* The other messages: Done takes the handle of the session out of the map.  *)
LEMMA ReceiveTied ==
  ASSUME Shape, Links, NEW c \in Conn, NEW s \in Session, NEW n, NEW force, NEW ok,
         \/ RegisterSession(c, s, n) \/ Done(c, s)
         \/ ReasoningDegraded(c, s) \/ CircuitReset(c, s) \/ DeleteSession(c, s, force, ok)
  PROVE  Links'
<1>0. conn[c].pc = "idle" /\ conn[c] = Idle
  BY DEF RegisterSession, Done, ReasoningDegraded, CircuitReset, DeleteSession,
     Accepts, Links, ConnLinked
<1>1. CASE RegisterSession(c, s, n) \/ ReasoningDegraded(c, s) \/ CircuitReset(c, s)
  <2>1. /\ \A d \in Conn : d # c => conn'[d] = conn[d]
        /\ conn'[c].pc \in {"init", "degrade", "reset"}
    <3>1. \E pc \in {"init", "degrade", "reset"} : \E p :
            conn' = [conn EXCEPT ![c] = Message(pc, s, None, p, FALSE)]
      BY <1>1 DEF RegisterSession, ReasoningDegraded, CircuitReset
    <3> QED BY <3>1, LinkTypes DEF Message
  <2>2. UNCHANGED <<loop, handles, stop>>
    BY <1>1 DEF RegisterSession, ReasoningDegraded, CircuitReset
  <2> QED BY <2>1, <2>2, ConnTied
<1>2. CASE DeleteSession(c, s, force, ok)
  <2>1. /\ \A d \in Conn : d # c => conn'[d] = conn[d]
        /\ conn'[c].pc \in {"unhandle", "wipe"}
    BY <1>2, LinkTypes DEF DeleteSession, Message
  <2>2. UNCHANGED <<loop, handles, stop>>
    BY <1>2 DEF DeleteSession
  <2> QED BY <2>1, <2>2, ConnTied
<1>3. CASE Done(c, s)
  <2>1. /\ handles' = [handles EXCEPT ![s] = None] /\ MapFree /\ UNCHANGED <<loop, stop>>
        /\ conn' = [conn EXCEPT ![c] = Message(IF handles[s] = None THEN "lookup" ELSE "send",
                                               s, handles[s], None, FALSE)]
    BY <1>3 DEF Done
  <2>2. /\ conn'[c].pc = IF handles[s] = None THEN "lookup" ELSE "send"
        /\ conn'[c].loop = handles[s] /\ conn'[c].sid = s
        /\ \A d \in Conn : d # c => conn'[d] = conn[d]
    BY <2>1, LinkTypes DEF Message
  <2>3. \A k \in Loop : LoopLinked(loop[k])'
    BY <2>1 DEF Links, LoopLinked
  <2>4. \A d \in Conn : d # c => ConnLinked(conn[d])'
    BY <2>1, <2>2 DEF Links, ConnLinked
  <2>5. ConnLinked(conn[c])'
    <3>1. CASE handles[s] = None
      BY <2>2, <3>1 DEF ConnLinked
    <3>2. CASE handles[s] # None
      <4>1. loop[handles[s]].sid = s /\ Armed(loop[handles[s]])
        BY <3>2 DEF Links, HandleLinked
      <4>2. conn'[c].pc = "send" /\ conn'[c].loop = handles[s] /\ conn'[c].sid = s /\ loop' = loop
        BY <2>1, <2>2, <3>2
      <4>3. Armed(loop'[conn'[c].loop]) /\ loop'[conn'[c].loop].sid = conn'[c].sid
        BY <4>1, <4>2
      <4> QED BY <4>2, <4>3 DEF ConnLinked, Armed
    <3> QED BY <3>1, <3>2
  <2>6. \A t \in Session : HandleLinked(t)'
    BY <2>1, LinkTypes DEF Links, HandleLinked
  <2> QED BY <2>1, <2>3, <2>4, <2>5, <2>6, MapTied
<1> QED BY <1>1, <1>2, <1>3

(* The handlers that hold the map change it and the loop together.          *)
LEMMA ConnRunsTied ==
  ASSUME Shape, Links, NEW c \in Conn, ConnNext(c)
  PROVE  Links'
<1>1. CASE SendDone(c)
  <2>. DEFINE k == conn[c].loop
  <2>1. \A x \in Loop : /\ loop'[x].pc = loop[x].pc /\ loop'[x].sid = loop[x].sid
                        /\ loop'[x].fired => loop[x].pc \in {"begin", "capture"}
                        /\ loop'[x] # loop[x] => loop[x].pc \in {"begin", "capture"}
    BY <1>1, LinkTypes, FireTied DEF Links, LoopLinked, SendDone
  <2>2. \A x \in Loop : LoopLinked(loop[x])'
    BY <2>1 DEF Links, LoopLinked
  <2>3. \A d \in Conn : d # c => ConnLinked(conn[d])'
    <3>1. \A d \in Conn : d # c => conn'[d] = conn[d]
      BY <1>1 DEF SendDone, Awaits, Reply, Goto
    <3> QED BY <2>1, <3>1, LinkTypes DEF Links, ConnLinked, Armed, Starting
  <2>4. ConnLinked(conn[c])'
    <3>1. CASE conn'[c] = Idle
      BY <3>1, Blank DEF ConnLinked
    <3>2. CASE k # None
      <4>1. /\ conn'[c].pc \in {"picture", "await"}
            /\ conn'[c].loop = k /\ conn'[c].sid = conn[c].sid
        BY <1>1, <3>2, LinkTypes DEF SendDone, Awaits, Goto, Messages
      <4>2. loop[k].sid = conn[c].sid /\ Armed(loop[k])
        BY <1>1, <3>2 DEF Links, ConnLinked, SendDone
      <4> QED BY <2>1, <3>2, <4>1, <4>2, LinkTypes DEF ConnLinked, Armed
    <3>3. CASE conn' = Goto(c, "picture") /\ k = None
      <4>1. conn'[c].pc = "picture" /\ conn'[c].loop = None
        BY <3>3, LinkTypes DEF Goto, Messages
      <4> QED BY <4>1 DEF ConnLinked
    <3> QED BY <1>1, <3>1, <3>2, <3>3, LinkTypes DEF SendDone, Awaits, Reply
  <2>5. \A s \in Session : HandleLinked(s)' /\ StopLinked(s)'
    BY <1>1, <2>1, LinkTypes DEF Links, HandleLinked, StopLinked, Armed, SendDone
  <2> QED BY <2>2, <2>3, <2>4, <2>5 DEF Links
<1>2. CASE DropHandle(c)
  <2>0. conn' = Goto(c, "wipe") /\ handles' = [handles EXCEPT ![conn[c].sid] = None] /\ MapFree
        /\ UNCHANGED stop
    BY <1>2 DEF DropHandle
  <2>1. \A x \in Loop : /\ loop'[x].pc = loop[x].pc /\ loop'[x].sid = loop[x].sid
                        /\ loop'[x].fired => loop[x].pc \in {"begin", "capture"}
                        /\ loop'[x] # loop[x] => loop[x].pc \in {"begin", "capture"}
    BY <1>2, LinkTypes, FireTied DEF Links, LoopLinked, DropHandle
  <2>2. \A x \in Loop : LoopLinked(loop[x])'
    BY <2>1 DEF Links, LoopLinked
  <2>3. (\A d \in Conn : d # c => conn'[d] = conn[d]) /\ conn'[c].pc = "wipe"
    BY <2>0, LinkTypes DEF Goto, Messages
  <2>4. \A d \in Conn : ConnLinked(conn[d])'
    BY <2>1, <2>3, LinkTypes DEF Links, ConnLinked, Armed, Starting
  <2>5. \A s \in Session : HandleLinked(s)'
    BY <2>0, <2>1, LinkTypes DEF Links, HandleLinked, Armed
  <2> QED BY <2>0, <2>2, <2>4, <2>5, MapTied
<1>3. CASE UNCHANGED <<loop, handles, stop>> /\ \E m :
              /\ conn' = [conn EXCEPT ![c] = m]
              /\ m = Idle \/ m.pc \notin {"idle", "ready", "send", "picture", "await", "store"}
  <2>1. PICK m : /\ conn' = [conn EXCEPT ![c] = m]
                 /\ m = Idle \/ m.pc \notin {"idle", "ready", "send", "picture", "await", "store"}
    BY <1>3
  <2>2. conn'[c] = m /\ \A d \in Conn : d # c => conn'[d] = conn[d]
    BY <2>1, LinkTypes
  <2> QED BY <1>3, <2>1, <2>2, ConnTied, Blank
<1>4. ASSUME NEW pc, pc \notin {"idle", "ready", "send", "picture", "await", "store"}
      PROVE  \E m : Goto(c, pc) = [conn EXCEPT ![c] = m] /\ m.pc = pc
  <2>1. Goto(c, pc) = [conn EXCEPT ![c] = [conn[c] EXCEPT !.pc = pc]]
    BY LinkTypes DEF Goto
  <2>2. [conn[c] EXCEPT !.pc = pc].pc = pc
    BY LinkTypes DEF Messages
  <2> QED BY <2>1, <2>2
<1>5. ASSUME NEW ok, NEW uploaded,
             \/ InitialiseDir(c, ok, uploaded) \/ GiveUp(c, ok) \/ RouteDirect(c, ok)
             \/ MarkComplete(c, ok) \/ ClearInProgress(c, ok) \/ SetReasoningStatus(c, ok)
             \/ DeleteRecord(c, ok) \/ DeleteObjects(c, ok) \/ PurgeDir(c, ok)
      PROVE  Links'
  <2>1. /\ UNCHANGED <<loop, handles, stop>>
        /\ conn' = Reply(c) \/ \E pc \in {"rollback", "clear", "forget", "objects", "purge"} :
                                  conn' = Goto(c, pc)
    BY <1>5 DEF InitialiseDir, GiveUp, RouteDirect, MarkComplete, ClearInProgress,
       SetReasoningStatus, DeleteRecord, DeleteObjects, PurgeDir
  <2>2. CASE conn' = Reply(c)
    BY <1>3, <2>1, <2>2 DEF Reply
  <2>3. ASSUME NEW pc \in {"rollback", "clear", "forget", "objects", "purge"}, conn' = Goto(c, pc)
        PROVE  Links'
    BY <1>3, <1>4, <2>1, <2>3
  <2> QED BY <2>1, <2>2, <2>3
<1>6. ASSUME NEW ok,
             LookUp(c, ok) \/ FetchObject(c, ok) \/ StoreComplete(c, ok) \/ ForgetDegraded(c)
      PROVE  Links'
  <2>1. /\ UNCHANGED <<loop, handles, stop>>
        /\ \A d \in Conn : d # c => conn'[d] = conn[d]
    BY <1>6, LinkTypes DEF LookUp, FetchObject, StoreComplete, ForgetDegraded, Goto, Reply
  <2>2. conn'[c] = Idle \/ conn'[c].pc \in {"finalise", "forget", "route"}
        \/ (conn'[c].pc = "store" /\ ~Local)
    BY <1>6, LinkTypes DEF LookUp, FetchObject, StoreComplete, ForgetDegraded, Goto, Reply, Messages
  <2> QED BY <2>1, <2>2, ConnTied, Blank
<1>7. CASE ClosingImage(c)
  <2>. DEFINE k == conn[c].loop
  <2>1. conn[c].pc = "picture" /\ UNCHANGED <<loop, handles, stop>> /\ conn' = Awaits(c)
    BY <1>7 DEF ClosingImage
  <2>2. CASE k = None
    <3>1. conn' = Reply(c)
      BY <2>1, <2>2 DEF Awaits
    <3> QED BY <1>3, <2>1, <3>1 DEF Reply
  <2>3. CASE k # None
    <3>1. /\ conn'[c].pc = "await" /\ conn'[c].loop = k /\ conn'[c].sid = conn[c].sid
          /\ \A d \in Conn : d # c => conn'[d] = conn[d]
      BY <2>1, <2>3, LinkTypes DEF Awaits, Goto, Messages
    <3>2. loop[k].sid = conn[c].sid /\ Armed(loop[k])
      BY <2>1, <2>3 DEF Links, ConnLinked
    <3>3. \A d \in Conn : ConnLinked(conn[d])'
      BY <2>1, <2>3, <3>1, <3>2 DEF Links, ConnLinked
    <3>4. \A s \in Session : HandleLinked(s)' /\ StopLinked(s)'
      BY <2>1 DEF Links, HandleLinked, StopLinked
    <3>5. \A l \in Loop : LoopLinked(loop[l])'
      BY <2>1 DEF Links, LoopLinked
    <3> QED BY <3>3, <3>4, <3>5 DEF Links
  <2> QED BY <2>2, <2>3
<1> QED BY <1>1, <1>2, <1>5, <1>6, <1>7 DEF ConnNext

(* Start-up is alone: it starts no task.                                    *)
LEMMA SweepsAlone ==
  ASSUME BootNext
  PROVE  UNCHANGED <<loop, handles, conn, stop>>
<1>1. ASSUME NEW ok, NEW s, NEW replayed, SweepActive(s, ok, replayed)
      PROVE  UNCHANGED <<loop, handles, conn, stop>>
  BY <1>1 DEF SweepActive
<1>2. ASSUME NEW ok, SweepRename(ok) \/ SweepRepath(ok) \/ SweepStatus(ok) \/ RetireObjects(ok)
                     \/ RetireDir(ok)
      PROVE  UNCHANGED <<loop, handles, conn, stop>>
  BY <1>2 DEF SweepRename, SweepRepath, SweepStatus, RetireObjects, RetireDir
<1>3. ASSUME NEW ok, NEW s, NEW old, \/ Reconcile(s, ok) \/ RetireRecord(s, ok) \/ StartReconcile
                                     \/ Serve \/ StartRetention(old)
      PROVE  UNCHANGED <<loop, handles, conn, stop>>
  BY <1>3 DEF Reconcile, RetireRecord, StartReconcile, Serve, StartRetention
<1> QED BY <1>1, <1>2, <1>3 DEF BootNext

(* The signal handler takes the sessions with a handle; death ends all tasks. *)
LEMMA ProcessTied ==
  ASSUME Shape, Links, BootNext \/ Signal \/ SignalNext \/ \E r : Dies(r)
  PROVE  Links'
<1>1. CASE UNCHANGED <<loop, conn, handles, stop>>
  BY <1>1 DEF Links, LoopLinked, ConnLinked, HandleLinked, StopLinked
<1>2. CASE BootNext
  BY <1>1, <1>2, SweepsAlone
<1>3. CASE UNCHANGED <<loop, conn, handles>> /\ \A s \in Session : StopLinked(s)'
  BY <1>3 DEF Links, LoopLinked, ConnLinked, HandleLinked
<1>4. CASE Signal
  <2>1. stop'.todo = {s \in Session : handles[s] # None} /\ stop'.sid = None
    BY <1>4 DEF Signal, NoSignal
  <2> QED BY <1>3, <1>4, <2>1, NoneAssumption DEF Signal, StopLinked
<1>5. ASSUME NEW ok, NEW s \in Session, FlagInterrupted(s, ok) \/ StoreInterrupted(ok) PROVE Links'
  <2>1. stop \in [on : BOOLEAN, todo : SUBSET Session, sid : Session \cup {None},
                  mem : Meta \cup {NoFile}]
    BY DEF Shape, CoreTypes
  <2>2. stop'.todo \subseteq stop.todo /\ (stop'.sid = None \/ stop'.sid \in stop.todo)
    BY <1>5, <2>1 DEF FlagInterrupted, StoreInterrupted
  <2>3. UNCHANGED <<loop, conn, handles>>
    BY <1>5 DEF FlagInterrupted, StoreInterrupted
  <2> QED BY <1>3, <2>2, <2>3, NoneAssumption DEF Links, StopLinked
<1>6. ASSUME NEW r, Dies(r) PROVE Links'
  <2>1. /\ \A l \in Loop : loop'[l] = NoLoop
        /\ \A c \in Conn : conn'[c] = Idle
        /\ \A s \in Session : handles'[s] = None
        /\ stop'.todo = {} /\ stop'.sid = None
    BY <1>6 DEF Dies, NoSignal
  <2> QED BY <2>1, Blank, NoneAssumption DEF Links, LoopLinked, ConnLinked, HandleLinked, StopLinked
<1>7. CASE SignalNext
  <2>1. CASE Exit
    BY <1>6, <2>1 DEF Exit
  <2>2. ASSUME NEW ok, StoreInterrupted(ok) PROVE Links'
    <3>1. PICK s \in Session : s = stop.sid
      BY <2>2 DEF StoreInterrupted, Shape, CoreTypes
    <3> QED BY <1>5, <2>2
  <2> QED BY <1>5, <1>7, <2>1, <2>2 DEF SignalNext
<1> QED BY <1>2, <1>4, <1>6, <1>7

-----------------------------------------------------------------------------
(* The marks that excuse a session are kept.                                *)
Marked == {"raced", "mixed", "stale", "failed", "torn"} \subseteq Tracked
HistGrows == \A s \in Session : hist[s] \subseteq hist'[s] /\ (Issued(s)' => Issued(s))

(* A mark more.                                                             *)
LEMMA MarkGrows ==
  ASSUME Shape, NEW t \in Session, NEW ms, "issued" \notin ms, hist' = hist \/ hist' = Mark(t, ms)
  PROVE  HistGrows /\ (hist' = Mark(t, ms) => ms \cap Tracked \subseteq hist'[t])
BY DEF Shape, CoreTypes, Mark, HistGrows, Issued

(* Two sessions mixed, after a mark.                                        *)
LEMMA MixesMark ==
  ASSUME NEW h \in [Session -> SUBSET Marks], NEW s \in Session, NEW t \in Session,
         "mixed" \in Tracked
  PROVE  "mixed" \in Mixes(h, s, t)[s] /\ "mixed" \in Mixes(h, s, t)[t]
<1>. DEFINE g == [h EXCEPT ![s] = @ \cup ({"mixed"} \cap Tracked)]
<1>1. g \in [Session -> SUBSET (Marks \cup {"mixed"})] /\ "mixed" \in g[s]
  OBVIOUS
<1>2. Mixes(h, s, t) = [g EXCEPT ![t] = @ \cup ({"mixed"} \cap Tracked)]
  BY DEF Mixes
<1>. HIDE DEF g
<1> QED BY <1>1, <1>2

(* What a call that may fail, on a file that may be another's, leaves in    *)
(* the history.                                                             *)
LEMMA OutcomeMarks ==
  ASSUME Shape, Marked, NEW t \in Session, NEW ok \in BOOLEAN, hist' = Outcome(t, ok)
  PROVE  HistGrows /\ (Undisturbed(t)' => ok)
<1>1. HistGrows
  BY MarkGrows DEF Outcome
<1>2. CASE ~ok
  <2>1. hist' = Mark(t, {"failed"})
    BY <1>2 DEF Outcome
  <2>2. "failed" \in hist'[t]
    BY <2>1, MarkGrows DEF Marked
  <2> QED BY <1>1, <2>2 DEF Undisturbed
<1> QED BY <1>1, <1>2

(* Two sessions that meet in one directory are both marked, and so is a failure. *)
LEMMA WorksMarks ==
  ASSUME Shape, Marked, NEW t \in Session, NEW p \in Place, NEW ok \in BOOLEAN,
         hist' = Works(t, p, ok)
  PROVE  /\ HistGrows
         /\ Undisturbed(t)' => ok /\ file[p].owner \in {None, t}
         /\ file[p].owner \in {None, t} \/ "mixed" \in hist'[file[p].owner]
<1>. DEFINE o == file[p].owner
<1>1. CASE o \in {None, t}
  BY <1>1, OutcomeMarks DEF Works
<1>2. CASE o \notin {None, t}
  <2>1. o \in Session
    BY <1>2, FilesTyped
  <2>2. hist' = Mixes(Outcome(t, ok), t, o) /\ Outcome(t, ok) \in [Session -> SUBSET Marks]
    BY <1>2, HistTyped DEF Works, Shape
  <2>3. "mixed" \in hist'[t] /\ "mixed" \in hist'[o]
    BY <2>1, <2>2, MixesMark DEF Marked
  <2>4. \A x \in Session : /\ hist[x] \subseteq Outcome(t, ok)[x]
                           /\ Outcome(t, ok)[x] \subseteq hist[x] \cup {"failed"}
    BY DEF Outcome, Mark, Shape, CoreTypes
  <2>5. HistGrows
    BY <2>2, <2>4, MixesGrow DEF HistGrows, Issued
  <2> QED BY <2>3, <2>5 DEF Undisturbed, Mixed
<1> QED BY <1>1, <1>2

(* The messages that find another task at work on their session.            *)
LEMMA ArrivalMarks ==
  ASSUME Shape, Marked, NEW t \in Session,
         hist' = Arrives(t) \/ hist' = Interrupts(t) \/ hist' = Starts(t) \/ hist' = Reports(t)
  PROVE  /\ HistGrows
         /\ Undisturbed(t)' /\ hist' = Arrives(t) => Quiet(t)
         /\ Undisturbed(t)' /\ hist' = Interrupts(t) => Free(t)
         /\ Undisturbed(t)' /\ hist' = Starts(t) => Free(t) /\ reg[t].status = "active"
         /\ Undisturbed(t)' /\ hist' = Reports(t) => Quiet(t) /\ \E l \in Loop : loop[l].sid = t
<1>1. HistGrows
  BY MarkGrows DEF Arrives, Interrupts, Starts, Reports
<1>2. ASSUME NEW ms, "raced" \in ms, "issued" \notin ms, hist' = Mark(t, ms) PROVE ~Undisturbed(t)'
  BY <1>2, MarkGrows DEF Marked, Undisturbed
<1> QED BY <1>1, <1>2 DEF Arrives, Interrupts, Starts, Reports

(* An earlier session is not disturbed when a later one is not.             *)
LEMMA StillUndisturbed ==
  ASSUME HistGrows, NEW s \in Session, Undisturbed(s)'
  PROVE  Undisturbed(s)
BY DEF HistGrows, Undisturbed

-----------------------------------------------------------------------------
(* A step that leaves session s alone.                                      *)
Elsewhere(s) ==
    /\ reg'[s] = reg[s] /\ handles'[s] = handles[s] /\ (Issued(s)' <=> Issued(s))
    /\ \A p \in Place : s \in {file[p].owner, file'[p].owner} => file'[p] = file[p]
    /\ \A l \in Loop : s \in {loop[l].sid, loop'[l].sid} => loop'[l] = loop[l]
    /\ \A c \in Conn : s \in {conn[c].sid, conn'[c].sid} => conn'[c] = conn[c]
    /\ stop'.sid = s => stop.sid = s /\ stop'.mem = stop.mem

(* A session that a step leaves alone stays in order.                       *)
LEMMA ElsewhereKeeps ==
  ASSUME Shape, Links, NEW s \in Session, Orderly(s), Elsewhere(s), UNCHANGED boot
  PROVE  Orderly(s)'
<1>0. reg'[s] = reg[s] /\ MetaPlace(s)' = MetaPlace(s) /\ (HasRecord(s)' <=> HasRecord(s))
      /\ handles'[s] = handles[s]
  BY DEF Elsewhere, MetaPlace, HasRecord
<1>1. /\ HasRecord(s) => MetaPlace(s) \in Place
      /\ Offered(s) => HasRecord(s)
      /\ handles[s] # None => loop[handles[s]].sid = s /\ handles[s] \in Loop
  BY MetaPlaceTyped, LinkTypes DEF Shape, Offered, HasRecord, NoRecord, Links, HandleLinked
<1>2. HasRecord(s) => (Good(s) => Good(s)')
  BY <1>0, <1>1 DEF Good, Elsewhere, Finished
<1>3. Unfinished(s) => Unfinished(s)'
  BY DEF Unfinished, Elsewhere, Finished
<1>4. (~Issued(s) => Unborn(s))'
  BY <1>0 DEF Orderly, Unborn, Elsewhere
<1>5. OneTask(s)'
  <2>1. \A c \in Conn, l \in Loop :
          (conn[c].sid = s /\ loop[l].sid = s => Beside(s, conn[c], l))'
    BY DEF Orderly, OneTask, Elsewhere, Beside, Finishing, Armed
  <2>2. handles'[s] # None => ~Finishing(loop'[handles'[s]])
    BY <1>0, <1>1 DEF Orderly, OneTask, Elsewhere, Finishing
  <2> QED BY <1>0, <2>1, <2>2 DEF Orderly, OneTask, Elsewhere, Finishing
<1>6. Settled(s)'
  BY <1>0, <1>1, <1>2 DEF Orderly, Settled, Elsewhere, Offered
<1>7. Home(s)'
  <2>1. Adrift(s) => Adrift(s)'
    BY <1>0 DEF Adrift, InSweep
  <2> QED BY <1>0, <1>1, <2>1 DEF Orderly, Home, Elsewhere
<1>8. ASSUME NEW l \in Loop, loop'[l].sid = s PROVE LoopAware(s, loop[l])'
  <2>1. loop'[l] = loop[l] /\ LoopAware(s, loop[l]) /\ LoopOK(loop[l])
    BY <1>8 DEF Orderly, Aware, Elsewhere, Shape
  <2>2. loop[l].pc = "repath" => loop[l].place \in Place
    BY <2>1 DEF LoopOK
  <2> QED BY <1>0, <1>2, <2>1, <2>2 DEF LoopAware, Elsewhere, Finished
<1>9. ASSUME NEW c \in Conn, conn'[c].sid = s PROVE ConnAware(s, conn[c])'
  <2>1. conn'[c] = conn[c] /\ ConnAware(s, conn[c]) /\ ConnOK(conn[c])
    BY <1>9 DEF Orderly, Aware, Elsewhere, Shape
  <2>2. conn[c].pc = "clear" => conn[c].place \in Place
    BY <2>1 DEF ConnOK
  <2> QED BY <1>0, <1>2, <1>3, <2>1, <2>2 DEF ConnAware, Elsewhere, Finished
<1>10. (boot.sid = s => BootAware(s))'
  <2>1. boot.pc = "repath" => boot.place \in Place
    BY Places DEF Shape, BootShape
  <2> QED BY <1>0, <1>2, <2>1 DEF Orderly, Aware, BootAware, Elsewhere
<1>11. (stop.sid = s => StopAware(s))'
  BY DEF Orderly, Aware, StopAware, Elsewhere, Finished
<1>12. Cleared(s)'
  BY DEF Orderly, Cleared, Elsewhere, Finished
<1>13. (Open(s) => Unfinished(s))'
  BY <1>0, <1>3 DEF Orderly, Open, Elsewhere
<1> QED BY <1>4, <1>5, <1>6, <1>7, <1>8, <1>9, <1>10, <1>11, <1>12, <1>13 DEF Orderly, Aware

-----------------------------------------------------------------------------
(* A step of a task of session t: what belongs to other sessions stays, or  *)
(* its session is mixed with t.                                             *)
Claims(t, o) == o \in {None, t} \/ "mixed" \in hist'[o]
FilesClaimed(t) ==
    \A p \in Place :
        file'[p] = file[p] \/ (Claims(t, file[p].owner) /\ Claims(t, file'[p].owner))
TasksOf(t) ==
    /\ \A l \in Loop :
          loop'[l] = loop[l] \/ (loop[l].sid \in {t, None} /\ loop'[l].sid \in {t, None})
    /\ \A c \in Conn :
          conn'[c] = conn[c] \/ (conn[c].sid \in {t, None} /\ conn'[c].sid \in {t, None})
MapsOf(t) ==
    \A s \in Session : s # t => /\ reg'[s] = reg[s] /\ handles'[s] = handles[s]
                                /\ stop'.sid = s => stop.sid = s /\ stop'.mem = stop.mem
Private(t) ==
    /\ \A s \in Session : hist[s] \subseteq hist'[s] /\ (s # t => (Issued(s)' => Issued(s)))
    /\ UNCHANGED boot
    /\ FilesClaimed(t) /\ TasksOf(t) /\ MapsOf(t)

(* All that is known before a step.                                         *)
Stage ==
    /\ Shape /\ Links /\ MixedCopy /\ NoOrphanLoop /\ InOrder
    /\ ~Local => Keyed

(* So a step of a task of t is a matter of t alone.                         *)
LEMMA PrivateKeeps ==
  ASSUME Stage, NEW t \in Session, Private(t), Undisturbed(t)' => Orderly(t)'
  PROVE  InOrder'
<1> SUFFICES ASSUME NEW s \in Session, s # t, Undisturbed(s)' PROVE Orderly(s)'
  BY DEF InOrder
<1>1. Undisturbed(s) /\ (Issued(s)' <=> Issued(s))
  BY DEF Private, Undisturbed, Issued
<1>2. \A p \in Place : s \in {file[p].owner, file'[p].owner} => file'[p] = file[p]
  <2>1. ~Claims(t, s)
    BY NoneAssumption DEF Claims, Undisturbed
  <2> QED BY <2>1 DEF Private, FilesClaimed
<1>3. Elsewhere(s)
  BY <1>1, <1>2, NoneAssumption DEF Elsewhere, Private, TasksOf, MapsOf
<1> QED BY <1>1, <1>3, ElsewhereKeeps DEF InOrder, Stage, Private

(* A task that works on metadata.json at p writes its session's, or a copy  *)
(* of a mixed one.                                                          *)
LEMMA WorksClaim ==
  ASSUME Stage, Marked, NEW t \in Session, NEW p \in Place, NEW ok \in BOOLEAN,
         hist' = Works(t, p, ok), \A q \in Place : q # p => file'[q] = file[q],
         file'[p] = file[p] \/ file'[p].owner \in {None, t, file[p].owner}
         \/ (file'[p].owner \in Session /\ Mixed(file'[p].owner))
  PROVE  FilesClaimed(t)
<1>1. HistGrows /\ Claims(t, file[p].owner)
  BY WorksMarks DEF Stage, Claims
<1>2. file'[p] = file[p] \/ Claims(t, file'[p].owner)
  BY <1>1 DEF HistGrows, Claims, Mixed
<1> QED BY <1>1, <1>2 DEF FilesClaimed

-----------------------------------------------------------------------------
(* Loop l of session t, when t is in order.  A message beside it is one of  *)
(* these.                                                                   *)
Together == {"ready", "await", "picture", "send", "degrade", "reset"}
LEMMA LoopKnown ==
  ASSUME Shape, Links, NEW l \in Loop, NEW t \in Session, loop[l].sid = t, Orderly(t)
  PROVE  /\ boot = Serving /\ boot.sid # t /\ ~InSweep /\ Issued(t)
         /\ \A k \in Loop : loop[k].sid = t => k = l
         /\ handles[t] \in {None, l}
         /\ loop[l].pc # "end" => ~Offered(t)
         /\ loop[l].pc \notin {"end", "settle"} => Unfinished(t)
         /\ \A c \in Conn : conn[c].sid = t =>
               conn[c].pc \in Together
         /\ HasRecord(t) /\ loop[l].pc # "repath" =>
               file[MetaPlace(t)].owner = t /\ MetaPlace(t) \in Place
<1>1. Running(l)
  BY Blank, NoneAssumption DEF Running, Links, LoopLinked
<1>2. boot = Serving /\ boot.sid # t /\ ~InSweep
  <2>1. boot = Serving
    BY <1>1, LoopFacts
  <2>2. Serving.sid = None /\ Serving.pc = "serving"
    BY DEF Serving, Boot
  <2> QED BY <2>1, <2>2, NoneAssumption DEF InSweep
<1>3. \A k \in Loop : loop[k].sid = t => k = l
  BY DEF Orderly, OneTask
<1>4. handles[t] \in {None, l}
  BY <1>3, LinkTypes DEF Links, HandleLinked
<1>5. \A c \in Conn :
         conn[c].sid = t => conn[c].pc \in Together
  BY DEF Orderly, OneTask, Beside, Together
<1>6. loop[l].pc # "end" => ~Offered(t)
  BY DEF Orderly, Settled
<1>7. loop[l].pc \notin {"end", "settle"} => Unfinished(t)
  BY DEF Orderly, Open
<1>8. HasRecord(t) /\ loop[l].pc # "repath" =>
         file[MetaPlace(t)].owner = t /\ MetaPlace(t) \in Place
  BY <1>2, <1>3, <1>5, MetaPlaceTyped DEF Orderly, Home, Adrift, Shape, Together
<1>9. Issued(t)
  BY DEF Orderly, Unborn
<1> QED BY <1>2, <1>3, <1>4, <1>5, <1>6, <1>7, <1>8, <1>9

(* It goes on.                                                              *)
LEMMA LoopOwn ==
  ASSUME Shape, Links, NEW l \in Loop, NEW t \in Session, loop[l].sid = t, Orderly(t),
         Issued(t)', UNCHANGED <<handles, boot, stop>>,
         \A k \in Loop : k # l => loop'[k] = loop[k],
         \A c \in Conn : conn'[c] = conn[c] \/ conn'[c] = Idle,
         loop'[l].sid = t, Finishing(loop'[l]) => Finishing(loop[l]),
         Armed(loop[l]) => Armed(loop'[l]),
         Finishing(loop[l]) \/ Unfinished(t)',
         Settled(t)', Home(t)', LoopAware(t, loop[l])', Cleared(t)', (Open(t) => Unfinished(t))'
  PROVE  Orderly(t)'
<1>1. OneTask(t)'
  <2>1. \A k \in Loop : loop'[k].sid = t => k = l
    BY LoopKnown
  <2>2. ASSUME NEW c \in Conn, conn'[c].sid = t PROVE conn'[c] = conn[c]
    BY <2>2, Blank, NoneAssumption
  <2>3. ASSUME NEW c \in Conn, conn'[c].sid = t PROVE Beside(t, conn[c], l)'
    BY <2>2, <2>3 DEF Orderly, OneTask, Beside
  <2>4. handles'[t] # None => ~Finishing(loop'[handles'[t]])
    BY LoopKnown DEF Orderly, OneTask
  <2> QED BY <2>1, <2>2, <2>3, <2>4, LoopKnown DEF Orderly, OneTask, Beside, Finishing, Armed
<1>2. Aware(t)'
  <2>1. \A k \in Loop : (loop[k].sid = t => LoopAware(t, loop[k]))'
    <3>1. \A k \in Loop : loop'[k].sid = t => k = l
      BY LoopKnown
    <3> QED BY <3>1
  <2>2. ASSUME NEW c \in Conn, conn'[c].sid = t PROVE ConnAware(t, conn[c])'
    <3>1. conn'[c] = conn[c]
      BY <2>2, Blank, NoneAssumption
    <3>2. conn[c].pc \in Together
      BY <2>2, <3>1, LoopKnown
    <3>3. conn[c].pc \in {"degrade", "reset"} => Unfinished(t)'
      BY <2>2, <3>1 DEF Orderly, OneTask, Beside
    <3> QED BY <3>1, <3>2, <3>3 DEF ConnAware, Together
  <2>3. boot'.sid # t
    BY LoopKnown
  <2> QED BY <2>1, <2>2, <2>3 DEF Aware, Orderly, StopAware
<1> QED BY <1>1, <1>2 DEF Orderly

(* It goes on with a recording that is not finished.                        *)
LEMMA LoopRecords ==
  ASSUME Shape, Links, NEW l \in Loop, NEW t \in Session, loop[l].sid = t, Orderly(t),
         Issued(t)', UNCHANGED <<handles, boot, stop>>,
         \A k \in Loop : k # l => loop'[k] = loop[k],
         \A c \in Conn : conn'[c] = conn[c] \/ conn'[c] = Idle,
         loop[l].pc \notin {"settle", "end", "repath"},
         loop'[l].sid = t, Finishing(loop'[l]) => Finishing(loop[l]),
         Armed(loop[l]) => Armed(loop'[l]), LoopAware(t, loop[l])',
         reg'[t] = reg[t] \/ (reg'[t].path = reg[t].path /\ reg'[t].status = "incomplete"
                              /\ HasRecord(t)),
         \A p \in Place : file'[p] = file[p] \/ (file'[p].owner = t /\ ~Finished(file'[p]))
  PROVE  Orderly(t)'
<1>1. Unfinished(t)'
  BY LoopKnown DEF Unfinished, Finished
<1>2. ~Offered(t)'
  BY LoopKnown DEF Offered
<1>3. HasRecord(t)' => HasRecord(t)
  BY DEF HasRecord
<1>4. Home(t)'
  BY <1>3, LoopKnown DEF Home, MetaPlace
<1>5. Cleared(t)'
  BY <1>1 DEF Cleared, Unfinished, Finished
<1> QED BY <1>1, <1>2, <1>4, <1>5, LoopOwn DEF Settled

-----------------------------------------------------------------------------
(* A step of loop l is a step of its session's.                             *)
LEMMA LoopStage ==
  ASSUME Stage, NEW l \in Loop, Running(l)
  PROVE  /\ Shape /\ Links /\ boot = Serving
         /\ loop[l].sid \in Session /\ LoopOK(loop[l]) /\ loop[l] \in Loops
         /\ loop[l].mem.owner \in {None, loop[l].sid}
            \/ (loop[l].mem.owner \in Session /\ Mixed(loop[l].mem.owner))
         /\ Undisturbed(loop[l].sid) => Orderly(loop[l].sid) /\ LoopAware(loop[l].sid, loop[l])
<1>1. Shape /\ Links /\ loop[l].sid \in Session /\ boot = Serving /\ LoopOK(loop[l])
      /\ loop[l] \in Loops
  BY LoopFacts DEF Stage
<1>2. loop[l].mem.owner \in Session \cup {None}
  BY <1>1, DirTypes
<1>3. Undisturbed(loop[l].sid) => Orderly(loop[l].sid) /\ LoopAware(loop[l].sid, loop[l])
  BY <1>1 DEF Stage, InOrder, Orderly, Aware
<1> QED BY <1>1, <1>2, <1>3 DEF Stage, MixedCopy

(* What a loop of t does to files, records and tasks is t's own.            *)
LEMMA LoopPrivate ==
  ASSUME Stage, NEW l \in Loop, NEW t \in Session, loop[l].sid = t, HistGrows, FilesClaimed(t),
         \A k \in Loop : k # l => loop'[k] = loop[k], loop'[l].sid \in {t, None},
         \A c \in Conn : conn'[c] = conn[c] \/ (conn[c].sid = t /\ conn'[c].sid \in {t, None}),
         \A s \in Session : s # t => reg'[s] = reg[s], UNCHANGED <<handles, boot, stop>>
  PROVE  Private(t)
BY DEF Private, TasksOf, MapsOf, HistGrows

(* What is not written belongs to whom it did.                              *)
LEMMA SameFiles == UNCHANGED file => \A t : FilesClaimed(t)
BY DEF FilesClaimed

(* The answer to the StartWatch that waits is about the same session.       *)
Answered(l, c) ==
    /\ conn[c].pc = "ready" /\ conn[c].sid = loop[l].sid
    /\ \/ conn'[c] = Idle
       \/ LoopFails(l) /\ conn'[c].pc = "unstart" /\ conn'[c].sid = conn[c].sid
LEMMA ReadyOwn ==
  ASSUME Stage, NEW l \in Loop, Running(l),
         \/ LoopFails(l)
         \/ conn' = [c \in Conn |-> IF conn[c].pc = "ready" /\ conn[c].loop = l
                                    THEN Idle ELSE conn[c]]
         \/ UNCHANGED conn
  PROVE  \A c \in Conn : conn'[c] = conn[c] \/ Answered(l, c)
<1> SUFFICES ASSUME NEW c \in Conn, conn'[c] # conn[c] PROVE Answered(l, c)
  OBVIOUS
<1>1. conn[c].pc = "ready" /\ conn[c].loop = l /\ conn[c] \in Messages
  BY LinkTypes DEF LoopFails, Stage
<1>2. conn[c].sid = loop[l].sid
  BY <1>1, LinkTypes DEF Stage, Links, ConnLinked
<1>3. \/ conn'[c] = Idle
      \/ LoopFails(l) /\ conn'[c] = [conn[c] EXCEPT !.pc = "unstart", !.loop = None]
  BY <1>1 DEF LoopFails
<1> QED BY <1>1, <1>2, <1>3 DEF Messages, Answered

(* A loop that ends with nothing left to do.                                *)
LEMMA LoopGone ==
  ASSUME Stage, NEW l \in Loop, NEW t \in Session, loop[l].sid = t, Orderly(t), Issued(t)',
         \A k \in Loop : k # l => loop'[k] = loop[k], loop'[l] = NoLoop,
         UNCHANGED <<reg, file, boot, stop>>,
         handles'[t] = None \/ (UNCHANGED handles /\ ~Armed(loop[l])),
         \A c \in Conn : \/ conn'[c] = conn[c]
                         \/ conn'[c] = Idle
                         \/ /\ conn[c].sid = conn'[c].sid
                            /\ conn'[c].pc = conn[c].pc \/ conn'[c].pc = "unstart"
                            /\ conn[c].pc \in {"ready", "send", "picture"},
         loop[l].pc \in {"load", "read", "connect", "end"}
  PROVE  Orderly(t)'
<1>0. Shape /\ Links
  BY DEF Stage
<1>1. \A k \in Loop : loop'[k].sid # t
  BY <1>0, LoopKnown, Blank, NoneAssumption
<1>2. handles'[t] = None
  BY <1>0, LoopKnown DEF Links, HandleLinked, Armed
<1>3. \A c \in Conn : conn'[c].sid = t =>
         /\ conn[c].sid = t
         /\ conn'[c].pc \in Together \cup {"unstart"}
         /\ conn'[c].pc \in {"degrade", "reset"} => conn'[c] = conn[c]
  BY <1>0, LoopKnown, Blank, NoneAssumption
<1>4. OneTask(t)'
  BY <1>1, <1>2, <1>3 DEF Orderly, OneTask
<1>5. MetaPlace(t)' = MetaPlace(t) /\ (HasRecord(t)' <=> HasRecord(t)) /\ (Good(t)' <=> Good(t))
      /\ (Offered(t)' <=> Offered(t))
  BY DEF MetaPlace, HasRecord, Good, Finished, Offered
<1>6. Settled(t)'
  <2>1. ASSUME NEW c \in Conn, conn'[c].sid = t, Offered(t)
        PROVE  conn'[c].pc \notin {"init", "ready", "degrade", "reset"}
    <3>1. conn[c].pc \notin {"init", "ready", "degrade", "reset"}
      BY <1>3, <2>1 DEF Orderly, Settled
    <3> QED BY <1>3, <2>1, <3>1, Blank, NoneAssumption DEF Together
  <2> QED BY <1>1, <1>2, <1>5, <2>1 DEF Orderly, Settled
<1>7. Home(t)'
  BY <1>0, <1>5, LoopKnown DEF Home, Together
<1>8. ASSUME NEW c \in Conn, conn'[c].sid = t PROVE ConnAware(t, conn[c])'
  <2>1. conn'[c].pc \in {"degrade", "reset"} => Unfinished(t)
    BY <1>3, <1>8 DEF Orderly, Aware, ConnAware
  <2> QED BY <1>3, <1>8, <2>1 DEF ConnAware, Unfinished, Finished, Together
<1>9. Aware(t)'
  BY <1>0, <1>1, <1>8, LoopKnown DEF Orderly, Aware, StopAware, Finished
<1>10. Cleared(t)'
  BY <1>0, LoopKnown DEF Orderly, Cleared, Finished, Together
<1>11. (Open(t) => Unfinished(t))'
  <2>1. Open(t)' => boot = Serving /\ reg[t].status = "active"
    BY <1>1, <1>2 DEF Open
  <2>2. boot = Serving /\ reg[t].status = "active" => Open(t)
    BY <1>0, LoopKnown DEF Open, Together
  <2> QED BY <2>1, <2>2 DEF Orderly, Unfinished, Finished
<1>12. (~Issued(t) => Unborn(t))'
  OBVIOUS
<1> QED BY <1>4, <1>6, <1>7, <1>9, <1>10, <1>11, <1>12 DEF Orderly

(* LoopLoad, LoopReadMetadata and LoopConnect.                              *)
LEMMA LoopStartsOrder ==
  ASSUME Stage, Marked, NEW l \in Loop, NEW ok \in BOOLEAN, NEW t, t = loop[l].sid,
         LoopLoad(l, ok) \/ LoopReadMetadata(l, ok) \/ LoopConnect(l, ok)
  PROVE  InOrder'
<1>. DEFINE m == file[loop[l].place]
<1>1. Running(l) /\ UNCHANGED <<reg, file, handles, boot, stop>>
      /\ loop[l].pc \in {"load", "read", "connect"}
  BY DEF LoopLoad, LoopReadMetadata, LoopConnect, Running
<1>2. Shape /\ Links /\ t \in Session /\ LoopOK(loop[l]) /\ loop[l] \in Loops
  BY <1>1, LoopStage
<1>3. HistGrows
  <2>1. CASE LoopReadMetadata(l, ok) /\ m # NoFile
    <3>1. m \in Meta /\ m.owner \in Session
      BY <1>2, <2>1, FilesTyped DEF LoopReadMetadata, LoopOK
    <3>2. \/ hist' = hist \/ hist' = Outcome(t, ok)
          \/ hist' = Mixes(Mark(m.owner, {"shared"}), t, m.owner)
      BY <2>1 DEF LoopReadMetadata
    <3>3. Mark(m.owner, {"shared"}) \in [Session -> SUBSET Marks]
      BY <1>2, <3>1, HistTyped DEF Shape
    <3>4. \A x \in Session : /\ hist[x] \subseteq Mark(m.owner, {"shared"})[x]
                             /\ Mark(m.owner, {"shared"})[x] \subseteq hist[x] \cup {"shared"}
      BY <1>2 DEF Mark, Shape, CoreTypes
    <3>5. hist' = Mixes(Mark(m.owner, {"shared"}), t, m.owner) => HistGrows
      BY <3>3, <3>4, MixesGrow DEF HistGrows, Issued
    <3>. HIDE DEF m
    <3> QED BY <1>2, <3>2, <3>5, OutcomeMarks, MarkGrows
  <2>2. CASE ~(LoopReadMetadata(l, ok) /\ m # NoFile)
    <3>1. hist' = Outcome(t, ok)
      BY <2>2 DEF LoopLoad, LoopReadMetadata, LoopConnect
    <3> QED BY <1>2, <3>1, OutcomeMarks
  <2> QED BY <2>1, <2>2
<1>4. /\ \A k \in Loop : k # l => loop'[k] = loop[k]
      /\ loop'[l].sid \in {t, None}
      /\ LoopFails(l) => loop'[l] = NoLoop
  <2>1. LoopFails(l) => loop' = [loop EXCEPT ![l] = NoLoop]
    BY DEF LoopFails
  <2>2. CASE LoopFails(l)
    BY <1>2, <2>1, <2>2, LinkTypes, Blank
  <2>3. CASE LoopLoad(l, ok) /\ ~LoopFails(l)
    BY <1>2, <2>3, LinkTypes DEF LoopLoad, Loops
  <2>4. CASE LoopReadMetadata(l, ok) /\ ~LoopFails(l)
    <3>. HIDE DEF m
    <3>1. \E x : loop' = [loop EXCEPT ![l].pc = "connect", ![l].mem = x]
      BY <2>4 DEF LoopReadMetadata
    <3> QED BY <1>2, <2>4, <3>1, LinkTypes DEF Loops
  <2>5. CASE LoopConnect(l, ok) /\ ~LoopFails(l)
    BY <1>2, <2>5, LinkTypes DEF LoopConnect, LoopGoto, Loops
  <2> QED BY <2>2, <2>3, <2>4, <2>5
<1>5. \A c \in Conn : conn'[c] = conn[c] \/ Answered(l, c)
  BY <1>1, ReadyOwn DEF LoopLoad, LoopReadMetadata, LoopConnect
<1>6. Private(t)
  <2>1. FilesClaimed(t)
    BY <1>1, SameFiles
  <2> QED BY <1>1, <1>2, <1>3, <1>4, <1>5, <2>1, LoopPrivate, Blank DEF Answered
<1>7. ASSUME Undisturbed(t)' PROVE Orderly(t)'
  <2>1. Orderly(t) /\ LoopAware(t, loop[l]) /\ Issued(t)'
    BY <1>1, <1>2, <1>3, <1>7, LoopStage, StillUndisturbed, LoopKnown DEF HistGrows, Issued
  <2>2. CASE LoopFails(l)
    <3>1. \A c \in Conn : \/ conn'[c] = conn[c]
                          \/ conn'[c] = Idle
                          \/ conn[c].pc = "ready" /\ conn'[c].pc = "unstart" /\ conn'[c].sid = t
                             /\ conn[c].sid = t
      BY <1>5, <2>2 DEF Answered
    <3> QED BY <1>1, <1>2, <1>4, <2>1, <2>2, <3>1, LoopGone DEF Armed
  <2>3. CASE ~LoopFails(l)
    <3>1. \A c \in Conn : conn'[c] = conn[c] \/ conn'[c] = Idle
      BY <1>5, <2>3 DEF Answered
    <3>2. LoopAware(t, loop[l])' /\ ~Finishing(loop'[l]) /\ ~Armed(loop[l])
          /\ loop'[l].sid = t
      <4>1. ~loop[l].fired /\ ~Armed(loop[l])
        BY <1>1, <1>2 DEF Links, LoopLinked, Armed
      <4>2. CASE LoopLoad(l, ok)
        <5>1. /\ loop'[l].pc = "read" /\ loop'[l].place = MetaPlace(t)
              /\ loop'[l].fired = loop[l].fired
              /\ loop'[l].sid = t
          BY <1>2, <2>3, <4>2, LinkTypes DEF LoopLoad, Loops
        <5>2. MetaPlace(t)' = MetaPlace(t)
          BY <1>1 DEF MetaPlace
        <5> QED BY <4>1, <5>1, <5>2 DEF LoopAware, Finishing
      <4>3. CASE LoopReadMetadata(l, ok)
        <5>1. m # NoFile /\ loop'[l].pc = "connect" /\ loop'[l].place = loop[l].place
              /\ loop'[l].fired = loop[l].fired /\ loop'[l].sid = t /\ loop'[l].mem = m
          <6>. HIDE DEF m
          <6>1. m # NoFile /\ loop' = [loop EXCEPT ![l].pc = "connect", ![l].mem = m]
            BY <2>3, <4>3 DEF LoopReadMetadata, m
          <6> QED BY <1>2, <6>1, LinkTypes DEF Loops
        <5>2. MetaPlace(t)' = MetaPlace(t) /\ (HasRecord(t)' <=> HasRecord(t))
          BY <1>1 DEF MetaPlace, HasRecord
        <5>3. loop[l].place \in Place /\ m \in Meta /\ m.owner \in Session
          BY <1>2, <4>3, <5>1, FilesTyped DEF LoopReadMetadata, LoopOK
        <5>4. m.owner = t
          <6>1. CASE m.owner # t
            <7>1. hist' = Mixes(Mark(m.owner, {"shared"}), t, m.owner)
              BY <2>3, <4>3, <6>1 DEF LoopReadMetadata
            <7>2. "mixed" \in hist'[t]
              BY <1>2, <5>3, <7>1, HistTyped, MixesMark DEF Shape, Marked
            <7> QED BY <1>7, <7>2 DEF Undisturbed
          <6> QED BY <6>1
        <5>5. ~Finished(m)
          BY <1>1, <1>2, <2>1, <5>3, <5>4, LoopKnown DEF Unfinished
        <5>6. loop[l].place = MetaPlace(t) \/ ~HasRecord(t)
          BY <2>1, <4>3 DEF LoopAware, LoopReadMetadata
        <5>. HIDE DEF m
        <5> QED BY <4>1, <5>1, <5>2, <5>4, <5>5, <5>6 DEF LoopAware, Finishing
      <4>4. CASE LoopConnect(l, ok)
        <5>1. loop[l].pc = "connect" /\ loop'[l].pc = "arm" /\ loop'[l].place = loop[l].place
              /\ loop'[l].fired = loop[l].fired /\ loop'[l].sid = t /\ loop'[l].mem = loop[l].mem
          BY <1>2, <2>3, <4>4, LinkTypes DEF LoopConnect, LoopGoto, Loops
        <5>2. MetaPlace(t)' = MetaPlace(t) /\ (HasRecord(t)' <=> HasRecord(t))
          BY <1>1 DEF MetaPlace, HasRecord
        <5> QED BY <2>1, <4>1, <5>1, <5>2 DEF LoopAware, Finishing
      <4> QED BY <4>1, <4>2, <4>3, <4>4
    <3> QED BY <1>1, <1>2, <1>4, <2>1, <3>1, <3>2, LoopRecords
  <2> QED BY <2>2, <2>3
<1> QED BY <1>2, <1>6, <1>7, PrivateKeeps

(* A step of loop l that keeps its session in order.                        *)
LEMMA LoopOrder ==
  ASSUME Stage, NEW l \in Loop, NEW t, t = loop[l].sid, Running(l), HistGrows, FilesClaimed(t),
         \A k \in Loop : k # l => loop'[k] = loop[k], loop'[l].sid = t,
         \A s \in Session : s # t => reg'[s] = reg[s], UNCHANGED <<handles, conn, boot, stop>>,
         Undisturbed(t)' /\ Orderly(t) /\ LoopAware(t, loop[l]) /\ Issued(t)' => Orderly(t)'
  PROVE  InOrder'
<1>1. t \in Session /\ Shape /\ Links
  BY LoopStage
<1>2. Private(t)
  BY <1>1, LoopPrivate
<1>3. ASSUME Undisturbed(t)' PROVE Orderly(t)'
  <2>1. Orderly(t) /\ LoopAware(t, loop[l])
    BY <1>1, <1>3, LoopStage, StillUndisturbed
  <2>2. Issued(t)'
    BY <1>1, <2>1, LoopKnown DEF HistGrows, Issued
  <2> QED BY <1>3, <2>1, <2>2
<1> QED BY <1>1, <1>2, <1>3, PrivateKeeps

(* LoopBegin, LoopStep, LoopStops and LoopDrain.                            *)
LEMMA LoopCapturesOrder ==
  ASSUME Stage, Marked, NEW l \in Loop, NEW ok \in BOOLEAN, NEW clean \in BOOLEAN,
         NEW t, t = loop[l].sid,
         LoopBegin(l, ok) \/ LoopStep(l) \/ LoopStops(l, clean) \/ LoopDrain(l)
  PROVE  InOrder'
<1>. DEFINE p == loop[l].place
<1>1. /\ Running(l) /\ UNCHANGED <<reg, handles, conn, boot, stop>>
      /\ loop[l].pc \in {"begin", "capture", "drain"} /\ Armed(loop[l])
  BY DEF LoopBegin, LoopStep, LoopStops, LoopDrain, Capturing, Running, Armed
<1>2. /\ Shape /\ Links /\ t \in Session /\ LoopOK(loop[l]) /\ loop[l] \in Loops
      /\ loop[l].mem.owner \in {None, t}
         \/ (loop[l].mem.owner \in Session /\ Mixed(loop[l].mem.owner))
  BY <1>1, LoopStage
<1>3. p \in Place /\ loop[l].mem \in Meta
  BY <1>1, <1>2 DEF LoopOK
<1>4. MetaPlace(t)' = MetaPlace(t) /\ (HasRecord(t)' <=> HasRecord(t))
  BY <1>1 DEF MetaPlace, HasRecord
<1>5. CASE LoopBegin(l, ok)
  <2>. DEFINE m == [loop[l].mem EXCEPT !.prog = "capturing"]
  <2>1. m.owner = loop[l].mem.owner /\ m.status = loop[l].mem.status
    BY <1>3 DEF Meta
  <2>2. /\ hist' = Works(t, p, ok) /\ Write(p, m, ok)
        /\ loop' = [loop EXCEPT ![l].pc = "capture", ![l].mem = m]
    BY <1>5 DEF LoopBegin
  <2>. HIDE DEF m
  <2>3. \A q \in Place : file'[q] = file[q] \/ (q = p /\ file'[q] = m)
    BY <1>3, <2>2, FilesTyped, <1>2 DEF Write
  <2>4. HistGrows /\ FilesClaimed(t)
    BY <1>2, <1>3, <2>1, <2>2, <2>3, WorksMarks, WorksClaim
  <2>5. /\ \A k \in Loop : k # l => loop'[k] = loop[k]
        /\ loop'[l].sid = t /\ loop'[l].pc = "capture" /\ loop'[l].fired = loop[l].fired
        /\ loop'[l].mem = m /\ loop'[l].place = p
    BY <1>2, <2>2, LinkTypes DEF Loops
  <2>6. ASSUME Orderly(t), LoopAware(t, loop[l]), Issued(t)' PROVE Orderly(t)'
    <3>1. m.owner = t /\ ~Finished(m)
      BY <1>5, <2>1, <2>6 DEF LoopAware, LoopBegin, Finished
    <3>2. LoopAware(t, loop[l])' /\ Armed(loop'[l]) /\ (Finishing(loop'[l]) => Finishing(loop[l]))
      BY <1>1, <1>4, <2>5, <2>6, <3>1 DEF LoopAware, Armed, Finishing
    <3> QED BY <1>1, <1>2, <2>3, <2>5, <2>6, <3>1, <3>2, LoopRecords
  <2> QED BY <1>1, <1>2, <2>4, <2>5, <2>6, LoopOrder
<1>6. CASE LoopStep(l)
  <2>. DEFINE m == loop[l].mem
  <2>2. hist' = Works(t, p, TRUE) /\ Write(p, m, TRUE) /\ loop' = loop /\ loop[l].pc = "capture"
    BY <1>6 DEF LoopStep, Capturing
  <2>3. \A q \in Place : file'[q] = file[q] \/ (q = p /\ file'[q] = m)
    BY <1>3, <2>2, FilesTyped, <1>2 DEF Write
  <2>4. HistGrows /\ FilesClaimed(t)
    BY <1>2, <1>3, <2>2, <2>3, WorksMarks, WorksClaim
  <2>6. ASSUME Orderly(t), LoopAware(t, loop[l]), Issued(t)' PROVE Orderly(t)'
    <3>1. m.owner = t /\ ~Finished(m)
      BY <2>2, <2>6 DEF LoopAware
    <3>2. LoopAware(t, loop[l])' /\ Armed(loop'[l]) /\ (Finishing(loop'[l]) => Finishing(loop[l]))
      BY <1>1, <1>4, <2>2, <2>6, <3>1 DEF LoopAware
    <3> QED BY <1>1, <1>2, <2>2, <2>3, <2>6, <3>1, <3>2, LoopRecords
  <2> QED BY <1>1, <1>2, <2>2, <2>4, <2>6, LoopOrder
<1>7. CASE LoopStops(l, clean) \/ LoopDrain(l)
  <2>1. UNCHANGED <<file, hist>>
    BY <1>7 DEF LoopStops, LoopDrain
  <2>2. HistGrows /\ FilesClaimed(t)
    BY <2>1, SameFiles DEF HistGrows, Issued
  <2>3. /\ \A k \in Loop : k # l => loop'[k] = loop[k]
        /\ loop'[l].sid = t /\ loop'[l].mem = loop[l].mem /\ loop'[l].place = p
        /\ loop'[l].pc \in {"drain", "complete", "interrupt"}
        /\ Finishing(loop'[l]) => Finishing(loop[l])
    <3>1. CASE LoopStops(l, clean)
      <4>1. loop' = [loop EXCEPT ![l].pc = "drain", ![l].clean = clean, ![l].fired = FALSE]
            /\ (clean => loop[l].fired)
        BY <3>1 DEF LoopStops
      <4>2. loop'[l].pc = "drain" /\ loop'[l].clean = clean /\ ~loop'[l].fired
        BY <1>2, <4>1, LinkTypes DEF Loops
      <4>3. Finishing(loop'[l]) => Finishing(loop[l])
        BY <4>1, <4>2 DEF Finishing
      <4> QED BY <1>2, <4>1, <4>3, LinkTypes DEF Loops
    <3>2. CASE LoopDrain(l)
      <4>. DEFINE pc == IF loop[l].clean THEN "complete" ELSE "interrupt"
                  deg == loop[l].clean /\ t \in degraded
      <4>1. loop' = [loop EXCEPT ![l].pc = pc, ![l].clean = FALSE, ![l].deg = deg]
            /\ loop[l].pc = "drain"
        BY <3>2 DEF LoopDrain
      <4>. HIDE DEF deg, pc
      <4>2. loop'[l].pc = pc /\ ~loop'[l].clean /\ loop'[l].fired = loop[l].fired
        BY <1>2, <4>1, LinkTypes DEF Loops
      <4>3. ~loop[l].fired
        BY <1>2, <4>1 DEF Links, LoopLinked
      <4>4. Finishing(loop'[l]) => Finishing(loop[l])
        BY <4>1, <4>2, <4>3 DEF Finishing, pc
      <4>5. pc \in {"complete", "interrupt"}
        BY DEF pc
      <4> QED BY <1>2, <4>1, <4>4, <4>5, LinkTypes DEF Loops
    <3> QED BY <1>7, <3>1, <3>2
  <2>4. ASSUME Orderly(t), LoopAware(t, loop[l]), Issued(t)' PROVE Orderly(t)'
    <3>1. LoopAware(t, loop[l])' /\ Armed(loop'[l])
      BY <1>1, <1>4, <2>3, <2>4 DEF LoopAware, Armed
    <3> QED BY <1>1, <1>2, <2>1, <2>3, <2>4, <3>1, LoopRecords
  <2> QED BY <1>1, <1>2, <2>2, <2>3, <2>4, LoopOrder
<1> QED BY <1>5, <1>6, <1>7

(* LoopInterrupt, LoopDemote and LoopFlag.                                  *)
LEMMA LoopInterruptOrder ==
  ASSUME Stage, Marked, NEW l \in Loop, NEW ok \in BOOLEAN, NEW t, t = loop[l].sid,
         LoopInterrupt(l, ok)
  PROVE  InOrder'
<1>. DEFINE p == loop[l].place
            m == IF Local THEN loop[l].mem
                 ELSE [loop[l].mem EXCEPT !.status = "incomplete", !.prog = "interrupted"]
<1>1. /\ Running(l) /\ UNCHANGED <<reg, handles, conn, boot, stop>> /\ loop[l].pc = "interrupt"
      /\ Armed(loop[l]) /\ hist' = Outcome(t, ok)
      /\ loop' = [loop EXCEPT ![l].pc = "demote", ![l].mem = NoFile]
      /\ IF Local THEN UNCHANGED file ELSE Write(p, m, ok)
  BY DEF LoopInterrupt, Running, Armed
<1>2. Shape /\ Links /\ t \in Session /\ LoopOK(loop[l]) /\ loop[l] \in Loops
  BY <1>1, LoopStage
<1>3. p \in Place /\ loop[l].mem \in Meta
  BY <1>1, <1>2 DEF LoopOK
<1>4. MetaPlace(t)' = MetaPlace(t) /\ (HasRecord(t)' <=> HasRecord(t))
  BY <1>1 DEF MetaPlace, HasRecord
<1>5. m.owner = loop[l].mem.owner /\ (~Local => m.status = "incomplete")
  BY <1>3 DEF Meta
<1>. HIDE DEF m
<1>6. HistGrows
  BY <1>1, <1>2, OutcomeMarks
<1>7. \A q \in Place : file'[q] = file[q] \/ (~Local /\ q = p /\ file'[q] = m)
  BY <1>1, <1>2, <1>3, FilesTyped DEF Write
<1>8. FilesClaimed(t)
  <2>1. CASE Local
    BY <1>7, <2>1 DEF FilesClaimed
  <2>2. CASE ~Local
    <3>1. p = t /\ loop[l].mem.owner \in {None, t} /\ file[t].owner \in {None, t}
      BY <1>2, <1>3, <2>2, Places, NoneAssumption
         DEF Stage, Keyed, KeyedLoop, KeyedFiles
    <3> QED BY <1>5, <1>7, <3>1 DEF FilesClaimed, Claims
  <2> QED BY <2>1, <2>2
<1>9. /\ \A k \in Loop : k # l => loop'[k] = loop[k]
      /\ loop'[l].sid = t /\ loop'[l].pc = "demote" /\ loop'[l].fired = loop[l].fired
      /\ loop'[l].place = p
  BY <1>1, <1>2, LinkTypes DEF Loops
<1>10. ASSUME Orderly(t), LoopAware(t, loop[l]), Issued(t)' PROVE Orderly(t)'
  <2>1. m.owner = t /\ (~Local => ~Finished(m))
    BY <1>1, <1>5, <1>10 DEF LoopAware, Finished
  <2>2. LoopAware(t, loop[l])' /\ Armed(loop'[l]) /\ (Finishing(loop'[l]) => Finishing(loop[l]))
    BY <1>1, <1>4, <1>9, <1>10 DEF LoopAware, Armed, Finishing
  <2> QED BY <1>1, <1>2, <1>7, <1>9, <1>10, <2>1, <2>2, LoopRecords
<1> QED BY <1>1, <1>6, <1>8, <1>9, <1>10, LoopOrder

(* LoopDemote and LoopFlag: the status says interrupted, with or without a rename. *)
LEMMA LoopDemoteOrder ==
  ASSUME Stage, Marked, NEW l \in Loop, NEW ok \in BOOLEAN, NEW t, t = loop[l].sid,
         LoopDemote(l, ok) \/ LoopFlag(l, ok)
  PROVE  InOrder'
<1>. DEFINE p == loop[l].place
<1>1. /\ Running(l) /\ UNCHANGED <<handles, conn, boot, stop>> /\ loop[l].pc \in {"demote", "flag"}
      /\ Armed(loop[l])
  BY DEF LoopDemote, LoopFlag, Running, Armed
<1>2. Shape /\ Links /\ t \in Session /\ LoopOK(loop[l]) /\ loop[l] \in Loops
  BY <1>1, LoopStage
<1>3. p \in Place
  BY <1>1, <1>2 DEF LoopOK
<1>5. ~loop[l].fired
  BY <1>1, <1>2 DEF Links, LoopLinked
<1>6. CASE LoopDemote(l, ok)
  <2>1. /\ hist' = Outcome(t, ok) /\ UNCHANGED file /\ UpdateStatus(t, "incomplete", ok)
        /\ loop' = LoopGoto(l, "flag") \/ loop' = LoopOver(l)
    BY <1>6 DEF LoopDemote
  <2>2. HistGrows /\ FilesClaimed(t)
    BY <1>2, <2>1, OutcomeMarks, SameFiles
  <2>3. /\ \A s \in Session : s # t => reg'[s] = reg[s]
        /\ \/ reg'[t] = reg[t]
           \/ reg'[t].path = reg[t].path /\ reg'[t].status = "incomplete" /\ HasRecord(t)
    BY <1>2, <2>1, DirTypes DEF UpdateStatus, Shape, CoreTypes, HasRecord, Records
  <2>4. /\ \A k \in Loop : k # l => loop'[k] = loop[k]
        /\ loop'[l].sid = t /\ ~loop'[l].fired
        /\ loop'[l].pc = "end" \/ (loop'[l].pc = "flag" /\ loop'[l].place = p)
    BY <1>2, <1>5, <2>1, LinkTypes, LoopOverFields DEF LoopGoto, Loops
  <2>5. ASSUME Orderly(t), LoopAware(t, loop[l]), Issued(t)' PROVE Orderly(t)'
    <3>1. MetaPlace(t)' = MetaPlace(t) /\ (HasRecord(t)' => HasRecord(t))
      BY <2>3 DEF MetaPlace, HasRecord
    <3>2. LoopAware(t, loop[l])' /\ Armed(loop'[l]) /\ (Finishing(loop'[l]) => Finishing(loop[l]))
      BY <1>6, <2>4, <2>5, <3>1 DEF LoopAware, Armed, Finishing, LoopDemote
    <3> QED BY <1>1, <1>2, <2>1, <2>3, <2>4, <2>5, <3>2, LoopRecords
  <2> QED BY <1>1, <2>2, <2>3, <2>4, <2>5, LoopOrder
<1>7. CASE LoopFlag(l, ok)
  <2>. DEFINE m == [file[p] EXCEPT !.status = "incomplete"]
  <2>1. /\ hist' = Works(t, p, ok) /\ UNCHANGED reg /\ Edit(p, m, ok)
        /\ loop' = LoopGoto(l, "rename")
    BY <1>7 DEF LoopFlag
  <2>2. file[p] # NoFile =>
           m.owner = file[p].owner /\ m.owner \in Session /\ m.status = "incomplete"
    BY <1>2, <1>3, FilesTyped DEF Meta
  <2>. HIDE DEF m
  <2>3. \A q \in Place : \/ file'[q] = file[q]
                         \/ q = p /\ file'[q] = m /\ m.owner = file[p].owner /\ m.owner \in Session
                            /\ ~Finished(m)
    BY <1>2, <1>3, <2>1, <2>2, FilesTyped DEF Edit, Finished
  <2>4. HistGrows /\ FilesClaimed(t)
    BY <1>2, <1>3, <2>1, <2>3, WorksMarks, WorksClaim
  <2>5. /\ \A k \in Loop : k # l => loop'[k] = loop[k]
        /\ loop'[l].sid = t /\ ~loop'[l].fired /\ loop'[l].pc = "rename" /\ loop'[l].place = p
    BY <1>2, <1>5, <2>1, LinkTypes DEF LoopGoto, Loops
  <2>6. ASSUME Undisturbed(t)', Orderly(t), LoopAware(t, loop[l]), Issued(t)' PROVE Orderly(t)'
    <3>1. MetaPlace(t)' = MetaPlace(t) /\ (HasRecord(t)' => HasRecord(t))
      BY <2>1 DEF MetaPlace, HasRecord
    <3>2. LoopAware(t, loop[l])' /\ Armed(loop'[l]) /\ (Finishing(loop'[l]) => Finishing(loop[l]))
      BY <1>7, <2>5, <2>6, <3>1 DEF LoopAware, Armed, Finishing, LoopFlag
    <3>3. file[p].owner \in {None, t}
      BY <1>2, <1>3, <2>1, <2>6, WorksMarks
    <3>4. \A q \in Place : file'[q] = file[q] \/ (file'[q].owner = t /\ ~Finished(file'[q]))
      BY <2>3, <3>3, NoneAssumption
    <3> QED BY <1>1, <1>2, <2>1, <2>5, <2>6, <3>2, <3>4, LoopRecords
  <2> QED BY <1>1, <2>1, <2>4, <2>5, <2>6, LoopOrder
<1> QED BY <1>6, <1>7

(* LoopComplete.                                                            *)
LEMMA LoopCompleteOrder ==
  ASSUME Stage, Marked, NEW l \in Loop, NEW ok \in BOOLEAN, NEW t, t = loop[l].sid,
         LoopComplete(l, ok)
  PROVE  InOrder'
<1>. DEFINE p == loop[l].place
            m == [loop[l].mem EXCEPT !.status = "complete", !.prog = "none"]
<1>1. /\ Running(l) /\ UNCHANGED <<reg, handles, conn, boot, stop>> /\ loop[l].pc = "complete"
      /\ hist' = Works(t, p, ok) /\ Write(p, m, ok)
      /\ loop' = [loop EXCEPT ![l].pc = "settle", ![l].mem = NoFile]
      /\ Finishing(loop[l])
  BY DEF LoopComplete, Running, Finishing
<1>2. /\ Shape /\ Links /\ t \in Session /\ LoopOK(loop[l]) /\ loop[l] \in Loops
      /\ loop[l].mem.owner \in {None, t}
         \/ (loop[l].mem.owner \in Session /\ Mixed(loop[l].mem.owner))
  BY <1>1, LoopStage
<1>3. p \in Place /\ loop[l].mem \in Meta
  BY <1>1, <1>2 DEF LoopOK
<1>4. MetaPlace(t)' = MetaPlace(t) /\ (HasRecord(t)' <=> HasRecord(t))
      /\ (Offered(t)' <=> Offered(t))
  BY <1>1 DEF MetaPlace, HasRecord, Offered
<1>5. m.owner = loop[l].mem.owner /\ m.prog = "none" /\ m.status = "complete"
  BY <1>3 DEF Meta
<1>. HIDE DEF m
<1>6. \A q \in Place : file'[q] = file[q] \/ (q = p /\ file'[q] = m)
  BY <1>1, <1>2, <1>3, FilesTyped DEF Write
<1>7. HistGrows /\ FilesClaimed(t)
  BY <1>1, <1>2, <1>3, <1>5, <1>6, WorksMarks, WorksClaim
<1>8. /\ \A k \in Loop : k # l => loop'[k] = loop[k]
      /\ loop'[l].sid = t /\ loop'[l].pc = "settle" /\ loop'[l].place = p
  BY <1>1, <1>2, LinkTypes DEF Loops
<1>9. ASSUME Undisturbed(t)', Orderly(t), LoopAware(t, loop[l]), Issued(t)' PROVE Orderly(t)'
  <2>1. m.owner = t /\ (HasRecord(t) => p = MetaPlace(t))
    BY <1>1, <1>5, <1>9 DEF LoopAware
  <2>2. ok /\ file[p].owner \in {None, t}
    BY <1>1, <1>2, <1>3, <1>9, WorksMarks
  <2>3. HasRecord(t) => file'[p] = m
    <3>1. HasRecord(t) => file[p] # NoFile
      BY <1>1, <1>2, <1>9, <2>1, LoopKnown, Blank, NoneAssumption
    <3> QED BY <1>1, <1>2, <1>3, <2>2, <3>1, FilesTyped DEF Write
  <2>4. HasRecord(t) => Good(t)'
    BY <1>4, <1>5, <2>1, <2>3 DEF Good, Finished
  <2>5. handles[t] = None /\ ~Offered(t) /\ Unfinished(t)
    BY <1>1, <1>2, <1>9, LoopKnown DEF Orderly, OneTask
  <2>6. Settled(t)'
    BY <1>4, <2>5 DEF Settled
  <2>7. Home(t)'
    BY <1>4, <2>1, <2>3 DEF Home
  <2>8. LoopAware(t, loop[l])'
    BY <1>4, <1>8, <2>4 DEF LoopAware
  <2>9. Cleared(t)'
    BY <1>5, <1>6, <2>5 DEF Cleared, Unfinished, Finished
  <2>10. ~Open(t)'
    <3>1. \A k \in Loop : loop'[k].sid = t => k = l
      BY <1>2, <1>8, <1>9, LoopKnown
    <3> QED BY <1>1, <1>8, <2>5, <3>1 DEF Open
  <2>11. Armed(loop'[l])
    BY <1>8 DEF Armed
  <2> QED BY <1>1, <1>2, <1>8, <1>9, <2>6, <2>7, <2>8, <2>9, <2>10, <2>11, LoopOwn
<1> QED BY <1>1, <1>7, <1>8, <1>9, LoopOrder

(* LoopSettle.                                                              *)
LEMMA LoopSettleOrder ==
  ASSUME Stage, Marked, NEW l \in Loop, NEW ok \in BOOLEAN, NEW t, t = loop[l].sid,
         LoopSettle(l, ok)
  PROVE  InOrder'
<1>. DEFINE new == AfterCapture(loop[l].deg)
<1>1. /\ Running(l) /\ UNCHANGED <<file, handles, conn, boot, stop>> /\ loop[l].pc = "settle"
      /\ hist' = Outcome(t, ok) /\ loop' = LoopOver(l) /\ Finishing(loop[l])
      /\ UpdateStatus(t, new, ok)
  BY DEF LoopSettle, Running, Finishing
<1>2. /\ Shape /\ Links /\ t \in Session /\ LoopOK(loop[l]) /\ loop[l] \in Loops
  BY <1>1, LoopStage
<1>3. new # "active"
  BY DEF AfterCapture
<1>. HIDE DEF new
<1>4. HistGrows /\ FilesClaimed(t)
  BY <1>1, <1>2, OutcomeMarks, SameFiles
<1>5. /\ \A s \in Session : s # t => reg'[s] = reg[s]
      /\ \/ reg'[t] = reg[t] /\ ~(ok /\ HasRecord(t))
         \/ reg'[t].path = reg[t].path /\ reg'[t].status = new /\ HasRecord(t)
  BY <1>1, <1>2, DirTypes DEF UpdateStatus, Shape, CoreTypes, HasRecord, Records
<1>6. /\ \A k \in Loop : k # l => loop'[k] = loop[k]
      /\ loop'[l].sid = t /\ ~loop'[l].fired /\ loop'[l].pc = "end"
  BY <1>1, <1>2, LoopOverFields
<1>7. ASSUME Undisturbed(t)', Orderly(t), LoopAware(t, loop[l]), Issued(t)' PROVE Orderly(t)'
  <2>1. ok /\ (HasRecord(t) => Good(t))
    BY <1>1, <1>2, <1>7, OutcomeMarks DEF LoopAware
  <2>2. handles[t] = None /\ boot = Serving
    BY <1>1, <1>2, <1>7, LoopKnown DEF Orderly, OneTask
  <2>3. MetaPlace(t)' = MetaPlace(t) /\ (HasRecord(t)' => HasRecord(t))
        /\ reg'[t].status # "active" /\ (Good(t)' <=> Good(t))
    <3>1. reg'[t].status # "active"
      BY <1>3, <1>5, <2>1 DEF HasRecord, NoRecord
    <3> QED BY <1>1, <1>5, <3>1 DEF MetaPlace, HasRecord, Good, Finished
  <2>4. \A k \in Loop : loop'[k].sid = t => k = l
    BY <1>2, <1>6, <1>7, LoopKnown
  <2>5. Settled(t)'
    <3>1. Offered(t)' => HasRecord(t)'
      BY DEF Offered, HasRecord, NoRecord
    <3>2. \A c \in Conn : conn'[c].sid = t => conn'[c].pc \in {"picture", "await"}
      <4> SUFFICES ASSUME NEW c \in Conn, conn[c].sid = t
                   PROVE  conn[c].pc \in {"picture", "await"}
        BY <1>1
      <4>1. conn[c].pc \in {"ready", "picture", "await"}
        BY <1>1, <1>7 DEF Orderly, OneTask, Beside
      <4>2. conn[c].pc # "ready"
        BY <1>1, <1>2, <1>7, LinkTypes DEF Links, ConnLinked, Starting, Orderly, OneTask
      <4> QED BY <4>1, <4>2
    <3> QED BY <1>1, <1>6, <2>1, <2>2, <2>3, <2>4, <3>1, <3>2 DEF Settled
  <2>6. Home(t)'
    BY <1>1, <1>2, <1>7, <2>3, LoopKnown DEF Home
  <2>7. LoopAware(t, loop[l])'
    BY <1>6 DEF LoopAware
  <2>8. Cleared(t)'
    BY <1>1, <1>7 DEF Cleared, Orderly, Finished
  <2>9. ~Open(t)'
    BY <1>1, <1>6, <2>2, <2>3, <2>4 DEF Open
  <2>10. Armed(loop'[l])
    BY <1>6 DEF Armed
  <2> QED BY <1>1, <1>2, <1>6, <1>7, <2>5, <2>6, <2>7, <2>8, <2>9, <2>10, LoopOwn
<1> QED BY <1>1, <1>4, <1>5, <1>6, <1>7, LoopOrder

(* LoopRename.                                                              *)
LEMMA LoopRenameOrder ==
  ASSUME Stage, Marked, NEW l \in Loop, NEW ok \in BOOLEAN, NEW t, t = loop[l].sid,
         LoopRename(l, ok)
  PROVE  InOrder'
<1>. DEFINE p == loop[l].place
            moved == ~p[2] /\ CanRename(p, ok)
            done == moved \/ p[2]
<1>1. /\ Running(l) /\ UNCHANGED <<reg, handles, conn, boot, stop>> /\ loop[l].pc = "rename"
      /\ hist' = Works(t, p, done) /\ Armed(loop[l])
      /\ file' = IF moved THEN Rename(p) ELSE file
      /\ loop' = IF done THEN [loop EXCEPT ![l].pc = "repath", ![l].place = Incomplete(p)]
                 ELSE LoopOver(l)
  BY DEF LoopRename, Running, Armed
<1>2. Shape /\ Links /\ t \in Session /\ LoopOK(loop[l]) /\ loop[l] \in Loops /\ Local
      /\ p \in Place /\ p \in Path
  BY <1>1, LoopStage, Places DEF LoopOK
<1>3. p[2] \in BOOLEAN /\ Incomplete(p) \in Path /\ (p[2] => p = Incomplete(p))
  BY <1>2, PathParts, PathNames
<1>4. /\ moved \in BOOLEAN /\ done \in BOOLEAN
      /\ moved => file[p] # NoFile /\ file[Incomplete(p)] = NoFile /\ ~p[2]
      /\ (done /\ ~moved => p[2])
  BY <1>2, <1>3 DEF CanRename
<1>. HIDE DEF done
<1>5. moved => /\ p # Incomplete(p)
               /\ file'[p] = NoFile /\ file'[Incomplete(p)] = file[p]
               /\ \A q \in Path : q \notin {p, Incomplete(p)} => file'[q] = file[q]
  BY <1>1, <1>2, <1>4, Renamed
<1>. HIDE DEF moved
<1>6. ~moved => file' = file
  BY <1>1
<1>7. MetaPlace(t)' = MetaPlace(t) /\ (HasRecord(t)' <=> HasRecord(t))
      /\ (Offered(t)' <=> Offered(t)) /\ MetaPlace(t) = reg[t].path
  BY <1>1, <1>2 DEF MetaPlace, HasRecord, Offered
<1>8. HistGrows /\ Claims(t, file[p].owner)
  BY <1>1, <1>2, <1>4, WorksMarks DEF Claims
<1>9. FilesClaimed(t)
  <2>1. CASE moved
    BY <1>2, <1>4, <1>5, <1>8, <2>1, Places, Blank DEF FilesClaimed, Claims
  <2>2. CASE ~moved
    BY <1>6, <2>2, SameFiles
  <2> QED BY <2>1, <2>2
<1>10. /\ \A k \in Loop : k # l => loop'[k] = loop[k]
       /\ loop'[l].sid = t /\ ~loop'[l].fired
       /\ done => loop'[l].pc = "repath" /\ loop'[l].place = Incomplete(p)
       /\ ~done => loop'[l].pc = "end"
  <2>1. ~loop[l].fired
    BY <1>1, <1>2 DEF Links, LoopLinked
  <2>2. CASE done
    <3>. DEFINE q == Incomplete(p)
    <3>1. loop' = [loop EXCEPT ![l].pc = "repath", ![l].place = q]
      BY <1>1, <2>2
    <3>. HIDE DEF q
    <3>2. /\ \A k \in Loop : k # l => loop'[k] = loop[k]
          /\ loop'[l].sid = t /\ ~loop'[l].fired /\ loop'[l].pc = "repath" /\ loop'[l].place = q
      BY <1>2, <2>1, <3>1, LinkTypes DEF Loops
    <3> QED BY <2>2, <3>2 DEF q
  <2>3. CASE ~done
    BY <1>1, <1>2, <2>3, LoopOverFields
  <2> QED BY <2>2, <2>3
<1>11. ASSUME Undisturbed(t)', Orderly(t), LoopAware(t, loop[l]), Issued(t)' PROVE Orderly(t)'
  <2>1. done /\ loop'[l].pc = "repath" /\ loop'[l].place = Incomplete(p)
    BY <1>1, <1>2, <1>4, <1>10, <1>11, WorksMarks
  <2>2. HasRecord(t) => p = reg[t].path /\ file[p].owner = t
    BY <1>1, <1>2, <1>7, <1>11, LoopKnown DEF LoopAware
  <2>3. HasRecord(t) => file'[Incomplete(p)].owner = t
    BY <1>3, <1>4, <1>5, <1>6, <2>1, <2>2
  <2>4. ~Offered(t) /\ Unfinished(t)
    BY <1>1, <1>2, <1>11, LoopKnown
  <2>5. Unfinished(t)'
    <3>1. CASE moved
      BY <1>2, <1>5, <2>4, <3>1, Places, Blank, NoneAssumption DEF Unfinished, Finished
    <3>2. CASE ~moved
      BY <1>6, <2>4, <3>2 DEF Unfinished, Finished
    <3> QED BY <3>1, <3>2
  <2>6. Settled(t)'
    BY <1>7, <2>4 DEF Settled
  <2>7. Home(t)'
    BY <1>10, <2>1 DEF Home
  <2>8. LoopAware(t, loop[l])'
    <3>1. reg'[t] = reg[t]
      BY <1>1
    <3> QED BY <1>7, <2>1, <2>2, <2>3, <3>1 DEF LoopAware
  <2>9. Cleared(t)'
    BY <2>5 DEF Cleared, Unfinished
  <2>10. Armed(loop'[l]) /\ ~Finishing(loop'[l])
    BY <1>10, <2>1 DEF Armed, Finishing
  <2> QED BY <1>1, <1>2, <1>10, <1>11, <2>5, <2>6, <2>7, <2>8, <2>9, <2>10, LoopOwn
<1>12. \A s \in Session : s # t => reg'[s] = reg[s]
  BY <1>1
<1>13. UNCHANGED <<handles, conn, boot, stop>>
  BY <1>1
<1> QED BY <1>1, <1>8, <1>9, <1>10, <1>11, <1>12, <1>13, LoopOrder

(* LoopRepath.                                                              *)
LEMMA LoopRepathOrder ==
  ASSUME Stage, Marked, NEW l \in Loop, NEW ok \in BOOLEAN, NEW t, t = loop[l].sid,
         LoopRepath(l, ok)
  PROVE  InOrder'
<1>. DEFINE p == loop[l].place
<1>1. /\ Running(l) /\ UNCHANGED <<file, handles, conn, boot, stop>> /\ loop[l].pc = "repath"
      /\ hist' = Outcome(t, ok) /\ loop' = LoopOver(l) /\ UpdateMemoryPath(t, p, ok)
  BY DEF LoopRepath, Running
<1>2. Shape /\ Links /\ t \in Session /\ LoopOK(loop[l]) /\ loop[l] \in Loops /\ Local
      /\ p \in Place
  BY <1>1, LoopStage DEF LoopOK
<1>3. HistGrows /\ FilesClaimed(t)
  BY <1>1, <1>2, OutcomeMarks, SameFiles
<1>4. /\ \A s \in Session : s # t => reg'[s] = reg[s]
      /\ \/ reg'[t] = reg[t] /\ ~(ok /\ HasRecord(t))
         \/ reg'[t].path = p /\ reg'[t].status = reg[t].status /\ HasRecord(t)
  BY <1>1, <1>2, DirTypes DEF UpdateMemoryPath, Shape, CoreTypes, HasRecord, Records
<1>5. /\ \A k \in Loop : k # l => loop'[k] = loop[k]
      /\ loop'[l].sid = t /\ ~loop'[l].fired /\ loop'[l].pc = "end"
  BY <1>1, <1>2, LoopOverFields
<1>6. ASSUME Undisturbed(t)', Orderly(t), LoopAware(t, loop[l]), Issued(t)' PROVE Orderly(t)'
  <2>1. ok /\ (HasRecord(t) => file[p].owner = t)
    BY <1>1, <1>2, <1>6, OutcomeMarks DEF LoopAware
  <2>2. ~Offered(t) /\ Unfinished(t)
    BY <1>1, <1>2, <1>6, LoopKnown
  <2>3. Unfinished(t)' /\ ~Offered(t)'
    BY <1>1, <1>4, <2>2 DEF Unfinished, Finished, Offered
  <2>4. Home(t)'
    <3>1. HasRecord(t)' => reg'[t].path = p /\ HasRecord(t)
      BY <1>4, <2>1 DEF HasRecord
    <3> QED BY <1>1, <1>2, <2>1, <3>1 DEF Home, MetaPlace
  <2>5. LoopAware(t, loop[l])'
    BY <1>5 DEF LoopAware
  <2>6. Cleared(t)' /\ Settled(t)'
    BY <2>3 DEF Cleared, Unfinished, Settled
  <2>7. Armed(loop'[l]) /\ ~Finishing(loop'[l])
    BY <1>5 DEF Armed, Finishing
  <2> QED BY <1>1, <1>2, <1>5, <1>6, <2>3, <2>4, <2>5, <2>6, <2>7, LoopOwn
<1> QED BY <1>1, <1>3, <1>4, <1>5, <1>6, LoopOrder

(* LoopEnd.                                                                 *)
LEMMA LoopEndOrder ==
  ASSUME Stage, Marked, NEW l \in Loop, NEW t, t = loop[l].sid, LoopEnd(l)
  PROVE  InOrder'
<1>1. /\ Running(l) /\ UNCHANGED <<reg, file, boot, stop, hist>> /\ loop[l].pc = "end"
      /\ handles' = [handles EXCEPT ![t] = None]
      /\ loop' = [Fire(loop, handles[t]) EXCEPT ![l] = NoLoop]
  BY DEF LoopEnd, Running
<1>2. Shape /\ Links /\ t \in Session
  BY <1>1, LoopStage
<1>3. /\ \A s \in Session : s # t => handles'[s] = handles[s]
      /\ handles'[t] = None
  BY <1>1, <1>2, LinkTypes
<1>4. /\ loop'[l] = NoLoop
      /\ \A k \in Loop : k # l => loop'[k] = Fire(loop, handles[t])[k]
  BY <1>1 DEF Fire
<1>5. \A k \in Loop : loop'[k] = loop[k] \/ (k = handles[t] /\ loop'[k].sid = loop[k].sid)
                      \/ k = l
  <2>1. \A x \in Loop : /\ Fire(loop, handles[t])[x].sid = loop[x].sid
                        /\ Fire(loop, handles[t])[x] # loop[x] => x = handles[t]
    BY <1>2, LinkTypes, FireTied DEF Links, LoopLinked
  <2> QED BY <1>4, <2>1
<1>6. \A k \in Loop : k = handles[t] => loop[k].sid = t
  BY <1>2, LinkTypes DEF Links, HandleLinked
<1>7. \A c \in Conn : \/ conn'[c] = conn[c]
                      \/ conn[c].sid = t /\ conn'[c] = Idle
                      \/ /\ conn[c].sid = t /\ conn'[c].sid = t
                         /\ conn'[c].pc = conn[c].pc /\ conn[c].pc \in {"send", "picture"}
  <2> SUFFICES ASSUME NEW c \in Conn, conn'[c] # conn[c]
               PROVE  \/ conn[c].sid = t /\ conn'[c] = Idle
                      \/ /\ conn[c].sid = t /\ conn'[c].sid = t
                         /\ conn'[c].pc = conn[c].pc /\ conn[c].pc \in {"send", "picture"}
    OBVIOUS
  <2>1. /\ conn[c].loop = l /\ conn[c].pc \in {"await", "send", "picture"}
        /\ \/ conn'[c] = Idle
           \/ /\ conn[c].pc \in {"send", "picture"}
              /\ conn'[c] = [conn[c] EXCEPT !.loop = None]
    BY DEF LoopEnd
  <2>2. conn[c].sid = t /\ conn[c] \in Messages
    BY <1>2, <2>1, LinkTypes DEF Links, ConnLinked
  <2> QED BY <2>1, <2>2 DEF Messages
<1>8. Private(t)
  <2>1. HistGrows /\ FilesClaimed(t)
    BY <1>1, SameFiles DEF HistGrows, Issued
  <2>2. \A k \in Loop : loop'[k] = loop[k] \/ (loop[k].sid = t /\ loop'[k].sid \in {t, None})
    BY <1>4, <1>5, <1>6, Blank
  <2>3. \A c \in Conn : conn'[c] = conn[c] \/ (conn[c].sid = t /\ conn'[c].sid \in {t, None})
    BY <1>7, Blank
  <2>4. \A s \in Session : reg'[s] = reg[s] /\ stop' = stop
    BY <1>1
  <2> QED BY <1>1, <1>3, <2>1, <2>2, <2>3, <2>4 DEF Private, TasksOf, MapsOf, HistGrows
<1>9. ASSUME Undisturbed(t)' PROVE Orderly(t)'
  <2>1. Orderly(t) /\ Issued(t)'
    BY <1>1, <1>2, <1>9, LoopStage, LoopKnown DEF Undisturbed, Issued
  <2>2. handles[t] \in {None, l}
    BY <1>2, <2>1, LoopKnown
  <2>3. \A k \in Loop : k # l => loop'[k] = loop[k]
    BY <1>2, <1>5, <2>2, LinkTypes
  <2>4. \A c \in Conn : \/ conn'[c] = conn[c]
                        \/ conn'[c] = Idle
                        \/ /\ conn[c].sid = conn'[c].sid
                           /\ conn'[c].pc = conn[c].pc \/ conn'[c].pc = "unstart"
                           /\ conn[c].pc \in {"ready", "send", "picture"}
    BY <1>7
  <2> QED BY <1>1, <1>2, <1>3, <1>4, <2>1, <2>3, <2>4, LoopGone
<1> QED BY <1>2, <1>8, <1>9, PrivateKeeps

(* LoopArm.                                                                 *)
LEMMA LoopArmOrder ==
  ASSUME Stage, Marked, NEW l \in Loop, NEW t, t = loop[l].sid, LoopArm(l)
  PROVE  InOrder'
<1>. DEFINE lp == LoopGoto(l, "begin")
<1>1. /\ Running(l) /\ UNCHANGED <<reg, file, conn, boot, stop, hist>> /\ loop[l].pc = "arm"
      /\ handles' = [handles EXCEPT ![t] = l] /\ loop' = Fire(lp, handles[t])
  BY DEF LoopArm, Running
<1>2. Shape /\ Links /\ t \in Session /\ loop[l] \in Loops
  BY <1>1, LoopStage
<1>3. /\ lp \in [Loop -> Loops] /\ lp[l].pc = "begin" /\ lp[l].sid = t
      /\ lp[l].fired = loop[l].fired /\ lp[l].mem = loop[l].mem /\ lp[l].place = loop[l].place
      /\ \A k \in Loop : k # l => lp[k] = loop[k]
  BY <1>2, LinkTypes DEF LoopGoto, Loops, LoopPCs
<1>. HIDE DEF lp
<1>4. /\ \A s \in Session : s # t => handles'[s] = handles[s]
      /\ handles'[t] = l
  BY <1>1, <1>2, LinkTypes
<1>5. \A k \in Loop : k = handles[t] => loop[k].sid = t
  BY <1>2, LinkTypes DEF Links, HandleLinked
<1>6. \A k \in Loop : loop'[k] = loop[k] \/ (loop[k].sid = t /\ loop'[k].sid = t)
  <2>1. \A k \in Loop : lp[k].fired => lp[k].pc \in {"begin", "capture"}
    BY <1>2, <1>3 DEF Links, LoopLinked
  <2>2. \A k \in Loop : loop'[k].sid = lp[k].sid /\ (loop'[k] # lp[k] => k = handles[t])
    BY <1>1, <1>3, <2>1, FireTied
  <2> QED BY <1>3, <1>5, <2>2
<1>7. Private(t)
  <2>1. HistGrows /\ FilesClaimed(t)
    BY <1>1, SameFiles DEF HistGrows, Issued
  <2>2. \A s \in Session : reg'[s] = reg[s] /\ stop' = stop
    BY <1>1
  <2> QED BY <1>1, <1>4, <1>6, <2>1, <2>2 DEF Private, TasksOf, MapsOf, HistGrows
<1>8. ASSUME Undisturbed(t)' PROVE Orderly(t)'
  <2>1. Orderly(t) /\ Issued(t)' /\ LoopAware(t, loop[l])
    BY <1>1, <1>2, <1>8, LoopStage, LoopKnown DEF Undisturbed, Issued
  <2>2. handles[t] = None
    BY <1>1, <1>2, <2>1, LoopKnown, LinkTypes DEF Links, HandleLinked, Armed
  <2>3. loop' = lp
    <3>1. \A x \in Loop : loop'[x] = lp[x]
      BY <1>1, <1>2, <2>2, LinkTypes DEF Fire
    <3>2. loop' = [x \in Loop |-> loop'[x]]
      BY <1>1 DEF Fire
    <3> QED BY <1>3, <3>1, <3>2
  <2>4. ~loop[l].fired
    BY <1>1, <1>2 DEF Links, LoopLinked
  <2>5. \A c \in Conn : conn[c].sid # t
    <3> SUFFICES ASSUME NEW c \in Conn, conn[c].sid = t PROVE FALSE
      OBVIOUS
    <3>1. Beside(t, conn[c], l)
      BY <1>2, <2>1 DEF Orderly, OneTask
    <3>2. conn[c].pc \in {"ready", "picture", "await", "send"}
      BY <1>1, <3>1 DEF Beside, Armed
    <3>3. conn[c].loop = l
      BY <1>2, <2>1, <3>1, <3>2, LinkTypes DEF Beside, Links, ConnLinked, Orderly, OneTask
    <3> QED BY <1>1, <1>2, <3>2, <3>3, LinkTypes DEF Links, ConnLinked, Starting, Armed
  <2>6. \A k \in Loop : loop'[k].sid = t => k = l
    BY <1>2, <1>3, <2>1, <2>3, LoopKnown
  <2>7. ~Finishing(loop'[l])
    BY <1>3, <2>3, <2>4 DEF Finishing
  <2>8. OneTask(t)'
    BY <1>1, <1>4, <2>5, <2>6, <2>7 DEF OneTask
  <2>9. ~Offered(t) /\ Unfinished(t)
    BY <1>1, <1>2, <2>1, LoopKnown
  <2>10. Settled(t)' /\ Unfinished(t)' /\ Cleared(t)'
    BY <1>1, <2>9 DEF Settled, Offered, Unfinished, Cleared, Finished
  <2>11. MetaPlace(t)' = MetaPlace(t) /\ (HasRecord(t)' <=> HasRecord(t))
    BY <1>1 DEF MetaPlace, HasRecord
  <2>12. Home(t)'
    BY <1>1, <1>2, <2>1, <2>11, LoopKnown DEF Home
  <2>13. LoopAware(t, loop[l])'
    BY <1>1, <1>3, <2>1, <2>3, <2>11 DEF LoopAware
  <2>14. boot'.sid # t
    BY <1>1, <1>2, <2>1, LoopKnown
  <2>15. (stop.sid = t => StopAware(t))'
    BY <1>1, <2>1 DEF Orderly, Aware, StopAware, Finished
  <2>16. Aware(t)'
    <3>1. \A k \in Loop : (loop[k].sid = t => LoopAware(t, loop[k]))'
      BY <2>6, <2>13
    <3> QED BY <1>1, <2>5, <2>14, <2>15, <3>1 DEF Aware
  <2> QED BY <2>1, <2>8, <2>10, <2>12, <2>16 DEF Orderly
<1> QED BY <1>2, <1>7, <1>8, PrivateKeeps

(* Any step of a loop.                                                      *)
LEMMA LoopsOrder ==
  ASSUME Stage, Marked, NEW l \in Loop, LoopNext(l) \/ LoopStep(l) \/ LoopStops(l, FALSE)
  PROVE  InOrder'
<1>. DEFINE t == loop[l].sid
<1>1. CASE LoopArm(l)
  BY <1>1, LoopArmOrder
<1>2. CASE LoopEnd(l)
  BY <1>2, LoopEndOrder
<1>3. CASE LoopStep(l) \/ LoopDrain(l) \/ LoopStops(l, TRUE) \/ LoopStops(l, FALSE)
  BY <1>3, LoopCapturesOrder
<1>4. ASSUME NEW ok \in Outcomes,
             \/ LoopLoad(l, ok) \/ LoopReadMetadata(l, ok) \/ LoopConnect(l, ok)
             \/ LoopBegin(l, ok)
             \/ LoopComplete(l, ok) \/ LoopSettle(l, ok)
             \/ LoopInterrupt(l, ok) \/ LoopDemote(l, ok)
             \/ LoopFlag(l, ok) \/ LoopRename(l, ok) \/ LoopRepath(l, ok)
      PROVE  InOrder'
  <2>1. ok \in BOOLEAN
    BY DEF Outcomes
  <2>2. CASE LoopLoad(l, ok) \/ LoopReadMetadata(l, ok) \/ LoopConnect(l, ok)
    BY <2>1, <2>2, LoopStartsOrder
  <2>3. CASE LoopBegin(l, ok)
    BY <2>1, <2>3, LoopCapturesOrder
  <2>4. CASE LoopComplete(l, ok)
    BY <2>1, <2>4, LoopCompleteOrder
  <2>5. CASE LoopSettle(l, ok)
    BY <2>1, <2>5, LoopSettleOrder
  <2>6. CASE LoopInterrupt(l, ok)
    BY <2>1, <2>6, LoopInterruptOrder
  <2>7. CASE LoopDemote(l, ok) \/ LoopFlag(l, ok)
    BY <2>1, <2>7, LoopDemoteOrder
  <2>8. CASE LoopRename(l, ok)
    BY <2>1, <2>8, LoopRenameOrder
  <2>9. CASE LoopRepath(l, ok)
    BY <2>1, <2>9, LoopRepathOrder
  <2> QED BY <1>4, <2>2, <2>3, <2>4, <2>5, <2>6, <2>7, <2>8, <2>9
<1> QED BY <1>1, <1>2, <1>3, <1>4 DEF LoopNext

-----------------------------------------------------------------------------
(* The message on c about session t, when t is in order.                    *)
LEMMA ConnKnown ==
  ASSUME Shape, Links, NEW c \in Conn, conn[c].pc # "idle", NEW t \in Session, conn[c].sid = t,
         Orderly(t)
  PROVE  /\ boot = Serving /\ boot.sid # t /\ ~InSweep /\ Issued(t) /\ ConnAware(t, conn[c])
         /\ \A d \in Conn : conn[d].sid = t => d = c
         /\ conn[c].pc \notin Together =>
               handles[t] = None /\ \A l \in Loop : loop[l].sid # t
         /\ HasRecord(t) /\ conn[c].pc \notin Together \cup {"init"} =>
               file[MetaPlace(t)].owner = t /\ MetaPlace(t) \in Place
<1>1. boot = Serving /\ boot.sid # t /\ ~InSweep
  <2>1. boot = Serving
    BY ConnFacts
  <2>2. Serving.sid = None /\ Serving.pc = "serving"
    BY DEF Serving, Boot
  <2> QED BY <2>1, <2>2, NoneAssumption DEF InSweep
<1>2. \A d \in Conn : conn[d].sid = t => d = c
  BY DEF Orderly, OneTask
<1>3. conn[c].pc \notin Together => handles[t] = None /\ \A l \in Loop : loop[l].sid # t
  <2>1. conn[c].pc \notin Together => \A l \in Loop : loop[l].sid # t
    BY DEF Orderly, OneTask, Beside, Together
  <2> QED BY <2>1, LinkTypes DEF Links, HandleLinked
<1>4. HasRecord(t) /\ conn[c].pc \notin Together \cup {"init"} =>
         file[MetaPlace(t)].owner = t /\ MetaPlace(t) \in Place
  BY <1>1, <1>2, <1>3, MetaPlaceTyped DEF Orderly, Home, Adrift, Shape
<1>5. Issued(t) /\ ConnAware(t, conn[c])
  BY DEF Orderly, Unborn, Aware
<1> QED BY <1>1, <1>2, <1>3, <1>4, <1>5

(* It goes on, or is answered, and nothing else is at work on t.            *)
LEMMA ConnOwn ==
  ASSUME Shape, Links, NEW c \in Conn, conn[c].pc # "idle", NEW t \in Session, conn[c].sid = t,
         Orderly(t), conn[c].pc \notin Together,
         Issued(t)', handles'[t] = None, \A l \in Loop : loop'[l].sid # t, UNCHANGED <<boot, stop>>,
         \A d \in Conn : d # c => conn'[d] = conn[d],
         conn'[c] = Idle \/ (conn'[c].sid = t /\ conn'[c].pc \notin Together \cup {"init"}
                             /\ ConnAware(t, conn[c])'),
         Offered(t)' => Good(t)', HasRecord(t)' => file'[MetaPlace(t)'].owner = t,
         Cleared(t)',
         reg'[t].status = "active" => conn'[c].pc \in {"clear", "forget", "route"} \/ Unfinished(t)'
  PROVE  Orderly(t)'
<1>1. \A d \in Conn : conn'[d].sid = t => d = c
  BY ConnKnown
<1>2. conn'[c].sid = t => conn'[c].pc \notin Together \cup {"init"} /\ ConnAware(t, conn[c])'
  BY Blank, NoneAssumption
<1>3. OneTask(t)'
  BY <1>1 DEF OneTask
<1>4. Settled(t)'
  BY <1>1, <1>2 DEF Settled, Together
<1>5. Home(t)'
  BY DEF Home
<1>6. Aware(t)'
  <2>1. \A d \in Conn : (conn[d].sid = t => ConnAware(t, conn[d]))'
    BY <1>1, <1>2
  <2>2. boot'.sid # t
    BY ConnKnown
  <2>3. (stop.sid = t => StopAware(t))'
    BY DEF Orderly, Aware, StopAware, Finished
  <2> QED BY <2>1, <2>2, <2>3 DEF Aware
<1>7. (Open(t) => Unfinished(t))'
  <2>1. conn'[c].pc \in {"clear", "forget", "route"} => conn'[c].sid = t
    BY Blank
  <2> QED BY <2>1 DEF Open
<1> QED BY <1>3, <1>4, <1>5, <1>6, <1>7 DEF Orderly

(* A step of the message on c that keeps its session in order.              *)
LEMMA ConnOrder ==
  ASSUME Stage, NEW c \in Conn, NEW t, t = conn[c].sid, conn[c].pc # "idle", HistGrows,
         FilesClaimed(t), \A d \in Conn : d # c => conn'[d] = conn[d], conn'[c].sid \in {t, None},
         \A s \in Session : s # t => reg'[s] = reg[s] /\ handles'[s] = handles[s],
         \A l \in Loop : loop'[l] = loop[l] \/ (loop[l].sid = t /\ loop'[l].sid = t),
         UNCHANGED <<boot, stop>>,
         Undisturbed(t)' /\ Orderly(t) /\ ConnAware(t, conn[c]) /\ Issued(t)' => Orderly(t)'
  PROVE  InOrder'
<1>1. t \in Session /\ Shape /\ Links
  BY ConnFacts DEF Stage
<1>2. Private(t)
  BY DEF Private, TasksOf, MapsOf, HistGrows
<1>3. ASSUME Undisturbed(t)' PROVE Orderly(t)'
  <2>1. Orderly(t)
    BY <1>1, <1>3, StillUndisturbed DEF Stage, InOrder
  <2>2. Issued(t)' /\ ConnAware(t, conn[c])
    BY <1>1, <2>1, ConnKnown DEF HistGrows, Issued
  <2> QED BY <1>3, <2>1, <2>2
<1> QED BY <1>1, <1>2, <1>3, PrivateKeeps

(* The next message on c.                                                   *)
LEMMA MessageMoves ==
  ASSUME Shape, NEW c \in Conn, NEW pc
  PROVE  /\ conn' = Goto(c, pc) =>
              /\ \A d \in Conn : d # c => conn'[d] = conn[d]
              /\ conn'[c].pc = pc /\ conn'[c].sid = conn[c].sid /\ conn'[c].loop = conn[c].loop
              /\ conn'[c].place = conn[c].place /\ conn'[c].mem = conn[c].mem
         /\ conn' = Reply(c) =>
              (\A d \in Conn : d # c => conn'[d] = conn[d]) /\ conn'[c] = Idle
BY LinkTypes DEF Goto, Reply, Messages

(* Nothing is in memory of a session whose message is handled alone.        *)
LEMMA AloneStays ==
  ASSUME Shape, Links, NEW c \in Conn, conn[c].pc # "idle", NEW t \in Session, conn[c].sid = t,
         Orderly(t), conn[c].pc \notin Together, UNCHANGED <<handles, loop>>
  PROVE  handles'[t] = None /\ \A l \in Loop : loop'[l].sid # t
BY ConnKnown

(* InitialiseDir.                                                           *)
LEMMA InitialiseDirOrder ==
  ASSUME Stage, Marked, NEW c \in Conn, NEW ok \in BOOLEAN, NEW uploaded \in BOOLEAN,
         NEW t, t = conn[c].sid, InitialiseDir(c, ok, uploaded)
  PROVE  InOrder'
<1>. DEFINE p == conn[c].place
            made == ok /\ (Local => file[p] = NoFile)
            m == [owner |-> t, status |-> "active", prog |-> "none"]
<1>1. /\ conn[c].pc = "init" /\ UNCHANGED <<reg, loop, handles, boot, stop>>
      /\ hist' = Outcome(t, made /\ uploaded)
      /\ file' = IF made /\ uploaded THEN [file EXCEPT ![p] = m] ELSE file
      /\ conn' = IF made THEN Reply(c) ELSE Goto(c, "rollback")
  BY DEF InitialiseDir
<1>2. Shape /\ Links /\ t \in Session /\ ConnOK(conn[c]) /\ p \in Place
  BY <1>1, ConnFacts DEF Stage, ConnOK
<1>3. (made /\ uploaded) \in BOOLEAN /\ (made => (Local => file[p] = NoFile))
  OBVIOUS
<1>4. m.owner = t /\ m.status = "active"
  OBVIOUS
<1>. HIDE DEF made, m
<1>5. HistGrows
  BY <1>1, <1>2, <1>3, OutcomeMarks
<1>6. /\ \A q \in Place : file'[q] = file[q] \/ (q = p /\ file'[q] = m /\ made)
      /\ made /\ uploaded => file'[p] = m
  BY <1>1, <1>2, FilesTyped
<1>7. FilesClaimed(t)
  <2>1. CASE Local
    BY <1>3, <1>4, <1>6, <2>1, Blank DEF FilesClaimed, Claims
  <2>2. CASE ~Local
    <3>1. p = t /\ file[p].owner \in {None, t}
      BY <1>1, <1>2, <2>2 DEF Stage, Keyed, KeyedConn, KeyedFiles
    <3> QED BY <1>4, <1>6, <3>1 DEF FilesClaimed, Claims
  <2> QED BY <2>1, <2>2
<1>8. /\ \A d \in Conn : d # c => conn'[d] = conn[d]
      /\ conn'[c].sid \in {t, None}
      /\ made => conn'[c] = Idle
  BY <1>1, <1>2, MessageMoves, Blank
<1>9. ASSUME Undisturbed(t)', Orderly(t), ConnAware(t, conn[c]), Issued(t)' PROVE Orderly(t)'
  <2>1. made /\ uploaded
    BY <1>1, <1>2, <1>3, <1>9, OutcomeMarks
  <2>2. file'[p] = m /\ conn'[c] = Idle
    BY <1>6, <1>8, <2>1
  <2>3. MetaPlace(t)' = p
    BY <1>1, <1>9 DEF ConnAware, MetaPlace
  <2>4. \A q \in Place : file'[q].owner = t => ~Finished(file'[q])
    BY <1>1, <1>4, <1>6, <1>9 DEF ConnAware, Finished
  <2>5. ~Offered(t)' /\ Cleared(t)' /\ Unfinished(t)'
    BY <1>1, <1>2, <1>9, <2>4 DEF Orderly, Settled, Offered, Cleared, Unfinished
  <2>6. conn[c].pc \notin Together
    BY <1>1 DEF Together
  <2> QED BY <1>1, <1>2, <1>4, <1>8, <1>9, <2>2, <2>3, <2>5, <2>6, ConnOwn, AloneStays
<1> QED BY <1>1, <1>2, <1>5, <1>7, <1>8, <1>9, ConnOrder

(* What a handler that changes neither files nor memory comes to.           *)
LEMMA ConnRecordOrder ==
  ASSUME Stage, Marked, NEW c \in Conn, NEW t, t = conn[c].sid,
         conn[c].pc \notin Together \cup {"idle"},
         NEW ok \in BOOLEAN, hist' = hist \/ hist' = Outcome(t, ok),
         UNCHANGED <<file, handles, loop, boot, stop>>,
         \A d \in Conn : d # c => conn'[d] = conn[d],
         conn'[c] = Idle \/ (conn'[c].sid = t /\ conn'[c].pc \notin Together \cup {"init"}),
         conn[c].pc \notin {"init", "clear"},
         \A s \in Session : s # t => reg'[s] = reg[s],
         Undisturbed(t)' /\ Orderly(t) /\ ConnAware(t, conn[c]) =>
            /\ HasRecord(t)' => HasRecord(t) /\ reg'[t].path = reg[t].path
            /\ Offered(t)' => Offered(t) \/ Good(t)
            /\ conn'[c].sid = t => ConnAware(t, conn[c])'
            /\ reg'[t].status = "active" =>
                  \/ conn'[c].pc \in {"clear", "forget", "route"}
                  \/ reg[t].status = "active" /\ conn[c].pc \notin {"clear", "forget", "route"}
  PROVE  InOrder'
<1>1. Shape /\ Links /\ t \in Session
  BY ConnFacts DEF Stage
<1>2. HistGrows /\ FilesClaimed(t)
  BY <1>1, OutcomeMarks, SameFiles DEF HistGrows, Issued
<1>3. conn'[c].sid \in {t, None}
  BY Blank
<1>4. ASSUME Undisturbed(t)', Orderly(t), ConnAware(t, conn[c]), Issued(t)' PROVE Orderly(t)'
  <2>1. conn[c].pc # "idle" /\ conn[c].pc \notin Together
    OBVIOUS
  <2>2. HasRecord(t)' => HasRecord(t) /\ MetaPlace(t)' = MetaPlace(t)
    BY <1>4 DEF MetaPlace
  <2>3. HasRecord(t)' => file'[MetaPlace(t)'].owner = t
    BY <1>1, <1>4, <2>2, ConnKnown
  <2>4. Offered(t)' => Good(t)'
    <3>1. Offered(t)' => HasRecord(t)'
      BY DEF Offered, HasRecord, NoRecord
    <3>2. Offered(t)' => Good(t)
      BY <1>4 DEF Orderly, Settled
    <3> QED BY <2>2, <3>1, <3>2 DEF Good, Finished
  <2>5. Cleared(t)'
    <3>1. \A d \in Conn : conn[d].sid = t => conn[d].pc # "clear"
      BY <1>1, <1>4, ConnKnown
    <3> QED BY <1>4, <3>1 DEF Orderly, Cleared, Finished
  <2>6. reg'[t].status = "active" => conn'[c].pc \in {"clear", "forget", "route"} \/ Unfinished(t)'
    <3>1. Unfinished(t) => Unfinished(t)'
      BY DEF Unfinished, Finished
    <3>2. reg[t].status = "active" /\ conn[c].pc \notin {"clear", "forget", "route"} => Open(t)
      BY <1>1, <1>4, <2>1, ConnKnown DEF Open
    <3> QED BY <1>4, <3>1, <3>2 DEF Orderly
  <2> QED BY <1>1, <1>4, <2>1, <2>3, <2>4, <2>5, <2>6, ConnOwn, AloneStays
<1> QED BY <1>1, <1>2, <1>3, <1>4, ConnOrder

(* GiveUp and RouteDirect.                                                  *)
LEMMA RepliesOrder ==
  ASSUME Stage, Marked, NEW c \in Conn, NEW ok \in BOOLEAN, NEW t, t = conn[c].sid,
         GiveUp(c, ok) \/ RouteDirect(c, ok)
  PROVE  InOrder'
<1>0. PICK new : /\ UpdateStatus(t, new, ok) /\ new # "active"
                 /\ new = "incomplete" \/ conn[c].pc = "route"
  BY DEF GiveUp, RouteDirect, AfterCapture
<1>1. /\ conn[c].pc \in {"rollback", "unstart", "route"} /\ hist' = Outcome(t, ok)
      /\ conn' = Reply(c) /\ UNCHANGED <<file, loop, handles, boot, stop>>
  BY DEF GiveUp, RouteDirect
<1>2. Shape /\ Links /\ t \in Session
  BY <1>1, ConnFacts DEF Stage
<1>3. /\ \A s \in Session : s # t => reg'[s] = reg[s]
      /\ \/ reg'[t] = reg[t] /\ ~(ok /\ HasRecord(t))
         \/ reg'[t].path = reg[t].path /\ reg'[t].status = new /\ HasRecord(t)
  BY <1>0, <1>2, DirTypes DEF UpdateStatus, Shape, CoreTypes, HasRecord, Records
<1>4. (\A d \in Conn : d # c => conn'[d] = conn[d]) /\ conn'[c] = Idle
  BY <1>1, <1>2, MessageMoves
<1>5. conn'[c].sid # t
  BY <1>2, <1>4, Blank, NoneAssumption
<1>6. conn[c].pc \notin Together \cup {"idle"} /\ conn[c].pc \notin {"init", "clear"}
  BY <1>1 DEF Together
<1>7. ASSUME Undisturbed(t)', Orderly(t), ConnAware(t, conn[c])
      PROVE  /\ HasRecord(t)' => HasRecord(t) /\ reg'[t].path = reg[t].path
             /\ Offered(t)' => Offered(t) \/ Good(t)
             /\ reg'[t].status # "active"
  <2>1. ok
    BY <1>1, <1>2, <1>7, OutcomeMarks
  <2>2. conn[c].pc = "route" /\ HasRecord(t) => Good(t)
    BY <1>7 DEF ConnAware
  <2> QED BY <1>0, <1>3, <2>1, <2>2 DEF HasRecord, NoRecord, Offered
<1> QED BY <1>1, <1>3, <1>4, <1>5, <1>6, <1>7, ConnRecordOrder

(* LookUp, ForgetDegraded and FetchObject.                                  *)
LEMMA FetchesOrder ==
  ASSUME Stage, Marked, NEW c \in Conn, NEW ok \in BOOLEAN, NEW t, t = conn[c].sid,
         LookUp(c, ok) \/ ForgetDegraded(c) \/ FetchObject(c, ok)
  PROVE  InOrder'
<1>1. /\ conn[c].pc \in {"lookup", "forget", "finalise"}
      /\ hist' = hist \/ hist' = Outcome(t, ok)
      /\ UNCHANGED <<reg, file, loop, handles, boot, stop>>
  BY DEF LookUp, ForgetDegraded, FetchObject
<1>2. Shape /\ Links /\ t \in Session /\ conn[c] \in Messages /\ ConnOK(conn[c])
  <2>1. Shape /\ Links
    BY DEF Stage
  <2>2. conn[c].pc # "idle"
    BY <1>1
  <2> QED BY <2>1, <2>2, ConnFacts
<1>3. MetaPlace(t)' = MetaPlace(t) /\ (HasRecord(t)' <=> HasRecord(t)) /\ (Good(t)' <=> Good(t))
      /\ (Offered(t)' <=> Offered(t)) /\ reg'[t] = reg[t]
  BY <1>1 DEF MetaPlace, HasRecord, Good, Finished, Offered
<1>4. conn \in [Conn -> Messages]
  BY <1>2, LinkTypes
<1>5. /\ \A d \in Conn : d # c => conn'[d] = conn[d]
      /\ \/ conn'[c] = Idle
         \/ conn'[c].sid = t /\ conn'[c].pc \in {"finalise", "forget", "route", "store"}
  <2>1. ASSUME NEW p, conn' = [conn EXCEPT ![c].pc = "finalise", ![c].place = p]
        PROVE  /\ \A d \in Conn : d # c => conn'[d] = conn[d]
               /\ conn'[c].sid = t /\ conn'[c].pc = "finalise"
    BY <1>2, <1>4, <2>1 DEF Messages
  <2>2. ASSUME NEW flag, conn' = [conn EXCEPT ![c].pc = "route", ![c].flag = flag]
        PROVE  /\ \A d \in Conn : d # c => conn'[d] = conn[d]
               /\ conn'[c].sid = t /\ conn'[c].pc = "route"
    BY <1>2, <1>4, <2>2 DEF Messages
  <2>3. ASSUME NEW m, conn' = [conn EXCEPT ![c].pc = "store", ![c].mem = m]
        PROVE  /\ \A d \in Conn : d # c => conn'[d] = conn[d]
               /\ conn'[c].sid = t /\ conn'[c].pc = "store"
    BY <1>2, <1>4, <2>3 DEF Messages
  <2>4. CASE conn' = Reply(c) \/ conn' = Goto(c, "forget")
    BY <1>2, <2>4, MessageMoves
  <2>5. \/ conn' = Reply(c) \/ conn' = Goto(c, "forget")
        \/ conn' = [conn EXCEPT ![c].pc = "finalise", ![c].place = MetaPlace(t)]
        \/ conn' = [conn EXCEPT ![c].pc = "route", ![c].flag = t \in degraded]
        \/ conn' = [conn EXCEPT ![c].pc = "store", ![c].mem = file[conn[c].place]]
    BY DEF LookUp, ForgetDegraded, FetchObject
  <2> QED BY <2>1, <2>2, <2>3, <2>4, <2>5
<1>6. /\ conn[c].pc \notin Together \cup {"idle"} /\ conn[c].pc \notin {"init", "clear"}
      /\ conn'[c].sid = t => conn'[c].pc \notin Together \cup {"init"}
  <2>1. conn'[c].sid = t => conn'[c] # Idle
    BY <1>2, Blank, NoneAssumption
  <2> QED BY <1>1, <1>5, <2>1 DEF Together
<1>7. ASSUME Undisturbed(t)', Orderly(t), ConnAware(t, conn[c]), conn'[c].sid = t
      PROVE  ConnAware(t, conn[c])'
  <2>1. CASE LookUp(c, ok)
    <3>1. conn' = [conn EXCEPT ![c].pc = "finalise", ![c].place = MetaPlace(t)]
      BY <1>2, <1>7, <2>1, MessageMoves, Blank, NoneAssumption DEF LookUp
    <3>2. conn'[c].pc = "finalise" /\ conn'[c].place = MetaPlace(t)
      BY <1>2, <3>1, LinkTypes DEF Messages
    <3> QED BY <1>3, <3>2 DEF ConnAware
  <2>2. CASE ForgetDegraded(c)
    <3>1. conn' = [conn EXCEPT ![c].pc = "route", ![c].flag = t \in degraded]
      BY <2>2 DEF ForgetDegraded
    <3>2. conn'[c].pc = "route" /\ conn[c].pc = "forget"
      BY <1>2, <2>2, <3>1, LinkTypes DEF Messages, ForgetDegraded
    <3> QED BY <1>3, <1>7, <3>2 DEF ConnAware
  <2>3. CASE FetchObject(c, ok)
    <3>. DEFINE p == conn[c].place
    <3>0. /\ ~Local /\ conn[c].pc = "finalise" /\ hist' = Outcome(t, ok)
          /\ \/ /\ ok /\ file[p] # NoFile
                /\ conn' = [conn EXCEPT ![c].pc = "store", ![c].mem = file[p]]
             \/ ~(ok /\ file[p] # NoFile) /\ conn' = Goto(c, "forget")
      BY <2>3 DEF FetchObject
    <3>1. ok /\ (HasRecord(t) => p = MetaPlace(t))
      BY <1>2, <1>7, <3>0, OutcomeMarks DEF ConnAware
    <3>2. p = t /\ p \in Place /\ file[p].owner \in {None, t}
      BY <1>2, <3>0, Places DEF Stage, Keyed, KeyedConn, KeyedFiles, ConnOK
    <3>3. HasRecord(t) => file[p].owner = t
      BY <1>1, <1>2, <1>6, <1>7, <3>0, <3>1, ConnKnown
    <3>4. CASE conn' = Goto(c, "forget") /\ file[p] = NoFile
      <4>1. conn'[c].pc = "forget"
        BY <1>2, <3>4, MessageMoves
      <4>2. ~HasRecord(t)
        BY <1>2, <3>3, <3>4, Blank, NoneAssumption
      <4> QED BY <1>3, <4>1, <4>2 DEF ConnAware
    <3>5. CASE file[p] # NoFile /\ conn' = [conn EXCEPT ![c].pc = "store", ![c].mem = file[p]]
      <4>1. conn'[c].pc = "store" /\ conn'[c].place = p /\ conn'[c].mem = file[p]
        BY <1>2, <3>5, LinkTypes DEF Messages
      <4>2. file[p].owner = t
        BY <1>2, <3>2, <3>5, FilesTyped
      <4> QED BY <1>3, <3>1, <4>1, <4>2 DEF ConnAware
    <3> QED BY <3>0, <3>1, <3>4, <3>5
  <2> QED BY <2>1, <2>2, <2>3
<1>8. reg'[t].status = "active" =>
         \/ conn'[c].pc \in {"clear", "forget", "route"}
         \/ reg[t].status = "active" /\ conn[c].pc \notin {"clear", "forget", "route"}
  <2>1. conn[c].pc = "forget" => conn'[c].pc = "route"
    <3>1. conn[c].pc = "forget" =>
             conn' = [conn EXCEPT ![c].pc = "route", ![c].flag = t \in degraded]
      BY DEF LookUp, ForgetDegraded, FetchObject
    <3> QED BY <1>2, <3>1, LinkTypes DEF Messages
  <2>2. reg'[t].status = reg[t].status
    BY <1>3
  <2>3. conn[c].pc \in {"lookup", "forget", "finalise"}
    BY <1>1
  <2> QED BY <2>1, <2>2, <2>3
<1>9. conn'[c] = Idle \/ (conn'[c].sid = t /\ conn'[c].pc \notin Together \cup {"init"})
  BY <1>5, <1>6
<1> QED BY <1>1, <1>2, <1>3, <1>5, <1>6, <1>7, <1>8, <1>9, ConnRecordOrder

(* DeleteRecord.                                                            *)
LEMMA DeleteRecordOrder ==
  ASSUME Stage, Marked, NEW c \in Conn, NEW ok \in BOOLEAN, NEW t, t = conn[c].sid,
         DeleteRecord(c, ok)
  PROVE  InOrder'
<1>1. /\ conn[c].pc = "wipe" /\ hist' = Outcome(t, ok)
      /\ reg' = IF ok THEN [reg EXCEPT ![t] = NoRecord] ELSE reg
      /\ conn' = IF ok THEN Goto(c, "objects") ELSE Reply(c)
      /\ UNCHANGED <<file, loop, handles, boot, stop>>
  BY DEF DeleteRecord
<1>2. Shape /\ Links /\ t \in Session
  BY <1>1, ConnFacts DEF Stage
<1>3. /\ \A s \in Session : s # t => reg'[s] = reg[s]
      /\ ok => reg'[t] = NoRecord
  BY <1>1, <1>2 DEF Shape, CoreTypes
<1>4. /\ \A d \in Conn : d # c => conn'[d] = conn[d]
      /\ conn'[c] = Idle \/ (conn'[c].sid = t /\ conn'[c].pc = "objects")
  BY <1>1, <1>2, MessageMoves
<1>5. conn'[c] = Idle \/ (conn'[c].sid = t /\ conn'[c].pc \notin Together \cup {"init"})
  BY <1>4 DEF Together
<1>6. conn[c].pc \notin Together \cup {"idle"} /\ conn[c].pc \notin {"init", "clear"}
  BY <1>1 DEF Together
<1>7. ASSUME Undisturbed(t)'
      PROVE  /\ ~HasRecord(t)' /\ ~Offered(t)' /\ reg'[t].status # "active"
             /\ conn'[c].sid = t => ConnAware(t, conn[c])'
  <2>1. reg'[t] = NoRecord
    BY <1>1, <1>2, <1>3, <1>7, OutcomeMarks
  <2>2. conn'[c].sid = t => conn'[c].pc = "objects"
    BY <1>2, <1>4, Blank, NoneAssumption
  <2> QED BY <2>1, <2>2 DEF HasRecord, NoRecord, Offered, ConnAware
<1> QED BY <1>1, <1>3, <1>4, <1>5, <1>6, <1>7, ConnRecordOrder

(* DeleteObjects and PurgeDir.                                              *)
LEMMA DeleteFilesOrder ==
  ASSUME Stage, Marked, NEW c \in Conn, NEW ok \in BOOLEAN, NEW t, t = conn[c].sid,
         DeleteObjects(c, ok) \/ PurgeDir(c, ok)
  PROVE  InOrder'
<1>1. /\ conn[c].pc \in {"objects", "purge"}
      /\ UNCHANGED <<reg, loop, handles, boot, stop>>
      /\ hist' = Outcome(t, ok) \/ hist' = Mark(t, {"purged"})
      /\ conn' = Goto(c, "purge") \/ conn' = Reply(c)
      /\ DeleteAll(t, ok) \/ PurgeMemoryDir(t, conn[c].place, ok)
  BY DEF DeleteObjects, PurgeDir
<1>2. Shape /\ Links /\ t \in Session
  BY <1>1, ConnFacts DEF Stage
<1>3. HistGrows
  BY <1>1, <1>2, OutcomeMarks, MarkGrows
<1>4. \A p \in Place : file'[p] = file[p] \/ (file[p].owner \in {None, t} /\ file'[p] = NoFile)
  <2>1. CASE DeleteAll(t, ok)
    <3>1. ~Local => file[t].owner \in {None, t}
      BY <1>2 DEF Stage, Keyed, KeyedFiles
    <3> QED BY <1>2, <2>1, <3>1, FilesTyped DEF DeleteAll
  <2>2. CASE PurgeMemoryDir(t, conn[c].place, ok)
    BY <1>2, <2>2, FilesTyped DEF PurgeMemoryDir
  <2> QED BY <1>1, <2>1, <2>2
<1>5. FilesClaimed(t)
  BY <1>4, Blank DEF FilesClaimed, Claims
<1>6. /\ \A d \in Conn : d # c => conn'[d] = conn[d]
      /\ conn'[c] = Idle \/ (conn'[c].sid = t /\ conn'[c].pc = "purge")
  BY <1>1, <1>2, MessageMoves
<1>7. conn'[c].sid \in {t, None}
  BY <1>6, Blank
<1>8. ASSUME Undisturbed(t)', Orderly(t), ConnAware(t, conn[c]), Issued(t)' PROVE Orderly(t)'
  <2>1. ~HasRecord(t)' /\ ~Offered(t)' /\ reg'[t].status # "active"
    BY <1>1, <1>8 DEF ConnAware, HasRecord, NoRecord, Offered
  <2>2. Cleared(t)'
    <3>1. \A p \in Place : file'[p].owner = t => file'[p] = file[p]
      BY <1>2, <1>4, Blank, NoneAssumption
    <3>2. \A d \in Conn : conn[d].sid = t => conn[d].pc # "clear"
      BY <1>1, <1>2, <1>8, ConnKnown
    <3> QED BY <1>8, <3>1, <3>2 DEF Orderly, Cleared, Finished
  <2>3. conn[c].pc # "idle" /\ conn[c].pc \notin Together
    BY <1>1 DEF Together
  <2>4. conn'[c] = Idle \/ (conn'[c].sid = t /\ conn'[c].pc \notin Together \cup {"init"}
                            /\ ConnAware(t, conn[c])')
    BY <1>6, <2>1 DEF Together, ConnAware
  <2> QED BY <1>1, <1>2, <1>6, <1>8, <2>1, <2>2, <2>3, <2>4, ConnOwn, AloneStays
<1> QED BY <1>1, <1>2, <1>3, <1>5, <1>6, <1>7, <1>8, ConnOrder

(* MarkComplete and ClearInProgress.                                        *)
LEMMA FinaliseOrder ==
  ASSUME Stage, Marked, NEW c \in Conn, NEW ok \in BOOLEAN, NEW t, t = conn[c].sid, NEW m, NEW next,
         \/ /\ MarkComplete(c, ok) /\ next = "clear"
            /\ m = [file[conn[c].place] EXCEPT !.status = "complete"]
         \/ /\ ClearInProgress(c, ok) /\ next = "forget"
            /\ m = [file[conn[c].place] EXCEPT !.prog = "none"]
  PROVE  InOrder'
<1>. DEFINE p == conn[c].place
<1>1. /\ conn[c].pc = (IF next = "clear" THEN "finalise" ELSE "clear")
      /\ next \in {"clear", "forget"} /\ conn' = Goto(c, next)
      /\ hist' = Works(t, p, ok) /\ Edit(p, m, ok)
      /\ UNCHANGED <<reg, loop, handles, boot, stop>>
  BY DEF MarkComplete, ClearInProgress
<1>2. Shape /\ Links /\ t \in Session /\ p \in Place
  <2>1. Shape /\ Links
    BY DEF Stage
  <2>2. conn[c].pc \in {"finalise", "clear"}
    BY <1>1
  <2> QED BY <2>1, <2>2, ConnFacts DEF ConnOK
<1>3. file[p] # NoFile => /\ m.owner = file[p].owner /\ m.owner \in Session
                          /\ next = "clear" => m.status = "complete" /\ m.prog = file[p].prog
                          /\ next = "forget" => m.prog = "none" /\ m.status = file[p].status
  <2>1. file[p] # NoFile => file[p] \in Meta
    BY <1>2, FilesTyped
  <2>2. ASSUME NEW f \in Meta
        PROVE  /\ [f EXCEPT !.status = "complete"].owner = f.owner
               /\ [f EXCEPT !.status = "complete"].status = "complete"
               /\ [f EXCEPT !.status = "complete"].prog = f.prog
               /\ [f EXCEPT !.prog = "none"].owner = f.owner
               /\ [f EXCEPT !.prog = "none"].prog = "none"
               /\ [f EXCEPT !.prog = "none"].status = f.status
               /\ f.owner \in Session
    BY DEF Meta
  <2>. DEFINE f == file[p]
  <2>3. next = "clear" => m = [f EXCEPT !.status = "complete"]
    OBVIOUS
  <2>4. next = "forget" => m = [f EXCEPT !.prog = "none"]
    OBVIOUS
  <2>. HIDE DEF f
  <2>5. CASE next = "clear"
    BY <2>1, <2>2, <2>3, <2>5 DEF f
  <2>6. CASE next = "forget"
    BY <2>1, <2>2, <2>4, <2>6 DEF f
  <2> QED BY <1>1, <2>5, <2>6
<1>4. \A q \in Place : file'[q] = file[q] \/ (q = p /\ file'[q] = m /\ file[p] # NoFile)
  BY <1>1, <1>2, FilesTyped DEF Edit
<1>5. HistGrows /\ FilesClaimed(t)
  BY <1>1, <1>2, <1>3, <1>4, WorksMarks, WorksClaim
<1>6. (\A d \in Conn : d # c => conn'[d] = conn[d]) /\ conn'[c].pc = next /\ conn'[c].sid = t
      /\ conn'[c].place = p
  BY <1>1, <1>2, MessageMoves
<1>7. MetaPlace(t)' = MetaPlace(t) /\ (HasRecord(t)' <=> HasRecord(t))
      /\ (Offered(t)' <=> Offered(t)) /\ reg'[t] = reg[t]
  BY <1>1 DEF MetaPlace, HasRecord, Offered
<1>8. conn[c].pc # "idle" /\ conn[c].pc \notin Together /\ conn[c].pc \notin Together \cup {"init"}
      /\ conn'[c].pc \notin Together \cup {"init"}
  BY <1>1, <1>6 DEF Together
<1>9. ASSUME Undisturbed(t)', Orderly(t), ConnAware(t, conn[c]), Issued(t)' PROVE Orderly(t)'
  <2>1. ok /\ file[p].owner \in {None, t}
    BY <1>1, <1>2, <1>9, WorksMarks
  <2>2. file[p] # NoFile => file'[p] = m
    BY <1>1, <1>2, <2>1, FilesTyped DEF Edit
  <2>3. HasRecord(t) => p = MetaPlace(t) /\ file[p].owner = t /\ file[p] # NoFile
    <3>1. HasRecord(t) => p = MetaPlace(t)
      BY <1>1, <1>9 DEF ConnAware
    <3>2. HasRecord(t) => file[MetaPlace(t)].owner = t
      BY <1>2, <1>8, <1>9, ConnKnown
    <3> QED BY <1>2, <3>1, <3>2, Blank, NoneAssumption
  <2>4. HasRecord(t) => file'[p] = m /\ m.owner = t
    BY <1>3, <2>2, <2>3
  <2>5. next = "forget" /\ HasRecord(t) => Finished(file[p])
    BY <1>1, <1>9, <2>3 DEF ConnAware
  <2>6. ConnAware(t, conn[c])'
    <3>1. CASE next = "clear"
      <4>1. HasRecord(t) => Finished(m)
        BY <1>3, <2>3, <3>1 DEF Finished
      <4>2. Finished(m) => Finished(m)'
        BY DEF Finished
      <4> QED BY <1>6, <1>7, <2>3, <2>4, <3>1, <4>1 DEF ConnAware, Finished
    <3>2. CASE next = "forget"
      <4>1. HasRecord(t) => Finished(m) /\ m.prog = "none"
        BY <1>3, <2>3, <2>5, <3>2 DEF Finished
      <4> QED BY <1>6, <1>7, <2>3, <2>4, <3>2, <4>1 DEF ConnAware, Good, Finished
    <3> QED BY <1>1, <3>1, <3>2
  <2>7. Offered(t)' => Good(t)'
    <3>1. Offered(t)' => HasRecord(t) /\ Good(t)
      BY <1>7, <1>9 DEF Orderly, Settled, Offered, HasRecord, NoRecord
    <3>2. Good(t) /\ HasRecord(t) => Finished(m) /\ m.prog = "none"
      BY <1>1, <1>3, <2>3 DEF Good, Finished
    <3> QED BY <1>7, <2>3, <2>4, <3>1, <3>2 DEF Good, Finished
  <2>8. HasRecord(t)' => file'[MetaPlace(t)'].owner = t
    BY <1>7, <2>3, <2>4
  <2>9. Cleared(t)'
    <3> SUFFICES ASSUME NEW q \in Place, file'[q].owner = t, Finished(file'[q])
                 PROVE  file'[q].prog = "none" \/ (next = "clear" /\ q = p)
      BY <1>6 DEF Cleared, Finished
    <3>1. CASE q = p
      <4>1. file[p] # NoFile
        BY <1>2, <1>4, <3>1, Blank, NoneAssumption
      <4> QED BY <1>1, <1>3, <2>2, <3>1, <4>1
    <3>2. CASE q # p
      <4>1. file'[q] = file[q]
        BY <1>4, <3>2
      <4>2. \A d \in Conn : conn[d].sid = t /\ conn[d].pc = "clear" => conn[d].place # q
        BY <1>2, <1>8, <1>9, <3>2, ConnKnown
      <4> QED BY <1>9, <4>1, <4>2 DEF Orderly, Cleared, Finished
    <3> QED BY <3>1, <3>2
  <2> QED BY <1>1, <1>2, <1>6, <1>8, <1>9, <2>6, <2>7, <2>8, <2>9, ConnOwn, AloneStays
<1> QED BY <1>1, <1>2, <1>5, <1>6, <1>8, <1>9, ConnOrder

(* StoreComplete.                                                           *)
LEMMA StoreCompleteOrder ==
  ASSUME Stage, Marked, NEW c \in Conn, NEW ok \in BOOLEAN, NEW t, t = conn[c].sid,
         StoreComplete(c, ok)
  PROVE  InOrder'
<1>. DEFINE p == conn[c].place
            m == [conn[c].mem EXCEPT !.status = "complete", !.prog = "none"]
<1>1. /\ conn[c].pc = "store" /\ hist' = Outcome(t, ok) /\ Write(p, m, ok)
      /\ conn' = [conn EXCEPT ![c].pc = "forget", ![c].mem = NoFile]
      /\ UNCHANGED <<reg, loop, handles, boot, stop>>
  BY DEF StoreComplete
<1>2. Shape /\ Links /\ t \in Session /\ p \in Place /\ conn[c].mem \in Meta /\ ~Local
      /\ conn[c] \in Messages
  BY <1>1, ConnFacts DEF Stage, ConnOK, Links, ConnLinked
<1>3. m.owner = conn[c].mem.owner /\ m.status = "complete" /\ m.prog = "none"
  BY <1>2 DEF Meta
<1>. HIDE DEF m
<1>4. p = t /\ m.owner \in {None, t} /\ file[p].owner \in {None, t}
  BY <1>1, <1>2, <1>3 DEF Stage, Keyed, KeyedConn, KeyedFiles
<1>5. /\ \A q \in Place : file'[q] = file[q] \/ (q = p /\ file'[q] = m)
      /\ ok => file'[p] = m
  BY <1>1, <1>2, FilesTyped DEF Write
<1>6. HistGrows /\ FilesClaimed(t)
  BY <1>1, <1>2, <1>4, <1>5, OutcomeMarks DEF FilesClaimed, Claims
<1>7. (\A d \in Conn : d # c => conn'[d] = conn[d]) /\ conn'[c].pc = "forget" /\ conn'[c].sid = t
  BY <1>1, <1>2, LinkTypes DEF Messages
<1>8. MetaPlace(t)' = MetaPlace(t) /\ (HasRecord(t)' <=> HasRecord(t))
      /\ (Offered(t)' <=> Offered(t)) /\ reg'[t] = reg[t] /\ MetaPlace(t) = t
  BY <1>1, <1>2 DEF MetaPlace, HasRecord, Offered
<1>9. conn[c].pc # "idle" /\ conn[c].pc \notin Together /\ conn'[c].pc \notin Together \cup {"init"}
  BY <1>1, <1>7 DEF Together
<1>10. ASSUME Undisturbed(t)', Orderly(t), ConnAware(t, conn[c]), Issued(t)' PROVE Orderly(t)'
  <2>1. ok
    BY <1>1, <1>2, <1>10, OutcomeMarks
  <2>2. m.owner = t
    BY <1>1, <1>3, <1>10 DEF ConnAware
  <2>3. Good(t)'
    BY <1>3, <1>4, <1>5, <1>8, <2>1, <2>2 DEF Good, Finished
  <2>4. ConnAware(t, conn[c])'
    BY <1>7, <2>3 DEF ConnAware
  <2>5. Cleared(t)'
    <3>1. \A d \in Conn : conn[d].sid = t => conn[d].pc # "clear"
      BY <1>1, <1>2, <1>10, ConnKnown
    <3> QED BY <1>3, <1>5, <1>10, <3>1 DEF Orderly, Cleared, Finished
  <2>6. file'[MetaPlace(t)'].owner = t
    BY <2>3 DEF Good
  <2> QED BY <1>1, <1>2, <1>7, <1>9, <1>10, <2>3, <2>4, <2>5, <2>6, ConnOwn, AloneStays
<1> QED BY <1>1, <1>2, <1>6, <1>7, <1>9, <1>10, ConnOrder

(* DropHandle.                                                              *)
LEMMA DropHandleOrder ==
  ASSUME Stage, Marked, NEW c \in Conn, NEW t, t = conn[c].sid, DropHandle(c)
  PROVE  InOrder'
<1>1. /\ conn[c].pc = "unhandle" /\ loop' = Fire(loop, handles[t])
      /\ handles' = [handles EXCEPT ![t] = None] /\ conn' = Goto(c, "wipe")
      /\ UNCHANGED <<reg, file, boot, stop, hist>>
  BY DEF DropHandle
<1>2. Shape /\ Links /\ t \in Session
  BY <1>1, ConnFacts DEF Stage
<1>3. HistGrows /\ FilesClaimed(t)
  BY <1>1, SameFiles DEF HistGrows, Issued
<1>4. (\A d \in Conn : d # c => conn'[d] = conn[d]) /\ conn'[c].pc = "wipe" /\ conn'[c].sid = t
  BY <1>1, <1>2, MessageMoves
<1>5. handles'[t] = None /\ \A s \in Session : s # t => handles'[s] = handles[s]
  BY <1>1, <1>2, LinkTypes
<1>6. \A k \in Loop : loop'[k].sid = loop[k].sid /\ (loop'[k] # loop[k] => k = handles[t])
  BY <1>1, <1>2, LinkTypes, FireTied DEF Links, LoopLinked
<1>7. \A k \in Loop : loop'[k] = loop[k] \/ (loop[k].sid = t /\ loop'[k].sid = t)
  BY <1>2, <1>6, LinkTypes DEF Links, HandleLinked
<1>8. conn[c].pc # "idle" /\ conn[c].pc \notin Together \cup {"init"} /\ conn[c].pc \notin Together
      /\ conn'[c].pc \notin Together \cup {"init"}
  BY <1>1, <1>4 DEF Together
<1>9. ASSUME Undisturbed(t)', Orderly(t), ConnAware(t, conn[c]), Issued(t)' PROVE Orderly(t)'
  <2>1. \A k \in Loop : loop'[k].sid # t
    BY <1>2, <1>6, <1>8, <1>9, ConnKnown
  <2>2. ConnAware(t, conn[c])'
    BY <1>4 DEF ConnAware
  <2>3. Offered(t)' => Good(t)'
    BY <1>1, <1>9 DEF Offered, Good, Orderly, Settled, MetaPlace, Finished
  <2>4. HasRecord(t)' => file'[MetaPlace(t)'].owner = t
    BY <1>1, <1>2, <1>8, <1>9, ConnKnown DEF HasRecord, MetaPlace
  <2>5. Cleared(t)'
    <3>1. \A d \in Conn : conn[d].sid = t => conn[d].pc # "clear"
      BY <1>1, <1>2, <1>9, ConnKnown
    <3> QED BY <1>1, <1>9, <3>1 DEF Orderly, Cleared, Finished
  <2>6. reg'[t].status = "active" => Unfinished(t)'
    <3>1. reg[t].status = "active" => Open(t)
      BY <1>1, <1>2, <1>8, <1>9, ConnKnown DEF Open
    <3> QED BY <1>1, <1>9, <3>1 DEF Orderly, Unfinished, Finished
  <2> QED BY <1>1, <1>2, <1>4, <1>5, <1>8, <1>9, <2>1, <2>2, <2>3, <2>4, <2>5, <2>6, ConnOwn
<1> QED BY <1>1, <1>2, <1>3, <1>4, <1>5, <1>7, <1>8, <1>9, ConnOrder

(* SendDone and ClosingImage.                                               *)
LEMMA SendDoneOrder ==
  ASSUME Stage, Marked, NEW c \in Conn, NEW t, t = conn[c].sid, SendDone(c) \/ ClosingImage(c)
  PROVE  InOrder'
<1>. DEFINE k == conn[c].loop
<1>1. /\ conn[c].pc \in {"send", "picture"} /\ loop' \in {loop, Fire(loop, k)}
      /\ \/ conn' = Reply(c) \/ conn' = Goto(c, "await")
         \/ conn' = Goto(c, "picture") /\ conn[c].pc = "send"
      /\ UNCHANGED <<reg, file, handles, boot, stop, hist>>
  BY DEF SendDone, ClosingImage, Awaits
<1>2. Shape /\ Links /\ t \in Session
  BY <1>1, ConnFacts DEF Stage
<1>3. HistGrows /\ FilesClaimed(t)
  BY <1>1, SameFiles DEF HistGrows, Issued
<1>4. /\ \A d \in Conn : d # c => conn'[d] = conn[d]
      /\ \/ conn'[c] = Idle
         \/ conn'[c].sid = t /\ conn'[c].pc = "await"
         \/ conn'[c].sid = t /\ conn'[c].pc = "picture" /\ conn[c].pc = "send" /\ conn'[c].loop = k
  BY <1>1, <1>2, MessageMoves
<1>5. \A x \in Loop : /\ loop'[x].sid = loop[x].sid /\ loop'[x].pc = loop[x].pc
                      /\ loop'[x].mem = loop[x].mem /\ loop'[x].place = loop[x].place
                      /\ loop'[x] # loop[x] => x = k
  BY <1>1, <1>2, LinkTypes, FireTied DEF Links, LoopLinked
<1>6. \A x \in Loop : loop'[x] = loop[x] \/ (loop[x].sid = t /\ loop'[x].sid = t)
  <2>1. k # None => loop[k].sid = t
    BY <1>1, <1>2 DEF Links, ConnLinked
  <2> QED BY <1>2, <1>5, <2>1, LinkTypes
<1>7. conn'[c].sid \in {t, None} /\ conn[c].pc # "idle"
  BY <1>1, <1>4, Blank
<1>8. \A s \in Session : s # t => reg'[s] = reg[s] /\ handles'[s] = handles[s]
  BY <1>1
<1>9. ASSUME Undisturbed(t)', Orderly(t), ConnAware(t, conn[c]), Issued(t)' PROVE Orderly(t)'
  <2>1. handles'[t] = None
    BY <1>1, <1>9 DEF Orderly, OneTask
  <2>2. \A d \in Conn : conn[d].sid = t => d = c
    BY <1>2, <1>7, <1>9, ConnKnown
  <2>3. \A d \in Conn : conn'[d].sid = t =>
          /\ d = c /\ conn'[c].pc \in {"picture", "await"}
          /\ conn'[c].pc = "picture" => conn[c].pc = "send" /\ conn'[c].loop = k
    BY <1>2, <1>4, <2>2, Blank, NoneAssumption
  <2>4. OneTask(t)'
    BY <1>5, <1>9, <2>1, <2>3 DEF Orderly, OneTask, Beside
  <2>5. MetaPlace(t)' = MetaPlace(t) /\ (HasRecord(t)' <=> HasRecord(t)) /\ (Good(t)' <=> Good(t))
        /\ (Offered(t)' <=> Offered(t)) /\ (Unfinished(t)' <=> Unfinished(t))
    BY <1>1 DEF MetaPlace, HasRecord, Good, Finished, Offered, Unfinished
  <2>6. Settled(t)'
    BY <1>5, <1>9, <2>1, <2>3, <2>5 DEF Orderly, Settled
  <2>7. boot.sid # t /\ ~InSweep
    BY <1>2, <1>7, <1>9, ConnKnown
  <2>8. Home(t)'
    BY <1>1, <1>5, <1>9, <2>2, <2>5, <2>7 DEF Orderly, Home, Adrift
  <2>9. ASSUME NEW l \in Loop, loop'[l].sid = t PROVE LoopAware(t, loop[l])'
    <3>1. LoopAware(t, loop[l])
      BY <1>5, <1>9, <2>9 DEF Orderly, Aware
    <3>2. file' = file /\ reg' = reg
      BY <1>1
    <3> QED BY <1>5, <2>5, <3>1, <3>2 DEF LoopAware, Finished
  <2>10. (stop.sid = t => StopAware(t))'
    BY <1>1, <1>9 DEF Orderly, Aware, StopAware, Finished
  <2>11. Aware(t)'
    <3>1. \A d \in Conn : (conn[d].sid = t => ConnAware(t, conn[d]))'
      BY <2>3 DEF ConnAware
    <3> QED BY <1>1, <2>7, <2>9, <2>10, <3>1 DEF Aware
  <2>12. Cleared(t)'
    BY <1>1, <1>9, <2>2 DEF Orderly, Cleared, Finished
  <2>13. (Open(t) => Unfinished(t))'
    <3>1. Open(t)' => Open(t)
      BY <1>1, <1>5, <2>1, <2>2 DEF Open
    <3> QED BY <1>9, <2>5, <3>1 DEF Orderly
  <2> QED BY <1>9, <2>4, <2>6, <2>8, <2>11, <2>12, <2>13 DEF Orderly
<1>10. UNCHANGED <<boot, stop>>
  BY <1>1
<1> QED BY <1>2, <1>3, <1>4, <1>6, <1>7, <1>8, <1>9, <1>10, ConnOrder

(* SetReasoningStatus.                                                      *)
LEMMA SetReasoningOrder ==
  ASSUME Stage, Marked, NEW c \in Conn, NEW ok \in BOOLEAN, NEW t, t = conn[c].sid,
         SetReasoningStatus(c, ok)
  PROVE  InOrder'
<1>0. PICK new \in {"reasoning_degraded", "active"} : UpdateStatus(t, new, ok)
  BY DEF SetReasoningStatus
<1>1. /\ conn[c].pc \in {"degrade", "reset"} /\ hist' = Outcome(t, ok) /\ conn' = Reply(c)
      /\ UNCHANGED <<file, loop, handles, boot, stop>>
  BY DEF SetReasoningStatus
<1>2. Shape /\ Links /\ t \in Session
  <2>1. conn[c].pc # "idle"
    BY <1>1
  <2> QED BY <2>1, ConnFacts DEF Stage
<1>3. HistGrows /\ FilesClaimed(t)
  BY <1>1, <1>2, OutcomeMarks, SameFiles
<1>4. /\ \A s \in Session : s # t => reg'[s] = reg[s]
      /\ reg'[t] = reg[t] \/ (reg'[t].path = reg[t].path /\ reg'[t].status = new /\ HasRecord(t))
  BY <1>0, <1>2, DirTypes DEF UpdateStatus, Shape, CoreTypes, HasRecord, Records
<1>5. (\A d \in Conn : d # c => conn'[d] = conn[d]) /\ conn'[c] = Idle
  BY <1>1, <1>2, MessageMoves
<1>6. conn'[c].sid = None /\ conn[c].pc # "idle"
  BY <1>1, <1>5, Blank
<1>7. ASSUME Undisturbed(t)', Orderly(t), ConnAware(t, conn[c]), Issued(t)' PROVE Orderly(t)'
  <2>1. \A d \in Conn : conn'[d].sid # t
    BY <1>2, <1>5, <1>6, <1>7, ConnKnown, NoneAssumption
  <2>2. Unfinished(t)
    BY <1>1, <1>7 DEF ConnAware
  <2>3. Unfinished(t)' /\ Cleared(t)'
    BY <1>1, <2>2 DEF Unfinished, Cleared, Finished
  <2>4. OneTask(t)'
    BY <1>1, <1>7, <2>1 DEF Orderly, OneTask, Finishing
  <2>5. ~Offered(t)'
    BY <1>1, <1>4, <1>7 DEF Orderly, Settled, Offered
  <2>6. HasRecord(t)' => HasRecord(t) /\ MetaPlace(t)' = MetaPlace(t) /\ reg'[t].path = reg[t].path
    BY <1>4 DEF HasRecord, MetaPlace
  <2>7. boot.sid # t /\ ~InSweep
    BY <1>2, <1>6, <1>7, ConnKnown
  <2>8. Home(t)'
    <3>1. \A d \in Conn : conn[d].sid = t => d = c
      BY <1>2, <1>6, <1>7, ConnKnown
    <3> QED BY <1>1, <1>7, <2>6, <2>7, <3>1 DEF Orderly, Home, Adrift
  <2>9. ASSUME NEW l \in Loop, loop'[l].sid = t PROVE LoopAware(t, loop[l])'
    <3>1. LoopAware(t, loop[l]) /\ loop' = loop /\ file' = file
      BY <1>1, <1>7, <2>9 DEF Orderly, Aware
    <3>2. HasRecord(t)' => (Good(t) => Good(t)')
      BY <2>6, <3>1 DEF Good, Finished
    <3> QED BY <2>6, <3>1, <3>2 DEF LoopAware, Finished
  <2>10. (stop.sid = t => StopAware(t))'
    BY <1>1, <1>7 DEF Orderly, Aware, StopAware, Finished
  <2>11. Aware(t)'
    BY <1>1, <2>1, <2>7, <2>9, <2>10 DEF Aware
  <2> QED BY <1>7, <2>3, <2>4, <2>5, <2>8, <2>11 DEF Orderly, Settled
<1>8. UNCHANGED <<handles, loop, boot, stop>>
  BY <1>1
<1> QED BY <1>2, <1>3, <1>4, <1>5, <1>6, <1>7, <1>8, ConnOrder

(* Any step of a message.                                                   *)
LEMMA ConnsOrder ==
  ASSUME Stage, Marked, NEW c \in Conn, ConnNext(c)
  PROVE  InOrder'
<1>1. CASE SendDone(c) \/ ClosingImage(c)
  BY <1>1, SendDoneOrder
<1>2. CASE ForgetDegraded(c)
  BY <1>2, FetchesOrder
<1>3. CASE DropHandle(c)
  BY <1>3, DropHandleOrder
<1>4. ASSUME NEW ok \in Outcomes, NEW uploaded \in Outcomes,
             \/ InitialiseDir(c, ok, uploaded)
             \/ GiveUp(c, ok) \/ LookUp(c, ok) \/ RouteDirect(c, ok)
             \/ MarkComplete(c, ok) \/ ClearInProgress(c, ok)
             \/ FetchObject(c, ok) \/ StoreComplete(c, ok)
             \/ SetReasoningStatus(c, ok)
             \/ DeleteRecord(c, ok) \/ DeleteObjects(c, ok) \/ PurgeDir(c, ok)
      PROVE  InOrder'
  <2>1. ok \in BOOLEAN /\ uploaded \in BOOLEAN
    BY DEF Outcomes
  <2>2. CASE InitialiseDir(c, ok, uploaded)
    BY <2>1, <2>2, InitialiseDirOrder
  <2>3. CASE GiveUp(c, ok) \/ RouteDirect(c, ok)
    BY <2>1, <2>3, RepliesOrder
  <2>4. CASE LookUp(c, ok) \/ FetchObject(c, ok)
    BY <2>1, <2>4, FetchesOrder
  <2>5. CASE MarkComplete(c, ok) \/ ClearInProgress(c, ok)
    BY <2>1, <2>5, FinaliseOrder
  <2>6. CASE StoreComplete(c, ok)
    BY <2>1, <2>6, StoreCompleteOrder
  <2>7. CASE SetReasoningStatus(c, ok)
    BY <2>1, <2>7, SetReasoningOrder
  <2>8. CASE DeleteRecord(c, ok)
    BY <2>1, <2>8, DeleteRecordOrder
  <2>9. CASE DeleteObjects(c, ok) \/ PurgeDir(c, ok)
    BY <2>1, <2>9, DeleteFilesOrder
  <2> QED BY <1>4, <2>2, <2>3, <2>4, <2>5, <2>6, <2>7, <2>8, <2>9
<1>5. \E o \in Outcomes : TRUE
  BY DEF Outcomes
<1> QED BY <1>1, <1>2, <1>3, <1>4, <1>5 DEF ConnNext

-----------------------------------------------------------------------------
(* A message that comes while nothing, or a loop that captures, is at work. *)
LEMMA ArrivalOwn ==
  ASSUME Stage, NEW c \in Conn, conn[c] = Idle, boot = Serving, NEW s \in Session, Quiet(s),
         Orderly(s), Issued(s)', UNCHANGED <<reg, file, loop, boot, stop>>,
         \A d \in Conn : d # c => conn'[d] = conn[d], conn'[c].sid = s,
         handles'[s] \in {None, handles[s]},
         \/ conn'[c].pc = "send" /\ handles'[s] = None /\ conn'[c].loop = handles[s]
         \/ conn'[c].pc \in {"lookup", "unhandle", "wipe"} /\ \A l \in Loop : loop[l].sid # s
         \/ conn'[c].pc \in {"degrade", "reset"} /\ \E l \in Loop : loop[l].sid = s
  PROVE  Orderly(s)'
<1>0. Shape /\ Links
  BY DEF Stage
<1>1. boot.sid # s /\ ~InSweep
  BY NoneAssumption DEF Serving, Boot, InSweep
<1>2. \A d \in Conn : conn'[d].sid = s => d = c
  BY DEF Quiet
<1>3. \A l \in Loop : loop[l].sid = s => loop[l].pc = "capture" /\ ~loop[l].fired
                                         /\ handles[s] = l
  <2>1. ASSUME NEW l \in Loop, loop[l].sid = s PROVE handles[s] = l
    <3>1. loop[l].pc = "capture" /\ ~loop[l].fired
      BY <2>1 DEF Quiet, Capturing
    <3>2. ~\E d \in Conn : conn[d].pc = "send" /\ conn[d].loop = l
      BY <1>0, <2>1, LinkTypes DEF Quiet, Links, ConnLinked
    <3> QED BY <2>1, <3>1, <3>2 DEF Stage, NoOrphanLoop
  <2> QED BY <2>1 DEF Quiet, Capturing
<1>4. \A l \in Loop : loop[l].sid = s => ~Finishing(loop[l]) /\ Armed(loop[l])
  BY <1>3 DEF Finishing, Armed
<1>5. OneTask(s)'
  <2>1. ASSUME NEW l \in Loop, loop'[l].sid = s PROVE Beside(s, conn[c], l)'
    BY <1>3, <1>4, <2>1 DEF Beside, Finishing, Armed
  <2>2. handles'[s] # None => ~Finishing(loop'[handles'[s]])
    BY DEF Orderly, OneTask, Finishing
  <2>3. conn'[c].pc \in {"send", "picture", "await"} => handles'[s] = None
    OBVIOUS
  <2> QED BY <1>2, <2>1, <2>2, <2>3 DEF Orderly, OneTask
<1>6. MetaPlace(s)' = MetaPlace(s) /\ (HasRecord(s)' <=> HasRecord(s)) /\ (Good(s)' <=> Good(s))
      /\ (Offered(s)' <=> Offered(s)) /\ (Unfinished(s)' <=> Unfinished(s))
  BY DEF MetaPlace, HasRecord, Good, Finished, Offered, Unfinished
<1>7. (\E l \in Loop : loop[l].sid = s) => ~Offered(s) /\ Unfinished(s)
  BY <1>3 DEF Orderly, Settled, Open
<1>8. Settled(s)'
  BY <1>2, <1>6, <1>7 DEF Orderly, Settled
<1>9. Home(s)'
  BY <1>1, <1>6 DEF Orderly, Home, Quiet, Capturing, Adrift
<1>10. Aware(s)'
  <2>1. ASSUME NEW l \in Loop, loop'[l].sid = s PROVE LoopAware(s, loop[l])'
    <3>1. LoopAware(s, loop[l])
      BY <2>1 DEF Orderly, Aware
    <3> QED BY <1>6, <3>1 DEF LoopAware, Finished
  <2>2. ConnAware(s, conn[c])'
    BY <1>6, <1>7 DEF ConnAware
  <2>3. (stop.sid = s => StopAware(s))'
    BY DEF Orderly, Aware, StopAware, Finished
  <2> QED BY <1>1, <1>2, <2>1, <2>2, <2>3 DEF Aware
<1>11. Cleared(s)'
  BY DEF Orderly, Cleared, Quiet, Finished
<1>12. (Open(s) => Unfinished(s))'
  <2>1. Open(s)' => Open(s)
    <3>1. \A d \in Conn : conn[d].sid # s
      BY DEF Quiet
    <3> QED BY <3>1 DEF Open
  <2> QED BY <1>6, <2>1 DEF Orderly
<1> QED BY <1>5, <1>8, <1>9, <1>10, <1>11, <1>12 DEF Orderly

(* A message that keeps its session in order.                               *)
LEMMA ArrivalOrder ==
  ASSUME Stage, NEW c \in Conn, NEW s \in Session, conn[c].sid \in {None, s}, HistGrows,
         FilesClaimed(s), \A d \in Conn : d # c => conn'[d] = conn[d], conn'[c].sid = s,
         \A x \in Session : x # s => reg'[x] = reg[x] /\ handles'[x] = handles[x],
         \A l \in Loop : loop'[l] = loop[l] \/ (loop[l].sid \in {s, None} /\ loop'[l].sid = s),
         UNCHANGED <<boot, stop>>,
         Undisturbed(s)' /\ Orderly(s) => Orderly(s)'
  PROVE  InOrder'
<1>1. Private(s)
  BY DEF Private, TasksOf, MapsOf, HistGrows
<1>2. ASSUME Undisturbed(s)' PROVE Orderly(s)'
  BY <1>2, StillUndisturbed DEF Stage, InOrder
<1> QED BY <1>1, <1>2, PrivateKeeps

(* Done.                                                                    *)
LEMMA DoneOrder ==
  ASSUME Stage, Marked, NEW c \in Conn, NEW s \in Session, Done(c, s)
  PROVE  InOrder'
<1>0. Shape /\ Links /\ NoOrphanLoop
  BY DEF Stage
<1>1. /\ boot = Serving /\ Issued(s) /\ conn[c].pc = "idle" /\ hist' = Arrives(s)
      /\ UNCHANGED <<reg, file, loop, boot, stop>>
      /\ handles' = [handles EXCEPT ![s] = None]
      /\ conn' = [conn EXCEPT ![c] = Message(IF handles[s] = None THEN "lookup" ELSE "send",
                                            s, handles[s], None, FALSE)]
  BY DEF Done, Accepts
<1>2. conn[c] = Idle
  BY <1>0, <1>1 DEF Links, ConnLinked
<1>3. HistGrows /\ FilesClaimed(s)
  BY <1>0, <1>1, ArrivalMarks, SameFiles
<1>4. /\ \A d \in Conn : d # c => conn'[d] = conn[d]
      /\ conn'[c].sid = s /\ conn'[c].loop = handles[s]
      /\ conn'[c].pc = IF handles[s] = None THEN "lookup" ELSE "send"
  BY <1>0, <1>1, LinkTypes DEF Message
<1>5. (\A x \in Session : x # s => handles'[x] = handles[x]) /\ handles'[s] = None
  BY <1>0, <1>1, LinkTypes
<1>6. ASSUME Undisturbed(s)', Orderly(s) PROVE Orderly(s)'
  <2>1. Quiet(s) /\ Issued(s)'
    BY <1>0, <1>1, <1>3, <1>6, ArrivalMarks DEF HistGrows, Issued
  <2>2. handles[s] = None => \A l \in Loop : loop[l].sid # s
    <3>1. SUFFICES ASSUME NEW l \in Loop, loop[l].sid = s, handles[s] = None PROVE FALSE
      OBVIOUS
    <3>2. loop[l].pc = "capture" /\ ~loop[l].fired
      BY <2>1, <3>1 DEF Quiet, Capturing
    <3>3. ~\E d \in Conn : conn[d].pc = "send" /\ conn[d].loop = l
      BY <1>0, <2>1, <3>1, LinkTypes DEF Quiet, Links, ConnLinked
    <3>4. handles[s] = l
      BY <1>0, <3>1, <3>2, <3>3 DEF NoOrphanLoop
    <3> QED BY <1>0, <3>1, <3>4, LinkTypes
  <2> QED BY <1>1, <1>2, <1>4, <1>5, <1>6, <2>1, <2>2, ArrivalOwn
<1> QED BY <1>1, <1>2, <1>3, <1>4, <1>5, <1>6, ArrivalOrder, Blank

(* ReasoningDegraded and CircuitReset.                                      *)
LEMMA ReportsOrder ==
  ASSUME Stage, Marked, NEW c \in Conn, NEW s \in Session,
         ReasoningDegraded(c, s) \/ CircuitReset(c, s)
  PROVE  InOrder'
<1>0. Shape /\ Links
  BY DEF Stage
<1>1. /\ boot = Serving /\ Issued(s) /\ conn[c].pc = "idle" /\ hist' = Reports(s)
      /\ UNCHANGED <<reg, file, loop, handles, boot, stop>>
      /\ \E pc \in {"degrade", "reset"} :
            conn' = [conn EXCEPT ![c] = Message(pc, s, None, None, FALSE)]
  BY DEF ReasoningDegraded, CircuitReset, Accepts
<1>2. conn[c] = Idle
  BY <1>0, <1>1 DEF Links, ConnLinked
<1>3. HistGrows /\ FilesClaimed(s)
  BY <1>0, <1>1, ArrivalMarks, SameFiles
<1>4. /\ \A d \in Conn : d # c => conn'[d] = conn[d]
      /\ conn'[c].sid = s /\ conn'[c].pc \in {"degrade", "reset"}
  BY <1>0, <1>1, LinkTypes DEF Message
<1>6. ASSUME Undisturbed(s)', Orderly(s) PROVE Orderly(s)'
  <2>1. Quiet(s) /\ Issued(s)' /\ \E l \in Loop : loop[l].sid = s
    BY <1>0, <1>1, <1>3, <1>6, ArrivalMarks DEF HistGrows, Issued
  <2> QED BY <1>1, <1>2, <1>4, <1>6, <2>1, ArrivalOwn
<1> QED BY <1>1, <1>2, <1>3, <1>4, <1>6, ArrivalOrder, Blank

(* DeleteSession.                                                           *)
LEMMA DeleteOrder ==
  ASSUME Stage, Marked, NEW c \in Conn, NEW s \in Session, NEW force, NEW ok,
         DeleteSession(c, s, force, ok)
  PROVE  InOrder'
<1>0. Shape /\ Links
  BY DEF Stage
<1>1. /\ boot = Serving /\ Issued(s) /\ conn[c].pc = "idle" /\ hist' = Interrupts(s)
      /\ UNCHANGED <<reg, file, loop, handles, boot, stop>>
      /\ \E pc \in {"unhandle", "wipe"} : \E p :
            conn' = [conn EXCEPT ![c] = Message(pc, s, None, p, force)]
  BY DEF DeleteSession, Accepts
<1>2. conn[c] = Idle
  BY <1>0, <1>1 DEF Links, ConnLinked
<1>3. HistGrows /\ FilesClaimed(s)
  BY <1>0, <1>1, ArrivalMarks, SameFiles
<1>4. /\ \A d \in Conn : d # c => conn'[d] = conn[d]
      /\ conn'[c].sid = s /\ conn'[c].pc \in {"unhandle", "wipe"}
  BY <1>0, <1>1, LinkTypes DEF Message
<1>6. ASSUME Undisturbed(s)', Orderly(s) PROVE Orderly(s)'
  <2>1. Free(s) /\ Issued(s)'
    BY <1>0, <1>1, <1>3, <1>6, ArrivalMarks DEF HistGrows, Issued
  <2>2. Quiet(s) /\ \A l \in Loop : loop[l].sid # s
    BY <2>1 DEF Free, Quiet
  <2> QED BY <1>1, <1>2, <1>4, <1>6, <2>1, <2>2, ArrivalOwn
<1> QED BY <1>1, <1>2, <1>3, <1>4, <1>6, ArrivalOrder, Blank

(* RegisterSession: nothing is known of the session yet.                    *)
LEMMA RegisterOrder ==
  ASSUME Stage, Marked, NEW c \in Conn, NEW s \in Session, NEW n \in Name,
         RegisterSession(c, s, n)
  PROVE  InOrder'
<1>. DEFINE p == IF Local THEN <<n, FALSE>> ELSE s
            r == [status |-> "active", path |-> <<n, FALSE>>]
<1>0. Shape /\ Links
  BY DEF Stage
<1>1. /\ boot = Serving /\ conn[c].pc = "idle" /\ ~Issued(s)
      /\ UNCHANGED <<file, loop, handles, boot, stop>>
      /\ reg' = [reg EXCEPT ![s] = r]
      /\ conn' = [conn EXCEPT ![c] = Message("init", s, None, p, FALSE)]
      /\ hist' = [hist EXCEPT ![s] = @ \cup {"issued"}]
  BY DEF RegisterSession, Accepts
<1>2. conn[c] = Idle
  BY <1>0, <1>1 DEF Links, ConnLinked
<1>3. r.status = "active" /\ r.path = <<n, FALSE>> /\ r # NoRecord
  BY DEF NoRecord
<1>4. p = IF Local THEN r.path ELSE s
  BY <1>3
<1>. HIDE DEF r, p
<1>5. /\ \A d \in Conn : d # c => conn'[d] = conn[d]
      /\ conn'[c].sid = s /\ conn'[c].pc = "init" /\ conn'[c].place = p
  BY <1>0, <1>1, LinkTypes DEF Message
<1>6. /\ reg'[s] = r /\ \A x \in Session : x # s => reg'[x] = reg[x]
      /\ hist'[s] = hist[s] \cup {"issued"} /\ \A x \in Session : x # s => hist'[x] = hist[x]
  BY <1>0, <1>1 DEF Shape, CoreTypes
<1>7. Private(s)
  <2>1. FilesClaimed(s)
    BY <1>1, SameFiles
  <2>2. TasksOf(s)
    BY <1>1, <1>2, <1>5, Blank DEF TasksOf
  <2>3. MapsOf(s)
    BY <1>1, <1>6 DEF MapsOf
  <2>4. \A x \in Session : hist[x] \subseteq hist'[x] /\ (x # s => (Issued(x)' => Issued(x)))
    BY <1>6 DEF Issued
  <2> QED BY <1>1, <2>1, <2>2, <2>3, <2>4 DEF Private
<1>8. ASSUME Undisturbed(s)' PROVE Orderly(s)'
  <2>1. Undisturbed(s)
    BY <1>6, <1>8 DEF Undisturbed
  <2>2. Unborn(s)
    BY <1>1, <2>1 DEF Stage, InOrder, Orderly
  <2>3. Issued(s)'
    BY <1>6 DEF Issued
  <2>4. /\ \A q \in Place : file'[q].owner # s
        /\ \A l \in Loop : loop'[l].sid # s
        /\ \A d \in Conn : conn'[d].sid = s => d = c
        /\ handles'[s] = None
    BY <1>1, <1>5, <2>2 DEF Unborn
  <2>5. OneTask(s)'
    BY <2>4 DEF OneTask
  <2>6. Settled(s)' /\ Cleared(s)' /\ Unfinished(s)'
    BY <1>3, <1>6, <2>4 DEF Settled, Offered, Cleared, Unfinished
  <2>7. Home(s)'
    BY <1>5 DEF Home
  <2>8. HasRecord(s)' /\ MetaPlace(s)' = p
    BY <1>3, <1>4, <1>6 DEF HasRecord, MetaPlace
  <2>9. boot'.sid # s /\ stop'.sid # s
    <3>1. boot'.sid # s
      BY <1>1, NoneAssumption DEF Serving, Boot
    <3>2. stop.sid # s
      BY <1>0, <2>2 DEF Unborn, Links, StopLinked
    <3> QED BY <1>1, <3>1, <3>2
  <2>10. Aware(s)'
    <3>1. ConnAware(s, conn[c])'
      BY <1>5, <2>4, <2>8 DEF ConnAware
    <3> QED BY <2>4, <2>9, <3>1 DEF Aware
  <2> QED BY <2>3, <2>5, <2>6, <2>7, <2>10 DEF Orderly
<1> QED BY <1>7, <1>8, PrivateKeeps

(* StartWatch: of an active session at which nothing is at work.            *)
LEMMA StartOrder ==
  ASSUME Stage, Marked, NEW c \in Conn, NEW s \in Session, NEW l \in Loop, StartWatch(c, s, l)
  PROVE  InOrder'
<1>. DEFINE v == [NoLoop EXCEPT !.pc = "load", !.sid = s]
<1>0. Shape /\ Links
  BY DEF Stage
<1>1. /\ boot = Serving /\ conn[c].pc = "idle" /\ loop[l].pc = "none" /\ hist' = Starts(s)
      /\ UNCHANGED <<reg, file, handles, boot, stop>>
      /\ loop' = [loop EXCEPT ![l] = v]
      /\ conn' = [conn EXCEPT ![c] = Message("ready", s, l, None, FALSE)]
      /\ HasRecord(s)
  BY DEF StartWatch, Accepts, Running
<1>2. conn[c] = Idle /\ loop[l] = NoLoop
  BY <1>0, <1>1 DEF Links, ConnLinked, LoopLinked
<1>3. v.pc = "load" /\ v.sid = s /\ ~v.fired
  BY DEF NoLoop
<1>. HIDE DEF v
<1>4. HistGrows /\ FilesClaimed(s)
  BY <1>0, <1>1, ArrivalMarks, SameFiles
<1>5. /\ \A d \in Conn : d # c => conn'[d] = conn[d]
      /\ conn'[c].sid = s /\ conn'[c].pc = "ready"
  BY <1>0, <1>1, LinkTypes DEF Message
<1>6. loop'[l] = v /\ \A k \in Loop : k # l => loop'[k] = loop[k]
  BY <1>0, <1>1, LinkTypes
<1>7. ASSUME Undisturbed(s)', Orderly(s) PROVE Orderly(s)'
  <2>1. Free(s) /\ reg[s].status = "active" /\ Issued(s)'
    BY <1>0, <1>1, <1>4, <1>7, ArrivalMarks DEF HistGrows, Issued, Orderly, Unborn
  <2>2. /\ \A d \in Conn : conn'[d].sid = s => d = c
        /\ \A k \in Loop : loop'[k].sid = s => k = l
    BY <1>5, <1>6, <2>1 DEF Free
  <2>3. handles'[s] = None
    BY <1>0, <1>1, <2>1, LinkTypes DEF Free, Links, HandleLinked
  <2>4. stop'.sid # s /\ boot'.sid # s
    <3>1. boot.sid # s
      BY <1>1, NoneAssumption DEF Serving, Boot
    <3> QED BY <1>0, <1>1, <2>3, <3>1 DEF Links, StopLinked
  <2>5. Unfinished(s)
    BY <1>1, <1>7, <2>1 DEF Orderly, Open, Free
  <2>6. MetaPlace(s)' = MetaPlace(s) /\ file[MetaPlace(s)].owner = s
    <3>1. ~InSweep
      BY <1>1 DEF InSweep, Serving, Boot
    <3> QED BY <1>1, <1>7, <2>1, <2>4, <3>1 DEF Orderly, Home, Adrift, Free, MetaPlace
  <2>7. OneTask(s)'
    <3>1. Beside(s, conn[c], l)'
      BY <1>5 DEF Beside
    <3> QED BY <1>5, <2>2, <2>3, <3>1 DEF OneTask
  <2>8. Settled(s)' /\ Cleared(s)' /\ Unfinished(s)' /\ Home(s)'
    BY <1>1, <2>1, <2>5, <2>6 DEF Settled, Offered, Cleared, Unfinished, Finished, Home
  <2>9. Aware(s)'
    <3>1. LoopAware(s, loop[l])'
      BY <1>3, <1>6 DEF LoopAware
    <3>2. ConnAware(s, conn[c])'
      BY <1>5 DEF ConnAware
    <3> QED BY <2>2, <2>4, <3>1, <3>2 DEF Aware
  <2> QED BY <2>1, <2>7, <2>8, <2>9 DEF Orderly
<1> QED BY <1>1, <1>2, <1>3, <1>4, <1>5, <1>6, <1>7, ArrivalOrder, Blank

(* A message comes.                                                         *)
LEMMA ReceivesOrder ==
  ASSUME Stage, Marked, NEW c \in Conn, Receive(c)
  PROVE  InOrder'
BY RegisterOrder, StartOrder, DoneOrder, ReportsOrder, DeleteOrder DEF Receive

-----------------------------------------------------------------------------
(* The signal handler.                                                      *)
LEMMA SignalOrder ==
  ASSUME Stage, Signal
  PROVE  InOrder'
<1>1. ASSUME NEW s \in Session, Orderly(s) PROVE Orderly(s)'
  <2>1. stop'.sid = None
    BY DEF Signal, NoSignal
  <2>2. Elsewhere(s)
    BY <2>1, NoneAssumption DEF Signal, Elsewhere, Issued
  <2> QED BY <1>1, <2>2, ElsewhereKeeps DEF Signal, Stage
<1> QED BY <1>1 DEF Signal, Stage, InOrder, Undisturbed

(* A change of the recording of t that is not finished, and of nothing else *)
(* but of what the signal handler holds.                                    *)
LEMMA StopOwn ==
  ASSUME Shape, Links, NEW t \in Session, Orderly(t), handles[t] # None, Issued(t)',
         UNCHANGED <<reg, loop, handles, conn, boot>>,
         \A p \in Place : file'[p] = file[p] \/ (file'[p].owner = t /\ ~Finished(file'[p])
                                                 /\ file[p].owner \in {None, t}),
         stop'.sid = t => StopAware(t)'
  PROVE  Orderly(t)'
<1>1. Unfinished(t)
  BY DEF Orderly, Open
<1>2. Unfinished(t)'
  BY <1>1 DEF Unfinished, Finished
<1>3. ~Offered(t)
  BY DEF Orderly, Settled
<1>4. OneTask(t)'
  BY DEF Orderly, OneTask, Beside, Finishing, Armed
<1>5. /\ MetaPlace(t)' = MetaPlace(t) /\ (HasRecord(t)' <=> HasRecord(t))
      /\ (Offered(t)' <=> Offered(t))
  BY DEF MetaPlace, HasRecord, Offered
<1>6. loop[handles[t]].sid = t /\ handles[t] \in Loop /\ Armed(loop[handles[t]])
  BY LinkTypes DEF Links, HandleLinked
<1>7. boot = Serving /\ boot.sid # t /\ ~InSweep
  <2>. DEFINE l == handles[t]
  <2>. HIDE DEF l
  <2>1. l = handles[t] => boot = Serving /\ boot.sid # t /\ ~InSweep
    BY <1>6, LoopKnown
  <2> QED BY <2>1 DEF l
<1>8. \A p \in Place : file[p].owner = t => file'[p].owner = t
  OBVIOUS
<1>9. Home(t)'
  <2>1. HasRecord(t) => MetaPlace(t) \in Place
    BY MetaPlaceTyped DEF Shape
  <2> QED BY <1>5, <1>7, <1>8, <2>1 DEF Orderly, Home, Adrift
<1>10. Settled(t)' /\ Cleared(t)'
  BY <1>2, <1>3, <1>5 DEF Settled, Cleared, Unfinished
<1>11. Aware(t)'
  <2>1. ASSUME NEW l \in Loop, loop'[l].sid = t PROVE LoopAware(t, loop[l])'
    <3>1. LoopAware(t, loop[l]) /\ LoopOK(loop[l]) /\ l = handles[t]
      BY <1>6, <2>1 DEF Orderly, Aware, OneTask, Shape
    <3>2. loop[l].pc # "settle"
      BY <3>1 DEF Orderly, OneTask, Finishing
    <3>3. loop[l].pc = "repath" => loop[l].place \in Place
      BY <3>1 DEF LoopOK
    <3> QED BY <1>5, <1>8, <3>1, <3>2, <3>3 DEF LoopAware
  <2>2. ASSUME NEW c \in Conn, conn'[c].sid = t PROVE ConnAware(t, conn[c])'
    <3>1. Beside(t, conn[c], handles[t])
      BY <1>6, <2>2 DEF Orderly, OneTask
    <3> QED BY <1>2, <3>1 DEF ConnAware, Beside
  <2> QED BY <1>7, <2>1, <2>2 DEF Aware
<1> QED BY <1>2, <1>4, <1>9, <1>10, <1>11 DEF Orderly

(* StoreInterrupted and FlagInterrupted.                                    *)
LEMMA StoreOrder ==
  ASSUME Stage, Marked, NEW ok \in BOOLEAN, NEW t, t = stop.sid,
         StoreInterrupted(ok)
  PROVE  InOrder'
<1>. DEFINE m == [stop.mem EXCEPT !.prog = "interrupted"]
<1>0. Shape /\ Links
  BY DEF Stage
<1>1. /\ t # None /\ Write(t, m, ok) /\ hist' = Outcome(t, ok)
      /\ UNCHANGED <<reg, loop, handles, conn, boot>>
      /\ stop' = [stop EXCEPT !.sid = None, !.mem = NoFile]
  BY DEF StoreInterrupted
<1>2. t \in Session /\ ~Local /\ stop.mem \in Meta
  BY <1>0, <1>1 DEF Shape, StopShape, CoreTypes
<1>3. stop.mem.owner \in {None, t} /\ t \in Place
  BY <1>2 DEF Stage, Keyed, KeyedFiles, KeyedStop, Place
<1>4. m.owner = stop.mem.owner /\ m.status = stop.mem.status
  BY <1>2 DEF Meta
<1>5. stop'.sid = None
  BY <1>0, <1>1 DEF Shape, CoreTypes
<1>. HIDE DEF m
<1>6. \A p \in Place : file'[p] = file[p] \/ (p = t /\ file'[p] = m)
  BY <1>0, <1>1, <1>3, FilesTyped DEF Write
<1>7. HistGrows
  BY <1>0, <1>1, <1>2, OutcomeMarks
<1>8. file[t].owner \in {None, t}
  BY <1>2 DEF Stage, Keyed, KeyedFiles
<1>9. Private(t)
  <2>1. FilesClaimed(t)
    BY <1>3, <1>4, <1>6, <1>8 DEF FilesClaimed, Claims
  <2>2. MapsOf(t)
    BY <1>1, <1>5, NoneAssumption DEF MapsOf
  <2> QED BY <1>1, <1>7, <2>1, <2>2 DEF Private, TasksOf, HistGrows
<1>10. ASSUME Undisturbed(t)' PROVE Orderly(t)'
  <2>1. Orderly(t) /\ StopAware(t)
    BY <1>2, <1>7, <1>10, StillUndisturbed DEF Stage, InOrder, Orderly, Aware
  <2>2. handles[t] # None
    BY <1>0, <1>2 DEF Links, StopLinked
  <2>3. Issued(t)'
    BY <1>1, <1>2, <1>7, <2>1, <2>2 DEF Orderly, Unborn, HistGrows, Issued
  <2>4. m.owner = t /\ ~Finished(m)
    BY <1>4, <2>1 DEF StopAware, Finished
  <2> QED BY <1>0, <1>1, <1>2, <1>5, <1>6, <1>8, <2>1, <2>2, <2>3, <2>4, NoneAssumption, StopOwn
<1> QED BY <1>2, <1>9, <1>10, PrivateKeeps

(* FlagInterrupted: the session was never offered, and stays so.            *)
LEMMA FlagOrder ==
  ASSUME Stage, Marked, NEW s \in Session, NEW ok \in BOOLEAN, FlagInterrupted(s, ok)
  PROVE  InOrder'
<1>. DEFINE p == MetaPlace(s)
            m == [file[p] EXCEPT !.prog = "interrupted"]
            found == ok /\ HasRecord(s)
            fetched == found /\ ~Local /\ file[p] # NoFile
<1>0. Shape /\ Links
  BY DEF Stage
<1>1. /\ s \in stop.todo /\ UNCHANGED <<reg, loop, handles, conn, boot>>
      /\ stop' = [stop EXCEPT !.todo = @ \ {s}, !.sid = IF fetched THEN s ELSE None,
                              !.mem = IF fetched THEN file[p] ELSE NoFile]
      /\ IF found /\ Local THEN Edit(p, m, ok) ELSE UNCHANGED file
      /\ hist' = IF found THEN Works(s, p, ok) ELSE Outcome(s, ok)
  BY DEF FlagInterrupted
<1>2. found => p \in Place
  BY <1>0, MetaPlaceTyped DEF Shape
<1>3. p \in Place /\ file[p] # NoFile =>
         /\ file[p] \in Meta /\ file[p].owner \in Session
         /\ m.owner = file[p].owner /\ m.status = file[p].status
  <2>1. \A v \in Meta : LET w == [v EXCEPT !.prog = "interrupted"]
                         IN  v.owner \in Session /\ w.owner = v.owner /\ w.status = v.status
    BY DEF Meta
  <2>2. p \in Place /\ file[p] # NoFile => file[p] \in Meta
    BY <1>0 DEF Shape, CoreTypes
  <2> QED BY <2>1, <2>2
<1>4. /\ found \in BOOLEAN /\ fetched \in BOOLEAN
      /\ (found => ok) /\ (fetched => found /\ file[p] # NoFile)
  OBVIOUS
<1>. HIDE DEF p, m, found, fetched
<1>5. /\ stop'.sid = IF fetched THEN s ELSE None
      /\ stop'.mem = IF fetched THEN file[p] ELSE NoFile
  BY <1>0, <1>1 DEF Shape, CoreTypes
<1>6. \A q \in Place : file'[q] = file[q] \/ (q = p /\ file[p] # NoFile /\ found /\ file'[q] = m)
  <2>1. CASE found /\ Local
    <3>1. (file' = [file EXCEPT ![p] = m] /\ file[p] # NoFile) \/ file' = file
      BY <1>1, <2>1 DEF Edit
    <3> QED BY <1>0, <1>2, <2>1, <3>1, FilesTyped
  <2> QED BY <1>1, <2>1
<1>7. HistGrows
  BY <1>0, <1>1, <1>2, WorksMarks, OutcomeMarks
<1>8. FilesClaimed(s)
  <2>1. CASE found
    <3>1. \A q \in Place : q # p => file'[q] = file[q]
      BY <1>6
    <3>2. file'[p] = file[p] \/ file'[p].owner = file[p].owner
      BY <1>2, <1>3, <1>6, <2>1
    <3> QED BY <1>1, <1>2, <2>1, <3>1, <3>2, WorksClaim
  <2> QED BY <1>1, <2>1, SameFiles
<1>9. Private(s)
  <2>1. MapsOf(s)
    BY <1>1, <1>5, NoneAssumption DEF MapsOf
  <2> QED BY <1>1, <1>7, <1>8, <2>1 DEF Private, TasksOf, HistGrows
<1>10. ASSUME Undisturbed(s)' PROVE Orderly(s)'
  <2>1. Orderly(s)
    BY <1>7, <1>10, StillUndisturbed DEF Stage, InOrder
  <2>2. handles[s] # None
    BY <1>0, <1>1 DEF Links, StopLinked
  <2>3. Issued(s)'
    BY <1>7, <2>1, <2>2 DEF Orderly, Unborn, HistGrows, Issued
  <2>4. Unfinished(s)
    BY <2>1, <2>2 DEF Orderly, Open
  <2>5. found => file[p].owner \in {None, s}
    BY <1>0, <1>1, <1>2, <1>10, WorksMarks
  <2>6. found /\ file[p] # NoFile => file[p].owner = s /\ ~Finished(file[p])
    BY <1>2, <1>3, <2>4, <2>5, NoneAssumption DEF Unfinished
  <2>7. found /\ file[p] # NoFile => m.owner = s /\ ~Finished(m)
    BY <1>2, <1>3, <2>6 DEF Finished
  <2>8. StopAware(s)' \/ stop'.sid # s
    BY <1>4, <1>5, <2>6, NoneAssumption DEF StopAware, Finished
  <2>9. \A q \in Place : file'[q] = file[q] \/ (file'[q].owner = s /\ ~Finished(file'[q])
                                                 /\ file[q].owner \in {None, s})
    BY <1>6, <2>5, <2>7
  <2> QED BY <1>0, <1>1, <2>1, <2>2, <2>3, <2>8, <2>9, StopOwn
<1> QED BY <1>9, <1>10, PrivateKeeps

-----------------------------------------------------------------------------
(* Before ma-core serves: nothing is in memory, and a session is in order   *)
(* when its record, its files and the sweep agree.                          *)
AtBoot(s) ==
    /\ ~Issued(s) => ~HasRecord(s) /\ \A p \in Place : file[p].owner # s
    /\ Offered(s) => Good(s)
    /\ HasRecord(s) => \/ Adrift(s)
                       \/ boot.sid = s /\ boot.pc = "repath"
                       \/ file[MetaPlace(s)].owner = s
    /\ boot.sid = s => BootAware(s)
    /\ \A p \in Place : file[p].owner = s /\ Finished(file[p]) => file[p].prog = "none"

(* Start-up begins with nothing in memory.                                  *)
LEMMA BootEmpty ==
  ASSUME Shape, Links, boot.pc # "serving"
  PROVE  /\ \A l \in Loop : loop[l].sid = None
         /\ \A c \in Conn : conn[c].sid = None
         /\ \A s \in Session : handles[s] = None
         /\ stop.sid = None /\ boot # Serving
<1>1. /\ boot # Serving
      /\ \A c \in Conn : conn[c].pc = "idle"
      /\ \A l \in Loop : loop[l].pc = "none"
      /\ stop.sid = None
  BY DEF Shape, BootShape, StopShape, Serving, Boot
<1>2. \A l \in Loop : loop[l].sid = None
  BY <1>1, Blank DEF Links, LoopLinked
<1>3. \A c \in Conn : conn[c].sid = None
  BY <1>1, Blank DEF Links, ConnLinked
<1> QED BY <1>1, <1>2, <1>3, LinkTypes DEF Links, HandleLinked

(* So being in order comes down to records, files and the sweep,            *)
LEMMA BootKnown ==
  ASSUME Shape, Links, boot.pc # "serving", NEW s \in Session, Orderly(s)
  PROVE  AtBoot(s)
<1>1. /\ \A l \in Loop : loop[l].sid # s
      /\ \A c \in Conn : conn[c].sid # s
  BY BootEmpty, NoneAssumption
<1>2. ~Issued(s) => ~HasRecord(s) /\ \A p \in Place : file[p].owner # s
  BY DEF Orderly, Unborn
<1>3. Offered(s) => Good(s)
  BY DEF Orderly, Settled
<1>4. HasRecord(s) => \/ Adrift(s)
                      \/ boot.sid = s /\ boot.pc = "repath"
                      \/ file[MetaPlace(s)].owner = s
  BY <1>1 DEF Orderly, Home
<1>5. boot.sid = s => BootAware(s)
  BY DEF Orderly, Aware
<1>6. \A p \in Place : file[p].owner = s /\ Finished(file[p]) => file[p].prog = "none"
  BY <1>1 DEF Orderly, Cleared
<1> QED BY <1>2, <1>3, <1>4, <1>5, <1>6 DEF AtBoot

(* and coming down to them is enough.                                       *)
LEMMA BootOwn ==
  ASSUME NEW s \in Session,
         \A l \in Loop : loop'[l].sid # s, \A c \in Conn : conn'[c].sid # s,
         handles'[s] = None, stop'.sid # s,
         AtBoot(s)', boot' = Serving => reg'[s].status # "active"
  PROVE  Orderly(s)'
<1>1. (~Issued(s) => Unborn(s))' /\ OneTask(s)' /\ Settled(s)'
  BY DEF AtBoot, Unborn, OneTask, Settled
<1>2. Home(s)' /\ Aware(s)' /\ Cleared(s)'
  BY DEF AtBoot, Home, Aware, Cleared
<1>3. ~Open(s)'
  BY DEF Open
<1> QED BY <1>1, <1>2, <1>3 DEF Orderly

(* A step of start-up.                                                      *)
LEMMA BootOrder ==
  ASSUME Stage, Marked, boot.pc # "serving", UNCHANGED <<loop, handles, conn, stop>>, HistGrows,
         boot' # Serving,
         \A s \in Session : Undisturbed(s)' /\ AtBoot(s) /\ (Issued(s)' <=> Issued(s)) => AtBoot(s)'
  PROVE  InOrder'
<1> SUFFICES ASSUME NEW s \in Session, Undisturbed(s)' PROVE Orderly(s)'
  BY DEF InOrder
<1>1. Orderly(s) /\ (Issued(s)' <=> Issued(s))
  BY StillUndisturbed DEF Stage, InOrder, HistGrows, Issued
<1>2. AtBoot(s)'
  BY <1>1, BootKnown DEF Stage
<1> QED BY <1>2, BootEmpty, BootOwn, NoneAssumption DEF Stage

(* It leaves s alone.                                                       *)
LEMMA BootElsewhere ==
  ASSUME Shape, NEW s \in Session, AtBoot(s), Issued(s)' <=> Issued(s), reg'[s] = reg[s],
         \A p \in Place : s \in {file[p].owner, file'[p].owner} => file'[p] = file[p],
         Adrift(s) => Adrift(s)', ~(boot.sid = s /\ boot.pc = "repath"), boot'.sid # s
  PROVE  AtBoot(s)'
<1>1. MetaPlace(s)' = MetaPlace(s) /\ (HasRecord(s)' <=> HasRecord(s))
      /\ (Offered(s)' <=> Offered(s)) /\ (Offered(s) => HasRecord(s))
  BY DEF MetaPlace, HasRecord, Offered, NoRecord
<1>2. HasRecord(s) => MetaPlace(s) \in Place
  BY MetaPlaceTyped DEF Shape
<1>3. HasRecord(s) /\ Good(s) => Good(s)'
  BY <1>1, <1>2 DEF Good, Finished
<1>4. HasRecord(s)' => Adrift(s)' \/ file'[MetaPlace(s)'].owner = s
  BY <1>1, <1>2 DEF AtBoot
<1> QED BY <1>1, <1>3, <1>4 DEF AtBoot, Finished

(* SweepActive: replays Done on a complete recording, or goes on to demote. *)
LEMMA SweepActiveOrder ==
  ASSUME Stage, Swept, Marked, NEW t \in Session, NEW ok \in BOOLEAN, NEW replayed \in BOOLEAN,
         SweepActive(t, ok, replayed)
  PROVE  InOrder'
<1>. DEFINE p == MetaPlace(t)
            m == IF ok /\ Mode # "cloud" THEN file[p] ELSE NoFile
            replay == /\ Mode = "kafka" /\ m.prog = "interrupted" /\ m.status # "complete"
                      /\ replayed
            next == CASE m.status = "complete" \/ replay -> "restore"
                      [] Local -> "rename"
                      [] OTHER -> "demote"
            w == [file[t] EXCEPT !.status = "pending_annotation", !.prog = "none"]
<1>0. Shape /\ Links
  BY DEF Stage
<1>1. /\ boot.pc = "active" /\ t \in boot.todo /\ (replayed => replay)
      /\ boot' = Boot(next, boot.todo \ {t}, t, reg[t].path)
      /\ file' = IF replay THEN [file EXCEPT ![t].status = "pending_annotation",
                                             ![t].prog = "none"] ELSE file
      /\ hist' = Works(t, p, ok) /\ UNCHANGED <<reg, loop, handles, conn, stop>>
  BY DEF SweepActive
<1>2. HasRecord(t) /\ reg[t].status = "active" /\ p \in Place
  BY <1>0, <1>1, MetaPlaceTyped DEF Shape, BootShape, Swept, InSweep
<1>3. /\ next \in {"restore", "rename", "demote"} /\ (next = "rename" => Local)
      /\ next = "demote" => ~Local
      /\ next = "restore" => m.status = "complete" \/ replay
      /\ replay => ~Local /\ ok /\ m = file[p] /\ m.prog = "interrupted" /\ Mode # "cloud"
  BY DEF Local, NoFile
<1>4. /\ boot'.pc = next /\ boot'.todo = boot.todo \ {t} /\ boot'.sid = t
      /\ boot'.place = reg[t].path
  BY <1>1 DEF Boot
<1>5. m = NoFile \/ (m = file[p] /\ file[p] \in Meta)
  BY <1>0, <1>2, FilesTyped
<1>6. replay => t \in Place /\ p = t /\ file[t] \in Meta
  BY <1>0, <1>2, <1>3, <1>5 DEF MetaPlace, NoFile
<1>7. file[t] \in Meta =>
         w.owner = file[t].owner /\ w.status = "pending_annotation" /\ w.prog = "none"
  BY DEF Meta
<1>8. file' = IF replay THEN [file EXCEPT ![t] = w] ELSE file
  BY <1>0, <1>1, <1>6, FilesTyped
<1>. HIDE DEF p, m, replay, next, w
<1>9. HistGrows /\ (Undisturbed(t)' => ok /\ file[p].owner \in {None, t})
  BY <1>0, <1>1, <1>2, WorksMarks
<1>10. /\ \A q \in Place : file'[q] = file[q] \/ (q = t /\ replay /\ file'[q] = w)
       /\ replay => file'[t] = w
  BY <1>0, <1>6, <1>8, FilesTyped
<1>11. replay => file[t].owner \in {None, t} /\ w.owner = file[t].owner
  BY <1>3, <1>6, <1>7 DEF Stage, Keyed, KeyedFiles
<1>12. ASSUME NEW s \in Session, Undisturbed(s)', AtBoot(s), Issued(s)' <=> Issued(s)
       PROVE  AtBoot(s)'
  <2>1. CASE s # t
    <3>1. \A q \in Place : s \in {file[q].owner, file'[q].owner} => file'[q] = file[q]
      BY <1>10, <1>11, <2>1, NoneAssumption
    <3>2. Adrift(s) => Adrift(s)'
      BY <1>1, <1>3, <1>4, <2>1 DEF Adrift, InSweep
    <3> QED BY <1>0, <1>1, <1>4, <1>12, <2>1, <3>1, <3>2, BootElsewhere
  <2>2. CASE s = t
    <3>1. ok /\ file[p].owner \in {None, t}
      BY <1>9, <1>12, <2>2
    <3>2. MetaPlace(t)' = p /\ HasRecord(t)' /\ ~Offered(t)'
      BY <1>1, <1>2 DEF MetaPlace, HasRecord, Offered, p
    <3>3. \A q \in Place : file[q].owner = t => file'[q].owner = t
      BY <1>10, <1>11
    <3>4. Adrift(t) \/ file[p].owner = t
      BY <1>1, <1>2, <1>12, <2>2 DEF AtBoot, p
    <3>5. next = "restore" => Good(t)'
      <4>1. CASE replay
        <5>1. ~Adrift(t)
          BY <1>3, <4>1 DEF Adrift
        <5>2. file'[p] = w /\ w.owner = t
          BY <1>6, <1>10, <1>11, <3>4, <4>1, <5>1
        <5> QED BY <1>6, <1>7, <3>2, <4>1, <5>2 DEF Good, Finished
      <4>2. CASE ~replay /\ next = "restore"
        <5>1. m.status = "complete"
          BY <1>3, <4>2
        <5>2. m = file[p] /\ file[p] \in Meta
          BY <1>5, <5>1, Blank
        <5>3. file[p].owner = t /\ file[p].prog = "none"
          BY <1>0, <1>2, <1>12, <2>2, <3>1, <5>1, <5>2, FilesTyped DEF AtBoot, Finished
        <5>4. file'[p] = file[p]
          BY <1>2, <1>10, <4>2
        <5> QED BY <3>2, <5>1, <5>2, <5>3, <5>4 DEF Good, Finished
      <4> QED BY <4>1, <4>2
    <3>6. Adrift(t)' \/ file'[p].owner = t
      <4>1. CASE file[p].owner = t
        BY <1>2, <3>3, <4>1
      <4>2. CASE Adrift(t) /\ file[p].owner # t
        <5>1. Local /\ ~reg[t].path[2]
          BY <4>2 DEF Adrift
        <5>2. next = "rename"
          <6>1. next # "restore"
            <7>1. ASSUME next = "restore" PROVE FALSE
              <8>1. file'[p].owner = t
                BY <3>2, <3>5, <7>1 DEF Good
              <8>2. file'[p] = file[p]
                BY <1>2, <1>3, <1>10, <5>1
              <8> QED BY <4>2, <8>1, <8>2
            <7> QED BY <7>1
          <6> QED BY <1>3, <5>1, <6>1
        <5> QED BY <1>1, <1>4, <5>1, <5>2 DEF Adrift, InSweep
      <4> QED BY <3>4, <4>1, <4>2
    <3>7. BootAware(t)'
      BY <1>1, <1>3, <1>4, <3>2, <3>5 DEF BootAware
    <3>8. \A q \in Place : file'[q].owner = t /\ Finished(file'[q]) => file'[q].prog = "none"
      <4>1. \A q \in Place : file'[q].owner = t => file[q].owner = t
        BY <1>10, <1>11
      <4> QED BY <1>6, <1>7, <1>10, <1>12, <2>2, <4>1 DEF AtBoot
    <3>9. Issued(t)'
      BY <1>2, <1>12, <2>2 DEF AtBoot
    <3> QED BY <2>2, <3>2, <3>6, <3>7, <3>8, <3>9 DEF AtBoot
  <2> QED BY <2>1, <2>2
<1>13. boot' # Serving
  BY <1>3, <1>4 DEF Serving, Boot
<1> QED BY <1>1, <1>9, <1>12, <1>13, BootOrder

(* SweepRename: the directory gets its suffix, or has it already.           *)
LEMMA SweepRenameOrder ==
  ASSUME Stage, Swept, Marked, NEW ok \in BOOLEAN, NEW t, t = boot.sid, SweepRename(ok)
  PROVE  InOrder'
<1>. DEFINE p == boot.place
            i == Incomplete(p)
            moved == ~p[2] /\ CanRename(p, ok)
<1>0. Shape /\ Links
  BY DEF Stage
<1>1. /\ boot.pc = "rename"
      /\ file' = IF moved THEN Rename(p) ELSE file
      /\ boot' = IF moved \/ p[2] THEN [boot EXCEPT !.pc = "repath", !.place = i]
                 ELSE [boot EXCEPT !.pc = "demote"]
      /\ hist' = Works(t, p, moved \/ p[2])
      /\ UNCHANGED <<reg, loop, handles, conn, stop>>
  BY DEF SweepRename
<1>2. Local /\ p \in Path /\ p \in Place /\ i \in Place /\ t \in Session
  BY <1>0, <1>1, Places, Siblings DEF Shape, BootShape
<1>3. HasRecord(t) /\ reg[t].status = "active" /\ t \notin boot.todo
  BY <1>1, <1>2, NoneAssumption DEF Swept, InSweep, HasRecord, NoRecord
<1>4. (moved \/ p[2]) \in BOOLEAN /\ (p[2] => i = p)
  BY <1>2, PathNames
<1>5. moved => /\ file[p] # NoFile /\ file[i] = NoFile /\ ~p[2] /\ p # i
               /\ file'[p] = NoFile /\ file'[i] = file[p]
               /\ \A q \in Place : q \notin {p, i} => file'[q] = file[q]
  BY <1>0, <1>1, <1>2, Renamed, Places DEF CanRename
<1>6. ~moved => file' = file
  BY <1>1
<1>7. boot'.sid = t /\ boot'.todo = boot.todo /\ boot'.pc \in {"repath", "demote"}
      /\ (moved \/ p[2] => boot'.pc = "repath" /\ boot'.place = i)
  BY <1>0, <1>1 DEF Shape, CoreTypes
<1>. HIDE DEF p, i, moved
<1>8. HistGrows /\ (Undisturbed(t)' => (moved \/ p[2]) /\ file[p].owner \in {None, t})
      /\ (file[p].owner \in {None, t} \/ "mixed" \in hist'[file[p].owner])
  BY <1>0, <1>1, <1>2, <1>4, WorksMarks
<1>9. ASSUME NEW s \in Session, Undisturbed(s)', AtBoot(s), Issued(s)' <=> Issued(s)
      PROVE  AtBoot(s)'
  <2>1. CASE s # t
    <3>1. file[p].owner # s
      BY <1>8, <1>9, <2>1, NoneAssumption DEF Undisturbed
    <3>2. \A q \in Place : s \in {file[q].owner, file'[q].owner} => file'[q] = file[q]
      BY <1>2, <1>5, <1>6, <3>1, Blank, NoneAssumption
    <3>3. Adrift(s) => Adrift(s)'
      BY <1>1, <1>7, <2>1 DEF Adrift, InSweep
    <3> QED BY <1>0, <1>1, <1>7, <1>9, <2>1, <3>2, <3>3, BootElsewhere
  <2>2. CASE s = t
    <3>1. (moved \/ p[2]) /\ file[p].owner \in {None, t} /\ p = reg[t].path
      BY <1>1, <1>8, <1>9, <2>2 DEF AtBoot, BootAware, p
    <3>2. boot'.pc = "repath" /\ boot'.place = i /\ file'[i].owner = t
      <4>1. CASE moved
        BY <1>0, <1>2, <1>5, <1>7, <3>1, <4>1, FilesTyped
      <4>2. CASE ~moved
        <5>1. ~Adrift(t)
          BY <3>1, <4>2 DEF Adrift
        <5>2. file[MetaPlace(t)].owner = t
          BY <1>1, <1>3, <1>9, <2>2, <5>1 DEF AtBoot
        <5> QED BY <1>2, <1>4, <1>6, <1>7, <3>1, <4>2, <5>2 DEF MetaPlace
      <4> QED BY <4>1, <4>2
    <3>3. ~Offered(t)' /\ HasRecord(t)' /\ i = Incomplete(reg'[t].path)
      BY <1>1, <1>3, <3>1 DEF Offered, HasRecord, i
    <3>4. BootAware(t)'
      BY <3>2, <3>3 DEF BootAware
    <3>5. \A q \in Place : file'[q].owner = t /\ Finished(file'[q]) => file'[q].prog = "none"
      <4>1. \A q \in Place : file'[q] = NoFile \/ \E o \in Place : file'[q] = file[o]
        BY <1>2, <1>5, <1>6
      <4> QED BY <1>9, <2>2, <4>1, Blank, NoneAssumption DEF AtBoot, Finished
    <3>6. Issued(t)'
      BY <1>3, <1>9, <2>2 DEF AtBoot
    <3> QED BY <1>7, <2>2, <3>2, <3>3, <3>4, <3>5, <3>6 DEF AtBoot
  <2> QED BY <2>1, <2>2
<1>10. boot' # Serving
  BY <1>7 DEF Serving, Boot
<1> QED BY <1>1, <1>8, <1>9, <1>10, BootOrder

(* SweepRepath: the record follows the directory.                           *)
LEMMA SweepRepathOrder ==
  ASSUME Stage, Swept, Marked, NEW ok \in BOOLEAN, NEW t, t = boot.sid, SweepRepath(ok)
  PROVE  InOrder'
<1>0. Shape /\ Links
  BY DEF Stage
<1>1. /\ boot.pc = "repath" /\ UpdateMemoryPath(t, boot.place, ok)
      /\ boot' = [boot EXCEPT !.pc = "demote"]
      /\ hist' = Outcome(t, ok)
      /\ UNCHANGED <<file, loop, handles, conn, stop>>
  BY DEF SweepRepath
<1>2. t \in Session /\ Local
  BY <1>0, <1>1 DEF Shape, BootShape
<1>3. HasRecord(t) /\ reg[t].status = "active" /\ t \notin boot.todo
  BY <1>1, <1>2, NoneAssumption DEF Swept, InSweep, HasRecord, NoRecord
<1>4. boot'.sid = t /\ boot'.todo = boot.todo /\ boot'.pc = "demote"
  BY <1>0, <1>1 DEF Shape, CoreTypes
<1>5. /\ \A s \in Session : s # t => reg'[s] = reg[s]
      /\ ok => reg'[t].path = boot.place /\ reg'[t].status = reg[t].status
  <2>1. reg \in [Session -> Records] /\ reg[t] \in [status : Status, path : Path]
    BY <1>0, <1>2, <1>3 DEF Shape, CoreTypes, HasRecord, Records
  <2> QED BY <1>1, <1>2, <1>3, <2>1 DEF UpdateMemoryPath
<1>6. HistGrows /\ (Undisturbed(t)' => ok)
  BY <1>0, <1>1, <1>2, OutcomeMarks
<1>7. ASSUME NEW s \in Session, Undisturbed(s)', AtBoot(s), Issued(s)' <=> Issued(s)
      PROVE  AtBoot(s)'
  <2>1. CASE s # t
    <3>1. Adrift(s) => Adrift(s)'
      BY <1>1, <1>4, <1>5, <2>1 DEF Adrift, InSweep
    <3> QED BY <1>0, <1>1, <1>4, <1>5, <1>7, <2>1, <3>1, BootElsewhere
  <2>2. CASE s = t
    <3>1. reg'[t].path = boot.place /\ reg'[t].status = "active" /\ file[boot.place].owner = t
      BY <1>1, <1>3, <1>5, <1>6, <1>7, <2>2 DEF AtBoot, BootAware
    <3>2. file'[MetaPlace(t)'].owner = t /\ ~Offered(t)'
      BY <1>1, <1>2, <3>1 DEF MetaPlace, Offered
    <3>3. BootAware(t)'
      BY <1>4 DEF BootAware
    <3>4. Issued(t)'
      BY <1>3, <1>7, <2>2 DEF AtBoot
    <3> QED BY <1>1, <1>7, <2>2, <3>2, <3>3, <3>4 DEF AtBoot, Finished
  <2> QED BY <2>1, <2>2
<1>8. boot' # Serving
  BY <1>4 DEF Serving, Boot
<1> QED BY <1>1, <1>6, <1>7, <1>8, BootOrder

(* SweepStatus: incomplete, or offered when its recording was complete.     *)
LEMMA SweepStatusOrder ==
  ASSUME Stage, Swept, Marked, NEW ok \in BOOLEAN, NEW t, t = boot.sid, SweepStatus(ok)
  PROVE  InOrder'
<1>. DEFINE new == IF boot.pc = "demote" THEN "incomplete" ELSE "pending_annotation"
<1>0. Shape /\ Links
  BY DEF Stage
<1>1. /\ boot.pc \in {"demote", "restore"} /\ UpdateStatus(t, new, ok)
      /\ boot' = Boot("active", boot.todo, None, None)
      /\ hist' = Outcome(t, ok)
      /\ UNCHANGED <<file, loop, handles, conn, stop>>
  BY DEF SweepStatus
<1>2. t \in Session
  BY <1>0, <1>1 DEF Shape, BootShape
<1>3. HasRecord(t) /\ reg[t].status = "active" /\ t \notin boot.todo
  BY <1>1, <1>2, NoneAssumption DEF Swept, InSweep, HasRecord, NoRecord
<1>4. boot'.sid = None /\ boot'.todo = boot.todo /\ boot'.pc = "active"
  BY <1>1 DEF Boot
<1>. HIDE DEF new
<1>5. /\ \A s \in Session : s # t => reg'[s] = reg[s]
      /\ ok => reg'[t].path = reg[t].path /\ reg'[t].status = new
  <2>1. reg \in [Session -> Records] /\ reg[t] \in [status : Status, path : Path]
    BY <1>0, <1>2, <1>3 DEF Shape, CoreTypes, HasRecord, Records
  <2> QED BY <1>1, <1>2, <1>3, <2>1 DEF UpdateStatus
<1>6. HistGrows /\ (Undisturbed(t)' => ok)
  BY <1>0, <1>1, <1>2, OutcomeMarks
<1>7. ASSUME NEW s \in Session, Undisturbed(s)', AtBoot(s), Issued(s)' <=> Issued(s)
      PROVE  AtBoot(s)'
  <2>1. CASE s # t
    <3>1. Adrift(s) => Adrift(s)'
      BY <1>1, <1>4, <1>5, <2>1 DEF Adrift, InSweep
    <3> QED BY <1>0, <1>1, <1>2, <1>4, <1>5, <1>7, <2>1, <3>1, BootElsewhere, NoneAssumption
  <2>2. CASE s = t
    <3>1. reg'[t].path = reg[t].path /\ reg'[t].status = new
      BY <1>5, <1>6, <1>7, <2>2
    <3>2. ~Adrift(t)
      BY <1>1, <1>3 DEF Adrift
    <3>3. MetaPlace(t)' = MetaPlace(t) /\ file[MetaPlace(t)].owner = t
      BY <1>1, <1>3, <1>7, <2>2, <3>1, <3>2 DEF AtBoot, MetaPlace
    <3>4. Offered(t)' => Good(t)'
      <4>1. Offered(t)' => boot.pc = "restore"
        BY <1>1, <3>1 DEF Offered, new
      <4>2. boot.pc = "restore" => Good(t)
        BY <1>7, <2>2 DEF AtBoot, BootAware
      <4> QED BY <1>1, <3>3, <4>1, <4>2 DEF Good, Finished
    <3>5. Issued(t)' /\ boot'.sid # t
      BY <1>2, <1>3, <1>4, <1>7, <2>2, NoneAssumption DEF AtBoot
    <3> QED BY <1>1, <1>7, <2>2, <3>3, <3>4, <3>5 DEF AtBoot, Finished
  <2> QED BY <2>1, <2>2
<1>8. boot' # Serving
  BY <1>4 DEF Serving, Boot
<1> QED BY <1>1, <1>6, <1>7, <1>8, BootOrder

(* The later sweeps: no session's place is looked for again.                *)
LEMMA LaterKeeps ==
  ASSUME Shape, NEW s \in Session, AtBoot(s), Issued(s)' <=> Issued(s),
         boot.pc \in {"active", "reconcile", "retention", "objects", "purge"},
         Adrift(s) => FALSE,
         boot'.sid = s => BootAware(s)',
         \A p \in Place :
            file'[p] = file[p] \/ (file'[p].owner = None /\ (~HasRecord(s) \/ file[p].owner # s)),
         \/ reg'[s] = reg[s]
         \/ reg'[s] = NoRecord
         \/ HasRecord(s) /\ HasRecord(s)' /\ reg'[s].path = reg[s].path /\ (Offered(s)' => Good(s))
  PROVE  AtBoot(s)'
<1>1. HasRecord(s) => /\ MetaPlace(s) \in Place /\ file[MetaPlace(s)].owner = s
                      /\ file'[MetaPlace(s)] = file[MetaPlace(s)]
  BY MetaPlaceTyped DEF AtBoot, Shape
<1>2. HasRecord(s)' => HasRecord(s) /\ MetaPlace(s)' = MetaPlace(s)
  BY DEF HasRecord, MetaPlace
<1>3. Offered(s)' => HasRecord(s)' /\ Good(s)
  BY DEF AtBoot, Offered, HasRecord, NoRecord
<1>4. HasRecord(s)' => file'[MetaPlace(s)'].owner = s /\ (Offered(s)' => Good(s)')
  BY <1>1, <1>2, <1>3 DEF Good, Finished
<1>5. \A p \in Place : file'[p].owner = s => file'[p] = file[p]
  BY NoneAssumption
<1>6. (~Issued(s) => ~HasRecord(s) /\ \A p \in Place : file[p].owner # s)'
  BY <1>2, <1>5 DEF AtBoot
<1>7. \A p \in Place : file'[p].owner = s /\ Finished(file'[p]) => file'[p].prog = "none"
  BY <1>5 DEF AtBoot
<1> QED BY <1>3, <1>4, <1>6, <1>7 DEF AtBoot

(* Reconcile: the record takes over what metadata.json says.                *)
LEMMA ReconcileOrder ==
  ASSUME Stage, Marked, NEW t \in Session, NEW ok \in BOOLEAN, Reconcile(t, ok)
  PROVE  InOrder'
<1>. DEFINE m == IF Mode = "cloud" THEN NoFile ELSE file[MetaPlace(t)]
            new == IF m.status \in {"pending_annotation", "incomplete"} THEN m.status
                   ELSE "reasoning_degraded"
<1>0. Shape /\ Links
  BY DEF Stage
<1>1. /\ boot.pc = "reconcile" /\ UpdateStatus(t, new, ok)
      /\ boot' = [boot EXCEPT !.todo = @ \ {t}] /\ hist' = Outcome(t, ok)
      /\ UNCHANGED <<file, loop, handles, conn, stop>>
  BY DEF Reconcile
<1>2. boot'.pc = "reconcile" /\ boot'.sid = boot.sid /\ boot' # Serving
  <2>1. boot'.pc = "reconcile" /\ boot'.sid = boot.sid
    BY <1>0, <1>1 DEF Shape, CoreTypes
  <2> QED BY <2>1 DEF Serving, Boot
<1>3. new = "pending_annotation" => file[MetaPlace(t)].status = "pending_annotation"
  BY DEF NoFile
<1>4. new \in {"pending_annotation", "incomplete", "reasoning_degraded"}
  OBVIOUS
<1>. HIDE DEF m, new
<1>5. /\ \A s \in Session : s # t => reg'[s] = reg[s]
      /\ \/ reg'[t] = reg[t]
         \/ HasRecord(t) /\ reg'[t].path = reg[t].path /\ reg'[t].status = new
  <2>1. reg \in [Session -> Records] /\ (HasRecord(t) => reg[t] \in [status : Status, path : Path])
    BY <1>0 DEF Shape, CoreTypes, HasRecord, Records
  <2> QED BY <1>1, <2>1 DEF UpdateStatus
<1>6. HistGrows
  BY <1>0, <1>1, OutcomeMarks
<1>7. ASSUME NEW s \in Session, AtBoot(s), Issued(s)' <=> Issued(s) PROVE AtBoot(s)'
  <2>1. ~Adrift(s) /\ ~InSweep
    BY <1>1 DEF Adrift, InSweep
  <2>2. BootAware(s)'
    BY <1>2 DEF BootAware
  <2>3. HasRecord(s) => file[MetaPlace(s)].owner = s /\ MetaPlace(s) \in Place
    BY <1>0, <1>1, <1>7, <2>1, MetaPlaceTyped DEF AtBoot, Shape
  <2>4. HasRecord(s) /\ file[MetaPlace(s)].status = "pending_annotation" => Good(s)
    BY <1>7, <2>3 DEF AtBoot, Good, Finished
  <2>5. \/ reg'[s] = reg[s]
        \/ HasRecord(s) /\ HasRecord(s)' /\ reg'[s].path = reg[s].path /\ (Offered(s)' => Good(s))
    <3>1. CASE s = t /\ reg'[t] # reg[t]
      <4>1. HasRecord(t) /\ reg'[t].path = reg[t].path /\ reg'[t].status = new
        BY <1>5, <3>1
      <4>2. HasRecord(t)' /\ (Offered(t)' => new = "pending_annotation")
        BY <1>4, <4>1 DEF HasRecord, NoRecord, Offered
      <4> QED BY <1>3, <2>4, <3>1, <4>1, <4>2
    <3> QED BY <1>5, <3>1
  <2> QED BY <1>0, <1>1, <1>7, <2>1, <2>2, <2>5, LaterKeeps
<1> QED BY <1>1, <1>2, <1>6, <1>7, BootOrder

(* The next sweep begins.                                                   *)
LEMMA NextSweepOrder ==
  ASSUME Stage, Marked, StartReconcile \/ \E old \in SUBSET Session : StartRetention(old)
  PROVE  InOrder'
<1>0. Shape /\ Links
  BY DEF Stage
<1>1. /\ boot.pc \in {"active", "reconcile"} /\ boot.todo = {}
      /\ UNCHANGED <<reg, file, loop, handles, conn, stop, hist>>
      /\ boot'.pc \in {"reconcile", "retention"} /\ boot'.sid = None
  BY DEF StartReconcile, StartRetention, Boot
<1>2. ASSUME NEW s \in Session, AtBoot(s), Issued(s)' <=> Issued(s) PROVE AtBoot(s)'
  <2>1. ~Adrift(s) /\ boot'.sid # s
    BY <1>1, NoneAssumption DEF Adrift
  <2> QED BY <1>0, <1>1, <1>2, <2>1, LaterKeeps
<1>3. boot' # Serving /\ HistGrows
  BY <1>1 DEF Serving, Boot, HistGrows, Issued
<1> QED BY <1>1, <1>2, <1>3, BootOrder

(* RetireRecord: what has no record is not offered.                         *)
LEMMA RetireRecordOrder ==
  ASSUME Stage, Marked, NEW t \in Session, NEW ok \in BOOLEAN, RetireRecord(t, ok)
  PROVE  InOrder'
<1>0. Shape /\ Links
  BY DEF Stage
<1>1. /\ boot.pc = "retention"
      /\ reg' = IF ok THEN [reg EXCEPT ![t] = NoRecord] ELSE reg
      /\ boot' = IF ok THEN Boot("objects", boot.todo \ {t}, t, reg[t].path)
                 ELSE [boot EXCEPT !.todo = @ \ {t}]
      /\ hist' = Outcome(t, ok)
      /\ UNCHANGED <<file, loop, handles, conn, stop>>
  BY DEF RetireRecord
<1>2. \/ ok /\ boot'.pc = "objects" /\ boot'.sid = t
      \/ ~ok /\ boot'.pc = "retention"
  BY <1>0, <1>1 DEF Boot, Shape, CoreTypes
<1>3. HistGrows /\ boot' # Serving
  BY <1>0, <1>1, <1>2, OutcomeMarks DEF Serving, Boot
<1>4. ASSUME NEW s \in Session, AtBoot(s), Issued(s)' <=> Issued(s) PROVE AtBoot(s)'
  <2>1. ~Adrift(s)
    BY <1>1 DEF Adrift, InSweep
  <2>2. reg'[s] = reg[s] \/ reg'[s] = NoRecord
    BY <1>0, <1>1 DEF Shape, CoreTypes
  <2>3. boot'.sid = s => BootAware(s)'
    <3>1. ok => reg'[t] = NoRecord
      BY <1>0, <1>1 DEF Shape, CoreTypes
    <3> QED BY <1>2, <3>1 DEF BootAware, HasRecord
  <2> QED BY <1>0, <1>1, <1>4, <2>1, <2>2, <2>3, LaterKeeps
<1> QED BY <1>1, <1>3, <1>4, BootOrder

(* RetireObjects and RetireDir: the owner of the files has no record.       *)
LEMMA RetireFilesOrder ==
  ASSUME Stage, Marked, NEW ok \in BOOLEAN, NEW t, t = boot.sid, RetireObjects(ok) \/ RetireDir(ok)
  PROVE  InOrder'
<1>0. Shape /\ Links
  BY DEF Stage
<1>1. /\ boot.pc \in {"objects", "purge"} /\ UNCHANGED <<reg, loop, handles, conn, stop>>
      /\ hist' = Outcome(t, ok)
      /\ RetireObjects(ok) => DeleteAll(t, ok)
      /\ RetireDir(ok) => PurgeMemoryDir(t, boot.place, ok)
  BY DEF RetireObjects, RetireDir
<1>2. boot'.pc \in {"purge", "retention"} /\ (boot'.pc = "purge" => boot'.sid = t)
      /\ (boot'.pc = "retention" => boot'.sid = None)
  BY <1>0, <1>1 DEF RetireObjects, RetireDir, Shape, CoreTypes, Boot
<1>3. t \in Session
  BY <1>0, <1>1 DEF Shape, BootShape
<1>4. HistGrows /\ boot' # Serving
  BY <1>0, <1>1, <1>2, <1>3, OutcomeMarks DEF Serving, Boot
<1>5. \A p \in Place : file'[p] = file[p] \/ (file'[p].owner = None /\ file[p].owner \in {None, t})
  <2>1. CASE RetireObjects(ok)
    <3>1. (file' = [file EXCEPT ![t] = NoFile] /\ ~Local) \/ UNCHANGED file
      BY <1>1, <2>1 DEF DeleteAll
    <3>2. ~Local => file[t].owner \in {None, t}
      BY <1>3 DEF Stage, Keyed, KeyedFiles
    <3> QED BY <1>0, <3>1, <3>2, FilesTyped
  <2>2. CASE RetireDir(ok)
    BY <1>1, <2>2, Blank DEF PurgeMemoryDir
  <2> QED BY <2>1, <2>2
<1>6. ASSUME NEW s \in Session, AtBoot(s), Issued(s)' <=> Issued(s) PROVE AtBoot(s)'
  <2>1. ~Adrift(s)
    BY <1>1 DEF Adrift, InSweep
  <2>2. s = t => ~HasRecord(s) /\ ~HasRecord(s)'
    BY <1>1, <1>6 DEF AtBoot, BootAware, HasRecord
  <2>3. boot'.sid = s => BootAware(s)'
    BY <1>2, <1>3, <2>2, NoneAssumption DEF BootAware
  <2> QED BY <1>0, <1>1, <1>5, <1>6, <2>1, <2>2, <2>3, NoneAssumption, LaterKeeps
<1> QED BY <1>1, <1>4, <1>6, BootOrder

(* ma-core serves: no session is listed as active.                          *)
LEMMA ServeOrder ==
  ASSUME Stage, Sweeping, Marked, Serve
  PROVE  InOrder'
<1>0. Shape /\ Links
  BY DEF Stage
<1>1. /\ boot.pc = "retention" /\ boot' = Serving /\ boot'.sid = None
      /\ UNCHANGED <<reg, file, loop, handles, conn, stop, hist>>
  BY DEF Serve, Serving, Boot
<1> SUFFICES ASSUME NEW s \in Session, Undisturbed(s)' PROVE Orderly(s)'
  BY DEF InOrder
<1>2. Undisturbed(s) /\ Orderly(s) /\ AtBoot(s)
  BY <1>0, <1>1, BootKnown DEF Stage, InOrder, Undisturbed
<1>3. ~Adrift(s) /\ boot'.sid # s
  BY <1>1, NoneAssumption DEF Adrift, InSweep
<1>4. AtBoot(s)'
  <2>1. Issued(s)' <=> Issued(s)
    BY <1>1 DEF Issued
  <2> QED BY <1>0, <1>1, <1>2, <1>3, <2>1, LaterKeeps
<1>5. reg'[s].status # "active"
  BY <1>1, <1>2 DEF Sweeping, Excused, Undisturbed
<1> QED BY <1>0, <1>1, <1>4, <1>5, BootEmpty, BootOwn, NoneAssumption

(* ma-core dies: what was at work on a session tears it.                    *)
LEMMA DiesOrder ==
  ASSUME Stage, Swept, Marked, NEW r, Dies(r),
         \A s \in Session : \/ r[s] = reg[s]
                            \/ /\ HasRecord(s)
                               /\ r[s] = [status |-> "active", path |-> <<reg[s].path[1], FALSE>>]
  PROVE  InOrder'
<1>0. Shape /\ Links
  BY DEF Stage
<1>1. /\ reg' = r /\ UNCHANGED file
      /\ \A l \in Loop : loop'[l].sid = None
      /\ \A c \in Conn : conn'[c].sid = None
      /\ \A s \in Session : handles'[s] = None
      /\ stop'.sid = None
      /\ boot'.pc = "active" /\ boot'.sid = None
      /\ boot'.todo = {s \in Session : r[s].status = "active"}
  BY Blank DEF Dies, NoSignal, Boot
<1>2. \A s \in Session : hist'[s] = IF Quiet(s) /\ boot.sid # s THEN hist[s]
                                    ELSE hist[s] \cup ({"torn"} \cap Tracked)
  BY DEF Dies
<1> SUFFICES ASSUME NEW s \in Session, Undisturbed(s)' PROVE Orderly(s)'
  BY DEF InOrder
<1>3. Quiet(s) /\ boot.sid # s /\ Undisturbed(s) /\ (Issued(s)' <=> Issued(s))
  BY <1>2 DEF Marked, Undisturbed, Issued
<1>4. Orderly(s)
  BY <1>3 DEF Stage, InOrder
<1>0a. \/ r[s] = reg[s]
       \/ /\ HasRecord(s)
          /\ r[s] = [status |-> "active", path |-> <<reg[s].path[1], FALSE>>]
  OBVIOUS
<1>0b. r[s] = reg[s] \/ (HasRecord(s) /\ r[s].status = "active")
  BY <1>0a
<1>5. HasRecord(s)' <=> HasRecord(s)
  <2>1. NoRecord.status # "active"
    BY DEF NoRecord
  <2> QED BY <1>0b, <1>1, <2>1 DEF HasRecord
<1>6. ~Issued(s) => ~HasRecord(s) /\ \A p \in Place : file[p].owner # s
  BY <1>4 DEF Orderly, Unborn
<1>7. Offered(s)' => r[s] = reg[s] /\ Offered(s)
  BY <1>0b, <1>1 DEF Offered
<1>8. Offered(s)' => Good(s)'
  <2>1. Offered(s) => Good(s)
    BY <1>4 DEF Orderly, Settled
  <2> QED BY <1>1, <1>7, <2>1 DEF Good, MetaPlace, Finished
<1>9. HasRecord(s) => Adrift(s) \/ file[MetaPlace(s)].owner = s
  BY <1>3, <1>4 DEF Orderly, Home, Quiet, Capturing
<1>10. HasRecord(s)' => Adrift(s)' \/ file'[MetaPlace(s)'].owner = s
  <2>1. CASE r[s] = reg[s]
    <3>1. Adrift(s) => reg[s].status = "active"
      BY <1>3 DEF Adrift, Swept
    <3>2. Adrift(s) => Adrift(s)'
      BY <1>1, <2>1, <3>1 DEF Adrift, InSweep
    <3> QED BY <1>1, <1>5, <1>9, <2>1, <3>2 DEF MetaPlace
  <2>2. CASE /\ HasRecord(s)
             /\ r[s] = [status |-> "active", path |-> <<reg[s].path[1], FALSE>>]
    <3>1. r[s].status = "active" /\ ~r[s].path[2]
      BY <2>2
    <3>2. Local => Adrift(s)'
      BY <1>1, <3>1 DEF Adrift, InSweep
    <3>3. ~Local => file'[MetaPlace(s)'].owner = s
      BY <1>1, <1>9, <2>2 DEF Adrift, MetaPlace
    <3> QED BY <3>2, <3>3
  <2> QED BY <2>1, <2>2
<1>11. \A p \in Place : file[p].owner = s /\ Finished(file[p]) => file[p].prog = "none"
  BY <1>3, <1>4 DEF Orderly, Cleared, Quiet
<1>12. AtBoot(s)'
  BY <1>1, <1>3, <1>5, <1>6, <1>8, <1>10, <1>11, NoneAssumption DEF AtBoot, Finished
<1>13. boot' # Serving
  BY <1>1 DEF Serving, Boot
<1> QED BY <1>1, <1>12, <1>13, NoneAssumption, BootOwn

(* All steps of the process.                                                *)
LEMMA ProcessOrder ==
  ASSUME Stage, Swept, Sweeping, Marked,
         BootNext \/ Signal \/ SignalNext \/ Crash \/ \E lost \in SUBSET Session : HostCrash(lost)
  PROVE  InOrder'
<1>1. Outcomes \subseteq BOOLEAN
  BY DEF Outcomes
<1>2. CASE BootNext
  <2>1. \/ StartReconcile \/ Serve \/ \E old \in SUBSET Session : StartRetention(old)
        \/ \E ok \in BOOLEAN :
              \/ SweepRename(ok) \/ SweepRepath(ok) \/ SweepStatus(ok)
              \/ RetireObjects(ok) \/ RetireDir(ok)
              \/ \E s \in Session :
                    \/ \E replayed \in BOOLEAN : SweepActive(s, ok, replayed)
                    \/ Reconcile(s, ok) \/ RetireRecord(s, ok)
    BY <1>1, <1>2 DEF BootNext
  <2> QED BY <2>1, NextSweepOrder, ServeOrder, SweepRenameOrder, SweepRepathOrder,
             SweepStatusOrder, RetireFilesOrder, SweepActiveOrder, ReconcileOrder,
             RetireRecordOrder
<1>3. CASE Signal
  BY <1>3, SignalOrder
<1>4. ASSUME Dies(reg) PROVE InOrder'
  BY <1>4, DiesOrder
<1>5. CASE SignalNext
  <2>1. \/ Dies(reg)
        \/ \E ok \in BOOLEAN : \/ StoreInterrupted(ok)
                               \/ \E s \in Session : FlagInterrupted(s, ok)
    BY <1>1, <1>5 DEF SignalNext, Exit
  <2> QED BY <1>4, <2>1, StoreOrder, FlagOrder
<1>6. CASE Crash
  BY <1>4, <1>6 DEF Crash
<1>7. ASSUME NEW lost \in SUBSET Session, HostCrash(lost) PROVE InOrder'
  <2>. DEFINE r == [s \in Session |->
                      IF s \in lost THEN [status |-> "active", path |-> <<reg[s].path[1], FALSE>>]
                      ELSE reg[s]]
  <2>1. Dies(r) /\ \A s \in lost : HasRecord(s)
    BY <1>7 DEF HostCrash
  <2>2. \A s \in Session : \/ r[s] = reg[s]
                           \/ /\ HasRecord(s)
                              /\ r[s] = [status |-> "active", path |-> <<reg[s].path[1], FALSE>>]
    BY <2>1
  <2>. HIDE DEF r
  <2> QED BY <2>1, <2>2, DiesOrder
<1> QED BY <1>2, <1>3, <1>5, <1>6, <1>7

-----------------------------------------------------------------------------
(* The first sweep is at sessions listed as active.                         *)
LEMMA SweptKept ==
  ASSUME Shape, Swept, [Next]_vars
  PROVE  Swept'
<1>1. CASE UNCHANGED vars
  BY <1>1 DEF vars, Swept, InSweep
<1>2. CASE boot = Serving /\ UNCHANGED boot
  BY <1>2 DEF Swept, InSweep, Serving, Boot
<1>3. ASSUME NEW r, Dies(r) PROVE Swept'
  <2>1. boot'.sid = None /\ reg' = r /\ boot'.todo = {s \in Session : r[s].status = "active"}
    BY <1>3 DEF Dies, Boot
  <2> QED BY <2>1, NoneAssumption DEF Swept
<1>4. CASE BootNext
  <2>0. boot.pc \notin {"active", "rename", "repath", "demote", "restore"} => ~InSweep
    BY DEF InSweep
  <2>1. ASSUME NEW ok, NEW s \in Session, NEW replayed, SweepActive(s, ok, replayed) PROVE Swept'
    <3>1. /\ boot.pc = "active" /\ s \in boot.todo /\ UNCHANGED reg
          /\ boot'.todo = boot.todo \ {s} /\ boot'.sid = s
      BY <2>1 DEF SweepActive, Boot
    <3> QED BY <3>1 DEF Swept, InSweep
  <2>2. ASSUME NEW ok, SweepRename(ok) PROVE Swept'
    <3>1. boot.pc = "rename" /\ UNCHANGED reg /\ boot'.sid = boot.sid /\ boot'.todo = boot.todo
      BY <2>2 DEF SweepRename, Shape, CoreTypes
    <3> QED BY <3>1 DEF Swept, InSweep
  <2>3. ASSUME NEW ok, SweepRepath(ok) PROVE Swept'
    <3>1. /\ boot.pc = "repath" /\ boot'.sid = boot.sid /\ boot'.todo = boot.todo
          /\ boot.sid \in Session
      BY <2>3 DEF SweepRepath, Shape, CoreTypes, BootShape
    <3>2. \A s \in Session : reg'[s].status = reg[s].status
      <4>1. reg \in [Session -> Records] /\ (HasRecord(boot.sid) =>
               reg[boot.sid] \in [status : Status, path : Path])
        BY <3>1 DEF Shape, CoreTypes, HasRecord, Records
      <4> QED BY <2>3, <4>1 DEF SweepRepath, UpdateMemoryPath
    <3>3. boot.todo \subseteq Session
      BY DEF Shape, CoreTypes
    <3> QED BY <3>1, <3>2, <3>3 DEF Swept, InSweep
  <2>4. ASSUME NEW ok, SweepStatus(ok) PROVE Swept'
    <3>1. /\ boot.pc \in {"demote", "restore"} /\ boot'.sid = None /\ boot'.todo = boot.todo
          /\ boot.sid \in Session /\ boot.todo \subseteq Session
      BY <2>4 DEF SweepStatus, Shape, CoreTypes, BootShape, Boot
    <3>2. \A s \in Session : s # boot.sid => reg'[s] = reg[s]
      BY <2>4 DEF SweepStatus, UpdateStatus, Shape, CoreTypes
    <3> QED BY <3>1, <3>2, NoneAssumption DEF Swept, InSweep
  <2>5. ASSUME NEW ok, NEW s \in Session,
               Reconcile(s, ok) \/ RetireRecord(s, ok) \/ RetireObjects(ok) \/ RetireDir(ok)
        PROVE  Swept'
    <3>1. boot'.pc \in {"reconcile", "retention", "objects", "purge"}
      BY <2>5 DEF Reconcile, RetireRecord, RetireObjects, RetireDir, Boot, Shape, CoreTypes
    <3> QED BY <3>1 DEF Swept, InSweep
  <2>6. ASSUME StartReconcile \/ Serve \/ \E old \in SUBSET Session : StartRetention(old)
        PROVE  Swept'
    <3>1. boot'.pc \in {"reconcile", "retention", "serving"}
      BY <2>6 DEF StartReconcile, Serve, StartRetention, Serving, Boot
    <3> QED BY <3>1 DEF Swept, InSweep
  <2>7. ASSUME NEW ok, RetireObjects(ok) \/ RetireDir(ok) PROVE Swept'
    <3>1. boot'.pc \in {"retention", "purge"}
      BY <2>7 DEF RetireObjects, RetireDir, Boot, Shape, CoreTypes
    <3> QED BY <3>1 DEF Swept, InSweep
  <2> QED BY <1>4, <2>1, <2>2, <2>3, <2>4, <2>5, <2>6, <2>7 DEF BootNext
<1>5. CASE ShotStep
  BY <1>5 DEF ShotStep, ShotRead, ShotWrite, Swept, InSweep
<1> QED BY <1>1, <1>2, <1>3, <1>4, <1>5, OnlySweeps, ServesOn

-----------------------------------------------------------------------------
(* A loop's copy stays, is dropped, or is marked when it is another's.      *)
LEMMA CopyStays ==
  ASSUME Shape, MixedCopy, MarksStay,
         \A k \in Loop : \/ loop'[k].mem.owner \in {None, loop'[k].sid}
                         \/ loop'[k].mem.owner = loop[k].mem.owner /\ loop'[k].sid = loop[k].sid
                         \/ "mixed" \in hist'[loop'[k].mem.owner]
  PROVE  MixedCopy'
<1>1. \A k \in Loop : loop[k].mem.owner \in Session \cup {None}
  BY DirTypes DEF Shape
<1> QED BY <1>1 DEF MixedCopy, Mixed, MarksStay

(* Only reading metadata.json fills a loop's copy.                          *)
LEMMA LoopsCopy ==
  ASSUME Shape, Links, MixedCopy, Marked, NEW l \in Loop,
         LoopNext(l) \/ LoopStep(l) \/ LoopStops(l, FALSE)
  PROVE  MixedCopy'
<1>0. MarksStay
  BY LoopMarksStay
<1>. DEFINE Fine(k) == \/ loop'[k].mem.owner \in {None, loop'[k].sid}
                       \/ loop'[k].mem.owner = loop[k].mem.owner /\ loop'[k].sid = loop[k].sid
                       \/ "mixed" \in hist'[loop'[k].mem.owner]
<1>1. ASSUME \A k \in Loop : k # l => loop'[k] = loop[k], Fine(l) PROVE MixedCopy'
  BY <1>0, <1>1, CopyStays
<1>2. LoopOver(l)[l].mem.owner = None
  BY LinkTypes DEF LoopOver, NoLoop, NoFile
<1>3. ASSUME NEW m, loop' = [loop EXCEPT ![l] = m], m.mem.owner = None PROVE MixedCopy'
  BY <1>1, <1>3, LinkTypes
<1>4. NoLoop.mem.owner = None /\ LoopFails(l) => MixedCopy'
  BY <1>3 DEF LoopFails
<1>5. loop' = LoopOver(l) => MixedCopy'
  <2>. DEFINE w == [NoLoop EXCEPT !.pc = "end", !.sid = loop[l].sid]
  <2>1. w.mem.owner = None
    BY DEF NoLoop, NoFile
  <2>2. LoopOver(l) = [loop EXCEPT ![l] = w]
    BY DEF LoopOver
  <2>. HIDE DEF w
  <2> QED BY <1>3, <2>1, <2>2
<1>6. ASSUME \A k \in Loop : k # l => loop'[k] = loop[k],
             loop'[l].mem.owner = loop[l].mem.owner, loop'[l].sid = loop[l].sid
      PROVE  MixedCopy'
  BY <1>1, <1>6
<1>7. ASSUME NEW ok, LoopLoad(l, ok) \/ LoopConnect(l, ok) PROVE MixedCopy'
  <2>1. CASE LoopFails(l)
    BY <1>4, <2>1, Blank
  <2>2. CASE ~LoopFails(l)
    BY <1>6, <1>7, <2>2, LinkTypes DEF LoopLoad, LoopConnect, LoopGoto, Loops
  <2> QED BY <2>1, <2>2
<1>8. ASSUME NEW ok, LoopReadMetadata(l, ok) PROVE MixedCopy'
  <2>. DEFINE m == file[loop[l].place]
  <2>1. CASE LoopFails(l)
    BY <1>4, <2>1, Blank
  <2>2. CASE ~LoopFails(l)
    <3>1. /\ m # NoFile /\ loop' = [loop EXCEPT ![l].pc = "connect", ![l].mem = m]
          /\ hist' = IF m.owner = loop[l].sid THEN hist
                     ELSE Mixes(Mark(m.owner, {"shared"}), loop[l].sid, m.owner)
      BY <1>8, <2>2 DEF LoopReadMetadata
    <3>2. loop[l].sid \in Session /\ m.owner \in Session
      BY <1>8, <3>1, LoopFacts, FilesTyped DEF LoopReadMetadata, Running, LoopOK
    <3>3. Mark(m.owner, {"shared"}) \in [Session -> SUBSET Marks]
      BY <3>2, HistTyped DEF Shape
    <3>. HIDE DEF m
    <3>4. m.owner # loop[l].sid => "mixed" \in hist'[m.owner]
      BY <3>1, <3>2, <3>3, MixesMark DEF Marked
    <3>5. /\ \A k \in Loop : k # l => loop'[k] = loop[k]
          /\ loop'[l].mem = m /\ loop'[l].sid = loop[l].sid
      BY <3>1, LinkTypes DEF Loops
    <3> QED BY <1>1, <3>4, <3>5
  <2> QED BY <2>1, <2>2
<1>9. ASSUME NEW ok, LoopBegin(l, ok) PROVE MixedCopy'
  <2>1. loop[l].mem \in Meta
    BY <1>9, LoopFacts DEF LoopBegin, Running, LoopOK
  <2>2. loop' = [loop EXCEPT ![l].pc = "capture",
                            ![l].mem = [loop[l].mem EXCEPT !.prog = "capturing"]]
    BY <1>9 DEF LoopBegin
  <2> QED BY <1>6, <2>1, <2>2, LinkTypes, FilesTyped DEF Loops
<1>10. CASE LoopStep(l)
  BY <1>6, <1>10 DEF LoopStep
<1>11. CASE LoopDrain(l) \/ LoopStops(l, TRUE) \/ LoopStops(l, FALSE)
  <2>1. /\ \A k \in Loop : k # l => loop'[k] = loop[k]
        /\ loop'[l].mem = loop[l].mem /\ loop'[l].sid = loop[l].sid
    BY <1>11, LinkTypes DEF LoopDrain, LoopStops, Loops
  <2> QED BY <1>6, <2>1
<1>12. ASSUME NEW ok, LoopComplete(l, ok) \/ LoopInterrupt(l, ok) PROVE MixedCopy'
  <2>1. /\ \A k \in Loop : k # l => loop'[k] = loop[k]
        /\ loop'[l].mem = NoFile
    BY <1>12, LinkTypes DEF LoopComplete, LoopInterrupt, Loops
  <2> QED BY <1>1, <2>1, Blank
<1>13. ASSUME NEW ok, LoopSettle(l, ok) \/ LoopRepath(l, ok) PROVE MixedCopy'
  BY <1>5, <1>13 DEF LoopSettle, LoopRepath
<1>14. ASSUME NEW ok, LoopDemote(l, ok) \/ LoopFlag(l, ok) PROVE MixedCopy'
  <2>1. loop' = LoopOver(l) \/ \E pc : loop' = LoopGoto(l, pc)
    BY <1>14 DEF LoopDemote, LoopFlag
  <2>2. ASSUME NEW pc, loop' = LoopGoto(l, pc) PROVE MixedCopy'
    BY <1>6, <2>2, LinkTypes DEF LoopGoto, Loops
  <2> QED BY <1>5, <2>1, <2>2
<1>15. ASSUME NEW ok, LoopRename(l, ok) PROVE MixedCopy'
  <2>1. \/ loop' = LoopOver(l)
        \/ loop' = [loop EXCEPT ![l].pc = "repath", ![l].place = Incomplete(loop[l].place)]
    BY <1>15 DEF LoopRename
  <2> QED BY <1>5, <1>6, <2>1, LinkTypes DEF Loops
<1>16. CASE LoopArm(l)
  <2>. DEFINE lp == LoopGoto(l, "begin")
  <2>1. /\ lp \in [Loop -> Loops]
        /\ \A k \in Loop : /\ lp[k].mem = loop[k].mem /\ lp[k].sid = loop[k].sid
                           /\ lp[k].fired => lp[k].pc \in {"begin", "capture"}
    BY LinkTypes DEF LoopGoto, Loops, LoopPCs, Links, LoopLinked
  <2>2. loop' = Fire(lp, handles[loop[l].sid])
    BY <1>16 DEF LoopArm
  <2>. HIDE DEF lp
  <2>3. \A k \in Loop : loop'[k].mem = loop[k].mem /\ loop'[k].sid = loop[k].sid
    BY <2>1, <2>2, FireTied
  <2> QED BY <1>0, <2>3, CopyStays
<1>17. CASE LoopEnd(l)
  <2>. DEFINE lp == Fire(loop, handles[loop[l].sid])
  <2>1. \A k \in Loop : lp[k].mem = loop[k].mem /\ lp[k].sid = loop[k].sid
    BY LinkTypes, FireTied DEF Links, LoopLinked
  <2>2. loop' = [lp EXCEPT ![l] = NoLoop] /\ DOMAIN lp = Loop
    BY <1>17 DEF LoopEnd, Fire
  <2>. HIDE DEF lp
  <2>3. loop'[l] = NoLoop /\ \A k \in Loop : k # l => loop'[k] = lp[k]
    BY <2>2
  <2> QED BY <1>0, <2>1, <2>3, CopyStays, Blank
<1> QED BY <1>7, <1>8, <1>9, <1>10, <1>11, <1>12, <1>13, <1>14, <1>15, <1>16, <1>17 DEF LoopNext

(* The others leave a loop's copy, or end the loop.                         *)
LEMMA OthersCopy ==
  ASSUME Shape, Links, MixedCopy, Marked,
         \/ \E c \in Conn : ConnNext(c) \/ Receive(c)
         \/ BootNext \/ Signal \/ SignalNext \/ Crash
         \/ \E lost \in SUBSET Session : HostCrash(lost)
  PROVE  MixedCopy'
<1>0. MarksStay
  BY ConnMarksStay, ProcessMarksStay
<1>1. CASE UNCHANGED loop
  BY <1>0, <1>1, CopyStays
<1>2. ASSUME NEW r, Dies(r) PROVE MixedCopy'
  BY <1>0, <1>2, CopyStays, Blank DEF Dies
<1>3. CASE BootNext
  BY <1>1, <1>3, SweepsAlone
<1>4. CASE Signal \/ SignalNext
  <2>1. UNCHANGED loop \/ Dies(reg)
    BY <1>4 DEF Signal, SignalNext, Exit, StoreInterrupted, FlagInterrupted
  <2> QED BY <1>1, <1>2, <2>1
<1>5. ASSUME NEW c \in Conn, ConnNext(c) PROVE MixedCopy'
  <2>1. UNCHANGED loop \/ \E k : loop' = Fire(loop, k)
    BY <1>5 DEF ConnNext, SendDone, ClosingImage, ForgetDegraded, DropHandle, InitialiseDir, GiveUp, LookUp,
       RouteDirect, MarkComplete, ClearInProgress, FetchObject, StoreComplete,
       SetReasoningStatus, DeleteRecord, DeleteObjects, PurgeDir
  <2>2. ASSUME NEW k, loop' = Fire(loop, k) PROVE MixedCopy'
    <3>1. \A x \in Loop : loop'[x].mem = loop[x].mem /\ loop'[x].sid = loop[x].sid
      BY <2>2, LinkTypes, FireTied DEF Links, LoopLinked
    <3> QED BY <1>0, <3>1, CopyStays
  <2> QED BY <1>1, <2>1, <2>2
<1>6. ASSUME NEW c \in Conn, Receive(c) PROVE MixedCopy'
  <2>1. UNCHANGED loop \/ \E s \in Session, l \in Loop : StartWatch(c, s, l)
    BY <1>6 DEF Receive, RegisterSession, Done, ReasoningDegraded, CircuitReset, DeleteSession
  <2>2. ASSUME NEW s \in Session, NEW l \in Loop, StartWatch(c, s, l) PROVE MixedCopy'
    <3>. DEFINE v == [NoLoop EXCEPT !.pc = "load", !.sid = s]
    <3>1. loop' = [loop EXCEPT ![l] = v] /\ v.mem.owner = None
      BY <2>2 DEF StartWatch, NoLoop, NoFile
    <3>. HIDE DEF v
    <3> QED BY <1>0, <3>1, LinkTypes, CopyStays
  <2> QED BY <1>1, <2>1, <2>2
<1> QED BY <1>2, <1>3, <1>4, <1>5, <1>6 DEF Crash, HostCrash

-----------------------------------------------------------------------------
(* The tasks stay tied to each other.                                       *)
LEMMA LinksInductive == Shape /\ Links /\ [Next]_vars => Links'
<1> SUFFICES ASSUME Shape, Links, [Next]_vars PROVE Links'
  OBVIOUS
<1>1. CASE UNCHANGED vars
  BY <1>1 DEF vars, Links, LoopLinked, ConnLinked, HandleLinked, StopLinked
<1>2. ASSUME NEW l \in Loop, LoopNext(l) \/ LoopStep(l) \/ LoopStops(l, FALSE) PROVE Links'
  BY <1>2, LoopStartsTied, LoopRunsTied, LoopArmTied, LoopEndTied DEF LoopNext
<1>3. ASSUME NEW c \in Conn, ConnNext(c) \/ Receive(c) PROVE Links'
  <2>1. CASE ConnNext(c)
    BY <2>1, ConnRunsTied
  <2>2. ASSUME NEW s \in Session, NEW l \in Loop, StartWatch(c, s, l) PROVE Links'
    BY <2>2, StartTied
  <2>3. ASSUME NEW s \in Session, NEW n, NEW force, NEW ok,
               \/ RegisterSession(c, s, n) \/ Done(c, s) \/ ReasoningDegraded(c, s)
               \/ CircuitReset(c, s) \/ DeleteSession(c, s, force, ok)
        PROVE  Links'
    BY <2>3, ReceiveTied
  <2> QED BY <1>3, <2>1, <2>2, <2>3 DEF Receive
<1>4. CASE Crash \/ \E lost \in SUBSET Session : HostCrash(lost)
  BY <1>4, ProcessTied DEF Crash, HostCrash
<1>5. CASE \E k \in Shot : ShotRead(k) \/ ShotWrite(k)
  BY <1>5 DEF ShotRead, ShotWrite, Links, LoopLinked, ConnLinked, HandleLinked, StopLinked
<1> QED BY <1>1, <1>2, <1>3, <1>4, <1>5, ProcessTied DEF Next

(* A loop with another's metadata stays marked.                             *)
LEMMA MixedInductive ==
  ASSUME Marked
  PROVE  Shape /\ ShotShape /\ Links /\ MixedCopy /\ [Next]_vars => MixedCopy'
<1> SUFFICES ASSUME Shape, ShotShape, Links, MixedCopy, [Next]_vars PROVE MixedCopy'
  OBVIOUS
<1>1. CASE UNCHANGED vars
  BY <1>1 DEF vars, MixedCopy, Mixed
<1>2. ASSUME NEW k \in Shot, ShotRead(k) \/ ShotWrite(k) PROVE MixedCopy'
  BY <1>2, ShotLeaves, CopyStays DEF MarksStay
<1> QED BY <1>1, <1>2, LoopsCopy, OthersCopy DEF Next

(* A closing-image task leaves every session in order that it does not mark *)
(* as stale.                                                                *)
LEMMA ShotsOrder ==
  ASSUME Stage, ShotShape, Marked, NEW k \in Shot, ShotRead(k) \/ ShotWrite(k)
  PROVE  InOrder'
<1>. DEFINE p == shot[k].place
            m == shot[k].mem
<1>0. Shape /\ Links /\ InOrder
  BY DEF Stage
<1>1. /\ UNCHANGED <<reg, loop, handles, degraded, conn, boot, stop>>
      /\ HistGrows /\ \A s \in Session : Issued(s)' <=> Issued(s)
  BY <1>0, ShotLeaves DEF HistGrows, Issued
<1>2. ASSUME NEW s \in Session, Undisturbed(s)', NEW q \in Place,
             s \in {file[q].owner, file'[q].owner}
      PROVE  file'[q] = file[q]
  <2>1. SUFFICES ASSUME file'[q] # file[q] PROVE FALSE
    OBVIOUS
  <2>2. /\ p \in Place /\ m \in Meta /\ ShotWrite(k) /\ Overtaken(k)
        /\ file' = [file EXCEPT ![p] = m]
    BY <1>0, <2>1, ShotRewrites
  <2>3. q = p /\ file'[q] = m
    BY <1>0, <2>1, <2>2, FilesTyped
  <2>4. s \in {file[p].owner, m.owner}
    BY <1>2, <2>3
  <2>5. "stale" \in hist'[s]
    BY <2>2, <2>4 DEF ShotWrite, Marked
  <2> QED BY <1>2, <2>5 DEF Undisturbed
<1>3. ASSUME NEW s \in Session, Undisturbed(s)' PROVE Orderly(s)'
  <2>1. Orderly(s)
    BY <1>0, <1>1, <1>3, StillUndisturbed DEF InOrder
  <2>2. Elsewhere(s)
    BY <1>1, <1>2, <1>3 DEF Elsewhere
  <2> QED BY <1>0, <1>1, <2>1, <2>2, ElsewhereKeeps
<1> QED BY <1>3 DEF InOrder

(* The inductive invariant.                                                 *)
Finishes == Stage /\ ShotShape /\ Swept /\ Sweeping

(* What is not disturbed stays in order, one lemma for each kind of step.   *)
LEMMA OrderInductive ==
  ASSUME Marked
  PROVE  Finishes /\ [Next]_vars => InOrder'
<1> SUFFICES ASSUME Finishes, [Next]_vars PROVE InOrder'
  OBVIOUS
<1>0. Stage /\ ShotShape /\ Swept /\ Sweeping /\ InOrder
  BY DEF Finishes, Stage
<1>1. CASE UNCHANGED vars
  <2>1. ASSUME NEW s \in Session, Undisturbed(s)' PROVE Orderly(s)'
    <3>1. Orderly(s)
      BY <1>0, <1>1, <2>1 DEF vars, InOrder, Undisturbed
    <3>2. Elsewhere(s)
      BY <1>1 DEF vars, Elsewhere, Issued
    <3> QED BY <1>0, <1>1, <3>1, <3>2, ElsewhereKeeps DEF vars, Stage
  <2> QED BY <2>1 DEF InOrder
<1>2. CASE Next
  BY <1>0, <1>2, LoopsOrder, ConnsOrder, ReceivesOrder, ShotsOrder, ProcessOrder DEF Next
<1> QED BY <1>1, <1>2

(* The inductive invariant is kept by every step,                           *)
LEMMA FinishesInductive ==
  ASSUME Marked
  PROVE  Finishes /\ [Next]_vars => Finishes'
<1> SUFFICES ASSUME Finishes, [Next]_vars PROVE Finishes'
  OBVIOUS
<1>1. /\ Shape /\ ShotShape /\ Links /\ MixedCopy /\ NoOrphanLoop /\ Swept /\ Sweeping
      /\ ~Local => Keyed
  BY DEF Finishes, Stage
<1>2. Shape' /\ ShotShape' /\ Links' /\ MixedCopy' /\ NoOrphanLoop'
  BY <1>1, ShapeInductive, LinksInductive, MixedInductive, OrphansInductive
<1>3. Swept' /\ Sweeping'
  BY <1>1, SweptKept, SweepingInductive DEF Marked
<1>4. ~Local => Keyed'
  BY <1>1, KeyedInductive
<1>5. InOrder'
  BY OrderInductive
<1> QED BY <1>2, <1>3, <1>4, <1>5 DEF Finishes, Stage, Local

(* and holds when ma-core is first started.                                 *)
LEMMA InitFinishes == Init => Finishes
<1> SUFFICES ASSUME Init PROVE Finishes
  OBVIOUS
<1>1. Shape /\ ShotShape /\ (~Local => Keyed)
  BY InitShape, InitKeyed
<1>2. /\ \A l \in Loop : loop[l] = NoLoop
      /\ \A c \in Conn : conn[c] = Idle
      /\ \A s \in Session : handles[s] = None /\ ~HasRecord(s) /\ hist[s] = {}
      /\ \A p \in Place : file[p] = NoFile
      /\ stop.sid = None /\ stop.todo = {} /\ boot = Serving
  BY DEF Init, NoSignal, HasRecord
<1>3. boot.pc = "serving" /\ boot.sid = None
  BY <1>2 DEF Serving, Boot
<1>4. Links
  BY <1>2, Blank, NoneAssumption
     DEF Links, LoopLinked, ConnLinked, HandleLinked, StopLinked
<1>5. MixedCopy /\ NoOrphanLoop /\ Swept /\ Sweeping
  BY <1>2, <1>3, Blank DEF MixedCopy, NoOrphanLoop, Swept, InSweep, Sweeping
<1>6. ASSUME NEW s \in Session PROVE Orderly(s)
  <2>1. Unborn(s) /\ OneTask(s)
    BY <1>2, Blank, NoneAssumption DEF Unborn, OneTask
  <2>2. Settled(s) /\ Home(s) /\ Aware(s) /\ Cleared(s)
    BY <1>2, <1>3, Blank, NoneAssumption
       DEF Settled, Offered, HasRecord, NoRecord, Home, Aware, Cleared
  <2>3. Unfinished(s)
    BY <1>2, Blank, NoneAssumption DEF Unfinished
  <2> QED BY <2>1, <2>2, <2>3 DEF Orderly
<1> QED BY <1>1, <1>4, <1>5, <1>6 DEF Finishes, Stage, InOrder

(* A session offered for annotation is a finished recording of its own: its *)
(* metadata.json is where the record says, carries its id and says that it  *)
(* is complete and not being captured, unless its messages overlapped, a    *)
(* call for it failed, ma-core died at work on it, another one's task was   *)
(* in its directory, or the closing-image task of its Done wrote back a     *)
(* copy of metadata.json older than the final flush of the loop.  With any  *)
(* number of sessions, names, connections, loops and closing-image tasks,   *)
(* in every storage mode, through signals, crashes, restarts and rollbacks. *)
THEOREM FinishedRecordingsAgree ==
  ASSUME {"raced", "mixed", "stale", "failed", "torn"} \subseteq Tracked
  PROVE  Spec => []FinishedAgrees
<1>1. Marked
  BY DEF Marked
<1>2. Finishes /\ [Next]_vars => Finishes'
  BY <1>1, FinishesInductive
<1>3. Finishes => FinishedAgrees
  BY DEF Finishes, Stage, InOrder, Orderly, Settled, Offered, Good, Finished, FinishedAgrees
<1> QED BY <1>2, <1>3, InitFinishes, PTL DEF Spec
=============================================================================
