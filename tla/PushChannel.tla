----------------------------- MODULE PushChannel -----------------------------
(***************************************************************************)
(* Who waits for whom around the push channels (ma-core/src/ipc/mod.rs,    *)
(* ma-core/src/capture).  A connection has one bounded channel on which    *)
(* the other tasks push to its client, and only its own task takes from    *)
(* it, between two messages.  Pushes of files are dropped when the channel *)
(* is full, but Done and the disconnect handler of a watch loop wait for   *)
(* room, and Done waits with the mutex of push_handles held: the guard of  *)
(* an `if let' lives to the end of its block.                              *)
(***************************************************************************)
EXTENDS Naturals

CONSTANTS
    Session,
    Conn,       \* IPC connections, each used once
    Loop,       \* watch loop tasks that may run at the same time
    Room,       \* messages a push channel holds
    None

ASSUME RoomAssumption == Room \in Nat \ {0}
ASSUME NoneAssumption == None \notin Session \cup Conn \cup Loop

VARIABLES
    conn,      \* the message each connection is handling
    queue,     \* messages in each connection's push channel
    push,      \* push_handles: the channel of the connection that started it
    lock,      \* the connection that holds the mutex of push_handles
    handles,   \* done_handles: the loop whose handle the map holds
    loop,      \* the watch loops
    shots      \* channels on which a closing-image task is about to push

vars == <<conn, queue, push, lock, handles, loop, shots>>

InDone == {"fire", "lookup", "peek", "await", "push", "send"}
ConnPCs == {"idle", "closed", "insert", "ready", "remove", "unpush"} \cup InDone
LoopPCs == {"none", "start", "hung", "arm", "capture", "drain", "notify", "end"}

(* loop: the task a StartWatch or a Done waits for; to: the channel         *)
(* SessionComplete goes to.                                                 *)
Messages == [pc : ConnPCs, sid : Session \cup {None}, loop : Loop \cup {None},
             to : Conn \cup {None}]
Idle == [pc |-> "idle", sid |-> None, loop |-> None, to |-> None]
Message(pc, s, l) == [Idle EXCEPT !.pc = pc, !.sid = s, !.loop = l]

Loops == [pc : LoopPCs, sid : Session \cup {None}, tx : Conn \cup {None},
          fired : BOOLEAN, clean : BOOLEAN]
NoLoop == [pc |-> "none", sid |-> None, tx |-> None, fired |-> FALSE, clean |-> FALSE]

TypeOK ==
    /\ conn \in [Conn -> Messages]
    /\ queue \in [Conn -> 0..Room]
    /\ push \in [Session -> Conn \cup {None}]
    /\ lock \in Conn \cup {None}
    /\ handles \in [Session -> Loop \cup {None}]
    /\ loop \in [Loop -> Loops]
    /\ shots \subseteq Conn

Init ==
    /\ conn = [c \in Conn |-> Idle]
    /\ queue = [c \in Conn |-> 0]
    /\ push = [s \in Session |-> None]
    /\ lock = None
    /\ handles = [s \in Session |-> None]
    /\ loop = [l \in Loop |-> NoLoop]
    /\ shots = {}

-----------------------------------------------------------------------------
Closed(c) == conn[c].pc = "closed"
Full(c) == queue[c] = Room

(* Plausible slips in the code, each one caught by a property below.        *)
Filled_Unbounded(c, n) == [queue EXCEPT ![c] = @ + n]   \* an unbounded channel
CanSend_Waits(c) == ~Full(c)                \* a closed receiver is not noticed

(* send: it waits for room, and fails at once when the receiver is gone.    *)
CanSend(c) == Closed(c) \/ ~Full(c)

(* n messages more on the channel, as many as it takes.                     *)
Filled(c, n) ==
    [queue EXCEPT ![c] = IF Closed(c) THEN @ ELSE IF @ + n > Room THEN Room ELSE @ + n]

Goto(c, pc) == [conn EXCEPT ![c].pc = pc]
Reply(c) == [conn EXCEPT ![c] = Idle]
LoopGoto(l, pc) == [loop EXCEPT ![l].pc = pc]

(* A dropped or used sender makes done_rx ready, for a loop that still      *)
(* looks at it.                                                             *)
Fire(l) ==
    [x \in Loop |-> IF x = l /\ loop[x].pc = "capture"
                    THEN [loop[x] EXCEPT !.fired = TRUE] ELSE loop[x]]

-----------------------------------------------------------------------------
(* StartWatch registers the channel, spawns the loop and waits until it     *)
(* reports that events can flow.                                            *)
StartWatch(c, s, l) ==
    /\ conn[c].pc = "idle"
    /\ loop[l].pc = "none"
    /\ \A d \in Conn : conn[d].loop # l
    /\ conn' = [conn EXCEPT ![c] = Message("insert", s, l)]
    /\ UNCHANGED <<queue, push, lock, handles, loop, shots>>

InsertPush(c) ==
    LET s == conn[c].sid
        spawned == [NoLoop EXCEPT !.pc = "start", !.sid = s, !.tx = c]
    IN  /\ conn[c].pc = "insert"
        /\ lock = None
        /\ push' = [push EXCEPT ![s] = c]
        /\ loop' = [loop EXCEPT ![conn[c].loop] = spawned]
        /\ conn' = Goto(c, "ready")
        /\ UNCHANGED <<queue, lock, handles, shots>>

(* The loop did not come up: its channel is taken out of the map.           *)
RemovePush(c) ==
    /\ conn[c].pc = "remove"
    /\ lock = None
    /\ push' = [push EXCEPT ![conn[c].sid] = None]
    /\ conn' = Reply(c)
    /\ UNCHANGED <<queue, lock, handles, loop, shots>>

-----------------------------------------------------------------------------
(* run_watch_loop.  The event source comes up, or fails, or a call to       *)
(* Control-Center never returns.                                            *)
LoopReady(l) ==
    /\ loop[l].pc = "start"
    /\ loop' = LoopGoto(l, "arm")
    /\ conn' = [c \in Conn |-> IF conn[c].pc = "ready" /\ conn[c].loop = l
                              THEN Idle ELSE conn[c]]
    /\ UNCHANGED <<queue, push, lock, handles, shots>>

LoopFails(l) ==
    /\ loop[l].pc = "start"
    /\ loop' = [loop EXCEPT ![l] = NoLoop]
    /\ conn' = [c \in Conn |-> IF conn[c].pc = "ready" /\ conn[c].loop = l
                              THEN Message("remove", conn[c].sid, None) ELSE conn[c]]
    /\ UNCHANGED <<queue, push, lock, handles, shots>>

LoopHangs(l) ==
    /\ loop[l].pc = "start"
    /\ loop' = LoopGoto(l, "hung")
    /\ UNCHANGED <<conn, queue, push, lock, handles, shots>>

(* done_handles.insert drops the handle of an earlier loop.                 *)
LoopArm(l) ==
    LET s == loop[l].sid
    IN  /\ loop[l].pc = "arm"
        /\ handles' = [handles EXCEPT ![s] = l]
        /\ loop' = [Fire(handles[s]) EXCEPT ![l].pc = "capture"]
        /\ UNCHANGED <<conn, queue, push, lock, shots>>

(* SessionStarted, FileWritten: try_send, dropped when there is no room.    *)
LoopPush(l) ==
    /\ loop[l].pc = "capture"
    /\ queue' = Filled(loop[l].tx, 1)
    /\ UNCHANGED <<conn, push, lock, handles, loop, shots>>

LoopStops(l, clean) ==
    /\ loop[l].pc = "capture"
    /\ clean => loop[l].fired
    /\ loop' = [loop EXCEPT ![l].pc = "drain", ![l].fired = FALSE, ![l].clean = clean]
    /\ UNCHANGED <<conn, queue, push, lock, handles, shots>>

(* A clean end pushes up to three files; the other one tells the client.    *)
LoopDrain(l, n) ==
    /\ loop[l].pc = "drain"
    /\ n \in 0..(IF loop[l].clean THEN 3 ELSE 0)
    /\ queue' = Filled(loop[l].tx, n)
    /\ loop' = [loop EXCEPT ![l].pc = IF loop[l].clean THEN "end" ELSE "notify",
                            ![l].clean = FALSE]
    /\ UNCHANGED <<conn, push, lock, handles, shots>>

(* DisconnectHandler::handle sends SessionDisconnected and waits for room.  *)
LoopNotify(l) ==
    /\ loop[l].pc = "notify"
    /\ CanSend(loop[l].tx)
    /\ queue' = Filled(loop[l].tx, 1)
    /\ loop' = LoopGoto(l, "end")
    /\ UNCHANGED <<conn, push, lock, handles, shots>>

(* Remove the session's handle, whosever it is, and send the result to the  *)
(* Done that waits for it.                                                  *)
LoopEnd(l) ==
    LET s == loop[l].sid
    IN  /\ loop[l].pc = "end"
        /\ loop' = [Fire(handles[s]) EXCEPT ![l] = NoLoop]
        /\ handles' = [handles EXCEPT ![s] = None]
        /\ conn' = [c \in Conn |-> IF conn[c].loop = l THEN [conn[c] EXCEPT !.loop = None]
                                  ELSE conn[c]]
        /\ UNCHANGED <<queue, push, lock, shots>>

-----------------------------------------------------------------------------
(* Done takes the handle, wakes the loop, looks up the channel for the      *)
(* closing image, waits for the loop's result, and sends SessionComplete to *)
(* the connection that started the watch.  Without a handle it finalises    *)
(* the session itself.                                                      *)
Done(c, s) ==
    /\ conn[c].pc = "idle"
    /\ handles' = [handles EXCEPT ![s] = None]
    /\ conn' = [conn EXCEPT ![c] =
                  Message(IF handles[s] = None THEN "lookup" ELSE "fire", s, handles[s])]
    /\ UNCHANGED <<queue, push, lock, loop, shots>>

(* Without a record there is no directory to put an image in.               *)
FireDone(c, found) ==
    /\ conn[c].pc = "fire"
    /\ loop' = Fire(conn[c].loop)
    /\ conn' = Goto(c, IF found THEN "peek" ELSE "await")
    /\ UNCHANGED <<queue, push, lock, handles, shots>>

LookUp(c, found) ==
    /\ conn[c].pc = "lookup"
    /\ conn' = IF found THEN Goto(c, "peek") ELSE Reply(c)
    /\ UNCHANGED <<queue, push, lock, handles, loop, shots>>

PeekPush(c) ==
    /\ conn[c].pc = "peek"
    /\ lock = None
    /\ shots' = shots \cup ({push[conn[c].sid]} \ {None})
    /\ conn' = Goto(c, "await")
    /\ UNCHANGED <<queue, push, lock, handles, loop>>

(* result_rx: the loop sends its result as it ends.                         *)
TakeResult(c) ==
    /\ conn[c].pc = "await"
    /\ conn[c].loop = None
    /\ conn' = Goto(c, "push")
    /\ UNCHANGED <<queue, push, lock, handles, loop, shots>>

TakePush(c) ==
    LET s == conn[c].sid
    IN  /\ conn[c].pc = "push"
        /\ lock = None
        /\ IF push[s] = None
           THEN conn' = Reply(c) /\ UNCHANGED lock
           ELSE conn' = [conn EXCEPT ![c].pc = "send", ![c].to = push[s]] /\ lock' = c
        /\ push' = [push EXCEPT ![s] = None]
        /\ UNCHANGED <<queue, handles, loop, shots>>

SendComplete(c) ==
    /\ conn[c].pc = "send"
    /\ CanSend(conn[c].to)
    /\ queue' = Filled(conn[c].to, 1)
    /\ lock' = None
    /\ conn' = Reply(c)
    /\ UNCHANGED <<push, handles, loop, shots>>

(* The closing image: FileWritten for the image and for metadata.json.  At  *)
(* most one such task is kept for a channel.                                *)
ShotPush(c, n) ==
    /\ c \in shots
    /\ n \in {0, 2}
    /\ queue' = Filled(c, n)
    /\ shots' = shots \ {c}
    /\ UNCHANGED <<conn, push, lock, handles, loop>>

(* The forced deletion of an active session drops both its handles.         *)
DeleteSession(c, s) ==
    /\ conn[c].pc = "idle"
    /\ handles' = [handles EXCEPT ![s] = None]
    /\ loop' = Fire(handles[s])
    /\ conn' = [conn EXCEPT ![c] = Message("unpush", s, None)]
    /\ UNCHANGED <<queue, push, lock, shots>>

DropPush(c) ==
    /\ conn[c].pc = "unpush"
    /\ lock = None
    /\ push' = [push EXCEPT ![conn[c].sid] = None]
    /\ conn' = Reply(c)
    /\ UNCHANGED <<queue, lock, handles, loop, shots>>

-----------------------------------------------------------------------------
(* The connection's own task, between two messages: it forwards a push, or  *)
(* sees that the client is gone, and with it the receiver of the channel.   *)
Drain(c) ==
    /\ conn[c].pc = "idle"
    /\ queue[c] > 0
    /\ queue' = [queue EXCEPT ![c] = @ - 1]
    /\ UNCHANGED <<conn, push, lock, handles, loop, shots>>

Close(c) ==
    /\ conn[c].pc = "idle"
    /\ conn' = Goto(c, "closed")
    /\ UNCHANGED <<queue, push, lock, handles, loop, shots>>

Receive(c) ==
    \E s \in Session :
        \/ Done(c, s) \/ DeleteSession(c, s)
        \/ \E l \in Loop : StartWatch(c, s, l)

ConnNext(c) ==
    \/ RemovePush(c) \/ PeekPush(c) \/ TakeResult(c) \/ TakePush(c) \/ SendComplete(c)
    \/ InsertPush(c) \/ DropPush(c)
    \/ \E found \in BOOLEAN : FireDone(c, found) \/ LookUp(c, found)

LoopNext(l) ==
    \/ LoopReady(l) \/ LoopFails(l) \/ LoopHangs(l) \/ LoopArm(l) \/ LoopNotify(l)
    \/ LoopEnd(l) \/ LoopStops(l, TRUE)
    \/ \E n \in 0..3 : LoopDrain(l, n)

Next ==
    \/ \E c \in Conn :
          \/ Receive(c) \/ ConnNext(c) \/ Drain(c) \/ Close(c)
          \/ \E n \in {0, 2} : ShotPush(c, n)
    \/ \E l \in Loop : LoopNext(l) \/ LoopPush(l) \/ LoopStops(l, FALSE)

Spec == Init /\ [][Next]_vars

(* Tasks run.  The mutex and the channels serve those who wait in the order *)
(* they came, so a lock that is free again and again, or room that is, is   *)
(* had in the end; and select! picks among what is ready at random, so a    *)
(* connection that is idle again and again forwards what waits in its       *)
(* channel, if its client reads.                                            *)
Fairness ==
    /\ \A c \in Conn : SF_vars(ConnNext(c)) /\ SF_vars(Drain(c))
    /\ \A l \in Loop : SF_vars(LoopNext(l))

FairSpec == Spec /\ Fairness

-----------------------------------------------------------------------------
(* What a connection in D waits for can only come from a connection in D,   *)
(* or from a call to Control-Center that never returns: the mutex, room in  *)
(* a channel, or a loop that itself waits for room.                         *)
FullIn(D, c) == c \in D /\ Full(c)
Stuck(D, c) ==
    \/ conn[c].pc \in {"insert", "remove", "peek", "push", "unpush"} /\ lock \in D
    \/ conn[c].pc = "send" /\ FullIn(D, conn[c].to)
    \/ /\ conn[c].pc = "await"
       /\ conn[c].loop # None
       /\ loop[conn[c].loop].pc = "notify"
       /\ FullIn(D, loop[conn[c].loop].tx)
    \/ conn[c].pc = "ready" /\ loop[conn[c].loop].pc = "hung"

Wedged(c) == \E D \in SUBSET Conn : c \in D /\ \A d \in D : Stuck(D, d)

(* Done is answered, unless it is one of a set of connections that wait for *)
(* each other, over a full push channel that none of them can take from,    *)
(* or for a StartWatch that hangs (Done and run_watch_loop, whatever the    *)
(* other connections do meanwhile and also when clients go away).           *)
DoneAnswered ==
    \A c \in Conn : conn[c].pc \in InDone ~> conn[c].pc = "idle" \/ Wedged(c)
=============================================================================
