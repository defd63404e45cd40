---------------------------- MODULE KafkaCapture ----------------------------
(***************************************************************************)
(* Capture from a broker, in cloud_primary mode: the producer, the         *)
(* consumer that routes events to watch loops (ma-core/src/kafka), what a   *)
(* loop keeps of them (CaptureState, CommandWriter), how it is stored, and  *)
(* the replay of interrupted sessions at start-up (ma-core/src/main.rs).    *)
(*                                                                         *)
(* The topic has one partition here: a session's events are keyed by its   *)
(* id and therefore share one.  Offsets count from 1, and 0 stands for the  *)
(* absent kafka_offset of a recording without events.                      *)
(***************************************************************************)
EXTENDS Naturals, Sequences

CONSTANTS
    Session,        \* session ids, all registered
    Capacity,       \* kafka_channel_capacity
    FlushInterval,  \* metadata_flush_interval
    Faults,         \* what may go wrong: "put" (an upload fails), "poll" (the
                    \* recovery consumer reports an error), "eyes" (The-Eyes
                    \* goes down), "signal", "crash"
    MaxEvents,      \* bound: events produced
    MaxStarts,      \* bound: StartWatch messages for one session
    MaxStops,       \* bound: signals and crashes
    None

ASSUME BoundsAssumption ==
    /\ Capacity \in Nat \ {0} /\ FlushInterval \in Nat \ {0}
    /\ MaxEvents \in Nat /\ MaxStarts \in Nat /\ MaxStops \in Nat
ASSUME FaultNames == Faults \subseteq {"put", "poll", "eyes", "signal", "crash"}
ASSUME NoneIsNoSession == None \notin Session

VARIABLES
    topic,     \* the partition: the events in the order of their offsets
    consumer,  \* the consumer group: next offset, stored and committed ones
    route,     \* KafkaSessionMap: the sessions with a sender in the map
    chan,      \* the offsets in each session's channel
    loop,      \* each session's watch loop
    stored,    \* metadata.json in object storage
    cmds,      \* the command files in object storage
    reg,       \* the status of the Redis record
    stop,      \* the signal handler
    boot,      \* the active-set sweep of start-up
    hist       \* history and bounds: from: where its first loop began to
               \* listen; starts: StartWatch messages; done: where its replay
               \* ended; cut: its replay met an error; stops: signals, crashes

vars == <<topic, consumer, route, chan, loop, stored, cmds, reg, stop, boot, hist>>

-----------------------------------------------------------------------------
(* "position" events are not recorded; "other" is what the consumer skips:  *)
(* an empty or unreadable payload, or another event_type.                   *)
Kinds == {"step", "position", "other"}
Events == [sid : Session, kind : Kinds]

(* A StepEntry: its step_id and the event it records.                       *)
Step(id, o) == [id |-> id, off |-> o]
Steps == [id : Nat, off : Nat]

Metas == [steps : Seq(Steps), offset : Nat,
          status : {"active", "complete", "incomplete", "pending_annotation"},
          prog : {"none", "capturing", "interrupted"}]
Fresh == [steps |-> <<>>, offset |-> 0, status |-> "active", prog |-> "none"]

(* mem: CaptureState's copy; buf: the buffers of CommandWriter, whose       *)
(* length is its step_counter; due: steps_since_flush.                      *)
LoopPCs == {"off", "begin", "run", "flush", "upload", "unroute", "finalise",
            "last", "status"}
Loops == [pc : LoopPCs, mem : Metas, buf : Seq(Steps), due : Nat, clean : BOOLEAN]
NoLoop == [pc |-> "off", mem |-> Fresh, buf |-> <<>>, due |-> 0, clean |-> FALSE]

NoSignal == [on |-> FALSE, todo |-> {}, sid |-> None, mem |-> Fresh]
Boots == [pc : {"serving", "sweep", "replay", "recover", "settle"},
          todo : SUBSET Session, sid : Session \cup {None},
          next : Nat, high : Nat, mem : Metas]
Boot(pc, todo, s) == [pc |-> pc, todo |-> todo, sid |-> s,
                      next |-> 0, high |-> 0, mem |-> Fresh]
Serving == Boot("serving", {}, None)

Consumers == [next : Nat \ {0}, stored : Nat, committed : Nat]
Stops == [on : BOOLEAN, todo : SUBSET Session, sid : Session \cup {None}, mem : Metas]
Hists == [from : [Session -> Nat], starts : [Session -> Nat],
          done : [Session -> Nat], cut : SUBSET Session, stops : Nat]

TypeOK ==
    /\ topic \in Seq(Events)
    /\ consumer \in Consumers
    /\ route \subseteq Session
    /\ chan \in [Session -> Seq(Nat)]
    /\ loop \in [Session -> Loops]
    /\ stored \in [Session -> Metas]
    /\ cmds \in [Session -> Seq(Steps)]
    /\ reg \in [Session -> {"active", "incomplete", "pending_annotation"}]
    /\ stop \in Stops
    /\ boot \in Boots
    /\ hist \in Hists

Init ==
    /\ topic = <<>>
    /\ consumer = [next |-> 1, stored |-> 0, committed |-> 0]
    /\ route = {}
    /\ chan = [s \in Session |-> <<>>]
    /\ loop = [s \in Session |-> NoLoop]
    /\ stored = [s \in Session |-> Fresh]
    /\ cmds = [s \in Session |-> <<>>]
    /\ reg = [s \in Session |-> "active"]
    /\ stop = NoSignal
    /\ boot = Serving
    /\ hist = [from |-> [s \in Session |-> 0], starts |-> [s \in Session |-> 0],
               done |-> [s \in Session |-> 0], cut |-> {}, stops |-> 0]

Up == boot.pc = "serving"
StepAt(t, s, o) == o \in DOMAIN t /\ t[o] = [sid |-> s, kind |-> "step"]
IsStep(s, o) == StepAt(topic, s, o)

(* update_kafka_position and append_step.                                   *)
Keep(m, st) == [m EXCEPT !.steps = Append(@, st), !.offset = st.off]

(* An upload either happens or fails.                                       *)
May(ok) == ok \/ "put" \in Faults
Goto(s, pc) == loop' = [loop EXCEPT ![s].pc = pc]

-----------------------------------------------------------------------------
(* ma-kafka-producer and other writers of the topic.                        *)
Produce(s, kind) ==
    /\ Len(topic) < MaxEvents
    /\ topic' = Append(topic, [sid |-> s, kind |-> kind])
    /\ UNCHANGED <<consumer, route, chan, loop, stored, cmds, reg, stop, boot, hist>>

(* run_kafka_consumer: one message.  Only a message put into a channel has  *)
(* its offset stored.  A full channel loses the message and takes the       *)
(* session out of the map, which drops the channel's sender.  (A closed     *)
(* channel does the same, but a loop leaves the map before it drops its     *)
(* receiver.)                                                               *)
Recv ==
    LET o == consumer.next
        s == topic[o].sid
        wanted == topic[o].kind # "other" /\ s \in route
        full == Len(chan[s]) >= Capacity
    IN  /\ Up
        /\ o \in DOMAIN topic
        /\ consumer' = [consumer EXCEPT !.next = o + 1,
                                        !.stored = IF wanted /\ ~full THEN o ELSE @]
        /\ chan' = IF wanted /\ ~full THEN [chan EXCEPT ![s] = Append(@, o)] ELSE chan
        /\ route' = IF wanted /\ full THEN route \ {s} ELSE route
        /\ UNCHANGED <<topic, loop, stored, cmds, reg, stop, boot, hist>>

(* enable.auto.commit: stored offsets are committed now and then.           *)
AutoCommit ==
    /\ Up
    /\ consumer.committed # consumer.stored
    /\ consumer' = [consumer EXCEPT !.committed = consumer.stored]
    /\ UNCHANGED <<topic, route, chan, loop, stored, cmds, reg, stop, boot, hist>>

-----------------------------------------------------------------------------
(* StartWatch: the loop fetches metadata.json and enters the map.  Nothing  *)
(* looks at the session's status.                                           *)
StartWatch(s) ==
    /\ Up
    /\ loop[s].pc = "off"
    /\ hist.starts[s] < MaxStarts
    /\ loop' = [loop EXCEPT ![s] = [NoLoop EXCEPT !.pc = "begin", !.mem = stored[s]]]
    /\ route' = route \cup {s}
    /\ chan' = [chan EXCEPT ![s] = <<>>]
    /\ hist' = [hist EXCEPT !.starts[s] = @ + 1,
                            !.from[s] = IF hist.starts[s] = 0 THEN consumer.next ELSE @]
    /\ UNCHANGED <<topic, consumer, stored, cmds, reg, stop, boot>>

(* CaptureState::flush, as far as it goes with metadata.json.               *)
Flush(s, mem, pc, ok) ==
    /\ May(ok)
    /\ stored' = IF ok THEN [stored EXCEPT ![s] = mem] ELSE stored
    /\ loop' = [loop EXCEPT ![s].mem = mem, ![s].pc = pc]

(* The done handle is armed, which a signal handler holds up, and           *)
(* in_progress is stored.                                                   *)
Begin(s, ok) ==
    /\ loop[s].pc = "begin"
    /\ ~stop.on
    /\ Flush(s, [loop[s].mem EXCEPT !.prog = "capturing"], "run", ok)
    /\ UNCHANGED <<topic, consumer, route, chan, cmds, reg, stop, boot, hist>>

(* One event of the channel: write_event puts it into the buffers.          *)
TakeEvent(s) ==
    LET o == Head(chan[s])
        st == Step(Len(loop[s].buf) + 1, o)
    IN  /\ loop[s].pc = "run"
        /\ chan[s] # <<>>
        /\ chan' = [chan EXCEPT ![s] = Tail(@)]
        /\ IF topic[o].kind = "position" THEN UNCHANGED loop
           ELSE loop' = [loop EXCEPT ![s].pc = "flush", ![s].buf = Append(@, st),
                                     ![s].mem = Keep(@, st)]
        /\ UNCHANGED <<topic, consumer, route, stored, cmds, reg, stop, boot, hist>>

(* flush_if_due.                                                            *)
FlushIfDue(s, ok) ==
    /\ loop[s].pc = "flush"
    /\ IF loop[s].due + 1 < FlushInterval
       THEN /\ ok
            /\ loop' = [loop EXCEPT ![s].pc = "upload", ![s].due = @ + 1]
            /\ UNCHANGED stored
       ELSE /\ May(ok)
            /\ stored' = IF ok THEN [stored EXCEPT ![s] = loop[s].mem] ELSE stored
            /\ loop' = [loop EXCEPT ![s].pc = IF ok THEN "upload" ELSE "run",
                                    ![s].due = 0]
    /\ UNCHANGED <<topic, consumer, route, chan, cmds, reg, stop, boot, hist>>

FlushToCloud_Newest(s, from, to, ok) ==   \* uploads the newest row only
    /\ loop[s].pc = from
    /\ May(ok)
    /\ cmds' = IF ok /\ loop[s].buf # <<>>
               THEN [cmds EXCEPT ![s] = Append(@, loop[s].buf[Len(loop[s].buf)])] ELSE cmds
    /\ Goto(s, to)
    /\ UNCHANGED <<topic, consumer, route, chan, stored, reg, stop, boot, hist>>

(* flush_to_cloud, after every step whose flush_if_due did not fail, and at *)
(* the end, in finalise.                                                    *)
FlushToCloud(s, from, to, ok) ==
    /\ loop[s].pc = from
    /\ May(ok)
    /\ cmds' = IF ok THEN [cmds EXCEPT ![s] = loop[s].buf] ELSE cmds
    /\ Goto(s, to)
    /\ UNCHANGED <<topic, consumer, route, chan, stored, reg, stop, boot, hist>>

Upload(s, ok) == FlushToCloud(s, "upload", "run", ok)
Finalise(s, ok) == FlushToCloud(s, "finalise", "last", ok)

(* select!: Done, The-Eyes down, or a channel that is empty and whose       *)
(* sender has left the map.  What Done leaves in the channel is lost.       *)
Break(s, clean) ==
    /\ loop[s].pc = "run"
    /\ loop' = [loop EXCEPT ![s].pc = "unroute", ![s].clean = clean]
    /\ UNCHANGED <<topic, consumer, route, chan, stored, cmds, reg, stop, boot, hist>>

Done(s) == Break(s, TRUE)
EyesDown(s) == "eyes" \in Faults /\ Break(s, FALSE)
ChannelEnds(s) == chan[s] = <<>> /\ s \notin route /\ Break(s, FALSE)

Unroute(s) ==
    /\ loop[s].pc = "unroute"
    /\ route' = route \ {s}
    /\ Goto(s, "finalise")
    /\ UNCHANGED <<topic, consumer, chan, stored, cmds, reg, stop, boot, hist>>

(* mark_complete and clear_in_progress, or mark_incomplete and              *)
(* set_in_progress("interrupted"), then flush_now.                          *)
LastFlush(s, ok) ==
    /\ loop[s].pc = "last"
    /\ Flush(s, IF loop[s].clean
                THEN [loop[s].mem EXCEPT !.status = "complete", !.prog = "none"]
                ELSE [loop[s].mem EXCEPT !.status = "incomplete", !.prog = "interrupted"],
             "status", ok)
    /\ UNCHANGED <<topic, consumer, route, chan, cmds, reg, stop, boot, hist>>

LoopEnds_FileStatus(s) ==   \* the status string of metadata.json goes to Redis
    /\ loop[s].pc = "status"
    /\ reg' = [reg EXCEPT ![s] = loop[s].mem.status]
    /\ loop' = [loop EXCEPT ![s] = NoLoop]
    /\ chan' = [chan EXCEPT ![s] = <<>>]
    /\ UNCHANGED <<topic, consumer, route, stored, cmds, stop, boot, hist>>

LoopEnds(s) ==
    /\ loop[s].pc = "status"
    /\ reg' = [reg EXCEPT ![s] = IF loop[s].clean THEN "pending_annotation" ELSE "incomplete"]
    /\ loop' = [loop EXCEPT ![s] = NoLoop]
    /\ chan' = [chan EXCEPT ![s] = <<>>]
    /\ UNCHANGED <<topic, consumer, route, stored, cmds, stop, boot, hist>>

-----------------------------------------------------------------------------
(* The signal handler flags every session that has a handle, by a get and a *)
(* put of metadata.json, while the loops go on.                             *)
Signal ==
    /\ Up /\ ~stop.on
    /\ "signal" \in Faults
    /\ hist.stops < MaxStops
    /\ stop' = [NoSignal EXCEPT !.on = TRUE,
                  !.todo = {s \in Session : loop[s].pc \notin {"off", "begin"}}]
    /\ hist' = [hist EXCEPT !.stops = @ + 1]
    /\ UNCHANGED <<topic, consumer, route, chan, loop, stored, cmds, reg, boot>>

FetchInterrupted(s) ==
    /\ stop.sid = None /\ s \in stop.todo
    /\ stop' = [stop EXCEPT !.sid = s, !.todo = @ \ {s},
                            !.mem = [stored[s] EXCEPT !.prog = "interrupted"]]
    /\ UNCHANGED <<topic, consumer, route, chan, loop, stored, cmds, reg, boot, hist>>

StoreInterrupted(ok) ==
    /\ stop.sid # None
    /\ May(ok)
    /\ stored' = IF ok THEN [stored EXCEPT ![stop.sid] = stop.mem] ELSE stored
    /\ stop' = [stop EXCEPT !.sid = None]
    /\ UNCHANGED <<topic, consumer, route, chan, loop, cmds, reg, boot, hist>>

(* What was only in memory is gone; the consumer group resumes after the    *)
(* last committed offset.                                                   *)
ProcessDies ==
    /\ consumer' = [consumer EXCEPT !.next = consumer.committed + 1, !.stored = consumer.committed]
    /\ route' = {}
    /\ chan' = [s \in Session |-> <<>>]
    /\ loop' = [s \in Session |-> NoLoop]
    /\ stop' = NoSignal
    /\ boot' = Boot("sweep", {s \in Session : reg[s] = "active"}, None)
    /\ UNCHANGED <<topic, stored, cmds, reg>>

Exit ==
    /\ stop.on /\ stop.todo = {} /\ stop.sid = None
    /\ ProcessDies
    /\ UNCHANGED hist

Crash ==
    /\ "crash" \in Faults
    /\ hist.stops < MaxStops
    /\ ProcessDies
    /\ hist' = [hist EXCEPT !.stops = @ + 1]

-----------------------------------------------------------------------------
(* The active-set sweep.  A session that is not replayed, or whose replay   *)
(* cannot be started, is settled at once.                                   *)
Replayable(m) == m.status # "complete" /\ m.prog = "interrupted" /\ m.offset # 0

SweepActive_OnlyInterrupted(s) ==   \* "capturing" is taken for an unknown value: skipped
    /\ boot.pc = "sweep" /\ s \in boot.todo
    /\ Replayable(stored[s]) => "poll" \in Faults
    /\ reg' = IF stored[s].prog = "capturing" THEN reg
              ELSE [reg EXCEPT ![s] = IF stored[s].status = "complete"
                                      THEN "pending_annotation" ELSE "incomplete"]
    /\ boot' = [boot EXCEPT !.todo = @ \ {s}]
    /\ UNCHANGED <<topic, consumer, route, chan, loop, stored, cmds, stop, hist>>

SweepActive(s) ==
    /\ boot.pc = "sweep" /\ s \in boot.todo
    /\ Replayable(stored[s]) => "poll" \in Faults
    /\ reg' = [reg EXCEPT ![s] = IF stored[s].status = "complete"
                                 THEN "pending_annotation" ELSE "incomplete"]
    /\ boot' = [boot EXCEPT !.todo = @ \ {s}]
    /\ UNCHANGED <<topic, consumer, route, chan, loop, stored, cmds, stop, hist>>

StartReplay_Inclusive(s) ==   \* from kafka_offset, not the one after it
    /\ boot.pc = "sweep" /\ s \in boot.todo
    /\ Replayable(stored[s])
    /\ boot' = [pc |-> "replay", todo |-> boot.todo \ {s}, sid |-> s,
                next |-> stored[s].offset, high |-> Len(topic), mem |-> stored[s]]
    /\ UNCHANGED <<topic, consumer, route, chan, loop, stored, cmds, reg, stop, hist>>

(* replay_session_events: from the offset after the stored one up to the    *)
(* high watermark of this moment.                                           *)
StartReplay(s) ==
    /\ boot.pc = "sweep" /\ s \in boot.todo
    /\ Replayable(stored[s])
    /\ boot' = [pc |-> "replay", todo |-> boot.todo \ {s}, sid |-> s,
                next |-> stored[s].offset + 1, high |-> Len(topic), mem |-> stored[s]]
    /\ UNCHANGED <<topic, consumer, route, chan, loop, stored, cmds, reg, stop, hist>>

(* The recovery thread sends one event and the sweep appends it.            *)
ReplayEvent ==
    LET o == boot.next
        m == boot.mem
    IN  /\ boot.pc = "replay" /\ o <= boot.high
        /\ boot' = [boot EXCEPT !.next = o + 1,
                      !.mem = IF IsStep(boot.sid, o) THEN Keep(m, Step(Len(m.steps) + 1, o))
                              ELSE m]
        /\ UNCHANGED <<topic, consumer, route, chan, loop, stored, cmds, reg, stop, hist>>

ReplayEnds_Early(cut) ==   \* one message before the high watermark
    /\ boot.pc = "replay"
    /\ IF cut THEN "poll" \in Faults ELSE boot.next >= boot.high
    /\ boot' = [boot EXCEPT !.pc = "recover"]
    /\ hist' = [hist EXCEPT !.done[boot.sid] = boot.high,
                            !.cut = IF cut THEN @ \cup {boot.sid} ELSE @ \ {boot.sid}]
    /\ UNCHANGED <<topic, consumer, route, chan, loop, stored, cmds, reg, stop>>

(* The thread ends at the high watermark, or at an error, which the sweep   *)
(* cannot tell apart.                                                       *)
ReplayEnds(cut) ==
    /\ boot.pc = "replay"
    /\ IF cut THEN "poll" \in Faults ELSE boot.next > boot.high
    /\ boot' = [boot EXCEPT !.pc = "recover"]
    /\ hist' = [hist EXCEPT !.done[boot.sid] = boot.high,
                            !.cut = IF cut THEN @ \cup {boot.sid} ELSE @ \ {boot.sid}]
    /\ UNCHANGED <<topic, consumer, route, chan, loop, stored, cmds, reg, stop>>

(* mark_recovered and flush_now; without it the session is incomplete.      *)
Recover(ok) ==
    LET s == boot.sid
    IN  /\ boot.pc = "recover"
        /\ May(ok)
        /\ stored' = IF ok THEN [stored EXCEPT ![s] =
                            [boot.mem EXCEPT !.status = "pending_annotation", !.prog = "none"]]
                     ELSE stored
        /\ reg' = IF ok THEN reg ELSE [reg EXCEPT ![s] = "incomplete"]
        /\ boot' = IF ok THEN [boot EXCEPT !.pc = "settle"]
                   ELSE Boot("sweep", boot.todo, None)
        /\ UNCHANGED <<topic, consumer, route, chan, loop, cmds, stop, hist>>

SettleRecovered ==
    /\ boot.pc = "settle"
    /\ reg' = [reg EXCEPT ![boot.sid] = "pending_annotation"]
    /\ boot' = Boot("sweep", boot.todo, None)
    /\ UNCHANGED <<topic, consumer, route, chan, loop, stored, cmds, stop, hist>>

Serve ==
    /\ boot.pc = "sweep" /\ boot.todo = {}
    /\ boot' = Serving
    /\ UNCHANGED <<topic, consumer, route, chan, loop, stored, cmds, reg, stop, hist>>

-----------------------------------------------------------------------------
LoopNext(s) ==
    \/ TakeEvent(s) \/ ChannelEnds(s) \/ Unroute(s) \/ LoopEnds(s)
    \/ \E ok \in BOOLEAN : Begin(s, ok) \/ FlushIfDue(s, ok) \/ Upload(s, ok)
                           \/ Finalise(s, ok) \/ LastFlush(s, ok)
SignalNext ==
    \/ \E s \in Session : FetchInterrupted(s)
    \/ \E ok \in BOOLEAN : StoreInterrupted(ok)
    \/ Exit
BootNext ==
    \/ \E s \in Session : SweepActive(s) \/ StartReplay(s)
    \/ ReplayEvent
    \/ \E cut \in BOOLEAN : ReplayEnds(cut)
    \/ \E ok \in BOOLEAN : Recover(ok)
    \/ SettleRecovered
    \/ Serve
Next ==
    \/ \E s \in Session, kind \in Kinds : Produce(s, kind)
    \/ Recv \/ AutoCommit
    \/ \E s \in Session : StartWatch(s) \/ Done(s) \/ EyesDown(s) \/ LoopNext(s)
    \/ Signal \/ SignalNext
    \/ Crash
    \/ BootNext

Spec == Init /\ [][Next]_vars
FairSpec ==
    /\ Spec
    /\ \A s \in Session : WF_vars(LoopNext(s))
    /\ WF_vars(SignalNext) /\ WF_vars(BootNext)
-----------------------------------------------------------------------------
StartedOnce(s) == hist.starts[s] = 1
Recorded(m) == {m.steps[i].off : i \in DOMAIN m.steps}
StepsIn(s, lo, hi) == {o \in lo .. hi : IsStep(s, o)}

(* Numbered from 1 and in the order of the topic.                           *)
Numbered(steps) ==
    \A i \in DOMAIN steps :
        /\ steps[i].id = i
        /\ \A j \in DOMAIN steps : i < j => steps[i].off < steps[j].off

(* The position stored with a recording is exact: the steps stored are all  *)
(* of the session's steps up to kafka_offset, each once, numbered without a *)
(* gap, so that a replay from kafka_offset + 1 neither repeats nor skips    *)
(* any.  This holds although the signal handler may put back an older       *)
(* metadata.json over a flush of the loop, the consumer may cut a session   *)
(* off, and uploads fail; it is about a session started once                *)
(* (update_kafka_position, append_step, flush_if_due, the replay).          *)
StoredExact ==
    \A s \in Session : StartedOnce(s) =>
        /\ Recorded(stored[s]) = StepsIn(s, hist.from[s], stored[s].offset)
        /\ Numbered(stored[s].steps)

(* The command files and metadata.json, which are uploaded by different     *)
(* calls, never disagree about a step both have: neither an upload that     *)
(* failed nor a restart makes them number events differently                *)
(* (CommandWriter::write_event, CaptureState::append_step, the replay).     *)
FilesAgree ==
    \A s \in Session : StartedOnce(s) =>
        \A i \in DOMAIN cmds[s] \cap DOMAIN stored[s].steps :
            cmds[s][i] = stored[s].steps[i]

(* A session that was replayed and is offered for annotation has every step *)
(* up to the high watermark of the replay, unless the recovery consumer met *)
(* an error (replay_session_events, mark_recovered).                        *)
RecoveredWhole ==
    \A s \in Session :
        StartedOnce(s) /\ reg[s] = "pending_annotation" /\ hist.done[s] # 0 /\ s \notin hist.cut
            => StepsIn(s, hist.from[s], hist.done[s]) \subseteq Recorded(stored[s])

(* A recording that is cut off settles: when its sender was taken out of    *)
(* the map because the channel was full, when its loop is ending, or when   *)
(* the process died, the session does not stay active (ChannelEnds, the     *)
(* end of run_watch_loop, the active-set sweep).                            *)
CutOff(s) ==
    \/ ~Up
    \/ loop[s].pc = "run" /\ s \notin route
    \/ loop[s].pc \in {"unroute", "finalise", "last", "status"}
CutOffSettles == \A s \in Session : CutOff(s) ~> reg[s] # "active"

-----------------------------------------------------------------------------
(* The strengthening that makes StoredExact inductive.  Every copy of a     *)
(* recording is exact (the one in storage, the loop's, the one the signal   *)
(* handler holds, the one a replay extends), and what is still to be taken  *)
(* is neither out of order nor missing: no step lies between a recording    *)
(* and the next event to be replayed, and a channel holds every step the    *)
(* consumer has passed since the recording, while its sender is in the map. *)
Exact(t, s, lo, m) ==
    /\ Recorded(m) = {o \in lo .. m.offset : StepAt(t, s, o)}
    /\ Numbered(m.steps)
    /\ m.offset = 0 \/ m.offset \in Recorded(m)

NoGap(t, s, lo, m, next) ==
    /\ lo <= next /\ m.offset < next /\ next <= Len(t) + 1
    /\ \A o \in DOMAIN t : lo <= o /\ m.offset < o /\ o < next => ~StepAt(t, s, o)

Queue(t, s, lo, m, c, next, routed) ==
    /\ lo <= next /\ m.offset < next
    /\ \A i \in DOMAIN c :
          /\ c[i] \in DOMAIN t /\ t[c[i]].sid = s /\ t[c[i]].kind # "other"
          /\ lo <= c[i] /\ m.offset < c[i] /\ c[i] < next
          /\ \A j \in DOMAIN c : i < j => c[i] < c[j]
    /\ \A o \in DOMAIN t :
          /\ StepAt(t, s, o) /\ lo <= o /\ m.offset < o
          /\ (routed /\ o < next) \/ \E i \in DOMAIN c : o < c[i]
          => \E j \in DOMAIN c : c[j] = o

Listening(s) ==
    loop[s].pc # "off" =>
        /\ Exact(topic, s, hist.from[s], loop[s].mem)
        /\ loop[s].buf = loop[s].mem.steps
        /\ Queue(topic, s, hist.from[s], loop[s].mem, chan[s], consumer.next, s \in route)

Putting(s) == stop.sid = s => Exact(topic, s, hist.from[s], stop.mem)

Replaying(s) ==
    boot.pc \in {"replay", "recover"} /\ boot.sid = s =>
        /\ Exact(topic, s, hist.from[s], boot.mem)
        /\ boot.pc = "replay" => /\ NoGap(topic, s, hist.from[s], boot.mem, boot.next)
                                 /\ boot.high <= Len(topic)

Untouched(s) ==
    hist.starts[s] = 0 =>
        /\ stored[s] = Fresh /\ loop[s].pc = "off"
        /\ s \notin stop.todo /\ stop.sid # s
        /\ boot.pc \in {"replay", "recover"} => boot.sid # s

RecordingExact(s) ==
    hist.starts[s] <= 1 =>
        /\ Exact(topic, s, hist.from[s], stored[s])
        /\ Listening(s) /\ Putting(s) /\ Replaying(s) /\ Untouched(s)

Positions ==
    /\ consumer.next <= Len(topic) + 1
    /\ consumer.stored <= Len(topic) /\ consumer.committed <= Len(topic)

SidKnown == boot.pc \in {"replay", "recover", "settle"} => boot.sid \in Session

CaptureInv == TypeOK /\ Positions /\ SidKnown /\ \A s \in Session : RecordingExact(s)

(* And the one for RecoveredWhole: while the process starts up nothing else *)
(* touches a session, one that is yet to be settled is still active, and a  *)
(* replay that reached the end has every step before it.                    *)
Holds(t, s, lo, hi, m) == {o \in lo .. hi : StepAt(t, s, o)} \subseteq Recorded(m)

StartingUp ==
    /\ IF Up THEN boot.todo = {}
       ELSE stop.todo = {} /\ stop.sid = None /\ \A s \in Session : loop[s].pc = "off"
    /\ \A s \in boot.todo : reg[s] = "active"
    /\ boot.pc \in {"replay", "recover", "settle"} =>
          /\ reg[boot.sid] = "active" /\ boot.sid \notin boot.todo
          /\ stored[boot.sid].status # "complete"

ReplayedWhole(s) ==
    hist.starts[s] <= 1 =>
        /\ hist.starts[s] = 0 => hist.done[s] = 0
        /\ hist.done[s] # 0 =>
              /\ loop[s].pc = "off" /\ s \notin stop.todo /\ stop.sid # s
              /\ stored[s].status # "complete" /\ hist.done[s] <= Len(topic)
        /\ s \notin hist.cut =>
              /\ reg[s] = "pending_annotation" /\ hist.done[s] # 0
                    => Holds(topic, s, hist.from[s], hist.done[s], stored[s])
              /\ boot.sid = s /\ boot.pc = "recover"
                    => Holds(topic, s, hist.from[s], hist.done[s], boot.mem)
              /\ boot.sid = s /\ boot.pc = "settle"
                    => Holds(topic, s, hist.from[s], hist.done[s], stored[s])

ReplayInv == CaptureInv /\ StartingUp /\ \A s \in Session : ReplayedWhole(s)

(* And the one for FilesAgree: what is uploaded is a recording of its own,  *)
(* exact up to its last step, and any two copies that one of them may come  *)
(* to replace, or that an upload may meet, number alike.                    *)
Agree(a, b) == \A i \in DOMAIN a \cap DOMAIN b : a[i] = b[i]
UpTo(steps, o) == [Fresh EXCEPT !.steps = steps, !.offset = o]

SameSteps(s) ==
    hist.starts[s] <= 1 =>
        /\ hist.starts[s] = 0 => cmds[s] = <<>>
        /\ \E o \in 0 .. Len(topic) : Exact(topic, s, hist.from[s], UpTo(cmds[s], o))
        /\ Agree(stored[s].steps, cmds[s])
        /\ loop[s].pc # "off" => /\ Agree(loop[s].mem.steps, cmds[s])
                                 /\ Agree(loop[s].mem.steps, stored[s].steps)
        /\ stop.sid = s => /\ Agree(stop.mem.steps, cmds[s])
                           /\ loop[s].pc # "off" => Agree(stop.mem.steps, loop[s].mem.steps)
        /\ boot.pc \in {"replay", "recover"} /\ boot.sid = s
              => Agree(boot.mem.steps, cmds[s])

FilesInv == ReplayInv /\ \A s \in Session : SameSteps(s)
=============================================================================
