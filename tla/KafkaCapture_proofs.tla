------------------------- MODULE KafkaCapture_proofs -------------------------
(***************************************************************************)
(* Proofs about KafkaCapture, for any sessions, capacity, flush interval,   *)
(* faults and number of events, starts and stops.  CaptureInv is the        *)
(* inductive invariant.  The first lemmas are about recordings and channels *)
(* as values; the later ones take each action once.                         *)
(***************************************************************************)
EXTENDS KafkaCapture, TLAPS

-----------------------------------------------------------------------------
(* Values: a recording, what lies between it and the next event, a channel. *)

(* A new event changes nothing about the ones before it.                    *)
LEMMA StepGrows ==
  ASSUME NEW t \in Seq(Events), NEW e \in Events, NEW s, NEW o \in Nat, o <= Len(t)
  PROVE  StepAt(Append(t, e), s, o) <=> StepAt(t, s, o)
<1>1. Len(Append(t, e)) = Len(t) + 1 /\ DOMAIN t = 1 .. Len(t)
      /\ DOMAIN Append(t, e) = 1 .. Len(Append(t, e)) /\ Len(t) \in Nat
  OBVIOUS
<1>2. CASE o = 0
  BY <1>1, <1>2 DEF StepAt
<1>3. CASE o # 0
  <2>1. o \in 1 .. Len(t)
    BY <1>1, <1>3
  <2>2. Append(t, e)[o] = t[o]
    BY <2>1
  <2> QED BY <1>1, <2>1, <2>2 DEF StepAt
<1> QED BY <1>2, <1>3

LEMMA ExactBound ==
  ASSUME NEW t \in Seq(Events), NEW s, NEW lo \in Nat, NEW m \in Metas, Exact(t, s, lo, m)
  PROVE  /\ m.offset <= Len(t)
         /\ m.offset # 0 => lo <= m.offset
         /\ \A i \in DOMAIN m.steps : m.steps[i].off <= m.offset
<1>1. m.offset \in Nat /\ DOMAIN t = 1 .. Len(t) /\ Len(t) \in Nat
  BY DEF Metas
<1>2. \A o \in Recorded(m) : o \in lo .. m.offset /\ o \in DOMAIN t
  BY DEF Exact, StepAt
<1>3. \A i \in DOMAIN m.steps : m.steps[i].off \in Recorded(m)
  BY DEF Recorded
<1>4. m.offset = 0 \/ m.offset \in Recorded(m)
  BY DEF Exact
<1> QED BY <1>1, <1>2, <1>3, <1>4

LEMMA ExactGrows ==
  ASSUME NEW t \in Seq(Events), NEW e \in Events, NEW s, NEW lo \in Nat, NEW m \in Metas,
         Exact(t, s, lo, m)
  PROVE  Exact(Append(t, e), s, lo, m)
<1>1. m.offset \in Nat /\ m.offset <= Len(t) /\ Len(t) \in Nat
  BY ExactBound DEF Metas
<1>2. \A o \in lo .. m.offset : StepAt(Append(t, e), s, o) <=> StepAt(t, s, o)
  BY <1>1, StepGrows
<1> QED BY <1>2 DEF Exact

(* Only the steps and the position of a recording matter.                   *)
LEMMA ExactSame ==
  ASSUME NEW t, NEW s, NEW lo, NEW m, NEW n, Exact(t, s, lo, m),
         n.steps = m.steps, n.offset = m.offset
  PROVE  Exact(t, s, lo, n)
BY DEF Exact, Recorded, Numbered

LEMMA ExactFresh ==
  ASSUME NEW t \in Seq(Events), NEW s, NEW lo \in Nat
  PROVE  Exact(t, s, lo, Fresh)
<1>1. Fresh.steps = <<>> /\ Fresh.offset = 0
  BY DEF Fresh
<1>2. DOMAIN t = 1 .. Len(t)
  OBVIOUS
<1>3. Recorded(Fresh) = {}
  BY <1>1 DEF Recorded
<1>4. {o \in lo .. 0 : StepAt(t, s, o)} = {}
  BY <1>2 DEF StepAt
<1> QED BY <1>1, <1>3, <1>4 DEF Exact, Numbered

(* The next step, numbered after the last one.                              *)
LEMMA ExactAppend ==
  ASSUME NEW t \in Seq(Events), NEW s, NEW lo \in Nat, NEW m \in Metas, NEW o \in Nat, NEW n,
         Exact(t, s, lo, m), NoGap(t, s, lo, m, o), StepAt(t, s, o),
         n.steps = Append(m.steps, Step(Len(m.steps) + 1, o)), n.offset = o
  PROVE  Exact(t, s, lo, n)
<1> DEFINE st == Step(Len(m.steps) + 1, o)
<1>1. m.offset \in Nat /\ m.steps \in Seq(Steps) /\ lo <= o /\ m.offset < o
  BY DEF NoGap, Metas
<1>2. st \in Steps /\ st.off = o /\ st.id = Len(m.steps) + 1
  BY <1>1 DEF Step, Steps
<1>3. DOMAIN m.steps = 1 .. Len(m.steps) /\ Len(m.steps) \in Nat
  BY <1>1
<1> HIDE DEF st
<1>4. DOMAIN n.steps = 1 .. Len(m.steps) + 1
  BY <1>1, <1>2, <1>3 DEF st
<1>5. \A i \in DOMAIN m.steps : n.steps[i] = m.steps[i]
  BY <1>1, <1>2, <1>3 DEF st
<1>6. n.steps[Len(m.steps) + 1] = st
  BY <1>1, <1>2, <1>3 DEF st
<1>7. \A i \in DOMAIN n.steps : i \in DOMAIN m.steps \/ i = Len(m.steps) + 1
  BY <1>3, <1>4
<1>8. Recorded(n) = Recorded(m) \cup {o}
  <2>1. Recorded(n) \subseteq Recorded(m) \cup {o}
    BY <1>2, <1>5, <1>6, <1>7 DEF Recorded
  <2>2. Recorded(m) \subseteq Recorded(n)
    BY <1>3, <1>4, <1>5 DEF Recorded
  <2>3. o \in Recorded(n)
    BY <1>2, <1>3, <1>4, <1>6 DEF Recorded
  <2> QED BY <2>1, <2>2, <2>3
<1>9. {x \in lo .. o : StepAt(t, s, x)} = {x \in lo .. m.offset : StepAt(t, s, x)} \cup {o}
  <2>1. \A x \in lo .. o : StepAt(t, s, x) => x \in lo .. m.offset \/ x = o
    BY <1>1 DEF NoGap, StepAt
  <2>2. \A x \in lo .. m.offset : x \in lo .. o
    BY <1>1
  <2> QED BY <1>1, <2>1, <2>2
<1>10. \A i \in DOMAIN m.steps : m.steps[i].off < o
  <2>1. \A i \in DOMAIN m.steps : m.steps[i].off <= m.offset
    BY ExactBound
  <2>2. \A i \in DOMAIN m.steps : m.steps[i] \in Steps
    BY <1>1, <1>3
  <2>3. \A i \in DOMAIN m.steps : m.steps[i].off \in Nat
    BY <2>2 DEF Steps
  <2> QED BY <1>1, <2>1, <2>3
<1>11. Numbered(n.steps)
  BY <1>2, <1>3, <1>5, <1>6, <1>7, <1>10 DEF Exact, Numbered
<1> QED BY <1>8, <1>9, <1>11 DEF Exact

-----------------------------------------------------------------------------
LEMMA NoGapGrows ==
  ASSUME NEW t \in Seq(Events), NEW e \in Events, NEW s, NEW lo \in Nat, NEW m \in Metas,
         NEW next \in Nat, NoGap(t, s, lo, m, next)
  PROVE  NoGap(Append(t, e), s, lo, m, next)
<1>1. Len(Append(t, e)) = Len(t) + 1 /\ DOMAIN t = 1 .. Len(t)
      /\ DOMAIN Append(t, e) = 1 .. Len(Append(t, e)) /\ Len(t) \in Nat
  OBVIOUS
<1>2. next <= Len(t) + 1 /\ lo <= next /\ m.offset < next /\ m.offset \in Nat
  BY DEF NoGap, Metas
<1>3. ASSUME NEW o \in DOMAIN Append(t, e), lo <= o, m.offset < o, o < next
      PROVE  ~StepAt(Append(t, e), s, o)
  <2>1. o \in Nat /\ o <= Len(t) /\ o \in DOMAIN t
    BY <1>1, <1>2, <1>3
  <2> QED BY <1>3, <2>1, StepGrows DEF NoGap
<1> QED BY <1>1, <1>2, <1>3 DEF NoGap

(* A recording has no gap before the event after it, or before an event     *)
(* passed over.                                                             *)
LEMMA NoGapStart ==
  ASSUME NEW t \in Seq(Events), NEW s, NEW lo \in Nat, NEW m \in Metas,
         lo <= m.offset, m.offset <= Len(t)
  PROVE  NoGap(t, s, lo, m, m.offset + 1)
<1>1. m.offset \in Nat /\ DOMAIN t = 1 .. Len(t) /\ Len(t) \in Nat
  BY DEF Metas
<1> QED BY <1>1 DEF NoGap

LEMMA NoGapSkip ==
  ASSUME NEW t \in Seq(Events), NEW s, NEW lo \in Nat, NEW m \in Metas, NEW o \in Nat,
         NoGap(t, s, lo, m, o), ~StepAt(t, s, o), o <= Len(t)
  PROVE  NoGap(t, s, lo, m, o + 1)
<1>1. m.offset \in Nat /\ DOMAIN t = 1 .. Len(t) /\ Len(t) \in Nat
  BY DEF Metas
<1> QED BY <1>1 DEF NoGap

-----------------------------------------------------------------------------
(* Queue depends on a recording by its position alone.                      *)
LEMMA QueueSame ==
  ASSUME NEW t, NEW s, NEW lo, NEW m, NEW n, NEW c, NEW next, NEW routed,
         Queue(t, s, lo, m, c, next, routed), n.offset = m.offset
  PROVE  Queue(t, s, lo, n, c, next, routed)
BY DEF Queue

LEMMA QueueUnrouted ==
  ASSUME NEW t, NEW s, NEW lo, NEW m, NEW c, NEW next, NEW routed,
         Queue(t, s, lo, m, c, next, routed)
  PROVE  Queue(t, s, lo, m, c, next, FALSE)
BY DEF Queue

(* A loop starts to listen where the consumer is.                           *)
LEMMA QueueStart ==
  ASSUME NEW t \in Seq(Events), NEW s, NEW next \in Nat \ {0}, NEW m, m.offset = 0
  PROVE  Queue(t, s, next, m, <<>>, next, TRUE)
<1>1. DOMAIN t = 1 .. Len(t)
  OBVIOUS
<1> QED BY <1>1 DEF Queue

(* The topic grows behind the consumer.                                     *)
LEMMA QueueGrows ==
  ASSUME NEW t \in Seq(Events), NEW e \in Events, NEW s, NEW lo \in Nat, NEW m \in Metas,
         NEW c \in Seq(Nat), NEW next \in Nat, NEW routed,
         next <= Len(t) + 1, Queue(t, s, lo, m, c, next, routed)
  PROVE  Queue(Append(t, e), s, lo, m, c, next, routed)
<1>1. Len(Append(t, e)) = Len(t) + 1 /\ DOMAIN t = 1 .. Len(t)
      /\ DOMAIN Append(t, e) = 1 .. Len(Append(t, e)) /\ Len(t) \in Nat
  OBVIOUS
<1>2. \A i \in DOMAIN c : c[i] \in Nat /\ c[i] \in DOMAIN t /\ c[i] < next
  BY DEF Queue
<1>3. \A o \in DOMAIN t : o \in DOMAIN Append(t, e) /\ Append(t, e)[o] = t[o]
  BY <1>1
<1>4. ASSUME NEW o \in DOMAIN Append(t, e), StepAt(Append(t, e), s, o), lo <= o, m.offset < o,
             (routed /\ o < next) \/ \E i \in DOMAIN c : o < c[i]
      PROVE  \E j \in DOMAIN c : c[j] = o
  <2>1. o < next /\ o \in Nat
    BY <1>1, <1>2, <1>4
  <2>2. o <= Len(t) /\ o \in DOMAIN t
    BY <1>1, <2>1
  <2>3. StepAt(t, s, o)
    BY <1>4, <2>1, <2>2, StepGrows
  <2> QED BY <1>4, <2>2, <2>3 DEF Queue
<1> QED BY <1>2, <1>3, <1>4 DEF Queue

(* The consumer passes an event: it goes into the channel, it is lost with  *)
(* the session's place in the map, or it is none of its steps.              *)
LEMMA QueuePush ==
  ASSUME NEW t \in Seq(Events), NEW s, NEW lo \in Nat, NEW m \in Metas,
         NEW c \in Seq(Nat), NEW o \in DOMAIN t, t[o].sid = s, t[o].kind # "other",
         Queue(t, s, lo, m, c, o, TRUE)
  PROVE  Queue(t, s, lo, m, Append(c, o), o + 1, TRUE)
<1>1. DOMAIN t = 1 .. Len(t) /\ Len(t) \in Nat /\ o \in Nat /\ m.offset \in Nat
  BY DEF Metas
<1> DEFINE d == Append(c, o)
<1>2. DOMAIN c = 1 .. Len(c) /\ Len(c) \in Nat /\ DOMAIN d = 1 .. Len(c) + 1
  BY <1>1
<1>3. d[Len(c) + 1] = o /\ \A i \in DOMAIN c : d[i] = c[i]
  BY <1>1
<1> HIDE DEF d
<1>4. \A i \in DOMAIN d : i \in DOMAIN c \/ i = Len(c) + 1
  BY <1>2
<1>5. lo <= o /\ m.offset < o
  BY DEF Queue
<1>6. \A i \in DOMAIN c : c[i] \in Nat /\ c[i] < o
  BY DEF Queue
<1>7. \A i \in DOMAIN d :
          /\ d[i] \in DOMAIN t /\ t[d[i]].sid = s /\ t[d[i]].kind # "other"
          /\ lo <= d[i] /\ m.offset < d[i] /\ d[i] < o + 1
  BY <1>1, <1>3, <1>4, <1>5, <1>6 DEF Queue
<1>8. \A i, j \in DOMAIN d : i < j => d[i] < d[j]
  <2> TAKE i \in DOMAIN d, j \in DOMAIN d
  <2> HAVE i < j
  <2>1. i \in DOMAIN c
    BY <1>2, <1>4
  <2>2. CASE j \in DOMAIN c
    BY <1>3, <2>1, <2>2 DEF Queue
  <2>3. CASE j = Len(c) + 1
    BY <1>3, <1>6, <2>1, <2>3
  <2> QED BY <1>4, <2>2, <2>3
<1>9. ASSUME NEW x \in DOMAIN t, StepAt(t, s, x), lo <= x, m.offset < x,
             x < o + 1 \/ \E i \in DOMAIN d : x < d[i]
      PROVE  \E j \in DOMAIN d : d[j] = x
  <2>1. x \in Nat /\ (x < o \/ x = o)
    BY <1>1, <1>3, <1>4, <1>6, <1>7, <1>9
  <2>2. CASE x = o
    BY <1>2, <1>3, <2>2
  <2>3. CASE x < o
    <3>1. PICK j \in DOMAIN c : c[j] = x
      BY <1>9, <2>3 DEF Queue
    <3> QED BY <1>2, <1>3, <3>1
  <2> QED BY <2>1, <2>2, <2>3
<1>10. lo <= o + 1 /\ m.offset < o + 1
  BY <1>1, <1>5
<1> QED BY <1>7, <1>8, <1>9, <1>10 DEF Queue, d

LEMMA QueuePass ==
  ASSUME NEW t \in Seq(Events), NEW s, NEW lo \in Nat, NEW m \in Metas, NEW c \in Seq(Nat),
         NEW o \in DOMAIN t, NEW was, NEW routed,
         Queue(t, s, lo, m, c, o, was), routed => was /\ ~StepAt(t, s, o)
  PROVE  Queue(t, s, lo, m, c, o + 1, routed)
<1>1. DOMAIN t = 1 .. Len(t) /\ Len(t) \in Nat /\ o \in Nat /\ m.offset \in Nat
  BY DEF Metas
<1>2. \A i \in DOMAIN c : c[i] \in Nat /\ c[i] < o + 1
  BY <1>1 DEF Queue
<1>3. \A x \in DOMAIN t : StepAt(t, s, x) /\ routed /\ x < o + 1 => was /\ x < o
  BY <1>1
<1>4. lo <= o + 1 /\ m.offset < o + 1
  BY <1>1 DEF Queue
<1> QED BY <1>1, <1>2, <1>3, <1>4 DEF Queue

(* The loop takes the first event of its channel: a position, which leaves  *)
(* the recording alone, or the next step.                                   *)
LEMMA QueueHead ==
  ASSUME NEW t \in Seq(Events), NEW s \in Session, NEW lo \in Nat, NEW m \in Metas,
         NEW c \in Seq(Nat), c # <<>>, NEW next \in Nat, NEW routed,
         next <= Len(t) + 1, Queue(t, s, lo, m, c, next, routed)
  PROVE  /\ Head(c) \in DOMAIN t /\ Head(c) < next /\ Head(c) \in Nat
         /\ t[Head(c)].kind # "position" => StepAt(t, s, Head(c))
         /\ NoGap(t, s, lo, m, Head(c))
<1>1. DOMAIN t = 1 .. Len(t) /\ Len(t) \in Nat /\ m.offset \in Nat
  BY DEF Metas
<1>2. 1 \in DOMAIN c /\ Head(c) = c[1] /\ DOMAIN c = 1 .. Len(c) /\ Len(c) \in Nat
  OBVIOUS
<1>3. /\ c[1] \in DOMAIN t /\ t[c[1]].sid = s /\ t[c[1]].kind # "other"
      /\ lo <= c[1] /\ m.offset < c[1] /\ c[1] < next
  BY <1>2 DEF Queue
<1>4. t[c[1]].kind # "position" => StepAt(t, s, c[1])
  <2>1. t[c[1]] \in Events
    BY <1>3
  <2>2. t[c[1]].kind \in {"step", "position", "other"}
    BY <2>1 DEF Events, Kinds
  <2>3. t[c[1]] = [sid |-> t[c[1]].sid, kind |-> t[c[1]].kind]
    BY <2>1 DEF Events
  <2> QED BY <1>3, <2>2, <2>3 DEF StepAt
<1>5. ASSUME NEW o \in DOMAIN t, lo <= o, m.offset < o, o < c[1], StepAt(t, s, o)
      PROVE  FALSE
  <2>1. PICK j \in DOMAIN c : c[j] = o
    BY <1>2, <1>5 DEF Queue
  <2>2. j = 1 \/ 1 < j
    BY <1>2
  <2>3. 1 < j => c[1] < c[j]
    BY <1>2 DEF Queue
  <2> QED BY <1>1, <1>3, <1>5, <2>1, <2>2, <2>3
<1>6. NoGap(t, s, lo, m, c[1])
  BY <1>1, <1>3, <1>5 DEF NoGap
<1> QED BY <1>1, <1>2, <1>3, <1>4, <1>6

LEMMA QueueTail ==
  ASSUME NEW t \in Seq(Events), NEW s, NEW lo \in Nat, NEW m \in Metas, NEW n \in Metas,
         NEW c \in Seq(Nat), c # <<>>, NEW next \in Nat, NEW routed,
         Queue(t, s, lo, m, c, next, routed),
         (n.offset = m.offset /\ ~StepAt(t, s, Head(c))) \/ n.offset = Head(c)
  PROVE  Queue(t, s, lo, n, Tail(c), next, routed)
<1>1. DOMAIN t = 1 .. Len(t) /\ Len(t) \in Nat /\ m.offset \in Nat /\ n.offset \in Nat
  BY DEF Metas
<1>2. 1 \in DOMAIN c /\ Head(c) = c[1] /\ DOMAIN c = 1 .. Len(c) /\ Len(c) \in Nat
  OBVIOUS
<1> DEFINE d == Tail(c)
<1>3. DOMAIN d = 1 .. Len(c) - 1 /\ \A i \in DOMAIN d : i + 1 \in DOMAIN c /\ d[i] = c[i + 1]
  BY <1>2
<1>4. \A i \in DOMAIN c : i = 1 \/ (i - 1 \in DOMAIN d /\ d[i - 1] = c[i])
  BY <1>2, <1>3
<1> HIDE DEF d
<1>5. \A i \in DOMAIN c : c[i] \in Nat /\ c[i] \in DOMAIN t /\ m.offset < c[i] /\ c[i] < next
  BY DEF Queue
<1>6. \A i \in DOMAIN d : c[1] < d[i] /\ n.offset < d[i]
  <2> TAKE i \in DOMAIN d
  <2>1. 1 < i + 1 /\ i + 1 \in DOMAIN c /\ d[i] = c[i + 1]
    BY <1>3
  <2>2. c[1] < c[i + 1]
    BY <1>2, <2>1 DEF Queue
  <2> QED BY <1>1, <1>2, <1>5, <2>1, <2>2
<1>7. \A i \in DOMAIN d : \A j \in DOMAIN d : i < j => d[i] < d[j]
  <2> TAKE i \in DOMAIN d
  <2> TAKE j \in DOMAIN d
  <2> HAVE i < j
  <2>1. i + 1 < j + 1 /\ i + 1 \in DOMAIN c /\ j + 1 \in DOMAIN c
    BY <1>2, <1>3
  <2>2. c[i + 1] < c[j + 1]
    BY <2>1 DEF Queue
  <2>3. d[i] = c[i + 1] /\ d[j] = c[j + 1]
    BY <1>3
  <2> QED BY <2>2, <2>3
<1>8. ASSUME NEW o \in DOMAIN t, StepAt(t, s, o), lo <= o, n.offset < o,
             (routed /\ o < next) \/ \E i \in DOMAIN d : o < d[i]
      PROVE  \E j \in DOMAIN d : d[j] = o
  <2>a. c[1] \in Nat /\ m.offset < c[1] /\ o \in Nat
    BY <1>1, <1>2, <1>5
  <2>1. m.offset < o /\ o # c[1]
    <3>1. CASE n.offset = Head(c)
      BY <1>1, <1>2, <1>8, <2>a, <3>1
    <3>2. CASE n.offset = m.offset /\ ~StepAt(t, s, Head(c))
      BY <1>2, <1>8, <3>2
    <3> QED BY <3>1, <3>2
  <2>2. (routed /\ o < next) \/ \E i \in DOMAIN c : o < c[i]
    BY <1>3, <1>8
  <2>3. PICK j \in DOMAIN c : c[j] = o
    BY <1>8, <2>1, <2>2 DEF Queue
  <2> QED BY <1>4, <2>1, <2>3
<1>9. lo <= next /\ n.offset < next
  BY <1>1, <1>2, <1>5 DEF Queue
<1>10. \A i \in DOMAIN d : /\ d[i] \in DOMAIN t /\ t[d[i]].sid = s /\ t[d[i]].kind # "other"
                           /\ lo <= d[i] /\ d[i] < next
  BY <1>3 DEF Queue
<1> QED BY <1>6, <1>7, <1>8, <1>9, <1>10 DEF Queue, d

-----------------------------------------------------------------------------
(* Parts of a record change within its type.                                *)
LEMMA LoopTyped ==
  ASSUME NEW l \in Loops
  PROVE  /\ \A pc \in LoopPCs : [l EXCEPT !.pc = pc] \in Loops
         /\ \A pc \in LoopPCs, mem \in Metas : [l EXCEPT !.mem = mem, !.pc = pc] \in Loops
         /\ \A pc \in LoopPCs, due \in Nat : [l EXCEPT !.pc = pc, !.due = due] \in Loops
         /\ \A pc \in LoopPCs, clean \in BOOLEAN : [l EXCEPT !.pc = pc, !.clean = clean] \in Loops
         /\ \A pc \in LoopPCs, mem \in Metas, buf \in Seq(Steps) :
               [l EXCEPT !.pc = pc, !.buf = buf, !.mem = mem] \in Loops
BY DEF Loops

LEMMA MetaTyped ==
  ASSUME NEW m \in Metas
  PROVE  /\ [m EXCEPT !.prog = "capturing"] \in Metas
         /\ [m EXCEPT !.prog = "interrupted"] \in Metas
         /\ [m EXCEPT !.status = "complete", !.prog = "none"] \in Metas
         /\ [m EXCEPT !.status = "incomplete", !.prog = "interrupted"] \in Metas
         /\ [m EXCEPT !.status = "pending_annotation", !.prog = "none"] \in Metas
<1>1. [m EXCEPT !.prog = "capturing"] \in Metas /\ [m EXCEPT !.prog = "interrupted"] \in Metas
  BY DEF Metas
<1>2. [m EXCEPT !.status = "complete", !.prog = "none"] \in Metas
  BY DEF Metas
<1>3. [m EXCEPT !.status = "incomplete", !.prog = "interrupted"] \in Metas
  BY DEF Metas
<1>4. [m EXCEPT !.status = "pending_annotation", !.prog = "none"] \in Metas
  BY DEF Metas
<1> QED BY <1>1, <1>2, <1>3, <1>4

LEMMA KeepTyped ==
  ASSUME NEW m \in Metas, NEW st \in Steps
  PROVE  /\ Keep(m, st) \in Metas
         /\ Keep(m, st).steps = Append(m.steps, st) /\ Keep(m, st).offset = st.off
<1>1. m.steps \in Seq(Steps) /\ st.off \in Nat
  BY DEF Metas, Steps
<1>2. Append(m.steps, st) \in Seq(Steps)
  BY <1>1
<1> QED BY <1>1, <1>2 DEF Keep, Metas

LEMMA FreshTyped == Fresh \in Metas /\ NoLoop \in Loops
<1>1. Fresh \in Metas
  BY DEF Fresh, Metas
<1> QED BY <1>1 DEF NoLoop, Loops, LoopPCs

LEMMA HistTyped ==
  ASSUME NEW h \in Hists
  PROVE  /\ [h EXCEPT !.stops = h.stops + 1] \in Hists
         /\ \A s \in Session, n \in Nat :
               [h EXCEPT !.starts[s] = h.starts[s] + 1, !.from[s] = n] \in Hists
         /\ \A s \in Session, n \in Nat, c \in SUBSET Session :
               [h EXCEPT !.done[s] = n, !.cut = c] \in Hists
<1>1. [h EXCEPT !.stops = h.stops + 1] \in Hists
  BY DEF Hists
<1>2. ASSUME NEW s \in Session, NEW n \in Nat
      PROVE  [h EXCEPT !.starts[s] = h.starts[s] + 1, !.from[s] = n] \in Hists
  <2>1. h.starts \in [Session -> Nat] /\ h.from \in [Session -> Nat]
    BY DEF Hists
  <2>2. h.starts[s] + 1 \in Nat
    BY <2>1
  <2> DEFINE k == h.starts[s] + 1
             f == [h.starts EXCEPT ![s] = k]
             g == [h.from EXCEPT ![s] = n]
  <2>3. f \in [Session -> Nat] /\ g \in [Session -> Nat]
    BY <2>1, <2>2
  <2> HIDE DEF f, g
  <2>4. [h EXCEPT !.starts = f, !.from = g] \in Hists
    BY <2>3 DEF Hists
  <2> QED BY <2>4 DEF f, g
<1>3. ASSUME NEW s \in Session, NEW n \in Nat, NEW c \in SUBSET Session
      PROVE  [h EXCEPT !.done[s] = n, !.cut = c] \in Hists
  BY DEF Hists
<1> QED BY <1>1, <1>2, <1>3

(* Initially.                                                               *)
LEMMA InitInv == Init => CaptureInv
<1> SUFFICES ASSUME Init PROVE CaptureInv
  OBVIOUS
<1>1. Fresh \in Metas /\ NoLoop \in Loops
  BY FreshTyped
<1>2. TypeOK
  BY <1>1, NoneIsNoSession DEF Init, TypeOK, NoSignal, Serving, Boot, Boots, Consumers, Stops, Hists
<1>3. Positions
  BY DEF Init, Positions
<1>4. ASSUME NEW s \in Session PROVE RecordingExact(s)
  <2>1. Exact(topic, s, hist.from[s], stored[s])
    BY <1>2, ExactFresh DEF Init, TypeOK, Hists
  <2> QED BY <2>1, NoneIsNoSession
      DEF Init, RecordingExact, Listening, Putting, Replaying, Untouched, NoLoop, NoSignal,
          Serving, Boot
<1>5. SidKnown
  BY DEF Init, SidKnown, Serving, Boot
<1> QED BY <1>2, <1>3, <1>4, <1>5 DEF CaptureInv

(* Every action keeps the variables in their types.                         *)
LEMMA LoopStepTyped ==
  ASSUME TypeOK, NEW s \in Session, NEW ok \in BOOLEAN,
         \/ Begin(s, ok) \/ FlushIfDue(s, ok) \/ Upload(s, ok) \/ Finalise(s, ok)
         \/ LastFlush(s, ok) \/ Done(s) \/ EyesDown(s) \/ ChannelEnds(s) \/ Unroute(s)
         \/ LoopEnds(s) \/ StartWatch(s) \/ TakeEvent(s)
  PROVE  TypeOK'
<1> USE DEF TypeOK
<1>a. loop[s] \in Loops /\ loop[s].mem \in Metas /\ loop[s].buf \in Seq(Steps)
      /\ loop[s].due \in Nat /\ stored[s] \in Metas /\ chan[s] \in Seq(Nat)
  BY DEF Loops
<1>b. LoopPCs = {"off", "begin", "run", "flush", "upload", "unroute", "finalise", "last", "status"}
  BY DEF LoopPCs
<1>e. hist.from[s] \in Nat /\ consumer.next \in Nat
  BY DEF Hists, Consumers
<1>c. \A pc \in LoopPCs : [loop EXCEPT ![s].pc = pc] \in [Session -> Loops]
  BY <1>a, LoopTyped
<1>d. ASSUME NEW mem \in Metas, NEW pc \in LoopPCs, Flush(s, mem, pc, ok)
      PROVE  stored' \in [Session -> Metas] /\ loop' \in [Session -> Loops]
  <2>1. loop' = [loop EXCEPT ![s] = [loop[s] EXCEPT !.mem = mem, !.pc = pc]]
    BY <1>d DEF Flush
  <2>2. stored' \in [Session -> Metas]
    BY <1>d DEF Flush
  <2> QED BY <1>a, <2>1, <2>2, LoopTyped
<1>1. CASE Begin(s, ok)
  <2>1. [loop[s].mem EXCEPT !.prog = "capturing"] \in Metas
    BY <1>a, MetaTyped
  <2> QED BY <1>1, <1>b, <1>d, <2>1 DEF Begin
<1>2. CASE FlushIfDue(s, ok)
  <2>1. CASE loop[s].due + 1 < FlushInterval
    <3>1. loop' = [loop EXCEPT ![s] = [loop[s] EXCEPT !.pc = "upload", !.due = loop[s].due + 1]]
      BY <1>2, <2>1 DEF FlushIfDue
    <3> DEFINE d == loop[s].due + 1
    <3>a. d \in Nat /\ "upload" \in LoopPCs
      BY <1>a, <1>b
    <3> HIDE DEF d
    <3>b. [loop[s] EXCEPT !.pc = "upload", !.due = d] \in Loops
      BY <1>a, <3>a, LoopTyped
    <3>2. [loop[s] EXCEPT !.pc = "upload", !.due = loop[s].due + 1] \in Loops
      BY <3>b DEF d
    <3> QED BY <1>2, <2>1, <3>1, <3>2 DEF FlushIfDue
  <2>2. CASE ~(loop[s].due + 1 < FlushInterval)
    <3>1. loop' = [loop EXCEPT ![s] = [loop[s] EXCEPT !.pc = IF ok THEN "upload" ELSE "run", !.due = 0]]
      BY <1>2, <2>2 DEF FlushIfDue
    <3>2. [loop[s] EXCEPT !.pc = IF ok THEN "upload" ELSE "run", !.due = 0] \in Loops
      BY <1>a, <1>b, LoopTyped
    <3>3. stored' \in [Session -> Metas]
      BY <1>a, <1>2, <2>2 DEF FlushIfDue
    <3> QED BY <1>2, <2>2, <3>1, <3>2, <3>3 DEF FlushIfDue
  <2> QED BY <2>1, <2>2
<1>3. CASE Upload(s, ok) \/ Finalise(s, ok)
  <2>1. loop' \in [Session -> Loops]
    BY <1>3, <1>b, <1>c DEF Upload, Finalise, FlushToCloud, Goto
  <2>2. cmds' \in [Session -> Seq(Steps)]
    BY <1>3, <1>a DEF Upload, Finalise, FlushToCloud
  <2> QED BY <1>3, <2>1, <2>2 DEF Upload, Finalise, FlushToCloud
<1>4. CASE LastFlush(s, ok)
  <2>1. [loop[s].mem EXCEPT !.status = "complete", !.prog = "none"] \in Metas
        /\ [loop[s].mem EXCEPT !.status = "incomplete", !.prog = "interrupted"] \in Metas
    BY <1>a, MetaTyped
  <2>2. stored' \in [Session -> Metas] /\ loop' \in [Session -> Loops]
    BY <1>4, <1>b, <1>d, <2>1 DEF LastFlush
  <2> QED BY <1>4, <2>2 DEF LastFlush
<1>5. CASE Done(s) \/ EyesDown(s) \/ ChannelEnds(s)
  <2>1. PICK clean \in BOOLEAN : Break(s, clean)
    BY <1>5 DEF Done, EyesDown, ChannelEnds
  <2>2. loop' = [loop EXCEPT ![s] = [loop[s] EXCEPT !.pc = "unroute", !.clean = clean]]
    BY <2>1 DEF Break
  <2>3. [loop[s] EXCEPT !.pc = "unroute", !.clean = clean] \in Loops
    BY <1>a, <1>b, LoopTyped
  <2> QED BY <2>1, <2>2, <2>3 DEF Break
<1>6. CASE Unroute(s)
  BY <1>6, <1>b, <1>c DEF Unroute, Goto
<1>7. CASE LoopEnds(s)
  BY <1>7, FreshTyped DEF LoopEnds
<1>8. CASE StartWatch(s)
  <2>1. [NoLoop EXCEPT !.mem = stored[s], !.pc = "begin"] \in Loops
    BY <1>a, <1>b, FreshTyped, LoopTyped
  <2>2. hist' \in Hists
    BY <1>8, <1>e, HistTyped DEF StartWatch
  <2>3. chan' \in [Session -> Seq(Nat)]
    BY <1>8 DEF StartWatch
  <2>4. [NoLoop EXCEPT !.pc = "begin", !.mem = stored[s]]
          = [NoLoop EXCEPT !.mem = stored[s], !.pc = "begin"]
    OBVIOUS
  <2> QED BY <1>8, <2>1, <2>2, <2>3, <2>4 DEF StartWatch
<1>9. CASE TakeEvent(s)
  <2> DEFINE o == Head(chan[s])
             st == Step(Len(loop[s].buf) + 1, o)
             m == Keep(loop[s].mem, st)
  <2>1. o \in Nat /\ Tail(chan[s]) \in Seq(Nat)
    BY <1>a, <1>9 DEF TakeEvent
  <2>2. chan' \in [Session -> Seq(Nat)]
    BY <1>9, <2>1 DEF TakeEvent
  <2>3. st \in Steps /\ Append(loop[s].buf, st) \in Seq(Steps)
    BY <1>a, <2>1 DEF Step, Steps
  <2>4. m \in Metas
    BY <1>a, <2>1, <2>3, KeepTyped
  <2>5. CASE topic[o].kind = "position"
    BY <1>9, <2>2, <2>5 DEF TakeEvent
  <2>6. CASE topic[o].kind # "position"
    <3>1. loop' = [loop EXCEPT ![s] = [loop[s] EXCEPT !.pc = "flush",
                                         !.buf = Append(loop[s].buf, st), !.mem = m]]
      BY <1>9, <2>6 DEF TakeEvent
    <3> HIDE DEF m, st, o
    <3>2. [loop[s] EXCEPT !.pc = "flush", !.buf = Append(loop[s].buf, st), !.mem = m] \in Loops
      BY <1>a, <1>b, <2>3, <2>4, LoopTyped
    <3> QED BY <1>9, <2>2, <3>1, <3>2 DEF TakeEvent
  <2> QED BY <2>5, <2>6
<1> QED BY <1>1, <1>2, <1>3, <1>4, <1>5, <1>6, <1>7, <1>8, <1>9

LEMMA OtherStepTyped ==
  ASSUME TypeOK, SidKnown,
         \/ \E s \in Session, kind \in Kinds : Produce(s, kind)
         \/ Recv \/ AutoCommit \/ Signal \/ SignalNext \/ Crash \/ BootNext \/ UNCHANGED vars
  PROVE  TypeOK'
<1> USE DEF TypeOK
<1>a. Fresh \in Metas /\ NoLoop \in Loops
  BY FreshTyped
<1>1. ASSUME NEW s \in Session, NEW kind \in Kinds, Produce(s, kind)
      PROVE  TypeOK'
  <2>1. [sid |-> s, kind |-> kind] \in Events
    BY DEF Events
  <2> QED BY <1>1, <2>1 DEF Produce
<1>2. CASE Recv
  <2> DEFINE o == consumer.next
             s == topic[o].sid
  <2>1. o \in DOMAIN topic /\ o \in Nat
    BY <1>2 DEF Recv
  <2>2. topic[o] \in Events
    BY <2>1
  <2>3. s \in Session
    BY <2>2 DEF Events
  <2>4. consumer' \in Consumers
    <3>1. consumer \in Consumers /\ o + 1 \in Nat \ {0}
      BY <2>1
    <3>2. PICK n \in Nat : consumer' = [consumer EXCEPT !.next = o + 1, !.stored = n]
      BY <1>2, <2>1, <3>1 DEF Recv, Consumers
    <3> QED BY <3>1, <3>2 DEF Consumers
  <2>5. Append(chan[s], o) \in Seq(Nat)
    BY <2>1, <2>3
  <2>6. chan' \in [Session -> Seq(Nat)] /\ route' \subseteq Session
    BY <1>2, <2>3, <2>5 DEF Recv
  <2> QED BY <1>2, <2>4, <2>6 DEF Recv
<1>3. CASE AutoCommit
  BY <1>3 DEF AutoCommit, Consumers
<1>4. CASE Signal
  <2>1. stop' \in Stops
    BY <1>a, <1>4 DEF Signal, NoSignal, Stops
  <2>2. hist' \in Hists
    BY <1>4, HistTyped DEF Signal
  <2> QED BY <1>4, <2>1, <2>2 DEF Signal
<1>5. ASSUME NEW s \in Session, FetchInterrupted(s)
      PROVE  TypeOK'
  <2>1. [stored[s] EXCEPT !.prog = "interrupted"] \in Metas
    BY MetaTyped
  <2>2. stop' \in Stops
    BY <1>5, <2>1 DEF FetchInterrupted, Stops
  <2> QED BY <1>5, <2>2 DEF FetchInterrupted
<1>6. ASSUME NEW ok \in BOOLEAN, StoreInterrupted(ok)
      PROVE  TypeOK'
  <2>1. stop.mem \in Metas
    BY DEF Stops
  <2>2. stop' \in Stops
    BY <1>6 DEF StoreInterrupted, Stops
  <2>3. stored' \in [Session -> Metas]
    BY <1>6, <2>1 DEF StoreInterrupted
  <2> QED BY <1>6, <2>2, <2>3 DEF StoreInterrupted
<1>7. ASSUME ProcessDies, hist' = [hist EXCEPT !.stops = @ + 1] \/ UNCHANGED hist
      PROVE  TypeOK'
  <2>1. boot' \in Boots
    BY <1>a, <1>7 DEF ProcessDies, Boot, Boots
  <2>2. stop' \in Stops
    BY <1>a, <1>7 DEF ProcessDies, NoSignal, Stops
  <2>3. consumer' \in Consumers
    <3>1. consumer \in Consumers /\ consumer.committed \in Nat
      BY DEF Consumers
    <3>2. consumer' = [consumer EXCEPT !.next = consumer.committed + 1, !.stored = consumer.committed]
      BY <1>7 DEF ProcessDies
    <3>3. consumer.committed + 1 \in Nat \ {0}
      BY <3>1
    <3> QED BY <3>1, <3>2, <3>3 DEF Consumers
  <2>4. hist' \in Hists
    BY <1>7, HistTyped
  <2> QED BY <1>a, <1>7, <2>1, <2>2, <2>3, <2>4 DEF ProcessDies
<1>8. ASSUME NEW s \in Session, SweepActive(s)
      PROVE  TypeOK'
  BY <1>8 DEF SweepActive, Boots
<1>9. ASSUME NEW s \in Session, StartReplay(s)
      PROVE  TypeOK'
  <2>1. stored[s] \in Metas /\ stored[s].offset \in Nat /\ Len(topic) \in Nat
    BY DEF Metas
  <2>2. boot' \in Boots
    BY <1>9, <2>1 DEF StartReplay, Boots
  <2> QED BY <1>9, <2>2 DEF StartReplay
<1>10. CASE ReplayEvent
  <2> DEFINE o == boot.next
             m == boot.mem
             n == Keep(m, Step(Len(m.steps) + 1, o))
  <2>1. m \in Metas /\ o \in Nat /\ boot \in Boots
    BY DEF Boots
  <2>2. Step(Len(m.steps) + 1, o) \in Steps
    BY <2>1 DEF Metas, Step, Steps
  <2>3. n \in Metas
    BY <2>1, <2>2, KeepTyped
  <2>4. boot' = [boot EXCEPT !.next = o + 1, !.mem = IF IsStep(boot.sid, o) THEN n ELSE m]
    BY <1>10 DEF ReplayEvent
  <2> HIDE DEF m, n
  <2>5. boot' \in Boots
    <3>1. boot.next + 1 \in Nat /\ (IF IsStep(boot.sid, o) THEN n ELSE m) \in Metas
      BY <2>1, <2>3
    <3> QED BY <2>1, <2>4, <3>1 DEF Boots
  <2> QED BY <1>10, <2>5 DEF ReplayEvent
<1>11. ASSUME NEW cut \in BOOLEAN, ReplayEnds(cut)
       PROVE  TypeOK'
  <2>1. boot \in Boots
    OBVIOUS
  <2>2. boot' \in Boots
    BY <1>11, <2>1 DEF ReplayEnds, Boots
  <2>3. hist' \in Hists
    <3>1. boot.high \in Nat /\ hist.cut \in SUBSET Session
      BY <2>1 DEF Boots, Hists
    <3> DEFINE c == IF cut THEN hist.cut \cup {boot.sid} ELSE hist.cut \ {boot.sid}
    <3>2. boot.sid \in Session
      BY <1>11 DEF ReplayEnds, SidKnown
    <3>3. c \in SUBSET Session
      BY <3>1, <3>2
    <3>4. hist' = [hist EXCEPT !.done[boot.sid] = boot.high, !.cut = c]
      BY <1>11 DEF ReplayEnds
    <3> HIDE DEF c
    <3> QED BY <3>1, <3>2, <3>3, <3>4, HistTyped
  <2> QED BY <1>11, <2>2, <2>3 DEF ReplayEnds
<1>12. ASSUME NEW ok \in BOOLEAN, Recover(ok)
       PROVE  TypeOK'
  <2>1. boot \in Boots /\ boot.mem \in Metas
    BY DEF Boots
  <2>2. [boot.mem EXCEPT !.status = "pending_annotation", !.prog = "none"] \in Metas
    BY <2>1, MetaTyped
  <2>3. boot' \in Boots
    BY <1>12, <1>a, <2>1 DEF Recover, Boots, Boot
  <2> QED BY <1>12, <2>2, <2>3 DEF Recover
<1>13. CASE SettleRecovered
  BY <1>13, <1>a DEF SettleRecovered, Boots, Boot
<1>14. CASE Serve
  BY <1>14, <1>a DEF Serve, Serving, Boots, Boot
<1>15. CASE UNCHANGED vars
  BY <1>15 DEF vars
<1> QED BY <1>1, <1>2, <1>3, <1>4, <1>5, <1>6, <1>7, <1>8, <1>9, <1>10, <1>11, <1>12,
           <1>13, <1>14, <1>15 DEF SignalNext, BootNext, Exit, Crash

LEMMA TypeStep ==
  ASSUME TypeOK, SidKnown, [Next]_vars
  PROVE  TypeOK'
BY LoopStepTyped, OtherStepTyped DEF Next, LoopNext

-----------------------------------------------------------------------------
(* Recordings.                                                              *)

(* What a session's claims are about.                                       *)
LEMMA Frame ==
  ASSUME NEW s \in Session, RecordingExact(s), topic' = topic, stored'[s] = stored[s],
         hist'.from[s] = hist.from[s], hist'.starts[s] = hist.starts[s],
         loop'[s] = loop[s], chan'[s] = chan[s], consumer'.next = consumer.next,
         (s \in route') = (s \in route), UNCHANGED <<stop, boot>>
  PROVE  RecordingExact(s)'
BY DEF RecordingExact, Listening, Putting, Replaying, Untouched

(* A loop step leaves the replay and the signal handler alone.              *)
LEMMA LoopFrame ==
  ASSUME NEW s \in Session, RecordingExact(s), loop[s].pc # "off", hist.starts[s] \in Nat,
         UNCHANGED <<topic, hist, stop, boot>>,
         hist.starts[s] <= 1 => Exact(topic, s, hist.from[s], stored'[s]),
         hist.starts[s] <= 1 => Listening(s)'
  PROVE  RecordingExact(s)'
<1>1. hist.starts[s] <= 1 => hist.starts[s] # 0
  BY DEF RecordingExact, Untouched
<1> QED BY <1>1 DEF RecordingExact, Putting, Replaying, Untouched

(* The recording a loop holds, when its steps and position stay.            *)
LEMMA StillListening ==
  ASSUME NEW s \in Session, Listening(s), loop[s].pc # "off",
         UNCHANGED <<topic, hist, consumer>>, chan'[s] = chan[s],
         s \in route' <=> s \in route,
         loop'[s].mem.steps = loop[s].mem.steps, loop'[s].mem.offset = loop[s].mem.offset,
         loop'[s].buf = loop[s].buf
  PROVE  Listening(s)'
<1>1. Exact(topic, s, hist.from[s], loop'[s].mem)
  BY ExactSame DEF Listening
<1>2. Queue(topic, s, hist.from[s], loop'[s].mem, chan[s], consumer.next, s \in route)
  BY QueueSame DEF Listening
<1> QED BY <1>1, <1>2 DEF Listening

(* A loop action of another session.                                        *)
LEMMA OthersKept ==
  ASSUME CaptureInv, NEW r \in Session, NEW s \in Session \ {r}, NEW ok \in BOOLEAN,
         \/ Begin(r, ok) \/ FlushIfDue(r, ok) \/ Upload(r, ok) \/ Finalise(r, ok)
         \/ LastFlush(r, ok) \/ Done(r) \/ EyesDown(r) \/ ChannelEnds(r) \/ Unroute(r)
         \/ LoopEnds(r) \/ StartWatch(r) \/ TakeEvent(r)
  PROVE  RecordingExact(s)'
<1>1. loop \in [Session -> Loops] /\ chan \in [Session -> Seq(Nat)]
      /\ stored \in [Session -> Metas]
  BY DEF CaptureInv, TypeOK
<1>2. hist.from \in [Session -> Nat] /\ hist.starts \in [Session -> Nat] /\ hist \in Hists
  BY DEF CaptureInv, TypeOK, Hists
<1>3. UNCHANGED <<topic, consumer, stop, boot>>
  BY DEF Begin, FlushIfDue, Upload, Finalise, FlushToCloud, LastFlush, Done, EyesDown,
         ChannelEnds, Break, Unroute, LoopEnds, StartWatch, TakeEvent
<1>4. loop'[s] = loop[s]
  BY <1>1 DEF Begin, FlushIfDue, Upload, Finalise, FlushToCloud, LastFlush, Done, EyesDown,
         ChannelEnds, Break, Unroute, LoopEnds, StartWatch, TakeEvent, Flush, Goto
<1>5. chan'[s] = chan[s]
  BY <1>1 DEF Begin, FlushIfDue, Upload, Finalise, FlushToCloud, LastFlush, Done, EyesDown,
         ChannelEnds, Break, Unroute, LoopEnds, StartWatch, TakeEvent
<1>6. stored'[s] = stored[s]
  BY <1>1 DEF Begin, FlushIfDue, Upload, Finalise, FlushToCloud, LastFlush, Done, EyesDown,
         ChannelEnds, Break, Unroute, LoopEnds, StartWatch, TakeEvent, Flush
<1>7. s \in route' <=> s \in route
  BY DEF Begin, FlushIfDue, Upload, Finalise, FlushToCloud, LastFlush, Done, EyesDown,
         ChannelEnds, Break, Unroute, LoopEnds, StartWatch, TakeEvent
<1>8. hist'.from[s] = hist.from[s] /\ hist'.starts[s] = hist.starts[s]
  <2>1. CASE StartWatch(r)
    BY <1>2, <2>1 DEF StartWatch, Hists
  <2>2. CASE ~StartWatch(r)
    BY <2>2 DEF Begin, FlushIfDue, Upload, Finalise, FlushToCloud, LastFlush, Done, EyesDown,
         ChannelEnds, Break, Unroute, LoopEnds, TakeEvent
  <2> QED BY <2>1, <2>2
<1>9. RecordingExact(s)
  BY DEF CaptureInv
<1> QED BY <1>3, <1>4, <1>5, <1>6, <1>7, <1>8, <1>9, Frame

(* The loop's own steps, but for the event it takes and its start.          *)
LEMMA OwnStepKept ==
  ASSUME CaptureInv, NEW s \in Session, NEW ok \in BOOLEAN,
         \/ Begin(s, ok) \/ FlushIfDue(s, ok) \/ Upload(s, ok) \/ Finalise(s, ok)
         \/ LastFlush(s, ok) \/ Done(s) \/ EyesDown(s) \/ ChannelEnds(s) \/ Unroute(s)
         \/ LoopEnds(s)
  PROVE  RecordingExact(s)'
<1>1. loop \in [Session -> Loops] /\ stored \in [Session -> Metas] /\ chan \in [Session -> Seq(Nat)]
      /\ hist.starts[s] \in Nat /\ RecordingExact(s)
  BY DEF CaptureInv, TypeOK, Hists
<1>2. loop[s] \in Loops /\ loop[s].mem \in Metas
  BY <1>1 DEF Loops
<1>3. loop[s].pc # "off" /\ UNCHANGED <<topic, hist, stop, boot, consumer>>
  BY DEF Begin, FlushIfDue, Upload, Finalise, FlushToCloud, LastFlush, Done, EyesDown,
         ChannelEnds, Break, Unroute, LoopEnds
<1> DEFINE lo == hist.from[s]
<1> SUFFICES ASSUME hist.starts[s] <= 1
             PROVE  Exact(topic, s, lo, stored'[s]) /\ Listening(s)'
  BY <1>1, <1>3, LoopFrame
<1>4. Exact(topic, s, lo, stored[s]) /\ Exact(topic, s, lo, loop[s].mem) /\ Listening(s)
  BY <1>1, <1>3 DEF RecordingExact, Listening
<1>5. ASSUME NEW mem \in Metas, NEW pc \in LoopPCs, Flush(s, mem, pc, ok),
             mem.steps = loop[s].mem.steps, mem.offset = loop[s].mem.offset,
             chan' = chan, route' = route
      PROVE  Exact(topic, s, lo, stored'[s]) /\ Listening(s)'
  <2>1. loop'[s].mem = mem /\ loop'[s].buf = loop[s].buf
    BY <1>1, <1>2, <1>5 DEF Flush, Loops
  <2>2. stored'[s] = stored[s] \/ stored'[s] = mem
    BY <1>1, <1>5 DEF Flush
  <2>3. Exact(topic, s, lo, mem)
    BY <1>4, <1>5, ExactSame
  <2> QED BY <1>3, <1>4, <1>5, <2>1, <2>2, <2>3, StillListening
<1>6. CASE Begin(s, ok)
  <2> DEFINE mem == [loop[s].mem EXCEPT !.prog = "capturing"]
  <2>1. mem \in Metas /\ mem.steps = loop[s].mem.steps /\ mem.offset = loop[s].mem.offset
    BY <1>2, MetaTyped DEF Metas
  <2>2. "run" \in LoopPCs /\ Flush(s, mem, "run", ok) /\ chan' = chan /\ route' = route
    BY <1>6 DEF Begin, LoopPCs
  <2> HIDE DEF mem
  <2> QED BY <1>5, <2>1, <2>2
<1>7. CASE LastFlush(s, ok)
  <2> DEFINE mem == IF loop[s].clean
                    THEN [loop[s].mem EXCEPT !.status = "complete", !.prog = "none"]
                    ELSE [loop[s].mem EXCEPT !.status = "incomplete", !.prog = "interrupted"]
  <2>1. mem \in Metas /\ mem.steps = loop[s].mem.steps /\ mem.offset = loop[s].mem.offset
    BY <1>2, MetaTyped DEF Metas
  <2>2. "status" \in LoopPCs /\ Flush(s, mem, "status", ok) /\ chan' = chan /\ route' = route
    BY <1>7 DEF LastFlush, LoopPCs
  <2> HIDE DEF mem
  <2> QED BY <1>5, <2>1, <2>2
<1>8. ASSUME loop'[s].mem = loop[s].mem, loop'[s].buf = loop[s].buf,
             stored'[s] = stored[s] \/ stored'[s] = loop[s].mem,
             chan' = chan, route' = route
      PROVE  Exact(topic, s, lo, stored'[s]) /\ Listening(s)'
  BY <1>3, <1>4, <1>8, StillListening
<1>9. CASE FlushIfDue(s, ok)
  <2>1. loop'[s].mem = loop[s].mem /\ loop'[s].buf = loop[s].buf
    BY <1>1, <1>2, <1>9 DEF FlushIfDue, Loops
  <2>2. (stored'[s] = stored[s] \/ stored'[s] = loop[s].mem) /\ chan' = chan /\ route' = route
    BY <1>1, <1>9 DEF FlushIfDue
  <2> QED BY <1>8, <2>1, <2>2
<1>10. CASE Upload(s, ok) \/ Finalise(s, ok)
  <2>1. loop'[s].mem = loop[s].mem /\ loop'[s].buf = loop[s].buf
    BY <1>1, <1>2, <1>10 DEF Upload, Finalise, FlushToCloud, Goto, Loops
  <2>2. stored' = stored /\ chan' = chan /\ route' = route
    BY <1>10 DEF Upload, Finalise, FlushToCloud
  <2> QED BY <1>8, <2>1, <2>2
<1>11. CASE Done(s) \/ EyesDown(s) \/ ChannelEnds(s)
  <2>1. PICK clean \in BOOLEAN : Break(s, clean)
    BY <1>11 DEF Done, EyesDown, ChannelEnds
  <2>2. loop'[s].mem = loop[s].mem /\ loop'[s].buf = loop[s].buf
    BY <1>1, <1>2, <2>1 DEF Break, Loops
  <2>3. stored' = stored /\ chan' = chan /\ route' = route
    BY <2>1 DEF Break
  <2> QED BY <1>8, <2>2, <2>3
<1>12. CASE Unroute(s)
  <2>1. loop'[s].mem = loop[s].mem /\ loop'[s].buf = loop[s].buf
    BY <1>1, <1>2, <1>12 DEF Unroute, Goto, Loops
  <2>2. stored' = stored /\ chan' = chan /\ s \notin route'
    BY <1>12 DEF Unroute
  <2>3. Queue(topic, s, lo, loop[s].mem, chan[s], consumer.next, FALSE)
    BY <1>3, <1>4, QueueUnrouted DEF Listening
  <2>4. (s \in route') = FALSE
    BY <2>2
  <2> QED BY <1>3, <1>4, <2>1, <2>2, <2>3, <2>4 DEF Listening
<1>13. CASE LoopEnds(s)
  <2>1. loop'[s].pc = "off" /\ stored' = stored
    BY <1>1, <1>13 DEF LoopEnds, NoLoop
  <2> QED BY <1>4, <2>1 DEF Listening
<1> QED BY <1>6, <1>7, <1>9, <1>10, <1>11, <1>12, <1>13

LEMMA StartKept ==
  ASSUME CaptureInv, NEW s \in Session, StartWatch(s)
  PROVE  RecordingExact(s)'
<1>1. /\ topic \in Seq(Events) /\ loop \in [Session -> Loops] /\ chan \in [Session -> Seq(Nat)]
      /\ hist.from \in [Session -> Nat] /\ hist.starts \in [Session -> Nat] /\ hist \in Hists
      /\ consumer.next \in Nat \ {0} /\ RecordingExact(s) /\ Positions
  BY DEF CaptureInv, TypeOK, Hists, Consumers
<1>2. hist'.starts[s] = hist.starts[s] + 1
  BY <1>1 DEF StartWatch, Hists
<1>3. UNCHANGED <<topic, consumer, stored, stop, boot>> /\ boot.pc = "serving"
  BY DEF StartWatch, Up
<1> SUFFICES ASSUME hist'.starts[s] <= 1 PROVE RecordingExact(s)'
  BY DEF RecordingExact
<1>4. hist.starts[s] = 0
  BY <1>1, <1>2
<1>5. stored[s] = Fresh /\ stop.sid # s
  BY <1>1, <1>4 DEF RecordingExact, Untouched
<1>6. hist'.from[s] = consumer.next
  BY <1>1, <1>4 DEF StartWatch, Hists
<1>7. Exact(topic, s, consumer.next, Fresh)
  BY <1>1, ExactFresh
<1>8. loop'[s].mem = Fresh /\ loop'[s].buf = <<>> /\ chan'[s] = <<>> /\ s \in route'
  BY <1>1, <1>5 DEF StartWatch, NoLoop
<1>9. Fresh.offset = 0 /\ Fresh.steps = <<>>
  BY DEF Fresh
<1>10. Queue(topic, s, consumer.next, Fresh, <<>>, consumer.next, TRUE)
  BY <1>1, <1>9, QueueStart
<1>11. (s \in route') = TRUE
  BY <1>8
<1>12. Listening(s)'
  BY <1>3, <1>6, <1>7, <1>8, <1>9, <1>10, <1>11 DEF Listening
<1> QED BY <1>1, <1>2, <1>3, <1>4, <1>5, <1>6, <1>7, <1>12
    DEF RecordingExact, Putting, Replaying, Untouched

LEMMA TakeKept ==
  ASSUME CaptureInv, NEW s \in Session, TakeEvent(s)
  PROVE  RecordingExact(s)'
<1> DEFINE c == chan[s]
           o == Head(c)
           m == loop[s].mem
           st == Step(Len(loop[s].buf) + 1, o)
           lo == hist.from[s]
<1>1. /\ topic \in Seq(Events) /\ loop \in [Session -> Loops] /\ c \in Seq(Nat)
      /\ chan \in [Session -> Seq(Nat)] /\ lo \in Nat /\ hist.starts[s] \in Nat
      /\ consumer.next \in Nat \ {0} /\ RecordingExact(s) /\ consumer.next <= Len(topic) + 1
  BY DEF CaptureInv, TypeOK, Hists, Consumers, Positions
<1>2. loop[s] \in Loops /\ m \in Metas
  BY <1>1 DEF Loops
<1>3. loop[s].pc # "off" /\ c # <<>> /\ UNCHANGED <<topic, hist, stop, boot, consumer, stored, route>>
  BY DEF TakeEvent
<1> SUFFICES ASSUME hist.starts[s] <= 1 PROVE Exact(topic, s, lo, stored'[s]) /\ Listening(s)'
  BY <1>1, <1>3, LoopFrame
<1>4. /\ Exact(topic, s, lo, stored[s]) /\ Exact(topic, s, lo, m)
      /\ loop[s].buf = m.steps /\ Queue(topic, s, lo, m, c, consumer.next, s \in route)
  BY <1>1, <1>3 DEF RecordingExact, Listening
<1>5. /\ o \in DOMAIN topic /\ o \in Nat /\ NoGap(topic, s, lo, m, o)
      /\ topic[o].kind # "position" => StepAt(topic, s, o)
  BY <1>1, <1>2, <1>3, <1>4, QueueHead
<1>6. chan'[s] = Tail(c)
  BY <1>1 DEF TakeEvent
<1>7. CASE topic[o].kind = "position"
  <2>1. loop' = loop
    BY <1>7 DEF TakeEvent
  <2>2. ~StepAt(topic, s, o)
    BY <1>7 DEF StepAt
  <2>3. Queue(topic, s, lo, m, Tail(c), consumer.next, s \in route)
    BY <1>1, <1>2, <1>3, <1>4, <2>2, QueueTail
  <2> QED BY <1>3, <1>4, <1>6, <2>1, <2>3 DEF Listening
<1>8. CASE topic[o].kind # "position"
  <2> DEFINE n == Keep(m, st)
  <2>1. st \in Steps /\ st = Step(Len(m.steps) + 1, o) /\ st.off = o
    BY <1>2, <1>4, <1>5 DEF Step, Steps, Metas
  <2>2. n \in Metas /\ n.steps = Append(m.steps, st) /\ n.offset = o
    BY <1>2, <2>1, KeepTyped
  <2>3. loop' = [loop EXCEPT ![s].pc = "flush", ![s].buf = Append(@, st), ![s].mem = Keep(@, st)]
    BY <1>8 DEF TakeEvent
  <2>4. loop'[s].mem = n /\ loop'[s].buf = Append(loop[s].buf, st)
    <3> HIDE DEF st
    <3> QED BY <1>1, <1>2, <2>3 DEF Loops
  <2> HIDE DEF n, st
  <2>5. StepAt(topic, s, o)
    BY <1>5, <1>8
  <2>6. Exact(topic, s, lo, n)
    BY <1>1, <1>2, <1>4, <1>5, <2>1, <2>2, <2>5, ExactAppend
  <2>7. Queue(topic, s, lo, n, Tail(c), consumer.next, s \in route)
    BY <1>1, <1>2, <1>3, <1>4, <2>2, QueueTail
  <2> QED BY <1>3, <1>4, <1>6, <2>2, <2>4, <2>6, <2>7 DEF Listening
<1> QED BY <1>7, <1>8

(* The topic grows.                                                         *)
LEMMA ProduceKept ==
  ASSUME CaptureInv, NEW r \in Session, NEW kind \in Kinds, Produce(r, kind), NEW s \in Session
  PROVE  RecordingExact(s)'
<1> DEFINE e == [sid |-> r, kind |-> kind]
           lo == hist.from[s]
<1>1. /\ topic \in Seq(Events) /\ loop \in [Session -> Loops] /\ stored \in [Session -> Metas]
      /\ chan[s] \in Seq(Nat) /\ lo \in Nat /\ consumer.next \in Nat
      /\ boot \in Boots /\ boot.mem \in Metas /\ boot.next \in Nat /\ boot.high \in Nat
      /\ stop \in Stops /\ stop.mem \in Metas
      /\ RecordingExact(s) /\ consumer.next <= Len(topic) + 1
  BY DEF CaptureInv, TypeOK, Hists, Consumers, Positions, Boots, Stops
<1>2. loop[s] \in Loops /\ loop[s].mem \in Metas /\ stored[s] \in Metas /\ e \in Events
  BY <1>1 DEF Loops, Events
<1>3. topic' = Append(topic, e) /\ UNCHANGED <<hist, stop, boot, consumer, stored, route, loop, chan>>
  BY DEF Produce
<1> HIDE DEF e
<1> SUFFICES ASSUME hist.starts[s] <= 1 PROVE RecordingExact(s)'
  BY <1>3 DEF RecordingExact
<1>4. Exact(topic', s, lo, stored[s])
  BY <1>1, <1>2, <1>3, ExactGrows DEF RecordingExact
<1>5. Listening(s)'
  <2> SUFFICES ASSUME loop[s].pc # "off"
               PROVE  /\ Exact(topic', s, lo, loop[s].mem) /\ loop[s].buf = loop[s].mem.steps
                      /\ Queue(topic', s, lo, loop[s].mem, chan[s], consumer.next, s \in route)
    BY <1>3 DEF Listening
  <2>1. /\ Exact(topic, s, lo, loop[s].mem) /\ loop[s].buf = loop[s].mem.steps
        /\ Queue(topic, s, lo, loop[s].mem, chan[s], consumer.next, s \in route)
    BY <1>1 DEF RecordingExact, Listening
  <2> QED BY <1>1, <1>2, <1>3, <2>1, ExactGrows, QueueGrows
<1>6. Putting(s)'
  BY <1>1, <1>2, <1>3, ExactGrows DEF RecordingExact, Putting
<1>7. Replaying(s)'
  <2> SUFFICES ASSUME boot.pc \in {"replay", "recover"}, boot.sid = s
               PROVE  /\ Exact(topic', s, lo, boot.mem)
                      /\ boot.pc = "replay" => /\ NoGap(topic', s, lo, boot.mem, boot.next)
                                               /\ boot.high <= Len(topic')
    BY <1>3 DEF Replaying
  <2>1. /\ Exact(topic, s, lo, boot.mem)
        /\ boot.pc = "replay" => NoGap(topic, s, lo, boot.mem, boot.next) /\ boot.high <= Len(topic)
    BY <1>1 DEF RecordingExact, Replaying
  <2>2. Len(topic') = Len(topic) + 1 /\ Len(topic) \in Nat
    BY <1>1, <1>2, <1>3
  <2>3. boot.high <= Len(topic) => boot.high <= Len(topic')
    BY <1>1, <2>2
  <2> QED BY <1>1, <1>2, <1>3, <2>1, <2>3, ExactGrows, NoGapGrows
<1> QED BY <1>1, <1>3, <1>4, <1>5, <1>6, <1>7 DEF RecordingExact, Untouched

(* The consumer passes an event.                                            *)
LEMMA RecvKept ==
  ASSUME CaptureInv, Recv, NEW s \in Session
  PROVE  RecordingExact(s)'
<1> DEFINE o == consumer.next
           r == topic[o].sid
           wanted == topic[o].kind # "other" /\ r \in route
           full == Len(chan[r]) >= Capacity
           lo == hist.from[s]
           m == loop[s].mem
<1>1. /\ topic \in Seq(Events) /\ loop \in [Session -> Loops] /\ chan \in [Session -> Seq(Nat)]
      /\ chan[s] \in Seq(Nat) /\ lo \in Nat /\ o \in Nat \ {0} /\ RecordingExact(s)
      /\ consumer \in Consumers
  BY DEF CaptureInv, TypeOK, Hists, Consumers
<1>2. loop[s] \in Loops /\ m \in Metas
  BY <1>1 DEF Loops
<1>3. o \in DOMAIN topic /\ UNCHANGED <<topic, hist, stop, boot, stored, loop>>
  BY DEF Recv
<1>4. r \in Session
  <2>1. topic[o] \in Events
    BY <1>1, <1>3
  <2> QED BY <2>1 DEF Events
<1>5. consumer'.next = o + 1
  BY <1>1 DEF Recv, Consumers
<1> SUFFICES ASSUME hist.starts[s] <= 1 PROVE RecordingExact(s)'
  BY <1>3 DEF RecordingExact
<1>b. Listening(s)
  BY <1>1 DEF RecordingExact
<1>6. Listening(s)'
  <2> SUFFICES ASSUME loop[s].pc # "off"
               PROVE  Queue(topic, s, lo, m, chan'[s], o + 1, s \in route')
    BY <1>3, <1>5, <1>b DEF Listening
  <2>1. Queue(topic, s, lo, m, chan[s], o, s \in route)
    BY <1>b DEF Listening
  <2>2. CASE s = r /\ wanted /\ ~full
    <3>1. chan'[s] = Append(chan[s], o) /\ route' = route
      BY <1>1, <1>4, <2>2 DEF Recv
    <3>2. (s \in route) = TRUE
      BY <2>2
    <3>3. Queue(topic, s, lo, m, chan[s], o, TRUE)
      BY <2>1, <3>2
    <3>4. Queue(topic, s, lo, m, Append(chan[s], o), o + 1, TRUE)
      BY <1>1, <1>2, <1>3, <2>2, <3>3, QueuePush
    <3> QED BY <3>1, <3>2, <3>4
  <2>3. CASE s = r /\ wanted /\ full
    <3>1. chan' = chan /\ route' = route \ {s}
      BY <2>3 DEF Recv
    <3>2. (s \in route') = FALSE
      BY <3>1
    <3>3. Queue(topic, s, lo, m, chan[s], o + 1, FALSE)
      BY <1>1, <1>2, <1>3, <2>1, QueuePass
    <3> QED BY <3>1, <3>2, <3>3
  <2>4. CASE ~(s = r /\ wanted)
    <3>1. chan'[s] = chan[s] /\ (s \in route') = (s \in route)
      BY <1>1, <1>4, <2>4 DEF Recv
    <3>2. s \in route => ~StepAt(topic, s, o)
      BY <2>4 DEF StepAt
    <3>3. Queue(topic, s, lo, m, chan[s], o + 1, s \in route)
      BY <1>1, <1>2, <1>3, <2>1, <3>2, QueuePass
    <3> QED BY <3>1, <3>3
  <2> QED BY <2>2, <2>3, <2>4
<1> QED BY <1>1, <1>3, <1>6 DEF RecordingExact, Putting, Replaying, Untouched

(* The signal handler fetches metadata.json and puts it back.               *)
LEMMA SignalKept ==
  ASSUME CaptureInv, Signal \/ SignalNext \/ Crash \/ AutoCommit, NEW s \in Session
  PROVE  RecordingExact(s)'
<1> DEFINE lo == hist.from[s]
<1>1. /\ topic \in Seq(Events) /\ stored \in [Session -> Metas] /\ loop \in [Session -> Loops]
      /\ stop \in Stops /\ stop.todo \in SUBSET Session /\ stop.mem \in Metas /\ stop.sid \in Session \cup {None}
      /\ consumer \in Consumers /\ hist \in Hists /\ RecordingExact(s) /\ stored[s] \in Metas
  BY DEF CaptureInv, TypeOK, Stops
<1>2. CASE Signal
  <2>1. /\ hist'.from[s] = hist.from[s] /\ hist'.starts[s] = hist.starts[s]
        /\ UNCHANGED <<topic, consumer, route, chan, loop, stored, boot>>
        /\ stop'.todo = {x \in Session : loop[x].pc \notin {"off", "begin"}} /\ stop'.sid = None
    BY <1>1, <1>2 DEF Signal, Hists, NoSignal
  <2> QED BY <1>1, <2>1, NoneIsNoSession
      DEF RecordingExact, Listening, Putting, Replaying, Untouched
<1>3. ASSUME NEW r \in Session, FetchInterrupted(r)
      PROVE  RecordingExact(s)'
  <2>1. UNCHANGED <<topic, consumer, route, chan, loop, stored, boot, hist>> /\ r \in stop.todo
    BY <1>3 DEF FetchInterrupted
  <2>2. /\ stop'.sid = r /\ stop'.todo = stop.todo \ {r}
        /\ stop'.mem.steps = stored[r].steps /\ stop'.mem.offset = stored[r].offset
    BY <1>1, <1>3 DEF FetchInterrupted, Stops, Metas
  <2>3. hist.starts[s] <= 1 => Putting(s)'
    BY <1>1, <2>1, <2>2, ExactSame DEF Putting, RecordingExact
  <2> QED BY <1>1, <2>1, <2>2, <2>3 DEF RecordingExact, Listening, Replaying, Untouched
<1>4. ASSUME NEW ok \in BOOLEAN, StoreInterrupted(ok)
      PROVE  RecordingExact(s)'
  <2>1. UNCHANGED <<topic, consumer, route, chan, loop, boot, hist>>
    BY <1>4 DEF StoreInterrupted
  <2>2. stop'.sid = None /\ stop'.todo = stop.todo
    BY <1>1, <1>4 DEF StoreInterrupted, Stops
  <2>3. stored'[s] = stored[s] \/ (stop.sid = s /\ stored'[s] = stop.mem)
    BY <1>1, <1>4 DEF StoreInterrupted
  <2> QED BY <1>1, <2>1, <2>2, <2>3, NoneIsNoSession
      DEF RecordingExact, Listening, Putting, Replaying, Untouched
<1>5. ASSUME ProcessDies, hist' = [hist EXCEPT !.stops = @ + 1] \/ UNCHANGED hist
      PROVE  RecordingExact(s)'
  <2>1. /\ hist'.from[s] = hist.from[s] /\ hist'.starts[s] = hist.starts[s]
        /\ UNCHANGED <<topic, stored>>
        /\ loop'[s].pc = "off" /\ stop'.sid = None /\ stop'.todo = {} /\ boot'.pc = "sweep"
    BY <1>1, <1>5 DEF ProcessDies, Hists, NoLoop, NoSignal, Boot
  <2> QED BY <1>1, <2>1, NoneIsNoSession
      DEF RecordingExact, Listening, Putting, Replaying, Untouched
<1>6. CASE AutoCommit
  <2>1. consumer'.next = consumer.next
    BY <1>1, <1>6 DEF AutoCommit, Consumers
  <2> QED BY <1>1, <1>6, <2>1, Frame DEF AutoCommit
<1> QED BY <1>2, <1>3, <1>4, <1>5, <1>6 DEF SignalNext, Exit, Crash

(* The replay.                                                              *)
LEMMA BootKept ==
  ASSUME CaptureInv, BootNext, NEW s \in Session
  PROVE  RecordingExact(s)'
<1> DEFINE lo == hist.from[s]
<1>1. /\ topic \in Seq(Events) /\ stored \in [Session -> Metas] /\ stored[s] \in Metas
      /\ lo \in Nat /\ hist \in Hists /\ RecordingExact(s) /\ SidKnown
      /\ boot \in Boots /\ boot.mem \in Metas /\ boot.next \in Nat /\ boot.high \in Nat
  BY DEF CaptureInv, TypeOK, Boots, Hists
<1>a. ASSUME UNCHANGED <<topic, consumer, route, chan, loop, stop>>, stored'[s] = stored[s],
             hist'.from[s] = lo, hist'.starts[s] = hist.starts[s],
             boot'.pc \notin {"replay", "recover"} \/ boot'.sid # s
      PROVE  RecordingExact(s)'
  BY <1>1, <1>a DEF RecordingExact, Listening, Putting, Replaying, Untouched
<1>2. ASSUME NEW r \in Session, SweepActive(r)
      PROVE  RecordingExact(s)'
  <2>1. boot'.pc = "sweep"
    BY <1>1, <1>2 DEF SweepActive, Boots
  <2> QED BY <1>2, <1>a, <2>1 DEF SweepActive
<1>3. ASSUME NEW r \in Session, StartReplay(r)
      PROVE  RecordingExact(s)'
  <2>1. UNCHANGED <<topic, consumer, route, chan, loop, stop, stored, hist>>
    BY <1>3 DEF StartReplay
  <2>2. /\ boot'.pc = "replay" /\ boot'.sid = r /\ boot'.mem = stored[r]
        /\ boot'.next = stored[r].offset + 1 /\ boot'.high = Len(topic)
    BY <1>3 DEF StartReplay
  <2>3. CASE r # s
    BY <1>a, <2>1, <2>2, <2>3
  <2>4. CASE r = s
    <3> SUFFICES ASSUME hist.starts[s] <= 1 PROVE RecordingExact(s)'
      BY <2>1 DEF RecordingExact
    <3>1. Replayable(stored[s])
      BY <1>3, <2>4 DEF StartReplay
    <3>2. Exact(topic, s, lo, stored[s]) /\ stored[s].offset # 0
      BY <1>1, <3>1 DEF RecordingExact, Replayable
    <3>3. lo <= stored[s].offset /\ stored[s].offset <= Len(topic)
      BY <1>1, <3>2, ExactBound
    <3>4. NoGap(topic, s, lo, stored[s], stored[s].offset + 1)
      BY <1>1, <3>3, NoGapStart
    <3>5. Len(topic) <= Len(topic)
      BY <1>1
    <3>6. Replaying(s)'
      BY <2>1, <2>2, <2>4, <3>2, <3>4, <3>5 DEF Replaying
    <3>7. hist.starts[s] # 0
      BY <1>1, <3>2 DEF RecordingExact, Untouched, Fresh
    <3> QED BY <1>1, <2>1, <3>6, <3>7 DEF RecordingExact, Listening, Putting, Untouched
  <2> QED BY <2>3, <2>4
<1>4. CASE ReplayEvent
  <2> DEFINE o == boot.next
             m == boot.mem
             st == Step(Len(m.steps) + 1, o)
             n == Keep(m, st)
  <2>1. UNCHANGED <<topic, consumer, route, chan, loop, stop, stored, hist>>
    BY <1>4 DEF ReplayEvent
  <2>2. /\ boot'.pc = boot.pc /\ boot'.sid = boot.sid /\ boot'.next = o + 1 /\ boot'.high = boot.high
        /\ boot'.mem = IF IsStep(boot.sid, o) THEN n ELSE m
    BY <1>1, <1>4 DEF ReplayEvent, Boots
  <2>3. boot.pc = "replay" /\ o <= boot.high
    BY <1>4 DEF ReplayEvent
  <2>4. CASE boot.sid # s
    BY <1>a, <2>1, <2>2, <2>4
  <2>5. CASE boot.sid = s
    <3> SUFFICES ASSUME hist.starts[s] <= 1 PROVE RecordingExact(s)'
      BY <2>1 DEF RecordingExact
    <3>1. Exact(topic, s, lo, m) /\ NoGap(topic, s, lo, m, o) /\ boot.high <= Len(topic)
      BY <1>1, <2>3, <2>5 DEF RecordingExact, Replaying
    <3>2. o <= Len(topic) /\ Len(topic) \in Nat
      BY <1>1, <2>3, <3>1
    <3>3. Exact(topic, s, lo, boot'.mem) /\ NoGap(topic, s, lo, boot'.mem, o + 1)
      <4>1. CASE ~StepAt(topic, s, o)
        <5>1. boot'.mem = m
          BY <2>2, <2>5, <4>1 DEF IsStep
        <5> QED BY <1>1, <3>1, <3>2, <4>1, <5>1, NoGapSkip
      <4>2. CASE StepAt(topic, s, o)
        <5>1. boot'.mem = n
          BY <2>2, <2>5, <4>2 DEF IsStep
        <5>2. st \in Steps /\ st.off = o
          BY <1>1 DEF Step, Steps, Metas
        <5>3. n \in Metas /\ n.steps = Append(m.steps, st) /\ n.offset = o
          BY <1>1, <5>2, KeepTyped
        <5>4. Exact(topic, s, lo, n)
          BY <1>1, <3>1, <4>2, <5>3, ExactAppend
        <5>5. lo <= n.offset /\ n.offset <= Len(topic)
          BY <3>1, <3>2, <5>3 DEF NoGap
        <5>6. NoGap(topic, s, lo, n, n.offset + 1)
          BY <1>1, <5>3, <5>5, NoGapStart
        <5> HIDE DEF n, st
        <5> QED BY <5>1, <5>3, <5>4, <5>6
      <4> QED BY <4>1, <4>2
    <3>4. Replaying(s)'
      BY <2>1, <2>2, <2>3, <3>1, <3>3 DEF Replaying
    <3>5. hist.starts[s] # 0
      BY <1>1, <2>3, <2>5 DEF RecordingExact, Untouched
    <3> QED BY <1>1, <2>1, <3>4, <3>5 DEF RecordingExact, Listening, Putting, Untouched
  <2> QED BY <2>4, <2>5
<1>5. ASSUME NEW cut \in BOOLEAN, ReplayEnds(cut)
      PROVE  RecordingExact(s)'
  <2>1. UNCHANGED <<topic, consumer, route, chan, loop, stop, stored>>
    BY <1>5 DEF ReplayEnds
  <2>2. boot'.pc = "recover" /\ boot'.sid = boot.sid /\ boot'.mem = boot.mem /\ boot.pc = "replay"
    BY <1>1, <1>5 DEF ReplayEnds, Boots
  <2>3. hist'.from[s] = lo /\ hist'.starts[s] = hist.starts[s]
    BY <1>1, <1>5 DEF ReplayEnds, Hists
  <2> QED BY <1>1, <2>1, <2>2, <2>3 DEF RecordingExact, Listening, Putting, Replaying, Untouched
<1>6. ASSUME NEW ok \in BOOLEAN, Recover(ok)
      PROVE  RecordingExact(s)'
  <2>1. UNCHANGED <<topic, consumer, route, chan, loop, stop, hist>> /\ boot.pc = "recover"
    BY <1>6 DEF Recover
  <2>2. boot'.pc \notin {"replay", "recover"}
    BY <1>1, <1>6 DEF Recover, Boots, Boot
  <2>3. CASE stored'[s] = stored[s]
    BY <1>a, <2>1, <2>2, <2>3
  <2>4. CASE stored'[s] # stored[s]
    <3>1. boot.sid = s
      BY <1>1, <1>6, <2>4 DEF Recover
    <3>2. stored'[s].steps = boot.mem.steps /\ stored'[s].offset = boot.mem.offset
      BY <1>1, <1>6, <2>4, <3>1 DEF Recover, Metas
    <3>3. hist.starts[s] <= 1 => Exact(topic, s, lo, stored'[s])
      BY <1>1, <2>1, <3>1, <3>2, ExactSame DEF RecordingExact, Replaying
    <3> QED BY <1>1, <2>1, <2>2, <3>1, <3>3
        DEF RecordingExact, Listening, Putting, Replaying, Untouched
  <2> QED BY <2>3, <2>4
<1>7. CASE SettleRecovered \/ Serve
  <2>1. boot'.pc \notin {"replay", "recover"}
    BY <1>7 DEF SettleRecovered, Serve, Serving, Boot
  <2> QED BY <1>7, <1>a, <2>1 DEF SettleRecovered, Serve
<1> QED BY <1>2, <1>3, <1>4, <1>5, <1>6, <1>7 DEF BootNext

(* The consumer is never beyond the end of the topic.                       *)
LEMMA PositionsKept ==
  ASSUME TypeOK, Positions, [Next]_vars
  PROVE  Positions'
<1>1. /\ topic \in Seq(Events) /\ consumer \in Consumers /\ consumer.next \in Nat \ {0}
      /\ consumer.stored \in Nat /\ consumer.committed \in Nat /\ Len(topic) \in Nat
  BY DEF TypeOK, Consumers
<1>2. ASSUME NEW s \in Session, NEW kind \in Kinds, Produce(s, kind)
      PROVE  Positions'
  <2>1. Len(topic') = Len(topic) + 1 /\ consumer' = consumer
    BY <1>1, <1>2 DEF Produce, Events
  <2> QED BY <1>1, <2>1 DEF Positions
<1>3. CASE Recv
  <2>1. consumer.next <= Len(topic) /\ topic' = topic
    BY <1>1, <1>3 DEF Recv
  <2>2. consumer'.next = consumer.next + 1 /\ consumer'.committed = consumer.committed
        /\ consumer'.stored \in {consumer.next, consumer.stored}
    BY <1>1, <1>3 DEF Recv, Consumers
  <2> QED BY <1>1, <2>1, <2>2 DEF Positions
<1>4. CASE AutoCommit
  <2>1. consumer'.next = consumer.next /\ consumer'.committed = consumer.stored
        /\ consumer'.stored = consumer.stored /\ topic' = topic
    BY <1>1, <1>4 DEF AutoCommit, Consumers
  <2> QED BY <1>1, <2>1 DEF Positions
<1>5. ASSUME ProcessDies
      PROVE  Positions'
  <2>1. consumer'.next = consumer.committed + 1 /\ consumer'.committed = consumer.committed
        /\ consumer'.stored = consumer.committed /\ topic' = topic
    BY <1>1, <1>5 DEF ProcessDies, Consumers
  <2> QED BY <1>1, <2>1 DEF Positions
<1>6. ASSUME UNCHANGED <<topic, consumer>>
      PROVE  Positions'
  BY <1>6 DEF Positions
<1>7. ASSUME NEW s \in Session,
             StartWatch(s) \/ Done(s) \/ EyesDown(s) \/ LoopNext(s)
      PROVE  UNCHANGED <<topic, consumer>>
  BY <1>7 DEF StartWatch, Done, EyesDown, LoopNext, TakeEvent, ChannelEnds, Break, Unroute,
     LoopEnds, Begin, FlushIfDue, Upload, Finalise, FlushToCloud, LastFlush
<1>8. ASSUME BootNext
      PROVE  UNCHANGED <<topic, consumer>>
  BY <1>8 DEF BootNext, SweepActive, StartReplay, ReplayEvent, ReplayEnds, Recover,
     SettleRecovered, Serve
<1> QED BY <1>2, <1>3, <1>4, <1>5, <1>6, <1>7, <1>8
    DEF Next, Signal, SignalNext, FetchInterrupted, StoreInterrupted, Exit, Crash, vars

(* A replay is of a session.                                                *)
LEMMA SidKept ==
  ASSUME TypeOK, SidKnown, [Next]_vars
  PROVE  SidKnown'
<1>1. boot \in Boots
  BY DEF TypeOK
<1>2. ASSUME NEW s \in Session, StartReplay(s) PROVE SidKnown'
  BY <1>2 DEF StartReplay, SidKnown
<1>3. ASSUME NEW s \in Session, SweepActive(s) PROVE SidKnown'
  BY <1>1, <1>3 DEF SweepActive, SidKnown, Boots
<1>4. CASE ReplayEvent
  BY <1>1, <1>4 DEF ReplayEvent, SidKnown, Boots
<1>5. ASSUME NEW cut \in BOOLEAN, ReplayEnds(cut) PROVE SidKnown'
  BY <1>1, <1>5 DEF ReplayEnds, SidKnown, Boots
<1>6. ASSUME NEW ok \in BOOLEAN, Recover(ok) PROVE SidKnown'
  BY <1>1, <1>6 DEF Recover, SidKnown, Boots, Boot
<1>7. CASE SettleRecovered \/ Serve
  BY <1>7 DEF SettleRecovered, Serve, Serving, Boot, SidKnown
<1>8. ASSUME ProcessDies PROVE SidKnown'
  BY <1>8 DEF ProcessDies, Boot, SidKnown
<1>9. ASSUME UNCHANGED boot PROVE SidKnown'
  BY <1>9 DEF SidKnown
<1>10. ASSUME NEW s \in Session,
             StartWatch(s) \/ Done(s) \/ EyesDown(s) \/ LoopNext(s)
      PROVE  UNCHANGED boot
  BY <1>10 DEF StartWatch, Done, EyesDown, LoopNext, TakeEvent, ChannelEnds, Break, Unroute,
     LoopEnds, Begin, FlushIfDue, Upload, Finalise, FlushToCloud, LastFlush
<1> QED BY <1>2, <1>3, <1>4, <1>5, <1>6, <1>7, <1>8, <1>9, <1>10
    DEF Next, BootNext, Produce, Recv, AutoCommit, Signal, SignalNext, FetchInterrupted,
        StoreInterrupted, Exit, Crash, vars

(* The invariant is kept.                                                   *)
LEMMA CaptureStep == CaptureInv /\ [Next]_vars => CaptureInv'
<1> SUFFICES ASSUME CaptureInv, [Next]_vars PROVE CaptureInv'
  OBVIOUS
<1>1. TypeOK' /\ Positions' /\ SidKnown'
  BY TypeStep, PositionsKept, SidKept DEF CaptureInv
<1>2. ASSUME NEW s \in Session PROVE RecordingExact(s)'
  <2>1. ASSUME NEW r \in Session, NEW ok \in BOOLEAN,
               \/ Begin(r, ok) \/ FlushIfDue(r, ok) \/ Upload(r, ok) \/ Finalise(r, ok)
               \/ LastFlush(r, ok) \/ Done(r) \/ EyesDown(r) \/ ChannelEnds(r) \/ Unroute(r)
               \/ LoopEnds(r) \/ StartWatch(r) \/ TakeEvent(r)
        PROVE  RecordingExact(s)'
    <3>1. CASE r # s
      BY <2>1, <3>1, OthersKept
    <3>2. CASE r = s
      BY <2>1, <3>2, OwnStepKept, StartKept, TakeKept
    <3> QED BY <3>1, <3>2
  <2>2. ASSUME NEW r \in Session, StartWatch(r) \/ Done(r) \/ EyesDown(r) \/ LoopNext(r)
        PROVE  RecordingExact(s)'
    BY <2>1, <2>2 DEF LoopNext
  <2>3. CASE \E r \in Session, kind \in Kinds : Produce(r, kind)
    BY <2>3, ProduceKept
  <2>4. CASE Recv
    BY <2>4, RecvKept
  <2>5. CASE Signal \/ SignalNext \/ Crash \/ AutoCommit
    BY <2>5, SignalKept
  <2>6. CASE BootNext
    BY <2>6, BootKept
  <2>7. CASE UNCHANGED vars
    <3>1. RecordingExact(s)
      BY DEF CaptureInv
    <3> QED BY <2>7, <3>1, Frame DEF vars
  <2> QED BY <2>2, <2>3, <2>4, <2>5, <2>6, <2>7 DEF Next
<1> QED BY <1>1, <1>2 DEF CaptureInv

THEOREM CaptureSafe == Spec => []CaptureInv
BY InitInv, CaptureStep, PTL DEF Spec

(* Every variable keeps its type.                                           *)
THEOREM CaptureTypes == Spec => []TypeOK
<1>1. CaptureInv => TypeOK
  BY DEF CaptureInv
<1> QED BY <1>1, CaptureSafe, PTL

(* The position stored with the recording of a session started once is      *)
(* exact: it records each step up to kafka_offset once, numbered without a   *)
(* gap, so that the replay from kafka_offset + 1 neither repeats nor skips   *)
(* one.                                                                      *)
THEOREM PositionExact == Spec => []StoredExact
<1>1. CaptureInv => StoredExact
  <2> SUFFICES ASSUME CaptureInv, NEW s \in Session, StartedOnce(s)
               PROVE  /\ Recorded(stored[s]) = StepsIn(s, hist.from[s], stored[s].offset)
                      /\ Numbered(stored[s].steps)
    BY DEF StoredExact
  <2>1. Exact(topic, s, hist.from[s], stored[s])
    BY DEF CaptureInv, RecordingExact, StartedOnce
  <2> QED BY <2>1 DEF Exact, StepsIn, IsStep
<1> QED BY <1>1, CaptureSafe, PTL

-----------------------------------------------------------------------------
(* A replay that ended without an error has every step before its end.      *)
LEMMA HoldsGrows ==
  ASSUME NEW t \in Seq(Events), NEW e \in Events, NEW s, NEW lo \in Nat, NEW hi \in Nat, NEW m,
         hi <= Len(t), Holds(t, s, lo, hi, m)
  PROVE  Holds(Append(t, e), s, lo, hi, m)
<1>1. \A o \in lo .. hi : o \in Nat /\ o <= Len(t)
  <2>1. Len(t) \in Nat
    OBVIOUS
  <2> QED BY <2>1
<1>2. \A o \in lo .. hi : StepAt(Append(t, e), s, o) <=> StepAt(t, s, o)
  BY <1>1, StepGrows
<1> QED BY <1>2 DEF Holds

LEMMA HoldsSame ==
  ASSUME NEW t, NEW s, NEW lo, NEW hi, NEW m, NEW n, Holds(t, s, lo, hi, m), n.steps = m.steps
  PROVE  Holds(t, s, lo, hi, n)
BY DEF Holds, Recorded

LEMMA ReplayedToTheEnd ==
  ASSUME NEW t \in Seq(Events), NEW s, NEW lo \in Nat, NEW m \in Metas, NEW next \in Nat,
         NEW hi \in Nat, Exact(t, s, lo, m), NoGap(t, s, lo, m, next), hi < next
  PROVE  Holds(t, s, lo, hi, m)
<1>1. m.offset \in Nat
  BY DEF Metas
<1>2. ASSUME NEW o \in lo .. hi, StepAt(t, s, o) PROVE o \in Recorded(m)
  <2>1. o \in DOMAIN t /\ o \in Nat /\ lo <= o /\ o < next
    BY <1>2 DEF StepAt
  <2>2. o <= m.offset
    BY <1>1, <1>2, <2>1 DEF NoGap
  <2>3. o \in lo .. m.offset
    BY <1>1, <2>1, <2>2
  <2> QED BY <1>2, <2>3 DEF Exact
<1> QED BY <1>2 DEF Holds

LEMMA InitReplay == Init => ReplayInv
<1> SUFFICES ASSUME Init PROVE ReplayInv
  OBVIOUS
<1>1. CaptureInv
  BY InitInv
<1>2. StartingUp
  BY DEF Init, StartingUp, Serving, Boot, Up
<1>3. ASSUME NEW s \in Session PROVE ReplayedWhole(s)
  BY DEF Init, ReplayedWhole, Serving, Boot
<1> QED BY <1>1, <1>2, <1>3 DEF ReplayInv

(* The start-up is alone.                                                   *)
LEMMA StartingUpKept ==
  ASSUME ReplayInv, [Next]_vars
  PROVE  StartingUp'
<1> DEFINE At == boot.pc \in {"replay", "recover", "settle"}
<1>1. /\ boot \in Boots /\ stop \in Stops /\ loop \in [Session -> Loops]
      /\ reg \in [Session -> {"active", "incomplete", "pending_annotation"}]
      /\ stored \in [Session -> Metas] /\ SidKnown /\ boot.todo \in SUBSET Session
  BY DEF ReplayInv, CaptureInv, TypeOK, Boots
<1>2. /\ Up => boot.todo = {}
      /\ ~Up => stop.todo = {} /\ stop.sid = None /\ \A s \in Session : loop[s].pc = "off"
      /\ \A s \in boot.todo : reg[s] = "active"
      /\ At => reg[boot.sid] = "active" /\ boot.sid \notin boot.todo /\ stored[boot.sid].status # "complete"
  BY DEF ReplayInv, StartingUp
<1>a. At => ~Up /\ boot.sid \in Session
  BY <1>1 DEF Up, SidKnown
<1>3. ASSUME Up, boot' = boot
      PROVE  StartingUp'
  BY <1>2, <1>3 DEF StartingUp, Up
<1>4. ASSUME UNCHANGED <<stop, boot, loop, reg, stored>>
      PROVE  StartingUp'
  BY <1>2, <1>4 DEF StartingUp, Up
<1>5. ASSUME NEW s \in Session, StartWatch(s) \/ Done(s) \/ EyesDown(s) \/ LoopNext(s)
      PROVE  StartingUp'
  <2>1. loop[s].pc # "off" \/ Up
    BY <1>5 DEF StartWatch, Done, EyesDown, LoopNext, TakeEvent, ChannelEnds, Break, Unroute,
       LoopEnds, Begin, FlushIfDue, Upload, Finalise, FlushToCloud, LastFlush
  <2>2. boot' = boot
    BY <1>5 DEF StartWatch, Done, EyesDown, LoopNext, TakeEvent, ChannelEnds, Break, Unroute,
       LoopEnds, Begin, FlushIfDue, Upload, Finalise, FlushToCloud, LastFlush
  <2> QED BY <1>2, <1>3, <2>1, <2>2
<1>6. CASE Recv \/ AutoCommit \/ Signal \/ \E s \in Session, kind \in Kinds : Produce(s, kind)
  BY <1>3, <1>4, <1>6 DEF Recv, AutoCommit, Signal, Produce
<1>7. ASSUME NEW s \in Session, FetchInterrupted(s)
      PROVE  StartingUp'
  BY <1>2, <1>3, <1>7 DEF FetchInterrupted
<1>8. ASSUME NEW ok \in BOOLEAN, StoreInterrupted(ok)
      PROVE  StartingUp'
  BY <1>2, <1>3, <1>8 DEF StoreInterrupted
<1>9. ASSUME ProcessDies
      PROVE  StartingUp'
  BY <1>1, <1>9 DEF ProcessDies, StartingUp, Up, NoSignal, Boot, NoLoop
<1>10. ASSUME NEW s \in Session, SweepActive(s)
       PROVE  StartingUp'
  <2>1. /\ boot.pc = "sweep" /\ boot'.pc = "sweep" /\ boot'.todo = boot.todo \ {s}
        /\ \A x \in Session \ {s} : reg'[x] = reg[x]
        /\ UNCHANGED <<stop, loop>>
    BY <1>1, <1>10 DEF SweepActive, Boots
  <2> QED BY <1>1, <1>2, <2>1 DEF StartingUp, Up
<1>11. ASSUME NEW s \in Session, StartReplay(s)
       PROVE  StartingUp'
  <2>1. /\ boot.pc = "sweep" /\ boot'.pc = "replay" /\ boot'.todo = boot.todo \ {s} /\ boot'.sid = s
        /\ UNCHANGED <<stop, loop, reg, stored>> /\ stored[s].status # "complete" /\ s \in boot.todo
    BY <1>11 DEF StartReplay, Replayable
  <2> QED BY <1>1, <1>2, <2>1 DEF StartingUp, Up
<1>12. CASE ReplayEvent \/ \E cut \in BOOLEAN : ReplayEnds(cut)
  <2>1. /\ boot.pc = "replay" /\ boot'.pc \in {"replay", "recover"}
        /\ boot'.todo = boot.todo /\ boot'.sid = boot.sid
        /\ UNCHANGED <<stop, loop, reg, stored>>
    BY <1>1, <1>12 DEF ReplayEvent, ReplayEnds, Boots
  <2> QED BY <1>2, <1>a, <2>1 DEF StartingUp, Up
<1>13. ASSUME NEW ok \in BOOLEAN, Recover(ok)
       PROVE  StartingUp'
  <2>1. /\ boot.pc = "recover" /\ UNCHANGED <<stop, loop>> /\ boot'.todo = boot.todo
        /\ \A x \in Session \ {boot.sid} : reg'[x] = reg[x]
    BY <1>1, <1>13 DEF Recover, Boots, Boot
  <2>2. CASE ok
    <3>1. /\ boot'.pc = "settle" /\ boot'.sid = boot.sid /\ reg' = reg
          /\ stored'[boot.sid].status = "pending_annotation"
      BY <1>1, <1>a, <1>13, <2>1, <2>2 DEF Recover, Boots, Metas
    <3> QED BY <1>2, <1>a, <2>1, <3>1 DEF StartingUp, Up
  <2>3. CASE ~ok
    <3>1. boot'.pc = "sweep"
      BY <1>13, <2>3 DEF Recover, Boot
    <3> QED BY <1>1, <1>2, <1>a, <2>1, <3>1 DEF StartingUp, Up
  <2> QED BY <2>2, <2>3
<1>14. CASE SettleRecovered
  <2>1. /\ boot.pc = "settle" /\ UNCHANGED <<stop, loop>> /\ boot'.todo = boot.todo
        /\ boot'.pc = "sweep" /\ \A x \in Session \ {boot.sid} : reg'[x] = reg[x]
    BY <1>1, <1>14 DEF SettleRecovered, Boot
  <2> QED BY <1>1, <1>2, <1>a, <2>1 DEF StartingUp, Up
<1>15. CASE Serve
  BY <1>15 DEF Serve, Serving, Boot, StartingUp, Up
<1> QED BY <1>4, <1>5, <1>6, <1>7, <1>8, <1>9, <1>10, <1>11, <1>12, <1>13, <1>14, <1>15
    DEF Next, BootNext, SignalNext, Exit, Crash, vars

(* Steps of the loops, which a replayed session started once has no more.   *)
LEMMA WholeLoop ==
  ASSUME ReplayInv, NEW s \in Session, NEW r \in Session,
         StartWatch(r) \/ Done(r) \/ EyesDown(r) \/ LoopNext(r)
  PROVE  ReplayedWhole(s)'
<1>1. /\ loop \in [Session -> Loops] /\ stored \in [Session -> Metas] /\ hist \in Hists
      /\ reg \in [Session -> {"active", "incomplete", "pending_annotation"}]
      /\ hist.starts \in [Session -> Nat] /\ hist.from \in [Session -> Nat]
      /\ ReplayedWhole(s)
  BY DEF ReplayInv, CaptureInv, TypeOK, Hists
<1>2. UNCHANGED <<topic, stop, boot>>
  BY DEF StartWatch, Done, EyesDown, LoopNext, TakeEvent, ChannelEnds, Break, Unroute,
     LoopEnds, Begin, FlushIfDue, Upload, Finalise, FlushToCloud, LastFlush
<1>3. hist'.done = hist.done /\ hist'.cut = hist.cut
      /\ hist'.starts[s] \in {hist.starts[s], hist.starts[s] + 1}
  <2>1. CASE StartWatch(r)
    BY <1>1, <2>1 DEF StartWatch, Hists
  <2>2. CASE ~StartWatch(r)
    BY <2>2 DEF Done, EyesDown, LoopNext, TakeEvent, ChannelEnds, Break, Unroute,
       LoopEnds, Begin, FlushIfDue, Upload, Finalise, FlushToCloud, LastFlush
  <2> QED BY <2>1, <2>2
<1> SUFFICES ASSUME hist'.starts[s] <= 1 PROVE ReplayedWhole(s)'
  BY DEF ReplayedWhole
<1>4. hist.starts[s] <= 1
  BY <1>1, <1>3
<1>5. CASE r # s
  <2>1. loop'[s] = loop[s]
    BY <1>1, <1>5 DEF StartWatch, Done, EyesDown, LoopNext, TakeEvent, ChannelEnds, Break,
       Unroute, LoopEnds, Begin, FlushIfDue, Upload, Finalise, FlushToCloud, LastFlush, Flush, Goto
  <2>2. stored'[s] = stored[s] /\ reg'[s] = reg[s]
    BY <1>1, <1>5 DEF StartWatch, Done, EyesDown, LoopNext, TakeEvent, ChannelEnds, Break,
       Unroute, LoopEnds, Begin, FlushIfDue, Upload, Finalise, FlushToCloud, LastFlush, Flush
  <2>3. hist'.from[s] = hist.from[s] /\ hist'.starts[s] = hist.starts[s]
    <3>1. CASE StartWatch(r)
      BY <1>1, <1>5, <3>1 DEF StartWatch, Hists
    <3>2. CASE ~StartWatch(r)
      BY <3>2 DEF Done, EyesDown, LoopNext, TakeEvent, ChannelEnds, Break, Unroute,
         LoopEnds, Begin, FlushIfDue, Upload, Finalise, FlushToCloud, LastFlush
    <3> QED BY <3>1, <3>2
  <2> QED BY <1>1, <1>2, <1>3, <1>4, <2>1, <2>2, <2>3 DEF ReplayedWhole
<1>6. CASE r = s
  <2>1. loop[s].pc # "off" \/ StartWatch(s)
    BY <1>6 DEF Done, EyesDown, LoopNext, TakeEvent, ChannelEnds, Break, Unroute,
       LoopEnds, Begin, FlushIfDue, Upload, Finalise, FlushToCloud, LastFlush
  <2>2. CASE StartWatch(s)
    <3>1. hist'.starts[s] = hist.starts[s] + 1 /\ boot.pc = "serving"
      BY <1>1, <2>2 DEF StartWatch, Hists, Up
    <3>2. hist.starts[s] = 0
      BY <1>1, <1>4, <3>1
    <3>3. hist.done[s] = 0
      BY <1>1, <3>2 DEF ReplayedWhole
    <3> QED BY <1>2, <1>3, <3>1, <3>3 DEF ReplayedWhole
  <2>3. CASE loop[s].pc # "off"
    <3>1. hist.done[s] = 0
      BY <1>1, <1>4, <2>3 DEF ReplayedWhole
    <3>2. boot.pc = "serving"
      BY <2>3 DEF ReplayInv, StartingUp, Up
    <3> QED BY <1>2, <1>3, <3>1, <3>2 DEF ReplayedWhole
  <2> QED BY <2>1, <2>2, <2>3
<1> QED BY <1>5, <1>6

LEMMA WholeOther ==
  ASSUME ReplayInv, NEW s \in Session,
         \/ \E r \in Session, kind \in Kinds : Produce(r, kind)
         \/ Recv \/ AutoCommit \/ Signal \/ SignalNext \/ Crash \/ UNCHANGED vars
  PROVE  ReplayedWhole(s)'
<1>1. /\ topic \in Seq(Events) /\ stored \in [Session -> Metas] /\ hist \in Hists /\ stop \in Stops
      /\ hist.from[s] \in Nat /\ hist.done[s] \in Nat /\ loop \in [Session -> Loops]
      /\ Len(topic) \in Nat /\ stop.sid \in Session \cup {None} /\ ReplayedWhole(s)
  <2>1. /\ topic \in Seq(Events) /\ stored \in [Session -> Metas] /\ hist \in Hists
        /\ stop \in Stops /\ loop \in [Session -> Loops]
    BY DEF ReplayInv, CaptureInv, TypeOK
  <2>2. ReplayedWhole(s)
    BY DEF ReplayInv
  <2>3. hist.from[s] \in Nat /\ hist.done[s] \in Nat
    BY <2>1 DEF Hists
  <2>4. stop.sid \in Session \cup {None}
    BY <2>1 DEF Stops
  <2>5. Len(topic) \in Nat
    BY <2>1
  <2> QED BY <2>1, <2>2, <2>3, <2>4, <2>5
<1>2. ASSUME NEW r \in Session, NEW kind \in Kinds, Produce(r, kind)
      PROVE  ReplayedWhole(s)'
  <2> DEFINE e == [sid |-> r, kind |-> kind]
  <2>1. e \in Events
    BY DEF Events
  <2>2. topic' = Append(topic, e) /\ UNCHANGED <<hist, stop, boot, stored, reg, loop>>
    BY <1>2 DEF Produce
  <2> HIDE DEF e
  <2> SUFFICES ASSUME hist.starts[s] <= 1 PROVE ReplayedWhole(s)'
    BY <2>2 DEF ReplayedWhole
  <2>3. Len(topic') = Len(topic) + 1
    BY <1>1, <2>1, <2>2
  <2>4. hist.done[s] <= Len(topic) /\ (hist.done[s] # 0 => hist.done[s] <= Len(topic'))
    BY <1>1, <2>3 DEF ReplayedWhole
  <2>5. \A m : Holds(topic, s, hist.from[s], hist.done[s], m)
                 => Holds(topic', s, hist.from[s], hist.done[s], m)
    BY <1>1, <2>1, <2>2, <2>4, HoldsGrows
  <2> QED BY <1>1, <2>2, <2>4, <2>5 DEF ReplayedWhole
<1>3. ASSUME UNCHANGED <<topic, hist, stop, boot, stored, reg, loop>>
      PROVE  ReplayedWhole(s)'
  BY <1>1, <1>3 DEF ReplayedWhole
<1>4. CASE Signal
  <2>1. /\ hist'.from = hist.from /\ hist'.starts = hist.starts /\ hist'.done = hist.done
        /\ hist'.cut = hist.cut /\ UNCHANGED <<topic, boot, stored, reg, loop>>
        /\ stop'.todo = {x \in Session : loop[x].pc \notin {"off", "begin"}} /\ stop'.sid = None
    BY <1>1, <1>4 DEF Signal, Hists, NoSignal
  <2> QED BY <1>1, <2>1, NoneIsNoSession DEF ReplayedWhole
<1>5. ASSUME NEW r \in Session, FetchInterrupted(r)
      PROVE  ReplayedWhole(s)'
  <2>1. /\ UNCHANGED <<topic, hist, boot, stored, reg, loop>> /\ r \in stop.todo
        /\ stop'.sid = r /\ stop'.todo = stop.todo \ {r}
    BY <1>1, <1>5 DEF FetchInterrupted, Stops
  <2> QED BY <1>1, <2>1 DEF ReplayedWhole
<1>6. ASSUME NEW ok \in BOOLEAN, StoreInterrupted(ok)
      PROVE  ReplayedWhole(s)'
  <2>1. /\ UNCHANGED <<topic, hist, boot, reg, loop>>
        /\ stop'.sid = None /\ stop'.todo = stop.todo /\ stop.sid # None
    BY <1>1, <1>6 DEF StoreInterrupted, Stops
  <2>2. boot.pc = "serving"
    BY <2>1 DEF ReplayInv, StartingUp, Up
  <2>3. stop.sid # s => stored'[s] = stored[s]
    BY <1>1, <1>6 DEF StoreInterrupted
  <2> QED BY <1>1, <2>1, <2>2, <2>3, NoneIsNoSession DEF ReplayedWhole
<1>7. ASSUME ProcessDies, hist' = [hist EXCEPT !.stops = @ + 1] \/ UNCHANGED hist
      PROVE  ReplayedWhole(s)'
  <2>1. /\ hist'.from = hist.from /\ hist'.starts = hist.starts /\ hist'.done = hist.done
        /\ hist'.cut = hist.cut /\ UNCHANGED <<topic, stored, reg>>
        /\ loop'[s].pc = "off" /\ stop'.todo = {} /\ stop'.sid = None /\ boot'.pc = "sweep"
    BY <1>1, <1>7 DEF ProcessDies, Hists, NoSignal, NoLoop, Boot
  <2> QED BY <1>1, <2>1, NoneIsNoSession DEF ReplayedWhole
<1> QED BY <1>2, <1>3, <1>4, <1>5, <1>6, <1>7
    DEF Recv, AutoCommit, SignalNext, Exit, Crash, vars

LEMMA WholeBoot ==
  ASSUME ReplayInv, BootNext, NEW s \in Session
  PROVE  ReplayedWhole(s)'
<1> DEFINE lo == hist.from[s]
<1>1. /\ topic \in Seq(Events) /\ stored \in [Session -> Metas] /\ hist \in Hists /\ boot \in Boots
      /\ boot.mem \in Metas /\ boot.next \in Nat /\ boot.high \in Nat
      /\ reg \in [Session -> {"active", "incomplete", "pending_annotation"}]
      /\ lo \in Nat /\ hist.done \in [Session -> Nat] /\ ReplayedWhole(s)
      /\ RecordingExact(s) /\ SidKnown /\ StartingUp
  BY DEF ReplayInv, CaptureInv, TypeOK, Hists, Boots
<1>2. ASSUME NEW r \in Session, SweepActive(r)
      PROVE  ReplayedWhole(s)'
  <2>1. UNCHANGED <<topic, hist, stop, stored, loop>> /\ boot'.pc = "sweep"
    BY <1>1, <1>2 DEF SweepActive, Boots
  <2>2. reg'[s] = reg[s] \/ (reg'[s] = "pending_annotation" => stored[s].status = "complete")
    BY <1>1, <1>2 DEF SweepActive
  <2> QED BY <1>1, <2>1, <2>2 DEF ReplayedWhole
<1>3. CASE ReplayEvent \/ \E r \in Session : StartReplay(r)
  <2>1. CASE ReplayEvent
    <3>1. UNCHANGED <<topic, hist, stop, stored, loop, reg>> /\ boot.pc = "replay"
      BY <2>1 DEF ReplayEvent
    <3>2. boot'.pc = "replay"
      BY <1>1, <2>1, <3>1 DEF ReplayEvent, Boots
    <3> QED BY <1>1, <3>1, <3>2 DEF ReplayedWhole
  <2>2. ASSUME NEW r \in Session, StartReplay(r)
        PROVE  ReplayedWhole(s)'
    <3>1. UNCHANGED <<topic, hist, stop, stored, loop, reg>> /\ boot'.pc = "replay"
      BY <2>2 DEF StartReplay
    <3> QED BY <1>1, <3>1 DEF ReplayedWhole
  <2> QED BY <1>3, <2>1, <2>2
<1>4. ASSUME NEW cut \in BOOLEAN, ReplayEnds(cut)
      PROVE  ReplayedWhole(s)'
  <2>1. /\ UNCHANGED <<topic, stop, stored, loop, reg>> /\ boot.pc = "replay"
        /\ hist'.from = hist.from /\ hist'.starts = hist.starts
        /\ boot'.pc = "recover" /\ boot'.sid = boot.sid /\ boot'.mem = boot.mem
    BY <1>1, <1>4 DEF ReplayEnds, Hists, Boots
  <2>2. CASE boot.sid # s
    <3>1. hist'.done[s] = hist.done[s] /\ (s \in hist'.cut <=> s \in hist.cut)
      BY <1>1, <1>4, <2>2 DEF ReplayEnds, Hists
    <3> QED BY <1>1, <2>1, <2>2, <3>1 DEF ReplayedWhole
  <2>3. CASE boot.sid = s
    <3> SUFFICES ASSUME hist.starts[s] <= 1 PROVE ReplayedWhole(s)'
      BY <2>1 DEF ReplayedWhole
    <3>1. hist'.done[s] = boot.high /\ (s \notin hist'.cut => ~cut)
      BY <1>1, <1>4, <2>3 DEF ReplayEnds, Hists
    <3>2. /\ Exact(topic, s, lo, boot.mem) /\ NoGap(topic, s, lo, boot.mem, boot.next)
          /\ boot.high <= Len(topic) /\ hist.starts[s] # 0
      BY <1>1, <2>1, <2>3 DEF RecordingExact, Replaying, Untouched
    <3>3. /\ reg[s] = "active" /\ stored[s].status # "complete"
          /\ loop[s].pc = "off" /\ stop.todo = {} /\ stop.sid = None
      BY <1>1, <2>1, <2>3 DEF StartingUp, Up
    <3>4. ~cut => Holds(topic, s, lo, boot.high, boot.mem)
      <4>1. ~cut => boot.high < boot.next
        BY <1>1, <1>4 DEF ReplayEnds
      <4> QED BY <1>1, <3>2, <4>1, ReplayedToTheEnd
    <3> QED BY <2>1, <3>1, <3>2, <3>3, <3>4, NoneIsNoSession DEF ReplayedWhole
  <2> QED BY <2>2, <2>3
<1>5. ASSUME NEW ok \in BOOLEAN, Recover(ok)
      PROVE  ReplayedWhole(s)'
  <2>1. UNCHANGED <<topic, hist, stop, loop>> /\ boot.pc = "recover"
    BY <1>5 DEF Recover
  <2>2. boot.sid # s => stored'[s] = stored[s] /\ reg'[s] = reg[s]
    BY <1>1, <1>5 DEF Recover
  <2>3. CASE ok
    <3>1. boot'.pc = "settle" /\ boot'.sid = boot.sid /\ reg' = reg
      BY <1>1, <1>5, <2>3 DEF Recover, Boots
    <3>2. boot.sid = s => stored'[s].steps = boot.mem.steps /\ stored'[s].status = "pending_annotation"
      BY <1>1, <1>5, <2>3 DEF Recover, Metas
    <3>3. boot.sid = s => reg[s] = "active"
      BY <1>1, <2>1 DEF StartingUp
    <3>4. boot.sid = s /\ Holds(topic, s, lo, hist.done[s], boot.mem)
            => Holds(topic, s, lo, hist.done[s], stored'[s])
      BY <3>2, HoldsSame
    <3> QED BY <1>1, <2>1, <2>2, <3>1, <3>2, <3>3, <3>4 DEF ReplayedWhole
  <2>4. CASE ~ok
    <3>1. boot'.pc = "sweep" /\ stored' = stored /\ (boot.sid = s => reg'[s] = "incomplete")
      BY <1>1, <1>5, <2>4 DEF Recover, Boot
    <3> QED BY <1>1, <2>1, <2>2, <3>1 DEF ReplayedWhole
  <2> QED BY <2>3, <2>4
<1>6. CASE SettleRecovered
  <2>1. /\ UNCHANGED <<topic, hist, stop, loop, stored>> /\ boot.pc = "settle" /\ boot'.pc = "sweep"
        /\ (boot.sid # s => reg'[s] = reg[s])
    BY <1>1, <1>6 DEF SettleRecovered, Boot
  <2> QED BY <1>1, <2>1 DEF ReplayedWhole
<1>7. CASE Serve
  <2>1. UNCHANGED <<topic, hist, stop, loop, stored, reg>> /\ boot'.pc = "serving"
    BY <1>7 DEF Serve, Serving, Boot
  <2> QED BY <1>1, <2>1 DEF ReplayedWhole
<1> QED BY <1>2, <1>3, <1>4, <1>5, <1>6, <1>7 DEF BootNext

LEMMA ReplayStep == ReplayInv /\ [Next]_vars => ReplayInv'
<1> SUFFICES ASSUME ReplayInv, [Next]_vars PROVE ReplayInv'
  OBVIOUS
<1>1. CaptureInv' /\ StartingUp'
  BY CaptureStep, StartingUpKept DEF ReplayInv
<1>2. ASSUME NEW s \in Session PROVE ReplayedWhole(s)'
  BY WholeLoop, WholeOther, WholeBoot DEF Next
<1> QED BY <1>1, <1>2 DEF ReplayInv

(* A session that was replayed without an error and is offered for           *)
(* annotation has every step before the end of the replay, whatever was      *)
(* stopped, crashed or failed to upload, and however often it was tried.     *)
THEOREM ReplayWhole == Spec => []RecoveredWhole
<1>1. ReplayInv => RecoveredWhole
  <2> SUFFICES ASSUME ReplayInv, NEW s \in Session, StartedOnce(s),
                      reg[s] = "pending_annotation", hist.done[s] # 0, s \notin hist.cut
               PROVE  StepsIn(s, hist.from[s], hist.done[s]) \subseteq Recorded(stored[s])
    BY DEF RecoveredWhole
  <2>1. Holds(topic, s, hist.from[s], hist.done[s], stored[s])
    BY DEF ReplayInv, ReplayedWhole, StartedOnce
  <2> QED BY <2>1 DEF Holds, StepsIn, IsStep
<1>2. Spec => []ReplayInv
  BY InitReplay, ReplayStep, PTL DEF Spec
<1> QED BY <1>1, <1>2, PTL
-----------------------------------------------------------------------------
(* Two exact recordings that agree still do after one of them took its next *)
(* step: had the other one more steps, its next one is the same event,      *)
(* since no step lies before it that the first has not.                     *)
LEMMA AgreeAppend ==
  ASSUME NEW t \in Seq(Events), NEW s, NEW lo \in Nat, NEW m \in Metas, NEW n \in Metas,
         NEW o \in Nat, NEW k, Exact(t, s, lo, m), Exact(t, s, lo, n), NoGap(t, s, lo, m, o),
         StepAt(t, s, o), Agree(m.steps, n.steps),
         k = Append(m.steps, Step(Len(m.steps) + 1, o))
  PROVE  Agree(k, n.steps)
<1> DEFINE L == Len(m.steps)
           st == Step(L + 1, o)
<1>1. /\ m.offset \in Nat /\ n.offset \in Nat /\ L \in Nat /\ lo <= o /\ m.offset < o
      /\ m.steps \in Seq(Steps) /\ n.steps \in Seq(Steps)
  BY DEF NoGap, Metas
<1>2. DOMAIN m.steps = 1 .. L /\ DOMAIN n.steps = 1 .. Len(n.steps) /\ Len(n.steps) \in Nat
  BY <1>1
<1>3. st \in Steps /\ st.id = L + 1 /\ st.off = o
  BY <1>1 DEF Step, Steps
<1>4. /\ DOMAIN k = 1 .. L + 1 /\ k[L + 1] = st
      /\ \A i \in 1 .. L : k[i] = m.steps[i]
  <2> HIDE DEF st
  <2>1. k = Append(m.steps, st)
    BY DEF st
  <2> QED BY <1>1, <1>2, <1>3, <2>1
<1> HIDE DEF L
<1>5. ASSUME L + 1 \in DOMAIN n.steps PROVE n.steps[L + 1] = st
  <2> DEFINE p == n.steps[L + 1].off
  <2>1. \A j \in 1 .. L : j \in DOMAIN n.steps /\ n.steps[j] = m.steps[j] /\ j < L + 1
    <3>1. \A j \in 1 .. L : j \in DOMAIN n.steps /\ j < L + 1
      BY <1>1, <1>2, <1>5
    <3> QED BY <1>2, <3>1 DEF Agree
  <2>2. \A i \in DOMAIN n.steps : n.steps[i] \in Steps /\ n.steps[i].off \in Nat
    <3>1. \A i \in DOMAIN n.steps : n.steps[i] \in Steps
      BY <1>1, <1>2
    <3> QED BY <3>1 DEF Steps
  <2>3. p \in Recorded(n)
    BY <1>5 DEF Recorded
  <2>4. p \in lo .. n.offset /\ StepAt(t, s, p) /\ p \in Nat
    BY <1>5, <2>2, <2>3 DEF Exact
  <2>5. \A i, j \in DOMAIN n.steps : i < j => n.steps[i].off < n.steps[j].off
    BY DEF Exact, Numbered
  <2> HIDE DEF p
  <2>6. ASSUME p <= m.offset PROVE FALSE
    <3>1. p \in lo .. m.offset
      BY <1>1, <2>4, <2>6
    <3>2. p \in Recorded(m)
      BY <2>4, <3>1 DEF Exact
    <3>3. PICK j \in DOMAIN m.steps : m.steps[j].off = p
      BY <3>2 DEF Recorded
    <3>4. j \in DOMAIN n.steps /\ n.steps[j].off = p /\ j < L + 1
      BY <1>2, <2>1, <3>3
    <3>5. n.steps[j].off < n.steps[L + 1].off
      BY <1>5, <2>5, <3>4
    <3> QED BY <2>4, <3>4, <3>5 DEF p
  <2>7. o <= p
    <3>1. p \in DOMAIN t /\ lo <= p /\ m.offset < p
      BY <1>1, <2>4, <2>6 DEF StepAt
    <3> QED BY <2>4, <3>1 DEF NoGap
  <2>8. o \in lo .. n.offset
    BY <1>1, <2>4, <2>7
  <2>9. o \in Recorded(n)
    BY <2>8 DEF Exact
  <2>10. PICK j \in DOMAIN n.steps : n.steps[j].off = o
    BY <2>9 DEF Recorded
  <2>11. ~(L + 1 < j)
    <3> SUFFICES ASSUME L + 1 < j PROVE FALSE
      OBVIOUS
    <3>1. p < o
      BY <1>5, <2>5, <2>10 DEF p
    <3> QED BY <2>4, <2>7, <3>1
  <2>12. ~(j \in 1 .. L)
    <3> SUFFICES ASSUME j \in 1 .. L PROVE FALSE
      OBVIOUS
    <3>1. m.steps[j].off = o /\ m.steps[j].off <= m.offset
      BY <1>2, <2>1, <2>10, ExactBound
    <3> QED BY <1>1, <3>1
  <2>13. j = L + 1
    BY <1>1, <1>2, <2>11, <2>12
  <2>14. n.steps[L + 1].id = L + 1 /\ n.steps[L + 1].off = o /\ n.steps[L + 1] \in Steps
    BY <1>5, <2>2, <2>10, <2>13 DEF Exact, Numbered
  <2> QED BY <1>3, <2>14 DEF Steps
<1>6. \A i \in 1 .. L : i \in DOMAIN n.steps => k[i] = n.steps[i]
  BY <1>2, <1>4 DEF Agree
<1>7. \A i \in 1 .. L + 1 : i \in 1 .. L \/ i = L + 1
  BY <1>1
<1> QED BY <1>4, <1>5, <1>6, <1>7 DEF Agree

LEMMA AgreeRules ==
  ASSUME NEW a, NEW b
  PROVE  /\ Agree(a, a) /\ (Agree(a, b) => Agree(b, a))
         /\ a = <<>> => Agree(a, b) /\ Agree(b, a)
BY DEF Agree

LEMMA UpToTyped ==
  ASSUME NEW steps \in Seq(Steps), NEW o \in Nat
  PROVE  UpTo(steps, o) \in Metas /\ UpTo(steps, o).steps = steps /\ UpTo(steps, o).offset = o
BY FreshTyped DEF UpTo, Fresh, Metas

(* What a copy of a recording that is uploaded looks like.                  *)
LEMMA UpToExact ==
  ASSUME NEW t \in Seq(Events), NEW s, NEW lo \in Nat, NEW m \in Metas, Exact(t, s, lo, m)
  PROVE  \E o \in 0 .. Len(t) : Exact(t, s, lo, UpTo(m.steps, o))
<1>1. m.offset \in 0 .. Len(t) /\ m.steps \in Seq(Steps) /\ m.offset \in Nat
  <2>1. m.offset \in Nat /\ Len(t) \in Nat /\ m.steps \in Seq(Steps)
    BY DEF Metas
  <2>2. m.offset <= Len(t)
    BY ExactBound
  <2> QED BY <2>1, <2>2
<1>2. Exact(t, s, lo, UpTo(m.steps, m.offset))
  BY <1>1, UpToTyped, ExactSame
<1> QED BY <1>1, <1>2
(* The copies that are there stay as they are.                              *)
LEMMA FilesFrame ==
  ASSUME NEW s \in Session, SameSteps(s), topic' = topic,
         hist'.from[s] = hist.from[s], hist'.starts[s] = hist.starts[s],
         cmds'[s] = cmds[s], stored'[s].steps = stored[s].steps,
         loop'[s].pc # "off" => loop[s].pc # "off" /\ loop'[s].mem.steps = loop[s].mem.steps,
         stop'.sid = s => stop.sid = s /\ stop'.mem.steps = stop.mem.steps,
         boot'.pc \in {"replay", "recover"} /\ boot'.sid = s
           => /\ boot.pc \in {"replay", "recover"} /\ boot.sid = s
              /\ boot'.mem.steps = boot.mem.steps
  PROVE  SameSteps(s)'
<1> SUFFICES ASSUME hist.starts[s] <= 1 PROVE SameSteps(s)'
  BY DEF SameSteps
<1>1. PICK o \in 0 .. Len(topic) : Exact(topic, s, hist.from[s], UpTo(cmds[s], o))
  BY DEF SameSteps
<1>2. \E x \in 0 .. Len(topic') : Exact(topic', s, hist'.from[s], UpTo(cmds'[s], x))
  BY <1>1
<1> QED BY <1>2 DEF SameSteps

(* A step of a loop stores or uploads no steps but its own.                 *)
LEMMA FilesLoopStep ==
  ASSUME ReplayInv, NEW s \in Session, SameSteps(s), loop[s].pc # "off",
         UNCHANGED <<topic, hist, stop, boot>>,
         loop'[s].pc # "off" => loop'[s].mem.steps = loop[s].mem.steps,
         stored'[s].steps \in {stored[s].steps, loop[s].mem.steps},
         hist.starts[s] <= 1 => cmds'[s] \in {cmds[s], loop[s].mem.steps}
  PROVE  SameSteps(s)'
<1>1. /\ topic \in Seq(Events) /\ loop \in [Session -> Loops] /\ hist.from[s] \in Nat
      /\ boot.pc = "serving" /\ RecordingExact(s)
  BY DEF ReplayInv, CaptureInv, TypeOK, Hists, StartingUp, Up
<1>2. loop[s].mem \in Metas
  BY <1>1 DEF Loops
<1> SUFFICES ASSUME hist.starts[s] <= 1 PROVE SameSteps(s)'
  BY DEF SameSteps
<1>3. hist.starts[s] # 0 /\ Exact(topic, s, hist.from[s], loop[s].mem)
  BY <1>1 DEF RecordingExact, Untouched, Listening
<1>4. /\ Agree(stored[s].steps, cmds[s])
      /\ Agree(loop[s].mem.steps, cmds[s]) /\ Agree(loop[s].mem.steps, stored[s].steps)
      /\ stop.sid = s => Agree(stop.mem.steps, cmds[s]) /\ Agree(stop.mem.steps, loop[s].mem.steps)
  BY DEF SameSteps
<1>5. \E o \in 0 .. Len(topic) : Exact(topic, s, hist.from[s], UpTo(cmds'[s], o))
  <2>1. CASE cmds'[s] = cmds[s]
    BY <2>1 DEF SameSteps
  <2>2. CASE cmds'[s] = loop[s].mem.steps
    BY <1>1, <1>2, <1>3, <2>2, UpToExact
  <2> QED BY <2>1, <2>2
<1>6. Agree(stored'[s].steps, cmds'[s]) /\ Agree(loop[s].mem.steps, cmds'[s])
      /\ Agree(loop[s].mem.steps, stored'[s].steps)
  BY <1>4, AgreeRules
<1>7. stop.sid = s => Agree(stop.mem.steps, cmds'[s])
  BY <1>4
<1> QED BY <1>1, <1>3, <1>4, <1>5, <1>6, <1>7 DEF SameSteps

LEMMA FlushSteps ==
  ASSUME loop \in [Session -> Loops], stored \in [Session -> Metas], NEW s \in Session,
         NEW mem, NEW pc, NEW ok \in BOOLEAN, Flush(s, mem, pc, ok),
         mem.steps = loop[s].mem.steps
  PROVE  /\ loop'[s].mem.steps = loop[s].mem.steps
         /\ stored'[s].steps \in {stored[s].steps, loop[s].mem.steps}
<1>1. loop'[s].mem = mem
  BY DEF Flush, Loops
<1>2. stored'[s] \in {stored[s], mem}
  BY DEF Flush
<1> QED BY <1>1, <1>2

LEMMA FilesLoop ==
  ASSUME ReplayInv, NEW s \in Session, SameSteps(s), NEW r \in Session, NEW ok \in BOOLEAN,
         \/ Begin(r, ok) \/ FlushIfDue(r, ok) \/ Upload(r, ok) \/ Finalise(r, ok)
         \/ LastFlush(r, ok) \/ Done(r) \/ EyesDown(r) \/ ChannelEnds(r) \/ Unroute(r)
         \/ LoopEnds(r)
  PROVE  SameSteps(s)'
<1>1. /\ loop \in [Session -> Loops] /\ stored \in [Session -> Metas]
      /\ cmds \in [Session -> Seq(Steps)] /\ RecordingExact(s)
  BY DEF ReplayInv, CaptureInv, TypeOK
<1>2. UNCHANGED <<topic, hist, stop, boot>> /\ loop[r].pc # "off"
  BY DEF Done, EyesDown, ChannelEnds, Break, Unroute,
     LoopEnds, Begin, FlushIfDue, Upload, Finalise, FlushToCloud, LastFlush
<1>3. CASE r # s
  <2>1. loop'[s] = loop[s]
    BY <1>1, <1>3 DEF Done, EyesDown, ChannelEnds, Break,
       Unroute, LoopEnds, Begin, FlushIfDue, Upload, Finalise, FlushToCloud, LastFlush, Flush, Goto
  <2>2. stored'[s] = stored[s] /\ cmds'[s] = cmds[s]
    BY <1>1, <1>3 DEF Done, EyesDown, ChannelEnds, Break,
       Unroute, LoopEnds, Begin, FlushIfDue, Upload, Finalise, FlushToCloud, LastFlush, Flush
  <2> QED BY <1>2, <2>1, <2>2, FilesFrame
<1>4. CASE r = s
  <2>1. loop[s] \in Loops /\ loop[s].mem \in Metas
    BY <1>1 DEF Loops
  <2>5. ASSUME Begin(s, ok) \/ LastFlush(s, ok)
        PROVE  /\ loop'[s].mem.steps = loop[s].mem.steps
               /\ stored'[s].steps \in {stored[s].steps, loop[s].mem.steps}
    <3>1. CASE Begin(s, ok)
      <4>1. Flush(s, [loop[s].mem EXCEPT !.prog = "capturing"], "run", ok)
        BY <3>1 DEF Begin
      <4>2. [loop[s].mem EXCEPT !.prog = "capturing"].steps = loop[s].mem.steps
        BY <2>1 DEF Metas
      <4> QED BY <1>1, <4>1, <4>2, FlushSteps
    <3>2. CASE LastFlush(s, ok)
      <4>1. PICK st, pg : Flush(s, [loop[s].mem EXCEPT !.status = st, !.prog = pg], "status", ok)
        BY <3>2 DEF LastFlush
      <4>2. [loop[s].mem EXCEPT !.status = st, !.prog = pg].steps = loop[s].mem.steps
        BY <2>1 DEF Metas
      <4> QED BY <1>1, <4>1, <4>2, FlushSteps
    <3> QED BY <2>5, <3>1, <3>2
  <2>2. loop'[s].pc # "off" => loop'[s].mem.steps = loop[s].mem.steps
    <3>1. CASE Begin(s, ok) \/ LastFlush(s, ok)
      BY <2>5, <3>1
    <3>2. CASE LoopEnds(s)
      BY <1>1, <3>2 DEF LoopEnds, NoLoop
    <3>3. CASE ~(Begin(s, ok) \/ LastFlush(s, ok) \/ LoopEnds(s))
      BY <1>1, <1>4, <2>1, <3>3 DEF Done, EyesDown, ChannelEnds, Break,
         Unroute, FlushIfDue, Upload, Finalise, FlushToCloud, Goto, Loops
    <3> QED BY <3>1, <3>2, <3>3
  <2>3. stored'[s].steps \in {stored[s].steps, loop[s].mem.steps}
    <3>1. CASE Begin(s, ok) \/ LastFlush(s, ok)
      BY <2>5, <3>1
    <3>2. CASE FlushIfDue(s, ok)
      BY <1>1, <3>2 DEF FlushIfDue
    <3>3. CASE ~(Begin(s, ok) \/ LastFlush(s, ok) \/ FlushIfDue(s, ok))
      BY <1>4, <3>3 DEF Done, EyesDown, ChannelEnds, Break,
         Unroute, LoopEnds, Upload, Finalise, FlushToCloud
    <3> QED BY <3>1, <3>2, <3>3
  <2>4. ASSUME hist.starts[s] <= 1
        PROVE  cmds'[s] \in {cmds[s], loop[s].mem.steps}
    <3>1. loop[s].buf = loop[s].mem.steps
      BY <1>1, <1>2, <1>4, <2>4 DEF RecordingExact, Listening
    <3>2. CASE Upload(s, ok) \/ Finalise(s, ok)
      BY <1>1, <3>1, <3>2 DEF Upload, Finalise, FlushToCloud
    <3>3. CASE ~(Upload(s, ok) \/ Finalise(s, ok))
      BY <1>4, <3>3 DEF Done, EyesDown, ChannelEnds, Break,
         Unroute, LoopEnds, Begin, FlushIfDue, LastFlush
    <3> QED BY <3>2, <3>3
  <2> QED BY <1>2, <1>4, <2>2, <2>3, <2>4, FilesLoopStep
<1> QED BY <1>3, <1>4

LEMMA FilesStart ==
  ASSUME ReplayInv, NEW s \in Session, SameSteps(s), NEW r \in Session, StartWatch(r)
  PROVE  SameSteps(s)'
<1>1. /\ loop \in [Session -> Loops] /\ stored \in [Session -> Metas] /\ topic \in Seq(Events)
      /\ hist \in Hists /\ hist.starts \in [Session -> Nat] /\ hist.from \in [Session -> Nat]
      /\ consumer.next \in Nat /\ RecordingExact(s)
  BY DEF ReplayInv, CaptureInv, TypeOK, Hists, Consumers
<1>2. UNCHANGED <<topic, stop, boot, stored, cmds>>
  BY DEF StartWatch
<1>3. CASE r # s
  <2>1. loop'[s] = loop[s] /\ hist'.from[s] = hist.from[s] /\ hist'.starts[s] = hist.starts[s]
    BY <1>1, <1>3 DEF StartWatch, Hists
  <2> QED BY <1>2, <2>1, FilesFrame
<1>4. CASE r = s
  <2>1. /\ hist'.starts[s] = hist.starts[s] + 1 /\ hist'.from[s] \in Nat
        /\ loop'[s].mem = stored[s] /\ boot.pc = "serving"
    BY <1>1, <1>4 DEF StartWatch, Hists, Up, NoLoop
  <2> SUFFICES ASSUME hist'.starts[s] <= 1 PROVE SameSteps(s)'
    BY DEF SameSteps
  <2>2. hist.starts[s] = 0
    BY <1>1, <2>1
  <2>3. cmds[s] = <<>> /\ stored[s] = Fresh /\ stop.sid # s /\ Fresh.steps = <<>>
    BY <1>1, <2>2 DEF SameSteps, RecordingExact, Untouched, Fresh
  <2>4. \E o \in 0 .. Len(topic) : Exact(topic, s, hist'.from[s], UpTo(<<>>, o))
    <3>1. Exact(topic, s, hist'.from[s], Fresh)
      BY <1>1, <2>1, ExactFresh
    <3> QED BY <1>1, <2>1, <2>3, <3>1, FreshTyped, UpToExact
  <2>5. Agree(<<>>, <<>>)
    BY AgreeRules
  <2> QED BY <1>1, <1>2, <2>1, <2>2, <2>3, <2>4, <2>5 DEF SameSteps
<1> QED BY <1>3, <1>4
LEMMA FilesTake ==
  ASSUME ReplayInv, NEW s \in Session, SameSteps(s), NEW r \in Session, TakeEvent(r)
  PROVE  SameSteps(s)'
<1> DEFINE o == Head(chan[s])
           m == loop[s].mem
           st == Step(Len(m.steps) + 1, o)
           lo == hist.from[s]
<1>1. /\ topic \in Seq(Events) /\ loop \in [Session -> Loops] /\ chan \in [Session -> Seq(Nat)]
      /\ stored \in [Session -> Metas] /\ cmds \in [Session -> Seq(Steps)] /\ lo \in Nat
      /\ stop \in Stops /\ consumer.next \in Nat /\ consumer.next <= Len(topic) + 1
      /\ RecordingExact(s)
  BY DEF ReplayInv, CaptureInv, TypeOK, Hists, Consumers, Positions
<1>2. UNCHANGED <<topic, hist, stop, boot, stored, cmds>> /\ loop[r].pc # "off"
  BY DEF TakeEvent
<1>3. CASE loop'[s] = loop[s]
  BY <1>2, <1>3, FilesFrame
<1>4. ASSUME r = s, topic[o].kind # "position"
      PROVE  SameSteps(s)'
  <2> SUFFICES ASSUME hist.starts[s] <= 1 PROVE SameSteps(s)'
    BY <1>2 DEF SameSteps
  <2>1. loop[s] \in Loops /\ m \in Metas /\ stop.mem \in Metas /\ stored[s] \in Metas
    BY <1>1 DEF Loops, Stops
  <2>2. /\ Exact(topic, s, lo, m) /\ Exact(topic, s, lo, stored[s])
        /\ loop[s].buf = m.steps /\ chan[s] # <<>>
        /\ Queue(topic, s, lo, m, chan[s], consumer.next, s \in route)
        /\ stop.sid = s => Exact(topic, s, lo, stop.mem)
    BY <1>1, <1>2, <1>4 DEF RecordingExact, Listening, Putting, TakeEvent
  <2>3. o \in Nat /\ NoGap(topic, s, lo, m, o) /\ StepAt(topic, s, o)
    BY <1>1, <1>4, <2>1, <2>2, QueueHead
  <2>4. st \in Steps /\ st.off = o
    BY <2>1, <2>3 DEF Step, Steps, Metas
  <2>5. loop'[s].mem.steps = Append(m.steps, st) /\ loop'[s].pc = "flush"
    <3>1. loop' = [loop EXCEPT ![s].pc = "flush", ![s].buf = Append(@, st), ![s].mem = Keep(@, st)]
      BY <1>4, <2>2 DEF TakeEvent
    <3>2. Keep(m, st).steps = Append(m.steps, st)
      BY <2>1, <2>4, KeepTyped
    <3> HIDE DEF st
    <3>3. loop'[s].mem = Keep(m, st) /\ loop'[s].pc = "flush"
      BY <1>1, <2>1, <3>1 DEF Loops
    <3> QED BY <3>2, <3>3
  <2>6. PICK x \in 0 .. Len(topic) : Exact(topic, s, lo, UpTo(cmds[s], x))
    BY DEF SameSteps
  <2>7. Agree(m.steps, cmds[s]) /\ Agree(m.steps, stored[s].steps)
        /\ (stop.sid = s => Agree(m.steps, stop.mem.steps))
    BY <1>2, <1>4, AgreeRules DEF SameSteps
  <2>8. Agree(loop'[s].mem.steps, cmds[s])
    <3>1. UpTo(cmds[s], x) \in Metas /\ UpTo(cmds[s], x).steps = cmds[s]
      BY <1>1, UpToTyped
    <3> QED BY <1>1, <2>1, <2>2, <2>3, <2>5, <2>6, <2>7, <3>1, AgreeAppend
  <2>9. Agree(loop'[s].mem.steps, stored[s].steps)
    BY <1>1, <2>1, <2>2, <2>3, <2>5, <2>7, AgreeAppend
  <2>10. stop.sid = s => Agree(stop.mem.steps, loop'[s].mem.steps)
    <3>1. stop.sid = s => Agree(loop'[s].mem.steps, stop.mem.steps)
      BY <1>1, <2>1, <2>2, <2>3, <2>5, <2>7, AgreeAppend
    <3> QED BY <3>1, AgreeRules
  <2>11. boot.pc = "serving" /\ hist.starts[s] # 0
    BY <1>1, <1>2, <1>4 DEF ReplayInv, StartingUp, Up, RecordingExact, Untouched
  <2>12. \E y \in 0 .. Len(topic') : Exact(topic', s, hist'.from[s], UpTo(cmds'[s], y))
    BY <1>2, <2>6
  <2> QED BY <1>2, <2>8, <2>9, <2>10, <2>11, <2>12 DEF SameSteps
<1>5. loop'[s] = loop[s] \/ (r = s /\ topic[o].kind # "position")
  BY <1>1 DEF TakeEvent
<1> QED BY <1>3, <1>4, <1>5

LEMMA FilesOther ==
  ASSUME ReplayInv, NEW s \in Session, SameSteps(s),
         \/ \E r \in Session, kind \in Kinds : Produce(r, kind)
         \/ Recv \/ AutoCommit \/ Signal \/ SignalNext \/ Crash \/ UNCHANGED vars
  PROVE  SameSteps(s)'
<1>1. /\ topic \in Seq(Events) /\ loop \in [Session -> Loops] /\ hist \in Hists /\ stop \in Stops
      /\ stored \in [Session -> Metas] /\ cmds \in [Session -> Seq(Steps)]
  BY DEF ReplayInv, CaptureInv, TypeOK
<1>2. ASSUME NEW r \in Session, NEW kind \in Kinds, Produce(r, kind)
      PROVE  SameSteps(s)'
  <2> DEFINE e == [sid |-> r, kind |-> kind]
  <2>1. e \in Events
    BY DEF Events
  <2>2. topic' = Append(topic, e) /\ UNCHANGED <<hist, stop, boot, stored, cmds, loop>>
    BY <1>2 DEF Produce
  <2> HIDE DEF e
  <2> SUFFICES ASSUME hist.starts[s] <= 1 PROVE SameSteps(s)'
    BY <2>2 DEF SameSteps
  <2>3. PICK o \in 0 .. Len(topic) : Exact(topic, s, hist.from[s], UpTo(cmds[s], o))
    BY DEF SameSteps
  <2>4. o \in 0 .. Len(topic') /\ o \in Nat
    <3>1. Len(topic') = Len(topic) + 1 /\ Len(topic) \in Nat
      BY <1>1, <2>1, <2>2
    <3> QED BY <3>1
  <2>5. Exact(topic', s, hist.from[s], UpTo(cmds[s], o))
    <3>1. UpTo(cmds[s], o) \in Metas /\ hist.from[s] \in Nat
      BY <1>1, <2>4, UpToTyped DEF Hists
    <3> QED BY <1>1, <2>1, <2>2, <2>3, <3>1, ExactGrows
  <2> QED BY <2>2, <2>4, <2>5 DEF SameSteps
<1>3. ASSUME UNCHANGED <<topic, hist, stop, boot, stored, cmds, loop>>
      PROVE  SameSteps(s)'
  BY <1>3, FilesFrame
<1>4. CASE Signal
  <2>1. /\ hist'.from = hist.from /\ hist'.starts = hist.starts
        /\ UNCHANGED <<topic, boot, stored, cmds, loop>> /\ stop'.sid = None
    BY <1>1, <1>4 DEF Signal, Hists, NoSignal
  <2> QED BY <2>1, NoneIsNoSession, FilesFrame
<1>5. ASSUME NEW r \in Session, FetchInterrupted(r)
      PROVE  SameSteps(s)'
  <2>1. /\ UNCHANGED <<topic, hist, boot, stored, cmds, loop>> /\ stop'.sid = r
        /\ stop'.mem.steps = stored[r].steps
    <3>1. stop' = [stop EXCEPT !.sid = r, !.todo = @ \ {r},
                               !.mem = [stored[r] EXCEPT !.prog = "interrupted"]]
      BY <1>5 DEF FetchInterrupted
    <3>2. stop'.sid = r /\ stop'.mem = [stored[r] EXCEPT !.prog = "interrupted"]
      BY <1>1, <3>1 DEF Stops
    <3>3. [stored[r] EXCEPT !.prog = "interrupted"].steps = stored[r].steps
      BY <1>1 DEF Metas
    <3> QED BY <1>5, <3>2, <3>3 DEF FetchInterrupted
  <2>2. CASE r # s
    BY <2>1, <2>2, FilesFrame
  <2>3. CASE r = s
    BY <2>1, <2>3, AgreeRules DEF SameSteps
  <2> QED BY <2>2, <2>3
<1>6. ASSUME NEW ok \in BOOLEAN, StoreInterrupted(ok)
      PROVE  SameSteps(s)'
  <2>1. UNCHANGED <<topic, hist, boot, cmds, loop>> /\ stop'.sid = None /\ boot.pc = "serving"
    BY <1>1, <1>6 DEF StoreInterrupted, Stops, ReplayInv, StartingUp, Up
  <2>2. stored'[s] = stored[s] \/ (stop.sid = s /\ stored'[s] = stop.mem)
    BY <1>1, <1>6 DEF StoreInterrupted
  <2>3. CASE stored'[s] = stored[s]
    BY <2>1, <2>3, NoneIsNoSession, FilesFrame
  <2>4. CASE stop.sid = s /\ stored'[s] = stop.mem
    BY <2>1, <2>4, NoneIsNoSession, AgreeRules DEF SameSteps
  <2> QED BY <2>2, <2>3, <2>4
<1>7. ASSUME ProcessDies, hist' = [hist EXCEPT !.stops = @ + 1] \/ UNCHANGED hist
      PROVE  SameSteps(s)'
  <2>1. /\ hist'.from = hist.from /\ hist'.starts = hist.starts
        /\ UNCHANGED <<topic, stored, cmds>>
        /\ loop'[s].pc = "off" /\ stop'.sid = None /\ boot'.pc = "sweep"
    BY <1>1, <1>7 DEF ProcessDies, Hists, NoSignal, NoLoop, Boot
  <2> QED BY <2>1, NoneIsNoSession, FilesFrame
<1> QED BY <1>2, <1>3, <1>4, <1>5, <1>6, <1>7
    DEF Recv, AutoCommit, SignalNext, Exit, Crash, vars
LEMMA FilesBoot ==
  ASSUME ReplayInv, NEW s \in Session, SameSteps(s), BootNext
  PROVE  SameSteps(s)'
<1> DEFINE lo == hist.from[s]
           m == boot.mem
           o == boot.next
<1>1. /\ topic \in Seq(Events) /\ loop \in [Session -> Loops] /\ hist \in Hists /\ boot \in Boots
      /\ stored \in [Session -> Metas] /\ cmds \in [Session -> Seq(Steps)] /\ lo \in Nat
      /\ m \in Metas /\ o \in Nat /\ RecordingExact(s) /\ SidKnown
  BY DEF ReplayInv, CaptureInv, TypeOK, Hists, Boots
<1>2. ASSUME NEW r \in Session, SweepActive(r)
      PROVE  SameSteps(s)'
  <2>1. UNCHANGED <<topic, hist, stop, stored, cmds, loop>> /\ boot'.pc = "sweep"
    BY <1>1, <1>2 DEF SweepActive, Boots
  <2> QED BY <2>1, FilesFrame
<1>3. ASSUME NEW r \in Session, StartReplay(r)
      PROVE  SameSteps(s)'
  <2>1. /\ UNCHANGED <<topic, hist, stop, stored, cmds, loop>>
        /\ boot'.sid = r /\ boot'.mem = stored[r]
    BY <1>3 DEF StartReplay
  <2>2. CASE r # s
    BY <2>1, <2>2, FilesFrame
  <2>3. CASE r = s
    BY <2>1, <2>3 DEF SameSteps
  <2> QED BY <2>2, <2>3
<1>4. CASE ReplayEvent
  <2>1. /\ UNCHANGED <<topic, hist, stop, stored, cmds, loop>> /\ boot.pc = "replay"
    BY <1>4 DEF ReplayEvent
  <2>2. /\ boot'.sid = boot.sid
        /\ boot'.mem = IF IsStep(boot.sid, o) THEN Keep(m, Step(Len(m.steps) + 1, o)) ELSE m
    BY <1>1, <1>4 DEF ReplayEvent, Boots
  <2>3. CASE boot.sid # s
    BY <2>1, <2>2, <2>3, FilesFrame
  <2>4. CASE boot.sid = s /\ ~IsStep(s, o)
    BY <2>1, <2>2, <2>4, FilesFrame
  <2>5. CASE boot.sid = s /\ IsStep(s, o)
    <3> DEFINE st == Step(Len(m.steps) + 1, o)
    <3> SUFFICES ASSUME hist.starts[s] <= 1 PROVE SameSteps(s)'
      BY <2>1 DEF SameSteps
    <3>1. Exact(topic, s, lo, m) /\ NoGap(topic, s, lo, m, o) /\ StepAt(topic, s, o)
      BY <1>1, <2>1, <2>5 DEF RecordingExact, Replaying, IsStep
    <3>2. st \in Steps
      BY <1>1 DEF Step, Steps, Metas
    <3>3. boot'.mem.steps = Append(m.steps, st)
      BY <1>1, <2>2, <2>5, <3>2, KeepTyped
    <3>4. PICK x \in 0 .. Len(topic) : Exact(topic, s, lo, UpTo(cmds[s], x))
      BY DEF SameSteps
    <3>5. UpTo(cmds[s], x) \in Metas /\ UpTo(cmds[s], x).steps = cmds[s]
      BY <1>1, UpToTyped
    <3>6. Agree(m.steps, cmds[s])
      BY <2>1, <2>5 DEF SameSteps
    <3>7. Agree(boot'.mem.steps, cmds[s])
      BY <1>1, <3>1, <3>3, <3>4, <3>5, <3>6, AgreeAppend
    <3> QED BY <2>1, <3>7 DEF SameSteps
  <2> QED BY <2>3, <2>4, <2>5
<1>5. ASSUME NEW cut \in BOOLEAN, ReplayEnds(cut)
      PROVE  SameSteps(s)'
  <2>1. /\ UNCHANGED <<topic, stop, stored, cmds, loop>> /\ boot.pc = "replay"
        /\ hist'.from = hist.from /\ hist'.starts = hist.starts
        /\ boot'.sid = boot.sid /\ boot'.mem = boot.mem
    BY <1>1, <1>5 DEF ReplayEnds, Hists, Boots
  <2> QED BY <2>1, FilesFrame
<1>6. ASSUME NEW ok \in BOOLEAN, Recover(ok)
      PROVE  SameSteps(s)'
  <2>1. /\ UNCHANGED <<topic, hist, stop, cmds, loop>> /\ boot.pc = "recover"
        /\ boot'.pc \in {"settle", "sweep"}
    BY <1>1, <1>6 DEF Recover, Boots, Boot
  <2>2. stored'[s].steps = stored[s].steps \/ (boot.sid = s /\ stored'[s].steps = m.steps)
    BY <1>1, <1>6 DEF Recover, Metas
  <2>3. CASE stored'[s].steps = stored[s].steps
    BY <2>1, <2>3, FilesFrame
  <2>4. CASE boot.sid = s /\ stored'[s].steps = m.steps
    <3>1. loop[s].pc = "off" /\ stop.sid = None
      BY <2>1 DEF ReplayInv, StartingUp, Up
    <3> QED BY <2>1, <2>4, <3>1, NoneIsNoSession DEF SameSteps
  <2> QED BY <2>2, <2>3, <2>4
<1>7. CASE SettleRecovered \/ Serve
  <2>1. UNCHANGED <<topic, hist, stop, stored, cmds, loop>> /\ boot'.pc \in {"sweep", "serving"}
    BY <1>7 DEF SettleRecovered, Serve, Serving, Boot
  <2> QED BY <2>1, FilesFrame
<1> QED BY <1>2, <1>3, <1>4, <1>5, <1>6, <1>7 DEF BootNext

LEMMA InitFiles == Init => FilesInv
<1> SUFFICES ASSUME Init, NEW s \in Session PROVE SameSteps(s)
  BY InitReplay DEF FilesInv
<1>1. /\ topic = <<>> /\ topic \in Seq(Events) /\ cmds[s] = <<>> /\ stored[s] = Fresh
      /\ hist.from[s] = 0 /\ loop[s].pc = "off" /\ stop.sid = None /\ boot.pc = "serving"
  BY DEF Init, NoLoop, NoSignal, Serving, Boot
<1>2. Fresh.steps = <<>> /\ Fresh \in Metas
  BY FreshTyped DEF Fresh
<1>3. \E o \in 0 .. Len(topic) : Exact(topic, s, hist.from[s], UpTo(cmds[s], o))
  <2>1. hist.from[s] \in Nat
    BY <1>1
  <2>2. Exact(topic, s, hist.from[s], Fresh)
    BY <1>1, <2>1, ExactFresh
  <2>3. \E o \in 0 .. Len(topic) : Exact(topic, s, hist.from[s], UpTo(Fresh.steps, o))
    BY <1>1, <1>2, <2>1, <2>2, UpToExact
  <2> QED BY <1>1, <1>2, <2>3
<1> QED BY <1>1, <1>2, <1>3, AgreeRules, NoneIsNoSession DEF SameSteps

LEMMA FilesStep == FilesInv /\ [Next]_vars => FilesInv'
<1> SUFFICES ASSUME FilesInv, [Next]_vars PROVE FilesInv'
  OBVIOUS
<1>1. ReplayInv /\ ReplayInv'
  BY ReplayStep DEF FilesInv
<1>2. ASSUME NEW s \in Session PROVE SameSteps(s)'
  <2>1. SameSteps(s)
    BY DEF FilesInv
  <2>2. ASSUME NEW r \in Session, StartWatch(r) \/ Done(r) \/ EyesDown(r) \/ LoopNext(r)
        PROVE  SameSteps(s)'
    <3>1. TRUE \in BOOLEAN
      OBVIOUS
    <3> QED BY <1>1, <2>1, <2>2, <3>1, FilesStart, FilesTake, FilesLoop DEF LoopNext
  <2>3. CASE BootNext
    BY <1>1, <2>1, <2>3, FilesBoot
  <2>4. CASE \/ \E r \in Session, kind \in Kinds : Produce(r, kind)
             \/ Recv \/ AutoCommit \/ Signal \/ SignalNext \/ Crash \/ UNCHANGED vars
    BY <1>1, <2>1, <2>4, FilesOther
  <2>5. Next \/ UNCHANGED vars
    OBVIOUS
  <2> QED BY <2>2, <2>3, <2>4, <2>5 DEF Next
<1> QED BY <1>1, <1>2 DEF FilesInv

(* The command files and metadata.json give a step they both have the same   *)
(* number and event, whichever upload of the two failed, whatever the signal *)
(* handler put back and however often the recording was replayed.            *)
THEOREM FilesNumberAlike == Spec => []FilesAgree
<1>1. FilesInv => FilesAgree
  <2> SUFFICES ASSUME FilesInv, NEW s \in Session, StartedOnce(s),
                      NEW i \in DOMAIN cmds[s] \cap DOMAIN stored[s].steps
               PROVE  cmds[s][i] = stored[s].steps[i]
    BY DEF FilesAgree
  <2> QED BY DEF FilesInv, SameSteps, StartedOnce, Agree
<1>2. Spec => []FilesInv
  BY InitFiles, FilesStep, PTL DEF Spec
<1> QED BY <1>1, <1>2, PTL
=============================================================================
