-------------------------- MODULE StepRecord_proofs --------------------------
(***************************************************************************)
(* Proofs about StepRecord, for any delays, lists of modifiers, drags and   *)
(* texts.  StepInv is the inductive invariant: TakeEvent is what sets up    *)
(* Recorded, the others only move frames.                                   *)
(***************************************************************************)
EXTENDS StepRecord, TLAPS

(* The greater of two delays.                                               *)
LEMMA MaxOfTwo ==
  ASSUME NEW a \in Nat, NEW b \in Nat
  PROVE  Max({a, b}) \in Nat /\ a <= Max({a, b}) /\ b <= Max({a, b})
<1>1. Max({a, b}) = CHOOSE x \in {a, b} : \A y \in {a, b} : x >= y
  BY DEF Max
<1>2. \E x \in {a, b} : \A y \in {a, b} : x >= y
  OBVIOUS
<1> QED BY <1>1, <1>2

LEMMA DelaysAreNat ==
  /\ press_delay \in Nat /\ type_delay \in Nat /\ before_offset \in Nat /\ after_delay \in Nat
  /\ Max({press_delay, type_delay}) \in Nat
  /\ press_delay <= Max({press_delay, type_delay})
  /\ type_delay <= Max({press_delay, type_delay})
<1>1. press_delay \in Nat /\ type_delay \in Nat /\ before_offset \in Nat /\ after_delay \in Nat
  BY DelaysAreTicks
<1> QED BY <1>1, MaxOfTwo

LEMMA MouseIsReport ==
  ASSUME NEW e \in MouseEvents
  PROVE  \E done, mods, os, style : e = Report(done, mods, os, style)
<1> DEFINE Gestures == Clicks \cup Scrolls \cup Drags \cup Others
           Reports(done) == {Report(done, mods, os, style) :
                               mods \in ModifierLists, os \in Oses, style \in Styles(done)}
           All == {Reports(done) : done \in Gestures}
<1>1. e \in UNION All
  BY DEF MouseEvents
<1> HIDE DEF All
<1>2. PICK S \in All : e \in S
  BY <1>1
<1> USE DEF All
<1> HIDE DEF Gestures, Reports
<1>3. PICK done \in Gestures : S = Reports(done)
  BY <1>2
<1>4. e \in Reports(done)
  BY <1>2, <1>3
<1>5. e \in {Report(done, mods, os, style) :
               mods \in ModifierLists, os \in Oses, style \in Styles(done)}
  BY <1>4 DEF Reports
<1>6. \E mods \in ModifierLists, os \in Oses, style \in Styles(done) :
        e = Report(done, mods, os, style)
  BY <1>5
<1> QED BY <1>6, Zenon

(* Every event says what it is of and whether its position is the agent's.  *)
LEMMA EventFields ==
  ASSUME NEW e \in Events
  PROVE  /\ "kind" \in DOMAIN e /\ "captured" \in DOMAIN e
         /\ e.kind \in {"mouse", "press", "type", "position", "other"}
         /\ e.captured \in BOOLEAN
<1>1. CASE e \in MouseEvents
  <2>1. \E done, mods, os, style : e = Report(done, mods, os, style)
    BY <1>1, MouseIsReport
  <2> QED BY <2>1 DEF Report
<1>2. CASE e \in PressEvents
  <2>1. \E os, key, mods, reported : e = Press(os, key, mods, reported)
    BY <1>2 DEF PressEvents
  <2> QED BY <2>1 DEF Press
<1>3. CASE e \in TypeEvents
  <2>1. \E t \in Texts : \E n \in Cuts(t) :
          e = [kind |-> "type", captured |-> FALSE, text |-> SubSeq(t, 1, n),
               done |-> [text |-> t]]
    BY <1>3, Zenon DEF TypeEvents
  <2> QED BY <2>1
<1>4. CASE e \in OtherEvents
  BY <1>4 DEF OtherEvents
<1> QED BY <1>1, <1>2, <1>3, <1>4 DEF Events

(* The event at work, as the loop looks at it.                              *)
Known(event_) ==
    /\ event_.kind \in {"mouse", "press", "type", "position", "other"}
    /\ event_.captured \in BOOLEAN
    /\ event_.success \in BOOLEAN

LEMMA TakenIsKnown ==
  ASSUME NEW e \in Events, NEW ok \in BOOLEAN, NEW taken, taken = Taken(e, ok)
  PROVE  Known(taken) /\ taken.kind = e.kind
<1>1. taken.success = ok
  BY DEF Taken
<1>2. "kind" \in DOMAIN e /\ "captured" \in DOMAIN e
  BY EventFields
<1>3. taken.kind = e.kind /\ taken.captured = e.captured
  BY <1>2 DEF Taken
<1> QED BY <1>1, <1>3, EventFields DEF Known

LEMMA EventAtWork ==
  ASSUME Recorded, pc # "idle"
  PROVE  Known(event)
<1>1. PICK e \in Events, ok \in BOOLEAN : event = Taken(e, ok)
  BY DEF Recorded
<1> QED BY <1>1, TakenIsKnown

(* What decide says of an event.                                            *)
LEMMA DecisionIs ==
  ASSUME NEW e, Known(e)
  PROVE  /\ Decision(e).do \in {"skip", "at", "delayed"}
         /\ e.success /\ e.kind \in {"mouse", "press", "type"} <=> Decision(e).do # "skip"
         /\ Decision(e).do = "at" <=> e.success /\ e.kind = "mouse"
         /\ Decision(e).do = "at" => Decision(e).mark = e.captured
         /\ Decision(e).do = "skip" =>
               /\ Decision(e).reason \in {"command_failed", "no_trigger"}
               /\ Decision(e).reason = "command_failed" => ~e.success
               /\ Decision(e).reason = "no_trigger" =>
                     e.success /\ e.kind \in {"position", "other"}
         /\ Decision(e).do = "delayed" => Decision(e).delay \in {press_delay, type_delay}
<1>1. CASE ~e.success
  <2>1. Decision(e) = [do |-> "skip", reason |-> "command_failed"]
    BY <1>1 DEF Decision
  <2> QED BY <1>1, <2>1
<1>2. CASE e.success /\ e.kind = "mouse"
  <2>1. Decision(e) = [do |-> "at", mark |-> e.captured]
    BY <1>2 DEF Decision
  <2> QED BY <1>2, <2>1
<1>3. CASE e.success /\ e.kind = "type"
  <2>1. Decision(e) = [do |-> "delayed", delay |-> type_delay]
    BY <1>3 DEF Decision
  <2> QED BY <1>3, <2>1
<1>4. CASE e.success /\ e.kind = "press"
  <2>1. Decision(e) = [do |-> "delayed", delay |-> press_delay]
    BY <1>4 DEF Decision
  <2> QED BY <1>4, <2>1
<1>5. CASE e.success /\ e.kind \in {"position", "other"}
  <2>1. Decision(e) = [do |-> "skip", reason |-> "no_trigger"]
    BY <1>5 DEF Decision
  <2> QED BY <1>5, <2>1
<1> QED BY <1>1, <1>2, <1>3, <1>4, <1>5 DEF Known

LEMMA DelayIs ==
  ASSUME Known(event)
  PROVE  /\ Delay \in Nat /\ Delay <= Max({press_delay, type_delay})
         /\ Decision(event).do = "at" => Delay = 0
<1>1. CASE Decision(event).do = "delayed"
  BY <1>1, DecisionIs, DelaysAreNat DEF Delay
<1>2. CASE Decision(event).do # "delayed"
  BY <1>2, DelaysAreNat DEF Delay
<1> QED BY <1>1, <1>2

-----------------------------------------------------------------------------
LEMMA StepInit == Init => StepInv
<1> SUFFICES ASSUME Init PROVE StepInv
  OBVIOUS
<1>1. pc \in PCs /\ Recorded
  BY DEF Init, PCs, Recorded
<1>2. Clock
  BY DelaysAreNat DEF Init, Clock
<1>3. AskedByNow
  BY DEF Init, AskedByNow, Nothing, Slots
<1>4. Answered
  BY DEF Init, Answered, Nothing, Slots
<1>5. Stored
  BY NoneIsNoFrame DEF Init, Stored, Nothing, Slots, Complete
<1>5a. Closed
  BY DEF Init, Closed
<1> QED BY <1>1, <1>2, <1>3, <1>4, <1>5, <1>5a DEF StepInv

(* The step exists before its frames do.                                    *)
LEMMA TakeEventStep ==
  ASSUME StepInv, NEW e \in Events, NEW ok \in BOOLEAN, TakeEvent(e, ok)
  PROVE  StepInv'
<1>1. pc = "idle" /\ e.kind # "position"
      /\ UNCHANGED <<vision, now, entry, fetched, asked, frames>>
  BY DEF TakeEvent
<1>2. event' = Taken(e, ok) /\ text' = Written(e)
  BY DEF TakeEvent
<1>a. vision \in BOOLEAN
  BY DEF StepInv, Recorded
<1>3. /\ ~vision => pc' = "over"
      /\ vision => pc' = IF Decision(event').do = "skip" THEN "done" ELSE "fetch"
  BY <1>a, <1>2 DEF TakeEvent
<1>4. pc' \in PCs \ {"idle", "dropped"}
  BY <1>3 DEF PCs
<1>5. Recorded'
  BY <1>a, <1>1, <1>2, <1>4 DEF Recorded
<1>6. Known(event')
  BY <1>2, TakenIsKnown
<1>7. Due' <=> Decision(event').do # "skip"
  BY <1>6, DecisionIs DEF Due
<1>8. Clock'
  <2>1. now = 0 /\ now' = 0
    BY <1>1 DEF StepInv, Clock
  <2>2. pc' \in {"over", "done", "fetch"} /\ (pc' = "fetch" => Due') /\ (pc' # "over" => vision')
    BY <1>1, <1>3, <1>7, <1>a
  <2> QED BY <2>1, <2>2, DelaysAreNat DEF Clock
<1>9. AskedByNow'
  BY <1>1, <1>3, DelaysAreNat DEF StepInv, AskedByNow, Nothing, Slots
<1>10. Answered'
  BY <1>1, <1>3 DEF StepInv, Answered
<1>11. Stored'
  BY <1>1, <1>3, NoneIsNoFrame DEF StepInv, Stored, Nothing, Slots, Complete
<1>12. Closed'
  BY <1>1, <1>3 DEF StepInv, Closed
<1> QED BY <1>4, <1>5, <1>8, <1>9, <1>10, <1>11, <1>12 DEF StepInv

(* An event that is dropped leaves everything else as it is.                *)
LEMMA DropEventStep ==
  ASSUME StepInv, NEW e \in Events, NEW ok \in BOOLEAN, DropEvent(e, ok)
  PROVE  StepInv'
<1>1. /\ pc = "idle" /\ pc' = "dropped" /\ event' = Taken(e, ok)
      /\ UNCHANGED <<vision, now, text, entry, fetched, asked, frames>>
  BY DEF DropEvent
<1>2. pc' \in PCs /\ Recorded'
  BY <1>1 DEF PCs, StepInv, Recorded
<1>3. Clock'
  BY <1>1 DEF StepInv, Clock
<1>4. AskedByNow' /\ Answered'
  BY <1>1, DelaysAreNat DEF StepInv, AskedByNow, Answered, Nothing, Slots
<1>5. Stored' /\ Closed'
  BY <1>1, NoneIsNoFrame DEF StepInv, Stored, Closed, Nothing, Slots, Complete
<1> QED BY <1>2, <1>3, <1>4, <1>5 DEF StepInv

(* What the steps behind TakeEvent leave alone.                             *)
LEMMA SameEvent ==
  ASSUME StepInv, pc \notin {"idle", "dropped"}, pc' \in PCs \ {"idle", "dropped"},
         UNCHANGED <<vision, event, text>>
  PROVE  Recorded' /\ Known(event) /\ Known(event') /\ Delay' = Delay /\ (Due' <=> Due)
<1>1. Recorded'
  BY DEF StepInv, Recorded
<1>2. Known(event)
  BY EventAtWork DEF StepInv
<1>3. Delay' = Delay /\ (Due' <=> Due)
  BY DEF Delay, Due
<1> QED BY <1>1, <1>2, <1>3

(* The frames before and of the action, at once.                            *)
LEMMA FetchBothStep ==
  ASSUME StepInv, NEW before \in Answers, NEW action \in Answers, FetchBoth(before, action)
  PROVE  StepInv'
<1>1. /\ pc = "fetch" /\ Decision(event).do = "at" /\ pc' = "after" /\ now' = now
      /\ UNCHANGED <<vision, event, text, entry, frames>>
  BY DEF FetchBoth
<1>2. fetched' = [fetched EXCEPT !["before"] = before, !["at"] = action]
  BY DEF FetchBoth
<1>3. asked' = [asked EXCEPT !["before"] = [instant |-> -before_offset, time |-> now],
                             !["at"] = [instant |-> 0, time |-> now]]
  BY DEF FetchBoth
<1>4. pc' \in PCs /\ now = 0
  BY <1>1 DEF PCs, StepInv, Clock
<1>5. Recorded' /\ Known(event) /\ Delay' = Delay /\ (Due' <=> Due)
  BY <1>1, <1>4, SameEvent
<1>6. Delay = 0 /\ Due
  BY <1>1, <1>5, DelayIs, DecisionIs DEF Due
<1>7. Clock'
  BY <1>1, <1>4, <1>5, <1>6, DelaysAreNat DEF StepInv, Clock, PCs
<1>8. AskedByNow'
  <2>1. asked = Nothing
    BY <1>1 DEF StepInv, AskedByNow
  <2>2. /\ asked'["before"] = [instant |-> -before_offset, time |-> now]
        /\ asked'["at"] = [instant |-> 0, time |-> now]
        /\ asked'["after"] = None
        /\ asked' = [s \in Slots |-> asked'[s]]
    BY <1>3, <2>1 DEF Nothing, Slots
  <2>3. AskedFor("before", -before_offset)' /\ AskedFor("at", Delay)'
    BY <1>4, <1>5, <1>6, <2>2, DelaysAreNat DEF AskedFor
  <2> QED BY <1>1, <2>2, <2>3 DEF AskedByNow
<1>9. Answered'
  BY <1>1, <1>2 DEF StepInv, Answered, Slots
<1>10. Stored'
  BY <1>1, <1>5, NoneIsNoFrame DEF StepInv, Stored, Nothing, Slots, Complete
<1>11. Closed'
  BY <1>1 DEF StepInv, Closed
<1> QED BY <1>4, <1>5, <1>7, <1>8, <1>9, <1>10, <1>11 DEF StepInv

(* The frame before, and the wait until the frame of the action is due.     *)
LEMMA FetchBeforeStep ==
  ASSUME StepInv, NEW answer \in Answers, FetchBefore(answer)
  PROVE  StepInv'
<1>1. /\ pc = "fetch" /\ Decision(event).do = "delayed" /\ pc' = "action"
      /\ now' = now + Delay /\ UNCHANGED <<vision, event, text, entry, frames>>
  BY DEF FetchBefore
<1>2. fetched' = [fetched EXCEPT !["before"] = answer]
  BY DEF FetchBefore, Ask
<1>3. asked' = [asked EXCEPT !["before"] = [instant |-> -before_offset, time |-> now']]
  BY DEF FetchBefore, Ask
<1>4. pc' \in PCs /\ now = 0
  BY <1>1 DEF PCs, StepInv, Clock
<1>5. Recorded' /\ Known(event) /\ Delay' = Delay /\ (Due' <=> Due)
  BY <1>1, <1>4, SameEvent
<1>6. Delay \in Nat /\ Delay <= Max({press_delay, type_delay}) /\ Due
  BY <1>1, <1>5, DelayIs, DecisionIs DEF Due
<1>7. Clock'
  BY <1>1, <1>4, <1>5, <1>6, DelaysAreNat DEF StepInv, Clock, PCs
<1>8. AskedByNow'
  <2>1. asked = Nothing
    BY <1>1 DEF StepInv, AskedByNow
  <2>2. /\ asked'["before"] = [instant |-> -before_offset, time |-> now']
        /\ asked'["at"] = None /\ asked'["after"] = None
        /\ asked' = [s \in Slots |-> asked'[s]]
    BY <1>3, <2>1 DEF Nothing, Slots
  <2>3. AskedFor("before", -before_offset)'
    BY <1>1, <1>4, <1>6, <2>2, DelaysAreNat DEF AskedFor
  <2> QED BY <1>1, <2>2, <2>3 DEF AskedByNow
<1>9. Answered'
  BY <1>1, <1>2 DEF StepInv, Answered, Slots
<1>10. Stored'
  BY <1>1, <1>5, NoneIsNoFrame DEF StepInv, Stored, Nothing, Slots, Complete
<1>11. Closed'
  BY <1>1 DEF StepInv, Closed
<1> QED BY <1>4, <1>5, <1>7, <1>8, <1>9, <1>10, <1>11 DEF StepInv

LEMMA FetchActionStep ==
  ASSUME StepInv, NEW answer \in Answers, FetchAction(answer)
  PROVE  StepInv'
<1>1. /\ pc = "action" /\ pc' = "after" /\ now' = now
      /\ UNCHANGED <<vision, event, text, entry, frames>>
  BY DEF FetchAction
<1>2. fetched' = [fetched EXCEPT !["at"] = answer]
  BY DEF FetchAction, Ask
<1>3. asked' = [asked EXCEPT !["at"] = [instant |-> Delay, time |-> now']]
  BY DEF FetchAction, Ask
<1>4. pc' \in PCs /\ now = Delay
  BY <1>1 DEF PCs, StepInv, Clock
<1>5. Recorded' /\ Known(event) /\ Delay' = Delay /\ (Due' <=> Due)
  BY <1>1, <1>4, SameEvent
<1>6. Delay \in Nat /\ Due
  BY <1>1, <1>5, DelayIs DEF StepInv, Clock, PCs
<1>7. Clock'
  BY <1>1, <1>4, <1>5, <1>6 DEF StepInv, Clock
<1>8. AskedByNow'
  <2>1. asked = [s \in Slots |-> asked[s]] /\ AskedFor("before", -before_offset)
    BY <1>1 DEF StepInv, AskedByNow
  <2>2. /\ asked'["at"] = [instant |-> Delay, time |-> now']
        /\ asked'["before"] = asked["before"] /\ asked'["after"] = asked["after"]
        /\ asked' = [s \in Slots |-> asked'[s]]
    BY <1>3, <2>1 DEF Slots
  <2>3. AskedFor("at", Delay)'
    BY <1>1, <1>4, <1>5, <1>6, <2>2 DEF AskedFor
  <2>4. AskedFor("before", -before_offset)'
    BY <2>1, <2>2 DEF AskedFor
  <2>5. asked["after"] # None => AskedFor("after", Delay + after_delay)
    BY <1>1 DEF StepInv, AskedByNow
  <2>6. (asked["after"] # None => AskedFor("after", Delay + after_delay))'
    BY <1>5, <2>2, <2>5 DEF AskedFor
  <2> QED BY <1>1, <2>2, <2>3, <2>4, <2>6 DEF AskedByNow
<1>9. Answered'
  <2>1. fetched["before"] \in Answers
    BY <1>1 DEF StepInv, Answered
  <2> QED BY <1>1, <1>2, <2>1 DEF StepInv, Answered, Slots
<1>10. Stored'
  BY <1>1, <1>5, NoneIsNoFrame DEF StepInv, Stored, Nothing, Slots, Complete
<1>11. Closed'
  BY <1>1 DEF StepInv, Closed
<1> QED BY <1>4, <1>5, <1>7, <1>8, <1>9, <1>10, <1>11 DEF StepInv

(* What a step that only stores frames or closes the entry leaves as it is. *)
LEMMA StoringStep ==
  ASSUME StepInv, pc \in {"save_at", "save_before", "save_after", "done"},
         pc' \in {"save_before", "save_after", "done", "over"},
         UNCHANGED <<vision, event, now, text, fetched, asked>>,
         pc' \in {"save_before", "save_after"} => pc # "done"
  PROVE  /\ pc' \in PCs /\ Recorded' /\ Clock' /\ AskedByNow'
         /\ Answered' /\ (Due' <=> Due) /\ Known(event)
<1>1. pc \notin {"idle", "dropped"} /\ pc' \in PCs \ {"idle", "dropped"}
  BY DEF PCs
<1>2. Recorded' /\ Known(event) /\ Delay' = Delay /\ (Due' <=> Due)
  BY <1>1, SameEvent
<1>3. Clock'
  BY <1>1, <1>2 DEF StepInv, Clock, PCs
<1>4. AskedByNow'
  <2>1. \A s \in Slots, i \in Int : AskedFor(s, i)' <=> AskedFor(s, i)
    BY DEF AskedFor
  <2>2. asked = [s \in Slots |-> asked[s]]
    BY DEF StepInv, AskedByNow
  <2>3. /\ asked["before"] # None => AskedFor("before", -before_offset)
        /\ asked["at"] # None => AskedFor("before", -before_offset) /\ AskedFor("at", Delay)
        /\ asked["after"] # None =>
              /\ AskedFor("before", -before_offset) /\ AskedFor("at", Delay)
              /\ AskedFor("after", Delay + after_delay)
    BY DEF StepInv, AskedByNow
  <2>4. /\ (asked["before"] # None => AskedFor("before", -before_offset))'
        /\ (asked["at"] # None => AskedFor("before", -before_offset) /\ AskedFor("at", Delay))'
        /\ (asked["after"] # None =>
              /\ AskedFor("before", -before_offset) /\ AskedFor("at", Delay)
              /\ AskedFor("after", Delay + after_delay))'
    BY <1>2, <2>3 DEF AskedFor
  <2>5. asked' = [s \in Slots |-> asked'[s]]
    BY <2>2
  <2> QED BY <2>4, <2>5 DEF AskedByNow
<1>5. Answered'
  <2>1. fetched \in [Slots -> {None} \cup Answers]
    BY DEF StepInv, Answered
  <2>2. pc' \in {"save_before", "save_after"} =>
          fetched \in [Slots -> Answers] /\ fetched["at"] # "error"
    BY DEF StepInv, Answered
  <2> QED BY <2>1, <2>2 DEF Answered
<1> QED BY <1>1, <1>2, <1>3, <1>4, <1>5

(* The frame after, a while later.                                          *)
LEMMA FetchAfterStep ==
  ASSUME StepInv, NEW answer \in Answers, FetchAfter(answer)
  PROVE  StepInv'
<1>1. /\ pc = "after" /\ now' = now + after_delay
      /\ UNCHANGED <<vision, event, text, entry, frames>>
  BY DEF FetchAfter
<1>2. fetched' = [fetched EXCEPT !["after"] = answer]
  BY DEF FetchAfter, Ask
<1>3. asked' = [asked EXCEPT !["after"] = [instant |-> Delay + after_delay, time |-> now']]
  BY DEF FetchAfter, Ask
<1>4. pc' = IF fetched["at"] = "error" THEN "done" ELSE "save_at"
  BY DEF FetchAfter
<1>5. pc' \in PCs \ {"idle", "dropped"} /\ now = Delay
  BY <1>1, <1>4 DEF PCs, StepInv, Clock
<1>6. Recorded' /\ Known(event) /\ Delay' = Delay /\ (Due' <=> Due)
  BY <1>1, <1>5, SameEvent
<1>7. Delay \in Nat /\ Delay <= Max({press_delay, type_delay}) /\ Due
  BY <1>1, <1>6, DelayIs DEF StepInv, Clock, PCs
<1>8. Clock'
  BY <1>1, <1>4, <1>5, <1>6, <1>7, DelaysAreNat DEF StepInv, Clock, PCs
<1>9. AskedByNow'
  <2>1. /\ asked = [s \in Slots |-> asked[s]]
        /\ AskedFor("before", -before_offset) /\ AskedFor("at", Delay)
    BY <1>1 DEF StepInv, AskedByNow
  <2>2. /\ asked'["after"] = [instant |-> Delay + after_delay, time |-> now']
        /\ asked'["before"] = asked["before"] /\ asked'["at"] = asked["at"]
        /\ asked' = [s \in Slots |-> asked'[s]]
    BY <1>3, <2>1 DEF Slots
  <2>3. AskedFor("after", Delay + after_delay)'
    BY <1>1, <1>5, <1>6, <1>7, <2>2, DelaysAreNat DEF AskedFor
  <2>4. AskedFor("before", -before_offset)' /\ AskedFor("at", Delay)'
    BY <1>6, <2>1, <2>2 DEF AskedFor
  <2> QED BY <1>4, <2>2, <2>3, <2>4 DEF AskedByNow
<1>10. Answered'
  <2>1. /\ fetched \in [Slots -> {None} \cup Answers]
        /\ fetched["before"] \in Answers /\ fetched["at"] \in Answers
    BY <1>1 DEF StepInv, Answered
  <2>2. fetched' \in [Slots -> Answers]
    BY <1>2, <2>1 DEF Slots
  <2>3. fetched'["at"] = fetched["at"]
    BY <1>2, <2>1 DEF Slots
  <2> QED BY <1>4, <2>2, <2>3 DEF Answered
<1>11. Stored'
  <2>1. frames = Nothing /\ frames' = Nothing
    BY <1>1 DEF StepInv, Stored
  <2> QED BY <1>4, <2>1, NoneIsNoFrame DEF Stored, Nothing, Slots, Complete
<1>12. Closed'
  BY <1>1, <1>4 DEF StepInv, Closed
<1> QED BY <1>5, <1>6, <1>8, <1>9, <1>10, <1>11, <1>12 DEF StepInv

(* The frame of the action, with its mark if it is due one.                 *)
LEMMA SaveAtStep ==
  ASSUME StepInv, NEW stored \in BOOLEAN, SaveAt(stored)
  PROVE  StepInv'
<1> DEFINE mark == Decision(event).do = "at" /\ Decision(event).mark
           kept == stored /\ (mark => fetched["at"] = "frame")
<1>1. /\ pc = "save_at" /\ pc' = IF kept THEN "save_before" ELSE "done"
      /\ UNCHANGED <<vision, event, now, text, entry, fetched, asked>>
  BY DEF SaveAt
<1>2. frames' = IF kept
                THEN [frames EXCEPT !["at"] = IF mark THEN "marked" ELSE fetched["at"]]
                ELSE frames
  BY DEF SaveAt
<1>3. /\ pc' \in PCs /\ Recorded' /\ Clock' /\ AskedByNow'
      /\ Answered' /\ (Due' <=> Due) /\ Known(event)
  BY <1>1, StoringStep
<1>4. Due /\ (mark <=> event.kind = "mouse" /\ event.captured)
  <2>1. Due
    BY <1>1 DEF StepInv, Clock, PCs
  <2>2. /\ Decision(event).do = "at" <=> event.success /\ event.kind = "mouse"
        /\ Decision(event).do = "at" => Decision(event).mark = event.captured
    BY <1>3, DecisionIs
  <2> QED BY <2>1, <2>2 DEF Due
<1>5. frames = Nothing /\ fetched["at"] \in {"frame", "junk"}
  BY <1>1 DEF StepInv, Stored, Answered, Answers, Slots
<1>6. Stored'
  <2> HIDE DEF mark
  <2>1. CASE kept
    <3>1. frames' = [Nothing EXCEPT !["at"] = IF mark THEN "marked" ELSE fetched["at"]]
      BY <1>2, <1>5, <2>1
    <3>2. /\ frames'["at"] = IF mark THEN "marked" ELSE fetched["at"]
          /\ frames' \in [Slots -> {None, "frame", "marked", "junk"}]
      BY <1>5, <3>1 DEF Nothing, Slots
    <3>3. mark => fetched["at"] = "frame"
      BY <2>1
    <3>4. frames'["at"] # None /\ (frames'["at"] = "marked" <=> mark)
      BY <1>5, <3>2, NoneIsNoFrame
    <3> QED BY <1>1, <1>3, <1>4, <2>1, <3>2, <3>3, <3>4 DEF Stored, Complete
  <2>2. CASE ~kept
    BY <1>1, <1>2, <1>5, <2>2, NoneIsNoFrame DEF Stored, Complete, Nothing, Slots
  <2> QED BY <2>1, <2>2
<1>7. Closed'
  BY <1>1 DEF StepInv, Closed
<1> QED BY <1>3, <1>6, <1>7 DEF StepInv

(* The other frames.                                                        *)
LEMMA SaveStep ==
  ASSUME StepInv, NEW stored \in BOOLEAN, NEW slot \in {"before", "after"},
         NEW next \in {"save_after", "done"}, pc \in {"save_before", "save_after"},
         Save(slot, stored, next)
  PROVE  StepInv'
<1>1. pc' = next /\ UNCHANGED <<vision, event, now, text, entry, fetched, asked>>
  BY DEF Save
<1>2. frames' = IF stored /\ fetched[slot] # "error"
                THEN [frames EXCEPT ![slot] = fetched[slot]] ELSE frames
  BY DEF Save
<1>3. /\ pc' \in PCs /\ Recorded' /\ Clock' /\ AskedByNow'
      /\ Answered' /\ (Due' <=> Due) /\ Known(event)
  BY <1>1, StoringStep
<1>4. /\ frames \in [Slots -> {None, "frame", "marked", "junk"}]
      /\ fetched \in [Slots -> Answers] /\ slot \in Slots \ {"at"}
  BY DEF StepInv, Stored, Answered, Slots
<1>5. frames'["at"] = frames["at"] /\ frames' \in [Slots -> {None, "frame", "marked", "junk"}]
  <2>1. fetched[slot] # "error" => fetched[slot] \in {"frame", "junk"}
    BY <1>4 DEF Answers
  <2> QED BY <1>2, <1>4, <2>1 DEF Slots
<1>6. Stored'
  BY <1>1, <1>3, <1>5 DEF StepInv, Stored, Complete
<1>7. Closed'
  BY <1>1 DEF StepInv, Closed
<1> QED BY <1>3, <1>6, <1>7 DEF StepInv

(* The step's entry.                                                        *)
LEMMA EndOfStepStep ==
  ASSUME StepInv, EndOfStep
  PROVE  StepInv'
<1>1. pc = "done" /\ pc' = "over" /\ UNCHANGED <<vision, event, now, text, fetched, asked, frames>>
  BY DEF EndOfStep
<1>2. /\ pc' \in PCs /\ Recorded' /\ Clock' /\ AskedByNow'
      /\ Answered' /\ (Due' <=> Due) /\ Known(event)
  BY <1>1, StoringStep
<1>3. Stored'
  BY <1>1, <1>2 DEF StepInv, Stored, Complete
<1>4. entry = NoEntry /\ vision
  BY <1>1 DEF StepInv, Closed, Clock, PCs
<1>5. Closed'
  BY <1>1, <1>4 DEF EndOfStep, Closed, Complete
<1> QED BY <1>2, <1>3, <1>5 DEF StepInv

LEMMA StepNext == StepInv /\ [Next]_vars => StepInv'
<1> SUFFICES ASSUME StepInv, [Next]_vars PROVE StepInv'
  OBVIOUS
<1>1. ASSUME NEW e \in Events, NEW ok \in BOOLEAN, DropEvent(e, ok) \/ TakeEvent(e, ok)
      PROVE  StepInv'
  BY <1>1, DropEventStep, TakeEventStep
<1>2. ASSUME NEW first \in Answers, NEW second \in Answers, FetchBoth(first, second)
      PROVE  StepInv'
  BY <1>2, FetchBothStep
<1>3. ASSUME NEW answer \in Answers,
             FetchBefore(answer) \/ FetchAction(answer) \/ FetchAfter(answer)
      PROVE  StepInv'
  BY <1>3, FetchBeforeStep, FetchActionStep, FetchAfterStep
<1>4. ASSUME NEW stored \in BOOLEAN, SaveAt(stored) PROVE StepInv'
  BY <1>4, SaveAtStep
<1>5. ASSUME NEW stored \in BOOLEAN, SaveBefore(stored) PROVE StepInv'
  BY <1>5, SaveStep DEF SaveBefore
<1>6. ASSUME NEW stored \in BOOLEAN, SaveAfter(stored) PROVE StepInv'
  BY <1>6, SaveStep DEF SaveAfter
<1>7. CASE EndOfStep
  BY <1>7, EndOfStepStep
<1>8. CASE UNCHANGED vars
  BY <1>8 DEF vars, StepInv, Recorded, Clock, Due, Delay, AskedByNow, AskedFor, Answered,
              Stored, Closed, Complete
<1> QED BY <1>1, <1>2, <1>3, <1>4, <1>5, <1>6, <1>7, <1>8 DEF Next

LEMMA StepInvariant == Spec => []StepInv
BY StepInit, StepNext, PTL DEF Spec

-----------------------------------------------------------------------------
(* Frames are asked for in the order before, action, after, and none before *)
(* The-Eyes can have it, whatever the configured delays.                    *)
THEOREM FramesAreAwaited == Spec => []FramesOfTheirTime
<1>1. StepInv => FramesOfTheirTime
  <2> SUFFICES ASSUME StepInv PROVE FramesOfTheirTime
    OBVIOUS
  <2>1. /\ asked["before"] # None => AskedFor("before", -before_offset)
        /\ asked["at"] # None => AskedFor("at", Delay)
        /\ asked["after"] # None =>
              /\ AskedFor("before", -before_offset) /\ AskedFor("at", Delay)
              /\ AskedFor("after", Delay + after_delay)
    BY DEF StepInv, AskedByNow
  <2>2. CASE pc = "idle"
    BY <2>2 DEF StepInv, AskedByNow, FramesOfTheirTime, Nothing, Slots
  <2>3. CASE pc # "idle"
    <3>1. Delay \in Nat
      BY <2>3, EventAtWork, DelayIs DEF StepInv
    <3> QED BY <2>1, <3>1, DelaysAreNat DEF FramesOfTheirTime, AskedFor, Slots
  <2> QED BY <2>2, <2>3
<1> QED BY <1>1, StepInvariant, PTL

(* With The-Eyes a step that is over has its frames or the one right reason *)
(* why not, without it has neither, and a position makes no step.           *)
THEOREM StepsAreAccounted == Spec => []StepAccounted
<1>1. StepInv => StepAccounted
  <2>a. StepInv /\ (pc # "over" \/ ~vision) => entry = NoEntry
    BY DEF StepInv, Closed
  <2>b. ASSUME StepInv, pc = "over" PROVE event.kind # "position"
    <3>1. PICK e \in Events, ok \in BOOLEAN : event = Taken(e, ok) /\ e.kind # "position"
      BY <2>b DEF StepInv, Recorded
    <3> QED BY <3>1, TakenIsKnown
  <2>c. ASSUME StepInv, pc = "over", ~vision PROVE StepAccounted
    <3>1. entry = NoEntry
      BY <2>a, <2>c
    <3>2. ~entry.image /\ ~entry.before /\ ~entry.after /\ entry.skipped = <<>>
      BY <3>1 DEF NoEntry
    <3>3. \A r : <<r>> # <<>>
      OBVIOUS
    <3> QED BY <2>b, <2>c, <3>1, <3>2, <3>3 DEF StepAccounted
  <2> SUFFICES ASSUME StepInv, pc = "over", vision PROVE StepAccounted
    BY <2>a, <2>c DEF StepAccounted, StepInv, Recorded
  <2>1. Known(event) /\ event.kind # "position"
    BY <2>b, EventAtWork DEF StepInv
  <2>2. entry = IF Complete
                THEN [NoEntry EXCEPT !.image = TRUE, !.marked = frames["at"] = "marked",
                                     !.before = frames["before"] # None,
                                     !.after = frames["after"] # None]
                ELSE [NoEntry EXCEPT !.skipped =
                        <<IF Decision(event).do = "skip" THEN Decision(event).reason
                          ELSE "fetch_failed">>]
    BY DEF StepInv, Closed
  <2>3. CASE Complete
    BY <2>1, <2>2, <2>3 DEF NoEntry, StepAccounted, Complete
  <2>4. CASE ~Complete
    <3> DEFINE reason == IF Decision(event).do = "skip" THEN Decision(event).reason
                         ELSE "fetch_failed"
    <3>1. /\ reason = "command_failed" => ~event.success
          /\ reason = "no_trigger" => event.success /\ event.kind = "other"
          /\ reason = "fetch_failed" => event.success /\ event.kind \in {"mouse", "press", "type"}
      BY <2>1, DecisionIs
    <3>2. entry = [NoEntry EXCEPT !.skipped = <<reason>>]
      BY <2>2, <2>4
    <3> HIDE DEF reason
    <3>3. ~entry.image /\ ~entry.before /\ ~entry.after /\ entry.skipped = <<reason>>
      BY <3>2 DEF NoEntry
    <3>4. <<reason>> # <<>> /\ \A r : <<reason>> = <<r>> => reason = r
      OBVIOUS
    <3> QED BY <2>1, <3>1, <3>3, <3>4 DEF StepAccounted
  <2> QED BY <2>3, <2>4
<1> QED BY <1>1, StepInvariant, PTL

(* A mark is drawn on an image, at a position the agent has verified; every *)
(* verified pointer action with an image has one.                           *)
THEOREM MarksAreVerified == Spec => []MarkIsVerified
<1>1. StepInv => MarkIsVerified
  <2> SUFFICES ASSUME StepInv PROVE MarkIsVerified
    OBVIOUS
  <2>1. frames["at"] = "marked" => event.captured /\ fetched["at"] = "frame"
    BY DEF StepInv, Stored
  <2>2. ASSUME entry.image, event.kind = "mouse" PROVE entry.marked <=> event.captured
    <3>1. pc = "over" /\ vision
      BY <2>2 DEF StepInv, Closed, NoEntry
    <3>2. Complete
      BY <2>2, <3>1 DEF StepInv, Closed, NoEntry
    <3>3. entry.marked <=> frames["at"] = "marked"
      BY <3>1, <3>2 DEF StepInv, Closed, NoEntry
    <3> QED BY <2>2, <3>2, <3>3 DEF StepInv, Stored
  <2> QED BY <2>1, <2>2 DEF MarkIsVerified, Is
<1> QED BY <1>1, StepInvariant, PTL

(* The values of a step, and the time it takes at most.                     *)
THEOREM StepTypes == Spec => []TypeOK
<1>1. StepInv => TypeOK
  <2> SUFFICES ASSUME StepInv PROVE TypeOK
    OBVIOUS
  <2>1. event = None \/ event.success \in BOOLEAN
    BY EventAtWork DEF StepInv, Recorded, Known
  <2>2. /\ vision \in BOOLEAN /\ pc \in PCs
        /\ now \in 0 .. Max({press_delay, type_delay}) + after_delay
    BY DEF StepInv, Recorded, Clock
  <2>3. /\ fetched \in [Slots -> {None, "frame", "junk", "error"}]
        /\ frames \in [Slots -> {None, "frame", "marked", "junk"}]
    BY DEF StepInv, Answered, Answers, Stored
  <2>4. entry \in [image : BOOLEAN, before : BOOLEAN, after : BOOLEAN, marked : BOOLEAN,
                   skipped : {<<>>} \cup {<<r>> : r \in {"command_failed", "no_trigger",
                                                         "fetch_failed"}}]
    <3> DEFINE Reasons == {<<>>} \cup {<<r>> : r \in {"command_failed", "no_trigger",
                                                      "fetch_failed"}}
    <3>a. <<>> \in Reasons
      OBVIOUS
    <3>1. CASE pc # "over" \/ ~vision
      <4> HIDE DEF Reasons
      <4>1. entry = NoEntry
        BY <3>1 DEF StepInv, Closed
      <4>2. NoEntry \in [image : BOOLEAN, before : BOOLEAN, after : BOOLEAN, marked : BOOLEAN,
                         skipped : Reasons]
        BY <3>a, Zenon DEF NoEntry
      <4>3. entry \in [image : BOOLEAN, before : BOOLEAN, after : BOOLEAN, marked : BOOLEAN,
                       skipped : Reasons]
        BY <4>1, <4>2
      <4> QED BY <4>3 DEF Reasons
    <3>2. CASE pc = "over" /\ vision /\ Complete
      <4> HIDE DEF Reasons
      <4>1. entry \in [image : BOOLEAN, before : BOOLEAN, after : BOOLEAN, marked : BOOLEAN,
                       skipped : Reasons]
        BY <3>a, <3>2 DEF StepInv, Closed, NoEntry
      <4> QED BY <4>1 DEF Reasons
    <3>3. CASE pc = "over" /\ vision /\ ~Complete
      <4> DEFINE reason == IF Decision(event).do = "skip" THEN Decision(event).reason
                           ELSE "fetch_failed"
      <4>1. Known(event)
        BY <3>3, EventAtWork DEF StepInv
      <4>2. reason \in {"command_failed", "no_trigger", "fetch_failed"}
        BY <4>1, DecisionIs
      <4>3. entry = [NoEntry EXCEPT !.skipped = <<reason>>]
        BY <3>3 DEF StepInv, Closed
      <4> HIDE DEF reason
      <4> QED BY <4>2, <4>3 DEF NoEntry
    <3> QED BY <3>1, <3>2, <3>3
  <2> QED BY <2>1, <2>2, <2>3, <2>4 DEF TypeOK
<1> QED BY <1>1, StepInvariant, PTL

-----------------------------------------------------------------------------
(* The names of the modifiers of a chord.                                   *)
LEMMA NamesOfAll ==
  ASSUME NEW mods, NEW os
  PROVE  /\ DOMAIN Names(mods, os) = DOMAIN mods
         /\ \A i \in DOMAIN mods : Names(mods, os)[i] = modifier_name(mods[i], os)
         /\ ToSet(Names(mods, os)) = {modifier_name(s, os) : s \in ToSet(mods)}
<1>1. Names(mods, os) = [i \in DOMAIN mods |-> modifier_name(mods[i], os)]
  BY DEF Names
<1>2. /\ DOMAIN Names(mods, os) = DOMAIN mods
      /\ \A i \in DOMAIN mods : Names(mods, os)[i] = modifier_name(mods[i], os)
  BY <1>1
<1>3. ASSUME NEW x \in ToSet(Names(mods, os))
      PROVE  x \in {modifier_name(s, os) : s \in ToSet(mods)}
  <2>1. PICK i \in DOMAIN mods : x = modifier_name(mods[i], os)
    BY <1>2, <1>3 DEF ToSet
  <2> QED BY <2>1 DEF ToSet
<1>4. ASSUME NEW x \in {modifier_name(s, os) : s \in ToSet(mods)}
      PROVE  x \in ToSet(Names(mods, os))
  <2>1. PICK i \in DOMAIN mods : x = modifier_name(mods[i], os)
    BY <1>4 DEF ToSet
  <2> QED BY <1>2, <2>1 DEF ToSet
<1> QED BY <1>2, <1>3, <1>4

(* A chord has names if it has modifiers, and a name it has on any system   *)
(* is one a "{... down}" token leaves as it is.                             *)
LEMMA NamesOfChord ==
  ASSUME NEW mods \in ModifierLists, mods # <<>>, NEW os
  PROVE  /\ Names(mods, os) # <<>>
         /\ [i \in DOMAIN Names(mods, os) |-> DownName(Names(mods, os)[i])] = Names(mods, os)
<1>1. mods \in Seq(Symbols)
  BY ModifiersAreSymbols
<1>2. \A i \in DOMAIN mods : mods[i] \in Symbols
  BY <1>1
<1>3. DOMAIN mods # {}
  BY <1>1
<1>4. DOMAIN Names(mods, os) = DOMAIN mods
      /\ \A i \in DOMAIN mods : Names(mods, os)[i] = modifier_name(mods[i], os)
  BY NamesOfAll
<1>5. \A x \in Symbols : DownName(modifier_name(x, os)) = modifier_name(x, os)
  BY DEF Symbols, modifier_name, DownName
<1>6. \A i \in DOMAIN mods : DownName(Names(mods, os)[i]) = Names(mods, os)[i]
  BY <1>2, <1>4, <1>5
<1>7. Names(mods, os) # <<>>
  BY <1>3, <1>4
<1>8. Names(mods, os) = [i \in DOMAIN mods |-> Names(mods, os)[i]]
  BY DEF Names
<1> QED BY <1>4, <1>6, <1>7, <1>8

(* What a press event's text is checked to be.                              *)
Agrees(e) ==
    LET label == humanize_key(e.key, e.os)
        command == cc_press(e.key)
        names == {modifier_name(s, e.os) : s \in ToSet(e.done.mods)}
    IN  /\ ToSet(label.mods) = names
        /\ e.key.spelled = <<>> =>
              ToSet(command.symbols) = ToSet(e.done.mods) \/ ToSet(command.down) = names
        /\ command.name = None <=> e.key.spelled # <<>>
        /\ label.key = None <=> e.key.down # <<>> /\ e.key.braced
        /\ ~(e.done.key = "Del" /\ e.key.name = "Delete") =>
              /\ command.name \in {None, e.done.key}
              /\ label.key \in {None, humanize_bare_key(e.done.key)}
        /\ command.name # None /\ label.key # None =>
              humanize_bare_key(command.name) = label.key

(* None is the name of no key.                                              *)
LEMMA KeysAreKeys ==
  /\ None \notin Keys
  /\ \A os \in Oses : \A key \in Keys :
        /\ NativeName(key, os) # None /\ humanize_bare_key(NativeName(key, os)) # None
        /\ normalize_key(NativeName(key, os)) # None /\ humanize_bare_key(key) # None
<1>1. None \notin {"a", "Enter", "Backspace", "Del", "PgUp", "+", "Return", "Delete",
                   "BackSpace", "ForwardDelete", "Page_Up", "Page Up"}
  BY NoneIsNoKey DEF Keys
<1>2. \A os \in Oses : \A key \in Keys :
         NativeName(key, os) \in Keys \cup {"Return", "Delete", "BackSpace", "ForwardDelete",
                                           "Page_Up"}
  BY DEF Keys, Oses, NativeName
<1>3. \A name \in Keys \cup {"Return", "Delete", "BackSpace", "ForwardDelete", "Page_Up"} :
         /\ humanize_bare_key(name) \in {"a", "+", "Enter", "Backspace", "Delete", "Page Up"}
         /\ normalize_key(name) \in {"a", "+", "Enter", "Backspace", "Del", "PgUp"}
  BY DEF Keys, humanize_bare_key, normalize_key
<1>4. None \notin Keys
  BY <1>1 DEF Keys
<1> QED BY <1>1, <1>2, <1>3, <1>4

LEMMA BareAgrees ==
  ASSUME NEW os \in Oses, NEW key \in Keys
  PROVE  Agrees(Press(os, key, <<>>, Bare(key, os)))
<1> DEFINE name == NativeName(key, os)
           e == Press(os, key, <<>>, Bare(key, os))
<1>1. /\ e.key = [symbols |-> <<>>, down |-> <<>>, spelled |-> <<>>, braced |-> FALSE,
                  name |-> name]
      /\ e.os = os /\ e.done = [key |-> key, mods |-> <<>>]
  BY DEF Press, Bare
<1> HIDE DEF name, e
<1>2. /\ e.key.symbols = <<>> /\ e.key.down = <<>> /\ e.key.spelled = <<>>
      /\ ~e.key.braced /\ e.key.name = name
      /\ e.done.key = key /\ e.done.mods = <<>>
  BY <1>1
<1>3. /\ humanize_key(e.key, e.os).mods = Names(<<>>, os)
      /\ humanize_key(e.key, e.os).key = humanize_bare_key(name)
  BY <1>1, <1>2 DEF humanize_key, LabelKey
<1>4. /\ cc_press(e.key).symbols = <<>>
      /\ cc_press(e.key).name = IF name \in Symbols THEN name ELSE normalize_key(name)
  BY <1>2 DEF cc_press, is_modifier_combo
<1>5. ToSet(Names(<<>>, os)) = {modifier_name(s, os) : s \in ToSet(<<>>)}
  BY NamesOfAll
<1>6. ~(key = "Del" /\ name = "Delete") =>
         /\ cc_press(e.key).name = key
         /\ humanize_bare_key(name) = humanize_bare_key(key)
  BY <1>4 DEF name, Keys, Oses, NativeName, Symbols, normalize_key, humanize_bare_key
<1>7. humanize_bare_key(cc_press(e.key).name) = humanize_bare_key(name)
  BY <1>4 DEF name, Keys, Oses, NativeName, Symbols, normalize_key, humanize_bare_key
<1>a. cc_press(e.key).name # None /\ humanize_key(e.key, e.os).key # None
  BY <1>3, <1>4, KeysAreKeys DEF name
<1>8. Agrees(e)
  BY <1>1, <1>2, <1>3, <1>4, <1>5, <1>6, <1>7, <1>a DEF Agrees
<1> QED BY <1>8 DEF e

LEMMA ChordAgrees ==
  ASSUME NEW os \in Oses, NEW key \in Keys, NEW mods \in ModifierLists, mods # <<>>
  PROVE  Agrees(Press(os, key, mods, Chord(key, mods)))
<1> DEFINE e == Press(os, key, mods, Chord(key, mods))
<1>1. /\ e.key = [symbols |-> mods, down |-> <<>>, spelled |-> <<>>, braced |-> IsBraced(key),
                  name |-> key]
      /\ e.os = os /\ e.done = [key |-> key, mods |-> mods]
  BY DEF Press, Chord
<1> HIDE DEF e
<1>2. /\ e.key.symbols = mods /\ e.key.down = <<>> /\ e.key.spelled = <<>> /\ e.key.name = key
      /\ e.done.key = key /\ e.done.mods = mods
  BY <1>1
<1>3. /\ humanize_key(e.key, e.os).mods = Names(mods, os)
      /\ humanize_key(e.key, e.os).key = humanize_bare_key(key)
  BY <1>1, <1>2 DEF humanize_key, LabelKey
<1>4. cc_press(e.key).symbols = mods /\ cc_press(e.key).name = key
  BY <1>2 DEF cc_press, is_modifier_combo
<1>5. ToSet(Names(mods, os)) = {modifier_name(s, os) : s \in ToSet(mods)}
  BY NamesOfAll
<1>6. cc_press(e.key).name # None /\ humanize_key(e.key, e.os).key # None
  BY <1>3, <1>4, KeysAreKeys
<1>7. Agrees(e)
  BY <1>1, <1>2, <1>3, <1>4, <1>5, <1>6 DEF Agrees
<1> QED BY <1>7 DEF e

LEMMA HeldDownAgrees ==
  ASSUME NEW os \in Oses, NEW key \in Keys, NEW mods \in ModifierLists, mods # <<>>
  PROVE  Agrees(Press(os, key, mods, HeldDown(key, mods, os)))
<1> DEFINE e == Press(os, key, mods, HeldDown(key, mods, os))
<1>1. /\ e.key = [symbols |-> <<>>, down |-> Names(mods, os), spelled |-> <<>>,
                  braced |-> IsBraced(key), name |-> key]
      /\ e.os = os /\ e.done = [key |-> key, mods |-> mods]
  BY DEF Press, HeldDown
<1> HIDE DEF e
<1>2. /\ e.key.down = Names(mods, os) /\ e.key.spelled = <<>> /\ e.key.name = key
      /\ e.key.braced = IsBraced(key) /\ e.key.symbols = <<>> /\ e.done.key = key /\ e.done.mods = mods
      /\ e.os = os
  BY <1>1
<1>3. Names(mods, os) # <<>>
      /\ [i \in DOMAIN Names(mods, os) |-> DownName(Names(mods, os)[i])] = Names(mods, os)
  BY NamesOfChord
<1>4. /\ humanize_key(e.key, e.os).mods = Names(mods, os)
      /\ humanize_key(e.key, e.os).key = IF IsBraced(key) THEN None ELSE humanize_bare_key(key)
  BY <1>2, <1>3 DEF humanize_key, LabelKey, IsBraced
<1>5. cc_press(e.key).down = Names(mods, os) /\ cc_press(e.key).name = key
  BY <1>2, <1>3 DEF cc_press, is_modifier_combo
<1>6. ToSet(Names(mods, os)) = {modifier_name(s, os) : s \in ToSet(mods)}
  BY NamesOfAll
<1>7. key # None /\ humanize_bare_key(key) # None
  BY KeysAreKeys
<1>8. Agrees(e)
  <2>1. CASE IsBraced(key)
    <3>1. e.key.braced /\ humanize_key(e.key, e.os).key = None
      BY <1>2, <1>4, <2>1
    <3> QED BY <1>2, <1>3, <1>4, <1>5, <1>6, <1>7, <3>1 DEF Agrees
  <2>2. CASE ~IsBraced(key)
    <3>1. ~e.key.braced /\ humanize_key(e.key, e.os).key = humanize_bare_key(key)
      BY <1>2, <1>4, <2>2
    <3> QED BY <1>2, <1>3, <1>4, <1>5, <1>6, <1>7, <3>1 DEF Agrees
  <2> QED BY <2>1, <2>2
<1> QED BY <1>8 DEF e

LEMMA SpelledOutAgrees ==
  ASSUME NEW os \in Oses, NEW mods \in ModifierLists, mods # <<>>
  PROVE  Agrees(Press(os, "a", mods, SpelledOut("a", mods, os)))
<1> DEFINE e == Press(os, "a", mods, SpelledOut("a", mods, os))
<1>1. /\ e.key = [symbols |-> <<>>, down |-> <<>>, spelled |-> Names(mods, os),
                  braced |-> FALSE, name |-> "a"]
      /\ e.os = os /\ e.done = [key |-> "a", mods |-> mods]
  BY DEF Press, SpelledOut
<1> HIDE DEF e
<1>2. /\ e.key.spelled = Names(mods, os) /\ e.key.down = <<>> /\ e.key.name = "a"
      /\ e.done.key = "a" /\ e.done.mods = mods
  BY <1>1
<1>3. Names(mods, os) # <<>>
  BY NamesOfChord
<1>4. humanize_key(e.key, e.os).mods = Names(mods, os) /\ humanize_key(e.key, e.os).key = "a"
  BY <1>2, <1>3 DEF humanize_key, LabelKey
<1>5. cc_press(e.key).name = None
  BY <1>2, <1>3 DEF cc_press
<1>6. ToSet(Names(mods, os)) = {modifier_name(s, os) : s \in ToSet(mods)}
  BY NamesOfAll
<1>7. None # "a" /\ humanize_bare_key("a") = "a"
  BY KeysAreKeys DEF Keys, humanize_bare_key
<1>8. Agrees(e)
  BY <1>1, <1>2, <1>3, <1>4, <1>5, <1>6, <1>7 DEF Agrees
<1> QED BY <1>8 DEF e

(* However a key press is reported, on every system and with any modifiers: *)
(* its label and its command name the key and every modifier of the chord,  *)
(* but for the forward delete, the command of a chord that was spelled out  *)
(* and the label of one held down around a key in braces.                   *)
THEOREM PressesAgree == Spec => []PressAgrees
<1>1. StepInv => PressAgrees
  <2> SUFFICES ASSUME StepInv, Is("press") PROVE PressAgrees
    BY DEF PressAgrees
  <2>1. pc \notin {"idle", "dropped"}
    BY DEF StepInv, Recorded, Is
  <2>2. PICK e \in Events, ok \in BOOLEAN : event = Taken(e, ok) /\ text = Written(e)
    BY <2>1 DEF StepInv, Recorded
  <2>3. e.kind = "press"
    BY <2>2, TakenIsKnown DEF Is
  <2>4. e \in PressEvents
    <3>1. CASE e \in MouseEvents
      <4>1. \E done, mods, os, style : e = Report(done, mods, os, style)
        BY <3>1, MouseIsReport
      <4> QED BY <2>3, <4>1 DEF Report
    <3>2. CASE e \in TypeEvents
      <4>1. \E t \in Texts : \E n \in Cuts(t) :
              e = [kind |-> "type", captured |-> FALSE, text |-> SubSeq(t, 1, n),
                   done |-> [text |-> t]]
        BY <3>2, Zenon DEF TypeEvents
      <4> QED BY <2>3, <4>1
    <3>3. CASE e \in OtherEvents
      BY <2>3, <3>3 DEF OtherEvents
    <3> QED BY <3>1, <3>2, <3>3 DEF Events
  <2>5. Agrees(e)
    <3>1. CASE \E os \in Oses, key \in Keys : e = Press(os, key, <<>>, Bare(key, os))
      BY <3>1, BareAgrees
    <3>2. CASE \E os \in Oses, key \in Keys, mods \in ModifierLists \ {<<>>} :
                 e = Press(os, key, mods, Chord(key, mods))
      BY <3>2, ChordAgrees
    <3>3. CASE \E os \in Oses, key \in Keys, mods \in ModifierLists \ {<<>>} :
                 e = Press(os, key, mods, HeldDown(key, mods, os))
      BY <3>3, HeldDownAgrees
    <3>4. CASE \E os \in Oses, mods \in ModifierLists \ {<<>>} :
                 e = Press(os, "a", mods, SpelledOut("a", mods, os))
      BY <3>4, SpelledOutAgrees
    <3> QED BY <2>4, <3>1, <3>2, <3>3, <3>4 DEF PressEvents
  <2>6. \E os, key, mods, reported : e = Press(os, key, mods, reported)
    BY <2>4 DEF PressEvents
  <2>7. {"key", "done", "os"} \subseteq DOMAIN e
    BY <2>6 DEF Press
  <2>8. event.key = e.key /\ event.done = e.done /\ event.os = e.os
    BY <2>2, <2>7 DEF Taken
  <2>9. text.label = humanize_key(e.key, e.os) /\ text.command = cc_press(e.key)
    <3>1. Written(e) = [label |-> humanize_key(e.key, e.os), command |-> cc_press(e.key),
                        suspect |-> None]
      BY <2>3 DEF Written
    <3> QED BY <2>2, <3>1
  <2> QED BY <2>5, <2>8, <2>9 DEF Agrees, PressAgrees, ForwardDelete, NamesSpelled, KeyInBraces
<1> QED BY <1>1, StepInvariant, PTL
=============================================================================
