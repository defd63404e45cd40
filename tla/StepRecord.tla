----------------------------- MODULE StepRecord -----------------------------
(***************************************************************************)
(* One step of a recording: an event is converted and becomes a step, and   *)
(* VisionPipeline::process gets its frames from The-Eyes                    *)
(* (ma-core/src/capture/mod.rs, ma-core/src/vision/mod.rs).                 *)
(*                                                                         *)
(* Nothing but the step counter and metadata.json passes from one event to  *)
(* the next, so a behaviour is one event.  Times are ticks after the        *)
(* event's timestamp; the loop has the event at once, later makes no        *)
(* difference to what The-Eyes can have.  What an agent reports of a        *)
(* gesture is modelled from the comments and tests of convert/mod.rs.       *)
(***************************************************************************)
EXTENDS EventConversion, Integers, FiniteSets, TLC

CONSTANTS
    press_delay, type_delay, before_offset, after_delay,   \* in ticks
    ModifierLists,  \* modifiers held, in order
    Waypoints,      \* the waypoints of a drag
    MaxText         \* characters of a typed text

ASSUME DelaysAreTicks ==
    {press_delay, type_delay, before_offset, after_delay, MaxText} \subseteq Nat
ASSUME NoneIsNoFrame == None \notin {"frame", "marked", "junk", "error"}
ASSUME ModifiersAreSymbols == ModifierLists \subseteq Seq(Symbols)

VARIABLES
    vision,      \* is there a VisionPipeline
    event,       \* the event at work, with what was done
    pc,          \* where the loop is
    now,         \* time
    text,        \* label, command and suspicion that were written
    entry,       \* the step's entry in metadata.json
    fetched,     \* before, action and after: what The-Eyes answered
    asked,       \* the instants it was asked for
    frames       \* frames stored

vars == <<vision, event, pc, now, text, entry, fetched, asked, frames>>

Oses == {"MACOS", "WINDOWS", "LINUX"}

-----------------------------------------------------------------------------
(* What was done, and the report of it.                                     *)
Clicks == [verb : {"left", "click", "hold"}, from : {None}, via : {<<>>}, to : {None},
           count : {None}]
Scrolls == [verb : {"scroll_down"}, from : {None}, via : {<<>>}, to : {None}, count : {None, 1, 5}]
Drags == [verb : {"drag"}, from : {None, "origin"}, via : Waypoints, to : {"target"},
          count : {None}]
Others == [verb : {"zoom", "unprintable"}, from : {None}, via : {<<>>}, to : {None},
           count : {None}]

(* As the command the agent was given; a pointer gesture ends at the point  *)
(* the agent reads back.                                                    *)
Issued(done, mods) ==
    [Blank EXCEPT !.form = "command", !.mods = mods, !.verb = done.verb, !.count = done.count,
                  !.at = IF done.verb = "drag" THEN None ELSE "point",
                  !.from = done.from, !.via = done.via, !.to = done.to]

Word(is) == [k |-> "word", is |-> is]
Pair(at) == [k |-> "pair", at |-> at]

(* "sentence" is the usual report; "command" the one of an agent whose      *)
(* readback did not settle; "leaked" that of a server which leaves the      *)
(* symbols on the subtype and an agent which names no modifiers.  A drag    *)
(* may be told by its destination alone ("Dragged to X=...", "Held button   *)
(* at at X=..."), or with a pair whose numbers do not fit.                  *)
DragStyles == {"to", "held", "wild origin", "wild waypoint"}
Styles(done) ==
    {"sentence", "command", "leaked"} \cup
    {style \in DragStyles :
        /\ done.verb = "drag"
        /\ style = "wild waypoint" => done.via # <<>>
        /\ style # "wild waypoint" => done.from # None
        /\ style \in {"to", "held"} => done.via = <<>>}

(* What such a report tells of the gesture.                                 *)
Told(done, style) ==
    CASE style \in {"to", "held", "wild origin"} -> [done EXCEPT !.from = None]
      [] style = "wild waypoint" -> [done EXCEPT !.via = Tail(@)]
      [] OTHER -> done

(* "Dragged from X=..., Y=... via ... to ...", "Scrolled down 5 notches at  *)
(* X=...", "Left-clicked at X=...".                                         *)
Sentence(done, style) ==
    LET origin == CASE done.from = None \/ style = "to" -> <<>>
                    [] style = "wild origin" -> <<Word("from"), Pair(None)>>
                    [] OTHER -> <<Word("from"), Pair(done.from)>>
        waypoint(i) == <<Word("via"), Pair(IF style = "wild waypoint" /\ i = 1 THEN None
                                           ELSE done.via[i])>>
    IN  CASE done.verb = "drag" /\ style = "held" -> <<Pair(done.to)>>
          [] done.verb = "drag" /\ style # "held" ->
                origin \o FlattenSeq([i \in DOMAIN done.via |-> waypoint(i)])
                \o <<Word("to"), Pair(done.to)>>
          [] done.count # None -> <<[k |-> "notches", n |-> done.count], Pair("point")>>
          [] OTHER -> <<Pair("point")>>

Report(done, mods, os, style) ==
    [kind |-> "mouse", os |-> os, verb |-> done.verb,
     symbols |-> IF style = "leaked" THEN mods ELSE <<>>,
     captured |-> style # "command",
     at |-> IF done.verb = "drag" THEN "target" ELSE "point",
     raw |-> [names |-> IF style \in {"sentence"} \cup DragStyles THEN Names(mods, os) ELSE <<>>,
              body |-> IF style = "command"
                       THEN <<[k |-> "token", verb |-> done.verb, symbols |-> mods]>>
                       ELSE Sentence(done, style),
              issued |-> IF style = "command" THEN Issued(done, mods) ELSE None],
     told |-> Issued(Told(done, style), mods),
     done |-> Issued(done, mods)]

MouseEvents ==
    UNION {{Report(done, mods, os, style) :
                mods \in ModifierLists, os \in Oses, style \in Styles(done)} :
           done \in Clicks \cup Scrolls \cup Drags \cup Others}

(* Keys, by the name they have in a command.  A bare key is reported under  *)
(* the name the system has for it.                                          *)
Keys == {"a", "Enter", "Backspace", "Del", "PgUp", "+"}
ASSUME NoneIsNoKey ==
    None \notin Keys \cup {"Return", "Delete", "BackSpace", "ForwardDelete", "Page_Up", "Page Up"}

NativeName(key, os) ==
    CASE key = "Enter" /\ os # "WINDOWS" -> "Return"
      [] key = "Backspace" /\ os = "MACOS" -> "Delete"
      [] key = "Backspace" /\ os = "LINUX" -> "BackSpace"
      [] key = "Del" -> IF os = "MACOS" THEN "ForwardDelete" ELSE "Delete"
      [] key = "PgUp" /\ os # "WINDOWS" -> "Page_Up"
      [] OTHER -> key

(* A chord comes as "#+{Enter}", "{Cmd down}{Enter}{Cmd up}" or, with a     *)
(* character, "Cmd+Q".                                                      *)
IsBraced(key) == key \notin {"a", "+"}
Bare(key, os) == [symbols |-> <<>>, down |-> <<>>, spelled |-> <<>>, braced |-> FALSE,
                  name |-> NativeName(key, os)]
Chord(key, mods) == [symbols |-> mods, down |-> <<>>, spelled |-> <<>>,
                     braced |-> IsBraced(key), name |-> key]
HeldDown(key, mods, os) == [symbols |-> <<>>, down |-> Names(mods, os), spelled |-> <<>>,
                            braced |-> IsBraced(key), name |-> key]
SpelledOut(key, mods, os) == [symbols |-> <<>>, down |-> <<>>, spelled |-> Names(mods, os),
                              braced |-> FALSE, name |-> key]

Press(os, key, mods, reported) ==
    [kind |-> "press", os |-> os, captured |-> FALSE, key |-> reported,
     done |-> [key |-> key, mods |-> mods]]

PressEvents ==
    {Press(os, key, <<>>, Bare(key, os)) : os \in Oses, key \in Keys}
    \cup {Press(os, key, mods, Chord(key, mods)) :
            os \in Oses, key \in Keys, mods \in ModifierLists \ {<<>>}}
    \cup {Press(os, key, mods, HeldDown(key, mods, os)) :
            os \in Oses, key \in Keys, mods \in ModifierLists \ {<<>>}}
    \cup {Press(os, "a", mods, SpelledOut("a", mods, os)) :
            os \in Oses, mods \in ModifierLists \ {<<>>}}

(* Typed texts, whole or cut at a double quote.                             *)
Texts == UNION {[1 .. n -> {"d", "s", "b", " ", "w"}] : n \in 0 .. MaxText}
Cuts(t) == {Len(t)} \cup {i - 1 : i \in {j \in DOMAIN t : t[j] = "d"}}

TypeEvents ==
    UNION {{[kind |-> "type", captured |-> FALSE, text |-> SubSeq(t, 1, n),
             done |-> [text |-> t]] : n \in Cuts(t)} : t \in Texts}

(* Position queries, and actions the recorder does not know.                *)
OtherEvents == [kind : {"position", "other"}, captured : BOOLEAN]

Events == MouseEvents \cup PressEvents \cup TypeEvents \cup OtherEvents

-----------------------------------------------------------------------------
Slots == {"before", "at", "after"}
Nothing == [s \in Slots |-> None]
NoEntry == [image |-> FALSE, before |-> FALSE, after |-> FALSE, marked |-> FALSE,
            skipped |-> <<>>]
PCs == {"idle", "dropped", "fetch", "action", "after", "save_at", "save_before", "save_after",
        "done", "over"}

TypeOK ==
    /\ vision \in BOOLEAN
    /\ event = None \/ event.success \in BOOLEAN
    /\ pc \in PCs
    /\ now \in 0 .. Max({press_delay, type_delay}) + after_delay
    /\ entry \in [image : BOOLEAN, before : BOOLEAN, after : BOOLEAN, marked : BOOLEAN,
                  skipped : {<<>>} \cup {<<r>> : r \in {"command_failed", "no_trigger",
                                                        "fetch_failed"}}]
    /\ fetched \in [Slots -> {None, "frame", "junk", "error"}]
    /\ frames \in [Slots -> {None, "frame", "marked", "junk"}]

Init ==
    /\ vision \in BOOLEAN
    /\ event = None /\ pc = "idle" /\ now = 0
    /\ text = None /\ entry = NoEntry
    /\ fetched = Nothing /\ asked = Nothing /\ frames = Nothing

(* What the loop writes of an event, before any frame.                      *)
Written(e) ==
    CASE e.kind = "mouse" -> [label |-> convert_mouse(e), command |-> cc_mouse(e), suspect |-> None]
      [] e.kind = "press" -> [label |-> humanize_key(e.key, e.os), command |-> cc_press(e.key),
                              suspect |-> None]
      [] e.kind = "type" -> [label |-> e.text, command |-> e.text, suspect |-> inspect(e.text)]
      [] OTHER -> [label |-> "raw", command |-> "raw", suspect |-> None]

Decision_MarksAll(e) ==   \* every pointer action is marked
    CASE ~e.success -> [do |-> "skip", reason |-> "command_failed"]
      [] e.success /\ e.kind = "mouse" -> [do |-> "at", mark |-> TRUE]
      [] e.success /\ e.kind = "type" -> [do |-> "delayed", delay |-> type_delay]
      [] e.success /\ e.kind = "press" -> [do |-> "delayed", delay |-> press_delay]
      [] OTHER -> [do |-> "skip", reason |-> "no_trigger"]

(* decide.                                                                  *)
Decision(e) ==
    CASE ~e.success -> [do |-> "skip", reason |-> "command_failed"]
      [] e.success /\ e.kind = "mouse" -> [do |-> "at", mark |-> e.captured]
      [] e.success /\ e.kind = "type" -> [do |-> "delayed", delay |-> type_delay]
      [] e.success /\ e.kind = "press" -> [do |-> "delayed", delay |-> press_delay]
      [] OTHER -> [do |-> "skip", reason |-> "no_trigger"]

Delay == IF Decision(event).do = "delayed" THEN Decision(event).delay ELSE 0

Taken(e, ok) == [f \in DOMAIN e \cup {"success"} |-> IF f = "success" THEN ok ELSE e[f]]

(* No step is made of a position, nor of an event write_event fails for.    *)
DropEvent(e, ok) ==
    /\ pc = "idle"
    /\ event' = Taken(e, ok)
    /\ pc' = "dropped"
    /\ UNCHANGED <<vision, now, text, entry, fetched, asked, frames>>

(* The step exists before its frames do; without The-Eyes that is all.      *)
TakeEvent(e, ok) ==
    /\ pc = "idle" /\ e.kind # "position"
    /\ event' = Taken(e, ok)
    /\ text' = Written(e)
    /\ pc' = CASE ~vision -> "over"
               [] vision /\ Decision(event').do = "skip" -> "done"
               [] vision /\ Decision(event').do # "skip" -> "fetch"
    /\ UNCHANGED <<vision, now, entry, fetched, asked, frames>>

(* fetch_at.  The status of the answer is not looked at: the body of an     *)
(* error page counts as a frame.                                            *)
Answers == {"frame", "junk", "error"}

Ask(slot, at, answer) ==
    /\ fetched' = [fetched EXCEPT ![slot] = answer]
    /\ asked' = [asked EXCEPT ![slot] = [instant |-> at, time |-> now']]

(* Mouse: the frame before and the frame of the action, at once.            *)
FetchBoth(before, action) ==
    /\ pc = "fetch" /\ Decision(event).do = "at"
    /\ pc' = "after"
    /\ now' = now
    /\ fetched' = [fetched EXCEPT !["before"] = before, !["at"] = action]
    /\ asked' = [asked EXCEPT !["before"] = [instant |-> -before_offset, time |-> now],
                              !["at"] = [instant |-> 0, time |-> now]]
    /\ UNCHANGED <<vision, event, text, entry, frames>>

FetchBefore_NoWait(answer) ==   \* the sleep of the delay is left out
    /\ pc = "fetch" /\ Decision(event).do = "delayed"
    /\ pc' = "action"
    /\ now' = now
    /\ Ask("before", -before_offset, answer)
    /\ UNCHANGED <<vision, event, text, entry, frames>>

(* Keyboard: the frame before, while the screen is given time to react.     *)
FetchBefore(answer) ==
    /\ pc = "fetch" /\ Decision(event).do = "delayed"
    /\ pc' = "action"
    /\ now' = now + Delay
    /\ Ask("before", -before_offset, answer)
    /\ UNCHANGED <<vision, event, text, entry, frames>>

FetchAction(answer) ==
    /\ pc = "action"
    /\ pc' = "after"
    /\ now' = now
    /\ Ask("at", Delay, answer)
    /\ UNCHANGED <<vision, event, text, entry, frames>>

FetchAfter_WaitsTwice(answer) ==   \* the delay is slept again
    /\ pc = "after"
    /\ now' = now + Delay + after_delay
    /\ Ask("after", Delay + after_delay, answer)
    /\ pc' = IF fetched["at"] = "error" THEN "done" ELSE "save_at"
    /\ UNCHANGED <<vision, event, text, entry, frames>>

(* The frame after, a while later; without the frame of the action nothing  *)
(* is kept.                                                                 *)
FetchAfter(answer) ==
    /\ pc = "after"
    /\ now' = now + after_delay
    /\ Ask("after", Delay + after_delay, answer)
    /\ pc' = IF fetched["at"] = "error" THEN "done" ELSE "save_at"
    /\ UNCHANGED <<vision, event, text, entry, frames>>

(* save_at_marked draws on what decodes as an image; save_at takes any      *)
(* bytes.  Either may fail to store.                                        *)
SaveAt(stored) ==
    LET mark == Decision(event).do = "at" /\ Decision(event).mark
        kept == stored /\ (mark => fetched["at"] = "frame")
    IN  /\ pc = "save_at"
        /\ frames' = IF kept
                     THEN [frames EXCEPT !["at"] = IF mark THEN "marked" ELSE fetched["at"]]
                     ELSE frames
        /\ pc' = IF kept THEN "save_before" ELSE "done"
        /\ UNCHANGED <<vision, event, now, text, entry, fetched, asked>>

(* save_frame.                                                              *)
Save(slot, stored, next) ==
    /\ frames' = IF stored /\ fetched[slot] # "error"
                 THEN [frames EXCEPT ![slot] = fetched[slot]] ELSE frames
    /\ pc' = next
    /\ UNCHANGED <<vision, event, now, text, entry, fetched, asked>>

SaveBefore(stored) == pc = "save_before" /\ Save("before", stored, "save_after")
SaveAfter(stored) == pc = "save_after" /\ Save("after", stored, "done")

Complete == frames["at"] # None

EndOfStep_LeavesGap ==   \* only a skip is written down, not a failure
    /\ pc = "done"
    /\ entry' = IF Complete
                THEN [entry EXCEPT !.image = TRUE, !.marked = frames["at"] = "marked",
                                   !.before = frames["before"] # None,
                                   !.after = frames["after"] # None]
                ELSE [entry EXCEPT !.skipped =
                        IF Decision(event).do = "skip" THEN <<Decision(event).reason>> ELSE <<>>]
    /\ pc' = "over"
    /\ UNCHANGED <<vision, event, now, text, fetched, asked, frames>>

(* update_step_image or append_skipped_fetch.                               *)
EndOfStep ==
    /\ pc = "done"
    /\ entry' = IF Complete
                THEN [entry EXCEPT !.image = TRUE, !.marked = frames["at"] = "marked",
                                   !.before = frames["before"] # None,
                                   !.after = frames["after"] # None]
                ELSE [entry EXCEPT !.skipped =
                        <<IF Decision(event).do = "skip" THEN Decision(event).reason
                          ELSE "fetch_failed">>]
    /\ pc' = "over"
    /\ UNCHANGED <<vision, event, now, text, fetched, asked, frames>>

Next ==
    \/ pc = "idle" /\ \E e \in Events, ok \in BOOLEAN : DropEvent(e, ok) \/ TakeEvent(e, ok)
    \/ \E first, second \in Answers : FetchBoth(first, second)
    \/ \E answer \in Answers : FetchBefore(answer) \/ FetchAction(answer) \/ FetchAfter(answer)
    \/ \E stored \in BOOLEAN : SaveAt(stored) \/ SaveBefore(stored) \/ SaveAfter(stored)
    \/ EndOfStep

Spec == Init /\ [][Next]_vars

-----------------------------------------------------------------------------
Is(kind) == text # None /\ event.kind = kind
Points(done) == Len(done.via) + (IF done.from = None THEN 0 ELSE 1) + 1

(* A waypoint that cannot be read is passed over.                           *)
WaypointLost == event.told.via # event.done.via

(* Running the recorded command again does what was done, with the same     *)
(* modifiers, count and path; and where the report tells enough for that,   *)
(* the command can be run.  What cannot be run is no command: never a drag  *)
(* with an invented origin, nor a shorter one, but where a waypoint cannot  *)
(* be read (cc_mouse, scan_drag_path).                                      *)
ReplaysGesture ==
    Is("mouse") =>
        LET done == event.done
            runs == text.command.form = "command"
            told == event.told
        IN  /\ runs => /\ [text.command EXCEPT !.mods = <<>>] = [told EXCEPT !.mods = <<>>]
                       /\ ToSet(text.command.mods) = ToSet(done.mods)
                       /\ ~WaypointLost => told = done
            /\ ~event.captured => runs
            /\ event.captured /\ done.verb \in DOMAIN Actions \ {"drag"} => runs
            /\ done.verb = "drag" /\ told.from # None /\ Points(told) <= MAX_DRAG_POINTS => runs

(* The label names every modifier that was held, by the name of its system, *)
(* whichever of the three ways it was reported; and a path it gives has the *)
(* gesture's destination and, in their order, the points the report tells:  *)
(* one it does not tell is left out, never another (convert_mouse).         *)
LabelTellsGesture ==
    Is("mouse") =>
        LET done == event.done
            label == text.label
        IN  /\ ToSet(label.mods) = {modifier_name(s, event.os) : s \in ToSet(done.mods)}
            /\ label.at \in {None, done.at}
            /\ label.to = None => label.from = None /\ label.via = <<>>
            /\ label.to # None =>
                  label.from = event.told.from /\ label.via = event.told.via
                    /\ label.to = done.to
            /\ done.verb = "drag" /\ event.captured /\ Points(event.told) <= MAX_DRAG_POINTS
                  => label.to # None

(* A "Delete" from Linux or Windows, where the key deletes forwards.        *)
ForwardDelete == event.done.key = "Del" /\ event.key.name = "Delete"

(* "Cmd+Q", which becomes the command {Cmd+Q}; "{Cmd down}{Enter}{Cmd up}", *)
(* which becomes the label "Cmd+".                                          *)
NamesSpelled == event.key.spelled # <<>>
KeyInBraces == event.key.down # <<>> /\ event.key.braced

(* The label names every modifier of a chord; the command names them too,   *)
(* unless the report spelled their names.  Both name the key that was       *)
(* pressed, but for a forward delete, which both take for a Backspace; and  *)
(* one of them has no key, never another, where the report spelled names or *)
(* braced the key of a held-down chord (humanize_key, cc_press).            *)
PressAgrees ==
    Is("press") =>
        LET done == event.done
            label == text.label
            command == text.command
            names == {modifier_name(s, event.os) : s \in ToSet(done.mods)}
        IN  /\ ToSet(label.mods) = names
            /\ ~NamesSpelled =>
                  ToSet(command.symbols) = ToSet(done.mods) \/ ToSet(command.down) = names
            /\ command.name = None <=> NamesSpelled
            /\ label.key = None <=> KeyInBraces
            /\ ~ForwardDelete => /\ command.name \in {None, done.key}
                                 /\ label.key \in {None, humanize_bare_key(done.key)}
            /\ command.name # None /\ label.key # None =>
                  humanize_bare_key(command.name) = label.key

SlashesBefore(t, i) == Max({n \in 0 .. i - 1 : \A k \in 1 .. n : t[i - k] = "b"})
Live(t, i, quote) == t[i] = quote /\ SlashesBefore(t, i) % 2 = 0
LiveUpTo(t, i, quote) == Cardinality({k \in 1 .. i : Live(t, k, quote)})
Escape(t, i) ==
    LET run == SlashesBefore(t, i)
    IN  run % 2 = 1 /\ (run = i - 1 \/ t[i - 1 - run] = " ")

(* A text cut at the double quote that closes a quotation, or at one behind *)
(* an escape that stands alone, is suspected; an intact one whose quotes    *)
(* match is not (inspect, unescaped_quote_count, ends_with_lone_escape).    *)
CutIsSuspected ==
    Is("type") =>
        LET t == event.done.text
            at == Len(event.text) + 1
        IN  /\ at <= Len(t) /\ (Escape(t, at) \/ (Live(t, at, "d") /\ LiveUpTo(t, at, "d") % 2 = 0))
                  => text.suspect # None
            /\ at = Len(t) + 1 /\ ~Escape(t, at)
                  /\ (\A quote \in {"d", "s"} : LiveUpTo(t, Len(t), quote) % 2 = 0)
                  => text.suspect = None

(* The three frames are asked for in the order before, action, after, and   *)
(* none before its time has come: The-Eyes answers with the nearest frame   *)
(* it has, which would be an older one (process, process_delayed_fetch).    *)
FramesOfTheirTime ==
    /\ \A s \in Slots : asked[s] # None => asked[s].instant <= asked[s].time
    /\ asked["after"] # None =>
          asked["before"].instant <= asked["at"].instant
            /\ asked["at"].instant <= asked["after"].instant

(* With The-Eyes, a step that is over has its image, and then every frame   *)
(* it names was stored, or exactly one reason why not, and the right one: a *)
(* fetch only if a frame was due.  Without The-Eyes a step has neither, and *)
(* an event that is dropped makes no step (process, append_skipped_fetch).  *)
StepAccounted ==
    /\ pc # "over" \/ ~vision => entry = NoEntry
    /\ pc = "over" =>
        /\ event.kind # "position"
        /\ vision => (entry.image <=> entry.skipped = <<>>)
        /\ entry.image => frames["at"] # None
        /\ entry.before => frames["before"] # None
        /\ entry.after => frames["after"] # None
        /\ entry.skipped = <<"command_failed">> => ~event.success
        /\ entry.skipped = <<"no_trigger">> => event.success /\ event.kind = "other"
        /\ entry.skipped = <<"fetch_failed">> =>
              event.success /\ event.kind \in {"mouse", "press", "type"}

(* A mark is drawn on an image, at a position the agent has verified; an    *)
(* unverified one is recorded without (decide, save_at_marked).             *)
MarkIsVerified ==
    /\ frames["at"] = "marked" => event.captured /\ fetched["at"] = "frame"
    /\ entry.image /\ Is("mouse") => (entry.marked <=> event.captured)

-----------------------------------------------------------------------------
(* The inductive invariant.  The event at work and what was written of it.  *)
Recorded ==
    /\ vision \in BOOLEAN
    /\ pc = "idle" => event = None
    /\ pc \in {"idle", "dropped"} => text = None
    /\ pc # "idle" =>
          \E e \in Events, ok \in BOOLEAN :
             /\ event = Taken(e, ok)
             /\ pc # "dropped" => text = Written(e) /\ e.kind # "position"

(* Without a frame due the step is done; with one, the time that has passed *)
(* is that of the frame at work.                                            *)
Due == event.success /\ event.kind \in {"mouse", "press", "type"}
Clock ==
    /\ pc \in PCs \ {"idle", "dropped", "done", "over"} => Due
    /\ pc \in PCs \ {"idle", "dropped", "over"} => vision
    /\ pc \in {"idle", "fetch"} => now = 0
    /\ pc = "action" => Decision(event).do = "delayed"
    /\ pc \in {"action", "after"} => now = Delay
    /\ now \in 0 .. Max({press_delay, type_delay}) + after_delay

(* What was asked for, and when; what was answered.                         *)
AskedFor(slot, instant) ==
    asked[slot].instant = instant /\ asked[slot].time \in Int /\ instant <= asked[slot].time
AskedByNow ==
    /\ asked = [s \in Slots |-> asked[s]]
    /\ pc \in {"idle", "fetch"} => asked = Nothing
    /\ asked["before"] # None => AskedFor("before", -before_offset)
    /\ asked["at"] # None => AskedFor("before", -before_offset) /\ AskedFor("at", Delay)
    /\ asked["after"] # None =>
          /\ AskedFor("before", -before_offset) /\ AskedFor("at", Delay)
          /\ AskedFor("after", Delay + after_delay)
    /\ pc = "action" => AskedFor("before", -before_offset)
    /\ pc = "after" => AskedFor("before", -before_offset) /\ AskedFor("at", Delay)
Answered ==
    /\ fetched \in [Slots -> {None} \cup Answers]
    /\ pc = "action" => fetched["before"] \in Answers
    /\ pc = "after" => fetched["before"] \in Answers /\ fetched["at"] \in Answers
    /\ pc \in {"save_at", "save_before", "save_after"} =>
          fetched \in [Slots -> Answers] /\ fetched["at"] # "error"

(* What was stored: nothing before the frame of the action, which carries   *)
(* the mark if it is due one.                                               *)
Stored ==
    /\ frames \in [Slots -> {None, "frame", "marked", "junk"}]
    /\ pc \notin {"save_before", "save_after", "done", "over"} => frames = Nothing
    /\ pc \in {"save_before", "save_after"} => frames["at"] # None
    /\ Complete => /\ Due
                   /\ event.kind = "mouse" => (frames["at"] = "marked" <=> event.captured)
    /\ frames["at"] = "marked" =>
          event.kind = "mouse" /\ event.captured /\ fetched["at"] = "frame"

Closed ==
    /\ pc # "over" \/ ~vision => entry = NoEntry
    /\ pc = "over" /\ vision =>
          entry = IF Complete
                  THEN [NoEntry EXCEPT !.image = TRUE, !.marked = frames["at"] = "marked",
                                       !.before = frames["before"] # None,
                                       !.after = frames["after"] # None]
                  ELSE [NoEntry EXCEPT !.skipped =
                          <<IF Decision(event).do = "skip" THEN Decision(event).reason
                            ELSE "fetch_failed">>]

StepInv == pc \in PCs /\ Recorded /\ Clock /\ AskedByNow /\ Answered /\ Stored /\ Closed
=============================================================================
