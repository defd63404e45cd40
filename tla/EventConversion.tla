--------------------------- MODULE EventConversion ---------------------------
(***************************************************************************)
(* What is written of one event from Control-Center: the label people read  *)
(* (converted_input.md), the command a machine runs again                   *)
(* (cc_commands.json) and the suspicion that a typed text was cut           *)
(* (ma-core/src/convert/mod.rs, ma-core/src/capture/fidelity.rs).           *)
(*                                                                         *)
(* A string is modelled by its parse.  What a mouse event reports is a      *)
(* sequence of names joined by "+" and a body of elements: words,           *)
(* coordinate pairs, a count of notches, and action tokens with the symbols *)
(* in front of them.  A key string is its symbols, the names in its         *)
(* "{... down}" tokens, the names spelled out before the key ("Cmd+Q"), and *)
(* the key, in braces or not.  A text is a sequence of the kinds of         *)
(* characters Inspect tells apart.                                          *)
(***************************************************************************)
EXTENDS Naturals, Sequences, SequencesExt

CONSTANTS
    MAX_DRAG_POINTS,
    None

-----------------------------------------------------------------------------
(* Modifiers: a symbol in a command is one key, with a name on each system. *)
Symbols == {"^", "+", "!", "#"}

MOUSE_MODIFIERS_NoAlt ==   \* the name most systems give the key is forgotten
    [Cmd |-> "#", Win |-> "#", Super |-> "#", Ctrl |-> "^", Shift |-> "+",
     Option |-> "!"]

MOUSE_MODIFIERS ==
    [Cmd |-> "#", Win |-> "#", Super |-> "#", Ctrl |-> "^", Shift |-> "+",
     Option |-> "!", Alt |-> "!"]

modifier_name(symbol, os) ==
    CASE symbol = "^" -> "Ctrl"
      [] symbol = "+" -> "Shift"
      [] symbol = "!" -> IF os = "MACOS" THEN "Option" ELSE "Alt"
      [] symbol = "#" -> CASE os = "MACOS" -> "Cmd"
                           [] os = "WINDOWS" -> "Win"
                           [] OTHER -> "Super"

Names(symbols, os) ==
    LET name(i) == modifier_name(symbols[i], os)
    IN  [i \in DOMAIN symbols |-> name(i)]

(* The leading names that are modifiers; the first that is not ends them.   *)
split_mouse_modifiers(raw) ==
    LET known == {n \in 0 .. Len(raw.names) :
                    \A i \in 1 .. n : raw.names[i] \in DOMAIN MOUSE_MODIFIERS}
    IN  SubSeq(raw.names, 1, Max(known))

(* The symbols before the first token that ends in the verb, as names.      *)
modifiers_from_command_form(body, verb, os) ==
    LET at == {i \in DOMAIN body : /\ body[i].k = "token"
                                   /\ body[i].verb = verb
                                   /\ body[i].symbols # <<>>}
    IN  IF verb = "" \/ at = {} THEN <<>> ELSE Names(body[Min(at)].symbols, os)

(* What a mouse event's modifiers are called, by the first source that has  *)
(* any: the sentence, the command form, a prefix left on the subtype.       *)
LabelModifiers(event) ==
    LET named == split_mouse_modifiers(event.raw)
        typed == modifiers_from_command_form(event.raw.body, event.verb, event.os)
        leaked == Names(event.symbols, event.os)
    IN  CASE named # <<>> -> named
          [] typed # <<>> -> typed
          [] OTHER -> leaked

(* The symbols the command takes.                                           *)
CommandModifiers(event) ==
    LET named == split_mouse_modifiers(event.raw)
    IN  IF named # <<>> THEN [i \in DOMAIN named |-> MOUSE_MODIFIERS[named[i]]]
        ELSE event.symbols

-----------------------------------------------------------------------------
(* The count of the first "N notches".                                      *)
scan_notches(body) ==
    LET at == {i \in DOMAIN body : body[i].k = "notches"}
    IN  IF at = {} THEN None ELSE body[Min(at)].n

NoPath == [from |-> None, via |-> <<>>, to |-> None, clause |-> "", seen |-> 0]

(* One element of a drag's sentence.  A keyword says which clause the next  *)
(* pair is of; a pair whose numbers cannot be read ends its clause.         *)
ScanElement_StraightLine(path, e) ==   \* waypoints are passed over
    CASE e.k = "word" -> [path EXCEPT !.clause = e.is]
      [] e.k = "pair" /\ e.at # None /\ path.clause # "via" ->
            LET next == [path EXCEPT !.clause = "", !.seen = @ + 1]
            IN  IF path.clause = "from" THEN [next EXCEPT !.from = e.at]
                ELSE [next EXCEPT !.to = e.at]
      [] OTHER -> path

ScanElement(path, e) ==
    CASE e.k = "word" -> [path EXCEPT !.clause = e.is]
      [] e.k = "pair" /\ e.at = None -> [path EXCEPT !.clause = ""]
      [] e.k = "pair" /\ e.at # None ->
            LET next == [path EXCEPT !.clause = "", !.seen = @ + 1]
            IN  CASE path.clause = "from" -> [next EXCEPT !.from = e.at]
                  [] path.clause = "via" -> [next EXCEPT !.via = Append(@, e.at)]
                  [] OTHER -> [next EXCEPT !.to = e.at]
      [] OTHER -> path

(* scan_drag_path: a path, one with too many points, or none.               *)
scan_drag_path(body) == FoldLeft(ScanElement, NoPath, body)
TooLong(path) == path.seen > MAX_DRAG_POINTS
Absent(path) == ~TooLong(path) /\ path.to = None

-----------------------------------------------------------------------------
(* Labels and commands.  "form" says what kind of text it is: a described   *)
(* gesture, a runnable command, a report that the path is too long, or the  *)
(* text the agent sent.                                                     *)
Blank == [form |-> "raw", mods |-> <<>>, verb |-> None, count |-> None, at |-> None,
          from |-> None, via |-> <<>>, to |-> None]

Actions ==
    [left |-> "Left-click", click |-> "Left-click", right |-> "Right-click",
     double |-> "Double-click", middle |-> "Middle-click", triple |-> "Triple-click",
     move |-> "Move-cursor", scroll_up |-> "Scroll-up", scroll_down |-> "Scroll-down",
     scroll_left |-> "Scroll-left", scroll_right |-> "Scroll-right",
     drag |-> "Drag", hold |-> "Hold", release |-> "Release"]

(* An unknown verb is shown as it is when it looks like one.                *)
safe_subtype(verb) == IF verb = "unprintable" THEN "unknown-action" ELSE verb

Drag(form, mods, path) ==
    [Blank EXCEPT !.form = form, !.mods = mods, !.verb = "drag", !.from = path.from,
                  !.via = path.via, !.to = path.to]

convert_mouse(event) ==
    LET path == scan_drag_path(event.raw.body)
        mods == LabelModifiers(event)
        label == [Blank EXCEPT !.form = "gesture", !.mods = mods]
    IN  CASE event.verb = "drag" /\ TooLong(path) ->
                [label EXCEPT !.form = "too long", !.verb = "drag"]
          [] event.verb = "drag" /\ ~TooLong(path) /\ ~Absent(path) -> Drag("gesture", mods, path)
          [] OTHER ->
                [label EXCEPT
                    !.verb = IF event.verb \in DOMAIN Actions THEN event.verb
                             ELSE safe_subtype(event.verb),
                    !.count = scan_notches(event.raw.body),
                    !.at = IF event.captured THEN event.at ELSE None]

(* The text of the agent; without its label it is the command as issued     *)
(* when the agent reported the command.                                     *)
fallback_command(raw) == IF raw.issued = None THEN Blank ELSE raw.issued

cc_mouse(event) ==
    LET path == scan_drag_path(event.raw.body)
        symbols == CommandModifiers(event)
    IN  CASE event.verb \in DOMAIN Actions \ {"drag"} /\ event.captured ->
                [Blank EXCEPT !.form = "command", !.mods = symbols, !.verb = event.verb,
                              !.count = scan_notches(event.raw.body), !.at = event.at]
          [] event.verb = "drag" /\ TooLong(path) -> [Blank EXCEPT !.form = "too long"]
          [] event.verb = "drag" /\ ~TooLong(path) /\ ~Absent(path) /\ path.from # None ->
                Drag("command", symbols, path)
          [] OTHER -> fallback_command(event.raw)

-----------------------------------------------------------------------------
(* Keys.  A key string with "{... down}" tokens names its modifiers itself. *)
DownName(name) ==
    CASE name \in {"Ctrl", "Control"} -> "Ctrl"
      [] name \in {"Cmd", "Command"} -> "Cmd"
      [] OTHER -> name

humanize_bare_key(name) ==
    CASE name \in {"Return", "Enter"} -> "Enter"
      [] name \in {"Delete", "BackSpace", "Backspace"} -> "Backspace"
      [] name \in {"ForwardDelete", "Del"} -> "Delete"
      [] name \in {"Escape", "Esc"} -> "Escape"
      [] name \in {"Space", "space"} -> "Space"
      [] name \in {"Page_Up", "Prior", "PgUp"} -> "Page Up"
      [] name \in {"Page_Down", "Next", "PgDn"} -> "Page Down"
      [] OTHER -> name

(* The key of a label.  Among "{... down}" tokens only what is outside of   *)
(* braces counts; behind spelled names the string is taken as it is.        *)
LabelKey(key) ==
    CASE key.spelled # <<>> -> key.name
      [] key.spelled = <<>> /\ key.down # <<>> /\ key.braced -> None
      [] OTHER -> humanize_bare_key(key.name)

humanize_key_FirstOnly(key, os) ==   \* one leading symbol is a modifier, the next is not
    [mods |-> CASE key.spelled # <<>> -> key.spelled
                [] key.down # <<>> -> [i \in DOMAIN key.down |-> DownName(key.down[i])]
                [] OTHER -> IF key.symbols = <<>> THEN <<>> ELSE Names(<<key.symbols[1]>>, os),
     key |-> LabelKey(key)]

(* A lone symbol is the key; every other leading symbol is a modifier.      *)
humanize_key(key, os) ==
    [mods |-> CASE key.spelled # <<>> -> key.spelled
                [] key.down # <<>> -> [i \in DOMAIN key.down |-> DownName(key.down[i])]
                [] OTHER -> Names(key.symbols, os),
     key |-> LabelKey(key)]

normalize_key(name) ==
    CASE name \in {"Return", "Enter"} -> "Enter"
      [] name \in {"Delete", "BackSpace", "Backspace"} -> "Backspace"
      [] name = "ForwardDelete" -> "Del"
      [] name = "Escape" -> "Esc"
      [] name \in {"Space", "space"} -> "Space"
      [] name \in {"Page_Up", "Prior", "PgUp"} -> "PgUp"
      [] name \in {"Page_Down", "Next", "PgDn"} -> "PgDn"
      [] OTHER -> name

is_modifier_combo(key) ==
    key.symbols # <<>> \/ key.down # <<>> \/ key.braced \/ key.name \in Symbols

(* A string of spelled names is braced as a whole, "{Cmd+Q}": no key has    *)
(* that name.                                                               *)
cc_press(key) ==
    [symbols |-> key.symbols, down |-> key.down,
     name |-> CASE key.spelled # <<>> -> None
                [] key.spelled = <<>> /\ is_modifier_combo(key) -> key.name
                [] OTHER -> normalize_key(key.name)]

-----------------------------------------------------------------------------
(* The suspicion of a cut text.  Characters: "d" and "s" are the double and *)
(* the single quote, "b" a backslash, " " a space, "w" anything else.       *)
Quotes_NoReset(text, quote) ==   \* backslashes before an earlier character count too
    LET step(a, ch) ==
            IF ch = "b" THEN [a EXCEPT !.slashes = @ + 1]
            ELSE [a EXCEPT !.count = IF ch = quote /\ a.slashes % 2 = 0 THEN @ + 1 ELSE @]
    IN  FoldLeft(step, [count |-> 0, slashes |-> 0], text).count

unescaped_quote_count(text, quote) ==
    LET step(a, ch) ==
            IF ch = "b" THEN [a EXCEPT !.slashes = @ + 1]
            ELSE [count |-> IF ch = quote /\ a.slashes % 2 = 0 THEN a.count + 1 ELSE a.count,
                  slashes |-> 0]
    IN  FoldLeft(step, [count |-> 0, slashes |-> 0], text).count

ends_with_lone_escape(text) ==
    LET run == Max({n \in 0 .. Len(text) :
                      \A i \in 1 .. n : text[Len(text) + 1 - i] = "b"})
    IN  run % 2 = 1 /\ (run = Len(text) \/ text[Len(text) - run] = " ")

(* The check that fires for a text behind its "Typed: ".                    *)
inspect(text) ==
    IF text = <<>> THEN None
    ELSE IF ends_with_lone_escape(text) THEN "dangling-escape"
    ELSE IF unescaped_quote_count(text, "d") % 2 = 1 THEN "unbalanced-double-quote"
    ELSE IF unescaped_quote_count(text, "s") % 2 = 1 THEN "unbalanced-single-quote"
    ELSE None
=============================================================================
