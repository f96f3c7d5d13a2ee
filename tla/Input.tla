-------------------------------- MODULE Input --------------------------------
(***************************************************************************)
(* Everything that presses keys of the CPC: the user's keyboard and pads   *)
(* (retro_events.c), the virtual keyboard (retro_keyboard.c, retro_ui.c)   *)
(* and the automatic typing of commands (kbdauto.c), which take turns by   *)
(* three pointers to handlers (ev_set) and all write keyboard_matrix.      *)
(*                                                                         *)
(* One call of retro_run (Run): the machine runs for a frame and reads the *)
(* matrix, the handler in place reads the pads, the user interface is run. *)
(* Between two calls the front end reports keys (Key, Hotkey), it may      *)
(* reset the machine, change options or insert a tape.                     *)
(*                                                                         *)
(* Left out: key combinations that do not touch the matrix (tape, disk,    *)
(* menu), the menu, light guns, the pointer's click, which goes the way of *)
(* the pad's, and player 1 as an Amstrad keyboard without combinations.    *)
(***************************************************************************)
EXTENDS Integers, Sequences, SequencesExt

CONSTANTS
  Keys, Shift, Control,
  KeysOf,        \* the keys of a character: its own, and Shift for some
  Loader,        \* loader_buffer, the text typed after a reset
  Command,       \* what a combination of buttons types
  Pads,          \* the buttons, <<player, button>>
  Maps,          \* the possible assignments of keys to some of the buttons (btnPAD)
  Combo, Writes, Toggles, Click,  \* player 1's button for combinations; the ones that with
                                  \* it type Command and switch the virtual keyboard; the one
                                  \* that clicks on it
  UserKeys,      \* keys the user's keyboard has
  ScreenKeys,    \* keys of the virtual keyboard the cursor may be on
  Delay, Loops,  \* EMULATION_INIT_AUTORUNDELAY, LOOPS_TO_WAIT
  Hosts          \* bound on resets, option changes and tapes

NoKey == "none"
Specials == {"play", "wait", "stop"}   \* circumflex, tilde and backquote
ASSUME KeyAssumption ==
  /\ Shift \in Keys /\ UserKeys \cup ScreenKeys \subseteq Keys /\ NoKey \notin Keys
  /\ \A c \in DOMAIN KeysOf : c \notin Specials \cup {"end"} /\ KeysOf[c] \in SUBSET Keys
  /\ \A c \in DOMAIN KeysOf : KeysOf[c] \ {Shift} # {}      \* keys to see it by
  /\ {Loader, Command} \subseteq Seq(DOMAIN KeysOf \cup Specials)
  /\ \A m \in Maps : m \in [DOMAIN m -> Keys] /\ DOMAIN m \subseteq Pads
  /\ \A m, n \in Maps : DOMAIN m = DOMAIN n
  /\ \A m \in Maps : IsInjective(m)    \* no key on two buttons: their order would matter
ASSUME BoundAssumption == {Delay, Loops, Hosts} \subseteq Nat

VARIABLES
  matrix,   \* keyboard_matrix: the keys that are down
  events,   \* the handlers in place (mode, as event_call), autorun, the event of the buttons
            \* in progress
  typist,   \* kbdauto.c and ev_autorun
  user,     \* keys and buttons held (last_input), the assignment of the buttons
  screen,   \* the virtual keyboard
  calls,    \* resets, option changes and tapes so far
  seen      \* history: the matrix at the last frame, the keys typed in this text, whether
            \* anything else interfered with it, and the keys nobody will release

vars == <<matrix, events, typist, user, screen, calls, seen>>

TypeKeys(c) == KeysOf[c]
Ended(t) == t.pos > Len(t.text)
Current(t) == IF Ended(t) THEN "end" ELSE t.text[t.pos]
TypedKeys(t) == IF t.old THEN TypeKeys(Current(t)) ELSE {}

(***************************************************************************)
(* Automatic typing: s = [matrix, typist, done] before and after.          *)
(***************************************************************************)
kbd_buf_feed_KeepOld(t, text) ==                                       \* mutant
  [t EXCEPT !.text = text, !.pos = 1, !.wait_loop = Loops]
kbd_buf_feed(t, text) == [t EXCEPT !.text = text, !.pos = 1, !.old = FALSE, !.wait_loop = Loops]

Press(s) == [s EXCEPT !.matrix = @ \cup TypeKeys(Current(s.typist)), !.typist.old = TRUE]
Release_KeepShift(s) ==                                                \* mutant
  [s EXCEPT !.matrix = @ \ (TypeKeys(Current(s.typist)) \ {Shift}), !.typist.old = FALSE,
            !.typist.pos = @ + 1]
Release(s) ==
  [s EXCEPT !.matrix = @ \ TypeKeys(Current(s.typist)), !.typist.old = FALSE, !.typist.pos = @ + 1]
Wait(s) ==
  IF s.typist.wait_loop > 0 THEN [s EXCEPT !.typist.wait_loop = @ - 1]
  ELSE [s EXCEPT !.typist.wait_loop = Loops, !.typist.pos = @ + 1]
Clean_Silent(s) == [s EXCEPT !.matrix = {}]                            \* mutant
Clean(s) == [s EXCEPT !.matrix = {}, !.done = TRUE]

\* A character may end at once and the next begin: the machine would not see the key go up.
kbd_buf_update_Hasty(s) ==                                             \* mutant
  LET next(r) == IF Current(r.typist) \in Specials \cup {"end"} THEN r ELSE Press(r)
  IN CASE Current(s.typist) = "play" -> [s EXCEPT !.typist.pos = @ + 1]
       [] Current(s.typist) = "wait" -> Wait(s)
       [] Current(s.typist) \in {"stop", "end"} -> Clean(s)
       [] OTHER -> IF s.typist.old THEN next(Release(s)) ELSE Press(s)
kbd_buf_update(s) ==
  CASE Current(s.typist) = "play" -> [s EXCEPT !.typist.pos = @ + 1]
    [] Current(s.typist) = "wait" -> Wait(s)
    [] Current(s.typist) \in {"stop", "end"} -> Clean(s)
    [] OTHER -> IF s.typist.old THEN Release(s) ELSE Press(s)

(***************************************************************************)
(* Handlers: p = [matrix, events, typist, user, screen, seen]              *)
(* before and after.                                                       *)
(***************************************************************************)
ev_set(p, mode) == [p EXCEPT !.events.mode = mode]
ev_toggle_call(p) ==
  [ev_set(p, IF p.events.mode = "JOY" THEN "KBD" ELSE "JOY")
    EXCEPT !.screen.shown = ~@, !.seen.alone = FALSE]
\* kbd_buf_feed forgets a key it has pressed.
Feed(p, text) ==
  [p EXCEPT !.typist = kbd_buf_feed(@, text), !.events.mode = "AUTO",
            !.seen.left = @ \cup TypedKeys(p.typist), !.seen.typed = <<>>, !.seen.matrix = {},
            !.seen.alone = p.matrix = {}]
ev_autorun_prepare(p, text) ==
  [Feed(p, text) EXCEPT !.typist.delay = Delay, !.typist.wait_computer = TRUE]

ev_autorun(p) ==
  LET t == p.typist
      s == kbd_buf_update([matrix |-> p.matrix, done |-> FALSE,
                           typist |-> [t EXCEPT !.wait_computer = FALSE]])
      q == [p EXCEPT !.matrix = s.matrix, !.typist = s.typist]
  IN IF t.delay > 0 THEN [p EXCEPT !.typist.delay = @ - 1]
     ELSE IF ~t.wait_computer THEN [p EXCEPT !.typist.wait_computer = TRUE]
     ELSE IF ~s.done THEN q
     ELSE [ev_set(q, "JOY") EXCEPT !.typist.delay = Delay, !.typist.wait_computer = TRUE,
                                   !.seen.alone = FALSE]

\* The buttons of one player.
process_joy(p, player, pad) ==
  LET buttons == {b \in DOMAIN p.user.map : b[1] = player}
      down == (buttons \cap pad) \ p.user.held
      up == (buttons \ pad) \cap p.user.held
  IN [p EXCEPT !.matrix = (@ \ {p.user.map[b] : b \in up}) \cup {p.user.map[b] : b \in down},
               !.user.held = (@ \ up) \cup down]

\* A combination acts once, until its button Combo is released.
Combination(p, pad) ==
  LET acted(q) == [q EXCEPT !.events.event = TRUE]
  IN IF p.events.event THEN p
     ELSE IF pad \cap Writes # {} THEN acted(Feed(p, Command))
     ELSE IF pad \cap Toggles # {} THEN acted(ev_toggle_call(p))
     ELSE p
events_joy(p, pad) ==
  IF Combo \in pad THEN Combination(p, pad) ELSE [p EXCEPT !.events.event = FALSE]
ev_joysticks(p, pad) ==
  LET q == process_joy(p, 2, pad)
  IN IF Combo \in pad \/ p.events.event THEN events_joy(q, pad) ELSE process_joy(q, 1, pad)

process_events(p, pad) ==
  CASE p.events.mode = "AUTO" -> ev_autorun(p)
    [] p.events.mode = "JOY"  -> ev_joysticks(p, pad)
    [] p.events.mode = "KBD"  -> events_joy(p, pad)

(***************************************************************************)
(* The virtual keyboard, the cursor on the given key.                      *)
(***************************************************************************)
ClickOn(p, key) ==
  LET compose == p.screen.composed = NoKey /\ key \in {Shift, Control}
      release == ~compose /\ p.screen.composed # NoKey
  IN IF key = NoKey THEN [p EXCEPT !.screen.last = key]
     ELSE [p EXCEPT !.screen.last = key,
                    !.screen.composed = IF compose THEN key ELSE IF release THEN NoKey ELSE @,
                    !.matrix = (IF release THEN @ \ {p.screen.composed} ELSE @) \cup {key}]
ClickOff(p) ==
  IF p.screen.last = NoKey \/ p.screen.composed # NoKey THEN p
  ELSE [p EXCEPT !.matrix = @ \ {p.screen.last}, !.screen.last = NoKey]
\* A key whose click has not ended when the next begins is forgotten.
keyboard_mouse_click(p, key) ==
  LET q == IF p.screen.clicked THEN ClickOn(p, key) ELSE ClickOff(p)
  IN [q EXCEPT !.seen.alone = @ /\ q.matrix = p.matrix,
               !.seen.left = IF p.screen.clicked THEN @ \cup ({p.screen.last} \ {NoKey}) ELSE @]

\* retro_ui_process, with the status bar on display or not: the click of the previous frame,
\* then whether there is a new one.
retro_ui_process(p, pad, bar, key) ==
  LET q == IF ~p.screen.pending \/ ~(p.screen.shown \/ bar) THEN p
           ELSE [(IF p.screen.shown THEN keyboard_mouse_click(p, key) ELSE p)
                  EXCEPT !.screen.pending = FALSE]
  IN IF q.screen.shown /\ q.screen.clicked # (Click \in pad)
     THEN [q EXCEPT !.screen.clicked = ~@, !.screen.pending = TRUE]
     ELSE q

\* The machine runs for a frame and looks at the matrix.
Look(s, down) ==
  IF ~(s.alone /\ events.mode = "AUTO") THEN s
  ELSE [s EXCEPT !.matrix = down,
                 !.typed = IF (down \ s.matrix) \ {Shift} # {} THEN Append(@, down) ELSE @]

(***************************************************************************)
(* The specification                                                       *)
(***************************************************************************)
Now == [matrix |-> matrix, events |-> events, typist |-> typist, user |-> user,
        screen |-> screen, seen |-> seen]
Become(outcome) == \E p \in {outcome} :
  /\ matrix' = p.matrix /\ events' = p.events /\ typist' = p.typist
  /\ user' = p.user /\ screen' = p.screen
  /\ seen' = [p.seen EXCEPT !.left = @ \cap p.matrix,
                            !.matrix = IF p.seen.alone THEN @ ELSE {},
                            !.typed = IF p.seen.alone THEN @ ELSE <<>>]

Init ==
  /\ matrix = {}
  /\ \E auto \in BOOLEAN, text \in {<<>>, Loader} :   \* of the content, if it has one
       /\ events = [mode |-> IF auto \/ text # <<>> THEN "AUTO" ELSE "JOY", autorun |-> auto,
                    event |-> FALSE]
       /\ typist = [text |-> text, pos |-> 1, old |-> FALSE, delay |-> Delay,
                    wait_computer |-> TRUE, wait_loop |-> IF text = <<>> THEN 0 ELSE Loops]
  /\ \E m \in Maps : user = [keys |-> {}, held |-> {}, map |-> m]
  /\ screen = [shown |-> FALSE, last |-> NoKey, composed |-> NoKey, clicked |-> FALSE,
               pending |-> FALSE]
  /\ calls = 0
  /\ seen = [matrix |-> {}, typed |-> <<>>, alone |-> TRUE, left |-> {}]

\* keyboard_cb.  Only the handler of EV_JOY passes keys on.
Key ==
  /\ \E k \in UserKeys :
       LET up == k \in user.keys
           heard == events.mode = "JOY"
       IN Become([Now EXCEPT
            !.user.keys = IF up THEN @ \ {k} ELSE @ \cup {k},
            !.matrix = IF ~heard THEN @ ELSE IF up THEN @ \ {k} ELSE @ \cup {k},
            !.seen.left = IF up /\ ~heard THEN @ \cup {k} ELSE @])
  /\ UNCHANGED calls
\* F9 pressed and released.
Hotkey == /\ Become(ev_toggle_call(Now))
          /\ UNCHANGED calls

\* Pads and the cursor take a value only where they are looked at.
Read == IF events.mode # "AUTO" THEN Pads ELSE IF screen.shown THEN {Click} ELSE {}
Pointed == IF screen.pending THEN ScreenKeys \cup {NoKey} ELSE {NoKey}
Bars == IF screen.pending THEN BOOLEAN ELSE {FALSE}
Run ==
  /\ UNCHANGED calls
  /\ \E pad \in SUBSET Read, key \in Pointed, bar \in Bars :
       LET p == [Now EXCEPT !.seen = Look(@, matrix)]
       IN Become(retro_ui_process(process_events(p, pad), pad, bar, key))

Called == calls < Hosts /\ calls' = calls + 1
computer_reset(p) == IF p.events.autorun THEN ev_autorun_prepare(p, Loader) ELSE p
Cleared(p) == [p EXCEPT !.matrix = {}, !.seen.alone = FALSE]
Reset == Called /\ Become(computer_reset(Cleared(Now)))
\* update_variables: any change sets the handlers and the buttons; one of the machine resets it.
Options ==
  /\ Called
  /\ \E auto, machine \in BOOLEAN, m \in Maps :
       LET moved == {user.map[b] : b \in {c \in user.held : user.map[c] # m[c]}}
           p == [ev_set(Now, IF auto THEN "AUTO" ELSE "JOY")
                  EXCEPT !.events.autorun = auto, !.user.map = m, !.seen.left = @ \cup moved,
                         !.seen.alone = @ /\ auto /\ events.mode = "AUTO"]
       IN Become(IF machine THEN computer_reset(Cleared(p)) ELSE p)
\* A tape is inserted through the disk control interface.
InsertTape == Called /\ Become(ev_autorun_prepare(Now, Loader))

Next == Run \/ Key \/ Hotkey \/ Reset \/ Options \/ InsertTape
\* The front end calls retro_run for ever: while a text is typed, frames advance it.
Typing == LET p == ev_autorun(Now)
          IN events.mode = "AUTO" /\ events' = p.events /\ typist' = p.typist
Spec == Init /\ [][Next]_vars /\ WF_<<events, typist>>(Typing)

(***************************************************************************)
(* Properties                                                              *)
(***************************************************************************)
Texts == {<<>>, Loader, Command}
Modes == {"AUTO", "JOY", "KBD"}
TypeOK ==
  /\ matrix \subseteq Keys
  /\ events \in [mode : Modes, autorun : BOOLEAN, event : BOOLEAN]
  /\ typist.text \in Texts /\ typist.pos \in 1 .. Len(typist.text) + 1
  /\ typist.old \in BOOLEAN /\ typist.old => Current(typist) \in DOMAIN KeysOf
  /\ typist.delay \in 0 .. Delay /\ typist.wait_loop \in 0 .. Loops
  /\ user.keys \subseteq UserKeys /\ user.map \in Maps /\ user.held \subseteq DOMAIN user.map
  /\ screen.last \in ScreenKeys \cup {NoKey} /\ screen.composed \in {NoKey, Shift, Control}
  /\ calls \in 0 .. Hosts /\ seen.left \subseteq matrix

(***************************************************************************)
(* A key is down only because somebody holds it (the user's keyboard, a    *)
(* button, a click, the typist) or because its release got lost, which     *)
(* happens in five ways: released while another handler was in place, a    *)
(* text fed or abandoned in the middle of a character, a button given      *)
(* another key while held, and a click that began before the last ended.   *)
(* Nothing else leaves a key stuck, in any order of handing the keyboard   *)
(* over.                                                                   *)
(***************************************************************************)
NoStuckKeys ==
  matrix \subseteq user.keys \cup {user.map[b] : b \in user.held} \cup {screen.last, screen.composed}
                   \cup TypedKeys(typist) \cup seen.left

\* What the machine is to see of the first n characters of a text.
Written(text, n) ==
  LET sees[i \in 0 .. Len(text)] ==
        IF i = 0 THEN <<>>
        ELSE IF text[i] \in Specials THEN sees[i - 1]
        ELSE Append(sees[i - 1], TypeKeys(text[i]))
  IN sees[n]

(***************************************************************************)
(* While nothing else touches the matrix, a machine that looks at it once  *)
(* a frame sees exactly the characters typed so far, in order, each with   *)
(* its own keys, equal ones apart, whatever resets, feeds and aborts came  *)
(* before.                                                                 *)
(***************************************************************************)
TypedAsWritten ==
  events.mode = "AUTO" /\ seen.alone
    => Look(seen, matrix).typed
         = Written(typist.text, IF typist.old THEN typist.pos ELSE typist.pos - 1)

(***************************************************************************)
(* The user gets the keyboard back: automatic typing ends, whatever text   *)
(* there was and whatever interrupted it, as the front end runs on and     *)
(* resets and options do not restart it for ever (Hosts).                  *)
(***************************************************************************)
TypingEnds == events.mode = "AUTO" ~> events.mode = "JOY"

=============================================================================
