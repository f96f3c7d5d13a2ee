---------------------------- MODULE Input_proofs ----------------------------
(***************************************************************************)
(* Proofs about Input for all values of its constants: no key is stuck,    *)
(* and a text is typed as it is written, for any texts, assignments of     *)
(* buttons and order of events.                                            *)
(***************************************************************************)
EXTENDS Input, WellFoundedInduction, TLAPS

(***************************************************************************)
(* The types of the records that the handlers transform, and the keys that *)
(* somebody is to release.                                                 *)
(***************************************************************************)
Typists ==
  {t \in [text : Texts, pos : Nat, old : BOOLEAN, delay : 0 .. Delay,
          wait_computer : BOOLEAN, wait_loop : 0 .. Loops] :
     t.pos \in 1 .. Len(t.text) + 1 /\ (t.old => Current(t) \in DOMAIN KeysOf)}
Users == {u \in [keys : SUBSET UserKeys, held : SUBSET Pads, map : Maps] :
            u.held \subseteq DOMAIN u.map}
Screens == [shown : BOOLEAN, last : ScreenKeys \cup {NoKey},
            composed : {NoKey, Shift, Control}, clicked : BOOLEAN, pending : BOOLEAN]
Seens == [matrix : SUBSET Keys, typed : Seq(SUBSET Keys), alone : BOOLEAN, left : SUBSET Keys]
Events == [mode : Modes, autorun : BOOLEAN, event : BOOLEAN]
States == [matrix : SUBSET Keys, events : Events, typist : Typists, user : Users,
           screen : Screens, seen : Seens]

ButtonKeys(u) == {u.map[b] : b \in u.held}
Held(p) == p.user.keys \cup ButtonKeys(p.user) \cup {p.screen.last, p.screen.composed}
           \cup TypedKeys(p.typist) \cup p.seen.left
OK(p) == p \in States /\ p.matrix \subseteq Held(p)

IInv == OK(Now) /\ seen.left \subseteq matrix /\ calls \in 0 .. Hosts

(***************************************************************************)
(* The typist.                                                             *)
(***************************************************************************)
LEMMA TypedAreKeys == ASSUME NEW t \in Typists
                      PROVE  TypedKeys(t) \subseteq Keys
BY KeyAssumption DEF Typists, TypedKeys, TypeKeys

LEMMA TextsTyped == \A text \in Texts : text \in Seq(DOMAIN KeysOf \cup Specials)
<1>1. Loader \in Seq(DOMAIN KeysOf \cup Specials) /\ Command \in Seq(DOMAIN KeysOf \cup Specials)
  BY KeyAssumption
<1>2. <<>> \in Seq(DOMAIN KeysOf \cup Specials)
  OBVIOUS
<1> QED
  BY <1>1, <1>2 DEF Texts

LEMMA CurrentTyped ==
  ASSUME NEW t \in Typists
  PROVE  /\ Current(t) \in DOMAIN KeysOf \cup Specials \cup {"end"}
         /\ Current(t) # "end" => t.pos \in 1 .. Len(t.text)
         /\ Len(t.text) \in Nat
<1>1. t.text \in Seq(DOMAIN KeysOf \cup Specials) /\ t.pos \in 1 .. Len(t.text) + 1
  BY TextsTyped DEF Typists
<1>2. Len(t.text) \in Nat
  BY <1>1
<1>3. CASE t.pos > Len(t.text)
  BY <1>1, <1>2, <1>3 DEF Current, Ended
<1>4. CASE ~(t.pos > Len(t.text))
  <2>1. t.pos \in 1 .. Len(t.text)
    BY <1>1, <1>2, <1>4
  <2>2. t.text[t.pos] \in DOMAIN KeysOf \cup Specials
    BY <1>1, <2>1
  <2> QED
    BY <1>2, <1>4, <2>1, <2>2 DEF Current, Ended
<1> QED
  BY <1>3, <1>4

LEMMA FedTyped ==
  ASSUME NEW t \in Typists, NEW text \in Texts
  PROVE  /\ kbd_buf_feed(t, text) \in Typists
         /\ kbd_buf_feed(t, text).old = FALSE /\ kbd_buf_feed(t, text).delay = t.delay
<1>1. Len(text) \in Nat
  BY TextsTyped
<1>2. Loops \in 0 .. Loops /\ 1 \in 1 .. Len(text) + 1
  BY <1>1, BoundAssumption
<1> QED
  BY <1>2 DEF kbd_buf_feed, Typists

LEMMA FeedOK == ASSUME NEW p, OK(p), NEW text \in Texts
                PROVE  OK(Feed(p, text))
<1> DEFINE q == Feed(p, text)
<1>1. p \in States /\ p.typist \in Typists /\ p.seen \in Seens /\ p.events \in Events
  BY DEF OK, States
<1>2. kbd_buf_feed(p.typist, text) \in Typists /\ TypedKeys(kbd_buf_feed(p.typist, text)) = {}
  BY <1>1, FedTyped DEF TypedKeys
<1>3. TypedKeys(p.typist) \subseteq Keys
  BY <1>1, TypedAreKeys
<1>4. q.typist = kbd_buf_feed(p.typist, text)
      /\ q.events = [p.events EXCEPT !.mode = "AUTO"]
      /\ q.seen = [p.seen EXCEPT !.left = @ \cup TypedKeys(p.typist), !.typed = <<>>,
                                 !.matrix = {}, !.alone = (p.matrix = {})]
      /\ q.matrix = p.matrix /\ q.user = p.user /\ q.screen = p.screen
  BY <1>1 DEF Feed, States, Seens, Events
<1>5. q.seen \in Seens /\ q.seen.left = p.seen.left \cup TypedKeys(p.typist)
  <2>1. <<>> \in Seq(SUBSET Keys) /\ {} \in SUBSET Keys /\ (p.matrix = {}) \in BOOLEAN
    OBVIOUS
  <2>2. p.seen.left \cup TypedKeys(p.typist) \in SUBSET Keys
    BY <1>1, <1>3 DEF Seens
  <2> QED
    BY <1>1, <1>4, <2>1, <2>2 DEF Seens
<1>6. q.events \in Events
  BY <1>1, <1>4 DEF Events, Modes
<1>7. q \in States
  BY <1>1, <1>2, <1>4, <1>5, <1>6 DEF States, Feed
<1> QED
  BY <1>2, <1>4, <1>5, <1>7 DEF OK, Held

(***************************************************************************)
(* One step of the typist on s = [matrix, typist, done]: what it leaves    *)
(* down, beyond the keys others hold, is the character in progress.        *)
(***************************************************************************)
Updates == [matrix : SUBSET Keys, typist : Typists, done : BOOLEAN]

LEMMA MovedTyped ==
  ASSUME NEW t \in Typists, NEW loop \in 0 .. Loops, Current(t) # "end"
  PROVE  /\ [t EXCEPT !.pos = @ + 1, !.old = FALSE] \in Typists
         /\ [t EXCEPT !.wait_loop = loop] \in Typists
         /\ ~t.old => [t EXCEPT !.pos = @ + 1] \in Typists
         /\ ~t.old => [t EXCEPT !.wait_loop = loop, !.pos = @ + 1] \in Typists
<1>1. t.pos \in 1 .. Len(t.text) /\ Len(t.text) \in Nat
  BY CurrentTyped
<1>2. t.pos + 1 \in Nat /\ t.pos + 1 \in 1 .. Len(t.text) + 1
  BY <1>1
<1>3. [t EXCEPT !.pos = @ + 1, !.old = FALSE] \in Typists
  BY <1>2 DEF Typists
<1>4. [t EXCEPT !.wait_loop = loop] \in Typists
  BY DEF Typists, Current, Ended
<1>5. ASSUME ~t.old
      PROVE  /\ [t EXCEPT !.pos = @ + 1] \in Typists
             /\ [t EXCEPT !.wait_loop = loop, !.pos = @ + 1] \in Typists
  BY <1>2, <1>5 DEF Typists
<1> QED
  BY <1>3, <1>4, <1>5

LEMMA PausedTyped ==
  ASSUME NEW t \in Typists, NEW delay \in 0 .. Delay, NEW wait \in BOOLEAN
  PROVE  LET t2 == [t EXCEPT !.delay = delay, !.wait_computer = wait]
         IN t2 \in Typists /\ TypedKeys(t2) = TypedKeys(t)
BY DEF Typists, TypedKeys, Current, Ended

LEMMA UpdateOK ==
  ASSUME NEW s \in Updates, NEW H, s.matrix \subseteq H \cup TypedKeys(s.typist)
  PROVE  LET r == kbd_buf_update(s)
         IN r \in Updates /\ r.matrix \subseteq H \cup TypedKeys(r.typist)
<1> DEFINE r == kbd_buf_update(s)
           t == s.typist
           c == Current(t)
<1>1. t \in Typists /\ s.matrix \in SUBSET Keys
  BY DEF Updates
<1>2. c \in DOMAIN KeysOf \cup Specials \cup {"end"} /\ (t.old => c \in DOMAIN KeysOf)
  BY <1>1, CurrentTyped DEF Typists
<1>3. t.old => c \notin Specials \cup {"end"}
  BY <1>2, KeyAssumption
<1>4. t.old \in BOOLEAN /\ t.wait_loop \in 0 .. Loops /\ Loops \in 0 .. Loops
  BY <1>1, BoundAssumption DEF Typists
<1> HIDE DEF t, c
<1>5. CASE c = "play"
  <2>1. ~t.old /\ c # "end"
    BY <1>3, <1>5 DEF Specials
  <2>2. [t EXCEPT !.pos = @ + 1] \in Typists
    BY <1>1, <1>4, <2>1, MovedTyped DEF c
  <2>3. r = [s EXCEPT !.typist = [t EXCEPT !.pos = @ + 1]]
    BY <1>5 DEF kbd_buf_update, t, c
  <2>4. r \in Updates /\ r.matrix = s.matrix /\ TypedKeys(t) = {}
    BY <2>1, <2>2, <2>3 DEF Updates, TypedKeys
  <2> QED
    BY <2>4 DEF t
<1>6. CASE c = "wait"
  <2>1. ~t.old /\ c # "end"
    BY <1>3, <1>6 DEF Specials
  <2>2. CASE t.wait_loop > 0
    <3>1. t.wait_loop - 1 \in 0 .. Loops
      BY <1>4, <2>2, BoundAssumption
    <3>2. [t EXCEPT !.wait_loop = @ - 1] \in Typists
      BY <1>1, <2>1, <3>1, MovedTyped DEF c
    <3>3. r = [s EXCEPT !.typist = [t EXCEPT !.wait_loop = @ - 1]]
      BY <1>6, <2>2 DEF kbd_buf_update, Wait, t, c
    <3> QED
      BY <2>1, <3>2, <3>3 DEF Updates, TypedKeys, t
  <2>3. CASE ~(t.wait_loop > 0)
    <3>1. [t EXCEPT !.wait_loop = Loops, !.pos = @ + 1] \in Typists
      BY <1>1, <1>4, <2>1, MovedTyped DEF c
    <3>2. r = [s EXCEPT !.typist = [t EXCEPT !.wait_loop = Loops, !.pos = @ + 1]]
      BY <1>6, <2>3 DEF kbd_buf_update, Wait, t, c
    <3> QED
      BY <2>1, <3>1, <3>2 DEF Updates, TypedKeys, t
  <2> QED
    BY <2>2, <2>3
<1>7. CASE c \in {"stop", "end"}
  <2>1. r = [s EXCEPT !.matrix = {}, !.done = TRUE]
    BY <1>7 DEF kbd_buf_update, Clean, t, c
  <2> QED
    BY <2>1 DEF Updates
<1>8. CASE c \notin {"play", "wait", "stop", "end"}
  <2>1. c \in DOMAIN KeysOf /\ KeysOf[c] \subseteq Keys /\ c # "end"
    BY <1>2, <1>8, KeyAssumption DEF Specials
  <2>2. CASE t.old
    <3>1. [t EXCEPT !.pos = @ + 1, !.old = FALSE] \in Typists
      BY <1>1, <1>4, <2>1, MovedTyped DEF c
    <3>2. r = [s EXCEPT !.matrix = @ \ KeysOf[c],
                        !.typist = [t EXCEPT !.pos = @ + 1, !.old = FALSE]]
      BY <1>8, <2>2 DEF kbd_buf_update, Release, TypeKeys, Updates, Typists, t, c
    <3>3. TypedKeys(t) = KeysOf[c]
      BY <2>2 DEF TypedKeys, TypeKeys, c
    <3>4. r \in Updates
      BY <3>1, <3>2 DEF Updates
    <3>5. r.matrix = s.matrix \ KeysOf[c]
      BY <3>2 DEF Updates
    <3> QED
      BY <3>3, <3>4, <3>5 DEF t
  <2>3. CASE ~t.old
    <3>1. [t EXCEPT !.old = TRUE] \in Typists
      BY <1>1, <2>1 DEF Typists, Current, Ended, c
    <3>2. r = [s EXCEPT !.matrix = @ \cup KeysOf[c], !.typist = [t EXCEPT !.old = TRUE]]
      BY <1>8, <2>3 DEF kbd_buf_update, Press, TypeKeys, Updates, Typists, t, c
    <3>3. TypedKeys([t EXCEPT !.old = TRUE]) = KeysOf[c]
      BY <1>1 DEF TypedKeys, TypeKeys, Current, Ended, Typists, c
    <3>4. r \in Updates /\ r.matrix = s.matrix \cup KeysOf[c] /\ r.typist = [t EXCEPT !.old = TRUE]
      BY <2>1, <3>1, <3>2 DEF Updates
    <3>5. TypedKeys(t) = {}
      BY <2>3 DEF TypedKeys
    <3> QED
      BY <3>3, <3>4, <3>5 DEF t
  <2> QED
    BY <2>2, <2>3
<1> QED
  BY <1>5, <1>6, <1>7, <1>8

(***************************************************************************)
(* The handlers.                                                           *)
(***************************************************************************)
LEMMA ToggleOK == ASSUME NEW p, OK(p)
                  PROVE  OK(ev_toggle_call(p))
<1> DEFINE q == ev_toggle_call(p)
           mode == IF p.events.mode = "JOY" THEN "KBD" ELSE "JOY"
<1>1. p \in States /\ p.screen \in Screens /\ p.seen \in Seens /\ p.events \in Events
  BY DEF OK, States
<1>2. /\ q.events = [p.events EXCEPT !.mode = mode]
      /\ q.screen = [p.screen EXCEPT !.shown = ~@]
      /\ q.seen = [p.seen EXCEPT !.alone = FALSE]
      /\ q.matrix = p.matrix /\ q.user = p.user /\ q.typist = p.typist
  BY <1>1 DEF ev_toggle_call, ev_set, States, Events, Screens, Seens
<1>3. [p.events EXCEPT !.mode = mode] \in Events
  BY <1>1 DEF Events, Modes
<1>4. [p.screen EXCEPT !.shown = ~@] \in Screens
  BY <1>1 DEF Screens
<1>5. [p.seen EXCEPT !.alone = FALSE] \in Seens
  BY <1>1 DEF Seens
<1>6. q \in States
  BY <1>1, <1>2, <1>3, <1>4, <1>5 DEF States, ev_toggle_call, ev_set
<1>7. /\ q.screen.last = p.screen.last /\ q.screen.composed = p.screen.composed
      /\ q.seen.left = p.seen.left
  BY <1>1, <1>2 DEF States, Screens, Seens
<1> QED
  BY <1>2, <1>6, <1>7 DEF OK, Held

LEMMA AutorunOK == ASSUME NEW p, OK(p)
                   PROVE  OK(ev_autorun(p))
<1> DEFINE t == p.typist
           t1 == [t EXCEPT !.wait_computer = FALSE]
           s == kbd_buf_update([matrix |-> p.matrix, done |-> FALSE, typist |-> t1])
           q == [p EXCEPT !.matrix = s.matrix, !.typist = s.typist]
           H == p.user.keys \cup ButtonKeys(p.user) \cup {p.screen.last, p.screen.composed}
                \cup p.seen.left
<1>1. p \in States /\ t \in Typists /\ p.seen \in Seens /\ p.events \in Events
  BY DEF OK, States
<1>2. t1 \in Typists /\ TypedKeys(t1) = TypedKeys(t)
  BY <1>1 DEF Typists, TypedKeys, Current, Ended
<1>3. p.matrix \subseteq H \cup TypedKeys(t1)
  BY <1>2 DEF OK, Held
<1>4. s \in Updates /\ s.matrix \subseteq H \cup TypedKeys(s.typist)
  <2> DEFINE u == [matrix |-> p.matrix, done |-> FALSE, typist |-> t1]
  <2>1. u \in Updates /\ u.matrix = p.matrix /\ u.typist = t1
    BY <1>1, <1>2 DEF Updates, States
  <2> HIDE DEF u, t1, H
  <2>2. s = kbd_buf_update(u)
    BY DEF u
  <2> QED
    BY <1>3, <2>1, <2>2, UpdateOK
<1> HIDE DEF s, t1
<1>5. q \in States /\ q.typist = s.typist /\ q.matrix = s.matrix
      /\ q.user = p.user /\ q.screen = p.screen /\ q.seen = p.seen /\ q.events = p.events
  BY <1>1, <1>4 DEF States, Updates
<1>6. OK(q)
  BY <1>4, <1>5 DEF OK, Held
<1>7. CASE t.delay > 0
  <2>1. t.delay - 1 \in 0 .. Delay
    BY <1>1, <1>7, BoundAssumption DEF Typists
  <2>2. [t EXCEPT !.delay = @ - 1] \in Typists
    BY <1>1, <2>1 DEF Typists, Current, Ended
  <2>3. TypedKeys([t EXCEPT !.delay = @ - 1]) = TypedKeys(t)
    BY <1>1 DEF Typists, TypedKeys, Current, Ended
  <2>4. ev_autorun(p) = [p EXCEPT !.typist = [t EXCEPT !.delay = @ - 1]]
    BY <1>1, <1>7 DEF ev_autorun, States
  <2> QED
    BY <1>1, <2>2, <2>3, <2>4 DEF OK, Held, States
<1>8. CASE ~(t.delay > 0) /\ ~t.wait_computer
  <2>1. [t EXCEPT !.wait_computer = TRUE] \in Typists
    BY <1>1 DEF Typists, Current, Ended
  <2>2. TypedKeys([t EXCEPT !.wait_computer = TRUE]) = TypedKeys(t)
    BY <1>1 DEF Typists, TypedKeys, Current, Ended
  <2>3. ev_autorun(p) = [p EXCEPT !.typist = [t EXCEPT !.wait_computer = TRUE]]
    BY <1>1, <1>8 DEF ev_autorun, States
  <2> QED
    BY <1>1, <2>1, <2>2, <2>3 DEF OK, Held, States
<1>9. CASE ~(t.delay > 0) /\ t.wait_computer /\ ~s.done
  <2>1. ev_autorun(p) = q
    BY <1>9 DEF ev_autorun, s, t1
  <2> QED
    BY <1>6, <2>1
<1>10. CASE ~(t.delay > 0) /\ t.wait_computer /\ s.done
  <2> DEFINE r == ev_autorun(p)
             t2 == [s.typist EXCEPT !.delay = Delay, !.wait_computer = TRUE]
  <2>1. r = [q EXCEPT !.events = [@ EXCEPT !.mode = "JOY"], !.typist = t2,
                      !.seen = [@ EXCEPT !.alone = FALSE]]
    BY <1>5, <1>10 DEF ev_autorun, ev_set, s, t1, States
  <2>2. s.typist \in Typists
    BY <1>4 DEF Updates
  <2>3. t2 \in Typists /\ TypedKeys(t2) = TypedKeys(s.typist)
    <3>1. Delay \in 0 .. Delay
      BY BoundAssumption
    <3> QED
      BY <2>2, <3>1, PausedTyped
  <2>4. [p.events EXCEPT !.mode = "JOY"] \in Events
    BY <1>1 DEF Events, Modes
  <2>5. [p.seen EXCEPT !.alone = FALSE] \in Seens
        /\ [p.seen EXCEPT !.alone = FALSE].left = p.seen.left
    BY <1>1 DEF Seens
  <2>6. r \in States /\ r.matrix = q.matrix /\ r.user = q.user /\ r.screen = q.screen
        /\ r.typist = t2 /\ r.seen.left = q.seen.left
    BY <1>5, <2>1, <2>3, <2>4, <2>5 DEF States
  <2> QED
    BY <1>5, <1>6, <2>3, <2>6 DEF OK, Held
<1> QED
  BY <1>7, <1>8, <1>9, <1>10

LEMMA ButtonsOK == ASSUME NEW p, OK(p), NEW player, NEW pad
                   PROVE  OK(process_joy(p, player, pad))
<1> DEFINE buttons == {b \in DOMAIN p.user.map : b[1] = player}
           down == (buttons \cap pad) \ p.user.held
           up == (buttons \ pad) \cap p.user.held
           held == (p.user.held \ up) \cup down
           down_keys == {p.user.map[b] : b \in down}
           up_keys == {p.user.map[b] : b \in up}
           q == process_joy(p, player, pad)
<1>1. p \in States /\ p.user \in Users /\ p.matrix \in SUBSET Keys
  BY DEF OK, States
<1>2. /\ p.user.map \in Maps /\ p.user.held \subseteq DOMAIN p.user.map
      /\ p.user.map \in [DOMAIN p.user.map -> Keys] /\ DOMAIN p.user.map \subseteq Pads
  BY <1>1, KeyAssumption DEF Users
<1>3. held \subseteq DOMAIN p.user.map /\ held \subseteq Pads
  BY <1>2
<1>4. down_keys \subseteq Keys
  BY <1>2
<1>5. q.matrix = (p.matrix \ up_keys) \cup down_keys
      /\ q.user = [p.user EXCEPT !.held = held]
      /\ q.events = p.events /\ q.typist = p.typist /\ q.screen = p.screen /\ q.seen = p.seen
  BY <1>1 DEF process_joy, States, Users
<1>6. [p.user EXCEPT !.held = held] \in Users
  <2> HIDE DEF held
  <2> QED
    BY <1>1, <1>3 DEF Users
<1>7. q \in States
  <2>1. q.matrix \in SUBSET Keys
    BY <1>1, <1>4, <1>5
  <2> QED
    BY <1>1, <1>5, <1>6, <2>1 DEF States, process_joy
<1>8. q.user.keys = p.user.keys /\ q.user.held = held /\ q.user.map = p.user.map
  BY <1>1, <1>5 DEF Users
<1>9. p.matrix \ up_keys \subseteq (Held(p) \ ButtonKeys(p.user)) \cup {p.user.map[b] : b \in held}
  BY DEF OK, ButtonKeys
<1>10. down_keys \subseteq {p.user.map[b] : b \in held}
  OBVIOUS
<1>11. ButtonKeys(q.user) = {p.user.map[b] : b \in held}
  BY <1>8 DEF ButtonKeys
<1>12. Held(q) = p.user.keys \cup {p.user.map[b] : b \in held}
                \cup {p.screen.last, p.screen.composed} \cup TypedKeys(p.typist) \cup p.seen.left
  BY <1>5, <1>8, <1>11 DEF Held
<1>13. q.matrix \subseteq Held(q)
  <2> HIDE DEF held, up_keys, down_keys, q
  <2> QED
    BY <1>5, <1>9, <1>10, <1>12 DEF Held
<1> QED
  BY <1>7, <1>13 DEF OK

LEMMA EventOK == ASSUME NEW p, OK(p), NEW event \in BOOLEAN
                 PROVE  OK([p EXCEPT !.events.event = event])
<1>1. p \in States /\ p.events \in Events
  BY DEF OK, States
<1>2. [p.events EXCEPT !.event = event] \in Events
  BY <1>1 DEF Events
<1> QED
  BY <1>1, <1>2 DEF OK, Held, States

LEMMA CombinationOK == ASSUME NEW p, OK(p), NEW pad
                       PROVE  OK(events_joy(p, pad))
<1>1. Command \in Texts /\ TRUE \in BOOLEAN /\ FALSE \in BOOLEAN
  BY DEF Texts
<1>2. OK(Feed(p, Command)) /\ OK(ev_toggle_call(p))
  BY <1>1, FeedOK, ToggleOK
<1>3. /\ OK([Feed(p, Command) EXCEPT !.events.event = TRUE])
      /\ OK([ev_toggle_call(p) EXCEPT !.events.event = TRUE])
      /\ OK([p EXCEPT !.events.event = FALSE])
  BY <1>1, <1>2, EventOK
<1> QED
  BY <1>3 DEF events_joy, Combination

LEMMA EventsOK == ASSUME NEW p, OK(p), NEW pad
                  PROVE  OK(process_events(p, pad))
<1>1. p.events.mode \in Modes
  BY DEF OK, States, Events
<1>2. CASE p.events.mode = "AUTO"
  BY <1>2, AutorunOK DEF process_events
<1>3. CASE p.events.mode = "JOY"
  <2>1. process_events(p, pad) = ev_joysticks(p, pad)
    BY <1>3 DEF process_events
  <2>2. OK(process_joy(p, 2, pad))
    BY ButtonsOK
  <2>3. OK(events_joy(process_joy(p, 2, pad), pad)) /\ OK(process_joy(process_joy(p, 2, pad), 1, pad))
    BY <2>2, CombinationOK, ButtonsOK
  <2> QED
    BY <2>1, <2>3 DEF ev_joysticks
<1>4. CASE p.events.mode = "KBD"
  <2>1. process_events(p, pad) = events_joy(p, pad)
    BY <1>4 DEF process_events
  <2> QED
    BY <2>1, CombinationOK
<1> QED
  BY <1>1, <1>2, <1>3, <1>4 DEF Modes

(***************************************************************************)
(* The virtual keyboard: a click that begins before the last has ended     *)
(* leaves its key to nobody, and no other step of it does.                 *)
(***************************************************************************)
LEMMA ClickOK == ASSUME NEW p, OK(p), NEW key \in ScreenKeys \cup {NoKey}
                 PROVE  OK(keyboard_mouse_click(p, key))
<1> DEFINE q == IF p.screen.clicked THEN ClickOn(p, key) ELSE ClickOff(p)
           r == keyboard_mouse_click(p, key)
           others == p.user.keys \cup ButtonKeys(p.user) \cup TypedKeys(p.typist) \cup p.seen.left
           left == IF p.screen.clicked THEN p.seen.left \cup ({p.screen.last} \ {NoKey})
                   ELSE p.seen.left
<1>1. /\ p \in States /\ p.screen \in Screens /\ p.seen \in Seens
      /\ p.matrix \in SUBSET Keys /\ p.matrix \subseteq others \cup {p.screen.last, p.screen.composed}
  BY DEF OK, States, Held
<1>2. ScreenKeys \subseteq Keys /\ NoKey \notin Keys
  BY KeyAssumption
<1>3. /\ q.screen \in Screens /\ q.matrix \in SUBSET Keys
      /\ q.matrix \subseteq others \cup left \cup {q.screen.last, q.screen.composed}
      /\ q = [p EXCEPT !.screen = q.screen, !.matrix = q.matrix]
  <2>1. CASE p.screen.clicked /\ key = NoKey
    <3>1. q = [p EXCEPT !.screen = [@ EXCEPT !.last = key]]
      BY <2>1 DEF ClickOn
    <3>2. [p.screen EXCEPT !.last = key] \in Screens
      BY <1>1 DEF Screens
    <3>3. q.screen = [p.screen EXCEPT !.last = key] /\ q.matrix = p.matrix
      BY <1>1, <3>1 DEF States
    <3>4. q.screen.composed = p.screen.composed
      BY <1>1, <3>3 DEF Screens
    <3> HIDE DEF q
    <3> QED
      BY <1>1, <1>2, <2>1, <3>1, <3>2, <3>3, <3>4 DEF States
  <2>2. CASE p.screen.clicked /\ key # NoKey
    <3> DEFINE compose == p.screen.composed = NoKey /\ key \in {Shift, Control}
               release == ~compose /\ p.screen.composed # NoKey
               composed == IF compose THEN key ELSE IF release THEN NoKey ELSE p.screen.composed
               down == (IF release THEN p.matrix \ {p.screen.composed} ELSE p.matrix) \cup {key}
    <3>1. q = [p EXCEPT !.screen = [@ EXCEPT !.last = key, !.composed = composed],
                        !.matrix = down]
      BY <1>1, <2>2 DEF ClickOn, States, Screens
    <3>2. composed \in {NoKey, Shift, Control} /\ key \in Keys
      BY <1>1, <1>2, <2>2 DEF Screens
    <3>3. down \in SUBSET Keys
      BY <1>1, <3>2
    <3>4. down \subseteq others \cup left \cup {key, composed}
      BY <1>1, <1>2, <2>2
    <3> HIDE DEF q, composed, down
    <3>5. [p.screen EXCEPT !.last = key, !.composed = composed] \in Screens
      BY <1>1, <3>2 DEF Screens
    <3>6. q.screen = [p.screen EXCEPT !.last = key, !.composed = composed] /\ q.matrix = down
      BY <1>1, <3>1 DEF States
    <3>7. q.screen.last = key /\ q.screen.composed = composed
      BY <1>1, <3>6 DEF Screens
    <3> QED
      BY <1>1, <3>1, <3>3, <3>4, <3>5, <3>6, <3>7 DEF States
  <2>3. CASE ~p.screen.clicked /\ (p.screen.last = NoKey \/ p.screen.composed # NoKey)
    <3>1. q = p
      BY <2>3 DEF ClickOff
    <3> HIDE DEF q
    <3> QED
      BY <1>1, <2>3, <3>1 DEF States
  <2>4. CASE ~p.screen.clicked /\ p.screen.last # NoKey /\ p.screen.composed = NoKey
    <3>1. q = [p EXCEPT !.matrix = @ \ {p.screen.last}, !.screen = [@ EXCEPT !.last = NoKey]]
      BY <1>1, <2>4 DEF ClickOff, States
    <3>2. [p.screen EXCEPT !.last = NoKey] \in Screens
      BY <1>1 DEF Screens
    <3>3. q.screen = [p.screen EXCEPT !.last = NoKey] /\ q.matrix = p.matrix \ {p.screen.last}
      BY <1>1, <3>1 DEF States
    <3>4. q.screen.composed = NoKey
      BY <1>1, <2>4, <3>3 DEF Screens
    <3> HIDE DEF q
    <3> QED
      BY <1>1, <1>2, <2>4, <3>1, <3>2, <3>3, <3>4 DEF States
  <2> QED
    BY <2>1, <2>2, <2>3, <2>4
<1>4. left \in SUBSET Keys
  BY <1>1, <1>2 DEF Screens, Seens
<1> HIDE DEF q, left
<1>5. (p.seen.alone /\ q.matrix = p.matrix) \in BOOLEAN
  BY <1>1 DEF Seens
<1> DEFINE seen2 == [p.seen EXCEPT !.alone = @ /\ q.matrix = p.matrix, !.left = left]
<1>6. seen2 \in Seens /\ seen2.left = left
  BY <1>1, <1>4, <1>5 DEF Seens
<1>7. /\ r.matrix = q.matrix /\ r.screen = q.screen /\ r.user = p.user /\ r.typist = p.typist
      /\ r.events = p.events /\ r.seen = seen2 /\ r \in States
  <2>1. r = [q EXCEPT !.seen = seen2]
    BY <1>1, <1>3 DEF keyboard_mouse_click, q, left, States, Seens
  <2> HIDE DEF r, seen2
  <2>2. q \in States /\ q.user = p.user /\ q.typist = p.typist /\ q.events = p.events
    BY <1>1, <1>3 DEF States
  <2> QED
    BY <1>6, <2>1, <2>2 DEF States
<1> HIDE DEF r, seen2
<1>8. r.matrix \subseteq Held(r)
  <2>1. p.seen.left \subseteq left
    BY DEF left
  <2> QED
    BY <1>3, <1>6, <1>7, <2>1 DEF Held
<1> QED
  BY <1>7, <1>8 DEF OK, r

LEMMA ScreenOK ==
  ASSUME NEW p, OK(p), NEW clicked \in BOOLEAN, NEW pending \in BOOLEAN
  PROVE  /\ OK([p EXCEPT !.screen.pending = pending])
         /\ OK([p EXCEPT !.screen.clicked = clicked, !.screen.pending = pending])
<1>1. p \in States /\ p.screen \in Screens
  BY DEF OK, States
<1>2. ASSUME NEW s \in Screens, s.last = p.screen.last, s.composed = p.screen.composed
      PROVE  OK([p EXCEPT !.screen = s])
  BY <1>1, <1>2 DEF OK, Held, States
<1>3. OK([p EXCEPT !.screen.pending = pending])
  <2> DEFINE s == [p.screen EXCEPT !.pending = pending]
  <2>1. s \in Screens /\ s.last = p.screen.last /\ s.composed = p.screen.composed
    BY <1>1 DEF Screens
  <2> QED
    BY <1>2, <2>1
<1>4. OK([p EXCEPT !.screen.clicked = clicked, !.screen.pending = pending])
  <2> DEFINE s == [p.screen EXCEPT !.clicked = clicked, !.pending = pending]
  <2>1. s \in Screens /\ s.last = p.screen.last /\ s.composed = p.screen.composed
    BY <1>1 DEF Screens
  <2>2. [p EXCEPT !.screen.clicked = clicked, !.screen.pending = pending] = [p EXCEPT !.screen = s]
    BY <1>1 DEF States
  <2> QED
    BY <1>2, <2>1, <2>2
<1> QED
  BY <1>3, <1>4

LEMMA KeyboardOK ==
  ASSUME NEW p, OK(p), NEW pad, NEW bar \in BOOLEAN, NEW key \in ScreenKeys \cup {NoKey}
  PROVE  OK(retro_ui_process(p, pad, bar, key))
<1> DEFINE q == IF ~p.screen.pending \/ ~(p.screen.shown \/ bar) THEN p
                ELSE [(IF p.screen.shown THEN keyboard_mouse_click(p, key) ELSE p)
                       EXCEPT !.screen.pending = FALSE]
<1>1. OK(q)
  <2>1. OK(IF p.screen.shown THEN keyboard_mouse_click(p, key) ELSE p)
    BY ClickOK
  <2> QED
    BY <2>1, ScreenOK
<1>2. (~q.screen.clicked) \in BOOLEAN
  OBVIOUS
<1> HIDE DEF q
<1>3. OK([q EXCEPT !.screen.clicked = ~@, !.screen.pending = TRUE])
  <2>1. q \in States /\ q.screen \in Screens
    BY <1>1 DEF OK, States
  <2>2. [q EXCEPT !.screen.clicked = ~@, !.screen.pending = TRUE]
        = [q EXCEPT !.screen.clicked = ~q.screen.clicked, !.screen.pending = TRUE]
    BY <2>1
  <2> QED
    BY <1>1, <1>2, <2>2, ScreenOK
<1> QED
  BY <1>1, <1>3 DEF retro_ui_process, q

(***************************************************************************)
(* The actions.                                                            *)
(***************************************************************************)
LEMMA BecomeOK == ASSUME NEW p, OK(p), Become(p)
                  PROVE  OK(Now)' /\ (seen.left \subseteq matrix)'
<1> DEFINE seen2 == [p.seen EXCEPT !.left = @ \cap p.matrix,
                                   !.matrix = IF p.seen.alone THEN @ ELSE {},
                                   !.typed = IF p.seen.alone THEN @ ELSE <<>>]
<1>1. /\ matrix' = p.matrix /\ events' = p.events /\ typist' = p.typist
      /\ user' = p.user /\ screen' = p.screen /\ seen' = seen2
  BY DEF Become
<1>2. p \in States /\ p.seen \in Seens
  BY DEF OK, States
<1>3. seen2 \in Seens /\ seen2.left = p.seen.left \cap p.matrix
  <2>1. <<>> \in Seq(SUBSET Keys) /\ p.seen.left \cap p.matrix \in SUBSET Keys
    BY <1>2 DEF Seens
  <2> QED
    BY <1>2, <2>1 DEF Seens
<1> HIDE DEF seen2
<1>4. Now' \in States
  BY <1>1, <1>2, <1>3 DEF Now, States
<1>5. /\ Now'.matrix = p.matrix /\ Now'.user = p.user /\ Now'.screen = p.screen
      /\ Now'.typist = p.typist /\ Now'.seen = seen2
  BY <1>1 DEF Now
<1>6. Now'.matrix \subseteq Held(Now')
  BY <1>3, <1>5 DEF OK, Held
<1> QED
  BY <1>1, <1>3, <1>4, <1>6 DEF OK, Held

LEMMA PrepareOK == ASSUME NEW p, OK(p)
                   PROVE  OK(ev_autorun_prepare(p, Loader)) /\ OK(computer_reset(p))
<1> DEFINE q == Feed(p, Loader)
           t == [q.typist EXCEPT !.delay = Delay, !.wait_computer = TRUE]
<1>1. OK(q)
  BY FeedOK DEF Texts
<1>2. q \in States /\ q.typist \in Typists
  BY <1>1 DEF OK, States
<1>3. Delay \in 0 .. Delay /\ TRUE \in BOOLEAN
  BY BoundAssumption
<1> HIDE DEF q
<1>4. t \in Typists /\ TypedKeys(t) = TypedKeys(q.typist)
  BY <1>2, <1>3, PausedTyped
<1>5. ev_autorun_prepare(p, Loader) = [q EXCEPT !.typist = t]
  BY <1>2 DEF ev_autorun_prepare, States, q
<1> HIDE DEF t
<1>6. OK([q EXCEPT !.typist = t])
  BY <1>1, <1>2, <1>4 DEF OK, Held, States
<1> QED
  BY <1>5, <1>6 DEF computer_reset

LEMMA ClearedOK == ASSUME NEW p, p \in States
                   PROVE  OK(Cleared(p))
<1> DEFINE s == [p.seen EXCEPT !.alone = FALSE]
<1>1. s \in Seens
  BY DEF States, Seens
<1>2. Cleared(p) = [p EXCEPT !.matrix = {}, !.seen = s]
  BY DEF Cleared, States
<1> QED
  BY <1>1, <1>2 DEF OK, States

LEMMA KeyStep == ASSUME IInv, Key
                 PROVE  IInv'
<1>1. PICK k \in UserKeys :
        LET up == k \in user.keys
            heard == events.mode = "JOY"
        IN Become([Now EXCEPT
             !.user.keys = IF up THEN @ \ {k} ELSE @ \cup {k},
             !.matrix = IF ~heard THEN @ ELSE IF up THEN @ \ {k} ELSE @ \cup {k},
             !.seen.left = IF up /\ ~heard THEN @ \cup {k} ELSE @])
  BY DEF Key
<1> DEFINE up == k \in user.keys
           heard == events.mode = "JOY"
           keys == IF up THEN user.keys \ {k} ELSE user.keys \cup {k}
           down == IF ~heard THEN matrix ELSE IF up THEN matrix \ {k} ELSE matrix \cup {k}
           left == IF up /\ ~heard THEN seen.left \cup {k} ELSE seen.left
           u == [user EXCEPT !.keys = keys]
           s == [seen EXCEPT !.left = left]
           p == [Now EXCEPT !.user = u, !.matrix = down, !.seen = s]
<1>2. /\ Now \in States /\ user \in Users /\ seen \in Seens /\ matrix \in SUBSET Keys
      /\ matrix \subseteq Held(Now) /\ calls' \in 0 .. Hosts
  BY DEF IInv, OK, Now, States, Key
<1>3. k \in Keys /\ k \in UserKeys
  BY KeyAssumption
<1>4. keys \in SUBSET UserKeys /\ down \in SUBSET Keys /\ left \in SUBSET Keys
  BY <1>2, <1>3 DEF Users, Seens
<1>5. Held(Now) = user.keys \cup ButtonKeys(user) \cup {screen.last, screen.composed}
                  \cup TypedKeys(typist) \cup seen.left
  BY DEF Held, Now
<1>6. down \subseteq keys \cup ButtonKeys(user) \cup {screen.last, screen.composed}
                  \cup TypedKeys(typist) \cup left
  BY <1>2, <1>5
<1>7. Become(p)
  BY <1>1, <1>2 DEF Now, Users, Seens
<1> HIDE DEF keys, down, left
<1>8. u \in Users /\ u.keys = keys /\ ButtonKeys(u) = ButtonKeys(user)
  BY <1>2, <1>4 DEF Users, ButtonKeys
<1>9. s \in Seens /\ s.left = left
  BY <1>2, <1>4 DEF Seens
<1> HIDE DEF u, s
<1>10. /\ p \in States /\ p.matrix = down /\ p.user = u /\ p.screen = screen
       /\ p.typist = typist /\ p.seen = s
  BY <1>2, <1>4, <1>8, <1>9 DEF States, Now
<1>11. OK(p)
  BY <1>6, <1>8, <1>9, <1>10 DEF OK, Held
<1> QED
  BY <1>2, <1>7, <1>11, BecomeOK DEF IInv

LEMMA RunStep == ASSUME IInv, Run
                 PROVE  IInv'
<1> DEFINE s == Look(seen, matrix)
           p == [Now EXCEPT !.seen = s]
<1>1. /\ Now \in States /\ seen \in Seens /\ matrix \in SUBSET Keys
      /\ matrix \subseteq Held(Now) /\ calls' \in 0 .. Hosts
  BY DEF IInv, OK, Now, States, Run
<1>2. s \in Seens /\ s.left = seen.left
  <2>1. Append(seen.typed, matrix) \in Seq(SUBSET Keys)
    BY <1>1 DEF Seens
  <2> QED
    BY <1>1, <2>1 DEF Look, Seens
<1>3. PICK pad \in SUBSET Read, key \in Pointed, bar \in Bars :
        Become(retro_ui_process(process_events([Now EXCEPT !.seen = Look(@, matrix)], pad),
                                pad, bar, key))
  BY DEF Run
<1>4. key \in ScreenKeys \cup {NoKey} /\ bar \in BOOLEAN
  BY DEF Pointed, Bars
<1>5. [Now EXCEPT !.seen = Look(@, matrix)] = p
  BY DEF Now
<1> HIDE DEF s
<1>6. OK(p)
  BY <1>1, <1>2 DEF OK, Held, States, Now
<1> HIDE DEF p
<1>7. OK(retro_ui_process(process_events(p, pad), pad, bar, key))
  <2>1. OK(process_events(p, pad))
    BY <1>6, EventsOK
  <2> QED
    BY <1>4, <2>1, KeyboardOK
<1> QED
  BY <1>1, <1>3, <1>5, <1>7, BecomeOK DEF IInv

LEMMA OptionsStep == ASSUME IInv, Options
                     PROVE  IInv'
<1>1. PICK auto \in BOOLEAN, machine \in BOOLEAN, m \in Maps :
        LET moved == {user.map[b] : b \in {c \in user.held : user.map[c] # m[c]}}
            p == [ev_set(Now, IF auto THEN "AUTO" ELSE "JOY")
                   EXCEPT !.events.autorun = auto, !.user.map = m,
                          !.seen.left = @ \cup moved,
                          !.seen.alone = @ /\ auto /\ events.mode = "AUTO"]
        IN Become(IF machine THEN computer_reset(Cleared(p)) ELSE p)
  BY DEF Options
<1> DEFINE moved == {user.map[b] : b \in {c \in user.held : user.map[c] # m[c]}}
           p == [ev_set(Now, IF auto THEN "AUTO" ELSE "JOY")
                   EXCEPT !.events.autorun = auto, !.user.map = m,
                          !.seen.left = @ \cup moved,
                          !.seen.alone = @ /\ auto /\ events.mode = "AUTO"]
           e == [events EXCEPT !.mode = IF auto THEN "AUTO" ELSE "JOY", !.autorun = auto]
           u == [user EXCEPT !.map = m]
           alone == seen.alone /\ auto /\ events.mode = "AUTO"
           s == [seen EXCEPT !.left = @ \cup moved, !.alone = alone]
<1>2. /\ Now \in States /\ user \in Users /\ seen \in Seens /\ events \in Events
      /\ matrix \subseteq Held(Now) /\ calls' \in 0 .. Hosts
  <2>1. calls' \in 0 .. Hosts
    BY BoundAssumption DEF IInv, Options, Called
  <2> QED
    BY <2>1 DEF IInv, OK, Now, States
<1>3. /\ user.map \in [DOMAIN user.map -> Keys] /\ DOMAIN m = DOMAIN user.map
      /\ user.held \subseteq DOMAIN user.map
  BY <1>2, KeyAssumption DEF Users
<1>4. moved \in SUBSET Keys
  BY <1>3
<1>5. ButtonKeys(user) \subseteq {m[b] : b \in user.held} \cup moved
  BY DEF ButtonKeys
<1> HIDE DEF moved
<1>6. u \in Users /\ u.keys = user.keys /\ ButtonKeys(u) = {m[b] : b \in user.held}
  BY <1>2, <1>3 DEF Users, ButtonKeys
<1>7. s \in Seens /\ s.left = seen.left \cup moved
  <2>1. alone \in BOOLEAN /\ seen.left \cup moved \in SUBSET Keys
    BY <1>2, <1>4 DEF Seens
  <2> HIDE DEF alone
  <2> QED
    BY <1>2, <2>1 DEF Seens
<1>8. e \in Events
  BY <1>2 DEF Events, Modes
<1>9. /\ p.matrix = matrix /\ p.events = e /\ p.typist = typist /\ p.user = u
      /\ p.screen = screen /\ p.seen = s
  BY <1>2 DEF ev_set, Now, Events, Users, Seens
<1>10. p \in States
  <2> HIDE DEF e, u, s
  <2> QED
    BY <1>2, <1>6, <1>7, <1>8, <1>9 DEF States, ev_set, Now
<1> HIDE DEF u, s, e
<1>11. OK(p)
  <2> HIDE DEF p
  <2>1. Held(Now) = user.keys \cup ButtonKeys(user) \cup {screen.last, screen.composed}
                    \cup TypedKeys(typist) \cup seen.left
    BY DEF Held, Now
  <2>2. Held(p) = user.keys \cup {m[b] : b \in user.held} \cup {screen.last, screen.composed}
                  \cup TypedKeys(typist) \cup seen.left \cup moved
    BY <1>6, <1>7, <1>9 DEF Held
  <2>3. p.matrix \subseteq Held(p)
    BY <1>2, <1>5, <1>9, <2>1, <2>2
  <2> QED
    BY <1>10, <2>3 DEF OK
<1>12. Become(IF machine THEN computer_reset(Cleared(p)) ELSE p)
  BY <1>1 DEF moved
<1> HIDE DEF p
<1>13. OK(IF machine THEN computer_reset(Cleared(p)) ELSE p)
  BY <1>10, <1>11, ClearedOK, PrepareOK
<1> QED
  BY <1>2, <1>12, <1>13, BecomeOK DEF IInv

(***************************************************************************)
(* The invariant.                                                          *)
(***************************************************************************)
LEMMA Initial == ASSUME Init
                 PROVE  IInv
<1>1. PICK auto \in BOOLEAN, text \in {<<>>, Loader} :
        /\ events = [mode |-> IF auto \/ text # <<>> THEN "AUTO" ELSE "JOY", autorun |-> auto,
                     event |-> FALSE]
        /\ typist = [text |-> text, pos |-> 1, old |-> FALSE, delay |-> Delay,
                     wait_computer |-> TRUE, wait_loop |-> IF text = <<>> THEN 0 ELSE Loops]
  BY DEF Init
<1>2. PICK m \in Maps : user = [keys |-> {}, held |-> {}, map |-> m]
  BY DEF Init
<1>3. events \in Events
  BY <1>1 DEF Events, Modes
<1>4. typist \in Typists
  <2>1. text \in Texts /\ Len(text) \in Nat
    BY TextsTyped DEF Texts
  <2>2. 1 \in 1 .. Len(text) + 1 /\ Delay \in 0 .. Delay /\ 0 \in 0 .. Loops /\ Loops \in 0 .. Loops
    BY <2>1, BoundAssumption
  <2> QED
    BY <1>1, <2>1, <2>2 DEF Typists
<1>5. user \in Users
  BY <1>2 DEF Users
<1>6. screen \in Screens
  BY DEF Init, Screens
<1>7. seen \in Seens
  <2>1. <<>> \in Seq(SUBSET Keys)
    OBVIOUS
  <2> QED
    BY <2>1 DEF Init, Seens
<1>8. matrix = {} /\ seen.left = {} /\ calls = 0
  BY DEF Init
<1>9. Now \in States /\ Now.matrix = {}
  BY <1>3, <1>4, <1>5, <1>6, <1>7, <1>8 DEF Now, States
<1> QED
  BY <1>8, <1>9, BoundAssumption DEF IInv, OK

LEMMA Steps == ASSUME IInv, [Next]_vars
               PROVE  IInv'
<1>1. Now \in States /\ OK(Now)
  BY DEF IInv, OK
<1>2. CASE Hotkey
  BY <1>1, <1>2, ToggleOK, BecomeOK DEF IInv, Hotkey
<1>3. CASE Reset
  <2>1. OK(computer_reset(Cleared(Now)))
    BY <1>1, ClearedOK, PrepareOK
  <2>2. Become(computer_reset(Cleared(Now))) /\ calls' \in 0 .. Hosts
    BY <1>3, BoundAssumption DEF IInv, Reset, Called
  <2> QED
    BY <2>1, <2>2, BecomeOK DEF IInv
<1>4. CASE InsertTape
  <2>1. OK(ev_autorun_prepare(Now, Loader))
    BY <1>1, PrepareOK
  <2>2. Become(ev_autorun_prepare(Now, Loader)) /\ calls' \in 0 .. Hosts
    BY <1>4, BoundAssumption DEF IInv, InsertTape, Called
  <2> QED
    BY <2>1, <2>2, BecomeOK DEF IInv
<1>5. CASE UNCHANGED vars
  BY <1>5 DEF vars, IInv, OK, Held, ButtonKeys, TypedKeys, TypeKeys, Current, Ended, Now
<1> QED
  BY <1>2, <1>3, <1>4, <1>5, KeyStep, RunStep, OptionsStep DEF Next

LEMMA Invariance == Spec => []IInv
BY Initial, Steps, PTL DEF Spec

(***************************************************************************)
(* The variables keep their types, whatever is typed, pressed and clicked, *)
(* in every order: in particular a text never has a character half typed   *)
(* where its cursor is not (kbd_buf_feed forgets the old one), and keys    *)
(* nobody will release are keys that are down.                             *)
(***************************************************************************)
THEOREM InputTypes == Spec => []TypeOK
<1>1. IInv => TypeOK
  <2> SUFFICES ASSUME IInv
               PROVE  TypeOK
    OBVIOUS
  <2>1. Now \in States /\ matrix \in SUBSET Keys /\ events \in Events /\ typist \in Typists
        /\ user \in Users /\ screen \in Screens /\ seen \in Seens
    BY DEF IInv, OK, Now, States
  <2> QED
    BY <2>1 DEF IInv, TypeOK, Events, Typists, Users, Screens, Seens
<1> QED
  BY <1>1, Invariance, PTL

(***************************************************************************)
(* No key is stuck but in the five ways that NoStuckKeys names, for all    *)
(* texts, tables of characters, assignments of buttons and virtual         *)
(* keyboards.                                                              *)
(***************************************************************************)
THEOREM KeysReleased == Spec => []NoStuckKeys
<1>1. IInv => NoStuckKeys
  BY DEF IInv, OK, NoStuckKeys, Held, ButtonKeys, Now
<1> QED
  BY <1>1, Invariance, PTL

\* Induction over the naturals, with the property as a set.
LEMMA Induction == ASSUME NEW S, 0 \in S, \A n \in Nat : n \in S => n + 1 \in S
                   PROVE  Nat \subseteq S
<1> SUFFICES ASSUME Nat \ S # {}
             PROVE  FALSE
  OBVIOUS
<1>1. PICK n \in Nat \ S : \A m \in Nat \ S : <<m, n>> \notin OpToRel(<, Nat)
  BY NatLessThanWellFounded, WFMin
<1>2. n - 1 \in Nat /\ n - 1 < n
  OBVIOUS
<1>3. <<n - 1, n>> \in OpToRel(<, Nat)
  BY <1>2 DEF OpToRel
<1>4. n - 1 \in S
  BY <1>1, <1>2, <1>3
<1> QED
  BY <1>2, <1>4

\* f is defined along 1 .. n by its value before.
Runs(f, T, a, n, step) ==
  f \in [0 .. n -> T] /\ f[0] = a /\ \A i \in 1 .. n : f[i] = step[<<f[i - 1], i>>]

\* A function that is defined along 1 .. n exists.
LEMMA Recursion ==
  ASSUME NEW T, NEW a, NEW n, NEW step,
         a \in T, n \in Nat, step \in [T \X (1 .. n) -> T]
  PROVE  \E f : Runs(f, T, a, n, step)
<1> DEFINE Goes(g, m) == /\ g \in [0 .. m -> T] /\ g[0] = a
                         /\ \A i \in 1 .. m : g[i] = step[<<g[i - 1], i>>]
           R == {m \in Nat : m <= n => \E g : Goes(g, m)}
<1>1. 0 \in R
  <2>1. Goes([i \in 0 .. 0 |-> a], 0)
    OBVIOUS
  <2> QED BY <2>1
<1>2. \A m \in Nat : m \in R => m + 1 \in R
  <2> TAKE m \in Nat
  <2> HAVE m \in R
  <2>0. ASSUME m + 1 <= n
        PROVE  \E g : Goes(g, m + 1)
    <3>1. PICK g : Goes(g, m)
      BY <2>0
    <3> DEFINE h == [i \in 0 .. m + 1 |-> IF i = m + 1 THEN step[<<g[m], m + 1>>] ELSE g[i]]
    <3>2. g[m] \in T /\ m + 1 \in 1 .. n
      BY <2>0, <3>1
    <3>3. step[<<g[m], m + 1>>] \in T
      BY <3>2
    <3>4. h \in [0 .. m + 1 -> T] /\ h[0] = a
      BY <3>1, <3>3
    <3>5. ASSUME NEW i \in 1 .. m + 1
          PROVE  h[i] = step[<<h[i - 1], i>>]
      <4>1. i \in 0 .. m + 1 /\ i - 1 \in 0 .. m + 1 /\ i - 1 # m + 1
        OBVIOUS
      <4>2. h[i - 1] = g[i - 1]
        BY <4>1
      <4>3. CASE i = m + 1
        <5>1. h[i] = step[<<g[m], m + 1>>]
          BY <4>1, <4>3
        <5>2. i - 1 = m
          BY <4>3
        <5> HIDE DEF h
        <5> QED BY <4>2, <4>3, <5>1, <5>2
      <4>4. CASE i # m + 1
        <5>1. h[i] = g[i] /\ i \in 1 .. m
          BY <4>1, <4>4
        <5> HIDE DEF h
        <5> QED BY <3>1, <4>2, <5>1
      <4> QED BY <4>3, <4>4
    <3> HIDE DEF h
    <3>6. Goes(h, m + 1)
      BY <3>4, <3>5
    <3> QED BY <3>6
  <2> HIDE DEF Goes
  <2> QED BY <2>0
<1>3. n \in R
  <2> HIDE DEF R
  <2> QED BY <1>1, <1>2, Induction
<1>4. PICK g : Goes(g, n)
  BY <1>3
<1>5. Runs(g, T, a, n, step)
  BY <1>4 DEF Runs
<1> QED BY <1>5


(***************************************************************************)
(* What is to be seen of a text, character by character.                   *)
(***************************************************************************)
Sees(f, text) ==
  f = [i \in 0 .. Len(text) |->
         IF i = 0 THEN <<>>
         ELSE IF text[i] \in Specials THEN f[i - 1]
         ELSE Append(f[i - 1], TypeKeys(text[i]))]

\* The recursion of Written: the function it takes exists and is the only one.
LEMMA WrittenIs ==
  ASSUME NEW text \in Texts
  PROVE  /\ Written(text, 0) = <<>>
         /\ \A i \in 1 .. Len(text) :
              Written(text, i) = IF text[i] \in Specials THEN Written(text, i - 1)
                                 ELSE Append(Written(text, i - 1), TypeKeys(text[i]))
<1> DEFINE n == Len(text)
           T == Seq(SUBSET Keys)
           step == [x \in T \X (1 .. n) |->
                      IF text[x[2]] \in Specials THEN x[1] ELSE Append(x[1], TypeKeys(text[x[2]]))]
           f0 == CHOOSE f : Sees(f, text)
<1>1. n \in Nat /\ \A i \in 1 .. n : text[i] \in DOMAIN KeysOf \cup Specials
  <2>1. text \in Seq(DOMAIN KeysOf \cup Specials)
    BY TextsTyped
  <2> QED BY <2>1
<1>2. \A i \in 1 .. n : text[i] \notin Specials => TypeKeys(text[i]) \in SUBSET Keys
  <2> TAKE i \in 1 .. n
  <2> HAVE text[i] \notin Specials
  <2>1. text[i] \in DOMAIN KeysOf
    BY <1>1
  <2> HIDE DEF n
  <2> QED BY <2>1, KeyAssumption DEF TypeKeys
<1>3. <<>> \in T /\ \A s \in T, k \in SUBSET Keys : Append(s, k) \in T
  OBVIOUS
<1> HIDE DEF n, T
<1>4. step \in [T \X (1 .. n) -> T]
  <2>1. ASSUME NEW s \in T, NEW i \in 1 .. n
        PROVE  (IF text[i] \in Specials THEN s ELSE Append(s, TypeKeys(text[i]))) \in T
    BY <1>2, <1>3
  <2> QED BY <2>1
<1> HIDE DEF step
<1>5. PICK g : Runs(g, T, <<>>, n, step)
  <2> DEFINE e == <<>>
  <2>1. e \in T /\ n \in Nat
    BY <1>1, <1>3
  <2> HIDE DEF e
  <2>2. \E g : Runs(g, T, e, n, step)
    BY <1>4, <2>1, Recursion
  <2> QED BY <2>2 DEF e
<1>6. g \in [0 .. n -> T] /\ g[0] = <<>> /\ \A i \in 1 .. n : g[i] = step[<<g[i - 1], i>>]
  BY <1>5 DEF Runs
<1>7. \A i \in 1 .. n : g[i] = IF text[i] \in Specials THEN g[i - 1]
                                ELSE Append(g[i - 1], TypeKeys(text[i]))
  <2> TAKE i \in 1 .. n
  <2>1. i - 1 \in 0 .. n
    BY <1>1
  <2>2. g[i - 1] \in T
    BY <1>6, <2>1
  <2>3. step[<<g[i - 1], i>>] = IF text[i] \in Specials THEN g[i - 1]
                                ELSE Append(g[i - 1], TypeKeys(text[i]))
    BY <2>2 DEF step
  <2> QED BY <1>6, <2>3
<1>8. Sees(g, text)
  <2>1. \A i \in 0 .. n : g[i] = IF i = 0 THEN <<>> ELSE IF text[i] \in Specials THEN g[i - 1]
                                 ELSE Append(g[i - 1], TypeKeys(text[i]))
    <3> TAKE i \in 0 .. n
    <3>1. i = 0 \/ i \in 1 .. n
      BY <1>1
    <3> QED BY <1>6, <1>7, <3>1
  <2>2. g = [i \in 0 .. n |-> g[i]]
    BY <1>6
  <2>3. g = [i \in 0 .. n |-> IF i = 0 THEN <<>> ELSE IF text[i] \in Specials THEN g[i - 1]
                              ELSE Append(g[i - 1], TypeKeys(text[i]))]
    BY <2>1, <2>2
  <2> QED BY <2>3 DEF Sees, n
<1>9. Sees(f0, text)
  BY <1>8
<1>10. \A i : Written(text, i) = f0[i]
  BY DEF Written, Sees
<1> HIDE DEF f0
<1>11. \A i \in 0 .. n : f0[i] = IF i = 0 THEN <<>> ELSE IF text[i] \in Specials THEN f0[i - 1]
                                 ELSE Append(f0[i - 1], TypeKeys(text[i]))
  <2>1. f0 = [i \in 0 .. n |-> IF i = 0 THEN <<>> ELSE IF text[i] \in Specials THEN f0[i - 1]
                               ELSE Append(f0[i - 1], TypeKeys(text[i]))]
    BY <1>9 DEF Sees, n
  <2> QED BY <2>1
<1>12. 0 \in 0 .. n /\ \A i \in 1 .. n : i \in 0 .. n /\ i # 0
  BY <1>1
<1>13. f0[0] = <<>>
  BY <1>11, <1>12
<1>14. \A i \in 1 .. n : f0[i] = IF text[i] \in Specials THEN f0[i - 1]
                                 ELSE Append(f0[i - 1], TypeKeys(text[i]))
  BY <1>11, <1>12
<1> QED BY <1>10, <1>13, <1>14 DEF n

(***************************************************************************)
(* What has been typed is what is written.  Ready is what holds when the   *)
(* machine has just looked at the matrix, Faithful when it has not yet.    *)
(***************************************************************************)
Reading(t) == Written(t.text, IF t.old THEN t.pos ELSE t.pos - 1)
Glance(s, down) == IF (down \ s.matrix) \ {Shift} # {} THEN Append(s.typed, down) ELSE s.typed
Alone(p) == p.events.mode = "AUTO" /\ p.seen.alone
Faithful(p) ==
  Alone(p) => p.matrix = TypedKeys(p.typist) /\ Glance(p.seen, p.matrix) = Reading(p.typist)
Ready(p) ==
  Alone(p) => /\ p.matrix = TypedKeys(p.typist) /\ p.seen.typed = Reading(p.typist)
              /\ p.seen.matrix = p.matrix

\* Looking again changes nothing.
LEMMA ReadyFaithful == ASSUME NEW p, Ready(p) PROVE Faithful(p)
BY DEF Ready, Faithful, Glance

\* A new text begins with nothing typed, and alone only if no key is down.
LEMMA FeedFaithful == ASSUME NEW p, OK(p), NEW text \in Texts
                      PROVE  Faithful(Feed(p, text))
<1> DEFINE q == Feed(p, text)
<1>1. p \in States /\ p.typist \in Typists /\ p.seen \in Seens /\ p.events \in Events
  BY DEF OK, States
<1>2. /\ q.seen.alone = (p.matrix = {}) /\ q.seen.typed = <<>> /\ q.seen.matrix = {}
      /\ q.matrix = p.matrix /\ q.typist = kbd_buf_feed(p.typist, text)
  BY <1>1 DEF Feed, States, Seens, Events
<1>3. q.typist.text = text /\ q.typist.pos = 1 /\ q.typist.old = FALSE
  BY <1>1, <1>2 DEF kbd_buf_feed, Typists
<1>4. TypedKeys(q.typist) = {} /\ Reading(q.typist) = <<>>
  <2>1. Written(text, 0) = <<>>
    BY WrittenIs
  <2> HIDE DEF q
  <2> QED BY <1>3, <2>1 DEF TypedKeys, Reading
<1> HIDE DEF q
<1>5. Faithful(q)
  BY <1>2, <1>4 DEF Faithful, Alone, Glance
<1> QED BY <1>5 DEF q

LEMMA PausedFaithful ==
  ASSUME NEW t \in Typists, NEW delay \in 0 .. Delay, NEW wait \in BOOLEAN
  PROVE  Reading([t EXCEPT !.delay = delay, !.wait_computer = wait]) = Reading(t)
BY DEF Typists, Reading

\* The same typist, with nothing else at the matrix.
LEMMA StillFaithful ==
  ASSUME NEW p, NEW q, Faithful(p),
         Alone(q) => /\ Alone(p) /\ q.matrix = p.matrix /\ q.seen.matrix = p.seen.matrix
                     /\ q.seen.typed = p.seen.typed
                     /\ TypedKeys(q.typist) = TypedKeys(p.typist)
                     /\ Reading(q.typist) = Reading(p.typist)
  PROVE  Faithful(q)
BY DEF Faithful, Glance

\* So does the text of the loader.
LEMMA PrepareFaithful == ASSUME NEW p, OK(p)
                         PROVE  Faithful(ev_autorun_prepare(p, Loader))
<1> DEFINE q == Feed(p, Loader)
           t == [q.typist EXCEPT !.delay = Delay, !.wait_computer = TRUE]
           r == [q EXCEPT !.typist = t]
<1>1. OK(q) /\ Faithful(q)
  BY FeedOK, FeedFaithful DEF Texts
<1>2. q \in States /\ q.typist \in Typists
  BY <1>1 DEF OK, States
<1>3. Delay \in 0 .. Delay /\ TRUE \in BOOLEAN
  BY BoundAssumption
<1>4. ev_autorun_prepare(p, Loader) = r
  <2> HIDE DEF q
  <2>1. ev_autorun_prepare(p, Loader) = [q EXCEPT !.typist.delay = Delay, !.typist.wait_computer = TRUE]
    BY DEF ev_autorun_prepare, q
  <2> QED BY <1>2, <2>1 DEF States
<1> HIDE DEF q
<1>5. TypedKeys(t) = TypedKeys(q.typist) /\ Reading(t) = Reading(q.typist)
  BY <1>2, <1>3, PausedTyped, PausedFaithful
<1> HIDE DEF t
<1>6. /\ r.typist = t /\ r.events = q.events /\ r.seen = q.seen /\ r.matrix = q.matrix
  BY <1>2 DEF States
<1> HIDE DEF r
<1>7. Faithful(r)
  BY <1>1, <1>5, <1>6, StillFaithful DEF Alone
<1> QED BY <1>4, <1>7

(***************************************************************************)
(* One step of the typist on s = [matrix, typist, done], at a matrix that  *)
(* nothing else touches and that the machine has just seen.                *)
(***************************************************************************)
LEMMA UpdateTypes ==
  ASSUME NEW t \in Typists, NEW m \in SUBSET Keys, m = TypedKeys(t), NEW h, h.matrix = m,
         h.typed = Reading(t)
  PROVE  LET r == kbd_buf_update([matrix |-> m, done |-> FALSE, typist |-> t])
         IN ~r.done => r.matrix = TypedKeys(r.typist) /\ Glance(h, r.matrix) = Reading(r.typist)
<1> DEFINE s == [matrix |-> m, done |-> FALSE, typist |-> t]
           r == kbd_buf_update(s)
           c == Current(t)
           Good == r.matrix = TypedKeys(r.typist) /\ Glance(h, r.matrix) = Reading(r.typist)
<1> SUFFICES ~r.done => Good
  OBVIOUS
<1>1. /\ t.old \in BOOLEAN /\ t.pos \in 1 .. Len(t.text) + 1 /\ t.text \in Texts
      /\ t.pos \in Nat
  BY DEF Typists
<1>2. /\ c \in DOMAIN KeysOf \cup Specials \cup {"end"} /\ (t.old => c \in DOMAIN KeysOf)
      /\ c # "end" => t.pos \in 1 .. Len(t.text) /\ c = t.text[t.pos]
  BY CurrentTyped DEF Typists, Current, Ended
<1>3. t.old => c \notin Specials \cup {"end"}
  BY <1>2, KeyAssumption
<1>4. c # "end" => Written(t.text, t.pos) = IF c \in Specials THEN Written(t.text, t.pos - 1)
                                       ELSE Append(Written(t.text, t.pos - 1), TypeKeys(c))
  <2> HIDE DEF c
  <2> QED BY <1>1, <1>2, WrittenIs
<1>5. \A u \in Typists : ~u.old => TypedKeys(u) = {} /\ Reading(u) = Written(u.text, u.pos - 1)
  BY DEF TypedKeys, Reading
<1>6. Glance(h, m) = h.typed
  BY DEF Glance
<1> HIDE DEF c
<1>7. ASSUME NEW u, NEW b, u = [t EXCEPT !.pos = @ + 1, !.wait_loop = b], c \in Specials, u \in Typists
      PROVE  TypedKeys(u) = TypedKeys(t) /\ Reading(u) = Reading(t)
  <2>1. ~t.old /\ c # "end" /\ ~u.old /\ u.pos = t.pos + 1 /\ u.text = t.text
    BY <1>1, <1>2, <1>3, <1>7, KeyAssumption DEF Typists, Specials
  <2>2. (t.pos + 1) - 1 = t.pos
    BY <1>1
  <2> QED BY <1>4, <1>5, <1>7, <2>1, <2>2
<1>8. CASE c = "play"
  <2> DEFINE u == [t EXCEPT !.pos = @ + 1]
  <2>1. ~t.old /\ c # "end"
    BY <1>3, <1>8 DEF Specials
  <2>2. u \in Typists
    BY <1>1, <2>1, BoundAssumption, MovedTyped DEF c, Typists
  <2>3. r = [s EXCEPT !.typist = u] /\ u = [t EXCEPT !.pos = @ + 1, !.wait_loop = t.wait_loop]
    BY <1>8 DEF kbd_buf_update, c, Typists
  <2> HIDE DEF u
  <2>4. r.typist = u /\ r.matrix = m
    BY <2>3
  <2>5. TypedKeys(u) = TypedKeys(t) /\ Reading(u) = Reading(t)
    BY <1>7, <1>8, <2>2, <2>3 DEF Specials
  <2> HIDE DEF r
  <2> QED BY <1>6, <2>4, <2>5
<1>9. CASE c = "wait"
  <2>1. ~t.old /\ c # "end"
    BY <1>3, <1>9 DEF Specials
  <2>2. CASE t.wait_loop > 0
    <3> DEFINE u == [t EXCEPT !.wait_loop = @ - 1]
    <3>1. r = [s EXCEPT !.typist = u]
      BY <1>9, <2>2 DEF kbd_buf_update, Wait, c
    <3>2. TypedKeys(u) = TypedKeys(t) /\ Reading(u) = Reading(t)
      BY DEF TypedKeys, Current, Ended, Reading, Typists
    <3> HIDE DEF u
    <3>3. r.typist = u /\ r.matrix = m
      BY <3>1
    <3> HIDE DEF r
    <3> QED BY <1>6, <3>2, <3>3
  <2>3. CASE ~(t.wait_loop > 0)
    <3> DEFINE u == [t EXCEPT !.pos = @ + 1, !.wait_loop = Loops]
    <3>0. Loops \in 0 .. Loops
      BY BoundAssumption
    <3>1. u \in Typists
      <4>1. [t EXCEPT !.wait_loop = Loops, !.pos = @ + 1] \in Typists
        BY <2>1, <3>0, MovedTyped DEF c
      <4>2. u = [t EXCEPT !.wait_loop = Loops, !.pos = @ + 1]
        OBVIOUS
      <4> QED BY <4>1, <4>2
    <3>2. r = [s EXCEPT !.typist = u]
      BY <1>9, <2>3 DEF kbd_buf_update, Wait, c
    <3> HIDE DEF u
    <3>3. r.typist = u /\ r.matrix = m
      BY <3>2
    <3>4. TypedKeys(u) = TypedKeys(t) /\ Reading(u) = Reading(t)
      BY <1>7, <1>9, <3>1 DEF u, Specials
    <3> HIDE DEF r
    <3> QED BY <1>6, <3>3, <3>4
  <2> QED BY <2>2, <2>3
<1>10. CASE c \in {"stop", "end"}
  <2>1. r.done
    BY <1>10 DEF kbd_buf_update, Clean, c
  <2> QED BY <2>1
<1>11. CASE c \notin {"play", "wait", "stop", "end"}
  <2>1. c \in DOMAIN KeysOf /\ c \notin Specials /\ c # "end" /\ KeysOf[c] \ {Shift} # {}
    BY <1>2, <1>11, KeyAssumption DEF Specials
  <2>2. CASE t.old
    <3> DEFINE u == [t EXCEPT !.pos = @ + 1, !.old = FALSE]
    <3>1. r = [s EXCEPT !.matrix = @ \ KeysOf[c], !.typist = u]
      BY <1>11, <2>2 DEF kbd_buf_update, Release, TypeKeys, Typists, c
    <3>2. m = KeysOf[c]
      BY <2>2 DEF TypedKeys, TypeKeys, c
    <3>3. ~u.old /\ u.pos = t.pos + 1 /\ u.text = t.text
      BY DEF Typists
    <3>4. TypedKeys(u) = {} /\ Reading(u) = Written(t.text, t.pos)
      <4>1. (t.pos + 1) - 1 = t.pos
        BY <1>1
      <4> HIDE DEF u
      <4> QED BY <3>3, <4>1 DEF TypedKeys, Reading
    <3>5. Reading(t) = Written(t.text, t.pos)
      BY <2>2 DEF Reading
    <3> HIDE DEF u
    <3>6. r.typist = u /\ r.matrix = {}
      BY <3>1, <3>2
    <3>7. Glance(h, {}) = h.typed
      BY DEF Glance
    <3> HIDE DEF r
    <3> QED BY <3>4, <3>5, <3>6, <3>7
  <2>3. CASE ~t.old
    <3> DEFINE u == [t EXCEPT !.old = TRUE]
    <3>1. r = [s EXCEPT !.matrix = @ \cup KeysOf[c], !.typist = u]
      BY <1>11, <2>3 DEF kbd_buf_update, Press, TypeKeys, Typists, c
    <3>2. m = {}
      BY <2>3 DEF TypedKeys
    <3>3. TypedKeys(u) = KeysOf[c]
      BY DEF TypedKeys, TypeKeys, Current, Ended, Typists, c
    <3>4. Reading(u) = Written(t.text, t.pos) /\ Reading(t) = Written(t.text, t.pos - 1)
      BY <2>3 DEF Reading, Typists
    <3> HIDE DEF u
    <3>5. r.typist = u /\ r.matrix = KeysOf[c]
      BY <3>1, <3>2
    <3> HIDE DEF r
    <3>6. Glance(h, KeysOf[c]) = Append(h.typed, KeysOf[c])
      <4>1. (KeysOf[c] \ h.matrix) \ {Shift} # {}
        BY <2>1, <3>2
      <4> QED BY <4>1 DEF Glance
    <3>7. Append(h.typed, KeysOf[c]) = Written(t.text, t.pos)
      BY <1>4, <2>1, <3>4 DEF TypeKeys
    <3> QED BY <3>3, <3>4, <3>5, <3>6, <3>7
  <2> QED BY <2>2, <2>3
<1> HIDE DEF Good
<1> QED BY <1>8, <1>9, <1>10, <1>11

\* The typist, with its delay and its wait between two steps.
LEMMA AutorunFaithful == ASSUME NEW p, OK(p), Ready(p), p.events.mode = "AUTO"
                         PROVE  Faithful(ev_autorun(p))
<1> DEFINE t == p.typist
           t1 == [t EXCEPT !.wait_computer = FALSE]
           m == p.matrix
           s == kbd_buf_update([matrix |-> m, done |-> FALSE, typist |-> t1])
           q == [p EXCEPT !.matrix = s.matrix, !.typist = s.typist]
           r == ev_autorun(p)
<1>1. p \in States /\ t \in Typists /\ p.seen \in Seens /\ p.events \in Events /\ m \in SUBSET Keys
  BY DEF OK, States
<1>2. t1 \in Typists /\ TypedKeys(t1) = TypedKeys(t) /\ Reading(t1) = Reading(t)
  BY <1>1 DEF Typists, TypedKeys, Current, Ended, Reading
<1>3. Faithful(p)
  BY ReadyFaithful
<1> SUFFICES ASSUME Alone(r)
             PROVE  r.matrix = TypedKeys(r.typist) /\ Glance(r.seen, r.matrix) = Reading(r.typist)
  <2> HIDE DEF r
  <2>1. Faithful(r)
    BY DEF Faithful
  <2> QED BY <2>1 DEF r
<1>4. CASE t.delay > 0 \/ ~t.wait_computer
  <2>1. PICK d \in Int, w \in BOOLEAN : r = [p EXCEPT !.typist.delay = d, !.typist.wait_computer = w]
    <3>1. CASE t.delay > 0
      <4>1. r = [p EXCEPT !.typist.delay = t.delay - 1, !.typist.wait_computer = t.wait_computer]
        BY <1>1, <3>1 DEF ev_autorun, States, Typists
      <4>2. t.delay - 1 \in Int /\ t.wait_computer \in BOOLEAN
        BY <1>1, BoundAssumption DEF Typists
      <4> QED BY <4>1, <4>2
    <3>2. CASE ~(t.delay > 0) /\ ~t.wait_computer
      <4>1. r = [p EXCEPT !.typist.delay = t.delay, !.typist.wait_computer = TRUE]
        BY <1>1, <3>2 DEF ev_autorun, States, Typists
      <4>2. t.delay \in Int
        BY <1>1, BoundAssumption DEF Typists
      <4> QED BY <4>1, <4>2
    <3> QED BY <1>4, <3>1, <3>2
  <2> DEFINE u == [t EXCEPT !.delay = d, !.wait_computer = w]
  <2>2. TypedKeys(u) = TypedKeys(t) /\ Reading(u) = Reading(t)
    BY <1>1 DEF Typists, TypedKeys, Current, Ended, Reading
  <2>3. r.typist = u /\ r.matrix = m /\ r.seen = p.seen /\ r.events = p.events
    <3> HIDE DEF r
    <3> QED BY <1>1, <2>1 DEF States
  <2> HIDE DEF u, r
  <2>4. Alone(p)
    BY <2>3 DEF Alone
  <2> QED BY <1>3, <2>2, <2>3, <2>4 DEF Faithful
<1>5. CASE ~(t.delay > 0) /\ t.wait_computer /\ s.done
  <2>1. r = [q EXCEPT !.events.mode = "JOY", !.typist.delay = Delay, !.typist.wait_computer = TRUE,
                      !.seen.alone = FALSE]
    BY <1>1, <1>5 DEF ev_autorun, ev_set, States
  <2> HIDE DEF s
  <2>2. r.seen.alone = FALSE
    <3>1. q.seen = p.seen
      BY <1>1 DEF States
    <3> HIDE DEF q
    <3>2. q.seen \in Seens /\ r.seen = [q.seen EXCEPT !.alone = FALSE]
      <4>1. q \in [matrix : {q.matrix}, events : {q.events}, typist : {q.typist}, user : {q.user}, screen : {q.screen}, seen : {q.seen}]
        BY <1>1 DEF q, States
      <4> QED BY <1>1, <2>1, <3>1, <4>1
    <3> HIDE DEF r
    <3> QED BY <3>2 DEF Seens
  <2> QED BY <2>2 DEF Alone
<1>6. CASE ~(t.delay > 0) /\ t.wait_computer /\ ~s.done
  <2>1. r = q
    BY <1>6 DEF ev_autorun
  <2> HIDE DEF s
  <2>2. q.matrix = s.matrix /\ q.typist = s.typist /\ q.seen = p.seen /\ q.events = p.events
    BY <1>1 DEF States
  <2> HIDE DEF q, r
  <2>3. Alone(p)
    BY <2>1, <2>2 DEF Alone
  <2>4. m = TypedKeys(t1) /\ p.seen.matrix = m /\ p.seen.typed = Reading(t1)
    BY <1>2, <2>3 DEF Ready
  <2> DEFINE h == p.seen
  <2> HIDE DEF t1, h, m
  <2>5. s.matrix = TypedKeys(s.typist) /\ Glance(h, s.matrix) = Reading(s.typist)
    <3>1. h.matrix = m /\ h.typed = Reading(t1) /\ m = TypedKeys(t1) /\ m \in SUBSET Keys
          /\ t1 \in Typists
      BY <1>1, <1>2, <2>4 DEF h
    <3> QED BY <1>6, <3>1, UpdateTypes DEF s
  <2> QED BY <2>1, <2>2, <2>5 DEF h
<1> QED
  BY <1>4, <1>5, <1>6

\* Buttons may feed a text or hand the matrix over.
LEMMA CombinationFaithful ==
  ASSUME NEW p, OK(p), p.events.mode # "AUTO", NEW pad
  PROVE  Faithful(events_joy(p, pad))
<1>1. Command \in Texts
  BY DEF Texts
<1>2. ASSUME NEW q, OK(q), Faithful(q), NEW e \in BOOLEAN
      PROVE  Faithful([q EXCEPT !.events.event = e])
  <2> DEFINE r == [q EXCEPT !.events.event = e]
  <2>1. q \in States /\ q.events \in Events
    BY <1>2 DEF OK, States
  <2>2. /\ r.events = [q.events EXCEPT !.event = e]
        /\ r.matrix = q.matrix /\ r.typist = q.typist /\ r.seen = q.seen
    BY <2>1 DEF States
  <2> HIDE DEF r
  <2>3. r.events.mode = q.events.mode
    BY <2>1, <2>2 DEF Events
  <2>4. Faithful(r)
    BY <1>2, <2>2, <2>3, StillFaithful DEF Alone
  <2> QED BY <2>4 DEF r
<1>3. Faithful(p)
  BY DEF Faithful, Alone
<1>4. Faithful(ev_toggle_call(p)) /\ OK(ev_toggle_call(p))
  <2> DEFINE q == ev_toggle_call(p)
  <2>1. p \in States /\ p.events \in Events
    BY DEF OK, States
  <2>2. q.events = [p.events EXCEPT !.mode = IF p.events.mode = "JOY" THEN "KBD" ELSE "JOY"]
    BY <2>1 DEF ev_toggle_call, ev_set, States
  <2>3. q.events.mode # "AUTO"
    <3> HIDE DEF q
    <3> QED BY <2>1, <2>2 DEF Events
  <2> QED BY <2>3, ToggleOK DEF Faithful, Alone
<1>5. Faithful(Feed(p, Command)) /\ OK(Feed(p, Command))
  BY <1>1, FeedOK, FeedFaithful
<1>6. /\ Faithful([Feed(p, Command) EXCEPT !.events.event = TRUE])
      /\ Faithful([ev_toggle_call(p) EXCEPT !.events.event = TRUE])
      /\ Faithful([p EXCEPT !.events.event = FALSE])
  BY <1>2, <1>3, <1>4, <1>5
<1> QED
  BY <1>3, <1>6 DEF events_joy, Combination

\* Whichever handler is in place.
LEMMA EventsFaithful == ASSUME NEW p, OK(p), Ready(p), NEW pad
                        PROVE  Faithful(process_events(p, pad))
<1>1. p.events.mode \in Modes /\ p \in States
  BY DEF OK, States, Events
<1>2. CASE p.events.mode = "AUTO"
  BY <1>2, AutorunFaithful DEF process_events
<1>3. CASE p.events.mode = "JOY"
  <2>1. ASSUME NEW q, OK(q), NEW n
        PROVE  OK(process_joy(q, n, pad)) /\ process_joy(q, n, pad).events = q.events
    <3>1. q \in States
      BY <2>1 DEF OK
    <3>2. process_joy(q, n, pad).events = q.events
      BY <3>1 DEF process_joy, States
    <3> QED BY <2>1, <3>2, ButtonsOK
  <2> DEFINE q == process_joy(p, 2, pad)
             r == process_joy(q, 1, pad)
  <2>2. OK(q) /\ q.events = p.events
    BY <2>1
  <2>3. process_events(p, pad) = IF Combo \in pad \/ p.events.event THEN events_joy(q, pad) ELSE r
    BY <1>3 DEF process_events, ev_joysticks
  <2>4. r.events = p.events
    <3> HIDE DEF q
    <3> QED BY <2>1, <2>2
  <2> HIDE DEF q, r
  <2>5. Faithful(r)
    BY <1>3, <2>4 DEF Faithful, Alone
  <2>6. Faithful(events_joy(q, pad))
    BY <1>3, <2>2, CombinationFaithful
  <2> QED BY <2>3, <2>5, <2>6
<1>4. CASE p.events.mode = "KBD"
  BY <1>4, CombinationFaithful DEF process_events
<1> QED
  BY <1>1, <1>2, <1>3, <1>4 DEF Modes

\* A click of the virtual keyboard that reaches the matrix ends the reading.
LEMMA ClickFaithful == ASSUME NEW p, OK(p), Faithful(p), NEW key
                       PROVE  Faithful(keyboard_mouse_click(p, key))
<1> DEFINE q == IF p.screen.clicked THEN ClickOn(p, key) ELSE ClickOff(p)
           r == keyboard_mouse_click(p, key)
           left == IF p.screen.clicked THEN p.seen.left \cup ({p.screen.last} \ {NoKey})
                   ELSE p.seen.left
<1>1. p \in States /\ p.seen \in Seens
  BY DEF OK, States
<1>2. q.events = p.events /\ q.typist = p.typist /\ q.seen = p.seen
      /\ q \in [matrix : {q.matrix}, events : {q.events}, typist : {q.typist},
                user : {q.user}, screen : {q.screen}, seen : {q.seen}]
  BY <1>1 DEF ClickOn, ClickOff, States
<1>3. r = [q EXCEPT !.seen.alone = @ /\ q.matrix = p.matrix, !.seen.left = left]
  BY <1>1 DEF keyboard_mouse_click, States, ClickOn, ClickOff
<1> HIDE DEF q, left
<1> DEFINE same == q.matrix = p.matrix
           alone == p.seen.alone /\ same
<1>4. r.seen = [p.seen EXCEPT !.alone = alone, !.left = left] /\ r.matrix = q.matrix
      /\ r.events = p.events /\ r.typist = p.typist
  BY <1>1, <1>2, <1>3
<1> HIDE DEF r
<1>5. r.seen.alone = alone /\ r.seen.matrix = p.seen.matrix /\ r.seen.typed = p.seen.typed
  BY <1>1, <1>4 DEF Seens
<1>6. Faithful(r)
  <2>1. Alone(r) => Alone(p) /\ r.matrix = p.matrix
    BY <1>4, <1>5 DEF Alone
  <2> QED BY <1>4, <1>5, <2>1, StillFaithful
<1> QED BY <1>6 DEF r

\* What is shown does not matter.
LEMMA ScreenFaithful ==
  ASSUME NEW p, p \in States, Faithful(p), NEW s
  PROVE  Faithful([p EXCEPT !.screen = s])
<1> DEFINE q == [p EXCEPT !.screen = s]
<1>1. q.matrix = p.matrix /\ q.events = p.events /\ q.typist = p.typist /\ q.seen = p.seen
  BY DEF States
<1> HIDE DEF q
<1>2. Faithful(q)
  BY <1>1, StillFaithful DEF Alone
<1> QED BY <1>2 DEF q

\* One call of the user interface.
LEMMA KeyboardFaithful ==
  ASSUME NEW p, OK(p), Faithful(p), NEW pad, NEW bar \in BOOLEAN, NEW key \in ScreenKeys \cup {NoKey}
  PROVE  Faithful(retro_ui_process(p, pad, bar, key))
<1> DEFINE c == IF p.screen.shown THEN keyboard_mouse_click(p, key) ELSE p
           d == [c EXCEPT !.screen.pending = FALSE]
           q == IF ~p.screen.pending \/ ~(p.screen.shown \/ bar) THEN p ELSE d
           e == [q EXCEPT !.screen.clicked = ~@, !.screen.pending = TRUE]
<1>1. OK(c) /\ Faithful(c)
  BY ClickOK, ClickFaithful
<1> HIDE DEF c
<1>2. OK(d)
  BY <1>1, ScreenOK
<1>3. c \in States /\ c.screen \in Screens
  BY <1>1 DEF OK, States
<1>4. Faithful(d)
  <2>1. d = [c EXCEPT !.screen = [c.screen EXCEPT !.pending = FALSE]]
    BY <1>3 DEF States
  <2> QED BY <1>1, <1>3, <2>1, ScreenFaithful
<1> HIDE DEF d
<1>5. OK(q) /\ Faithful(q)
  BY <1>2, <1>4
<1>6. retro_ui_process(p, pad, bar, key)
        = IF q.screen.shown /\ q.screen.clicked # (Click \in pad) THEN e ELSE q
  BY DEF retro_ui_process, c, d
<1> HIDE DEF q
<1>7. q \in States /\ q.screen \in Screens
  BY <1>5 DEF OK, States
<1>8. Faithful(e)
  <2>1. e = [q EXCEPT !.screen = [q.screen EXCEPT !.clicked = ~@, !.pending = TRUE]]
    BY <1>7 DEF States
  <2> QED BY <1>5, <1>7, <2>1, ScreenFaithful
<1> QED BY <1>5, <1>6, <1>8

\* What is kept from one call of retro_run to the next.
LEMMA BecomeFaithful == ASSUME NEW p, p.seen \in Seens, Faithful(p), Become(p)
                        PROVE  Faithful(Now)'
<1> DEFINE seen2 == [p.seen EXCEPT !.left = @ \cap p.matrix,
                                   !.matrix = IF p.seen.alone THEN @ ELSE {},
                                   !.typed = IF p.seen.alone THEN @ ELSE <<>>]
           q == Now'
<1>1. /\ matrix' = p.matrix /\ events' = p.events /\ typist' = p.typist /\ seen' = seen2
  BY DEF Become
<1>2. p.seen \in Seens
  OBVIOUS
<1>3. seen2.alone = p.seen.alone
      /\ (p.seen.alone => seen2.matrix = p.seen.matrix /\ seen2.typed = p.seen.typed)
  BY <1>2 DEF Seens
<1> HIDE DEF seen2
<1>4. q.matrix = p.matrix /\ q.events = p.events /\ q.typist = p.typist /\ q.seen = seen2
  BY <1>1 DEF Now
<1> HIDE DEF q
<1>5. Faithful(q)
  BY <1>3, <1>4, StillFaithful DEF Alone
<1> QED BY <1>5 DEF q, Faithful, Alone, Reading, Glance, TypedKeys, TypeKeys, Current, Ended, Written

\* A reset clears the matrix and types the loader's text, if it is to.
LEMMA ResetFaithful == ASSUME NEW p, p \in States
                       PROVE  Faithful(computer_reset(Cleared(p)))
<1> DEFINE q == Cleared(p)
<1>1. OK(q)
  BY ClearedOK
<1>2. ~q.seen.alone
  <2> DEFINE s == [p.seen EXCEPT !.alone = FALSE]
  <2>1. q = [p EXCEPT !.matrix = {}, !.seen = s] /\ s.alone = FALSE
    BY DEF Cleared, States, Seens
  <2>2. q.seen = s
    <3> HIDE DEF s
    <3> QED BY <2>1 DEF States
  <2> QED BY <2>1, <2>2
<1> HIDE DEF q
<1>3. Faithful(q)
  BY <1>2 DEF Faithful, Alone
<1>4. Faithful(computer_reset(q))
  BY <1>1, <1>3, PrepareFaithful DEF computer_reset
<1> QED BY <1>4 DEF q

\* The keyboard does not reach the matrix while the typist has it.
LEMMA KeyFaithful == ASSUME IInv, Faithful(Now), Key
                     PROVE  Faithful(Now)'
<1>1. PICK k \in UserKeys :
        LET up == k \in user.keys
            heard == events.mode = "JOY"
        IN Become([Now EXCEPT
             !.user.keys = IF up THEN @ \ {k} ELSE @ \cup {k},
             !.matrix = IF ~heard THEN @ ELSE IF up THEN @ \ {k} ELSE @ \cup {k},
             !.seen.left = IF up /\ ~heard THEN @ \cup {k} ELSE @])
  BY DEF Key
<1> DEFINE up == k \in user.keys
           heard == events.mode = "JOY"
           keys == IF up THEN user.keys \ {k} ELSE user.keys \cup {k}
           down == IF ~heard THEN matrix ELSE IF up THEN matrix \ {k} ELSE matrix \cup {k}
           left == IF up /\ ~heard THEN seen.left \cup {k} ELSE seen.left
           u == [user EXCEPT !.keys = keys]
           s == [seen EXCEPT !.left = left]
           p == [Now EXCEPT !.user = u, !.matrix = down, !.seen = s]
<1>2. Now \in States /\ user \in Users /\ seen \in Seens
  BY DEF IInv, OK, Now, States
<1>3. Become(p)
  BY <1>1, <1>2 DEF Now, Users, Seens
<1>4. (events.mode = "AUTO" => down = matrix) /\ left \in SUBSET Keys
  BY <1>2, KeyAssumption DEF Seens
<1> HIDE DEF keys, down, left
<1>5. s.alone = seen.alone /\ s.matrix = seen.matrix /\ s.typed = seen.typed /\ s \in Seens
  BY <1>2, <1>4 DEF Seens
<1> HIDE DEF u, s
<1>6. p.matrix = down /\ p.events = events /\ p.typist = typist /\ p.seen = s
  BY DEF Now
<1>7. /\ Now.matrix = matrix /\ Now.events = events /\ Now.typist = typist /\ Now.seen = seen
  BY DEF Now
<1> HIDE DEF p
<1>8. Faithful(p)
  BY <1>4, <1>5, <1>6, <1>7, StillFaithful DEF Alone
<1> QED
  BY <1>3, <1>5, <1>6, <1>8, BecomeFaithful

\* One call of retro_run: the machine looks, then the handlers act.
LEMMA RunFaithful == ASSUME IInv, Faithful(Now), Run
                     PROVE  Faithful(Now)'
<1> DEFINE s == Look(seen, matrix)
           p == [Now EXCEPT !.seen = s]
<1>1. /\ Now \in States /\ seen \in Seens /\ matrix \in SUBSET Keys
      /\ matrix \subseteq Held(Now)
  BY DEF IInv, OK, Now, States
<1>2. s \in Seens /\ s.left = seen.left /\ s.alone = seen.alone
      /\ (seen.alone /\ events.mode = "AUTO" => s.matrix = matrix /\ s.typed = Glance(seen, matrix))
  <2>1. Append(seen.typed, matrix) \in Seq(SUBSET Keys)
    BY <1>1 DEF Seens
  <2> QED
    BY <1>1, <2>1 DEF Look, Seens, Glance
<1>3. PICK pad \in SUBSET Read, key \in Pointed, bar \in Bars :
        Become(retro_ui_process(process_events([Now EXCEPT !.seen = Look(@, matrix)], pad),
                                pad, bar, key))
  BY DEF Run
<1>4. key \in ScreenKeys \cup {NoKey} /\ bar \in BOOLEAN
  BY DEF Pointed, Bars
<1>5. [Now EXCEPT !.seen = Look(@, matrix)] = p
  BY DEF Now
<1> HIDE DEF s
<1>6. OK(p)
  BY <1>1, <1>2 DEF OK, Held, States, Now
<1>7. Ready(p)
  <2>1. /\ p.seen = s /\ p.matrix = matrix /\ p.events = events /\ p.typist = typist
        /\ Now.seen = seen /\ Now.matrix = matrix /\ Now.events = events /\ Now.typist = typist
    BY DEF Now
  <2> HIDE DEF p
  <2> QED BY <1>2, <2>1 DEF Faithful, Ready, Alone
<1> HIDE DEF p
<1> DEFINE q == process_events(p, pad)
           r == retro_ui_process(q, pad, bar, key)
<1>8. OK(q) /\ Faithful(q)
  BY <1>6, <1>7, EventsOK, EventsFaithful
<1> HIDE DEF q
<1>9. OK(r) /\ Faithful(r)
  BY <1>4, <1>8, KeyboardOK, KeyboardFaithful
<1>10. Become(r)
  BY <1>3, <1>5 DEF q
<1> HIDE DEF r
<1>11. r.seen \in Seens
  BY <1>9 DEF OK, States
<1> QED
  BY <1>9, <1>10, <1>11, BecomeFaithful

\* New options may keep the typist, reset or take it off.
LEMMA OptionsFaithful == ASSUME IInv, Faithful(Now), Options
                         PROVE  Faithful(Now)'
<1>1. PICK auto \in BOOLEAN, machine \in BOOLEAN, m \in Maps :
        LET moved == {user.map[b] : b \in {c \in user.held : user.map[c] # m[c]}}
            p == [ev_set(Now, IF auto THEN "AUTO" ELSE "JOY")
                   EXCEPT !.events.autorun = auto, !.user.map = m,
                          !.seen.left = @ \cup moved,
                          !.seen.alone = @ /\ auto /\ events.mode = "AUTO"]
        IN Become(IF machine THEN computer_reset(Cleared(p)) ELSE p)
  BY DEF Options
<1> DEFINE moved == {user.map[b] : b \in {c \in user.held : user.map[c] # m[c]}}
           p == [ev_set(Now, IF auto THEN "AUTO" ELSE "JOY")
                   EXCEPT !.events.autorun = auto, !.user.map = m,
                          !.seen.left = @ \cup moved,
                          !.seen.alone = @ /\ auto /\ events.mode = "AUTO"]
           e == [events EXCEPT !.mode = IF auto THEN "AUTO" ELSE "JOY", !.autorun = auto]
           u == [user EXCEPT !.map = m]
           alone == seen.alone /\ auto /\ events.mode = "AUTO"
           s == [seen EXCEPT !.left = @ \cup moved, !.alone = alone]
<1>2. /\ Now \in States /\ user \in Users /\ seen \in Seens /\ events \in Events
  BY DEF IInv, OK, Now, States
<1>3. /\ user.map \in [DOMAIN user.map -> Keys] /\ DOMAIN m = DOMAIN user.map
      /\ user.held \subseteq DOMAIN user.map
  BY <1>2, KeyAssumption DEF Users
<1>4. moved \in SUBSET Keys
  BY <1>3
<1> HIDE DEF moved
<1>5. u \in Users
  BY <1>2, <1>3 DEF Users
<1>6. /\ s \in Seens /\ s.alone = alone /\ s.matrix = seen.matrix /\ s.typed = seen.typed
  <2>1. alone \in BOOLEAN /\ seen.left \cup moved \in SUBSET Keys
    BY <1>2, <1>4 DEF Seens
  <2> HIDE DEF alone
  <2> QED
    BY <1>2, <2>1 DEF Seens
<1>7. e \in Events
  BY <1>2 DEF Events, Modes
<1>8. /\ p.matrix = matrix /\ p.events = e /\ p.typist = typist /\ p.seen = s
  BY <1>2 DEF ev_set, Now, Events, Users, Seens
<1>9. p \in States
  <2>1. p.user = u
    BY <1>2 DEF ev_set, Now, Events, Users, Seens
  <2> HIDE DEF e, u, s
  <2> QED
    BY <1>2, <1>5, <1>6, <1>7, <1>8, <2>1 DEF States, ev_set, Now
<1> HIDE DEF s, e, u
<1>10. /\ Now.matrix = matrix /\ Now.events = events /\ Now.typist = typist /\ Now.seen = seen
  BY DEF Now
<1>11. Faithful(p)
  <2> HIDE DEF p
  <2> QED BY <1>6, <1>8, <1>10, StillFaithful DEF Alone
<1> DEFINE r == IF machine THEN computer_reset(Cleared(p)) ELSE p
<1>12. Become(r)
  BY <1>1 DEF moved
<1> HIDE DEF p
<1>13. Faithful(r)
  BY <1>9, <1>11, ResetFaithful
<1>14. r.seen \in Seens
  <2>1. CASE machine
    <3>1. OK(computer_reset(Cleared(p)))
      BY <1>9, ClearedOK, PrepareOK
    <3> QED BY <2>1, <3>1 DEF OK, States
  <2>2. CASE ~machine
    BY <1>9, <2>2 DEF States
  <2> QED BY <2>1, <2>2
<1> HIDE DEF r
<1> QED
  BY <1>12, <1>13, <1>14, BecomeFaithful

\* At first nothing is typed.
LEMMA InitFaithful == ASSUME Init
                      PROVE  Faithful(Now)
<1>1. PICK text \in {<<>>, Loader} :
        \E auto \in BOOLEAN :
          typist = [text |-> text, pos |-> 1, old |-> FALSE, delay |-> Delay,
                    wait_computer |-> TRUE, wait_loop |-> IF text = <<>> THEN 0 ELSE Loops]
  BY DEF Init
<1>2. text \in Texts /\ typist.text = text /\ typist.pos = 1 /\ typist.old = FALSE
  BY <1>1 DEF Texts
<1>3. TypedKeys(typist) = {} /\ Reading(typist) = <<>>
  BY <1>2, WrittenIs DEF TypedKeys, Reading
<1>4. /\ Now.matrix = {} /\ Now.typist = typist /\ Now.seen.typed = <<>>
      /\ Now.seen.matrix = {}
  BY DEF Init, Now
<1> QED BY <1>3, <1>4 DEF Faithful, Glance

\* Every step.
LEMMA StepsFaithful == ASSUME IInv, Faithful(Now), [Next]_vars
                       PROVE  Faithful(Now)'
<1>1. Now \in States /\ OK(Now)
  BY DEF IInv, OK
<1>2. CASE Hotkey
  <2>1. OK(ev_toggle_call(Now)) /\ Become(ev_toggle_call(Now))
    BY <1>1, <1>2, ToggleOK DEF Hotkey
  <2>2. ~ev_toggle_call(Now).seen.alone
    BY <1>1 DEF ev_toggle_call, ev_set, States, Seens, Now
  <2>3. Faithful(ev_toggle_call(Now)) /\ ev_toggle_call(Now).seen \in Seens
    BY <2>1, <2>2 DEF Faithful, Alone, OK, States
  <2> QED BY <2>1, <2>3, BecomeFaithful
<1>3. CASE Reset
  <2>1. OK(computer_reset(Cleared(Now))) /\ Faithful(computer_reset(Cleared(Now)))
    BY <1>1, ClearedOK, PrepareOK, ResetFaithful
  <2>2. Become(computer_reset(Cleared(Now)))
    BY <1>3 DEF Reset
  <2>3. computer_reset(Cleared(Now)).seen \in Seens
    BY <2>1 DEF OK, States
  <2> QED BY <2>1, <2>2, <2>3, BecomeFaithful
<1>4. CASE InsertTape
  <2>1. OK(ev_autorun_prepare(Now, Loader)) /\ Faithful(ev_autorun_prepare(Now, Loader))
    BY <1>1, PrepareOK, PrepareFaithful
  <2>2. Become(ev_autorun_prepare(Now, Loader))
    BY <1>4 DEF InsertTape
  <2>3. ev_autorun_prepare(Now, Loader).seen \in Seens
    BY <2>1 DEF OK, States
  <2> QED BY <2>1, <2>2, <2>3, BecomeFaithful
<1>5. CASE UNCHANGED vars
  BY <1>5 DEF vars, Faithful, Alone, Reading, Glance, TypedKeys, TypeKeys, Current, Ended, Now, Written
<1> QED
  BY <1>2, <1>3, <1>4, <1>5, KeyFaithful, RunFaithful, OptionsFaithful DEF Next

(***************************************************************************)
(* While nothing else touches the matrix, the machine sees the text as it  *)
(* is written, for any texts and tables of characters in which each has a  *)
(* key besides Shift (TypedAsWritten: kbd_buf_update takes a step for the  *)
(* press and one for the release, and ev_autorun waits between them).      *)
(***************************************************************************)
THEOREM TypingSafe == Spec => []TypedAsWritten
<1>1. Init => Faithful(Now)
  BY InitFaithful
<1>2. IInv /\ Faithful(Now) /\ [Next]_vars => Faithful(Now)'
  BY StepsFaithful
<1>3. IInv /\ Faithful(Now) => TypedAsWritten
  <2> SUFFICES ASSUME IInv, Faithful(Now), events.mode = "AUTO", seen.alone
               PROVE  Look(seen, matrix).typed = Reading(typist)
    BY DEF TypedAsWritten, Reading
  <2>1. seen \in Seens
    BY DEF IInv, OK, Now, States
  <2>2. Look(seen, matrix).typed = Glance(seen, matrix)
    BY <2>1 DEF Look, Glance, Seens
  <2>3. Glance(seen, matrix) = Reading(typist)
    BY DEF Faithful, Alone, Now
  <2> QED BY <2>2, <2>3
<1> QED
  BY <1>1, <1>2, <1>3, Invariance, PTL DEF Spec
=============================================================================
