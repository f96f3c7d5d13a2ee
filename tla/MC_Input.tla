------------------------------ MODULE MC_Input ------------------------------
EXTENDS Input

\* A letter typed with Shift; texts with every special character and a letter twice; player 1's
\* select and fire.
McKeysOf == [c \in {"A"} |-> {"a", "shift"}]
McLoader == <<"wait", "A", "play">>
McCommand == <<"A", "A", "stop">>
Pad1(b) == <<1, b>>
McCombo == Pad1("select")
McWrites == {Pad1("fire")}
McToggles == {}
McClick == Pad1("fire")
McPads == {Pad1("fire"), Pad1("select")}
McMaps == {[b \in {Pad1("fire")} |-> k] : k \in {"a", "shift"}}
\* The buttons start with one of the assignments; an option change brings the other.
McInit == Init /\ user.map[McClick] = "a"
McSpec == McInit /\ [][Next]_vars /\ WF_<<events, typist>>(Typing)
=============================================================================
