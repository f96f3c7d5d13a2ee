----------------------------- MODULE MC_AsicDMA -----------------------------
EXTENDS AsicDMA

\* Two lists: a loop with a pause that interrupts every time, and a pause between two loads.
Load(v)   == [op |-> "load", n |-> v, loop |-> FALSE, int |-> FALSE, stop |-> FALSE]
Wait(n)   == [Load(n) EXCEPT !.op = "pause"]
Repeat(n) == [Load(n) EXCEPT !.op = "repeat"]
Control(loop, int, stop) == [op |-> "control", n |-> 0, loop |-> loop, int |-> int, stop |-> stop]
McList == <<Repeat(1), Load(1), Wait(1), Control(TRUE, TRUE, FALSE),
            Control(FALSE, FALSE, TRUE), Load(2), Wait(2), Control(FALSE, TRUE, TRUE)>>
McSetups == {[address |-> 0, prescaler |-> 1], [address |-> 5, prescaler |-> 0]}
McMemory == [a \in 0 .. 7 |-> McList[a + 1]]
=============================================================================
