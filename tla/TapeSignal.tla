----------------------------- MODULE TapeSignal -----------------------------
(***************************************************************************)
(* What the tape player promises, without its stages and counters: the     *)
(* intervals heard since the tape was rewound are the first ones of the    *)
(* signal recorded on it, and the player stops by itself only when all of  *)
(* them have been heard: in the middle of a tape it is the user or a reset *)
(* that stops it.                                                          *)
(***************************************************************************)
EXTENDS Naturals, Sequences

CONSTANT Recordings   \* the signals on the tapes that can be inserted

VARIABLES recorded,   \* the signal on the tape; <<>> without a tape
          heard,      \* the intervals played since it was rewound
          play,       \* is the play button down?
          finished    \* was it the player that released it last?

state == <<recorded, heard, play, finished>>

\* A rewound tape has begun to play its first interval.
Start(s) == IF s = <<>> THEN <<>> ELSE <<s[1]>>

Init == recorded = <<>> /\ heard = <<>> /\ play = FALSE /\ finished = FALSE

\* Somebody else than the player puts the button where it is.
ByHand(down) == play' = down /\ finished' = FALSE

\* The next interval begins.
Advance ==
  /\ play /\ Len(heard) < Len(recorded)
  /\ heard' = Append(heard, recorded[Len(heard) + 1])
  /\ UNCHANGED <<recorded, play, finished>>

\* The tape has been played to its end: only then does the player release the button.
Finish ==
  /\ play /\ heard = recorded
  /\ play' = FALSE /\ finished' = TRUE
  /\ UNCHANGED <<recorded, heard>>

\* The user presses play or stop, or the computer is reset.
Press == \E down \in BOOLEAN : ByHand(down) /\ UNCHANGED <<recorded, heard>>

\* A tape is inserted, which stops the player.
Insert ==
  /\ recorded' \in Recordings /\ heard' = Start(recorded')
  /\ ByHand(FALSE)

\* The tape is rewound and stopped.
Rewind == heard' = Start(recorded) /\ ByHand(FALSE) /\ UNCHANGED recorded

\* The tape is taken out, or lost; the button stays where it is.
Eject == recorded' = <<>> /\ heard' = <<>> /\ UNCHANGED <<play, finished>>

Next == Advance \/ Finish \/ Press \/ Insert \/ Rewind \/ Eject
Spec == Init /\ [][Next]_state
=============================================================================
