------------------------------ MODULE MC_Tape ------------------------------
(***************************************************************************)
(* Instances of Tape for TLC: short tapes with bytes of two bits, which    *)
(* between them hold every kind of block.                                  *)
(***************************************************************************)
EXTENDS Tape

StandardPulses == [pilot |-> 3, pulses |-> 2, sync |-> <<2, 4>>, zero |-> 2, one |-> 4]

Info(size) == [id |-> 48, size |-> size]
GroupEnd   == [id |-> 34, size |-> 0]
Jump       == [id |-> 35, size |-> 2]

StdBlock   == [id |-> Std, data |-> <<<<1, 0>>>>, pause |-> 2]
TurboBlock == [id |-> Turbo, pilot |-> 2, pulses |-> 1, sync |-> <<3, 2>>, zero |-> 3, one |-> 2,
               bits |-> 1, data |-> <<<<0, 1>>, <<1, 0>>>>, pause |-> 0]
ToneBlock  == [id |-> Tone, pilot |-> 5, pulses |-> 3]
PulseBlock == [id |-> Pulses, table |-> <<2, 5, 3>>]
PureBlock  == [id |-> Pure, zero |-> 2, one |-> 3, bits |-> 2, data |-> <<<<1, 1>>>>, pause |-> 0]
SampleBlock(ms) == [id |-> Direct, sample |-> 3, bits |-> 1, data |-> <<<<1, 0>>, <<1, 1>>>>, pause |-> ms]

Loader  == <<Info(3), Pause(2), StdBlock, GroupEnd, ToneBlock>>
Fast    == <<TurboBlock, PulseBlock, Pause(1), Pause(0), [PureBlock EXCEPT !.pause = 1]>>
Speech  == <<PureBlock, SampleBlock(1), SampleBlock(0), ToneBlock>>
Looped  == <<ToneBlock, Jump, PulseBlock>>

AllFiles   == {Loader, Fast, Speech, Looped}
OnlySpeech == {Speech}
\* A tone of no pulses.
EmptyTone  == {<<[ToneBlock EXCEPT !.pulses = 0]>>}
=============================================================================
