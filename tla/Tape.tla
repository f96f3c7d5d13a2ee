-------------------------------- MODULE Tape --------------------------------
(***************************************************************************)
(* The tape player: cap32/tape.c, the tape slot of cap32/slots.c, and the  *)
(* parties that act on it: the emulated CPU, which takes the tape forward  *)
(* with every wait state while the motor and the play button are on        *)
(* (z80.c), the program that switches the motor, and the user, who inserts,*)
(* ejects and rewinds tapes and presses play and stop.                     *)
(*                                                                         *)
(* A tape image is a sequence of blocks behind a pointer, pbTapeBlock.     *)
(* Three pieces of code walk it with block lengths of their own, so blocks *)
(* have byte offsets here.                                                 *)
(***************************************************************************)
EXTENDS Integers, SequencesExt

CONSTANTS
  HalfWord,     \* 2^16: cycle scales have that many fractions, words its square
  ByteBits,     \* 8: bits of a data byte
  CyclesPerMs,  \* 4000
  LeadIn,       \* 2000: milliseconds of the pauses put around a file
  Standard,     \* the pulses of a standard speed block
  Files,        \* CDT files, as sequences of blocks
  Costs,        \* cycles that a wait state may take
  IdleBound     \* bound: how far iTapeCycleCount is followed below zero

ASSUME PlayerAssumption ==
  /\ {HalfWord, ByteBits, CyclesPerMs, LeadIn} \subseteq Nat \ {0}
  /\ Costs \subseteq Nat \ {0} /\ IdleBound \in Nat

\* Block identifiers; a block has the fields of its kind.  The other blocks have
\* a size and no sound.
Std == 16
Turbo == 17
Tone == 18
Pulses == 19
Pure == 20
Direct == 21
Silence == 32
Unsupported == 35 .. 40
DataBlocks  == Std .. Direct

\* The fields of the blocks, as the format has them.  A data block has some data:
\* without any, its count of bits would wrap.
HalfWords == 0 .. HalfWord - 1
Word      == 0 .. HalfWord * HalfWord - 1
Bit       == {0, 1}
Byte      == [1 .. ByteBits -> Bit]
Data      == {d \in Seq(Byte) : Len(d) > 0 /\ Len(d) * ByteBits \in Word}
Pair      == [1 .. 2 -> HalfWords]
PulseList == {t \in Seq(HalfWords) : Len(t) \in 1 .. HalfWord - 1}
Blocks ==
  [id : {Std}, data : Data, pause : HalfWords]
  \cup [id : {Turbo}, pilot : HalfWords, pulses : HalfWords, sync : Pair, zero : HalfWords,
        one : HalfWords, bits : 1 .. ByteBits, data : Data, pause : HalfWords]
  \cup [id : {Tone}, pilot : HalfWords, pulses : HalfWords]
  \cup [id : {Pulses}, table : PulseList]
  \cup [id : {Pure}, zero : HalfWords, one : HalfWords, bits : 1 .. ByteBits, data : Data,
        pause : HalfWords]
  \cup [id : {Direct}, sample : HalfWords, bits : 1 .. ByteBits, data : Data, pause : HalfWords]
  \cup [id : {Silence}, pause : HalfWords]
  \cup [id : Nat \ (DataBlocks \cup {0, Silence}), size : Nat]

ASSUME TapeAssumption ==
  /\ Files \subseteq Seq(Blocks)
  /\ Standard \in [pilot : HalfWords, pulses : HalfWords, sync : Pair,
                   zero : HalfWords, one : HalfWords]
  /\ LeadIn < HalfWord /\ CyclesPerMs <= HalfWord

\* tape_insert's, Tape_GetNextBlock's and Tape_BlockDone's idea of the bytes that
\* follow a block's identifier.
InsertSize(b) ==
  CASE b.id = Std -> Len(b.data) + 4    [] b.id = Turbo  -> Len(b.data) + 18
    [] b.id = Tone -> 4                 [] b.id = Pulses -> 2 * Len(b.table) + 1
    [] b.id = Pure -> Len(b.data) + 10  [] b.id = Direct -> Len(b.data) + 8
    [] b.id = Silence -> 2              [] OTHER -> b.size
SkipSize(b) == IF b.id = Silence THEN 2 ELSE b.size
DoneSize_Count(b) ==                                                   \* mutant
  CASE b.id = Pulses -> Len(b.table) + 1  [] b.id # Pulses -> InsertSize(b)
DoneSize(b) ==
  CASE b.id = Std -> Len(b.data) + 4    [] b.id = Turbo  -> Len(b.data) + 18
    [] b.id = Tone -> 4                 [] b.id = Pulses -> 2 * Len(b.table) + 1
    [] b.id = Pure -> Len(b.data) + 10  [] b.id = Direct -> Len(b.data) + 8
    [] b.id = Silence -> 2

\* pbTapeImage after tape_insert: the file between two pauses, without the pauses
\* that precede its first data block.
Pause(ms) == [id |-> Silence, pause |-> ms]
Image(file) ==
  LET all == <<Pause(LeadIn)>> \o file \o <<Pause(LeadIn)>>
      early(i) == i > 1 /\ \A j \in 1 .. i : all[j].id \notin DataBlocks \cup Unsupported
  IN [i \in DOMAIN all |-> IF early(i) /\ all[i].id = Silence THEN Pause(0) ELSE all[i]]
Playable(file) == \A i \in DOMAIN file : file[i].id \notin Unsupported

Offset(img) ==
  LET at[i \in 1 .. Len(img) + 1] == IF i = 1 THEN 0 ELSE at[i - 1] + 1 + InsertSize(img[i - 1])
  IN at
End(img) == Offset(img)[Len(img) + 1]

(***************************************************************************)
(* What is recorded on a tape: a sequence of intervals.  A pulse is the    *)
(* opposite of a pulse before it; a sample has its own level; a pause      *)
(* keeps the level for a millisecond, after which it is low.               *)
(***************************************************************************)
CYCLE_ADJUST(n) == ((n * ((40 * HalfWord) \div 35)) % (HalfWord * HalfWord)) \div HalfWord
MS_TO_CYCLES(n) == n * CyclesPerMs

DataBits(b) == IF b.id = Std THEN Len(b.data) * ByteBits
               ELSE (Len(b.data) - 1) * ByteBits + b.bits
Interval(kind, n) == [kind |-> kind, bit |-> 0, length |-> n]
Train(lengths) == [i \in DOMAIN lengths |-> Interval("pulse", CYCLE_ADJUST(lengths[i]))]
Bits(b) == SubSeq(FlattenSeq(b.data), 1, DataBits(b))
DataTrain(b, t) ==
  Train([i \in 1 .. 2 * DataBits(b) |-> IF Bits(b)[(i + 1) \div 2] = 1 THEN t.one ELSE t.zero])
Samples(b) == [i \in 1 .. DataBits(b) |->
                 [Interval("sample", CYCLE_ADJUST(b.sample)) EXCEPT !.bit = Bits(b)[i]]]
Gap(ms) == IF ms = 0 THEN <<>>
           ELSE <<Interval("hold", MS_TO_CYCLES(1)), Interval("low", MS_TO_CYCLES(ms - 1))>>
Pilot(b) == Train([i \in 1 .. b.pulses |-> b.pilot])
Recorded(b) ==
  CASE b.id = Std     -> Pilot(Standard) \o Train(Standard.sync) \o DataTrain(b, Standard) \o Gap(b.pause)
    [] b.id = Turbo   -> Pilot(b) \o Train(b.sync) \o DataTrain(b, b) \o Gap(b.pause)
    [] b.id = Tone    -> Pilot(b)
    [] b.id = Pulses  -> Train(b.table)
    [] b.id = Pure    -> DataTrain(b, b) \o Gap(b.pause)
    [] b.id = Direct  -> Samples(b) \o Gap(b.pause)
    [] b.id = Silence -> Gap(b.pause)
    [] OTHER          -> <<>>
Signal(img) ==
  LET s == FlattenSeq([i \in DOMAIN img |-> Recorded(img[i])])
      high[i \in DOMAIN s] ==
        CASE s[i].kind = "sample" -> s[i].bit = 1
          [] s[i].kind = "low"    -> FALSE
          [] OTHER -> i > 1 /\ (high[i - 1] # (s[i - 1].kind = "pulse"))
  IN <<>> \o [i \in DOMAIN s |-> [level |-> high[i], length |-> s[i].length]]

Signals == {Signal(Image(file)) : file \in Files}

VARIABLES
  image,    \* pbTapeImage; <<>> when it is null
  end,      \* pbTapeImageEnd, as an offset; 0 before the first tape
  live,     \* pbTapeBlock points into the image (the one it points into may be gone)
  blk,      \* pbTapeBlock, as an offset
  stage,    \* dwTapeStage
  level,    \* bTapeLevel: is it high?
  pulse, zero, one,  \* dwTapePulseCycles, dwTapeZeroPulseCycles, dwTapeOnePulseCycles
  count,    \* dwTapePulseCount
  left,     \* dwTapeDataCount
  byte,     \* pbTapeBlockData, as the index of a data byte
  shift,    \* the dwTapeBitsToShift bits of bTapeData still to come
  pos,      \* pwTapePulseTablePtr, as an index of the pulse table
  cycles,   \* iTapeCycleCount
  play,     \* CPC.tape_play_button
  motor,    \* CPC.tape_motor
  recorded, \* history: the signal on the tape pbTapeBlock points into; <<>> if it is gone
  heard,    \* history: the intervals played since the tape was rewound
  elapsed,  \* history: the cycles the tape has run since then, until its end
  lost,     \* history: the player has read something that is not a block of the tape
  finished  \* history: it was the running tape that released the play button last

tape == <<image, end>>
player == <<live, blk, stage, level, pulse, zero, one, count, left, byte, shift, pos,
            cycles, play, recorded, heard, elapsed, lost>>
vars == <<tape, player, motor, finished>>

Init ==
  /\ image = <<>> /\ end = 0 /\ live = FALSE /\ blk = 0 /\ stage = "END"
  /\ level = FALSE /\ pulse = 0 /\ zero = 0 /\ one = 0 /\ count = 0 /\ left = 0
  /\ byte = 1 /\ shift = <<>> /\ pos = 1 /\ cycles = 0 /\ play = FALSE
  /\ motor = FALSE /\ recorded = <<>> /\ heard = <<>> /\ elapsed = 0 /\ lost = FALSE
  /\ finished = FALSE

(***************************************************************************)
(* The player at work: the record the functions of tape.c transform, and   *)
(* Store, which makes it the next state.                                   *)
(***************************************************************************)
Player == [img |-> image, live |-> live, blk |-> blk, stage |-> stage, level |-> level,
           pulse |-> pulse, zero |-> zero, one |-> one, count |-> count, left |-> left,
           byte |-> byte, shift |-> shift, pos |-> pos, cycles |-> cycles, play |-> play,
           recorded |-> recorded, heard |-> heard, elapsed |-> elapsed, lost |-> lost]
Store(p) ==
  /\ live' = p.live /\ blk' = p.blk /\ stage' = p.stage /\ level' = p.level
  /\ pulse' = p.pulse /\ zero' = p.zero /\ one' = p.one /\ count' = p.count
  /\ left' = p.left /\ byte' = p.byte /\ shift' = p.shift /\ pos' = p.pos
  /\ cycles' = p.cycles /\ play' = p.play /\ recorded' = p.recorded /\ heard' = p.heard
  /\ elapsed' = p.elapsed /\ lost' = p.lost

Junk == [id |-> 0]
BlockAt(p) ==
  LET here == {i \in DOMAIN p.img : p.live /\ Offset(p.img)[i] = p.blk}
  IN IF here = {} THEN Junk ELSE p.img[CHOOSE i \in here : TRUE]

\* The level stays as it is for n more cycles.
Sound_Late(p, n) ==                                                    \* mutant
  [p EXCEPT !.cycles = n, !.heard = Append(@, [level |-> p.level, length |-> n])]
Sound(p, n) ==
  [p EXCEPT !.cycles = @ + n, !.heard = Append(@, [level |-> p.level, length |-> n])]

Tape_SwitchLevel(p) == [p EXCEPT !.level = ~@]
\* dwTapePulseCount--, of an unsigned word
CountDown(p) == [p EXCEPT !.count = IF @ = 0 THEN HalfWord * HalfWord - 1 ELSE @ - 1]

Table(b) == CASE b.id = Std -> Standard.sync [] b.id = Turbo -> b.sync [] b.id = Pulses -> b.table
Tape_GetCycleCount(p) ==
  LET t == Table(BlockAt(p))
  IN [p EXCEPT !.pulse = CYCLE_ADJUST(t[p.pos]), !.pos = IF @ >= Len(t) THEN 1 ELSE @ + 1]
PlayTable(p) == LET q == Tape_GetCycleCount(p) IN Sound(q, q.pulse)

\* The next bit of the data, shared by the two functions that read one.
NextByte(p) == IF p.shift = <<>> THEN BlockAt(p).data[p.byte] ELSE p.shift
Shifted(p) == [p EXCEPT !.shift = Tail(NextByte(p)), !.left = @ - 1,
                        !.byte = IF p.shift = <<>> THEN @ + 1 ELSE @]
Tape_ReadDataBit(p) ==
  IF p.left = 0 THEN p
  ELSE [Shifted(p) EXCEPT !.pulse = IF Head(NextByte(p)) = 1 THEN p.one ELSE p.zero,
                          !.count = 2]
PlayBit(p) == LET q == Tape_ReadDataBit(p) IN Sound(q, q.pulse)
Tape_ReadSampleDataBit(p) ==
  IF p.left = 0 THEN p
  ELSE Sound([Shifted(p) EXCEPT !.level = Head(NextByte(p)) = 1], p.pulse)

(***************************************************************************)
(* The start of a block, of its data and of a pause.                       *)
(***************************************************************************)
PlayPilot(p, length, n) ==
  Sound([p EXCEPT !.stage = "PILOT", !.pulse = CYCLE_ADJUST(length), !.count = n],
        CYCLE_ADJUST(length))
PlaySync(p, n) == PlayTable([p EXCEPT !.stage = "SYNC", !.pos = 1, !.count = n])
PlayData(p, b, t) ==
  PlayBit([p EXCEPT !.stage = "DATA", !.zero = CYCLE_ADJUST(t.zero), !.one = CYCLE_ADJUST(t.one),
                    !.left = DataBits(b), !.byte = 1, !.shift = <<>>])
PlaySamples(p, b) ==
  Tape_ReadSampleDataBit([p EXCEPT !.stage = "SAMPLE", !.pulse = CYCLE_ADJUST(b.sample),
                                   !.left = DataBits(b), !.byte = 1, !.shift = <<>>])
PlayPause(p, ms) ==
  LET q == Sound([p EXCEPT !.stage = "PAUSE"], MS_TO_CYCLES(1))
  IN [q EXCEPT !.pulse = MS_TO_CYCLES(ms - 1), !.count = 2]

\* The offset of the first block from blk on that has something to play, or of
\* what Tape_GetNextBlock takes for one.
Silent(b) == b.id \notin DataBlocks \cup Unsupported \cup {0} /\ (b.id = Silence => b.pause = 0)
FirstSounding(p) ==
  LET from[o \in Nat] == IF o < End(p.img) /\ Silent(BlockAt([p EXCEPT !.blk = o]))
                         THEN from[o + 1 + SkipSize(BlockAt([p EXCEPT !.blk = o]))] ELSE o
  IN from[p.blk]

Tape_GetNextBlock(p) ==
  LET q == [p EXCEPT !.blk = FirstSounding(p)]
      b == BlockAt(q)
  IN CASE q.blk >= End(q.img)  -> q
       [] q.blk < End(q.img) /\ b.id \in Unsupported \cup {0} -> [q EXCEPT !.lost = TRUE]
       [] b.id = Std     -> PlayPilot(q, Standard.pilot, Standard.pulses)
       [] b.id \in {Turbo, Tone} -> PlayPilot(q, b.pilot, b.pulses)
       [] b.id = Pulses  -> PlaySync(q, Len(b.table))
       [] b.id = Pure    -> PlayData(q, b, b)
       [] b.id = Direct  -> PlaySamples(q, b)
       [] b.id = Silence -> PlayPause(q, b.pause)

Tape_BlockDone(p) ==
  LET q == Tape_GetNextBlock([p EXCEPT !.blk = @ + 1 + DoneSize(BlockAt(p))])
  IN IF q.blk >= End(q.img) THEN [q EXCEPT !.stage = "END", !.play = FALSE] ELSE q

PauseAfter_Stop(p, ms) ==                                              \* mutant
  IF ms # 0 THEN PlayPause(p, ms) ELSE [p EXCEPT !.play = FALSE]
PauseAfter_Always(p, ms) == PlayPause(p, ms)                           \* mutant
PauseAfter(p, ms) == IF ms # 0 THEN PlayPause(p, ms) ELSE Tape_BlockDone(p)

(***************************************************************************)
(* Tape_UpdateLevel: an interval is over.                                  *)
(***************************************************************************)
PilotOver(p) ==
  LET q == CountDown(Tape_SwitchLevel(p)) IN
  IF q.count > 0 THEN Sound(q, q.pulse)
  ELSE IF BlockAt(q).id = Tone THEN Tape_BlockDone(q) ELSE PlaySync(q, 2)

SyncOver(p) ==
  LET q == CountDown(Tape_SwitchLevel(p))
      b == BlockAt(q)
  IN IF q.count > 0 THEN PlayTable(q)
     ELSE IF b.id = Pulses THEN Tape_BlockDone(q)
     ELSE PlayData(q, b, IF b.id = Std THEN Standard ELSE b)

BitOver(p) ==
  LET q == CountDown(Tape_SwitchLevel(p)) IN
  IF q.count > 0 THEN Sound(q, q.pulse)
  ELSE IF q.left > 0 THEN PlayBit(q)
  ELSE PauseAfter(q, BlockAt(q).pause)

SampleOver(p) == IF p.left > 0 THEN Tape_ReadSampleDataBit(p) ELSE PauseAfter(p, BlockAt(p).pause)

PauseOver(p) ==
  LET q == CountDown([p EXCEPT !.level = FALSE]) IN
  IF q.count > 0 THEN Sound(q, q.pulse) ELSE Tape_BlockDone(q)

\* The ends of intervals at which the code reads the image.
ReadsImage(p) ==
  \/ p.stage \in {"PILOT", "PAUSE"} /\ p.count = 1
  \/ p.stage = "SYNC"
  \/ p.stage = "DATA" /\ p.count = 1 /\ (p.left = 0 \/ p.shift = <<>>)
  \/ p.stage = "SAMPLE" /\ (p.left = 0 \/ p.shift = <<>>)

EndReached_KeepPlay(p) == p                                            \* mutant
EndReached(p) == [p EXCEPT !.play = FALSE]

Tape_UpdateLevel(p) ==
  CASE ReadsImage(p) /\ ~p.live -> [p EXCEPT !.lost = TRUE]
    [] p.stage = "END"          -> EndReached(p)
    [] OTHER -> CASE p.stage = "PILOT"  -> PilotOver(p)
                  [] p.stage = "SYNC"   -> SyncOver(p)
                  [] p.stage = "DATA"   -> BitOver(p)
                  [] p.stage = "SAMPLE" -> SampleOver(p)
                  [] p.stage = "PAUSE"  -> PauseOver(p)

\* Tape_Rewind, of the image that `img' holds: without one, a null pointer is
\* read if there has been a tape before.
Rewind(img) ==
  LET p == [Player EXCEPT !.img = img, !.live = img # <<>>, !.recorded = Signal(img),
                          !.blk = 0, !.level = FALSE,
                          !.cycles = 0, !.play = FALSE, !.heard = <<>>, !.elapsed = 0]
  IN IF img # <<>> THEN Tape_GetNextBlock(p) ELSE [p EXCEPT !.lost = end # 0]

(***************************************************************************)
(* The actions.  Once the player is lost its behaviour is not modelled.    *)
(***************************************************************************)
\* Only a player at the end counts far below zero: there the count starts again.
Below(n) == IF n < -IdleBound THEN 0 ELSE n

CanRun == ~lost /\ motor /\ play

\* Who moves the play button: a wait state, or the user or a reset.
ByTape == finished' = (finished \/ ~play')
ByHand == finished' = FALSE

\* z80_wait_states: the tape runs for `cost' more cycles.
Run(cost) ==
  LET p == [Player EXCEPT !.cycles = Below(@ - cost),
                          !.elapsed = IF stage = "END" THEN @ ELSE @ + cost]
  IN /\ CanRun
     /\ Store(IF p.cycles <= 0 THEN Tape_UpdateLevel(p) ELSE p)
     /\ ByTape /\ UNCHANGED <<tape, motor>>

SwitchMotor == ~lost /\ motor' = ~motor /\ UNCHANGED <<tape, player, finished>>

PlayerOnly(p) == ~lost /\ Store(p) /\ ByHand /\ UNCHANGED <<tape, motor>>
play_tape == image # <<>> /\ ~play /\ PlayerOnly([Player EXCEPT !.play = TRUE])
stop_tape == image # <<>> /\ play /\ PlayerOnly([Player EXCEPT !.play = FALSE])
Tape_Rewind == PlayerOnly(Rewind(image))

\* The image that pbTapeBlock points into has been freed.
Detached == [Player EXCEPT !.live = FALSE, !.recorded = <<>>]

\* tape_insert.  A file with an unsupported block stays in the slot, but the tape
\* is not rewound.
tape_insert(file) ==
  /\ ~lost /\ image' = Image(file) /\ end' = End(Image(file))
  /\ IF Playable(file) THEN Store(Rewind(Image(file))) /\ ByHand
     ELSE Store(Detached) /\ UNCHANGED finished
  /\ UNCHANGED motor

\* tape_eject, which is also all that tape_insert does of a missing or invalid file
tape_eject ==
  /\ ~lost /\ image' = <<>>
  /\ Store(Detached) /\ UNCHANGED <<end, motor, finished>>

emulator_reset ==
  /\ ~lost /\ motor' = FALSE
  /\ Store([Player EXCEPT !.play = FALSE]) /\ ByHand /\ UNCHANGED tape

User == \/ play_tape \/ stop_tape \/ Tape_Rewind \/ tape_eject \/ emulator_reset
        \/ \E file \in Files : tape_insert(file)
RunTape == \E cost \in Costs : Run(cost)
Next == RunTape \/ SwitchMotor \/ User

\* The CPU executes instructions for as long as the emulator runs: this is weak
\* fairness of RunTape, with its guard in place of ENABLED.
Spec     == Init /\ [][Next]_vars
FairSpec == Spec /\ ([]<>~CanRun \/ []<><<RunTape>>_vars)

(***************************************************************************)
(* Properties.                                                             *)
(***************************************************************************)
Stages == {"PILOT", "SYNC", "DATA", "SAMPLE", "PAUSE", "END"}

\* Every variable of the player keeps its type; the lengths and counts are words.
TypeOK ==
  /\ end \in Nat /\ blk \in Nat /\ stage \in Stages
  /\ {live, level, play, motor, lost, finished} \subseteq BOOLEAN
  /\ {pulse, zero, one, count, left} \subseteq Word
  /\ byte \in Nat \ {0} /\ pos \in Nat \ {0} /\ Len(shift) < ByteBits
  /\ cycles \in Int /\ elapsed \in Nat

\* The three ways the code computes the length of a block agree: pbTapeBlock is
\* always at the start of a block, or at the end; the pulse table and the data are
\* read within the block; and the player never takes anything else for a block
\* while a supported tape is in the slot.
PointersInImage ==
  live =>
    /\ \E i \in DOMAIN Offset(image) : blk = Offset(image)[i]
    /\ stage = "SYNC" /\ ~lost => pos \in DOMAIN Table(BlockAt(Player))
    /\ stage \in {"DATA", "SAMPLE"} /\ left > 0 /\ shift = <<>> =>
         byte \in DOMAIN BlockAt(Player).data
    /\ lost => ~Playable(image)

\* "level changes should now occur at the correct times": however many intervals
\* have been played, the tape never runs a whole wait state past the end of the one
\* that is heard, which never begins before the one before it is over; a stopped tape
\* does not run.  So an interval begins at most one wait state late; behind one of no
\* length, which takes a wait state all the same, at most two.
Duration(s) ==
  LET sum[i \in 0 .. Len(s)] == IF i = 0 THEN 0 ELSE sum[i - 1] + s[i].length
  IN sum[Len(s)]
LongestCost == CHOOSE c \in Costs : \A d \in Costs : d <= c
OnTime ==
  live /\ ~lost /\ stage # "END" =>
    /\ elapsed < Duration(heard) + LongestCost
    /\ elapsed >= Duration(Front(heard))

\* The player implements a TapeSignal: it plays what is recorded on the tape and
\* nothing else, however it is stopped and started, and releases the play button by
\* itself only when all has been played.
Player_Signal == INSTANCE TapeSignal WITH
  Recordings <- Signals,
  heard <- IF live THEN heard ELSE <<>>
ImplementsSignal == Player_Signal!Spec

\* The play button does not stay down for ever while the motor runs: the tape ends.
TapeEnds == []<>(~play \/ ~motor \/ lost)

(***************************************************************************)
(* What comments of the source say of the player, and the code does not do.*)
(***************************************************************************)
\* tape.c:260: a pause starts with a level opposite to the one last played.
PauseOpposite ==
  stage = "PAUSE" /\ count = 2 /\ Len(heard) > 1 =>
    heard[Len(heard)].level # heard[Len(heard) - 1].level

\* tape.c:377: the pilot tone goes on while the pulse count is above zero, so what
\* is played is what is recorded.
PlaysRecorded == live => IsPrefix(heard, recorded)
=============================================================================
