------------------------------- MODULE AsicDMA -------------------------------
(***************************************************************************)
(* The three DMA channels of the Plus machines' ASIC (asic.c), which play  *)
(* lists of instructions to the sound chip, one instruction per line of    *)
(* the screen, while the program writes the registers of the channels and  *)
(* accepts interrupts in mode 2.  The lines are those with an HSYNC of at  *)
(* least three characters: crtc.c runs the channels at the third.          *)
(*                                                                         *)
(* Addresses count words of 16 bits: bit 0 is masked when they are         *)
(* written.  Left out: the memory configuration, so that the lists stay    *)
(* where they are, unknown instructions, which do nothing, and the vector  *)
(* itself.                                                                 *)
(***************************************************************************)
EXTENDS Integers, Sequences, SequencesExt

CONSTANTS
  Channels,     \* a subset of 0 .. 2
  Memory,       \* the instructions in memory, a function on Words
  Page, Pages,  \* numbers of words addressed by the low and of pages by the high byte
  Lows, Highs, Prescalers,  \* what the program writes to the registers of a channel
  Setups,       \* [address, prescaler] it has written at first
  Writes        \* bound on the writes and interrupts

Words == 0 .. Page * Pages - 1
ASSUME ChannelAssumption ==
  /\ Channels \subseteq 0 .. 2 /\ {Page, Pages} \subseteq Nat \ {0} /\ Writes \in Nat
  /\ Lows \subseteq 0 .. Page - 1 /\ Highs \subseteq 0 .. Pages - 1 /\ Prescalers \subseteq Nat
  /\ DOMAIN Memory = Words /\ Setups \subseteq [address : Words, prescaler : Prescalers]
  /\ \A a \in Words : /\ DOMAIN Memory[a] = {"op", "n", "loop", "int", "stop"}
                      /\ Memory[a].op \in {"load", "pause", "repeat", "control"}
                      /\ Memory[a].n \in Nat
                      /\ {Memory[a].loop, Memory[a].int, Memory[a].stop} \subseteq BOOLEAN
                      /\ Memory[a].op # "control" => ~Memory[a].loop /\ ~Memory[a].int /\ ~Memory[a].stop
\* Every list ends.
ASSUME ListAssumption == \A a \in Words : \E b \in Words : b >= a /\ Memory[b].stop

VARIABLES
  ch,         \* asic.dma.ch
  dcsr,       \* asic.dma.dcsr, the bits that are set
  clear,      \* asic.dma.clear: interrupts are cleared automatically
  irq_cause,  \* asic.irq_cause: 2c for channel c, 6 for a raster interrupt
  writes,     \* writes and interrupts so far
  seen        \* history: for each channel what its list still has to bring, whether what it plays
              \* is compared with that, and has been right

vars == <<ch, dcsr, clear, irq_cause, writes, seen>>

Raster == 6
InterruptBit(c) == 6 - c
Fetch(channel) == Memory[channel.source_address]
Advance_NoWrap(a) == a + 1                                             \* mutant
Advance(a) == (a + 1) % (Page * Pages)

(***************************************************************************)
(* The reference: what the list from an address to the first STOP brings,  *)
(* line by line, the body of a loop written out.                           *)
(***************************************************************************)
List(a) ==
  LET end == CHOOSE b \in Words : /\ b >= a /\ Memory[b].stop
                                  /\ \A d \in a .. b - 1 : ~Memory[d].stop
  IN [i \in 1 .. end - a + 1 |-> Memory[a + i - 1]]
Silent == -1
Silence(n) == [i \in 1 .. n |-> Silent]
Lines(x, prescaler) ==
  CASE x.op = "load"  -> <<x.n>>
    [] x.op = "pause" -> Silence(1 + x.n * (prescaler + 1))
    [] OTHER          -> Silence(1)
Times(n, s) == [i \in 1 .. n * Len(s) |-> s[1 + ((i - 1) % Len(s))]]
Unrolled(list, prescaler) ==
  LET add(s, x) ==
        LET out == s.out \o Lines(x, prescaler)
        IN IF x.op = "repeat" THEN [out |-> out, first |-> Len(out) + 1, more |-> x.n]
           ELSE IF x.loop /\ ~x.stop
           THEN [s EXCEPT !.out = out \o Times(s.more, SubSeq(out, s.first, Len(out))), !.more = 0]
           ELSE [s EXCEPT !.out = out]
      upto[i \in 0 .. Len(list)] == IF i = 0 THEN [out |-> <<>>, first |-> 1, more |-> 0]
                                    ELSE add(upto[i - 1], list[i])
  IN upto[Len(list)].out
Played == [a \in Words |-> [prescaler \in Prescalers \cup {0} |-> Unrolled(List(a), prescaler)]]
\* A list that begins inside a loop has the counter of the last one.
Closed(a) == \A i \in DOMAIN List(a) :
               List(a)[i].loop => \E j \in 1 .. i - 1 : List(a)[j].op = "repeat"

Rest(channel) ==
  IF channel.pause_ticks = 0 THEN 0
  ELSE Max({channel.prescaler - channel.tick_cycles, 0}) + 1
       + (channel.pause_ticks - 1) * (channel.prescaler + 1)
Ahead(channel) ==
  Silence(Rest(channel)) \o Played[channel.source_address][channel.prescaler]
Begin(old, channel) ==
  LET known == channel.loops = 0 \/ Closed(channel.source_address)
  IN [old EXCEPT !.ahead = IF known THEN Ahead(channel) ELSE <<>>, !.checked = known]
Heard(old, now, stops) ==
  IF ~old.checked THEN old
  ELSE [old EXCEPT !.right = @ /\ old.ahead # <<>> /\ old.ahead[1] = now
                             /\ stops = (Len(old.ahead) = 1),
                   !.ahead = IF @ = <<>> THEN @ ELSE Tail(@), !.checked = ~stops]

(***************************************************************************)
(* One line of one channel: s = [ch, dcsr, irq_cause, seen].               *)
(***************************************************************************)
Pause(channel) ==
  IF channel.tick_cycles < channel.prescaler THEN [channel EXCEPT !.tick_cycles = @ + 1]
  ELSE [channel EXCEPT !.tick_cycles = 0, !.pause_ticks = @ - 1]

Loop_Once(channel) ==                                                  \* mutant
  IF channel.loops > 1
  THEN [channel EXCEPT !.source_address = channel.loop_address, !.loops = @ - 1] ELSE channel
Loop_Forever(channel) ==                                               \* mutant
  IF channel.loops > 0 THEN [channel EXCEPT !.source_address = channel.loop_address] ELSE channel
Loop(channel) ==
  IF channel.loops > 0
  THEN [channel EXCEPT !.source_address = channel.loop_address, !.loops = @ - 1] ELSE channel
\* The instruction, then the address of the next.
Stops(x) == x.stop
Execute(channel, x) ==
  LET done == CASE x.op = "load"    -> channel
                [] x.op = "pause"   -> [channel EXCEPT !.pause_ticks = x.n, !.tick_cycles = 0]
                [] x.op = "repeat"  -> [channel EXCEPT !.loops = x.n,
                                                       !.loop_address = channel.source_address]
                [] x.op = "control" ->
                     [(IF x.loop THEN Loop(channel) ELSE channel)
                       EXCEPT !.interrupt = @ \/ x.int, !.enabled = @ /\ ~Stops(x)]
  IN [done EXCEPT !.source_address = Advance(@)]

asic_dma_channel(s, c) ==
  LET channel == s.ch[c]
      x == Fetch(channel)
      pausing == channel.pause_ticks > 0
      raised == ~pausing /\ x.op = "control" /\ x.int
  IN [ch |-> [s.ch EXCEPT ![c] = IF pausing THEN Pause(channel) ELSE Execute(channel, x)],
      dcsr |-> IF raised THEN s.dcsr \cup {InterruptBit(c)} ELSE s.dcsr,
      irq_cause |-> IF raised THEN 2 * c ELSE s.irq_cause,
      seen |-> [s.seen EXCEPT ![c] = Heard(@, IF ~pausing /\ x.op = "load" THEN x.n ELSE Silent,
                                           ~pausing /\ x.stop)]]

\* crtc.c, once a line; the channels in order.
asic_dma_cycle ==
  LET step(s, c) == IF c \in Channels /\ s.ch[c].enabled THEN asic_dma_channel(s, c) ELSE s
      before == [ch |-> ch, dcsr |-> dcsr, irq_cause |-> irq_cause, seen |-> seen]
  IN /\ UNCHANGED <<clear, writes>>
     /\ \E c \in Channels : ch[c].enabled
     /\ \E s \in {step(step(step(before, 0), 1), 2)} :
          ch' = s.ch /\ dcsr' = s.dcsr /\ irq_cause' = s.irq_cause /\ seen' = s.seen

(***************************************************************************)
(* The program.                                                            *)
(***************************************************************************)
Called == writes < Writes /\ writes' = writes + 1
Rewrite(c, channel) ==
  /\ ch' = [ch EXCEPT ![c] = channel]
  /\ seen' = [seen EXCEPT ![c] = Begin(@, channel)]
  /\ UNCHANGED <<dcsr, clear, irq_cause>>
WriteLow ==
  /\ Called
  /\ \E c \in Channels, low \in Lows :
       Rewrite(c, [ch[c] EXCEPT !.source_address = (@ \div Page) * Page + low])
WriteHigh ==
  /\ Called
  /\ \E c \in Channels, high \in Highs :
       Rewrite(c, [ch[c] EXCEPT !.source_address = high * Page + (@ % Page)])
WritePrescaler ==
  /\ Called
  /\ \E c \in Channels, val \in Prescalers : Rewrite(c, [ch[c] EXCEPT !.prescaler = val])

Acknowledged_Never(acknowledge) == irq_cause                           \* mutant
Acknowledged(acknowledge) == IF acknowledge # {} THEN Raster ELSE irq_cause
WriteDCSR ==
  /\ Called
  /\ \E enable, acknowledge \in SUBSET Channels :
       /\ ch' = [c \in Channels |-> [ch[c] EXCEPT !.enabled = c \in enable,
                                                !.interrupt = @ /\ c \notin acknowledge]]
       /\ irq_cause' = Acknowledged(acknowledge)
       /\ dcsr' = (dcsr \cap 3 .. 7) \cup enable
  /\ UNCHANGED <<clear, seen>>
WriteVector ==
  /\ Called
  /\ clear' \in BOOLEAN
  /\ UNCHANGED <<ch, dcsr, irq_cause, seen>>

\* The processor accepts an interrupt of the screen in mode 2 and reads the vector.
asic_int ==
  /\ Called
  /\ dcsr' = IF irq_cause = Raster THEN dcsr \cup {7}
             ELSE IF clear THEN dcsr \ {7}
             ELSE dcsr \cap {InterruptBit(irq_cause \div 2)}
  /\ UNCHANGED <<ch, clear, irq_cause, seen>>

Reset == [source_address |-> 0, loop_address |-> 0, prescaler |-> 0, enabled |-> FALSE,
          interrupt |-> FALSE, pause_ticks |-> 0, tick_cycles |-> 0, loops |-> 0]
asic_reset ==
  /\ Called
  /\ ch' = [c \in Channels |-> Reset] /\ dcsr' = {} /\ clear' = TRUE /\ irq_cause' = Raster
  /\ seen' = [c \in Channels |-> Begin(seen[c], Reset)]

(***************************************************************************)
(* The specification: the program has set up its lists and switched on     *)
(* some channels.                                                          *)
(***************************************************************************)
Init ==
  /\ dcsr \in SUBSET Channels
  /\ \E x \in [Channels -> Setups] :
       ch = [c \in Channels |-> [Reset EXCEPT !.source_address = x[c].address, !.enabled = c \in dcsr,
                                             !.prescaler = x[c].prescaler]]
  /\ clear = TRUE /\ irq_cause = Raster /\ writes = 0
  /\ seen = [c \in Channels |->
       Begin([ahead |-> <<>>, checked |-> TRUE, right |-> TRUE], ch[c])]

Next == asic_dma_cycle \/ WriteLow \/ WriteHigh \/ WritePrescaler \/ WriteDCSR \/ WriteVector
        \/ asic_int \/ asic_reset
\* The screen goes on, with an HSYNC of at least three characters in its lines.
Spec == Init /\ [][Next]_vars /\ WF_vars(asic_dma_cycle)

(***************************************************************************)
(* Properties                                                              *)
(***************************************************************************)
TypeOK ==
  /\ \A c \in Channels :
       /\ {ch[c].source_address, ch[c].loop_address} \subseteq Words
       /\ {ch[c].prescaler, ch[c].tick_cycles, ch[c].pause_ticks, ch[c].loops} \subseteq Nat
       /\ {ch[c].enabled, ch[c].interrupt} \subseteq BOOLEAN
  /\ dcsr \subseteq 0 .. 7 /\ clear \in BOOLEAN /\ writes \in 0 .. Writes
  /\ irq_cause \in {Raster} \cup {2 * c : c \in Channels}

(***************************************************************************)
(* A channel plays its list: every line of the screen it is enabled brings *)
(* what the list written out has there - loops once more than they say,    *)
(* pauses as long as the prescaler makes them - and it stops with the      *)
(* list, however often the program switches it off and on in between, and  *)
(* after what is left of a pause when the address was written.             *)
(***************************************************************************)
PlaysList == \A c \in Channels : seen[c].right

(***************************************************************************)
(* A vector that names a channel names one whose interrupt the program has *)
(* not acknowledged, although channels raise and the program acknowledges  *)
(* interrupts in any order.                                                *)
(***************************************************************************)
CausePending == irq_cause # Raster => ch[irq_cause \div 2].interrupt

(***************************************************************************)
(* The channels stop: no mixture of lists, loops and pauses keeps one busy *)
(* for ever, once the program leaves the registers alone (Writes).         *)
(***************************************************************************)
ListsEnd == <>[](\A c \in Channels : ~ch[c].enabled)
=============================================================================
