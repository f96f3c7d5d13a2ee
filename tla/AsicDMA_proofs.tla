--------------------------- MODULE AsicDMA_proofs ---------------------------
(***************************************************************************)
(* Proofs about AsicDMA for all lists, memories, writes and any of the     *)
(* three channels.                                                         *)
(***************************************************************************)
EXTENDS AsicDMA, SequenceTheorems, WellFoundedInduction, TLAPS

Channel == [source_address : Words, loop_address : Words, prescaler : Nat, enabled : BOOLEAN,
            interrupt : BOOLEAN, pause_ticks : Nat, tick_cycles : Nat, loops : Nat]
Causes == {Raster} \cup {2 * c : c \in Channels}
Pending(cause, chs) == cause # Raster => chs[cause \div 2].interrupt

(***************************************************************************)
(* What the channels keep while a line is played: s is the record that     *)
(* asic_dma_channel transforms.                                            *)
(***************************************************************************)
Line(s) == /\ s.ch \in [Channels -> Channel] /\ s.dcsr \subseteq 0 .. 7
           /\ s.irq_cause \in Causes /\ Pending(s.irq_cause, s.ch)

Now == [ch |-> ch, dcsr |-> dcsr, irq_cause |-> irq_cause, seen |-> seen]
IInv == Line(Now) /\ clear \in BOOLEAN /\ writes \in 0 .. Writes

(***************************************************************************)
(* Addresses.                                                              *)
(***************************************************************************)
LEMMA WordCount == Page * Pages \in Nat \ {0} /\ 0 \in Words
<1>1. Page \in Nat \ {0} /\ Pages \in Nat \ {0}
  BY ChannelAssumption
<1>2. Page * Pages \in Nat \ {0}
  BY <1>1
<1> QED
  BY <1>2 DEF Words

LEMMA Constants == /\ Channels \subseteq 0 .. 2 /\ Writes \in Nat
                   /\ \A x \in Setups : x.address \in Words /\ x.prescaler \in Nat
BY ChannelAssumption

LEMMA CauseNames == ASSUME NEW cause \in Causes, cause # Raster
                    PROVE  cause \div 2 \in Channels
<1>1. PICK c \in Channels : cause = 2 * c
  BY DEF Causes
<1>2. (2 * c) \div 2 = c
  BY Constants
<1> QED
  BY <1>1, <1>2

LEMMA CalledTyped == ASSUME writes \in 0 .. Writes, Called
                     PROVE  writes' \in 0 .. Writes
BY Constants DEF Called

LEMMA AdvanceInWords == ASSUME NEW a \in Words
                        PROVE  Advance(a) \in Words
<1> DEFINE size == Page * Pages
<1>1. size \in Nat \ {0} /\ a + 1 \in Nat
  BY WordCount DEF Words
<1> HIDE DEF size
<1>2. (a + 1) % size \in 0 .. size - 1
  BY <1>1
<1> QED
  BY <1>2 DEF Advance, Words, size

LEMMA WrittenInWords ==
  ASSUME NEW a \in Words, NEW low \in 0 .. Page - 1, NEW high \in 0 .. Pages - 1
  PROVE  (a \div Page) * Page + low \in Words /\ high * Page + (a % Page) \in Words
<1>1. Page \in Nat \ {0} /\ Pages \in Nat \ {0} /\ a \in Nat /\ a < Page * Pages
  BY ChannelAssumption, WordCount DEF Words
<1>2. ASSUME NEW h \in 0 .. Pages - 1, NEW l \in 0 .. Page - 1
      PROVE  h * Page + l \in Words
  <2>1. h * Page \in Nat /\ h * Page <= (Pages - 1) * Page
    BY <1>1
  <2>2. (Pages - 1) * Page = Page * Pages - Page
    BY <1>1
  <2> QED
    BY <1>1, <2>1, <2>2 DEF Words
<1>3. a \div Page \in 0 .. Pages - 1
  <2> DEFINE q == a \div Page
  <2>1. q \in Nat /\ a = Page * q + (a % Page) /\ a % Page \in 0 .. Page - 1
    BY <1>1
  <2> HIDE DEF q
  <2>2. Page * q < Page * Pages
    BY <1>1, <2>1
  <2>3. q < Pages
    <3>1. SUFFICES ASSUME q >= Pages
                   PROVE  FALSE
      BY <1>1, <2>1
    <3>2. Page * q >= Page * Pages
      BY <1>1, <2>1, <3>1
    <3> QED
      BY <1>1, <2>1, <2>2, <3>2
  <2> QED
    BY <1>1, <2>1, <2>3 DEF q
<1>4. a % Page \in 0 .. Page - 1
  BY <1>1
<1> QED
  BY <1>2, <1>3, <1>4

(***************************************************************************)
(* One line of one channel.                                                *)
(***************************************************************************)
LEMMA Fetched ==
  ASSUME NEW channel \in Channel
  PROVE  /\ Fetch(channel).op \in {"load", "pause", "repeat", "control"}
         /\ Fetch(channel).n \in Nat
         /\ Fetch(channel).loop \in BOOLEAN /\ Fetch(channel).int \in BOOLEAN
         /\ Fetch(channel).stop \in BOOLEAN
BY ChannelAssumption DEF Channel, Fetch

LEMMA PauseOK ==
  ASSUME NEW channel \in Channel, channel.pause_ticks > 0
  PROVE  Pause(channel) \in Channel /\ Pause(channel).interrupt = channel.interrupt
<1>1. channel.pause_ticks - 1 \in Nat /\ channel.tick_cycles + 1 \in Nat
  BY DEF Channel
<1> QED
  BY <1>1 DEF Pause, Channel

LEMMA ExecuteOK ==
  ASSUME NEW channel \in Channel, NEW x, x.op \in {"load", "pause", "repeat", "control"},
         x.n \in Nat, x.loop \in BOOLEAN, x.int \in BOOLEAN, x.stop \in BOOLEAN
  PROVE  /\ Execute(channel, x) \in Channel
         /\ channel.interrupt => Execute(channel, x).interrupt
         /\ x.op = "control" /\ x.int => Execute(channel, x).interrupt
<1> DEFINE done == CASE x.op = "load"    -> channel
                     [] x.op = "pause"   -> [channel EXCEPT !.pause_ticks = x.n, !.tick_cycles = 0]
                     [] x.op = "repeat"  -> [channel EXCEPT !.loops = x.n,
                                                            !.loop_address = channel.source_address]
                     [] x.op = "control" ->
                          [(IF x.loop THEN Loop(channel) ELSE channel)
                            EXCEPT !.interrupt = @ \/ x.int, !.enabled = @ /\ ~Stops(x)]
<1>1. /\ done \in Channel
      /\ channel.interrupt => done.interrupt
      /\ x.op = "control" /\ x.int => done.interrupt
  <2>1. CASE x.op = "load"
    BY <2>1
  <2>2. CASE x.op = "pause"
    BY <2>2 DEF Channel
  <2>3. CASE x.op = "repeat"
    BY <2>3 DEF Channel
  <2>4. CASE x.op = "control"
    <3> DEFINE looped == IF x.loop THEN Loop(channel) ELSE channel
    <3>1. looped \in Channel /\ looped.interrupt = channel.interrupt
      <4>1. channel.loops > 0 => channel.loops - 1 \in Nat
        BY DEF Channel
      <4> QED
        BY <4>1 DEF Loop, Channel
    <3>2. done = [looped EXCEPT !.interrupt = @ \/ x.int, !.enabled = @ /\ ~Stops(x)]
      BY <2>4
    <3> HIDE DEF looped, done
    <3>3. (looped.interrupt \/ x.int) \in BOOLEAN /\ (looped.enabled /\ ~Stops(x)) \in BOOLEAN
      OBVIOUS
    <3>4. done \in Channel /\ done.interrupt = (looped.interrupt \/ x.int)
      BY <3>1, <3>2, <3>3 DEF Channel
    <3> QED
      BY <3>1, <3>4
  <2> QED
    BY <2>1, <2>2, <2>3, <2>4
<1>2. Execute(channel, x) = [done EXCEPT !.source_address = Advance(@)]
  BY DEF Execute
<1> HIDE DEF done
<1>3. Advance(done.source_address) \in Words
  BY <1>1, AdvanceInWords DEF Channel
<1> QED
  BY <1>1, <1>2, <1>3 DEF Channel

LEMMA LineOK == ASSUME NEW s, Line(s), NEW c \in Channels
                PROVE  Line(asic_dma_channel(s, c))
<1> DEFINE channel == s.ch[c]
           x == Fetch(channel)
           pausing == channel.pause_ticks > 0
           raised == ~pausing /\ x.op = "control" /\ x.int
           next == IF pausing THEN Pause(channel) ELSE Execute(channel, x)
           t == asic_dma_channel(s, c)
<1>1. channel \in Channel /\ c \in 0 .. 2
  BY ChannelAssumption DEF Line
<1>2. /\ next \in Channel
      /\ channel.interrupt => next.interrupt
      /\ raised => next.interrupt
  <2>1. CASE pausing
    BY <1>1, <2>1, PauseOK
  <2>2. CASE ~pausing
    <3>1. /\ x.op \in {"load", "pause", "repeat", "control"} /\ x.n \in Nat
          /\ x.loop \in BOOLEAN /\ x.int \in BOOLEAN /\ x.stop \in BOOLEAN
      BY <1>1, Fetched
    <3>2. next = Execute(channel, x)
      BY <2>2
    <3> HIDE DEF x, channel
    <3> QED
      BY <1>1, <2>2, <3>1, <3>2, ExecuteOK
  <2> QED
    BY <2>1, <2>2
<1>3. /\ t.ch = [s.ch EXCEPT ![c] = next]
      /\ t.dcsr = IF raised THEN s.dcsr \cup {InterruptBit(c)} ELSE s.dcsr
      /\ t.irq_cause = IF raised THEN 2 * c ELSE s.irq_cause
  BY DEF asic_dma_channel
<1> HIDE DEF t, next, raised
<1>4. t.ch \in [Channels -> Channel] /\ t.dcsr \subseteq 0 .. 7
  BY <1>1, <1>2, <1>3 DEF Line, InterruptBit
<1>5. CASE raised
  <2>1. t.irq_cause = 2 * c /\ (2 * c) \div 2 = c
    BY <1>1, <1>3, <1>5
  <2>2. t.ch[c].interrupt
    BY <1>2, <1>3, <1>5 DEF Line
  <2> QED
    BY <1>4, <2>1, <2>2 DEF Line, Causes, Pending, t
<1>6. CASE ~raised
  <2>1. t.irq_cause = s.irq_cause
    BY <1>3, <1>6
  <2>2. \A d \in Channels : s.ch[d].interrupt => t.ch[d].interrupt
    BY <1>2, <1>3 DEF Line
  <2>3. s.irq_cause # Raster => s.irq_cause \div 2 \in Channels
    BY CauseNames DEF Line
  <2> QED
    BY <1>4, <2>1, <2>2, <2>3 DEF Line, Pending, t
<1> QED
  BY <1>5, <1>6

(***************************************************************************)
(* The actions.                                                            *)
(***************************************************************************)
LEMMA CycleOK == ASSUME IInv, asic_dma_cycle
                 PROVE  IInv'
<1> DEFINE step(s, c) == IF c \in Channels /\ s.ch[c].enabled THEN asic_dma_channel(s, c) ELSE s
<1>1. PICK s \in {step(step(step(Now, 0), 1), 2)} :
        ch' = s.ch /\ dcsr' = s.dcsr /\ irq_cause' = s.irq_cause /\ seen' = s.seen
  BY DEF asic_dma_cycle, Now
<1>2. ASSUME NEW t, Line(t), NEW c
      PROVE  Line(step(t, c))
  BY <1>2, LineOK
<1>3. Line(Now)
  BY DEF IInv
<1> HIDE DEF step
<1>4. Line(s)
  BY <1>2, <1>3
<1>5. Now'.ch = s.ch /\ Now'.dcsr = s.dcsr /\ Now'.irq_cause = s.irq_cause
  BY <1>1 DEF Now
<1>6. Line(Now)'
  BY <1>4, <1>5 DEF Line, Pending
<1> QED
  BY <1>6 DEF IInv, asic_dma_cycle

\* What a write to the registers of a channel leaves alone.
LEMMA RewriteOK ==
  ASSUME IInv, NEW c \in Channels, NEW channel \in Channel, channel.interrupt = ch[c].interrupt,
         Rewrite(c, channel), Called
  PROVE  IInv'
<1>1. /\ ch \in [Channels -> Channel] /\ ch' = [ch EXCEPT ![c] = channel]
      /\ Pending(irq_cause, ch) /\ irq_cause \in Causes
      /\ UNCHANGED <<dcsr, clear, irq_cause>>
  BY DEF IInv, Line, Now, Rewrite
<1>2. ch' \in [Channels -> Channel] /\ \A d \in Channels : ch'[d].interrupt = ch[d].interrupt
  BY <1>1
<1>3. irq_cause # Raster => irq_cause \div 2 \in Channels
  BY <1>1, CauseNames
<1>4. writes' \in 0 .. Writes
  BY CalledTyped DEF IInv
<1>5. Pending(irq_cause', ch')
  BY <1>1, <1>2, <1>3 DEF Pending
<1> QED
  BY <1>1, <1>2, <1>4, <1>5 DEF IInv, Line, Now

LEMMA RegistersOK == ASSUME IInv, WriteLow \/ WriteHigh \/ WritePrescaler
                     PROVE  IInv'
<1>1. \A c \in Channels : ch[c] \in Channel
  BY DEF IInv, Line, Now
<1>2. CASE WriteLow
  <2>1. PICK c \in Channels, low \in Lows :
          Rewrite(c, [ch[c] EXCEPT !.source_address = (@ \div Page) * Page + low])
    BY <1>2 DEF WriteLow
  <2> DEFINE address == (ch[c].source_address \div Page) * Page + low
             channel == [ch[c] EXCEPT !.source_address = address]
  <2>2. ch[c].source_address \in Words /\ low \in 0 .. Page - 1 /\ 0 \in 0 .. Pages - 1
    BY <1>1, ChannelAssumption DEF Channel
  <2>3. address \in Words
    BY <2>2, WrittenInWords
  <2>4. Rewrite(c, channel)
    BY <2>1
  <2> HIDE DEF address
  <2>5. channel \in Channel /\ channel.interrupt = ch[c].interrupt
    BY <1>1, <2>3 DEF Channel
  <2> QED
    BY <1>2, <2>4, <2>5, RewriteOK DEF WriteLow
<1>3. CASE WriteHigh
  <2>1. PICK c \in Channels, high \in Highs :
          Rewrite(c, [ch[c] EXCEPT !.source_address = high * Page + (@ % Page)])
    BY <1>3 DEF WriteHigh
  <2> DEFINE address == high * Page + (ch[c].source_address % Page)
             channel == [ch[c] EXCEPT !.source_address = address]
  <2>2. ch[c].source_address \in Words /\ high \in 0 .. Pages - 1 /\ 0 \in 0 .. Page - 1
    BY <1>1, ChannelAssumption DEF Channel
  <2>3. address \in Words
    BY <2>2, WrittenInWords
  <2>4. Rewrite(c, channel)
    BY <2>1
  <2> HIDE DEF address
  <2>5. channel \in Channel /\ channel.interrupt = ch[c].interrupt
    BY <1>1, <2>3 DEF Channel
  <2> QED
    BY <1>3, <2>4, <2>5, RewriteOK DEF WriteHigh
<1>4. CASE WritePrescaler
  <2>1. PICK c \in Channels, val \in Prescalers : Rewrite(c, [ch[c] EXCEPT !.prescaler = val])
    BY <1>4 DEF WritePrescaler
  <2> DEFINE channel == [ch[c] EXCEPT !.prescaler = val]
  <2>2. val \in Nat
    BY ChannelAssumption
  <2>3. channel \in Channel /\ channel.interrupt = ch[c].interrupt
    BY <1>1, <2>2 DEF Channel
  <2> QED
    BY <1>4, <2>1, <2>3, RewriteOK DEF WritePrescaler
<1> QED
  BY <1>2, <1>3, <1>4

\* Every acknowledgement takes the cause back, so it never names the channel.
LEMMA ControlOK == ASSUME IInv, WriteDCSR
                   PROVE  IInv'
<1>1. PICK enable \in SUBSET Channels, acknowledge \in SUBSET Channels :
        /\ ch' = [c \in Channels |-> [ch[c] EXCEPT !.enabled = c \in enable,
                                                 !.interrupt = @ /\ c \notin acknowledge]]
        /\ irq_cause' = Acknowledged(acknowledge)
        /\ dcsr' = (dcsr \cap 3 .. 7) \cup enable
  BY DEF WriteDCSR
<1>2. /\ ch \in [Channels -> Channel] /\ Pending(irq_cause, ch) /\ irq_cause \in Causes
      /\ dcsr \subseteq 0 .. 7
  BY DEF IInv, Line, Now
<1>3. ch' \in [Channels -> Channel]
  <2>1. ASSUME NEW c \in Channels
        PROVE  [ch[c] EXCEPT !.enabled = c \in enable,
                             !.interrupt = @ /\ c \notin acknowledge] \in Channel
    <3>1. ch[c] \in Channel /\ (c \in enable) \in BOOLEAN
          /\ (ch[c].interrupt /\ c \notin acknowledge) \in BOOLEAN
      BY <1>2
    <3> QED
      BY <3>1 DEF Channel
  <2> QED
    BY <1>1, <2>1
<1>4. dcsr' \subseteq 0 .. 7
  <2>1. enable \subseteq 0 .. 7
    BY Constants
  <2> QED
    BY <1>1, <1>2, <2>1
<1>5. irq_cause' \in Causes /\ Pending(irq_cause', ch')
  <2>1. CASE acknowledge = {}
    <3>1. irq_cause # Raster => irq_cause \div 2 \in Channels
      BY <1>2, CauseNames
    <3>2. \A c \in Channels : ch[c].interrupt => ch'[c].interrupt
      BY <1>1, <1>2, <2>1 DEF Channel
    <3>3. irq_cause' = irq_cause
      BY <1>1, <2>1 DEF Acknowledged
    <3> QED
      BY <1>2, <3>1, <3>2, <3>3 DEF Pending
  <2>2. CASE acknowledge # {}
    <3>1. irq_cause' = Raster
      BY <1>1, <2>2 DEF Acknowledged
    <3> QED
      BY <3>1 DEF Causes, Pending
  <2> QED
    BY <2>1, <2>2
<1>6. clear' \in BOOLEAN
  BY DEF IInv, WriteDCSR
<1>7. writes' \in 0 .. Writes
  BY CalledTyped DEF IInv, WriteDCSR
<1> QED
  BY <1>3, <1>4, <1>5, <1>6, <1>7 DEF IInv, Line, Now

LEMMA ResetTyped == ASSUME NEW address \in Words, NEW on \in BOOLEAN, NEW prescaler \in Nat
                    PROVE  [Reset EXCEPT !.source_address = address, !.enabled = on,
                                         !.prescaler = prescaler] \in Channel
                           /\ Reset \in Channel
BY WordCount DEF Reset, Channel

(***************************************************************************)
(* The invariant.                                                          *)
(***************************************************************************)
LEMMA Initial == ASSUME Init
                 PROVE  IInv
<1>1. PICK x \in [Channels -> Setups] :
        ch = [c \in Channels |-> [Reset EXCEPT !.source_address = x[c].address,
                                               !.enabled = c \in dcsr, !.prescaler = x[c].prescaler]]
  BY DEF Init
<1>2. ASSUME NEW c \in Channels
      PROVE  x[c].address \in Words /\ x[c].prescaler \in Nat /\ (c \in dcsr) \in BOOLEAN
  BY Constants
<1>3. ch \in [Channels -> Channel]
  BY <1>1, <1>2, ResetTyped
<1>4. dcsr \in SUBSET Channels /\ clear = TRUE /\ irq_cause = Raster /\ writes = 0
  BY Zenon DEF Init
<1>5. dcsr \subseteq 0 .. 7 /\ writes \in 0 .. Writes
  BY <1>4, Constants
<1> QED
  BY <1>3, <1>4, <1>5 DEF IInv, Line, Now, Causes, Pending

LEMMA Steps == ASSUME IInv, [Next]_vars
               PROVE  IInv'
<1>1. /\ ch \in [Channels -> Channel] /\ Pending(irq_cause, ch) /\ irq_cause \in Causes
      /\ dcsr \subseteq 0 .. 7
  BY DEF IInv, Line, Now
<1>2. CASE WriteVector
  BY <1>1, <1>2, CalledTyped DEF WriteVector, IInv, Line, Now
<1>3. CASE asic_int
  <2>1. dcsr' \subseteq dcsr \cup {7}
    BY <1>3 DEF asic_int
  <2>2. 7 \in 0 .. 7
    OBVIOUS
  <2>3. dcsr' \subseteq 0 .. 7
    BY <1>1, <2>1, <2>2
  <2> QED
    BY <1>1, <1>3, <2>3, CalledTyped DEF asic_int, IInv, Line, Now
<1>4. CASE asic_reset
  <2>1. Reset \in Channel
    BY WordCount DEF Reset, Channel
  <2> QED
    BY <1>4, <2>1, CalledTyped DEF asic_reset, IInv, Line, Now, Causes, Pending
<1>5. CASE UNCHANGED vars
  BY <1>5 DEF vars, IInv, Line, Now, Pending
<1> QED
  BY <1>2, <1>3, <1>4, <1>5, CycleOK, RegistersOK, ControlOK DEF Next

LEMMA Invariance == Spec => []IInv
BY Initial, Steps, PTL DEF Spec

(***************************************************************************)
(* The channels keep their types: addresses stay in memory however the     *)
(* halves of a register are written while a list runs and loops, and no    *)
(* counter falls below zero.                                               *)
(***************************************************************************)
THEOREM ChannelTypes == Spec => []TypeOK
<1>1. IInv => TypeOK
  BY DEF IInv, Line, Now, Channel, Causes, TypeOK
<1> QED
  BY <1>1, Invariance, PTL

(***************************************************************************)
(* A vector that names a channel names one that has not been acknowledged, *)
(* for any lists and any order of writes, lines and interrupts.            *)
(***************************************************************************)
THEOREM VectorsTrue == Spec => []CausePending
<1>1. IInv => CausePending
  BY DEF IInv, Line, Now, Pending, CausePending
<1> QED
  BY <1>1, Invariance, PTL

(***************************************************************************)
(* Induction over numbers, and functions defined along them.               *)
(***************************************************************************)
LEMMA Induction == ASSUME NEW S, 0 \in S, \A n \in Nat : n \in S => n + 1 \in S
                   PROVE  Nat \subseteq S
<1> SUFFICES ASSUME Nat \ S # {}
             PROVE  FALSE
  OBVIOUS
<1>1. PICK n \in Nat \ S : \A m \in Nat \ S : <<m, n>> \notin OpToRel(<, Nat)
  BY NatLessThanWellFounded, WFMin
<1>2. n - 1 \in Nat /\ n - 1 < n
  OBVIOUS
<1>3. <<n - 1, n>> \in OpToRel(<, Nat)
  BY <1>2 DEF OpToRel
<1>4. n - 1 \in S
  BY <1>1, <1>2, <1>3
<1> QED
  BY <1>2, <1>4

\* f goes from a by steps.
Runs(f, T, a, n, step) ==
  f \in [0 .. n -> T] /\ f[0] = a /\ \A i \in 1 .. n : f[i] = step[<<f[i - 1], i>>]

\* A function that is defined along 1 .. n exists.
LEMMA Recursion ==
  ASSUME NEW T, NEW a, NEW n, NEW step,
         a \in T, n \in Nat, step \in [T \X (1 .. n) -> T]
  PROVE  \E f : Runs(f, T, a, n, step)
<1> DEFINE Goes(g, m) == /\ g \in [0 .. m -> T] /\ g[0] = a
                         /\ \A i \in 1 .. m : g[i] = step[<<g[i - 1], i>>]
           R == {m \in Nat : m <= n => \E g : Goes(g, m)}
<1>1. 0 \in R
  <2>1. Goes([i \in 0 .. 0 |-> a], 0)
    OBVIOUS
  <2> QED BY <2>1
<1>2. \A m \in Nat : m \in R => m + 1 \in R
  <2> TAKE m \in Nat
  <2> HAVE m \in R
  <2>0. ASSUME m + 1 <= n
        PROVE  \E g : Goes(g, m + 1)
    <3>1. PICK g : Goes(g, m)
      BY <2>0
    <3> DEFINE h == [i \in 0 .. m + 1 |-> IF i = m + 1 THEN step[<<g[m], m + 1>>] ELSE g[i]]
    <3>2. g[m] \in T /\ m + 1 \in 1 .. n
      BY <2>0, <3>1
    <3>3. step[<<g[m], m + 1>>] \in T
      BY <3>2
    <3>4. h \in [0 .. m + 1 -> T] /\ h[0] = a
      BY <3>1, <3>3
    <3>5. ASSUME NEW i \in 1 .. m + 1
          PROVE  h[i] = step[<<h[i - 1], i>>]
      <4>1. i \in 0 .. m + 1 /\ i - 1 \in 0 .. m + 1 /\ i - 1 # m + 1
        OBVIOUS
      <4>2. h[i - 1] = g[i - 1]
        BY <4>1
      <4>3. CASE i = m + 1
        <5>1. h[i] = step[<<g[m], m + 1>>]
          BY <4>1, <4>3
        <5>2. i - 1 = m
          BY <4>3
        <5> HIDE DEF h
        <5> QED BY <4>2, <4>3, <5>1, <5>2
      <4>4. CASE i # m + 1
        <5>1. h[i] = g[i] /\ i \in 1 .. m
          BY <4>1, <4>4
        <5> HIDE DEF h
        <5> QED BY <3>1, <4>2, <5>1
      <4> QED BY <4>3, <4>4
    <3> HIDE DEF h
    <3>6. Goes(h, m + 1)
      BY <3>4, <3>5
    <3> QED BY <3>6
  <2> HIDE DEF Goes
  <2> QED BY <2>0
<1>3. n \in R
  <2> HIDE DEF R
  <2> QED BY <1>1, <1>2, Induction
<1>4. PICK g : Goes(g, n)
  BY <1>3
<1>5. Runs(g, T, a, n, step)
  BY <1>4 DEF Runs
<1> QED BY <1>5

\* Where the elements of two sequences are in the one and then the other.
LEMMA ConcatAt ==
  ASSUME NEW S, NEW s1, NEW s2, s1 \in Seq(S), s2 \in Seq(S)
  PROVE  /\ s1 \o s2 \in Seq(S)
         /\ Len(s1 \o s2) = Len(s1) + Len(s2)
         /\ \A k \in 1 .. Len(s1) : (s1 \o s2)[k] = s1[k]
         /\ \A k \in 1 .. Len(s2) : (s1 \o s2)[Len(s1) + k] = s2[k]
<1>1. Len(s1) \in Nat /\ Len(s2) \in Nat
  OBVIOUS
<1>2. /\ s1 \o s2 \in Seq(S) /\ Len(s1 \o s2) = Len(s1) + Len(s2)
      /\ \A k \in 1 .. Len(s1) + Len(s2) :
            (s1 \o s2)[k] = IF k <= Len(s1) THEN s1[k] ELSE s2[k - Len(s1)]
  BY ConcatProperties
<1> DEFINE m == Len(s1)
           n == Len(s2)
           t == s1 \o s2
<1> HIDE DEF m, n, t
<1>3. m \in Nat /\ n \in Nat /\ \A k \in 1 .. m + n : t[k] = IF k <= m THEN s1[k] ELSE s2[k - m]
  BY <1>1, <1>2 DEF m, n, t
<1>4. \A k \in 1 .. m : t[k] = s1[k]
  BY <1>3
<1>5. ASSUME NEW k \in 1 .. n PROVE t[m + k] = s2[k]
  <2>1. m + k \in 1 .. m + n /\ ~(m + k <= m) /\ (m + k) - m = k
    BY <1>3
  <2> QED BY <1>3, <2>1
<1> QED BY <1>2, <1>4, <1>5 DEF m, n, t

(***************************************************************************)
(* A list written out: what the recursion of Unrolled takes.               *)
(***************************************************************************)
Stages == [out : Seq(Int), first : Nat \ {0}, more : Nat]
Instructions == {Memory[a] : a \in Words}
NoStage == [out |-> <<>>, first |-> 1, more |-> 0]
Added(s, x, p) ==
  LET out == s.out \o Lines(x, p)
  IN IF x.op = "repeat" THEN [out |-> out, first |-> Len(out) + 1, more |-> x.n]
     ELSE IF x.loop /\ ~x.stop
     THEN [s EXCEPT !.out = out \o Times(s.more, SubSeq(out, s.first, Len(out))), !.more = 0]
     ELSE [s EXCEPT !.out = out]
Chain(f, list, p) ==
  f = [i \in 0 .. Len(list) |-> IF i = 0 THEN NoStage ELSE Added(f[i - 1], list[i], p)]
Upto(list, p) == CHOOSE f : Chain(f, list, p)

LEMMA InstructionType ==
  ASSUME NEW x \in Instructions
  PROVE  /\ x.op \in {"load", "pause", "repeat", "control"} /\ x.n \in Nat
         /\ x.loop \in BOOLEAN /\ x.int \in BOOLEAN /\ x.stop \in BOOLEAN
         /\ x.op # "control" => ~x.loop /\ ~x.int /\ ~x.stop
BY ChannelAssumption DEF Instructions

\* The lines an instruction brings: the first may be heard, the others of a pause are silent.
LEMMA SilenceIs ==
  ASSUME NEW n \in Nat
  PROVE  /\ Silence(n) \in Seq(Int) /\ Len(Silence(n)) = n
         /\ \A i \in 1 .. n : Silence(n)[i] = Silent
BY DEF Silence, Silent

LEMMA LinesIs ==
  ASSUME NEW x \in Instructions, NEW p \in Nat
  PROVE  /\ Lines(x, p) \in Seq(Int)
         /\ Len(Lines(x, p)) = IF x.op = "pause" THEN 1 + x.n * (p + 1) ELSE 1
         /\ Len(Lines(x, p)) \in Nat \ {0}
         /\ Lines(x, p)[1] = IF x.op = "load" THEN x.n ELSE Silent
         /\ \A i \in 2 .. Len(Lines(x, p)) : Lines(x, p)[i] = Silent
<1> DEFINE m == x.n * (p + 1)
<1>1. x.op \in {"load", "pause", "repeat", "control"} /\ x.n \in Nat /\ m \in Nat
  BY InstructionType
<1> HIDE DEF m
<1>2. CASE x.op = "load"
  <2>1. Lines(x, p) = <<x.n>>
    BY <1>2 DEF Lines
  <2> QED BY <1>1, <1>2, <2>1
<1>3. CASE x.op = "pause"
  <2>1. Lines(x, p) = Silence(1 + m)
    BY <1>3 DEF Lines, m
  <2>2. 1 + m \in Nat \ {0} /\ 1 \in 1 .. 1 + m /\ \A i \in 2 .. 1 + m : i \in 1 .. 1 + m
    BY <1>1
  <2>3. /\ Silence(1 + m) \in Seq(Int) /\ Len(Silence(1 + m)) = 1 + m
        /\ \A i \in 1 .. 1 + m : Silence(1 + m)[i] = Silent
    <3> DEFINE k == 1 + m
    <3> HIDE DEF k
    <3>1. k \in Nat
      BY <2>2 DEF k
    <3>2. Silence(k) \in Seq(Int) /\ Len(Silence(k)) = k /\ \A i \in 1 .. k : Silence(k)[i] = Silent
      BY <3>1, SilenceIs
    <3> QED BY <3>2 DEF k
  <2>4. Silence(1 + m)[1] = Silent /\ \A i \in 2 .. 1 + m : Silence(1 + m)[i] = Silent
    BY <2>2, <2>3
  <2> QED BY <1>3, <2>1, <2>2, <2>3, <2>4 DEF m
<1>4. CASE x.op \notin {"load", "pause"}
  <2>1. Lines(x, p) = Silence(1)
    BY <1>4 DEF Lines
  <2>2. Silence(1) \in Seq(Int) /\ Len(Silence(1)) = 1 /\ Silence(1)[1] = Silent
    <3>1. 1 \in Nat /\ 1 \in 1 .. 1
      OBVIOUS
    <3> QED BY <3>1, SilenceIs
  <2> QED BY <1>4, <2>1, <2>2
<1> QED BY <1>2, <1>3, <1>4

\* Where the elements of a sequence are in its copies.
LEMMA TimesIs ==
  ASSUME NEW n \in Nat, NEW s \in Seq(Int), s # <<>>
  PROVE  /\ Times(n, s) \in Seq(Int)
         /\ n * Len(s) \in Nat /\ Len(Times(n, s)) = n * Len(s)
         /\ \A q \in 1 .. n : \A m \in 1 .. Len(s) :
              /\ (q - 1) * Len(s) + m \in 1 .. n * Len(s)
              /\ Times(n, s)[(q - 1) * Len(s) + m] = s[m]
<1> DEFINE L == Len(s)
           N == n * L
<1>1. L \in Nat \ {0} /\ N \in Nat /\ \A m \in 1 .. L : s[m] \in Int
  OBVIOUS
<1>2. Times(n, s) = [i \in 1 .. N |-> s[1 + ((i - 1) % L)]]
  BY DEF Times
<1> HIDE DEF L, N
<1>3. ASSUME NEW i \in 1 .. N PROVE 1 + ((i - 1) % L) \in 1 .. L
  <2>1. i - 1 \in Nat
    BY <1>1
  <2>2. (i - 1) % L \in 0 .. L - 1
    BY <1>1, <2>1
  <2> QED BY <1>1, <2>2
<1>4. Times(n, s) \in Seq(Int) /\ Len(Times(n, s)) = N
  BY <1>1, <1>2, <1>3
<1>5. ASSUME NEW q \in 1 .. n, NEW m \in 1 .. L
      PROVE  /\ (q - 1) * L + m \in 1 .. N
             /\ Times(n, s)[(q - 1) * L + m] = s[m]
  <2> DEFINE b == (q - 1) * L
             i == b + m
  <2>1. b \in Nat /\ b + L <= N
    <3>1. q - 1 \in Nat /\ q <= n /\ n \in Nat /\ q \in Nat
      OBVIOUS
    <3>2. b \in Nat
      BY <1>1, <3>1
    <3>3. b + L = q * L
      BY <1>1, <3>1
    <3>4. q * L <= n * L
      BY <1>1, <3>1
    <3> QED BY <3>2, <3>3, <3>4 DEF N
  <2> HIDE DEF b
  <2>2. i \in 1 .. N
    BY <1>1, <2>1
  <2>3. (i - 1) % L = m - 1
    <3> DEFINE r == (i - 1) % L
               d == (i - 1) \div L
               z == q - 1
    <3>1. i - 1 \in Nat
      BY <2>2
    <3>2. r \in 0 .. L - 1 /\ d \in Int /\ i - 1 = L * d + r
      <4> DEFINE y == i - 1
      <4>1. y \in Nat /\ L \in Nat \ {0}
        BY <1>1, <3>1
      <4> HIDE DEF y
      <4>2. y % L \in 0 .. L - 1 /\ y \div L \in Int /\ y = L * (y \div L) + (y % L)
        BY <4>1
      <4> QED BY <4>2 DEF y
    <3>3. i - 1 = L * z + (m - 1) /\ m - 1 \in 0 .. L - 1 /\ z \in Int
      BY <1>1, <2>1 DEF b
    <3> HIDE DEF r, d, z, i
    <3>4. L * d + r = L * z + (m - 1)
      BY <3>2, <3>3
    <3>5. d = z
      <4>1. CASE d > z
        <5>1. d >= z + 1
          BY <3>2, <3>3, <4>1
        <5>2. L * d >= L * (z + 1)
          BY <1>1, <3>2, <3>3, <5>1
        <5>3. L * (z + 1) = L * z + L
          BY <1>1, <3>3
        <5>4. L * d \in Int /\ L * z \in Int
          BY <1>1, <3>2, <3>3
        <5> QED BY <1>1, <3>2, <3>3, <3>4, <5>2, <5>3, <5>4
      <4>2. CASE z > d
        <5>1. z >= d + 1
          BY <3>2, <3>3, <4>2
        <5>2. L * z >= L * (d + 1)
          BY <1>1, <3>2, <3>3, <5>1
        <5>3. L * (d + 1) = L * d + L
          BY <1>1, <3>2
        <5>4. L * d \in Int /\ L * z \in Int
          BY <1>1, <3>2, <3>3
        <5> QED BY <1>1, <3>2, <3>3, <3>4, <5>2, <5>3, <5>4
      <4> QED BY <3>2, <3>3, <4>1, <4>2
    <3>6. L * d = L * z /\ L * z \in Int
      BY <1>1, <3>3, <3>5
    <3>7. r = m - 1
      BY <3>2, <3>3, <3>4, <3>6
    <3> QED BY <3>7 DEF r
  <2>4. Times(n, s)[i] = s[1 + (m - 1)]
    BY <1>2, <2>2, <2>3
  <2>5. 1 + (m - 1) = m
    BY <1>1
  <2> QED BY <2>2, <2>4, <2>5 DEF b
<1> QED BY <1>1, <1>4, <1>5 DEF L, N

\* A sequence goes on with y after o.
Longer(t, o, y) ==
  /\ t \in Seq(Int)
  /\ Len(o) + Len(y) <= Len(t)
  /\ \A m \in 1 .. Len(o) : t[m] = o[m]
  /\ \A m \in 1 .. Len(y) : t[Len(o) + m] = y[m]

\* After e lines the last b of them come again, more times.
Copied(t, e, b, more) ==
  /\ b \in Nat \ {0} /\ more * b \in Nat
  /\ Len(t) = e + more * b
  /\ \A q \in 1 .. more : \A m \in 1 .. b :
       /\ (q - 1) * b + m \in 1 .. more * b
       /\ t[e + ((q - 1) * b + m)] = t[e - b + m]

LEMMA Extends ==
  ASSUME NEW o \in Seq(Int), NEW y \in Seq(Int)
  PROVE  Longer(o \o y, o, y) /\ Len(o \o y) = Len(o) + Len(y)
<1> DEFINE R == Int
<1>1. o \in Seq(R) /\ y \in Seq(R)
  OBVIOUS
<1> HIDE DEF R
<1>2. /\ o \o y \in Seq(R) /\ Len(o \o y) = Len(o) + Len(y)
      /\ \A k \in 1 .. Len(o) : (o \o y)[k] = o[k]
      /\ \A k \in 1 .. Len(y) : (o \o y)[Len(o) + k] = y[k]
  BY <1>1, ConcatAt
<1> DEFINE t == o \o y
           l == Len(o) + Len(y)
<1>3. Len(o) \in Nat /\ Len(y) \in Nat
  OBVIOUS
<1>4. l \in Nat /\ Len(t) = l
  BY <1>2, <1>3
<1>5. t \in Seq(Int)
  BY <1>2 DEF R
<1> HIDE DEF t
<1>6. Len(o) + Len(y) <= Len(t)
  BY <1>4
<1>7. Longer(t, o, y)
  BY <1>2, <1>5, <1>6 DEF Longer, t
<1> QED BY <1>2, <1>7 DEF t

\* The body of a loop, from line f to the last.
LEMMA BodyIs ==
  ASSUME NEW R, NEW out \in Seq(R), NEW f \in 1 .. Len(out)
  PROVE  /\ SubSeq(out, f, Len(out)) \in Seq(R)
         /\ Len(SubSeq(out, f, Len(out))) = Len(out) - (f - 1)
         /\ \A m \in 1 .. Len(out) - (f - 1) : SubSeq(out, f, Len(out))[m] = out[f - 1 + m]
<1> DEFINE l == Len(out)
           s == SubSeq(out, f, l)
<1>1. l \in Nat /\ f \in 1 .. l /\ \A i \in 1 .. l : out[i] \in R
  OBVIOUS
<1> HIDE DEF l
<1>2. f \in 1 .. l + 1 /\ l \in f - 1 .. l /\ f \in Int
  BY <1>1
<1>3. \A i \in f .. l : out[i] \in R
  BY <1>1
<1>4. /\ s \in Seq(R) /\ Len(s) = IF f <= l THEN l - f + 1 ELSE 0
      /\ \A i \in 1 .. l - f + 1 : s[i] = out[f + i - 1]
  BY <1>1, <1>2, <1>3, SubSeqProperties
<1> HIDE DEF s
<1>5. Len(s) = l - (f - 1)
  BY <1>1, <1>4
<1>6. ASSUME NEW m \in 1 .. l - (f - 1) PROVE s[m] = out[f - 1 + m]
  <2>1. m \in 1 .. l - f + 1 /\ f + m - 1 = f - 1 + m
    BY <1>1
  <2> QED BY <1>4, <2>1
<1> QED BY <1>4, <1>5, <1>6 DEF s, l

LEMMA Repeats ==
  ASSUME NEW out \in Seq(Int), NEW f \in 1 .. Len(out), NEW more \in Nat, NEW t,
         t = out \o Times(more, SubSeq(out, f, Len(out)))
  PROVE  /\ t \in Seq(Int) /\ Len(out) <= Len(t)
         /\ \A m \in 1 .. Len(out) : t[m] = out[m]
         /\ Copied(t, Len(out), Len(out) - (f - 1), more)
<1> DEFINE e == Len(out)
           b == e - (f - 1)
           body == SubSeq(out, f, Len(out))
           copies == Times(more, body)
           g == more * b
<1>1. e \in Nat /\ f \in 1 .. e /\ b \in Nat \ {0}
  OBVIOUS
<1>2. /\ body \in Seq(Int) /\ Len(body) = b
      /\ \A m \in 1 .. b : body[m] = out[f - 1 + m]
  <2> DEFINE R == Int
  <2>1. out \in Seq(R)
    OBVIOUS
  <2> HIDE DEF R
  <2>2. /\ body \in Seq(R) /\ Len(body) = b
        /\ \A m \in 1 .. b : body[m] = out[f - 1 + m]
    BY <2>1, BodyIs
  <2> QED BY <2>2 DEF R
<1> HIDE DEF body, b, e
<1>3. body # <<>>
  BY <1>1, <1>2
<1>4. /\ copies \in Seq(Int)
      /\ more * Len(body) \in Nat /\ Len(copies) = more * Len(body)
      /\ \A q \in 1 .. more : \A m \in 1 .. Len(body) :
            /\ (q - 1) * Len(body) + m \in 1 .. more * Len(body)
            /\ copies[(q - 1) * Len(body) + m] = body[m]
  BY <1>2, <1>3, TimesIs
<1>5. /\ g \in Nat /\ Len(copies) = g
      /\ \A q \in 1 .. more : \A m \in 1 .. b :
            /\ (q - 1) * b + m \in 1 .. g
            /\ copies[(q - 1) * b + m] = body[m]
  BY <1>2, <1>4
<1>6. t = out \o copies
  BY DEF body
<1> HIDE DEF copies
<1>7. Longer(t, out, copies) /\ Len(t) = e + Len(copies)
  BY <1>4, <1>6, Extends DEF e
<1> HIDE DEF g
<1>8. /\ t \in Seq(Int) /\ Len(t) = e + g /\ e <= Len(t)
      /\ \A m \in 1 .. e : t[m] = out[m]
      /\ \A m \in 1 .. g : t[e + m] = copies[m]
  <2>1. \A m \in 1 .. e : t[m] = out[m]
    BY <1>7 DEF Longer, e
  <2>2. \A m \in 1 .. g : t[e + m] = copies[m]
    BY <1>5, <1>7 DEF Longer, e
  <2>3. t \in Seq(Int) /\ Len(t) = e + g
    BY <1>5, <1>7 DEF Longer
  <2>4. e <= e + g
    BY <1>1, <1>5
  <2> QED BY <2>1, <2>2, <2>3, <2>4
<1>9. ASSUME NEW q \in 1 .. more, NEW m \in 1 .. b
      PROVE  /\ (q - 1) * b + m \in 1 .. g
             /\ t[e + ((q - 1) * b + m)] = t[e - b + m]
  <2> DEFINE z == (q - 1) * b + m
  <2>1. z \in 1 .. g /\ copies[z] = body[m]
    BY <1>5
  <2> HIDE DEF z
  <2>2. t[e + z] = body[m]
    BY <1>8, <2>1
  <2>3. e - b + m \in 1 .. e /\ e - b + m = f - 1 + m
    BY <1>1 DEF b
  <2>4. t[e - b + m] = out[f - 1 + m]
    BY <1>8, <2>3
  <2> QED BY <1>2, <2>1, <2>2, <2>4 DEF z
<1>10. Copied(t, e, b, more)
  BY <1>1, <1>5, <1>8, <1>9 DEF Copied, g
<1> QED BY <1>8, <1>10 DEF e, b

(***************************************************************************)
(* One instruction more.                                                   *)
(***************************************************************************)
Loops(x) == x.op # "repeat" /\ x.loop /\ ~x.stop
Started == {s \in Stages : s.first <= Len(s.out) + 1}
Again(r, s, x, p) ==
  \A e, b : /\ e = Len(s.out) + Len(Lines(x, p))
            /\ b = e - (s.first - 1)
            => Copied(r.out, e, b, s.more)
Grows(r, s, x, p) ==
  /\ r \in Started
  /\ Longer(r.out, s.out, Lines(x, p))
  /\ x.op = "repeat" => r.more = x.n /\ r.first = Len(r.out) + 1
  /\ x.op # "repeat" => r.first = s.first
  /\ x.op # "repeat" /\ ~Loops(x) => r.more = s.more
  /\ ~Loops(x) => Len(r.out) = Len(s.out) + Len(Lines(x, p))
  /\ Loops(x) => r.more = 0 /\ Again(r, s, x, p)

LEMMA AddedIs ==
  ASSUME NEW s \in Started, NEW x \in Instructions, NEW p \in Nat
  PROVE  Grows(Added(s, x, p), s, x, p)
<1> DEFINE o == s.out
           y == Lines(x, p)
           l == Len(o)
           k == Len(y)
           out == o \o y
           r == Added(s, x, p)
           f == s.first
<1>1. /\ o \in Seq(Int) /\ y \in Seq(Int)
      /\ f \in Nat \ {0} /\ s.more \in Nat /\ x.n \in Nat
  BY LinesIs, InstructionType DEF Stages, Started
<1>2. l \in Nat /\ k \in Nat \ {0} /\ f <= l + 1
  BY <1>1, LinesIs DEF Started
<1>3. Longer(out, o, y) /\ Len(out) = l + k
  <2> HIDE DEF o, y
  <2> QED BY <1>1, Extends
<1>4. out \in Seq(Int)
  BY <1>3 DEF Longer
<1>5. CASE x.op = "repeat"
  <2>1. r = [out |-> out, first |-> Len(out) + 1, more |-> x.n]
    BY <1>5 DEF Added
  <2> HIDE DEF out, r, l, k
  <2>2. r.out = out /\ r.first = Len(out) + 1 /\ r.more = x.n
    BY <2>1
  <2>3. Len(out) + 1 \in Nat \ {0} /\ Len(out) + 1 <= Len(out) + 1
    BY <1>2, <1>3
  <2>4. r \in Started
    BY <1>1, <1>4, <2>1, <2>2, <2>3 DEF Stages, Started
  <2>5. ~Loops(x)
    BY <1>5 DEF Loops
  <2>6. Longer(r.out, s.out, Lines(x, p)) /\ Len(r.out) = Len(s.out) + Len(Lines(x, p))
    BY <1>3, <2>2 DEF l, k
  <2> HIDE DEF o, y, f
  <2>7. Grows(r, s, x, p)
    BY <1>5, <2>2, <2>4, <2>5, <2>6 DEF Grows
  <2> QED BY <2>7 DEF r
<1>6. CASE x.op # "repeat" /\ ~(x.loop /\ ~x.stop)
  <2>1. r = [s EXCEPT !.out = out]
    BY <1>6 DEF Added
  <2> HIDE DEF out, r, l, k
  <2>2. r.out = out /\ r.first = f /\ r.more = s.more
    BY <2>1 DEF Stages, Started
  <2>3. r \in Stages
    BY <1>1, <1>4, <2>1 DEF Stages, Started
  <2>4. r \in Started
    <3> HIDE DEF f
    <3>1. f <= Len(out) + 1
      BY <1>1, <1>2, <1>3
    <3>2. r.first <= Len(r.out) + 1
      BY <2>2, <3>1
    <3> QED BY <2>3, <3>2 DEF Started
  <2>5. ~Loops(x)
    BY <1>6 DEF Loops
  <2>6. Longer(r.out, s.out, Lines(x, p)) /\ Len(r.out) = Len(s.out) + Len(Lines(x, p))
    BY <1>3, <2>2 DEF l, k
  <2>7. r.first = s.first
    BY <2>2
  <2> HIDE DEF o, y, f
  <2>8. Grows(r, s, x, p)
    BY <1>6, <2>2, <2>4, <2>5, <2>6, <2>7 DEF Grows
  <2> QED BY <2>8 DEF r
<1>7. CASE Loops(x)
  <2> DEFINE t == out \o Times(s.more, SubSeq(out, f, Len(out)))
  <2>1. r = [s EXCEPT !.out = t, !.more = 0]
    BY <1>7 DEF Added, Loops
  <2>2. f \in 1 .. Len(out)
    <3> HIDE DEF out, l, k, f
    <3> QED BY <1>1, <1>2, <1>3
  <2>3. /\ t \in Seq(Int) /\ Len(out) <= Len(t)
        /\ \A m \in 1 .. Len(out) : t[m] = out[m]
        /\ Copied(t, Len(out), Len(out) - (f - 1), s.more)
    <3> HIDE DEF out, f
    <3> QED BY <1>1, <1>4, <2>2, Repeats
  <2> HIDE DEF t, r, out, l, k
  <2>4. r.out = t /\ r.first = f /\ r.more = 0
    BY <2>1 DEF Stages, Started
  <2>5. r \in Stages
    <3>1. 0 \in Nat
      OBVIOUS
    <3> QED BY <1>1, <2>1, <2>3, <3>1 DEF Stages, Started
  <2>6. r \in Started
    <3>1. Len(t) \in Nat /\ f <= Len(t) + 1
      <4> DEFINE u == Len(out)
                 v == Len(t)
      <4>1. u = l + k /\ u <= v /\ v \in Nat /\ f \in Nat
        BY <1>1, <1>3, <2>3
      <4> HIDE DEF u, v, f, o, y
      <4>2. f <= v + 1
        BY <1>2, <4>1
      <4> QED BY <4>1, <4>2 DEF v
    <3> QED BY <2>4, <2>5, <3>1 DEF Started
  <2>7. Longer(t, o, y)
    <3>1. Len(out) = l + k /\ (\A m \in 1 .. l : out[m] = o[m])
          /\ (\A m \in 1 .. k : out[l + m] = y[m])
      BY <1>3 DEF Longer, l, k
    <3>2. \A m \in 1 .. l : t[m] = o[m]
      <4>1. \A m \in 1 .. l : m \in 1 .. l + k
        BY <1>2
      <4> QED BY <2>3, <3>1, <4>1
    <3>3. \A m \in 1 .. k : t[l + m] = y[m]
      <4>1. \A m \in 1 .. k : l + m \in 1 .. l + k
        BY <1>2
      <4> QED BY <2>3, <3>1, <4>1
    <3> QED BY <2>3, <3>1, <3>2, <3>3 DEF Longer, l, k
  <2>8. Again(r, s, x, p)
    <3>1. Len(s.out) + Len(Lines(x, p)) = Len(out)
      BY <1>3 DEF l, k
    <3>2. s.first = f
      OBVIOUS
    <3> SUFFICES ASSUME NEW e, NEW b, e = Len(s.out) + Len(Lines(x, p)), b = e - (s.first - 1)
                 PROVE  Copied(r.out, e, b, s.more)
      BY DEF Again
    <3> DEFINE b2 == Len(out) - (f - 1)
    <3>3. e = Len(out) /\ b = b2
      BY <3>1, <3>2
    <3>4. Copied(t, Len(out), b2, s.more)
      BY <2>3
    <3> HIDE DEF b2
    <3> QED BY <2>4, <3>3, <3>4
  <2>9. Longer(r.out, s.out, Lines(x, p)) /\ r.first = s.first /\ r.more = 0
    BY <2>4, <2>7
  <2>10. x.op # "repeat"
    BY <1>7 DEF Loops
  <2> HIDE DEF o, y, f
  <2>11. Grows(r, s, x, p)
    BY <1>7, <2>6, <2>8, <2>9, <2>10 DEF Grows
  <2> QED BY <2>11 DEF r
<1> QED BY <1>5, <1>6, <1>7 DEF Loops

\* The stages of a list follow one another.
LEMMA ChainIs ==
  ASSUME NEW list \in Seq(Instructions), NEW p \in Nat
  PROVE  /\ Upto(list, p) \in [0 .. Len(list) -> Started]
         /\ Upto(list, p)[0] = NoStage
         /\ \A i \in 1 .. Len(list) :
              Grows(Upto(list, p)[i], Upto(list, p)[i - 1], list[i], p)
<1> DEFINE n == Len(list)
           step == [z \in Started \X (1 .. n) |-> Added(z[1], list[z[2]], p)]
<1>1. n \in Nat /\ \A i \in 1 .. n : list[i] \in Instructions
  OBVIOUS
<1>2. \A s \in Started, x \in Instructions : Added(s, x, p) \in Started
  BY AddedIs DEF Grows
<1>3. NoStage \in Started
  BY DEF NoStage, Started, Stages
<1>4. step \in [Started \X (1 .. n) -> Started]
  BY <1>1, <1>2
<1>5. PICK f : Runs(f, Started, NoStage, n, step)
  <2> HIDE DEF n, step
  <2> QED BY <1>1, <1>3, <1>4, Recursion
<1>6. f \in [0 .. n -> Started] /\ f[0] = NoStage
  BY <1>5 DEF Runs
<1>7. ASSUME NEW i \in 1 .. n PROVE f[i] = Added(f[i - 1], list[i], p)
  <2>1. f[i] = step[<<f[i - 1], i>>]
    BY <1>5 DEF Runs
  <2>2. i - 1 \in 0 .. n
    BY <1>1
  <2>3. <<f[i - 1], i>> \in Started \X (1 .. n)
    BY <1>6, <2>2
  <2> QED BY <2>1, <2>3
<1>8. Chain(f, list, p)
  <2> DEFINE g == [i \in 0 .. n |-> IF i = 0 THEN NoStage ELSE Added(f[i - 1], list[i], p)]
  <2>1. ASSUME NEW i \in 0 .. n PROVE f[i] = g[i]
    <3>1. CASE i = 0
      BY <1>6, <3>1
    <3>2. CASE i # 0
      <4>1. i \in 1 .. n
        BY <1>1, <3>2
      <4> QED BY <1>7, <3>2, <4>1
    <3> QED BY <3>1, <3>2
  <2>2. f = g
    BY <1>6, <2>1
  <2> QED BY <2>2 DEF Chain
<1>9. Chain(Upto(list, p), list, p)
  BY <1>8 DEF Upto
<1> DEFINE u == Upto(list, p)
<1>10. u = [i \in 0 .. n |-> IF i = 0 THEN NoStage ELSE Added(u[i - 1], list[i], p)]
  BY <1>9 DEF Chain
<1> HIDE DEF u
<1>11. u[0] = NoStage /\ \A i \in 1 .. n : u[i] = Added(u[i - 1], list[i], p)
  <2> DEFINE g == [i \in 0 .. n |-> IF i = 0 THEN NoStage ELSE Added(u[i - 1], list[i], p)]
  <2>1. u = g
    BY <1>10
  <2>2. g[0] = NoStage /\ \A i \in 1 .. n : g[i] = Added(u[i - 1], list[i], p)
    BY <1>1
  <2> HIDE DEF g
  <2> QED BY <2>1, <2>2
<1>12. \A i \in 0 .. n : u[i] \in Started
  <2> DEFINE S == {i \in Nat : i <= n => u[i] \in Started}
  <2>1. 0 \in S
    BY <1>3, <1>11
  <2>2. \A i \in Nat : i \in S => i + 1 \in S
    <3> TAKE i \in Nat
    <3> HAVE i \in S
    <3>1. ASSUME i + 1 <= n PROVE u[i + 1] \in Started
      <4>1. i + 1 \in 1 .. n /\ (i + 1) - 1 = i /\ u[i] \in Started
        BY <1>1, <3>1
      <4>2. u[i + 1] = Added(u[i], list[i + 1], p)
        BY <1>11, <4>1
      <4> QED BY <1>1, <1>2, <4>1, <4>2
    <3> QED BY <3>1
  <2> HIDE DEF S
  <2>3. Nat \subseteq S
    BY <2>1, <2>2, Induction
  <2> QED BY <1>1, <2>3 DEF S
<1>13. u \in [0 .. n -> Started]
  <2>1. DOMAIN u = 0 .. n /\ u = [i \in DOMAIN u |-> u[i]]
    BY <1>10
  <2> QED BY <1>12, <2>1
<1>14. ASSUME NEW i \in 1 .. n PROVE Grows(u[i], u[i - 1], list[i], p)
  <2>1. i - 1 \in 0 .. n
    BY <1>1
  <2>2. u[i - 1] \in Started /\ list[i] \in Instructions
    BY <1>1, <1>12, <2>1
  <2>3. u[i] = Added(u[i - 1], list[i], p)
    BY <1>11
  <2> QED BY <2>2, <2>3, AddedIs
<1> QED BY <1>11, <1>13, <1>14 DEF u

\* The recursive function of Unrolled is the one of the stages.
LEMMA UnrolledIs ==
  ASSUME NEW list, NEW p
  PROVE  Unrolled(list, p) = Upto(list, p)[Len(list)].out
BY DEF Unrolled, Upto, Chain, Added, NoStage

\* What is there stays there.
Remains(u, i, j) ==
  Len(u[i].out) <= Len(u[j].out) /\ \A m \in 1 .. Len(u[i].out) : u[j].out[m] = u[i].out[m]
LEMMA StagesRemain ==
  ASSUME NEW list \in Seq(Instructions), NEW p \in Nat, NEW i \in 0 .. Len(list)
  PROVE  Remains(Upto(list, p), i, Len(list))
<1> DEFINE u == Upto(list, p)
           n == Len(list)
           l == Len(u[i].out)
           Agrees(j) == l <= Len(u[j].out) /\ \A m \in 1 .. l : u[j].out[m] = u[i].out[m]
           S == {d \in Nat : i + d <= n => Agrees(i + d)}
<1>1. /\ n \in Nat /\ u \in [0 .. n -> Started]
      /\ \A j \in 1 .. n : Longer(u[j].out, u[j - 1].out, Lines(list[j], p))
      /\ \A j \in 1 .. n : list[j] \in Instructions
  <2>1. n \in Nat /\ \A j \in 1 .. n : list[j] \in Instructions
    OBVIOUS
  <2>2. u \in [0 .. n -> Started] /\ \A j \in 1 .. n : Grows(u[j], u[j - 1], list[j], p)
    BY ChainIs
  <2> HIDE DEF u, n
  <2>3. \A j \in 1 .. n : Longer(u[j].out, u[j - 1].out, Lines(list[j], p))
    BY <2>2 DEF Grows
  <2> QED BY <2>1, <2>2, <2>3
<1> HIDE DEF u, n
<1>2. \A j \in 0 .. n : u[j].out \in Seq(Int) /\ Len(u[j].out) \in Nat
  BY <1>1 DEF Started, Stages
<1>3. i \in 0 .. n
  BY DEF n
<1>4. 0 \in S
  BY <1>2, <1>3
<1>5. \A d \in Nat : d \in S => d + 1 \in S
  <2> TAKE d \in Nat
  <2> HAVE d \in S
  <2>1. ASSUME i + (d + 1) <= n PROVE Agrees(i + (d + 1))
    <3> DEFINE j == i + (d + 1)
    <3>1. j \in 1 .. n /\ j - 1 = i + d /\ i + d <= n /\ i + d \in 0 .. n
      BY <1>1, <1>3, <2>1
    <3>2. Agrees(j - 1)
      BY <3>1
    <3> HIDE DEF j
    <3> DEFINE s == u[j - 1].out
               t == u[j].out
               y == Lines(list[j], p)
    <3>3. Longer(t, s, y) /\ Len(s) \in Nat /\ Len(t) \in Nat
      BY <1>1, <1>2, <3>1
    <3>4. Len(y) \in Nat
      BY <1>1, <3>1, LinesIs
    <3>5. l <= Len(s) /\ l \in Nat /\ \A m \in 1 .. l : s[m] = u[i].out[m]
      BY <1>2, <1>3, <3>2
    <3>6. Len(s) <= Len(t) /\ \A m \in 1 .. Len(s) : t[m] = s[m]
      <4> HIDE DEF s, t, y
      <4> QED BY <3>3, <3>4 DEF Longer
    <3> HIDE DEF s, l
    <3>7. l <= Len(t)
      BY <3>3, <3>5, <3>6
    <3>8. \A m \in 1 .. l : m \in 1 .. Len(s)
      BY <3>3, <3>5
    <3>9. \A m \in 1 .. l : t[m] = u[i].out[m]
      BY <3>5, <3>6, <3>8
    <3> QED BY <3>7, <3>9 DEF j, l
  <2> HIDE DEF Agrees
  <2>2. d + 1 \in Nat
    OBVIOUS
  <2> QED BY <2>1, <2>2
<1>6. Nat \subseteq S
  <2> HIDE DEF S
  <2> QED BY <1>4, <1>5, Induction
<1>7. n - i \in Nat /\ i + (n - i) = n
  BY <1>1, <1>3
<1>8. Agrees(n)
  <2> HIDE DEF Agrees
  <2>1. i + (n - i) <= n /\ n - i \in S
    <3>1. n <= n
      BY <1>1
    <3> HIDE DEF S
    <3> QED BY <1>6, <1>7, <3>1
  <2>2. Agrees(i + (n - i))
    BY <2>1
  <2> QED BY <1>7, <2>2
<1>9. Remains(u, i, n)
  BY <1>8 DEF Remains
<1> QED BY <1>9 DEF u, n

(***************************************************************************)
(* A list goes to its first STOP.                                          *)
(***************************************************************************)
Ends(a, n) == /\ n \in Nat \ {0} /\ a + n - 1 \in Words /\ Memory[a + n - 1].stop
              /\ \A i \in 1 .. n - 1 : ~Memory[a + i - 1].stop

LEMMA ListIs ==
  ASSUME NEW a \in Words
  PROVE  /\ List(a) \in Seq(Instructions) /\ Ends(a, Len(List(a)))
         /\ \A i \in 1 .. Len(List(a)) : List(a)[i] = Memory[a + i - 1] /\ a + i - 1 \in Words
<1> DEFINE Halts(b) == /\ b >= a /\ Memory[b].stop
                       /\ \A d \in a .. b - 1 : ~Memory[d].stop
           end == CHOOSE b \in Words : Halts(b)
           n == end - a + 1
<1>1. Words \subseteq Nat /\ a \in Nat
  BY WordCount DEF Words
<1>2. \E b \in Words : Halts(b)
  <2> DEFINE T == {d \in Nat : d \in Words /\ d >= a /\ Memory[d].stop}
  <2>1. T # {}
    BY <1>1, ListAssumption
  <2>2. PICK b \in T : \A d \in T : <<d, b>> \notin OpToRel(<, Nat)
    <3>1. T \subseteq Nat
      OBVIOUS
    <3> HIDE DEF T
    <3> QED BY <2>1, <3>1, NatLessThanWellFounded, WFMin
  <2>3. b \in Words /\ b \in Nat /\ b >= a /\ Memory[b].stop
    OBVIOUS
  <2>4. ASSUME NEW d \in a .. b - 1 PROVE ~Memory[d].stop
    <3>1. d \in Nat /\ d < b /\ d >= a
      BY <1>1, <2>3
    <3>2. d \in Words
      <4> DEFINE size == Page * Pages
      <4>1. size \in Nat /\ b \in 0 .. size - 1
        BY <2>3, WordCount DEF Words
      <4> HIDE DEF size
      <4>2. d \in 0 .. size - 1
        BY <3>1, <4>1
      <4> QED BY <4>2 DEF size, Words
    <3>3. <<d, b>> \in OpToRel(<, Nat)
      BY <2>3, <3>1 DEF OpToRel
    <3>4. d \notin T
      BY <2>2, <3>3
    <3> QED BY <3>1, <3>2, <3>4
  <2> HIDE DEF T
  <2>5. Halts(b)
    BY <2>3, <2>4
  <2> QED BY <2>3, <2>5
<1>3. end \in Words /\ Halts(end)
  <2> HIDE DEF Halts
  <2> QED BY <1>2
<1>4. List(a) = [i \in 1 .. n |-> Memory[a + i - 1]]
  BY DEF List
<1> HIDE DEF end
<1>5. n \in Nat \ {0} /\ a + n - 1 = end /\ end \in Nat
  BY <1>1, <1>3
<1>6. \A i \in 1 .. n - 1 : ~Memory[a + i - 1].stop
  <2> TAKE i \in 1 .. n - 1
  <2>1. a + i - 1 \in a .. end - 1
    BY <1>1, <1>5
  <2> QED BY <1>3, <2>1
<1>7. ASSUME NEW i \in 1 .. n PROVE a + i - 1 \in Words /\ Memory[a + i - 1] \in Instructions
  <2> DEFINE size == Page * Pages
  <2>1. size \in Nat /\ end \in 0 .. size - 1
    BY <1>3, WordCount DEF Words
  <2> HIDE DEF size
  <2>2. a + i - 1 \in 0 .. size - 1
    BY <1>1, <1>5, <2>1
  <2>3. a + i - 1 \in Words
    BY <2>2 DEF size, Words
  <2> QED BY <2>3 DEF Instructions
<1> HIDE DEF n
<1>8. List(a) \in Seq(Instructions) /\ Len(List(a)) = n
  <2> DEFINE R == Instructions
  <2>1. \A i \in 1 .. n : Memory[a + i - 1] \in R
    BY <1>7
  <2> HIDE DEF R
  <2>2. List(a) \in Seq(R) /\ Len(List(a)) = n
    BY <1>4, <1>5, <2>1
  <2> QED BY <2>2 DEF R
<1>9. Ends(a, n)
  BY <1>3, <1>5, <1>6 DEF Ends
<1> QED BY <1>4, <1>7, <1>8, <1>9

(***************************************************************************)
(* Where the instructions of a list are in what it brings: at lines have   *)
(* been brought before the next instruction, the loop body that is open    *)
(* begins with line first, and comes more times again.                     *)
(***************************************************************************)
Places == [at : Nat, first : Nat \ {0}, more : Nat]
Comes(w, e, b, more, t) ==
  /\ b \in Nat \ {0} /\ more * b \in Nat
  /\ t = e + more * b
  /\ \A q \in 1 .. more : \A m \in 1 .. b :
       /\ (q - 1) * b + m \in 1 .. more * b
       /\ w[e + ((q - 1) * b + m)] = w[e - b + m]
Loaded(r, s, x, p, w) ==
  \A e, b : e = s.at + Len(Lines(x, p)) /\ b = e - (s.first - 1) => Comes(w, e, b, s.more, r.at)
Follows(r, s, x, p, w) ==
  /\ s.at + Len(Lines(x, p)) <= r.at
  /\ \A m \in 1 .. Len(Lines(x, p)) : w[s.at + m] = Lines(x, p)[m]
  /\ x.op = "repeat" => r.more = x.n /\ r.first = r.at + 1
  /\ x.op # "repeat" => r.first = s.first
  /\ x.op # "repeat" /\ ~Loops(x) => r.more = s.more
  /\ ~Loops(x) => r.at = s.at + Len(Lines(x, p))
  /\ Loops(x) => r.more = 0 /\ Loaded(r, s, x, p, w)
Laid(l, list, p, w) ==
  /\ l \in [0 .. Len(list) -> Places]
  /\ l[0] = [at |-> 0, first |-> 1, more |-> 0]
  /\ w \in Seq(Int) /\ Len(w) = l[Len(list)].at
  /\ \A i \in 1 .. Len(list) : Follows(l[i], l[i - 1], list[i], p, w)
Place(s) == [at |-> Len(s.out), first |-> s.first, more |-> s.more]
Plan(list, p) == [i \in 0 .. Len(list) |-> Place(Upto(list, p)[i])]

LEMMA GrowsFollows ==
  ASSUME NEW s \in Started, NEW r \in Started, NEW x \in Instructions, NEW p \in Nat,
         Grows(r, s, x, p), NEW w,
         \A m \in 1 .. Len(r.out) : w[m] = r.out[m]
  PROVE  Follows(Place(r), Place(s), x, p, w)
<1> DEFINE o == s.out
           t == r.out
           y == Lines(x, p)
           l == Len(o)
           k == Len(y)
           g == Len(t)
           i == Place(s)
           j == Place(r)
<1>1. /\ o \in Seq(Int) /\ t \in Seq(Int) /\ l \in Nat /\ g \in Nat /\ k \in Nat
      /\ s.first \in Nat \ {0} /\ s.first <= l + 1 /\ s.more \in Nat
  BY LinesIs DEF Started, Stages
<1>2. i.at = l /\ i.first = s.first /\ i.more = s.more /\ j.at = g /\ j.first = r.first /\ j.more = r.more
  BY DEF Place
<1>3. Longer(t, o, y)
  BY DEF Grows
<1> HIDE DEF i, j, o, t, y
<1>4. l + k <= g /\ \A m \in 1 .. k : t[l + m] = y[m]
  BY <1>3 DEF Longer
<1> HIDE DEF l, k, g
<1>5. \A m \in 1 .. k : l + m \in 1 .. g
  BY <1>1, <1>4
<1>6. \A m \in 1 .. g : w[m] = t[m]
  BY DEF g, t
<1>7. \A m \in 1 .. k : w[l + m] = y[m]
  BY <1>4, <1>5, <1>6
<1>8. ASSUME Loops(x), NEW e, NEW b, e = l + k, b = e - (s.first - 1)
      PROVE  Comes(w, e, b, s.more, g)
  <2>1. Copied(t, e, b, s.more)
    BY <1>8 DEF Grows, Again, l, k, o, y, t
  <2> DEFINE z == s.more * b
  <2>2. b \in Nat \ {0} /\ z \in Nat /\ g = e + z
    BY <2>1 DEF Copied, g
  <2>3. e \in Nat
    BY <1>1, <1>8
  <2>4. ASSUME NEW q \in 1 .. s.more, NEW m \in 1 .. b
        PROVE  (q - 1) * b + m \in 1 .. z /\ w[e + ((q - 1) * b + m)] = w[e - b + m]
    <3> DEFINE c == (q - 1) * b + m
    <3>1. c \in 1 .. z /\ t[e + c] = t[e - b + m]
      BY <2>1 DEF Copied
    <3> HIDE DEF c, z
    <3>2. e + c \in 1 .. g
      BY <2>2, <2>3, <3>1
    <3>3. e - b + m \in 1 .. g
      <4>1. e - b \in Nat /\ m \in 1 .. b
        BY <1>1, <1>8, <2>3
      <4>2. e <= g
        BY <2>2, <2>3
      <4>3. e - b + m <= e
        BY <2>2, <2>3, <4>1
      <4>4. g \in Nat
        BY <2>2, <2>3
      <4> QED BY <2>2, <2>3, <4>1, <4>2, <4>3, <4>4
    <3> QED BY <1>6, <3>1, <3>2, <3>3 DEF c
  <2> QED BY <2>2, <2>4 DEF Comes
<1>9. ASSUME Loops(x) PROVE j.more = 0 /\ Loaded(j, i, x, p, w)
  <2>1. j.more = 0
    BY <1>2, <1>9 DEF Grows
  <2>2. ASSUME NEW e, NEW b, e = i.at + Len(Lines(x, p)), b = e - (i.first - 1)
        PROVE  Comes(w, e, b, i.more, j.at)
    <3>1. e = l + k /\ b = e - (s.first - 1)
      BY <1>2, <2>2 DEF k, y
    <3> QED BY <1>2, <1>8, <1>9, <3>1
  <2> QED BY <2>1, <2>2 DEF Loaded
<1>10. /\ x.op = "repeat" => r.more = x.n /\ r.first = g + 1
       /\ x.op # "repeat" => r.first = s.first
       /\ x.op # "repeat" /\ ~Loops(x) => r.more = s.more
       /\ ~Loops(x) => g = l + k
  BY DEF Grows, g, l, k, t, o, y
<1>11. /\ i.at + Len(Lines(x, p)) <= j.at
       /\ \A m \in 1 .. Len(Lines(x, p)) : w[i.at + m] = Lines(x, p)[m]
  BY <1>2, <1>4, <1>7 DEF k, y
<1>12. ~Loops(x) => j.at = i.at + Len(Lines(x, p))
  BY <1>2, <1>10 DEF k, y
<1>13. Follows(j, i, x, p, w)
  BY <1>2, <1>9, <1>10, <1>11, <1>12 DEF Follows
<1> QED BY <1>13 DEF i, j

LEMMA PlanIs ==
  ASSUME NEW list \in Seq(Instructions), NEW p \in Nat
  PROVE  Laid(Plan(list, p), list, p, Unrolled(list, p))
<1> DEFINE u == Upto(list, p)
           n == Len(list)
           l == Plan(list, p)
           w == Unrolled(list, p)
<1>1. n \in Nat /\ n \in 0 .. n /\ 0 \in 0 .. n /\ \A i \in 1 .. n : list[i] \in Instructions
  OBVIOUS
<1>2. /\ u \in [0 .. n -> Started] /\ u[0] = NoStage
      /\ \A i \in 1 .. n : Grows(u[i], u[i - 1], list[i], p)
  BY ChainIs
<1>3. w = u[n].out
  BY UnrolledIs
<1>4. l = [i \in 0 .. n |-> Place(u[i])]
  BY DEF Plan
<1>5. \A i \in 0 .. n : Remains(u, i, n)
  BY StagesRemain
<1> HIDE DEF u, n, l, w
<1>6. \A i \in 0 .. n : Place(u[i]) \in Places /\ u[i] \in Started
  BY <1>2 DEF Place, Places, Started, Stages
<1>7. l \in [0 .. n -> Places]
  BY <1>4, <1>6
<1>8. l[0] = [at |-> 0, first |-> 1, more |-> 0]
  BY <1>1, <1>2, <1>4 DEF Place, NoStage
<1>9. w \in Seq(Int) /\ Len(w) = l[n].at
  BY <1>1, <1>3, <1>4, <1>6 DEF Place, Started, Stages
<1>10. ASSUME NEW i \in 1 .. n PROVE Follows(l[i], l[i - 1], list[i], p, w)
  <2>1. i \in 0 .. n /\ i - 1 \in 0 .. n
    BY <1>1
  <2>2. l[i] = Place(u[i]) /\ l[i - 1] = Place(u[i - 1])
    BY <1>4, <2>1
  <2>3. \A m \in 1 .. Len(u[i].out) : w[m] = u[i].out[m]
    BY <1>3, <1>5, <2>1 DEF Remains
  <2>4. u[i] \in Started /\ u[i - 1] \in Started /\ list[i] \in Instructions
    BY <1>1, <1>6, <2>1
  <2>5. Grows(u[i], u[i - 1], list[i], p)
    BY <1>2
  <2>6. Follows(Place(u[i]), Place(u[i - 1]), list[i], p, w)
    BY <2>3, <2>4, <2>5, GrowsFollows
  <2> QED BY <2>2, <2>6
<1>11. Laid(l, list, p, w)
  BY <1>7, <1>8, <1>9, <1>10 DEF Laid, n
<1> QED BY <1>11 DEF l, w

(***************************************************************************)
(* Where a channel is in what its list brings: it is to execute            *)
(* instruction i + 1 after k lines, going through the list for the first   *)
(* time, or repeating for the q-th time the body of the loop that begins   *)
(* with instruction j and ends with instruction e.                         *)
(***************************************************************************)
Body(l, list, j, i) ==
  /\ j \in 1 .. i /\ list[j].op = "repeat" /\ l[i].first = l[j].at + 1
  /\ \A m \in j + 1 .. i : list[m].op # "repeat" /\ ~Loops(list[m])
Opened(c, a, i, l) ==
  /\ c.loops = l[i].more
  /\ c.loops > 0 => \E j \in 1 .. i : c.loop_address = a + j - 1 /\ Body(l, List(a), j, i)
Unopened(a, i) == Closed(a) /\ \A m \in 1 .. i : List(a)[m].op # "repeat"
Passing(c, a, i, k, l) ==
  /\ k = l[i].at
  /\ Opened(c, a, i, l) \/ Unopened(a, i)
Through(l, list, p, e) == l[e - 1].at + Len(Lines(list[e], p))
InRepeat(c, a, i, k, l, p, e, j, q) ==
  /\ Loops(List(a)[e]) /\ Body(l, List(a), j, e - 1) /\ i \in j .. e - 1
  /\ c.loop_address = a + j - 1 /\ q \in 1 .. l[e - 1].more /\ c.loops = l[e - 1].more - q
  /\ \A b, d : b = Through(l, List(a), p, e) - l[j].at /\ d = (q - 1) * b
               => k = Through(l, List(a), p, e) + (d + (l[i].at - l[j].at))
Repeating(c, a, i, k, l, p) ==
  \E e \in 1 .. Len(List(a)) - 1, j \in 1 .. Len(List(a)) : \E q \in Nat :
    InRepeat(c, a, i, k, l, p, e, j, q)
Positioned(c, a, i, k, l, p) ==
  /\ i \in 0 .. Len(List(a)) - 1 /\ c.source_address = a + i
  /\ Passing(c, a, i, k, l) \/ Repeating(c, a, i, k, l, p)

LEMMA Sums ==
  ASSUME NEW t \in Nat, NEW d \in Nat, NEW h \in Nat, NEW y \in Nat
  PROVE  t + (d + h) + y = t + (d + (h + y)) /\ (d + y <= t => (d - h) + y <= t - h)
OBVIOUS

LEMMA PlaceIs ==
  ASSUME NEW list \in Seq(Instructions), NEW p \in Nat, NEW l, NEW w, Laid(l, list, p, w),
         NEW i \in 0 .. Len(list)
  PROVE  l[i].at \in Nat /\ l[i].first \in Nat \ {0} /\ l[i].more \in Nat
<1>1. l[i] \in Places
  BY DEF Laid
<1> QED BY <1>1 DEF Places

LEMMA Follow ==
  ASSUME NEW list \in Seq(Instructions), NEW p \in Nat, NEW l, NEW w, Laid(l, list, p, w),
         NEW i \in 0 .. Len(list) - 1
  PROVE  /\ Follows(l[i + 1], l[i], list[i + 1], p, w)
         /\ list[i + 1] \in Instructions /\ i + 1 \in 1 .. Len(list)
         /\ Len(Lines(list[i + 1], p)) \in Nat \ {0}
         /\ l[i].at + Len(Lines(list[i + 1], p)) <= l[i + 1].at
<1> DEFINE n == Len(list)
<1>1. n \in Nat
  OBVIOUS
<1>2. i + 1 \in 1 .. n /\ (i + 1) - 1 = i
  BY <1>1
<1>3. list[i + 1] \in Instructions
  BY <1>2
<1>4. Follows(l[i + 1], l[i], list[i + 1], p, w)
  BY <1>2 DEF Laid
<1>5. Len(Lines(list[i + 1], p)) \in Nat \ {0}
  BY <1>3, LinesIs
<1>6. l[i].at + Len(Lines(list[i + 1], p)) <= l[i + 1].at
  BY <1>4 DEF Follows
<1> QED BY <1>2, <1>3, <1>4, <1>5, <1>6

\* Every instruction takes a line at least.
LEMMA Ascends ==
  ASSUME NEW list \in Seq(Instructions), NEW p \in Nat, NEW l, NEW w, Laid(l, list, p, w),
         NEW j \in 0 .. Len(list), NEW i \in 0 .. j
  PROVE  l[i].at + (j - i) <= l[j].at
<1> DEFINE n == Len(list)
           h(m) == l[m].at
           S == {d \in Nat : i + d <= n => h(i) + d <= h(i + d)}
<1>1. n \in Nat /\ j \in 0 .. n /\ i \in 0 .. j
  OBVIOUS
<1>2. \A m \in 0 .. n : h(m) \in Nat
  BY PlaceIs
<1>3. \A m \in 0 .. n - 1 : h(m) + 1 <= h(m + 1)
  <2> TAKE m \in 0 .. n - 1
  <2> DEFINE y == Len(Lines(list[m + 1], p))
  <2>1. y \in Nat \ {0} /\ h(m) + y <= h(m + 1)
    BY Follow
  <2>2. m \in 0 .. n /\ m + 1 \in 0 .. n
    BY <1>1
  <2>3. h(m) \in Nat /\ h(m + 1) \in Nat
    BY <1>2, <2>2
  <2> HIDE DEF y, h
  <2> QED BY <2>1, <2>3
<1> HIDE DEF h, n
<1>4. 0 \in S
  <2>1. i \in 0 .. n /\ i + 0 = i
    BY <1>1
  <2>2. h(i) \in Nat
    BY <1>2, <2>1
  <2>3. h(i) + 0 <= h(i + 0)
    BY <2>1, <2>2
  <2> QED BY <2>3
<1>5. \A d \in Nat : d \in S => d + 1 \in S
  <2> TAKE d \in Nat
  <2> HAVE d \in S
  <2>1. ASSUME i + (d + 1) <= n PROVE h(i) + (d + 1) <= h(i + (d + 1))
    <3>1. i + d \in 0 .. n - 1 /\ i + d <= n /\ i + (d + 1) = (i + d) + 1 /\ i \in 0 .. n
          /\ i + d \in 0 .. n /\ (i + d) + 1 \in 0 .. n
      BY <1>1, <2>1
    <3>2. h(i) + d <= h(i + d) /\ h(i + d) + 1 <= h((i + d) + 1)
      BY <1>3, <3>1
    <3>3. h(i) \in Nat /\ h(i + d) \in Nat /\ h((i + d) + 1) \in Nat
      BY <1>2, <3>1
    <3> DEFINE u == h(i)
               v == h(i + d)
               z == h((i + d) + 1)
    <3>4. h(i + (d + 1)) = z
      BY <3>1
    <3> HIDE DEF u, v, z
    <3>5. u \in Nat /\ v \in Nat /\ z \in Nat /\ u + d <= v /\ v + 1 <= z
      BY <3>2, <3>3 DEF u, v, z
    <3>6. u + (d + 1) <= z
      BY <3>5
    <3> QED BY <3>4, <3>6 DEF u
  <2>2. d + 1 \in Nat
    OBVIOUS
  <2> QED BY <2>1, <2>2
<1>6. j - i \in Nat /\ i + (j - i) = j /\ j <= n
  BY <1>1
<1>7. Nat \subseteq S
  <2> HIDE DEF S
  <2> QED BY <1>4, <1>5, Induction
<1>8. h(i) + (j - i) <= h(i + (j - i))
  <2> DEFINE d == j - i
  <2>1. d \in S /\ i + d <= n
    BY <1>6, <1>7
  <2> HIDE DEF d
  <2>2. h(i) + d <= h(i + d)
    BY <2>1
  <2> QED BY <2>2 DEF d
<1>9. h(i) + (j - i) <= h(j)
  BY <1>6, <1>8
<1> QED BY <1>9 DEF h

\* The lines of a body.
InBody(l, list, p, w, e, j, i, t, b) ==
  /\ t \in Nat /\ b \in Nat \ {0} /\ t - b = l[j].at
  /\ l[e - 1].more * b \in Nat /\ l[e].at = t + l[e - 1].more * b /\ l[e].more = 0
  /\ l[i].at - l[j].at \in Nat
  /\ l[i].at - l[j].at + Len(Lines(list[i + 1], p)) <= b
  /\ i + 1 = e => l[i].at + Len(Lines(list[i + 1], p)) = t
  /\ i + 1 < e => l[i + 1].at = l[i].at + Len(Lines(list[i + 1], p))
  /\ \A q \in 1 .. l[e - 1].more : \A d : d = (q - 1) * b =>
       /\ d \in Nat
       /\ d + (l[i].at - l[j].at + Len(Lines(list[i + 1], p))) <= l[e - 1].more * b
       /\ \A m \in 1 .. Len(Lines(list[i + 1], p)) :
            w[t + (d + (l[i].at - l[j].at)) + m] = Lines(list[i + 1], p)[m]

LEMMA BodyLines ==
  ASSUME NEW list \in Seq(Instructions), NEW p \in Nat, NEW l, NEW w, Laid(l, list, p, w),
         NEW e \in 1 .. Len(list) - 1, NEW j \in 1 .. Len(list), NEW i \in j .. e - 1,
         Loops(list[e]), Body(l, list, j, e - 1), NEW t, NEW b,
         t = Through(l, list, p, e), b = t - l[j].at
  PROVE  InBody(l, list, p, w, e, j, i, t, b)
<1> DEFINE n == Len(list)
           x == list[i + 1]
           y == Len(Lines(x, p))
           g == Len(Lines(list[e], p))
           ai == l[i].at
           aj == l[j].at
           ae == l[e - 1].at
           more == l[e - 1].more
           z == more * b
<1>1. n \in Nat /\ e \in 1 .. n - 1 /\ i \in j .. e - 1 /\ j \in 1 .. n
  OBVIOUS
<1>2. /\ i \in 0 .. n - 1 /\ e - 1 \in 0 .. n - 1 /\ (e - 1) + 1 = e /\ e - 1 \in 0 .. n
      /\ i \in 0 .. n /\ i \in 0 .. e - 1 /\ j \in 0 .. i /\ i + 1 \in 1 .. e /\ i + 1 \in 0 .. n
      /\ e \in 0 .. n /\ j \in 0 .. n
  BY <1>1
<1>3. ai \in Nat /\ aj \in Nat /\ ae \in Nat /\ more \in Nat
  <2> HIDE DEF n
  <2> QED BY <1>2, PlaceIs DEF n
<1>4. aj + (i - j) <= ai
  <2>1. i \in 0 .. Len(list) /\ j \in 0 .. i
    BY <1>2
  <2> QED BY <2>1, Ascends
<1>5. /\ Follows(l[i + 1], l[i], x, p, w) /\ y \in Nat \ {0} /\ ai + y <= l[i + 1].at
      /\ x \in Instructions
  BY <1>2, Follow
<1>6. /\ Follows(l[e], l[e - 1], list[e], p, w) /\ g \in Nat \ {0} /\ t = ae + g
  BY <1>2, Follow DEF Through
<1>7. l[e - 1].first = aj + 1 /\ \A m \in j + 1 .. e - 1 : list[m].op # "repeat" /\ ~Loops(list[m])
  BY DEF Body
<1>8. l[e].more = 0 /\ Comes(w, t, b, more, l[e].at)
  <2>1. l[e].more = 0
    BY <1>6 DEF Follows
  <2>2. \A f, u : f = l[e - 1].at + Len(Lines(list[e], p)) /\ u = f - (l[e - 1].first - 1)
                 => Comes(w, f, u, l[e - 1].more, l[e].at)
    BY <1>6 DEF Follows, Loaded
  <2>3. t = ae + g /\ b = t - (l[e - 1].first - 1)
    <3>1. t = ae + g /\ b = t - aj
      BY <1>6
    <3>2. l[e - 1].first = aj + 1 /\ aj \in Nat
      BY <1>3, <1>7
    <3> HIDE DEF z, n, x, y, ai, aj, ae, g, more
    <3>3. l[e - 1].first - 1 = aj
      BY <3>2
    <3> QED BY <3>1, <3>3
  <2> HIDE DEF z, n, x, y, ai, aj
  <2> QED BY <2>1, <2>2, <2>3
<1> HIDE DEF n, x, y, g, ai, aj, ae, more
<1>9. t \in Nat /\ b = t - aj
  BY <1>3, <1>6 DEF aj
<1>10. b \in Nat \ {0} /\ z \in Nat /\ l[e].at = t + z
  BY <1>8 DEF Comes
<1>11. t - b = aj
  BY <1>3, <1>9, <1>10
<1>12. i + 1 = e => ai + y = t
  <2> HAVE i + 1 = e
  <2>1. i = e - 1
    BY <1>1
  <2>2. ai = ae
    BY <2>1 DEF ai, ae
  <2>3. y = g
    BY DEF y, x, g
  <2> QED BY <1>6, <2>2, <2>3
<1>13. i + 1 < e => l[i + 1].at = ai + y /\ ai + y <= ae
  <2> HAVE i + 1 < e
  <2>1. i + 1 \in j + 1 .. e - 1 /\ i + 1 \in 0 .. e - 1
    BY <1>1, <1>2
  <2>2. ~Loops(x)
    BY <1>7, <2>1 DEF x
  <2>3. l[i + 1].at = ai + y
    BY <1>5, <2>2 DEF Follows, ai, y
  <2>4. l[i + 1].at + ((e - 1) - (i + 1)) <= ae
    <3>1. e - 1 \in 0 .. Len(list) /\ i + 1 \in 0 .. e - 1
      BY <1>2, <2>1 DEF n
    <3> QED BY <3>1, Ascends DEF ae
  <2>5. (e - 1) - (i + 1) \in Nat
    BY <2>1
  <2> QED BY <1>3, <1>5, <2>3, <2>4, <2>5
<1>14. ai - aj \in Nat /\ (ai - aj) + y <= b
  <2>1. i - j \in Nat
    BY <1>1
  <2>2. ai - aj \in Nat
    BY <1>3, <1>4, <2>1
  <2>3. ai + y <= t
    <3>1. CASE i + 1 = e
      BY <1>3, <1>5, <1>9, <1>12, <3>1
    <3>2. CASE i + 1 < e
      BY <1>3, <1>5, <1>6, <1>9, <1>13, <3>2
    <3> QED BY <1>1, <3>1, <3>2
  <2>4. (ai - aj) + y <= b
    <3> HIDE DEF z
    <3>1. ai \in Nat /\ aj \in Nat /\ y \in Nat /\ t \in Nat /\ b = t - aj /\ ai + y <= t
      BY <1>3, <1>5, <1>9, <2>3
    <3> QED BY <3>1, Sums
  <2> QED BY <2>2, <2>4
<1> DEFINE h == ai - aj
<1>15. h \in Nat /\ h + y \in 1 .. b /\ y \in Nat \ {0}
       /\ \A m \in 1 .. y : h + m \in 1 .. b
  <2>1. h \in Nat /\ h + y <= b /\ y \in Nat \ {0} /\ b \in Nat
    BY <1>5, <1>10, <1>14
  <2> HIDE DEF h, z
  <2> QED BY <2>1
<1>16. \A m \in 1 .. y : t - b + (h + m) = ai + m
  <2>1. \A m \in 1 .. y : m \in Nat
    BY <1>5
  <2> HIDE DEF z
  <2> QED BY <1>3, <1>11, <2>1
<1> DEFINE copy(u, m) == u + m \in 1 .. z /\ w[t + (u + m)] = w[t - b + m]
<1>17. \A q \in 1 .. more : \A m \in 1 .. b : copy((q - 1) * b, m)
  BY <1>8 DEF Comes
<1>18. ASSUME NEW q \in 1 .. more, NEW d, d = (q - 1) * b
       PROVE  /\ d \in Nat
              /\ d + (h + y) <= z
              /\ \A m \in 1 .. y : w[t + (d + h) + m] = Lines(x, p)[m]
  <2>1. ASSUME NEW m \in 1 .. b
        PROVE  d + m \in 1 .. z /\ w[t + (d + m)] = w[t - b + m]
    <3> DEFINE u == (q - 1) * b
    <3> HIDE DEF copy
    <3>1. copy(u, m)
      BY <1>17
    <3>2. d = u
      BY <1>18
    <3> HIDE DEF u
    <3>3. copy(d, m)
      BY <3>1, <3>2
    <3> HIDE DEF z
    <3> QED BY <3>3 DEF copy
  <2>2. d \in Nat
    <3> DEFINE u == q - 1
    <3>1. u \in Nat /\ b \in Nat
      BY <1>3, <1>10
    <3> HIDE DEF u, z
    <3>2. u * b \in Nat
      BY <3>1
    <3> QED BY <1>18, <3>2 DEF u
  <2> HIDE DEF z, h
  <2>3. d + (h + y) <= z
    BY <1>10, <1>15, <2>1
  <2>4. ASSUME NEW m \in 1 .. y PROVE w[t + (d + h) + m] = Lines(x, p)[m]
    <3> DEFINE c == h + m
    <3>1. c \in 1 .. b
      BY <1>15
    <3>2. t - b + c = ai + m
      BY <1>16
    <3>3. t + (d + c) = t + (d + h) + m
      BY <1>9, <1>15, <2>2
    <3> HIDE DEF c
    <3>4. w[t + (d + c)] = w[t - b + c]
      BY <2>1, <3>1
    <3>5. w[ai + m] = Lines(x, p)[m]
      BY <1>5 DEF Follows, ai, y
    <3> QED BY <3>2, <3>3, <3>4, <3>5
  <2> QED BY <2>2, <2>3, <2>4
<1> QED
  BY <1>8, <1>9, <1>10, <1>11, <1>12, <1>13, <1>14, <1>18 DEF InBody, z, h, ai, aj, y, x, more

(***************************************************************************)
(* What an instruction does to the position of a channel.                  *)
(***************************************************************************)
LEMMA ExecuteIs ==
  ASSUME NEW c \in Channel, NEW x \in Instructions
  PROVE  LET r == Execute(c, x)
         IN /\ x.op = "repeat" => /\ r.loops = x.n /\ r.loop_address = c.source_address
                                  /\ r.source_address = Advance(c.source_address)
            /\ x.op # "repeat" /\ (~x.loop \/ c.loops = 0) =>
                 /\ r.loops = c.loops /\ r.loop_address = c.loop_address
                 /\ r.source_address = Advance(c.source_address)
            /\ x.op # "repeat" /\ x.loop /\ c.loops > 0 =>
                 /\ r.loops = c.loops - 1 /\ r.loop_address = c.loop_address
                 /\ r.source_address = Advance(c.loop_address)
<1> DEFINE done == CASE x.op = "load"    -> c
                     [] x.op = "pause"   -> [c EXCEPT !.pause_ticks = x.n, !.tick_cycles = 0]
                     [] x.op = "repeat"  -> [c EXCEPT !.loops = x.n, !.loop_address = c.source_address]
                     [] x.op = "control" ->
                          [(IF x.loop THEN Loop(c) ELSE c)
                            EXCEPT !.interrupt = @ \/ x.int, !.enabled = @ /\ ~Stops(x)]
           r == Execute(c, x)
<1>1. /\ x.op \in {"load", "pause", "repeat", "control"} /\ x.n \in Nat
      /\ x.loop \in BOOLEAN /\ x.op # "control" => ~x.loop
  BY InstructionType
<1>2. r = [done EXCEPT !.source_address = Advance(@)]
  BY DEF Execute
<1>3. c.loops \in Nat
  BY DEF Channel
<1>4. x.op = "repeat" => done \in Channel /\ done.loops = x.n /\ done.loop_address = c.source_address
                         /\ done.source_address = c.source_address
  BY <1>1 DEF Channel
<1>5. x.op # "repeat" /\ (~x.loop \/ c.loops = 0) =>
        done \in Channel /\ done.loops = c.loops /\ done.loop_address = c.loop_address
        /\ done.source_address = c.source_address
  <2> HAVE x.op # "repeat" /\ (~x.loop \/ c.loops = 0)
  <2>1. CASE x.op = "load"
    BY <2>1
  <2>2. CASE x.op = "pause"
    BY <1>1, <2>2 DEF Channel
  <2>3. CASE x.op = "control"
    <3>1. (IF x.loop THEN Loop(c) ELSE c) = c
      BY <1>3 DEF Loop
    <3>2. done = [c EXCEPT !.interrupt = @ \/ x.int, !.enabled = @ /\ ~Stops(x)]
      BY <2>3, <3>1
    <3>3. (c.interrupt \/ x.int) \in BOOLEAN /\ (c.enabled /\ ~Stops(x)) \in BOOLEAN
      OBVIOUS
    <3> HIDE DEF done
    <3> QED BY <3>2, <3>3 DEF Channel
  <2> QED BY <1>1, <2>1, <2>2, <2>3
<1>6. x.op # "repeat" /\ x.loop /\ c.loops > 0 =>
        done \in Channel /\ done.loops = c.loops - 1 /\ done.loop_address = c.loop_address
        /\ done.source_address = c.loop_address
  <2> HAVE x.op # "repeat" /\ x.loop /\ c.loops > 0
  <2> DEFINE looped == [c EXCEPT !.source_address = c.loop_address, !.loops = @ - 1]
  <2>1. (IF x.loop THEN Loop(c) ELSE c) = looped
    BY DEF Loop
  <2>2. done = [looped EXCEPT !.interrupt = @ \/ x.int, !.enabled = @ /\ ~Stops(x)]
    BY <1>1, <2>1
  <2>3. /\ looped \in Channel /\ looped.loops = c.loops - 1 /\ looped.loop_address = c.loop_address
        /\ looped.source_address = c.loop_address
    <3>1. c.loops - 1 \in Nat
      BY <1>3
    <3> QED BY <3>1 DEF Channel
  <2>4. (looped.interrupt \/ x.int) \in BOOLEAN /\ (looped.enabled /\ ~Stops(x)) \in BOOLEAN
    OBVIOUS
  <2> HIDE DEF done, looped
  <2> QED BY <2>2, <2>3, <2>4 DEF Channel
<1> HIDE DEF done, r
<1>7. done \in Channel => r.loops = done.loops /\ r.loop_address = done.loop_address
                          /\ r.source_address = Advance(done.source_address)
  BY <1>2 DEF Channel
<1> QED BY <1>4, <1>5, <1>6, <1>7 DEF r

\* The instructions of a list in memory.
LEMMA InList ==
  ASSUME NEW a \in Words, NEW i \in 0 .. Len(List(a)) - 1
  PROVE  /\ a + i \in Words /\ Memory[a + i] = List(a)[i + 1] /\ List(a)[i + 1] \in Instructions
         /\ i + 1 \in 1 .. Len(List(a))
         /\ List(a)[i + 1].stop <=> i + 1 = Len(List(a))
         /\ i + 1 < Len(List(a)) => Advance(a + i) = a + (i + 1)
<1> DEFINE n == Len(List(a))
           size == Page * Pages
<1>1. /\ List(a) \in Seq(Instructions) /\ Ends(a, n)
      /\ \A m \in 1 .. n : List(a)[m] = Memory[a + m - 1] /\ a + m - 1 \in Words
  BY ListIs
<1>2. a \in Nat /\ size \in Nat \ {0}
  BY WordCount DEF Words
<1>3. n \in Nat \ {0} /\ i \in 0 .. n - 1 /\ i + 1 \in 1 .. n /\ a + (i + 1) - 1 = a + i
  BY <1>1, <1>2 DEF Ends
<1>4. a + i \in Words /\ Memory[a + i] = List(a)[i + 1]
  BY <1>1, <1>3
<1>5. List(a)[i + 1] \in Instructions
  BY <1>1, <1>3
<1> HIDE DEF n, size
<1>6. List(a)[i + 1].stop <=> i + 1 = n
  <2>1. CASE i + 1 = n
    <3>1. a + n - 1 = a + i
      BY <1>2, <1>3, <2>1
    <3> QED BY <1>1, <1>4, <2>1, <3>1 DEF Ends
  <2>2. CASE i + 1 # n
    <3>1. i + 1 \in 1 .. n - 1
      BY <1>3, <2>2
    <3>2. ~Memory[a + (i + 1) - 1].stop
      BY <1>1, <3>1 DEF Ends
    <3> QED BY <1>3, <1>4, <2>2, <3>2
  <2> QED BY <2>1, <2>2
<1>7. i + 1 < n => Advance(a + i) = a + (i + 1)
  <2> HAVE i + 1 < n
  <2>1. i + 2 \in 1 .. n
    BY <1>3
  <2>2. a + (i + 2) - 1 \in Words
    BY <1>1, <2>1
  <2>3. a + i + 1 \in 0 .. size - 1 /\ a + i + 1 = a + (i + 1)
    BY <1>2, <1>3, <2>2 DEF Words, size
  <2> DEFINE b == a + i + 1
  <2> HIDE DEF b
  <2>4. b % size = b
    BY <1>2, <2>3 DEF b
  <2> QED BY <2>3, <2>4 DEF b, Advance, size
<1> QED BY <1>3, <1>4, <1>5, <1>6, <1>7 DEF n

\* The lines of the instruction a channel is to execute are next in what its list brings.
Brought(x, k, p, w) ==
  /\ k \in Nat /\ w \in Seq(Int) /\ k + Len(Lines(x, p)) <= Len(w)
  /\ \A m \in 1 .. Len(Lines(x, p)) : w[k + m] = Lines(x, p)[m]
  /\ x.stop => k + Len(Lines(x, p)) = Len(w)

LEMMA PassingBrings ==
  ASSUME NEW a \in Words, NEW p \in Nat, NEW l, NEW w, Laid(l, List(a), p, w), NEW c, NEW i, NEW k,
         i \in 0 .. Len(List(a)) - 1, Passing(c, a, i, k, l)
  PROVE  Brought(List(a)[i + 1], k, p, w)
<1> DEFINE list == List(a)
           n == Len(list)
           x == list[i + 1]
           y == Lines(x, p)
           g == Len(y)
           ai == l[i].at
           at == l[i + 1].at
           an == l[n].at
<1>1. list \in Seq(Instructions) /\ n \in Nat /\ i \in 0 .. n - 1
  BY ListIs
<1>2. k = ai /\ w \in Seq(Int) /\ Len(w) = an
  BY DEF Passing, Laid
<1>3. x.stop <=> i + 1 = n
  BY InList
<1> HIDE DEF list
<1>4. Laid(l, list, p, w)
  BY DEF list
<1>5. i + 1 \in 0 .. n /\ i \in 0 .. n /\ n \in 0 .. n
  BY <1>1
<1>6. ai \in Nat /\ at \in Nat /\ an \in Nat
  <2> HIDE DEF n
  <2> QED BY <1>1, <1>4, <1>5, PlaceIs DEF n
<1>7. Follows(l[i + 1], l[i], x, p, w) /\ x \in Instructions /\ g \in Nat \ {0} /\ ai + g <= at
  BY <1>1, <1>4, Follow
<1>8. at + (n - (i + 1)) <= an
  <2>1. n \in 0 .. Len(list) /\ i + 1 \in 0 .. n
    BY <1>5
  <2> QED BY <1>1, <1>4, <2>1, Ascends
<1>9. x.stop => at = ai + g
  <2> HAVE x.stop
  <2>1. ~Loops(x)
    BY DEF Loops
  <2> QED BY <1>7, <2>1 DEF Follows
<1>10. i + 1 = n => at = an
  OBVIOUS
<1>11. \A m \in 1 .. g : w[ai + m] = y[m]
  BY <1>7 DEF Follows
<1> HIDE DEF x, y, g, ai, at, an, n
<1>12. ai + g <= an
  <2>1. n - (i + 1) \in Nat
    BY <1>1
  <2> QED BY <1>6, <1>7, <1>8, <2>1
<1>13. x.stop => ai + g = an
  BY <1>3, <1>9, <1>10 DEF x, n, list
<1> QED BY <1>2, <1>6, <1>11, <1>12, <1>13 DEF Brought, x, y, g, list

LEMMA RepeatingBrings ==
  ASSUME NEW a \in Words, NEW p \in Nat, NEW l, NEW w, Laid(l, List(a), p, w), NEW c, NEW i, NEW k,
         NEW e \in 1 .. Len(List(a)) - 1, NEW j \in 1 .. Len(List(a)), NEW q \in Nat,
         InRepeat(c, a, i, k, l, p, e, j, q)
  PROVE  Brought(List(a)[i + 1], k, p, w)
<1> DEFINE list == List(a)
           n == Len(list)
           x == list[i + 1]
           y == Lines(x, p)
           g == Len(y)
           t == Through(l, list, p, e)
           b == t - l[j].at
           d == (q - 1) * b
           h == l[i].at - l[j].at
           z == l[e - 1].more * b
           ae == l[e].at
           an == l[n].at
<1>1. list \in Seq(Instructions) /\ n \in Nat
  BY ListIs
<1>2. /\ Loops(list[e]) /\ Body(l, list, j, e - 1) /\ i \in j .. e - 1
      /\ q \in 1 .. l[e - 1].more /\ k = t + (d + h)
  BY DEF InRepeat
<1>3. w \in Seq(Int) /\ Len(w) = an
  BY DEF Laid
<1>4. x.stop <=> i + 1 = n
  <2>1. i \in 0 .. n - 1
    BY <1>1, <1>2
  <2> QED BY <2>1, InList
<1> HIDE DEF list
<1>5. Laid(l, list, p, w) /\ e \in 1 .. Len(list) - 1 /\ j \in 1 .. Len(list)
  BY DEF list
<1>6. InBody(l, list, p, w, e, j, i, t, b)
  BY <1>1, <1>2, <1>5, BodyLines
<1>7. /\ t \in Nat /\ z \in Nat /\ ae = t + z /\ h \in Nat
      /\ \A f : f = (q - 1) * b => /\ f \in Nat /\ f + (h + g) <= z
                                  /\ \A m \in 1 .. g : w[t + (f + h) + m] = y[m]
  <2>1. t \in Nat /\ z \in Nat /\ ae = t + z /\ h \in Nat
    BY <1>6 DEF InBody
  <2>2. \A r \in 1 .. l[e - 1].more : \A f : f = (r - 1) * b =>
          /\ f \in Nat
          /\ f + (l[i].at - l[j].at + Len(Lines(list[i + 1], p))) <= l[e - 1].more * b
          /\ \A m \in 1 .. Len(Lines(list[i + 1], p)) :
               w[t + (f + (l[i].at - l[j].at)) + m] = Lines(list[i + 1], p)[m]
    <3> HIDE DEF t, b
    <3> QED BY <1>6 DEF InBody
  <2>3. \A f : f = (q - 1) * b =>
          /\ f \in Nat
          /\ f + (l[i].at - l[j].at + Len(Lines(list[i + 1], p))) <= l[e - 1].more * b
          /\ \A m \in 1 .. Len(Lines(list[i + 1], p)) :
               w[t + (f + (l[i].at - l[j].at)) + m] = Lines(list[i + 1], p)[m]
    <3> HIDE DEF t, b
    <3> QED BY <1>2, <2>2
  <2> QED BY <2>1, <2>3
<1>8. d \in Nat /\ d + (h + g) <= z /\ \A m \in 1 .. g : w[t + (d + h) + m] = y[m]
  BY <1>7
<1>9. e \in 0 .. n /\ n \in 0 .. n /\ i \in 0 .. n - 1 /\ i + 1 # n /\ n - e \in Nat
  BY <1>1, <1>2, <1>5
<1>10. ae \in Nat /\ an \in Nat
  <2> HIDE DEF n
  <2> QED BY <1>1, <1>5, <1>9, PlaceIs DEF n
<1>11. ae + (n - e) <= an
  <2>1. n \in 0 .. Len(list) /\ e \in 0 .. n
    BY <1>9
  <2> QED BY <1>1, <1>5, <2>1, Ascends
<1>12. g \in Nat \ {0}
  BY <1>1, <1>5, <1>9, Follow
<1> HIDE DEF t, b, d, h, z, ae, an, n, g, x
<1>13. k \in Nat /\ k + g <= an
  <2>1. k = t + (d + h) /\ t \in Nat /\ z \in Nat /\ ae = t + z /\ h \in Nat /\ d \in Nat
        /\ g \in Nat /\ an \in Nat /\ d + (h + g) <= z /\ ae <= an
    <3>1. ae <= an
      <4> DEFINE u == n - e
      <4>1. u \in Nat /\ ae + u <= an
        BY <1>9, <1>11
      <4> HIDE DEF u
      <4> QED BY <1>10, <4>1
    <3> QED BY <1>2, <1>7, <1>8, <1>10, <1>12, <3>1
  <2> QED BY <2>1
<1>14. ~x.stop
  BY <1>4, <1>9 DEF x, list, n
<1> QED BY <1>2, <1>3, <1>8, <1>13, <1>14 DEF Brought, x, y, g, list

LEMMA Brings ==
  ASSUME NEW a \in Words, NEW p \in Nat, NEW l, NEW w, Laid(l, List(a), p, w), NEW c, NEW i, NEW k,
         Positioned(c, a, i, k, l, p)
  PROVE  Brought(List(a)[i + 1], k, p, w)
<1>1. i \in 0 .. Len(List(a)) - 1
  BY DEF Positioned
<1>2. CASE Passing(c, a, i, k, l)
  BY <1>1, <1>2, PassingBrings
<1>3. CASE Repeating(c, a, i, k, l, p)
  BY <1>3, RepeatingBrings DEF Repeating
<1> QED BY <1>2, <1>3 DEF Positioned

\* There is a place for the channel in its list after k lines.
Placed(c, a, k, l, p) == \E i \in Nat : Positioned(c, a, i, k, l, p)

\* A REPEAT instruction, and one that is neither that nor the end of a loop.
LEMMA PassingMoves ==
  ASSUME NEW a \in Words, NEW p \in Nat, NEW l, NEW w, Laid(l, List(a), p, w), NEW c \in Channel,
         NEW i \in 0 .. Len(List(a)) - 1, NEW k, NEW v, c.source_address = a + i,
         Passing(c, a, i, k, l), ~List(a)[i + 1].stop, ~Loops(List(a)[i + 1]),
         v = k + Len(Lines(List(a)[i + 1], p))
  PROVE  Placed(Execute(c, List(a)[i + 1]), a, v, l, p)
<1> DEFINE list == List(a)
           n == Len(list)
           x == list[i + 1]
           r == Execute(c, x)
<1>1. /\ list \in Seq(Instructions) /\ n \in Nat /\ i \in 0 .. n - 1
      /\ a \in Nat /\ x \in Instructions
      /\ i + 1 # n /\ (i + 1 < n => Advance(a + i) = a + (i + 1))
  <2>1. list \in Seq(Instructions)
    BY ListIs
  <2>2. x \in Instructions /\ i + 1 # n /\ (i + 1 < n => Advance(a + i) = a + (i + 1))
    BY InList
  <2>3. a \in Nat
    BY WordCount DEF Words
  <2> QED BY <2>1, <2>2, <2>3
<1>2. Laid(l, list, p, w) /\ k = l[i].at /\ v = k + Len(Lines(x, p)) /\ ~x.stop /\ ~Loops(x)
      /\ c.source_address = a + i
  BY DEF Passing
<1>3. Opened(c, a, i, l) \/ Unopened(a, i)
  BY DEF Passing
<1> HIDE DEF list
<1>4. i + 1 \in 0 .. n - 1 /\ i + 1 \in Nat /\ Advance(a + i) = a + (i + 1) /\ i + 1 \in 1 .. n
      /\ i + 1 \in 1 .. i + 1 /\ a + (i + 1) - 1 = a + i /\ 1 .. i + 1 = 1 .. i \cup {i + 1}
  BY <1>1
<1>5. Follows(l[i + 1], l[i], x, p, w)
  BY <1>1, <1>2, Follow
<1>6. v = l[i + 1].at
  BY <1>2, <1>5 DEF Follows
<1>7. x.op # "repeat" => ~x.loop
  BY <1>1, <1>2, InstructionType DEF Loops
<1>8. c.loops \in Nat /\ c \in Channel
  BY DEF Channel
<1> HIDE DEF x, r, n
<1>9. r.source_address = a + (i + 1)
  BY <1>1, <1>2, <1>4, <1>7, <1>8, ExecuteIs DEF r
<1>10. CASE x.op = "repeat"
  <2>1. r.loops = x.n /\ r.loop_address = a + i
    BY <1>1, <1>2, <1>8, <1>10, ExecuteIs DEF r
  <2>2. l[i + 1].more = x.n /\ l[i + 1].first = l[i + 1].at + 1
    BY <1>5, <1>10 DEF Follows
  <2>3. \A m \in (i + 1) + 1 .. i + 1 : FALSE
    BY <1>1
  <2>4. Body(l, list, i + 1, i + 1)
    BY <1>4, <1>10, <2>2, <2>3 DEF Body, x
  <2>5. r.loop_address = a + (i + 1) - 1
    BY <1>4, <2>1
  <2>6. Passing(r, a, i + 1, v, l)
    BY <1>4, <1>6, <2>1, <2>2, <2>4, <2>5 DEF Passing, Opened, list
  <2> QED BY <1>4, <1>9, <2>6 DEF Placed, Positioned, n, list, r, x
<1>11. CASE x.op # "repeat"
  <2>1. r.loops = c.loops /\ r.loop_address = c.loop_address
    BY <1>1, <1>7, <1>8, <1>11, ExecuteIs DEF r
  <2>2. l[i + 1].first = l[i].first /\ l[i + 1].more = l[i].more
    BY <1>2, <1>5, <1>11 DEF Follows
  <2>3. ASSUME NEW j \in 1 .. i, Body(l, list, j, i) PROVE Body(l, list, j, i + 1) /\ j \in 1 .. i + 1
    <3>1. j \in 1 .. i + 1 /\ j + 1 .. i + 1 = (j + 1 .. i) \cup {i + 1}
      BY <1>1
    <3> QED BY <1>2, <1>11, <2>2, <2>3, <3>1 DEF Body, x
  <2>4. CASE Opened(c, a, i, l)
    <3>1. c.loops = l[i].more
          /\ (c.loops > 0 => \E j \in 1 .. i : c.loop_address = a + j - 1 /\ Body(l, list, j, i))
      BY <2>4 DEF Opened, list
    <3>2. r.loops > 0 =>
            \E j \in 1 .. i + 1 : r.loop_address = a + j - 1 /\ Body(l, list, j, i + 1)
      BY <2>1, <2>3, <3>1
    <3>3. r.loops = l[i + 1].more
      BY <2>1, <2>2, <3>1
    <3>4. Passing(r, a, i + 1, v, l)
      BY <1>6, <3>2, <3>3 DEF Passing, Opened, list
    <3> QED BY <1>4, <1>9, <3>4 DEF Placed, Positioned, list, n, r, x
  <2>5. CASE Unopened(a, i)
    <3>1. \A m \in 1 .. i + 1 : list[m].op # "repeat"
      BY <1>4, <1>11, <2>5 DEF x, Unopened, list
    <3>2. Passing(r, a, i + 1, v, l)
      BY <1>6, <2>5, <3>1 DEF Passing, Unopened, list
    <3> QED BY <1>4, <1>9, <3>2 DEF Placed, Positioned, list, n, r, x
  <2> QED BY <1>3, <2>4, <2>5
<1> QED BY <1>10, <1>11

\* The end of a loop whose counter is 0, and one that goes back for the first time.
LEMMA PassingLoops ==
  ASSUME NEW a \in Words, NEW p \in Nat, NEW l, NEW w, Laid(l, List(a), p, w), NEW c \in Channel,
         NEW i \in 0 .. Len(List(a)) - 1, NEW k, NEW v, c.source_address = a + i,
         Passing(c, a, i, k, l), Loops(List(a)[i + 1]), v = k + Len(Lines(List(a)[i + 1], p))
  PROVE  Placed(Execute(c, List(a)[i + 1]), a, v, l, p)
<1> DEFINE list == List(a)
           n == Len(list)
           x == list[i + 1]
           y == Len(Lines(x, p))
           r == Execute(c, x)
           b == v - (l[i].first - 1)
<1>1. /\ list \in Seq(Instructions) /\ n \in Nat /\ i \in 0 .. n - 1
      /\ a \in Nat /\ x \in Instructions /\ (x.stop <=> i + 1 = n)
      /\ i + 1 < n => Advance(a + i) = a + (i + 1)
  BY ListIs, InList, WordCount DEF Words
<1>2. Laid(l, list, p, w) /\ k = l[i].at /\ v = k + y /\ Loops(x) /\ c.source_address = a + i
      /\ (Opened(c, a, i, l) \/ Unopened(a, i))
  BY DEF Passing
<1>3. x.op # "repeat" /\ x.loop /\ ~x.stop
  BY <1>2 DEF Loops
<1>4. c.loops \in Nat /\ c \in Channel
  BY DEF Channel
<1>5. \A j \in 0 .. n - 1 : j + 1 < n => Advance(a + j) = a + (j + 1)
  BY InList
<1> HIDE DEF list
<1>6. i + 1 \in 0 .. n - 1 /\ i + 1 \in Nat /\ Advance(a + i) = a + (i + 1) /\ i + 1 \in 1 .. n
      /\ i + 1 \in 1 .. n - 1 /\ i \in 0 .. n /\ (i + 1) - 1 = i
  BY <1>1, <1>3
<1>7. Follows(l[i + 1], l[i], x, p, w)
  BY <1>1, <1>2, Follow
<1>8. l[i + 1].more = 0 /\ Comes(w, v, b, l[i].more, l[i + 1].at)
  <2>1. l[i + 1].more = 0 /\ Loaded(l[i + 1], l[i], x, p, w)
    BY <1>2, <1>7 DEF Follows
  <2>2. v = l[i].at + Len(Lines(x, p))
    BY <1>2
  <2> QED BY <2>1, <2>2 DEF Loaded
<1> HIDE DEF x, r, n, y, b
<1>9. CASE Unopened(a, i)
  <2>1. PICK j \in 1 .. i : list[j].op = "repeat"
    <3>1. i + 1 \in DOMAIN list
      BY <1>1, <1>6 DEF n
    <3>2. \E j \in 1 .. (i + 1) - 1 : list[j].op = "repeat"
      BY <1>3, <1>9, <3>1 DEF Unopened, Closed, x, list
    <3> QED BY <1>6, <3>2
  <2> QED BY <1>9, <2>1 DEF Unopened, list
<1>10. CASE Opened(c, a, i, l) /\ c.loops = 0
  <2>1. l[i].more = 0
    BY <1>10 DEF Opened
  <2>2. v = l[i + 1].at
    <3>1. b \in Nat /\ l[i + 1].at = v + 0 * b
      BY <1>8, <2>1 DEF Comes
    <3>2. 0 * b = 0
      BY <3>1
    <3>3. l[i].at \in Nat
      BY <1>1, <1>2, <1>6, PlaceIs DEF n
    <3>4. y \in Nat
      BY <1>1, LinesIs DEF y
    <3> QED BY <1>2, <3>1, <3>2, <3>3, <3>4
  <2>3. r.loops = 0 /\ r.source_address = a + (i + 1)
    BY <1>1, <1>2, <1>3, <1>4, <1>6, <1>10, ExecuteIs DEF r
  <2>4. Opened(r, a, i + 1, l)
    BY <1>8, <2>3 DEF Opened
  <2>5. Passing(r, a, i + 1, v, l)
    BY <2>2, <2>4 DEF Passing
  <2> QED BY <1>6, <2>3, <2>5 DEF Placed, Positioned, list, n, r, x
<1>11. CASE Opened(c, a, i, l) /\ c.loops # 0
  <2>1. c.loops > 0
    BY <1>4, <1>11
  <2>2. PICK j \in 1 .. i : c.loop_address = a + j - 1 /\ Body(l, list, j, i)
    BY <1>11, <2>1 DEF Opened, list
  <2>3. j \in 0 .. n - 1 /\ Advance(a + j - 1) = a + j /\ j \in Nat /\ j \in 1 .. n
    <3>1. j \in Nat /\ j - 1 \in 0 .. n - 1 /\ (j - 1) + 1 < n /\ (j - 1) + 1 = j /\ j \in 0 .. n - 1
          /\ a + (j - 1) = a + j - 1 /\ j \in 1 .. n
      BY <1>1, <1>6
    <3> QED BY <1>5, <3>1
  <2>4. r.loops = c.loops - 1 /\ r.loop_address = a + j - 1 /\ r.source_address = a + j
    BY <1>1, <1>3, <1>4, <2>1, <2>2, <2>3, ExecuteIs DEF r
  <2>5. c.loops = l[i].more
    BY <1>11 DEF Opened
  <2> DEFINE e == i + 1
             t == Through(l, list, p, e)
             aj == l[j].at
  <2>6. t = v
    BY <1>2, <1>6 DEF Through, y, x
  <2>7. l[i].at \in Nat /\ y \in Nat /\ aj \in Nat
    <3>1. j \in 0 .. n
      BY <2>3
    <3>2. y \in Nat
      BY <1>1, LinesIs DEF y
    <3> QED BY <1>1, <1>2, <1>6, <3>1, <3>2, PlaceIs DEF n
  <2>8. ASSUME NEW f, NEW d, f = t - aj, d = (1 - 1) * f
        PROVE  v = t + (d + (aj - aj))
    <3>1. v \in Nat
      <4>1. k \in Nat /\ y \in Nat /\ v = k + y
        BY <1>2, <2>7
      <4> HIDE DEF t, aj, e
      <4> QED BY <4>1
    <3> HIDE DEF t, aj
    <3>2. f \in Int
      BY <2>6, <2>7, <2>8, <3>1
    <3>3. d = 0
      BY <2>8, <3>2
    <3>4. aj - aj = 0
      BY <2>7
    <3> QED BY <2>6, <3>1, <3>3, <3>4
  <2>9. InRepeat(r, a, j, v, l, p, e, j, 1)
    <3>1. j \in j .. e - 1 /\ 1 \in 1 .. l[e - 1].more /\ e - 1 = i
      BY <1>4, <1>6, <2>1, <2>3, <2>5
    <3>2. r.loops = l[e - 1].more - 1
      BY <2>4, <2>5, <3>1
    <3>3. Loops(list[e]) /\ Body(l, list, j, e - 1)
      BY <1>2, <2>2, <3>1 DEF x
    <3>4. \A f, d : f = Through(l, List(a), p, e) - l[j].at /\ d = (1 - 1) * f
                    => v = Through(l, List(a), p, e) + (d + (l[j].at - l[j].at))
      BY <2>8 DEF list
    <3> HIDE DEF e, t, aj
    <3> QED BY <2>4, <3>1, <3>2, <3>3, <3>4 DEF InRepeat, list
  <2>10. Repeating(r, a, j, v, l, p)
    <3>1. e \in 1 .. n - 1 /\ 1 \in Nat
      BY <1>6
    <3> HIDE DEF e
    <3> QED BY <2>3, <2>9, <3>1 DEF Repeating, list, n
  <2> QED BY <2>3, <2>4, <2>10 DEF Placed, Positioned, list, n, r, x
<1> QED BY <1>2, <1>9, <1>10, <1>11

\* Inside the body of a loop that repeats.
LEMMA RepeatingMoves ==
  ASSUME NEW a \in Words, NEW p \in Nat, NEW l, NEW w, Laid(l, List(a), p, w), NEW c \in Channel,
         NEW i, NEW k, NEW v, c.source_address = a + i, v = k + Len(Lines(List(a)[i + 1], p)),
         NEW e \in 1 .. Len(List(a)) - 1, NEW j \in 1 .. Len(List(a)), NEW q \in Nat,
         InRepeat(c, a, i, k, l, p, e, j, q)
  PROVE  Placed(Execute(c, List(a)[i + 1]), a, v, l, p)
<1> DEFINE list == List(a)
           n == Len(list)
           x == list[i + 1]
           y == Len(Lines(x, p))
           r == Execute(c, x)
           t == Through(l, list, p, e)
           aj == l[j].at
           ai == l[i].at
           b == t - aj
           d == (q - 1) * b
           h == ai - aj
           more == l[e - 1].more
           z == more * b
<1>1. /\ Loops(list[e]) /\ Body(l, list, j, e - 1) /\ i \in j .. e - 1
      /\ c.loop_address = a + j - 1 /\ q \in 1 .. more /\ c.loops = more - q
      /\ k = t + (d + h) /\ v = k + y /\ c.source_address = a + i
  BY DEF InRepeat
<1>2. list \in Seq(Instructions) /\ n \in Nat /\ a \in Nat /\ Laid(l, list, p, w) /\ j \in 1 .. n
      /\ e \in 1 .. n - 1
  BY ListIs, WordCount DEF Words
<1>3. \A m \in 0 .. n - 1 : m + 1 < n => Advance(a + m) = a + (m + 1)
  BY InList
<1>4. c.loops \in Nat /\ c \in Channel
  BY DEF Channel
<1> HIDE DEF list
<1>5. InBody(l, list, p, w, e, j, i, t, b)
  <2>1. e \in 1 .. Len(list) - 1 /\ j \in 1 .. Len(list)
    BY <1>2
  <2> QED BY <1>1, <1>2, <2>1, BodyLines
<1>6. /\ t \in Nat /\ b \in Nat \ {0} /\ z \in Nat /\ l[e].at = t + z /\ l[e].more = 0 /\ h \in Nat
  BY <1>5 DEF InBody
<1>7. i + 1 = e => ai + y = t
  BY <1>5 DEF InBody
<1>8. i + 1 < e => l[i + 1].at = ai + y
  BY <1>5 DEF InBody
<1>9. d \in Nat
  <2>1. \A f : f = (q - 1) * b => f \in Nat
    <3> HIDE DEF t, b
    <3> QED BY <1>1, <1>5 DEF InBody
  <2> QED BY <2>1
<1>10. i + 1 \in 1 .. n - 1 /\ i \in 0 .. n - 1 /\ i + 1 < n /\ i + 1 \in Nat /\ i \in Nat
       /\ i + 1 <= e /\ i \in 0 .. n /\ j \in 0 .. n - 1 /\ j \in 0 .. n /\ (j - 1) + 1 = j
       /\ (j - 1) \in 0 .. n - 1 /\ j < n /\ a + (j - 1) = a + j - 1 /\ e - 1 \in 0 .. n
       /\ i + 1 \in 0 .. n - 1
  <2>1. i \in j .. e - 1 /\ n \in Nat /\ a \in Nat /\ j \in 1 .. n /\ e \in 1 .. n - 1
    BY <1>1, <1>2
  <2> HIDE DEF n
  <2>2. j \in Nat /\ e \in Nat /\ i \in Nat /\ j >= 1 /\ j <= i /\ i <= e - 1 /\ e <= n - 1
    BY <2>1
  <2> QED BY <2>1, <2>2
<1>11. ai \in Nat /\ aj \in Nat /\ more \in Nat
  BY <1>2, <1>10, PlaceIs DEF n
<1>12. x \in Instructions /\ y \in Nat
  <2>1. x \in Instructions
    BY <1>10, InList DEF list, n
  <2> HIDE DEF x
  <2> QED BY <2>1, LinesIs
<1>13. Advance(a + i) = a + (i + 1) /\ Advance(a + j - 1) = a + j
  <2> HIDE DEF n
  <2> QED BY <1>3, <1>10
<1> HIDE DEF n, x, y, r, t, aj, ai, more
<1>14. CASE i + 1 < e
  <2>1. i + 1 \in j + 1 .. e - 1 /\ i + 1 \in j .. e - 1
    <3> HIDE DEF b, d, h, z
    <3> QED BY <1>1, <1>2, <1>14
  <2>2. x.op # "repeat" /\ ~Loops(x)
    BY <1>1, <2>1 DEF Body, x
  <2>3. ~x.loop
    <3>1. ~x.stop
      <4>1. x.stop <=> i + 1 = n
        BY <1>10, InList DEF x, n, list
      <4> QED BY <1>10, <4>1
    <3> QED BY <2>2, <3>1, <1>12, InstructionType DEF Loops
  <2>4. r.loops = c.loops /\ r.loop_address = c.loop_address /\ r.source_address = a + (i + 1)
    BY <1>1, <1>4, <1>12, <1>13, <2>2, <2>3, ExecuteIs DEF r
  <2>5. v = t + (d + (l[i + 1].at - aj))
    <3> DEFINE at == l[i + 1].at
    <3>1. at = ai + y
      BY <1>8, <1>14
    <3> HIDE DEF at, d
    <3>2. k = t + (d + (ai - aj)) /\ v = k + y /\ t \in Nat /\ d \in Nat
      BY <1>1, <1>6, <1>9
    <3> HIDE DEF b, h, z
    <3>3. v = t + (d + (at - aj))
      BY <1>11, <1>12, <3>1, <3>2
    <3> QED BY <3>3 DEF at
  <2>6. ASSUME NEW f, NEW g, f = t - aj, g = (q - 1) * f
        PROVE  v = t + (g + (l[i + 1].at - aj))
    BY <2>5, <2>6
  <2>7. InRepeat(r, a, i + 1, v, l, p, e, j, q)
    <3> HIDE DEF b, d, h, z
    <3>1. \A f, g : f = Through(l, List(a), p, e) - l[j].at /\ g = (q - 1) * f
                    => v = Through(l, List(a), p, e) + (g + (l[i + 1].at - l[j].at))
      BY <2>6 DEF t, aj, list
    <3> QED BY <1>1, <2>1, <2>4, <3>1 DEF InRepeat, list, more
  <2>8. Repeating(r, a, i + 1, v, l, p)
    BY <1>2, <2>7 DEF Repeating, list, n
  <2> HIDE DEF b, d, h, z
  <2> QED BY <1>10, <2>4, <2>8 DEF Placed, Positioned, list, n, r, x
<1>15. CASE i + 1 = e
  <2>1. x = list[e] /\ Loops(x)
    BY <1>1, <1>15 DEF x
  <2>2. x.op # "repeat" /\ x.loop
    BY <2>1 DEF Loops
  <2>3. v = t + (d + b)
    <3>1. h + y = b
      BY <1>7, <1>11, <1>12, <1>15
    <3>2. k = t + (d + h) /\ v = k + y /\ t \in Nat /\ d \in Nat /\ h \in Nat
      BY <1>1, <1>6, <1>9
    <3>3. y \in Nat
      BY <1>12
    <3> HIDE DEF d, b, h, z
    <3>4. t + (d + h) + y = t + (d + (h + y))
      BY <3>2, <3>3, Sums
    <3> QED BY <3>1, <3>2, <3>4
  <2> DEFINE f1 == q * b
  <2>4. d + b = f1
    <3> DEFINE u == q - 1
    <3>1. u \in Nat /\ q = u + 1 /\ b \in Nat
      BY <1>1, <1>6, <1>11
    <3> HIDE DEF b, u, z, h
    <3>2. u * b + b = (u + 1) * b
      BY <3>1
    <3> QED BY <3>1, <3>2 DEF u
  <2> HIDE DEF d, b, h, f1
  <2>5. CASE q = more
    <3>1. c.loops = 0
      BY <1>1, <1>11, <2>5
    <3>2. r.loops = 0 /\ r.source_address = a + (i + 1)
      <4>1. r.loops = c.loops /\ r.source_address = Advance(c.source_address)
        BY <1>4, <1>12, <2>2, <3>1, ExecuteIs DEF r
      <4> QED BY <1>1, <1>13, <3>1, <4>1
    <3>3. v = l[i + 1].at
      <4>1. f1 = z
        BY <2>5 DEF f1
      <4> QED BY <1>6, <1>15, <2>3, <2>4, <4>1
    <3>4. Opened(r, a, i + 1, l)
      BY <1>6, <1>15, <3>2 DEF Opened
    <3>5. Passing(r, a, i + 1, v, l)
      BY <3>3, <3>4 DEF Passing
    <3> QED BY <1>10, <3>2, <3>5 DEF Placed, Positioned, list, n, r, x
  <2>6. CASE q # more
    <3>1. c.loops > 0 /\ q + 1 \in 1 .. more /\ (q + 1) - 1 = q /\ c.loops - 1 = more - (q + 1)
          /\ q + 1 \in Nat
      BY <1>1, <1>11, <2>6
    <3>2. r.loops = more - (q + 1) /\ r.loop_address = a + j - 1 /\ r.source_address = a + j
      BY <1>1, <1>4, <1>12, <1>13, <2>2, <3>1, ExecuteIs DEF r
    <3>3. ASSUME NEW f, NEW g, f = t - aj, g = ((q + 1) - 1) * f
          PROVE  v = t + (g + (aj - aj))
      <4>1. f = b
        BY <3>3 DEF b
      <4>2. g = q * b
        BY <3>1, <3>3, <4>1
      <4>3. g = f1 /\ f1 \in Nat
        <5>1. d + b \in Nat
          BY <1>6, <1>9
        <5> QED BY <4>2, <5>1, <2>4 DEF f1
      <4> QED BY <1>6, <1>11, <2>3, <2>4, <4>3
    <3>4. InRepeat(r, a, j, v, l, p, e, j, q + 1)
      <4>1. \A f, g : f = Through(l, List(a), p, e) - l[j].at /\ g = ((q + 1) - 1) * f
                      => v = Through(l, List(a), p, e) + (g + (l[j].at - l[j].at))
        BY <3>3 DEF t, aj, list
      <4>2. j \in j .. e - 1
        BY <1>1, <1>2
      <4> QED BY <1>1, <3>1, <3>2, <4>1, <4>2 DEF InRepeat, list, more
    <3>5. Repeating(r, a, j, v, l, p)
      BY <1>2, <3>1, <3>4 DEF Repeating, list, n
    <3>6. j \in Nat
      BY <1>10
    <3> QED BY <1>10, <3>2, <3>5, <3>6 DEF Placed, Positioned, list, n, r, x
  <2> QED BY <2>5, <2>6
<1> QED
  <2>1. i + 1 < e \/ i + 1 = e
    <3> HIDE DEF b, d, h, z
    <3> QED BY <1>2, <1>10
  <2> QED BY <1>14, <1>15, <2>1

LEMMA Moves ==
  ASSUME NEW a \in Words, NEW p \in Nat, NEW l, NEW w, Laid(l, List(a), p, w), NEW c \in Channel,
         NEW i, NEW k, NEW v, Positioned(c, a, i, k, l, p), ~List(a)[i + 1].stop,
         v = k + Len(Lines(List(a)[i + 1], p))
  PROVE  Placed(Execute(c, List(a)[i + 1]), a, v, l, p)
<1>1. i \in 0 .. Len(List(a)) - 1 /\ c.source_address = a + i
  BY DEF Positioned
<1>2. CASE Passing(c, a, i, k, l) /\ Loops(List(a)[i + 1])
  BY <1>1, <1>2, PassingLoops
<1>3. CASE Passing(c, a, i, k, l) /\ ~Loops(List(a)[i + 1])
  BY <1>1, <1>3, PassingMoves
<1>4. CASE Repeating(c, a, i, k, l, p)
  BY <1>1, <1>4, RepeatingMoves DEF Repeating
<1> QED BY <1>2, <1>3, <1>4 DEF Positioned

(***************************************************************************)
(* Pauses: how many silent lines are left.                                 *)
(***************************************************************************)
\* n periods of p + 1 lines and one more.
LEMMA OneMore ==
  ASSUME NEW u \in Nat, NEW p \in Nat
  PROVE  (u + 1) * (p + 1) = u * (p + 1) + (p + 1) /\ u * (p + 1) \in Nat
<1> DEFINE v == p + 1
<1>1. v \in Nat
  OBVIOUS
<1> HIDE DEF v
<1>2. (u + 1) * v = u * v + v /\ u * v \in Nat
  BY <1>1
<1> QED BY <1>2 DEF v

LEMMA RestIs ==
  ASSUME NEW c \in Channel
  PROVE  /\ c.pause_ticks = 0 => Rest(c) = 0
         /\ c.pause_ticks > 0 /\ c.tick_cycles < c.prescaler =>
              Rest(c) = (c.prescaler - c.tick_cycles) + 1
                        + (c.pause_ticks - 1) * (c.prescaler + 1)
         /\ c.pause_ticks > 0 /\ ~(c.tick_cycles < c.prescaler) =>
              Rest(c) = 1 + (c.pause_ticks - 1) * (c.prescaler + 1)
         /\ c.pause_ticks \in Nat /\ c.prescaler \in Nat /\ c.tick_cycles \in Nat
         /\ Rest(c) \in Nat /\ (c.pause_ticks > 0 => Rest(c) > 0)
<1> DEFINE p == c.prescaler
           t == c.tick_cycles
           n == c.pause_ticks
           z == (n - 1) * (p + 1)
           m == Max({p - t, 0})
<1>1. p \in Nat /\ t \in Nat /\ n \in Nat
  BY DEF Channel
<1>2. m = IF t < p THEN p - t ELSE 0
  <2> DEFINE u == p - t
  <2>1. u \in Int /\ (t < p => u > 0) /\ (~(t < p) => u <= 0)
    BY <1>1
  <2> HIDE DEF u
  <2> DEFINE v == IF u > 0 THEN u ELSE 0
             Top(x) == x \in {u, 0} /\ \A y \in {u, 0} : x >= y
  <2>2. Top(v) /\ \A x : Top(x) => x = v
    BY <2>1
  <2>3. m = CHOOSE x \in {u, 0} : \A y \in {u, 0} : x >= y
    BY DEF u, Max
  <2>4. m = CHOOSE x : Top(x)
    BY <2>3
  <2> HIDE DEF Top
  <2>5. Top(m)
    BY <2>2, <2>4
  <2>6. m = v
    BY <2>2, <2>5
  <2> QED BY <2>1, <2>6 DEF u
<1>3. Rest(c) = IF n = 0 THEN 0 ELSE m + 1 + z
  BY DEF Rest
<1>4. n > 0 => z \in Nat
  <2> HAVE n > 0
  <2>1. n - 1 \in Nat /\ p + 1 \in Nat
    BY <1>1
  <2> QED BY <2>1
<1> HIDE DEF z, m, n, t, p
<1>5. /\ n = 0 => Rest(c) = 0
      /\ n > 0 /\ t < p => Rest(c) = (p - t) + 1 + z
      /\ n > 0 /\ ~(t < p) => Rest(c) = 1 + z
  BY <1>1, <1>2, <1>3, <1>4
<1>6. Rest(c) \in Nat /\ (n > 0 => Rest(c) > 0)
  BY <1>1, <1>2, <1>3, <1>4
<1> QED BY <1>1, <1>5, <1>6 DEF n, t, p, z

LEMMA PauseIs ==
  ASSUME NEW c \in Channel, c.pause_ticks > 0
  PROVE  /\ Rest(Pause(c)) = Rest(c) - 1 /\ Rest(c) \in Nat \ {0}
         /\ Pause(c).prescaler = c.prescaler /\ Pause(c).loops = c.loops
         /\ Pause(c).source_address = c.source_address /\ Pause(c).loop_address = c.loop_address
<1> DEFINE p == c.prescaler
           t == c.tick_cycles
           n == c.pause_ticks
           r == Pause(c)
<1>1. p \in Nat /\ t \in Nat /\ n \in Nat \ {0} /\ Rest(c) \in Nat \ {0}
  BY RestIs
<1>2. r \in Channel
  BY PauseOK
<1>3. /\ r.prescaler = p /\ r.loops = c.loops
      /\ r.source_address = c.source_address /\ r.loop_address = c.loop_address
  BY DEF Pause, Channel
<1>4. CASE t < p
  <2> DEFINE z == (n - 1) * (p + 1)
  <2>1. r.tick_cycles = t + 1 /\ r.pause_ticks = n
    BY <1>4 DEF Pause, Channel
  <2>2. Rest(c) = (p - t) + 1 + z
    BY <1>1, <1>4, RestIs
  <2>3. z \in Nat
    <3>1. n - 1 \in Nat /\ p + 1 \in Nat
      BY <1>1
    <3> QED BY <3>1
  <2>4. CASE t + 1 < p
    <3>1. Rest(r) = (p - (t + 1)) + 1 + z
      <4>1. r.pause_ticks > 0 /\ r.tick_cycles < r.prescaler
        BY <1>1, <1>3, <2>1, <2>4
      <4> QED BY <1>2, <1>3, <2>1, <4>1, RestIs
    <3> HIDE DEF z, r, t, p, n
    <3>2. Rest(r) = Rest(c) - 1
      BY <1>1, <2>2, <2>3, <3>1
    <3> QED BY <1>1, <1>3, <3>2 DEF r, p
  <2>5. CASE ~(t + 1 < p)
    <3>1. Rest(r) = 1 + z
      <4>1. r.pause_ticks > 0 /\ ~(r.tick_cycles < r.prescaler)
        BY <1>1, <1>3, <2>1, <2>5
      <4> QED BY <1>2, <1>3, <2>1, <4>1, RestIs
    <3> HIDE DEF z, r, t, p, n
    <3>2. Rest(r) = Rest(c) - 1
      BY <1>1, <1>4, <2>2, <2>3, <2>5, <3>1
    <3> QED BY <1>1, <1>3, <3>2 DEF r, p
  <2> QED BY <2>4, <2>5
<1>5. CASE ~(t < p)
  <2> DEFINE z == (n - 1) * (p + 1)
             z2 == ((n - 1) - 1) * (p + 1)
  <2>1. r.tick_cycles = 0 /\ r.pause_ticks = n - 1
    BY <1>5 DEF Pause, Channel
  <2>2. Rest(c) = 1 + z
    BY <1>1, <1>5, RestIs
  <2>3. CASE n = 1
    <3>1. Rest(r) = 0
      <4>1. r.pause_ticks = 0
        BY <2>1, <2>3
      <4> QED BY <1>2, <4>1, RestIs
    <3>2. z = 0
      BY <1>1, <2>3
    <3> HIDE DEF z, r, t, p, n
    <3>3. Rest(r) = Rest(c) - 1
      BY <2>2, <3>1, <3>2
    <3> QED BY <1>1, <1>3, <3>3 DEF r, p
  <2>4. CASE n # 1
    <3>1. z = z2 + (p + 1)
      <4> DEFINE u == (n - 1) - 1
      <4>1. u \in Nat /\ n - 1 = u + 1
        BY <1>1, <2>4
      <4> HIDE DEF u
      <4>2. (u + 1) * (p + 1) = u * (p + 1) + (p + 1)
        BY <1>1, <4>1, OneMore
      <4> QED BY <4>1, <4>2 DEF u
    <3>2. z2 \in Nat
      <4>1. (n - 1) - 1 \in Nat /\ p + 1 \in Nat
        BY <1>1, <2>4
      <4> QED BY <4>1
    <3>3. Rest(r) = (p + 1) + z2
      <4>1. r.pause_ticks > 0 /\ r.tick_cycles \in Nat /\ n - 1 > 0
        BY <1>1, <2>1, <2>4
      <4>2. CASE 0 < p
        <5>1. Rest(r) = (p - 0) + 1 + z2
          <6>1. r.tick_cycles < r.prescaler
            BY <1>3, <2>1, <4>2
          <6> QED BY <1>2, <1>3, <2>1, <4>1, <6>1, RestIs
        <5> HIDE DEF z2, r, p
        <5> QED BY <1>1, <5>1, <3>2
      <4>3. CASE ~(0 < p)
        <5>1. p = 0
          BY <1>1, <4>3
        <5>2. Rest(r) = 1 + z2
          <6>1. ~(r.tick_cycles < r.prescaler)
            BY <1>3, <2>1, <4>3
          <6> QED BY <1>2, <1>3, <2>1, <4>1, <6>1, RestIs
        <5> HIDE DEF z2, r, p
        <5> QED BY <1>1, <3>2, <5>1, <5>2
      <4> QED BY <4>2, <4>3
    <3> HIDE DEF z, z2, r, t, p, n
    <3>4. Rest(r) = Rest(c) - 1
      BY <1>1, <2>2, <3>1, <3>2, <3>3
    <3> QED BY <1>1, <1>3, <3>4 DEF r, p
  <2> QED BY <2>3, <2>4
<1> QED BY <1>4, <1>5

\* An instruction begins a pause as long as the lines it brings after the first.
LEMMA ExecuteRest ==
  ASSUME NEW c \in Channel, c.pause_ticks = 0, NEW x \in Instructions
  PROVE  /\ Rest(Execute(c, x)) = Len(Lines(x, c.prescaler)) - 1
         /\ Execute(c, x).prescaler = c.prescaler /\ Execute(c, x) \in Channel
<1> DEFINE r == Execute(c, x)
           p == c.prescaler
           y == Len(Lines(x, p))
<1>1. /\ x.op \in {"load", "pause", "repeat", "control"} /\ x.n \in Nat
      /\ x.loop \in BOOLEAN /\ x.int \in BOOLEAN /\ x.stop \in BOOLEAN
  BY InstructionType
<1>2. r \in Channel
  BY <1>1, ExecuteOK
<1>3. p \in Nat
  BY DEF Channel
<1>4. y = IF x.op = "pause" THEN 1 + x.n * (p + 1) ELSE 1
  BY <1>3, LinesIs
<1>5. /\ r.prescaler = p
      /\ r.pause_ticks = IF x.op = "pause" THEN x.n ELSE 0
      /\ x.op = "pause" => r.tick_cycles = 0
  <2>1. CASE x.op = "load"
    <3>1. r = [c EXCEPT !.source_address = Advance(@)]
      BY <2>1 DEF Execute
    <3> QED BY <2>1, <3>1 DEF Channel
  <2>2. CASE x.op = "pause"
    <3> DEFINE d == [c EXCEPT !.pause_ticks = x.n, !.tick_cycles = 0]
    <3>1. r = [d EXCEPT !.source_address = Advance(@)]
      BY <2>2 DEF Execute
    <3>2. d \in Channel /\ d.prescaler = p /\ d.pause_ticks = x.n /\ d.tick_cycles = 0
      BY <1>1 DEF Channel
    <3> HIDE DEF d
    <3> QED BY <2>2, <3>1, <3>2 DEF Channel
  <2>3. CASE x.op = "repeat"
    <3> DEFINE d == [c EXCEPT !.loops = x.n, !.loop_address = c.source_address]
    <3>1. r = [d EXCEPT !.source_address = Advance(@)]
      BY <2>3 DEF Execute
    <3>2. d \in Channel /\ d.prescaler = p /\ d.pause_ticks = 0
      BY <1>1 DEF Channel
    <3> HIDE DEF d
    <3> QED BY <2>3, <3>1, <3>2 DEF Channel
  <2>4. CASE x.op = "control"
    <3> DEFINE looped == IF x.loop THEN Loop(c) ELSE c
               d == [looped EXCEPT !.interrupt = @ \/ x.int, !.enabled = @ /\ ~Stops(x)]
    <3>1. r = [d EXCEPT !.source_address = Advance(@)]
      BY <2>4 DEF Execute
    <3>2. looped \in Channel /\ looped.prescaler = p /\ looped.pause_ticks = 0
      <4>1. c.loops > 0 => c.loops - 1 \in Nat
        BY DEF Channel
      <4> QED BY <4>1 DEF Loop, Channel
    <3>3. (looped.interrupt \/ x.int) \in BOOLEAN /\ (looped.enabled /\ ~Stops(x)) \in BOOLEAN
      OBVIOUS
    <3> HIDE DEF looped
    <3>4. d \in Channel /\ d.prescaler = p /\ d.pause_ticks = 0
      BY <3>2, <3>3 DEF Channel
    <3> HIDE DEF d
    <3> QED BY <2>4, <3>1, <3>4 DEF Channel
  <2> QED BY <1>1, <2>1, <2>2, <2>3, <2>4
<1> HIDE DEF r, y
<1>6. Rest(r) = y - 1
  <2>1. CASE r.pause_ticks = 0
    <3>1. Rest(r) = 0
      BY <1>2, <2>1, RestIs
    <3>2. y = 1
      <4>1. CASE x.op = "pause"
        <5>1. x.n = 0 /\ 0 * (p + 1) = 0
          BY <1>3, <1>5, <2>1, <4>1
        <5> QED BY <1>4, <4>1, <5>1
      <4> QED BY <1>4, <4>1
    <3> QED BY <3>1, <3>2
  <2>2. CASE r.pause_ticks # 0
    <3>1. x.op = "pause" /\ r.pause_ticks = x.n /\ r.tick_cycles = 0 /\ x.n > 0
      BY <1>1, <1>5, <2>2
    <3> DEFINE z == (x.n - 1) * (p + 1)
               z2 == x.n * (p + 1)
    <3>2. z2 = z + (p + 1) /\ z \in Nat
      <4> DEFINE u == x.n - 1
      <4>1. u \in Nat /\ x.n = u + 1
        BY <1>1, <3>1
      <4> HIDE DEF u
      <4>2. (u + 1) * (p + 1) = u * (p + 1) + (p + 1) /\ u * (p + 1) \in Nat
        BY <1>3, <4>1, OneMore
      <4> QED BY <4>1, <4>2 DEF u
    <3>3. Rest(r) = (p + 1) + z
      <4>1. CASE 0 < p
        <5>1. Rest(r) = (p - 0) + 1 + z
          BY <1>2, <1>5, <3>1, <4>1, RestIs
        <5> HIDE DEF z, p
        <5> QED BY <1>3, <3>2, <5>1
      <4>2. CASE ~(0 < p)
        <5>1. p = 0
          BY <1>3, <4>2
        <5>2. Rest(r) = 1 + z
          BY <1>2, <1>5, <3>1, <4>2, RestIs
        <5> HIDE DEF z, p
        <5> QED BY <3>2, <5>1, <5>2
      <4> QED BY <4>1, <4>2
    <3>4. y = 1 + z2
      BY <1>4, <3>1
    <3> HIDE DEF z, z2, p
    <3> QED BY <1>3, <3>2, <3>3, <3>4
  <2> QED BY <2>1, <2>2
<1> QED BY <1>2, <1>5, <1>6 DEF r, y

(***************************************************************************)
(* What a channel still has to play is in ahead: the rest of a pause, then *)
(* what follows its place in its list.                                     *)
(***************************************************************************)
Following(c, ahead, a, k, p, w) ==
  /\ Placed(c, a, k, Plan(List(a), p), p)
  /\ Len(ahead) = Rest(c) + (Len(w) - k)
  /\ \A m \in 1 .. Rest(c) : ahead[m] = Silent
  /\ \A m \in 1 .. Len(w) - k : ahead[Rest(c) + m] = w[k + m]
Left(c, ahead) ==
  /\ ahead \in Seq(Int)
  /\ \E a \in Words, k \in Nat :
       Following(c, ahead, a, k, c.prescaler, Unrolled(List(a), c.prescaler))

History == [ahead : Seq(Int), checked : BOOLEAN, right : BOOLEAN]
Told(c, h) == h \in History /\ h.right /\ (h.checked => Left(c, h.ahead))

\* The place of a channel is in its addresses and its counter.
LEMMA SamePlace ==
  ASSUME NEW c, NEW d, NEW a, NEW k, NEW l, NEW p, Placed(c, a, k, l, p),
         d.source_address = c.source_address, d.loop_address = c.loop_address, d.loops = c.loops
  PROVE  Placed(d, a, k, l, p)
<1>1. PICK i \in Nat : Positioned(c, a, i, k, l, p)
  BY DEF Placed
<1>2. CASE Passing(c, a, i, k, l)
  <2>1. Passing(d, a, i, k, l)
    BY <1>2 DEF Passing, Opened
  <2> QED BY <1>1, <2>1 DEF Placed, Positioned
<1>3. CASE Repeating(c, a, i, k, l, p)
  <2>1. PICK e \in 1 .. Len(List(a)) - 1, j \in 1 .. Len(List(a)) : \E q \in Nat :
          InRepeat(c, a, i, k, l, p, e, j, q)
    BY <1>3 DEF Repeating
  <2>2. PICK q \in Nat : InRepeat(c, a, i, k, l, p, e, j, q)
    BY <2>1
  <2>3. InRepeat(d, a, i, k, l, p, e, j, q)
    BY <2>2 DEF InRepeat
  <2>4. Repeating(d, a, i, k, l, p)
    BY <2>3 DEF Repeating
  <2> QED BY <1>1, <2>4 DEF Placed, Positioned
<1> QED BY <1>1, <1>2, <1>3 DEF Positioned

LEMMA TailIs ==
  ASSUME NEW s \in Seq(Int), Len(s) > 0
  PROVE  /\ s # <<>> /\ Tail(s) \in Seq(Int) /\ Len(Tail(s)) = Len(s) - 1
         /\ \A m \in 1 .. Len(s) - 1 : Tail(s)[m] = s[m + 1]
OBVIOUS

\* A place in a list has the instruction of the channel and its lines before it.
LEMMA PlacedBrings ==
  ASSUME NEW a \in Words, NEW c \in Channel, NEW k, NEW p \in Nat,
         Placed(c, a, k, Plan(List(a), p), p), NEW v, v = k + Len(Lines(Fetch(c), p))
  PROVE  /\ Fetch(c) \in Instructions
         /\ Brought(Fetch(c), k, p, Unrolled(List(a), p))
         /\ ~Fetch(c).stop => Placed(Execute(c, Fetch(c)), a, v, Plan(List(a), p), p)
<1> DEFINE list == List(a)
           l == Plan(list, p)
           w == Unrolled(list, p)
<1>1. Laid(l, list, p, w)
  BY ListIs, PlanIs
<1>2. PICK i \in Nat : Positioned(c, a, i, k, l, p)
  BY DEF Placed
<1>3. i \in 0 .. Len(list) - 1 /\ c.source_address = a + i
  BY <1>2 DEF Positioned
<1>4. Fetch(c) = list[i + 1] /\ list[i + 1] \in Instructions
  BY <1>3, InList DEF Fetch
<1> HIDE DEF l, w
<1>5. Brought(list[i + 1], k, p, w)
  BY <1>1, <1>2, Brings
<1>6. ~list[i + 1].stop => Placed(Execute(c, list[i + 1]), a, v, l, p)
  BY <1>1, <1>2, <1>4, Moves
<1> QED BY <1>4, <1>5, <1>6 DEF l, w

LEMMA PauseLeft ==
  ASSUME NEW c \in Channel, c.pause_ticks > 0, NEW ahead, Left(c, ahead)
  PROVE  /\ ahead # <<>> /\ ahead[1] = Silent /\ Len(ahead) # 1
         /\ Left(Pause(c), Tail(ahead))
<1> DEFINE p == c.prescaler
           r == Pause(c)
           rest == Rest(c)
           left == Rest(r)
<1>1. PICK a \in Words, k \in Nat : Following(c, ahead, a, k, p, Unrolled(List(a), p))
  BY DEF Left
<1> DEFINE w == Unrolled(List(a), p)
           z == Len(w)
           l == Plan(List(a), p)
           y == Len(Lines(Fetch(c), p))
           s == Tail(ahead)
<1>2. p \in Nat
  BY DEF Channel
<1>3. /\ left = rest - 1 /\ rest \in Nat \ {0} /\ r.prescaler = p /\ r.loops = c.loops
      /\ r.source_address = c.source_address /\ r.loop_address = c.loop_address
  BY PauseIs
<1>4. Placed(c, a, k, l, p) /\ Len(ahead) = rest + (z - k)
      /\ (\A m \in 1 .. rest : ahead[m] = Silent)
      /\ \A m \in 1 .. z - k : ahead[rest + m] = w[k + m]
  BY <1>1 DEF Following
<1>5. Fetch(c) \in Instructions /\ Brought(Fetch(c), k, p, w)
  BY <1>2, <1>4, PlacedBrings
<1>6. y \in Nat \ {0} /\ k + y <= z /\ z \in Nat
  BY <1>2, <1>5, LinesIs DEF Brought
<1>7. Placed(r, a, k, l, p)
  <2> HIDE DEF r, l, p
  <2> QED BY <1>3, <1>4, SamePlace
<1> HIDE DEF p, r, rest, left, w, z, l, y
<1>8. Len(ahead) > 1 /\ 1 \in 1 .. rest
  BY <1>3, <1>4, <1>6
<1>9. ahead \in Seq(Int)
  BY DEF Left
<1>10. ahead # <<>> /\ s \in Seq(Int) /\ Len(s) = Len(ahead) - 1
       /\ \A m \in 1 .. Len(ahead) - 1 : s[m] = ahead[m + 1]
  BY <1>8, <1>9, TailIs
<1> HIDE DEF s
<1>11. Len(s) = left + (z - k)
  BY <1>3, <1>4, <1>6, <1>10
<1>12. ASSUME NEW m \in 1 .. left PROVE s[m] = Silent
  <2>1. m + 1 \in 1 .. rest /\ m \in 1 .. Len(ahead) - 1
    BY <1>3, <1>4, <1>6
  <2> QED BY <1>4, <1>10, <2>1
<1>13. ASSUME NEW m \in 1 .. z - k PROVE s[left + m] = w[k + m]
  <2>1. left + m \in 1 .. Len(ahead) - 1 /\ left + m + 1 = rest + m
    BY <1>3, <1>4, <1>6
  <2> QED BY <1>4, <1>10, <2>1
<1>14. Following(r, s, a, k, p, w)
  BY <1>7, <1>11, <1>12, <1>13 DEF Following, l, left, z
<1>15. Left(r, s)
  <2>1. r.prescaler = p
    BY <1>3
  <2> QED BY <1>10, <1>14, <2>1 DEF Left, w
<1> QED BY <1>4, <1>8, <1>10, <1>15 DEF r, s

LEMMA ExecuteLeft ==
  ASSUME NEW c \in Channel, c.pause_ticks = 0, NEW ahead, Left(c, ahead)
  PROVE  /\ ahead # <<>> /\ ahead[1] = (IF Fetch(c).op = "load" THEN Fetch(c).n ELSE Silent)
         /\ Tail(ahead) \in Seq(Int)
         /\ Fetch(c).stop <=> Len(ahead) = 1
         /\ ~Fetch(c).stop => Left(Execute(c, Fetch(c)), Tail(ahead))
<1> DEFINE p == c.prescaler
           x == Fetch(c)
           r == Execute(c, x)
           left == Rest(r)
<1>1. PICK a \in Words, k \in Nat : Following(c, ahead, a, k, p, Unrolled(List(a), p))
  BY DEF Left
<1> DEFINE w == Unrolled(List(a), p)
           z == Len(w)
           l == Plan(List(a), p)
           y == Len(Lines(x, p))
           s == Tail(ahead)
           v == k + y
<1>2. p \in Nat
  BY DEF Channel
<1>3. Rest(c) = 0
  BY RestIs
<1>4. Placed(c, a, k, l, p) /\ Len(ahead) = 0 + (z - k)
      /\ \A m \in 1 .. z - k : ahead[0 + m] = w[k + m]
  BY <1>1, <1>3 DEF Following
<1>5. x \in Instructions /\ Brought(x, k, p, w) /\ (~x.stop => Placed(r, a, v, l, p))
  <2> HIDE DEF v
  <2>1. v = k + Len(Lines(Fetch(c), p))
    BY DEF v
  <2> QED BY <1>2, <1>4, <2>1, PlacedBrings
<1>6. left = y - 1 /\ r.prescaler = p /\ r \in Channel
  BY <1>5, ExecuteRest
<1> HIDE DEF x
<1>7. /\ y \in Nat \ {0} /\ Lines(x, p)[1] = IF x.op = "load" THEN x.n ELSE Silent
      /\ \A m \in 2 .. y : Lines(x, p)[m] = Silent
      /\ (x.op # "pause" => y = 1)
  BY <1>2, <1>5, LinesIs
<1>8. /\ k + y <= z /\ z \in Nat /\ (\A m \in 1 .. y : w[k + m] = Lines(x, p)[m])
      /\ (x.stop => k + y = z)
  BY <1>5 DEF Brought
<1>9. x.stop => y = 1
  BY <1>5, <1>7, InstructionType
<1>10. ~x.stop => v < z
  <2> HAVE ~x.stop
  <2>1. Placed(r, a, v, l, p)
    BY <1>5
  <2> DEFINE y2 == Len(Lines(Fetch(r), p))
  <2> HIDE DEF v, l, w, r, z
  <2>2. Fetch(r) \in Instructions /\ Brought(Fetch(r), v, p, w)
    BY <1>2, <1>6, <2>1, PlacedBrings DEF l, w
  <2>3. y2 \in Nat \ {0} /\ v \in Nat /\ v + y2 <= z
    BY <1>2, <2>2, LinesIs DEF Brought, z
  <2> HIDE DEF y2
  <2> QED BY <1>8, <2>3
<1> HIDE DEF p, r, left, w, z, l, y
<1>11. ahead \in Seq(Int) /\ Len(ahead) = z - k /\ Len(ahead) > 0
  <2>1. Len(ahead) = z - k
    BY <1>4, <1>8
  <2> QED BY <1>7, <1>8, <2>1 DEF Left
<1>12. ahead # <<>> /\ s \in Seq(Int) /\ Len(s) = Len(ahead) - 1
       /\ \A m \in 1 .. Len(ahead) - 1 : s[m] = ahead[m + 1]
  BY <1>11, TailIs
<1> HIDE DEF s
<1>13. \A m \in 1 .. z - k : ahead[m] = w[k + m]
  BY <1>4, <1>8
<1>14. ahead[1] = IF x.op = "load" THEN x.n ELSE Silent
  <2>1. 1 \in 1 .. z - k /\ 1 \in 1 .. y
    BY <1>7, <1>8
  <2> QED BY <1>7, <1>8, <1>13, <2>1
<1>15. x.stop <=> Len(ahead) = 1
  <2>1. CASE x.stop
    <3>1. Len(ahead) = 1
      BY <1>7, <1>8, <1>9, <1>11, <2>1
    <3> QED BY <2>1, <3>1
  <2>2. CASE ~x.stop
    <3>1. Len(ahead) # 1
      BY <1>7, <1>8, <1>10, <1>11, <2>2
    <3> QED BY <2>2, <3>1
  <2> QED BY <2>1, <2>2
<1>16. /\ left = y - 1 /\ y \in Nat \ {0} /\ v = k + y /\ v <= z /\ z \in Nat
       /\ Len(ahead) = z - k /\ Len(s) = Len(ahead) - 1
  BY <1>6, <1>7, <1>8, <1>11, <1>12
<1>17. ASSUME ~x.stop PROVE Left(r, s)
  <2>1. Len(s) = left + (z - v)
    BY <1>16
  <2>2. ASSUME NEW m \in 1 .. left PROVE s[m] = Silent
    <3>1. m + 1 \in 2 .. y /\ m + 1 \in 1 .. y /\ m \in 1 .. Len(ahead) - 1 /\ m + 1 \in 1 .. z - k
      BY <1>16
    <3> DEFINE u == m + 1
    <3> HIDE DEF u
    <3>2. ahead[u] = w[k + u] /\ w[k + u] = Lines(x, p)[u] /\ Lines(x, p)[u] = Silent
      BY <1>7, <1>8, <1>13, <3>1 DEF u
    <3>3. s[m] = ahead[u]
      BY <1>12, <3>1 DEF u
    <3> QED BY <3>2, <3>3
  <2>3. ASSUME NEW m \in 1 .. z - v PROVE s[left + m] = w[v + m]
    <3> HIDE DEF v
    <3>1. left + m \in 1 .. Len(ahead) - 1 /\ left + m + 1 \in 1 .. z - k
      BY <1>16
    <3>2. k + (left + m + 1) = v + m
      BY <1>16
    <3> QED BY <1>12, <1>13, <3>1, <3>2
  <2>4. v \in Nat
    BY <1>7
  <2> HIDE DEF v
  <2>5. Following(r, s, a, v, p, w)
    BY <1>5, <1>17, <2>1, <2>2, <2>3 DEF Following, l, left, z
  <2>6. r.prescaler = p
    BY <1>6
  <2> QED BY <1>12, <2>4, <2>5, <2>6 DEF Left, w
<1> QED BY <1>12, <1>14, <1>15, <1>17 DEF r, s, x

(***************************************************************************)
(* What the channels keep of their lists while a line is played, and what  *)
(* the program leaves of that.                                             *)
(***************************************************************************)
Playing(s) ==
  /\ Line(s) /\ s.seen \in [Channels -> History]
  /\ \A c \in Channels : Told(s.ch[c], s.seen[c]) /\ s.ch[c].prescaler \in Prescalers \cup {0}
LInv == IInv /\ Playing(Now)

\* What is written for a channel starts a list from the beginning.
LEMMA BeginTold ==
  ASSUME NEW c \in Channel, c.prescaler \in Prescalers \cup {0}, NEW old \in History, old.right
  PROVE  Told(c, Begin(old, c)) /\ Begin(old, c) \in History
<1> DEFINE a == c.source_address
           p == c.prescaler
           list == List(a)
           l == Plan(list, p)
           w == Unrolled(list, p)
           known == c.loops = 0 \/ Closed(a)
           gone == Silence(Rest(c))
           ahead == gone \o w
           new == [old EXCEPT !.ahead = IF known THEN ahead ELSE <<>>, !.checked = known]
           rest == Rest(c)
<1>1. a \in Words /\ p \in Nat /\ c.loops \in Nat /\ p \in Prescalers \cup {0}
  BY DEF Channel
<1>2. Begin(old, c) = new
  <2>1. Ahead(c) = ahead
    <3>1. Played[a][p] = w
      BY <1>1 DEF Played
    <3> QED BY <3>1 DEF Ahead
  <2> QED BY <2>1 DEF Begin
<1>3. Laid(l, list, p, w) /\ list \in Seq(Instructions) /\ Ends(a, Len(list)) /\ a \in Nat
  BY <1>1, ListIs, PlanIs, WordCount DEF Words
<1>4. w \in Seq(Int) /\ l[0] = [at |-> 0, first |-> 1, more |-> 0]
  BY <1>3 DEF Laid
<1>5. rest \in Nat /\ gone \in Seq(Int) /\ Len(gone) = rest /\ \A m \in 1 .. rest : gone[m] = Silent
  <2>1. rest \in Nat
    BY RestIs
  <2> HIDE DEF rest
  <2>2. /\ Silence(rest) \in Seq(Int) /\ Len(Silence(rest)) = rest
        /\ \A m \in 1 .. rest : Silence(rest)[m] = Silent
    BY <2>1, SilenceIs
  <2> QED BY <2>1, <2>2 DEF rest
<1> HIDE DEF gone, w, l, list, rest
<1>6. /\ ahead \in Seq(Int) /\ Len(ahead) = rest + Len(w)
      /\ \A m \in 1 .. rest : ahead[m] = gone[m]
      /\ \A m \in 1 .. Len(w) : ahead[rest + m] = w[m]
  <2> DEFINE R == Int
  <2> HIDE DEF R
  <2>1. gone \in Seq(R) /\ w \in Seq(R)
    BY <1>4, <1>5 DEF R
  <2>2. /\ ahead \in Seq(R) /\ Len(ahead) = Len(gone) + Len(w)
        /\ \A m \in 1 .. Len(gone) : ahead[m] = gone[m]
        /\ \A m \in 1 .. Len(w) : ahead[Len(gone) + m] = w[m]
    BY <2>1, ConcatAt
  <2> HIDE DEF ahead
  <2> QED BY <1>5, <2>2 DEF R
<1> HIDE DEF ahead, known
<1>7. known => Left(c, ahead)
  <2> HAVE known
  <2>1. 0 \in 0 .. Len(list) - 1 /\ a = a + 0 /\ 0 \in Nat
    BY <1>3 DEF Ends
  <2>2. Opened(c, a, 0, l) \/ Unopened(a, 0)
    <3>1. CASE c.loops = 0
      BY <1>4, <3>1 DEF Opened
    <3>2. CASE Closed(a)
      BY <3>2 DEF Unopened
    <3> QED BY <3>1, <3>2 DEF known
  <2>3. Positioned(c, a, 0, 0, l, p)
    BY <1>4, <2>1, <2>2 DEF Positioned, Passing, list
  <2>4. Placed(c, a, 0, l, p)
    BY <2>1, <2>3 DEF Placed
  <2>5. Len(w) - 0 = Len(w) /\ \A m \in 1 .. Len(w) : 0 + m = m
    BY <1>4
  <2>6. Following(c, ahead, a, 0, p, w)
    BY <1>5, <1>6, <2>4, <2>5 DEF Following, l, list, rest
  <2> QED BY <1>1, <1>6, <2>1, <2>6 DEF Left, w, list
<1>8. known \in BOOLEAN
  BY DEF known
<1>9. <<>> \in Seq(Int)
  OBVIOUS
<1>10. new \in History /\ new.right = old.right /\ new.checked = known
       /\ (known => new.ahead = ahead)
  BY <1>6, <1>8, <1>9 DEF History
<1> HIDE DEF new
<1>11. Told(c, new)
  BY <1>7, <1>10 DEF Told
<1> QED BY <1>2, <1>10, <1>11

\* What is heard is compared with the line ahead.
LEMMA HeardTold ==
  ASSUME NEW old \in History, old.right, NEW r, NEW now, NEW stops \in BOOLEAN,
         old.checked => /\ old.ahead # <<>> /\ old.ahead[1] = now /\ Tail(old.ahead) \in Seq(Int)
                        /\ stops <=> Len(old.ahead) = 1
                        /\ ~stops => Left(r, Tail(old.ahead))
  PROVE  Told(r, Heard(old, now, stops)) /\ Heard(old, now, stops) \in History
<1> DEFINE new == [old EXCEPT !.right = @ /\ old.ahead # <<>> /\ old.ahead[1] = now
                             /\ stops = (Len(old.ahead) = 1),
                   !.ahead = IF @ = <<>> THEN @ ELSE Tail(@), !.checked = ~stops]
           heard == Heard(old, now, stops)
<1>1. CASE ~old.checked
  BY <1>1 DEF Heard, Told
<1>2. CASE old.checked
  <2>1. heard = new
    BY <1>2 DEF Heard
  <2> DEFINE right == old.right /\ old.ahead # <<>> /\ old.ahead[1] = now
                      /\ stops = (Len(old.ahead) = 1)
  <2>2. right = TRUE
    BY <1>2
  <2>3. new = [old EXCEPT !.right = right, !.ahead = Tail(old.ahead), !.checked = ~stops]
    BY <1>2
  <2> HIDE DEF new, right
  <2>4. new \in History /\ new.right = TRUE /\ new.ahead = Tail(old.ahead) /\ new.checked = ~stops
    BY <1>2, <2>2, <2>3 DEF History
  <2> HIDE DEF heard
  <2>5. Told(r, new)
    BY <1>2, <2>4 DEF Told
  <2> QED BY <2>1, <2>4, <2>5 DEF heard
<1> QED BY <1>1, <1>2

LEMMA LinePlaying ==
  ASSUME NEW s, Playing(s), NEW c \in Channels
  PROVE  Playing(asic_dma_channel(s, c))
<1> DEFINE channel == s.ch[c]
           x == Fetch(channel)
           pausing == channel.pause_ticks > 0
           next == IF pausing THEN Pause(channel) ELSE Execute(channel, x)
           now == IF ~pausing /\ x.op = "load" THEN x.n ELSE Silent
           stops == ~pausing /\ x.stop
           old == s.seen[c]
           t == asic_dma_channel(s, c)
<1>1. /\ s.ch \in [Channels -> Channel] /\ s.seen \in [Channels -> History]
      /\ \A d \in Channels : Told(s.ch[d], s.seen[d]) /\ s.ch[d].prescaler \in Prescalers \cup {0}
      /\ Line(s)
  BY DEF Playing, Line
<1>2. channel \in Channel /\ old \in History /\ old.right /\ (old.checked => Left(channel, old.ahead))
  BY <1>1 DEF Told
<1>3. Line(t)
  BY <1>1, LineOK
<1>4. t.ch = [s.ch EXCEPT ![c] = next] /\ t.seen = [s.seen EXCEPT ![c] = Heard(old, now, stops)]
  BY DEF asic_dma_channel
<1>5. /\ stops \in BOOLEAN /\ next.prescaler = channel.prescaler
      /\ old.checked => /\ old.ahead # <<>> /\ old.ahead[1] = now /\ Tail(old.ahead) \in Seq(Int)
                        /\ stops <=> Len(old.ahead) = 1
                        /\ ~stops => Left(next, Tail(old.ahead))
  <2>1. CASE pausing
    <3>1. now = Silent /\ stops = FALSE /\ next = Pause(channel)
      BY <2>1
    <3> HIDE DEF channel, x, now, stops, next, old
    <3>2. next.prescaler = channel.prescaler
      BY <1>2, <2>1, <3>1, PauseIs
    <3>3. old.checked => /\ old.ahead # <<>> /\ old.ahead[1] = Silent /\ Len(old.ahead) # 1
                         /\ Left(Pause(channel), Tail(old.ahead))
      BY <1>2, <2>1, PauseLeft
    <3> QED BY <3>1, <3>2, <3>3 DEF Left
  <2>2. CASE ~pausing
    <3>1. now = (IF x.op = "load" THEN x.n ELSE Silent) /\ stops = x.stop /\ next = Execute(channel, x)
          /\ x.stop \in BOOLEAN
      <4>1. x.stop \in BOOLEAN
        BY <1>2, Fetched
      <4> QED BY <2>2, <4>1
    <3>2. channel.pause_ticks = 0
      BY <1>2, <2>2 DEF Channel
    <3>3. x \in Instructions
      BY <1>2 DEF Channel, Fetch, Instructions
    <3>4. old.checked =>
            /\ old.ahead # <<>>
            /\ old.ahead[1] = (IF Fetch(channel).op = "load" THEN Fetch(channel).n ELSE Silent)
            /\ Tail(old.ahead) \in Seq(Int)
            /\ Fetch(channel).stop <=> Len(old.ahead) = 1
            /\ ~Fetch(channel).stop => Left(Execute(channel, Fetch(channel)), Tail(old.ahead))
      <4> HIDE DEF channel, x, now, stops, next, old
      <4> QED BY <1>2, <3>2, ExecuteLeft
    <3> HIDE DEF channel, now, stops, next, old
    <3>5. next.prescaler = channel.prescaler
      <4> HIDE DEF x
      <4> QED BY <1>2, <3>1, <3>2, <3>3, ExecuteRest
    <3> QED BY <3>1, <3>4, <3>5
  <2> QED BY <2>1, <2>2
<1> HIDE DEF next, now, stops, t
<1>6. Told(next, Heard(old, now, stops)) /\ Heard(old, now, stops) \in History
  <2> HIDE DEF channel, x, old
  <2> QED BY <1>2, <1>5, HeardTold
<1>7. t.seen \in [Channels -> History]
  BY <1>1, <1>4, <1>6
<1>8. ASSUME NEW d \in Channels
      PROVE  Told(t.ch[d], t.seen[d]) /\ t.ch[d].prescaler \in Prescalers \cup {0}
  <2>1. CASE d = c
    <3>1. t.ch[d] = next /\ t.seen[d] = Heard(old, now, stops)
      BY <1>1, <1>4, <2>1
    <3> QED BY <1>1, <1>5, <1>6, <3>1
  <2>2. CASE d # c
    <3>1. t.ch[d] = s.ch[d] /\ t.seen[d] = s.seen[d]
      BY <1>1, <1>4, <2>2
    <3> QED BY <1>1, <3>1
  <2> QED BY <2>1, <2>2
<1>9. Playing(t)
  BY <1>3, <1>7, <1>8 DEF Playing
<1> QED BY <1>9 DEF t

\* The actions.
LEMMA PlayingNow ==
  LInv <=> /\ IInv /\ seen \in [Channels -> History]
           /\ \A c \in Channels : Told(ch[c], seen[c]) /\ ch[c].prescaler \in Prescalers \cup {0}
BY DEF LInv, Playing, Now, IInv

LEMMA CyclePlays == ASSUME LInv, asic_dma_cycle
                    PROVE  LInv'
<1> DEFINE step(s, c) == IF c \in Channels /\ s.ch[c].enabled THEN asic_dma_channel(s, c) ELSE s
<1>1. PICK s \in {step(step(step(Now, 0), 1), 2)} :
        ch' = s.ch /\ dcsr' = s.dcsr /\ irq_cause' = s.irq_cause /\ seen' = s.seen
  BY DEF asic_dma_cycle, Now
<1>2. ASSUME NEW t, Playing(t), NEW c
      PROVE  Playing(step(t, c))
  BY <1>2, LinePlaying
<1>3. Playing(Now)
  BY DEF LInv
<1> HIDE DEF step
<1>4. Playing(s)
  BY <1>2, <1>3
<1>5. /\ seen' \in [Channels -> History]
      /\ \A c \in Channels : Told(ch'[c], seen'[c]) /\ ch'[c].prescaler \in Prescalers \cup {0}
  BY <1>1, <1>4 DEF Playing
<1>6. IInv'
  BY CycleOK DEF LInv
<1>7. Line(Now)'
  BY <1>6 DEF IInv
<1> QED BY <1>5, <1>6, <1>7 DEF LInv, Playing, Now

LEMMA RewritePlays ==
  ASSUME LInv, IInv', NEW c \in Channels, NEW channel \in Channel,
         channel.prescaler \in Prescalers \cup {0}, Rewrite(c, channel)
  PROVE  LInv'
<1>1. /\ seen \in [Channels -> History] /\ ch \in [Channels -> Channel]
      /\ \A d \in Channels : Told(ch[d], seen[d]) /\ ch[d].prescaler \in Prescalers \cup {0}
  BY PlayingNow DEF IInv, Line, Now
<1>2. /\ ch' = [ch EXCEPT ![c] = channel]
      /\ seen' = [seen EXCEPT ![c] = Begin(seen[c], channel)]
  BY DEF Rewrite
<1>3. Told(channel, Begin(seen[c], channel)) /\ Begin(seen[c], channel) \in History
  BY <1>1, BeginTold DEF Told
<1>4. seen' \in [Channels -> History]
  BY <1>1, <1>2, <1>3
<1>5. ASSUME NEW d \in Channels
      PROVE  Told(ch'[d], seen'[d]) /\ ch'[d].prescaler \in Prescalers \cup {0}
  <2>1. CASE d = c
    BY <1>1, <1>2, <1>3, <2>1
  <2>2. CASE d # c
    BY <1>1, <1>2, <2>2
  <2> QED BY <2>1, <2>2
<1>6. Line(Now)'
  BY DEF IInv
<1> QED BY <1>4, <1>5, <1>6 DEF LInv, Playing, Now

LEMMA RegistersPlay == ASSUME LInv, WriteLow \/ WriteHigh \/ WritePrescaler
                       PROVE  LInv'
<1>1. IInv /\ IInv'
  BY RegistersOK DEF LInv
<1>2. \A c \in Channels : ch[c] \in Channel /\ ch[c].prescaler \in Prescalers \cup {0}
  BY <1>1, PlayingNow DEF IInv, Line, Now
<1>3. CASE WriteLow
  <2>1. PICK c \in Channels, low \in Lows :
          Rewrite(c, [ch[c] EXCEPT !.source_address = (@ \div Page) * Page + low])
    BY <1>3 DEF WriteLow
  <2> DEFINE address == (ch[c].source_address \div Page) * Page + low
             channel == [ch[c] EXCEPT !.source_address = address]
  <2>2. ch[c].source_address \in Words /\ low \in 0 .. Page - 1 /\ 0 \in 0 .. Pages - 1
    BY <1>2, ChannelAssumption DEF Channel
  <2>3. address \in Words
    BY <2>2, WrittenInWords
  <2>4. Rewrite(c, channel)
    BY <2>1
  <2> HIDE DEF address
  <2>5. channel \in Channel /\ channel.prescaler = ch[c].prescaler
    BY <1>2, <2>3 DEF Channel
  <2> QED
    BY <1>1, <1>2, <2>4, <2>5, RewritePlays
<1>4. CASE WriteHigh
  <2>1. PICK c \in Channels, high \in Highs :
          Rewrite(c, [ch[c] EXCEPT !.source_address = high * Page + (@ % Page)])
    BY <1>4 DEF WriteHigh
  <2> DEFINE address == high * Page + (ch[c].source_address % Page)
             channel == [ch[c] EXCEPT !.source_address = address]
  <2>2. ch[c].source_address \in Words /\ high \in 0 .. Pages - 1 /\ 0 \in 0 .. Page - 1
    BY <1>2, ChannelAssumption DEF Channel
  <2>3. address \in Words
    BY <2>2, WrittenInWords
  <2>4. Rewrite(c, channel)
    BY <2>1
  <2> HIDE DEF address
  <2>5. channel \in Channel /\ channel.prescaler = ch[c].prescaler
    BY <1>2, <2>3 DEF Channel
  <2> QED
    BY <1>1, <1>2, <2>4, <2>5, RewritePlays
<1>5. CASE WritePrescaler
  <2>1. PICK c \in Channels, val \in Prescalers : Rewrite(c, [ch[c] EXCEPT !.prescaler = val])
    BY <1>5 DEF WritePrescaler
  <2> DEFINE channel == [ch[c] EXCEPT !.prescaler = val]
  <2>2. val \in Nat
    BY ChannelAssumption
  <2>3. channel \in Channel /\ channel.prescaler = val
    BY <1>2, <2>2 DEF Channel
  <2> HIDE DEF channel
  <2>4. Rewrite(c, channel)
    BY <2>1 DEF channel
  <2> QED
    BY <1>1, <2>3, <2>4, RewritePlays
<1> QED
  BY <1>3, <1>4, <1>5

\* Switching channels off and on and acknowledging their interrupts leave their places alone.
LEMMA SameLeft ==
  ASSUME NEW c, NEW d, NEW ahead, Left(c, ahead), d.prescaler = c.prescaler,
         d.source_address = c.source_address, d.loop_address = c.loop_address, d.loops = c.loops,
         d.pause_ticks = c.pause_ticks, d.tick_cycles = c.tick_cycles
  PROVE  Left(d, ahead)
<1> DEFINE p == c.prescaler
<1>1. PICK a \in Words, k \in Nat : Following(c, ahead, a, k, p, Unrolled(List(a), p))
  BY DEF Left
<1>2. Rest(d) = Rest(c)
  BY DEF Rest
<1>3. Placed(d, a, k, Plan(List(a), p), p)
  <2> DEFINE l == Plan(List(a), p)
  <2>1. Placed(c, a, k, l, p)
    BY <1>1 DEF Following
  <2> HIDE DEF l, p
  <2>2. Placed(d, a, k, l, p)
    BY <2>1, SamePlace
  <2> QED BY <2>2 DEF l
<1>4. Following(d, ahead, a, k, p, Unrolled(List(a), p))
  BY <1>1, <1>2, <1>3 DEF Following
<1> QED BY <1>4 DEF Left

LEMMA ControlPlays == ASSUME LInv, WriteDCSR
                      PROVE  LInv'
<1>1. IInv'
  BY ControlOK DEF LInv
<1>2. /\ seen \in [Channels -> History] /\ ch \in [Channels -> Channel]
      /\ \A d \in Channels : Told(ch[d], seen[d]) /\ ch[d].prescaler \in Prescalers \cup {0}
  BY PlayingNow DEF IInv, Line, Now
<1>3. PICK enable \in SUBSET Channels, acknowledge \in SUBSET Channels :
        ch' = [c \in Channels |-> [ch[c] EXCEPT !.enabled = c \in enable,
                                                !.interrupt = @ /\ c \notin acknowledge]]
  BY DEF WriteDCSR
<1>4. seen' = seen
  BY DEF WriteDCSR
<1>5. ASSUME NEW d \in Channels
      PROVE  Told(ch'[d], seen'[d]) /\ ch'[d].prescaler \in Prescalers \cup {0}
  <2> DEFINE c == ch[d]
             r == ch'[d]
             h == seen[d]
  <2>1. c \in Channel /\ r = [c EXCEPT !.enabled = d \in enable, !.interrupt = @ /\ d \notin acknowledge]
    BY <1>2, <1>3
  <2>2. Told(c, h) /\ c.prescaler \in Prescalers \cup {0} /\ seen'[d] = h
    BY <1>2, <1>4
  <2> HIDE DEF c, r, h
  <2>3. /\ r.prescaler = c.prescaler /\ r.source_address = c.source_address
        /\ r.loop_address = c.loop_address /\ r.loops = c.loops
        /\ r.pause_ticks = c.pause_ticks /\ r.tick_cycles = c.tick_cycles
    BY <2>1 DEF Channel
  <2>4. Told(r, h)
    BY <2>2, <2>3, SameLeft DEF Told
  <2> QED BY <2>2, <2>3, <2>4 DEF r
<1>6. Line(Now)'
  BY <1>1 DEF IInv
<1> QED BY <1>1, <1>2, <1>4, <1>5, <1>6 DEF LInv, Playing, Now

LEMMA ResetPlays == ASSUME LInv, asic_reset
                    PROVE  LInv'
<1>1. IInv'
  BY Steps DEF LInv, Next
<1>2. /\ ch' = [c \in Channels |-> Reset] /\ seen' = [c \in Channels |-> Begin(seen[c], Reset)]
  BY DEF asic_reset
<1>3. /\ seen \in [Channels -> History] /\ \A d \in Channels : Told(ch[d], seen[d])
  BY PlayingNow
<1>4. Reset \in Channel /\ Reset.prescaler \in Prescalers \cup {0}
  BY WordCount DEF Reset, Channel
<1>5. ASSUME NEW d \in Channels
      PROVE  /\ Told(ch'[d], seen'[d]) /\ ch'[d].prescaler \in Prescalers \cup {0}
             /\ seen'[d] \in History
  <2>1. Told(Reset, Begin(seen[d], Reset)) /\ Begin(seen[d], Reset) \in History
    BY <1>3, <1>4, BeginTold DEF Told
  <2>2. ch'[d] = Reset /\ seen'[d] = Begin(seen[d], Reset)
    BY <1>2
  <2> QED BY <1>4, <2>1, <2>2
<1>6. seen' \in [Channels -> History]
  BY <1>2, <1>5
<1>7. Line(Now)'
  BY <1>1 DEF IInv
<1> QED BY <1>1, <1>5, <1>6, <1>7 DEF LInv, Playing, Now

LEMMA InitialPlays == ASSUME Init
                      PROVE  LInv
<1>1. IInv
  BY Initial
<1>2. ch \in [Channels -> Channel]
  BY <1>1 DEF IInv, Line, Now
<1> DEFINE h == [ahead |-> <<>>, checked |-> TRUE, right |-> TRUE]
<1>3. h \in History /\ h.right
  <2>1. <<>> \in Seq(Int)
    OBVIOUS
  <2> QED BY <2>1 DEF History
<1>4. seen = [c \in Channels |-> Begin(h, ch[c])]
  BY DEF Init
<1>5. ASSUME NEW c \in Channels PROVE ch[c].prescaler \in Prescalers
  <2>1. PICK x \in [Channels -> Setups] :
          ch = [d \in Channels |-> [Reset EXCEPT !.source_address = x[d].address,
                                                 !.enabled = d \in dcsr, !.prescaler = x[d].prescaler]]
    BY DEF Init
  <2>2. x[c].prescaler \in Prescalers
    BY ChannelAssumption
  <2>3. ch[c].prescaler = x[c].prescaler
    BY <2>1 DEF Reset
  <2> QED BY <2>2, <2>3
<1> HIDE DEF h
<1>6. ASSUME NEW c \in Channels
      PROVE  Told(ch[c], seen[c]) /\ seen[c] \in History /\ ch[c].prescaler \in Prescalers \cup {0}
  <2>1. Told(ch[c], Begin(h, ch[c])) /\ Begin(h, ch[c]) \in History
    BY <1>2, <1>3, <1>5, BeginTold
  <2> QED BY <1>4, <1>5, <2>1
<1>7. seen \in [Channels -> History]
  BY <1>4, <1>6
<1> QED BY <1>1, <1>6, <1>7, PlayingNow

LEMMA StepsPlay == ASSUME LInv, [Next]_vars
                   PROVE  LInv'
<1>1. IInv'
  BY Steps DEF LInv
<1>2. CASE UNCHANGED <<ch, seen>>
  <2>1. Line(Now)'
    BY <1>1 DEF IInv
  <2> QED BY <1>1, <1>2, <2>1, PlayingNow DEF LInv, Playing, Now
<1>3. WriteVector \/ asic_int \/ UNCHANGED vars => UNCHANGED <<ch, seen>>
  BY DEF WriteVector, asic_int, vars
<1> QED BY <1>2, <1>3, CyclePlays, RegistersPlay, ControlPlays, ResetPlays DEF Next

(***************************************************************************)
(* Each channel plays its list, for every memory that holds lists, every   *)
(* prescaler and any order of lines, writes and interrupts: what the       *)
(* instructions do one at a time (asic_dma_channel) is what the list brings *)
(* when its loops are written out and its pauses measured.                 *)
(***************************************************************************)
THEOREM ListsPlayed == Spec => []PlaysList
<1>1. Init => LInv
  BY InitialPlays
<1>2. LInv /\ [Next]_vars => LInv'
  BY StepsPlay
<1>3. LInv => PlaysList
  BY PlayingNow DEF PlaysList, Told
<1> QED
  BY <1>1, <1>2, <1>3, PTL DEF Spec
=============================================================================
