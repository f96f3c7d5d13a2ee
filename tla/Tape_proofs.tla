---------------------------- MODULE Tape_proofs ----------------------------
(***************************************************************************)
(* Proofs about the tape player, for every set of files.  In order: what   *)
(* blocks and images are made of; what is recorded for a block and on a    *)
(* tape; the steps of the player within a block, from block to block and   *)
(* at the end; what the invariant says of the time; the invariant, and the *)
(* player as an implementation of TapeSignal.                              *)
(***************************************************************************)
EXTENDS Tape, SequenceTheorems, WellFoundedInduction, TLAPS

\* Induction over the naturals, with the property as a set.
LEMMA Induction == ASSUME NEW S, 0 \in S, \A n \in Nat : n \in S => n + 1 \in S
                   PROVE  Nat \subseteq S
<1> SUFFICES ASSUME Nat \ S # {}
             PROVE  FALSE
  OBVIOUS
<1>1. PICK n \in Nat \ S : \A m \in Nat \ S : <<m, n>> \notin OpToRel(<, Nat)
  BY NatLessThanWellFounded, WFMin
<1>2. n - 1 \in Nat /\ n - 1 < n
  OBVIOUS
<1>3. <<n - 1, n>> \in OpToRel(<, Nat)
  BY <1>2 DEF OpToRel
<1>4. n - 1 \in S
  BY <1>1, <1>2, <1>3
<1> QED
  BY <1>2, <1>4

(***************************************************************************)
(* Blocks: their kinds, and that the three ideas of their sizes agree.     *)
(***************************************************************************)
SoundIds == DataBlocks \cup {Silence}

\* The fields of a block of each kind.
LEMMA BlockKinds ==
  ASSUME NEW b \in Blocks
  PROVE  /\ b.id \in Nat \ {0}
         /\ b.id \in {Std, Turbo, Pure, Direct} => b.data \in Data
         /\ b.id \in {Std, Turbo, Pure, Direct, Silence} => b.pause \in HalfWords
         /\ b.id \in {Turbo, Tone} => b.pilot \in HalfWords /\ b.pulses \in HalfWords
         /\ b.id = Turbo => b.sync \in Pair
         /\ b.id \in {Turbo, Pure} => b.zero \in HalfWords /\ b.one \in HalfWords
         /\ b.id \in {Turbo, Pure, Direct} => b.bits \in 1 .. ByteBits
         /\ b.id = Direct => b.sample \in HalfWords
         /\ b.id = Pulses => b.table \in PulseList
         /\ b.id \notin SoundIds => b.size \in Nat
BY DEF Blocks, SoundIds, DataBlocks, Std, Turbo, Tone, Pulses, Pure, Direct, Silence

\* The data of a block: some bytes.
LEMMA DataLen == ASSUME NEW d \in Data PROVE Len(d) \in Nat \ {0} /\ d \in Seq(Byte)
BY DEF Data

\* A block has a size.
LEMMA SizeType ==
  ASSUME NEW b \in Blocks
  PROVE  InsertSize(b) \in Nat
<1>1. b.id \in {Std, Turbo, Pure, Direct} => Len(b.data) \in Nat
  BY BlockKinds, DataLen
<1>2. b.id = Pulses => Len(b.table) \in Nat
  BY BlockKinds DEF PulseList
<1>3. b.id \notin SoundIds => b.size \in Nat
  BY BlockKinds
<1> QED
  BY <1>1, <1>2, <1>3
  DEF InsertSize, SoundIds, DataBlocks, Std, Turbo, Tone, Pulses, Pure, Direct, Silence

\* The three computations of the size of a block agree where the code uses them.
LEMMA SizesAgree ==
  ASSUME NEW b \in Blocks
  PROVE  /\ Silent(b) => SkipSize(b) = InsertSize(b)
         /\ b.id \in SoundIds => DoneSize(b) = InsertSize(b)
BY BlockKinds
DEF Silent, SkipSize, DoneSize, InsertSize, SoundIds, DataBlocks, Unsupported,
    Std, Turbo, Tone, Pulses, Pure, Direct, Silence

\* A block that is not skipped, and is supported, is one that the player plays.
LEMMA SoundingKinds ==
  ASSUME NEW b \in Blocks, ~Silent(b), b.id \notin Unsupported \cup {0}
  PROVE  b.id \in SoundIds /\ (b.id = Silence => b.pause # 0)
BY DEF Silent, SoundIds, DataBlocks, Std, Direct, Silence

(***************************************************************************)
(* The offsets of the blocks of an image.                                  *)
(***************************************************************************)
LEMMA OffsetDef ==
  ASSUME NEW img \in Seq(Blocks)
  PROVE  /\ Offset(img)[1] = 0
         /\ \A i \in 1 .. Len(img) :
              Offset(img)[i + 1] = Offset(img)[i] + 1 + InsertSize(img[i])
         /\ DOMAIN Offset(img) = 1 .. Len(img) + 1
<1> DEFINE n == Len(img)
           Goes(g, m) == /\ g[1] = 0
                         /\ \A i \in 1 .. m : g[i + 1] = g[i] + 1 + InsertSize(img[i])
           S == {m \in Nat : \E g : Goes(g, m)}
<1>0. n \in Nat
  OBVIOUS
<1> HIDE DEF n
<1>1. 0 \in S
  <2>1. Goes([i \in {1} |-> 0], 0)
    OBVIOUS
  <2> QED BY <2>1
<1>2. \A m \in Nat : m \in S => m + 1 \in S
  <2> TAKE m \in Nat
  <2> HAVE m \in S
  <2>1. PICK g : Goes(g, m)
    OBVIOUS
  <2> DEFINE h == [i \in 1 .. m + 2 |-> IF i = m + 2 THEN g[m + 1] + 1 + InsertSize(img[m + 1])
                                        ELSE g[i]]
  <2>2. h[1] = 0
    BY <2>1
  <2>3. ASSUME NEW i \in 1 .. m + 1
        PROVE  h[i + 1] = h[i] + 1 + InsertSize(img[i])
    <3>1. i \in 1 .. m + 2 /\ i + 1 \in 1 .. m + 2 /\ i # m + 2
      OBVIOUS
    <3>2. h[i] = g[i]
      BY <3>1
    <3>3. CASE i = m + 1
      <4>1. h[i + 1] = g[m + 1] + 1 + InsertSize(img[m + 1])
        BY <3>1, <3>3
      <4> QED BY <3>2, <3>3, <4>1
    <3>4. CASE i # m + 1
      <4>1. h[i + 1] = g[i + 1] /\ i \in 1 .. m
        BY <3>1, <3>4
      <4> HIDE DEF h
      <4> QED BY <2>1, <3>2, <4>1
    <3> QED BY <3>3, <3>4
  <2> HIDE DEF h
  <2>4. Goes(h, m + 1)
    BY <2>2, <2>3
  <2> QED BY <2>4
<1>3. n \in S
  <2> HIDE DEF S
  <2> QED BY <1>0, <1>1, <1>2, Induction
<1>4. PICK g : Goes(g, n)
  BY <1>3
<1> DEFINE IsAt(a) == a = [i \in 1 .. n + 1 |-> IF i = 1 THEN 0
                                                ELSE a[i - 1] + 1 + InsertSize(img[i - 1])]
           a0 == [i \in 1 .. n + 1 |-> g[i]]
<1>5. IsAt(a0)
  <2>1. ASSUME NEW i \in 1 .. n + 1
        PROVE  g[i] = IF i = 1 THEN 0 ELSE a0[i - 1] + 1 + InsertSize(img[i - 1])
    <3>1. CASE i = 1
      BY <1>4, <3>1
    <3>2. CASE i # 1
      <4>1. i - 1 \in 1 .. n /\ i - 1 \in 1 .. n + 1 /\ (i - 1) + 1 = i
        BY <1>0, <3>2
      <4>2. a0[i - 1] = g[i - 1]
        BY <4>1
      <4>3. g[(i - 1) + 1] = g[i - 1] + 1 + InsertSize(img[i - 1])
        BY <1>4, <4>1
      <4> HIDE DEF a0
      <4> QED BY <3>2, <4>1, <4>2, <4>3
    <3> QED BY <3>1, <3>2
  <2> QED BY <2>1
<1>6. Offset(img) = CHOOSE a : IsAt(a)
  BY DEF Offset, n
<1>7. IsAt(Offset(img))
  <2> HIDE DEF IsAt
  <2> QED BY <1>5, <1>6
<1>8. 1 \in 1 .. n + 1
  BY <1>0
<1>9. ASSUME NEW i \in 1 .. n
      PROVE  Offset(img)[i + 1] = Offset(img)[i] + 1 + InsertSize(img[i])
  <2>1. i + 1 \in 1 .. n + 1 /\ i + 1 # 1 /\ (i + 1) - 1 = i
    BY <1>0
  <2> QED BY <1>7, <2>1
<1> QED BY <1>7, <1>8, <1>9 DEF n

\* The offsets are increasing.
LEMMA OffsetType ==
  ASSUME NEW img \in Seq(Blocks)
  PROVE  /\ \A i \in 1 .. Len(img) + 1 : Offset(img)[i] \in Nat
         /\ \A i, j \in 1 .. Len(img) + 1 : i < j => Offset(img)[i] < Offset(img)[j]
<1> DEFINE n == Len(img)
           at(i) == Offset(img)[i]
           S == {m \in Nat : m <= n => /\ \A i \in 1 .. m + 1 : at(i) \in Nat
                                       /\ \A i, j \in 1 .. m + 1 : i < j => at(i) < at(j)}
<1>0. n \in Nat
  OBVIOUS
<1>1. at(1) = 0 /\ \A i \in 1 .. n : at(i + 1) = at(i) + 1 + InsertSize(img[i])
  BY OffsetDef
<1>2. \A i \in 1 .. n : InsertSize(img[i]) \in Nat
  BY SizeType
<1> HIDE DEF at, n
<1>3. 0 \in S
  BY <1>1
<1>4. \A m \in Nat : m \in S => m + 1 \in S
  <2> TAKE m \in Nat
  <2> HAVE m \in S
  <2> SUFFICES ASSUME m + 1 <= n
               PROVE  /\ \A i \in 1 .. m + 2 : at(i) \in Nat
                      /\ \A i, j \in 1 .. m + 2 : i < j => at(i) < at(j)
    OBVIOUS
  <2>1. /\ \A i \in 1 .. m + 1 : at(i) \in Nat
        /\ \A i, j \in 1 .. m + 1 : i < j => at(i) < at(j)
    BY <1>0
  <2>2. at(m + 2) = at(m + 1) + 1 + InsertSize(img[m + 1]) /\ InsertSize(img[m + 1]) \in Nat
    <3>1. m + 1 \in 1 .. n /\ (m + 1) + 1 = m + 2
      BY <1>0
    <3> QED BY <1>1, <1>2, <3>1
  <2>3. at(m + 1) \in Nat
    BY <2>1
  <2>4. at(m + 2) \in Nat /\ at(m + 2) > at(m + 1)
    BY <2>2, <2>3
  <2>5. \A i \in 1 .. m + 1 : at(i) \in Nat /\ at(i) <= at(m + 1)
    BY <2>1
  <2>6. \A i \in 1 .. m + 1 : at(i) < at(m + 2)
    BY <2>3, <2>4, <2>5
  <2>7. \A i \in 1 .. m + 2 : i \in 1 .. m + 1 \/ i = m + 2
    OBVIOUS
  <2> QED BY <2>1, <2>4, <2>6, <2>7
<1>5. n \in S
  <2> HIDE DEF S
  <2> QED BY <1>0, <1>3, <1>4, Induction
<1> QED BY <1>0, <1>5 DEF at, n

Inserted == {Image(file) : file \in Files} \cup {<<>>}
Heard    == Seq([level : BOOLEAN, length : Nat])
Shifts   == {s \in Seq(Bit) : Len(s) < ByteBits}
PlayerType == [img : Inserted, live : BOOLEAN, blk : Nat, stage : Stages, level : BOOLEAN,
        pulse : Word, zero : Word, one : Word, count : Word, left : Word,
        byte : Nat \ {0}, shift : Shifts, pos : Nat \ {0}, cycles : Int, play : BOOLEAN,
        recorded : Signals \cup {<<>>}, heard : Heard, elapsed : Nat, lost : BOOLEAN]

\* A pause is a block.
LEMMA PauseType == ASSUME NEW ms \in HalfWords PROVE Pause(ms) \in Blocks
BY DEF Pause, Blocks

\* An image is a sequence of blocks.
LEMMA ImageType == ASSUME NEW file \in Files PROVE Image(file) \in Seq(Blocks)
<1> DEFINE all == <<Pause(LeadIn)>> \o file \o <<Pause(LeadIn)>>
           early(i) == i > 1 /\ \A j \in 1 .. i : all[j].id \notin DataBlocks \cup Unsupported
           img == [i \in DOMAIN all |-> IF early(i) /\ all[i].id = Silence THEN Pause(0) ELSE all[i]]
<1>1. file \in Seq(Blocks) /\ Pause(LeadIn) \in Blocks /\ Pause(0) \in Blocks
  BY TapeAssumption, PlayerAssumption, PauseType DEF HalfWords
<1>2. all \in Seq(Blocks)
  BY <1>1
<1> HIDE DEF all
<1>3. DOMAIN all = 1 .. Len(all) /\ Len(all) \in Nat /\ \A i \in 1 .. Len(all) : all[i] \in Blocks
  BY <1>2
<1>4. img \in [1 .. Len(all) -> Blocks]
  BY <1>1, <1>3
<1>5. img \in Seq(Blocks)
  <2> HIDE DEF img
  <2> QED BY <1>3, <1>4, SeqDef
<1> QED BY <1>5 DEF Image, all

\* So is what is in the slot.
LEMMA InsertedType == Inserted \subseteq Seq(Blocks)
<1>1. <<>> \in Seq(Blocks)
  OBVIOUS
<1> QED BY <1>1, ImageType DEF Inserted

(***************************************************************************)
(* The block at an offset.                                                 *)
(***************************************************************************)
LEMMA BlockHere ==
  ASSUME NEW p, p.img \in Seq(Blocks), p.live,
         NEW i \in 1 .. Len(p.img), p.blk = Offset(p.img)[i]
  PROVE  BlockAt(p) = p.img[i] /\ p.img[i] \in Blocks
<1> DEFINE n == Len(p.img)
<1>1. n \in Nat /\ DOMAIN p.img = 1 .. n /\ i \in 1 .. n + 1 /\ \A k \in 1 .. n : k \in 1 .. n + 1
  OBVIOUS
<1>2. ASSUME NEW k \in 1 .. n, Offset(p.img)[k] = p.blk
      PROVE  k = i
  <2>1. /\ \A j \in 1 .. n + 1 : Offset(p.img)[j] \in Nat
        /\ \A j, l \in 1 .. n + 1 : j < l => Offset(p.img)[j] < Offset(p.img)[l]
    BY OffsetType
  <2>2. k \in 1 .. n + 1 /\ i \in 1 .. n + 1
    OBVIOUS
  <2>3. ~(k < i) /\ ~(i < k)
    BY <1>2, <2>1, <2>2
  <2> QED BY <2>2, <2>3
<1> DEFINE here == {k \in DOMAIN p.img : p.live /\ Offset(p.img)[k] = p.blk}
<1>3. here = {i}
  BY <1>1, <1>2
<1>4. BlockAt(p) = IF here = {} THEN Junk ELSE p.img[CHOOSE k \in here : TRUE]
  BY DEF BlockAt
<1> HIDE DEF here
<1> QED BY <1>3, <1>4

\* BlockAt finds a block of the image, or junk.
LEMMA BlockAnywhere ==
  ASSUME NEW p, p.img \in Seq(Blocks)
  PROVE  \/ BlockAt(p) = Junk
         \/ \E i \in 1 .. Len(p.img) : /\ p.live /\ Offset(p.img)[i] = p.blk
                                       /\ BlockAt(p) = p.img[i]
<1> DEFINE here == {k \in DOMAIN p.img : p.live /\ Offset(p.img)[k] = p.blk}
           c == CHOOSE k \in here : TRUE
<1>1. BlockAt(p) = IF here = {} THEN Junk ELSE p.img[c]
  BY DEF BlockAt
<1>2. CASE here = {}
  BY <1>1, <1>2
<1>3. CASE here # {}
  <2>1. c \in here
    BY <1>3
  <2>2. BlockAt(p) = p.img[c]
    BY <1>1, <1>3
  <2>3. DOMAIN p.img = 1 .. Len(p.img)
    OBVIOUS
  <2> QED BY <2>1, <2>2, <2>3
<1> QED BY <1>2, <1>3

(***************************************************************************)
(* The first block that sounds: a search that skips silent blocks.         *)
(***************************************************************************)
LEMMA FirstSoundingAt ==
  ASSUME NEW p \in PlayerType, p.live, NEW i \in 1 .. Len(p.img) + 1, p.blk = Offset(p.img)[i]
  PROVE  \E j \in i .. Len(p.img) + 1 :
            /\ FirstSounding(p) = Offset(p.img)[j]
            /\ j <= Len(p.img) => ~Silent(p.img[j])
            /\ \A k \in i .. j - 1 : Silent(p.img[k])
<1> DEFINE img == p.img
           n == Len(p.img)
           e == End(p.img)
           B(o) == BlockAt([p EXCEPT !.blk = o])
           Goes(o) == o < e /\ Silent(B(o))
           Nxt(o) == o + 1 + SkipSize(B(o))
           IsAt(f) == f = [o \in Nat |-> IF Goes(o) THEN f[Nxt(o)] ELSE o]
<1>1. img \in Seq(Blocks) /\ n \in Nat
  BY InsertedType DEF PlayerType
<1>2. /\ \A k \in 1 .. n + 1 : Offset(img)[k] \in Nat
      /\ \A k, l \in 1 .. n + 1 : k < l => Offset(img)[k] < Offset(img)[l]
      /\ \A k \in 1 .. n : Offset(img)[k + 1] = Offset(img)[k] + 1 + InsertSize(img[k])
  BY <1>1, OffsetType, OffsetDef
<1>3. e \in Nat /\ e = Offset(img)[n + 1]
  BY <1>1, <1>2 DEF End
<1>4. ASSUME NEW o \in Nat, Goes(o)
      PROVE  Nxt(o) \in Nat /\ Nxt(o) > o
  <2> DEFINE q == [p EXCEPT !.blk = o]
  <2>1. q.img = img
    BY DEF PlayerType
  <2>2. ~Silent(Junk)
    BY DEF Silent, Junk
  <2>3. B(o) \in Blocks
    <3>1. PICK k \in 1 .. Len(img) : BlockAt(q) = img[k]
      <4> HIDE DEF q
      <4> QED BY <1>1, <1>4, <2>1, <2>2, BlockAnywhere DEF q
    <3> QED BY <1>1, <3>1
  <2>4. SkipSize(B(o)) \in Nat
    BY <1>4, <2>3, SizesAgree, SizeType
  <2> HIDE DEF B
  <2> QED BY <2>4
<1>5. ASSUME NEW k \in 1 .. n
      PROVE  B(Offset(img)[k]) = img[k] /\ Offset(img)[k] < e /\ Offset(img)[k] \in Nat
  <2> DEFINE q == [p EXCEPT !.blk = Offset(img)[k]]
  <2>1. q.img = img /\ q.live /\ q.blk = Offset(img)[k]
    BY DEF PlayerType
  <2> HIDE DEF q
  <2>2. BlockAt(q) = img[k]
    BY <1>1, <2>1, BlockHere
  <2>3. k \in 1 .. n + 1 /\ n + 1 \in 1 .. n + 1 /\ k < n + 1
    BY <1>1
  <2> QED BY <1>2, <1>3, <2>2, <2>3 DEF q
<1> HIDE DEF B
\* The function exists ...
<1> DEFINE Fits(f, m) == \A o \in Nat : o + m >= e => f[o] = IF Goes(o) THEN f[Nxt(o)] ELSE o
           S == {m \in Nat : \E f : Fits(f, m)}
<1>6. 0 \in S
  <2> DEFINE f0 == [o \in Nat |-> o]
  <2>1. ASSUME NEW o \in Nat, o + 0 >= e PROVE f0[o] = IF Goes(o) THEN f0[Nxt(o)] ELSE o
    BY <1>3, <2>1
  <2> HIDE DEF Goes, Nxt, f0
  <2> QED BY <2>1
<1>7. \A m \in Nat : m \in S => m + 1 \in S
  <2> TAKE m \in Nat
  <2> HAVE m \in S
  <2>1. PICK f : Fits(f, m)
    OBVIOUS
  <2> DEFINE g == [o \in Nat |-> IF o + m + 1 = e /\ Goes(o) THEN f[Nxt(o)]
                                 ELSE IF o + m + 1 = e THEN o ELSE f[o]]
  <2>2. ASSUME NEW o \in Nat, o + (m + 1) >= e
        PROVE  g[o] = IF Goes(o) THEN g[Nxt(o)] ELSE o
    <3>1. ASSUME Goes(o) PROVE g[Nxt(o)] = f[Nxt(o)]
      <4>1. Nxt(o) \in Nat /\ Nxt(o) > o
        BY <1>4, <3>1
      <4>2. Nxt(o) + m + 1 # e
        BY <2>2, <4>1, <1>3
      <4> HIDE DEF Nxt, Goes
      <4> QED BY <4>1, <4>2
    <3>2. CASE o + m + 1 = e
      <4>1. g[o] = IF Goes(o) THEN f[Nxt(o)] ELSE o
        <5> HIDE DEF Nxt, Goes
        <5> QED BY <3>2
      <4> HIDE DEF g, Nxt, Goes
      <4> QED BY <3>1, <4>1
    <3>3. CASE o + m + 1 # e
      <4>1. g[o] = f[o] /\ o + m >= e
        <5> HIDE DEF Nxt, Goes
        <5> QED BY <2>2, <3>3, <1>3
      <4> HIDE DEF g, Nxt, Goes
      <4> QED BY <2>1, <3>1, <4>1
    <3> QED BY <3>2, <3>3
  <2> HIDE DEF g, Goes, Nxt
  <2>3. Fits(g, m + 1)
    BY <2>2
  <2> QED BY <2>3
<1>8. e \in S
  <2> HIDE DEF S
  <2> QED BY <1>3, <1>6, <1>7, Induction
<1>9. PICK f : Fits(f, e)
  BY <1>8
<1> DEFINE f1 == [o \in Nat |-> f[o]]
<1>10. IsAt(f1)
  <2>1. ASSUME NEW o \in Nat
        PROVE  f[o] = IF Goes(o) THEN f1[Nxt(o)] ELSE o
    <3>1. o + e >= e
      BY <1>3
    <3>2. Goes(o) => f1[Nxt(o)] = f[Nxt(o)]
      <4> HIDE DEF Goes, Nxt
      <4> QED BY <1>4
    <3> HIDE DEF Goes, Nxt, f1
    <3> QED BY <1>9, <3>1, <3>2
  <2> HIDE DEF Goes, Nxt
  <2> QED BY <2>1
<1> DEFINE from == CHOOSE f2 : IsAt(f2)
<1>11. IsAt(from)
  <2> HIDE DEF IsAt
  <2> QED BY <1>10
<1>12. FirstSounding(p) = from[p.blk]
  BY DEF FirstSounding, B
\* ... and stops at the next block that sounds.
<1> HIDE DEF from
<1>13. \A o \in Nat : from[o] = IF Goes(o) THEN from[Nxt(o)] ELSE o
  <2> HIDE DEF Goes, Nxt
  <2> QED BY <1>11
<1> DEFINE Ends(k) == \E j \in k .. n + 1 : /\ from[Offset(img)[k]] = Offset(img)[j]
                                            /\ j <= n => ~Silent(img[j])
                                            /\ \A l \in k .. j - 1 : Silent(img[l])
           T == {m \in Nat : \A k \in 1 .. n + 1 : k + m = n + 1 => Ends(k)}
<1>14. 0 \in T
  <2>1. ASSUME NEW k \in 1 .. n + 1, k + 0 = n + 1 PROVE Ends(k)
    <3>1. k = n + 1
      BY <2>1
    <3>2. ~Goes(e)
      BY <1>3
    <3> HIDE DEF Goes, Nxt
    <3>3. from[e] = e
      BY <1>3, <1>13, <3>2
    <3>4. from[Offset(img)[k]] = Offset(img)[k]
      BY <1>3, <3>1, <3>3
    <3>5. k \in k .. n + 1 /\ ~(k <= n) /\ k .. k - 1 = {}
      BY <3>1, <1>1
    <3> QED BY <3>4, <3>5
  <2> QED BY <2>1
<1>15. \A m \in Nat : m \in T => m + 1 \in T
  <2> TAKE m \in Nat
  <2> HAVE m \in T
  <2>1. ASSUME NEW k \in 1 .. n + 1, k + (m + 1) = n + 1 PROVE Ends(k)
    <3>1. k \in 1 .. n /\ k + 1 \in 1 .. n + 1 /\ (k + 1) + m = n + 1
      BY <2>1, <1>1
    <3>2. Ends(k + 1)
      BY <3>1
    <3>3. B(Offset(img)[k]) = img[k] /\ Offset(img)[k] < e /\ Offset(img)[k] \in Nat
      BY <1>5, <3>1
    <3>4. CASE Silent(img[k])
      <4>1. Goes(Offset(img)[k])
        BY <3>3, <3>4
      <4>2. img[k] \in Blocks
        BY <1>1, <3>1
      <4>3. Nxt(Offset(img)[k]) = Offset(img)[k + 1]
        BY <1>2, <3>1, <3>3, <3>4, <4>2, SizesAgree
      <4>4. from[Offset(img)[k]] = from[Offset(img)[k + 1]]
        <5> HIDE DEF Goes, Nxt
        <5> QED BY <1>13, <3>3, <4>1, <4>3
      <4>5. PICK j \in k + 1 .. n + 1 : /\ from[Offset(img)[k + 1]] = Offset(img)[j]
                                        /\ j <= n => ~Silent(img[j])
                                        /\ \A l \in k + 1 .. j - 1 : Silent(img[l])
        BY <3>2
      <4>6. j \in k .. n + 1 /\ \A l \in k .. j - 1 : l = k \/ l \in k + 1 .. j - 1
        BY <3>1
      <4> QED BY <3>4, <4>4, <4>5, <4>6
    <3>5. CASE ~Silent(img[k])
      <4>1. ~Goes(Offset(img)[k])
        BY <3>3, <3>5
      <4>2. from[Offset(img)[k]] = Offset(img)[k]
        <5> HIDE DEF Goes, Nxt
        <5> QED BY <1>13, <3>3, <4>1
      <4>3. k \in k .. n + 1 /\ k .. k - 1 = {}
        BY <3>1
      <4> QED BY <3>5, <4>2, <4>3
    <3> QED BY <3>4, <3>5
  <2> HIDE DEF Ends
  <2> QED BY <2>1
<1>16. n + 1 - i \in T
  <2> HIDE DEF T
  <2>1. n + 1 - i \in Nat
    BY <1>1
  <2> QED BY <1>14, <1>15, <2>1, Induction
<1>17. Ends(i)
  <2> HIDE DEF Ends
  <2>1. i + (n + 1 - i) = n + 1
    BY <1>1
  <2> QED BY <1>16, <2>1
<1> QED BY <1>12, <1>17

(***************************************************************************)
(* Sequences of sequences, written one behind the other.                   *)
(***************************************************************************)
\* at[i] elements of FlattenSeq(seqs) come before those of seqs[i].
Lays(seqs, at) ==
  /\ at \in [1 .. Len(seqs) + 1 -> Nat]
  /\ at[1] = 0
  /\ \A i \in 1 .. Len(seqs) : at[i + 1] = at[i] + Len(seqs[i])
  /\ at[Len(seqs) + 1] = Len(FlattenSeq(seqs))
  /\ \A i \in 1 .. Len(seqs) : at[i + 1] <= Len(FlattenSeq(seqs))
  /\ \A i \in 1 .. Len(seqs) : \A k \in 1 .. Len(seqs[i]) :
        FlattenSeq(seqs)[at[i] + k] = seqs[i][k]
Starts(seqs) == CHOOSE at : Lays(seqs, at)

Runs(f, T, a, n, step) ==
  f \in [0 .. n -> T] /\ f[0] = a /\ \A i \in 1 .. n : f[i] = step[<<f[i - 1], i>>]

\* A function that is defined along 1 .. n exists.
LEMMA Recursion ==
  ASSUME NEW T, NEW a, NEW n, NEW step,
         a \in T, n \in Nat, step \in [T \X (1 .. n) -> T]
  PROVE  \E f : Runs(f, T, a, n, step)
<1> DEFINE Goes(g, m) == /\ g \in [0 .. m -> T] /\ g[0] = a
                         /\ \A i \in 1 .. m : g[i] = step[<<g[i - 1], i>>]
           R == {m \in Nat : m <= n => \E g : Goes(g, m)}
<1>1. 0 \in R
  <2>1. Goes([i \in 0 .. 0 |-> a], 0)
    OBVIOUS
  <2> QED BY <2>1
<1>2. \A m \in Nat : m \in R => m + 1 \in R
  <2> TAKE m \in Nat
  <2> HAVE m \in R
  <2>0. ASSUME m + 1 <= n
        PROVE  \E g : Goes(g, m + 1)
    <3>1. PICK g : Goes(g, m)
      BY <2>0
    <3> DEFINE h == [i \in 0 .. m + 1 |-> IF i = m + 1 THEN step[<<g[m], m + 1>>] ELSE g[i]]
    <3>2. g[m] \in T /\ m + 1 \in 1 .. n
      BY <2>0, <3>1
    <3>3. step[<<g[m], m + 1>>] \in T
      BY <3>2
    <3>4. h \in [0 .. m + 1 -> T] /\ h[0] = a
      BY <3>1, <3>3
    <3>5. ASSUME NEW i \in 1 .. m + 1
          PROVE  h[i] = step[<<h[i - 1], i>>]
      <4>1. i \in 0 .. m + 1 /\ i - 1 \in 0 .. m + 1 /\ i - 1 # m + 1
        OBVIOUS
      <4>2. h[i - 1] = g[i - 1]
        BY <4>1
      <4>3. CASE i = m + 1
        <5>1. h[i] = step[<<g[m], m + 1>>]
          BY <4>1, <4>3
        <5>2. i - 1 = m
          BY <4>3
        <5> HIDE DEF h
        <5> QED BY <4>2, <4>3, <5>1, <5>2
      <4>4. CASE i # m + 1
        <5>1. h[i] = g[i] /\ i \in 1 .. m
          BY <4>1, <4>4
        <5> HIDE DEF h
        <5> QED BY <3>1, <4>2, <5>1
      <4> QED BY <4>3, <4>4
    <3> HIDE DEF h
    <3>6. Goes(h, m + 1)
      BY <3>4, <3>5
    <3> QED BY <3>6
  <2> HIDE DEF Goes
  <2> QED BY <2>0
<1>3. n \in R
  <2> HIDE DEF R
  <2> QED BY <1>1, <1>2, Induction
<1>4. PICK g : Goes(g, n)
  BY <1>3
<1>5. Runs(g, T, a, n, step)
  BY <1>4 DEF Runs
<1> QED BY <1>5

\* FlattenSeq as a concatenation from the left.
LEMMA FlattenRec ==
  ASSUME NEW S, NEW seqs \in Seq(Seq(S)), seqs # <<>>
  PROVE  \E f : /\ f \in [1 .. Len(seqs) -> Seq(S)]
                /\ f[1] = seqs[1]
                /\ \A i \in 2 .. Len(seqs) : f[i] = f[i - 1] \o seqs[i]
                /\ FlattenSeq(seqs) = f[Len(seqs)]
<1> DEFINE n == Len(seqs)
           step == [x \in Seq(S) \X (1 .. n) |-> x[1] \o seqs[x[2]]]
<1>0. n \in Nat \ {0} /\ \A i \in 1 .. n : seqs[i] \in Seq(S)
  OBVIOUS
<1> HIDE DEF n
<1>1. step \in [Seq(S) \X (1 .. n) -> Seq(S)]
  BY <1>0, ConcatProperties
<1>2. <<>> \in Seq(S)
  OBVIOUS
<1>3. PICK g0 \in [0 .. n -> Seq(S)] :
        g0[0] = <<>> /\ \A i \in 1 .. n : g0[i] = step[<<g0[i - 1], i>>]
  <2> DEFINE T == Seq(S)
             e == <<>>
  <2>1. n \in Nat /\ e \in T /\ step \in [T \X (1 .. n) -> T]
    BY <1>0, <1>1, <1>2
  <2> HIDE DEF step, T, e
  <2>2. \E f : Runs(f, T, e, n, step)
    BY <2>1, Recursion
  <2> QED BY <2>2 DEF T, e, Runs
<1> DEFINE g == [i \in 1 .. n |-> g0[i]]
<1>4. ASSUME NEW i \in 1 .. n
      PROVE  g0[i] = IF i = 1 THEN seqs[i] ELSE g[i - 1] \o seqs[i]
  <2>1. i - 1 \in 0 .. n /\ g0[i - 1] \in Seq(S)
    BY <1>0, <1>3
  <2>2. g0[i] = g0[i - 1] \o seqs[i]
    BY <1>3, <2>1
  <2>3. CASE i = 1
    <3>1. g0[i] = <<>> \o seqs[i] /\ seqs[i] \in Seq(S)
      <4>1. i - 1 = 0 /\ i \in 1 .. n
        BY <2>3
      <4>2. g0[i - 1] = <<>>
        BY <1>3, <4>1
      <4> QED BY <1>0, <2>2, <4>2
    <3>2. g0[i] = seqs[i]
      BY <3>1, ConcatEmptySeq
    <3> QED BY <2>3, <3>2
  <2>4. CASE i # 1
    <3>1. i - 1 \in 1 .. n
      BY <2>1, <2>4
    <3>2. g[i - 1] = g0[i - 1]
      BY <3>1
    <3> QED BY <2>2, <2>4, <3>2
  <2> QED BY <2>3, <2>4
<1> DEFINE IsAt(a) == a = [i \in 1 .. n |-> IF i = 1 THEN seqs[i] ELSE a[i - 1] \o seqs[i]]
<1>5. IsAt(g)
  BY <1>4
<1> DEFINE f == CHOOSE a : IsAt(a)
<1>6. IsAt(f)
  <2> HIDE DEF IsAt
  <2> QED BY <1>5
<1>7. FlattenSeq(seqs) = f[n]
  BY <1>0 DEF FlattenSeq, n
<1> HIDE DEF f
<1>8. g \in [1 .. n -> Seq(S)] /\ g[1] = seqs[1] /\ \A i \in 2 .. n : g[i] = g[i - 1] \o seqs[i]
  <2>1. g \in [1 .. n -> Seq(S)]
    BY <1>3
  <2>2. \A i \in 1 .. n : g[i] = g0[i]
    OBVIOUS
  <2>3. 1 \in 1 .. n /\ \A i \in 2 .. n : i \in 1 .. n /\ i # 1
    BY <1>0
  <2> HIDE DEF g
  <2>4. g[1] = seqs[1]
    BY <1>4, <2>2, <2>3
  <2>5. \A i \in 2 .. n : g[i] = g[i - 1] \o seqs[i]
    BY <1>4, <2>2, <2>3
  <2> QED BY <2>1, <2>4, <2>5
<1> HIDE DEF g, step
<1>9. f = g
  <2> DEFINE Q == {m \in Nat : m + 1 <= n => f[m + 1] = g[m + 1]}
  <2>0. \A i \in 1 .. n : f[i] = IF i = 1 THEN seqs[i] ELSE f[i - 1] \o seqs[i]
    BY <1>6
  <2>1. 0 \in Q
    BY <1>0, <1>8, <2>0
  <2>2. \A m \in Nat : m \in Q => m + 1 \in Q
    <3> TAKE m \in Nat
    <3> HAVE m \in Q
    <3>1. ASSUME m + 2 <= n PROVE f[m + 2] = g[m + 2]
      <4>1. m + 2 \in 2 .. n /\ m + 2 \in 1 .. n /\ (m + 2) - 1 = m + 1 /\ m + 2 # 1 /\ m + 1 <= n
        BY <1>0, <3>1
      <4>2. f[m + 2] = f[m + 1] \o seqs[m + 2]
        BY <2>0, <4>1
      <4>3. g[m + 2] = g[m + 1] \o seqs[m + 2]
        BY <1>8, <4>1
      <4> QED BY <4>1, <4>2, <4>3
    <3> QED BY <3>1
  <2>3. \A m \in Nat : m \in Q
    <3> HIDE DEF Q
    <3> QED BY <2>1, <2>2, Induction
  <2>4. ASSUME NEW i \in 1 .. n PROVE f[i] = g[i]
    <3>1. i - 1 \in Nat /\ (i - 1) + 1 = i /\ i <= n
      BY <1>0
    <3>2. i - 1 \in Q
      BY <2>3, <3>1
    <3> QED BY <3>1, <3>2
  <2>5. DOMAIN f = 1 .. n /\ f = [i \in 1 .. n |-> f[i]] /\ g = [i \in 1 .. n |-> g[i]]
    BY <1>6, <1>8
  <2> QED BY <2>4, <2>5
<1> QED BY <1>7, <1>8, <1>9 DEF n

\* The elements of a concatenation.
LEMMA ConcatAt ==
  ASSUME NEW S, NEW s1, NEW s2, s1 \in Seq(S), s2 \in Seq(S)
  PROVE  /\ s1 \o s2 \in Seq(S)
         /\ Len(s1 \o s2) = Len(s1) + Len(s2)
         /\ \A k \in 1 .. Len(s1) : (s1 \o s2)[k] = s1[k]
         /\ \A k \in 1 .. Len(s2) : (s1 \o s2)[Len(s1) + k] = s2[k]
<1>1. Len(s1) \in Nat /\ Len(s2) \in Nat
  OBVIOUS
<1>2. /\ s1 \o s2 \in Seq(S) /\ Len(s1 \o s2) = Len(s1) + Len(s2)
      /\ \A k \in 1 .. Len(s1) + Len(s2) :
            (s1 \o s2)[k] = IF k <= Len(s1) THEN s1[k] ELSE s2[k - Len(s1)]
  BY ConcatProperties
<1> DEFINE m == Len(s1)
           n == Len(s2)
           t == s1 \o s2
<1> HIDE DEF m, n, t
<1>3. m \in Nat /\ n \in Nat /\ \A k \in 1 .. m + n : t[k] = IF k <= m THEN s1[k] ELSE s2[k - m]
  BY <1>1, <1>2 DEF m, n, t
<1>4. \A k \in 1 .. m : t[k] = s1[k]
  BY <1>3
<1>5. ASSUME NEW k \in 1 .. n PROVE t[m + k] = s2[k]
  <2>1. m + k \in 1 .. m + n /\ ~(m + k <= m) /\ (m + k) - m = k
    BY <1>3
  <2> QED BY <1>3, <2>1
<1> QED BY <1>2, <1>4, <1>5 DEF m, n, t

\* FlattenSeq lays its sequences one behind the other.
LEMMA FlattenLays ==
  ASSUME NEW S, NEW seqs \in Seq(Seq(S))
  PROVE  FlattenSeq(seqs) \in Seq(S) /\ Lays(seqs, Starts(seqs))
<1> DEFINE n == Len(seqs)
<1>0. n \in Nat /\ \A i \in 1 .. n : seqs[i] \in Seq(S) /\ Len(seqs[i]) \in Nat
  OBVIOUS
<1>1. CASE seqs = <<>>
  <2>1. FlattenSeq(seqs) = <<>> /\ n = 0
    BY <1>1 DEF FlattenSeq
  <2>2. Lays(seqs, [i \in 1 .. 1 |-> 0])
    BY <2>1 DEF Lays
  <2> QED BY <2>1, <2>2 DEF Starts
<1>2. CASE seqs # <<>>
  <2> HIDE DEF n
  <2>0. n \in Nat \ {0}
    BY <1>0, <1>2 DEF n
  <2>1. PICK f : /\ f \in [1 .. n -> Seq(S)]
                 /\ f[1] = seqs[1]
                 /\ \A i \in 2 .. n : f[i] = f[i - 1] \o seqs[i]
                 /\ FlattenSeq(seqs) = f[n]
    BY <1>2, FlattenRec DEF n
  <2> DEFINE at == [i \in 1 .. n + 1 |-> IF i = 1 THEN 0 ELSE Len(f[i - 1])]
  <2>2. \A i \in 1 .. n : f[i] \in Seq(S) /\ Len(f[i]) \in Nat
    <3> TAKE i \in 1 .. n
    <3>1. f[i] \in Seq(S)
      BY <2>1
    <3> QED BY <3>1, LenProperties
  <2>3. at \in [1 .. n + 1 -> Nat]
    BY <2>2
  <2>4. at[1] = 0
    BY <2>0
  <2>4a. ASSUME NEW i \in 1 .. n PROVE at[i + 1] = Len(f[i])
    BY <2>0
  <2>4b. ASSUME NEW i \in 2 .. n PROVE at[i] = Len(f[i - 1])
    BY <2>0
  <2>5. ASSUME NEW i \in 1 .. n
        PROVE  at[i + 1] = at[i] + Len(seqs[i])
    <3>1. CASE i = 1
      BY <1>0, <2>1, <2>4, <2>4a, <3>1
    <3>2. CASE i # 1
      <4>1. i \in 2 .. n /\ i - 1 \in 1 .. n
        BY <2>0, <3>2
      <4>2. f[i] = f[i - 1] \o seqs[i]
        BY <2>1, <4>1
      <4>3. Len(f[i]) = Len(f[i - 1]) + Len(seqs[i])
        BY <1>0, <2>2, <4>1, <4>2, ConcatProperties
      <4> HIDE DEF at
      <4> QED BY <2>4a, <2>4b, <4>1, <4>3
    <3> QED BY <3>1, <3>2
  <2> HIDE DEF at
  \* f[j] begins with f[i] for every j >= i
  <2> DEFINE Keeps(m) == \A i \in 1 .. n : i + m <= n =>
                            /\ Len(f[i]) <= Len(f[i + m])
                            /\ \A k \in 1 .. Len(f[i]) : f[i + m][k] = f[i][k]
             R == {m \in Nat : Keeps(m)}
  <2>6. 0 \in R
    BY <2>2
  <2>7. \A m \in Nat : m \in R => m + 1 \in R
    <3> TAKE m \in Nat
    <3> HAVE m \in R
    <3>1. ASSUME NEW i \in 1 .. n, i + (m + 1) <= n
          PROVE  /\ Len(f[i]) <= Len(f[i + (m + 1)])
                 /\ \A k \in 1 .. Len(f[i]) : f[i + (m + 1)][k] = f[i][k]
      <4>1. i + (m + 1) \in 2 .. n /\ i + m \in 1 .. n /\ (i + (m + 1)) - 1 = i + m
        BY <2>0, <3>1
      <4>2. f[i + (m + 1)] = f[i + m] \o seqs[i + (m + 1)] /\ seqs[i + (m + 1)] \in Seq(S)
        <5> DEFINE j == i + (m + 1)
        <5>1. j \in 2 .. n /\ j \in 1 .. n /\ j - 1 = i + m
          BY <4>1, <2>0
        <5> HIDE DEF j
        <5>2. f[j] = f[j - 1] \o seqs[j]
          BY <2>1, <5>1
        <5>3. seqs[j] \in Seq(S)
          BY <1>0, <5>1 DEF n
        <5> QED BY <5>1, <5>2, <5>3 DEF j
      <4>3. f[i + m] \in Seq(S)
        BY <2>2, <4>1
      <4>4. /\ Len(f[i + (m + 1)]) = Len(f[i + m]) + Len(seqs[i + (m + 1)])
            /\ \A k \in 1 .. Len(f[i + m]) : f[i + (m + 1)][k] = f[i + m][k]
        <5> DEFINE s1 == f[i + m]
                   s2 == seqs[i + (m + 1)]
        <5>1. s1 \in Seq(S) /\ s2 \in Seq(S) /\ f[i + (m + 1)] = s1 \o s2
          BY <4>2, <4>3
        <5> HIDE DEF s1, s2
        <5>2. /\ Len(s1 \o s2) = Len(s1) + Len(s2)
              /\ \A k \in 1 .. Len(s1) + Len(s2) :
                    (s1 \o s2)[k] = IF k <= Len(s1) THEN s1[k] ELSE s2[k - Len(s1)]
          BY <5>1, ConcatProperties
        <5>3. Len(s1) \in Nat /\ Len(s2) \in Nat
          BY <5>1, LenProperties
        <5>4. \A k \in 1 .. Len(s1) : (s1 \o s2)[k] = s1[k]
          BY <5>2, <5>3
        <5> QED BY <5>1, <5>2, <5>4 DEF s1, s2
      <4>5. /\ Len(f[i]) <= Len(f[i + m])
            /\ \A k \in 1 .. Len(f[i]) : f[i + m][k] = f[i][k]
        BY <2>0, <3>1
      <4>6. Len(f[i]) \in Nat /\ Len(f[i + m]) \in Nat /\ Len(seqs[i + (m + 1)]) \in Nat
        <5>1. f[i] \in Seq(S)
          BY <2>2
        <5>2. seqs[i + (m + 1)] \in Seq(S)
          BY <4>2
        <5> QED BY <4>3, <5>1, <5>2, LenProperties
      <4>7. Len(f[i]) <= Len(f[i + (m + 1)])
        <5> DEFINE a == Len(f[i])
                   b == Len(f[i + m])
                   c == Len(seqs[i + (m + 1)])
        <5>1. a \in Nat /\ b \in Nat /\ c \in Nat /\ a <= b /\ Len(f[i + (m + 1)]) = b + c
          BY <4>4, <4>5, <4>6
        <5> HIDE DEF a, b, c
        <5>2. a <= Len(f[i + (m + 1)])
          BY <5>1
        <5> QED BY <5>2 DEF a
      <4>8. \A k \in 1 .. Len(f[i]) : k \in 1 .. Len(f[i + m])
        BY <4>5, <4>6
      <4> QED BY <4>4, <4>5, <4>7, <4>8
    <3> HIDE DEF n, at
    <3>2. Keeps(m + 1)
      BY <3>1
    <3> HIDE DEF Keeps
    <3> QED BY <3>2
  <2>8. \A m \in Nat : Keeps(m)
    <3>1. \A m \in Nat : m \in R
      <4> HIDE DEF R
      <4> QED BY <2>6, <2>7, Induction
    <3> QED BY <3>1
  <2>9. ASSUME NEW i \in 1 .. n
        PROVE  /\ Len(f[i]) <= Len(f[n])
               /\ \A k \in 1 .. Len(f[i]) : f[n][k] = f[i][k]
    <3>1. n - i \in Nat /\ i + (n - i) <= n /\ i + (n - i) = n
      BY <2>0
    <3>2. Keeps(n - i)
      BY <2>8, <3>1
    <3> QED BY <3>1, <3>2
  <2>10. ASSUME NEW i \in 1 .. n, NEW k \in 1 .. Len(seqs[i])
         PROVE  f[n][at[i] + k] = seqs[i][k]
    <3>0. Len(seqs[i]) \in Nat /\ seqs[i] \in Seq(S)
      BY <1>0 DEF n
    <3>1. CASE i = 1
      <4>1. at[i] + k = k /\ f[1] = seqs[1]
        BY <2>1, <2>4, <3>1
      <4> QED BY <2>9, <3>1, <4>1
    <3>2. CASE i # 1
      <4>1. i \in 2 .. n /\ i - 1 \in 1 .. n
        BY <2>0, <3>2
      <4>2. f[i] = f[i - 1] \o seqs[i] /\ f[i - 1] \in Seq(S) /\ Len(f[i - 1]) \in Nat
        BY <2>1, <2>2, <4>1
      <4>3. at[i] = Len(f[i - 1])
        BY <2>4b, <4>1
      <4>4. at[i] + k \in 1 .. Len(f[i - 1]) + Len(seqs[i]) /\ ~(at[i] + k <= Len(f[i - 1]))
            /\ at[i] + k - Len(f[i - 1]) = k
        <5> DEFINE a == Len(f[i - 1])
                   b == Len(seqs[i])
        <5>1. a \in Nat /\ b \in Nat /\ at[i] = a /\ k \in 1 .. b
          BY <3>0, <4>2, <4>3
        <5> HIDE DEF a, b
        <5>2. at[i] + k \in 1 .. a + b /\ ~(at[i] + k <= a) /\ at[i] + k - a = k
          BY <5>1
        <5> QED BY <5>2 DEF a, b
      <4>5. f[i][at[i] + k] = seqs[i][k] /\ Len(f[i]) = Len(f[i - 1]) + Len(seqs[i])
        <5> DEFINE s1 == f[i - 1]
                   s2 == seqs[i]
        <5>1. s1 \in Seq(S) /\ s2 \in Seq(S) /\ f[i] = s1 \o s2 /\ at[i] = Len(s1) /\ k \in 1 .. Len(s2)
          BY <3>0, <4>2, <4>3
        <5> HIDE DEF s1, s2
        <5>2. (s1 \o s2)[Len(s1) + k] = s2[k] /\ Len(s1 \o s2) = Len(s1) + Len(s2)
          BY <5>1, ConcatAt
        <5>3. f[i][at[i] + k] = s2[k] /\ Len(f[i]) = Len(s1) + Len(s2)
          BY <5>1, <5>2
        <5> QED BY <5>3 DEF s1, s2
      <4>6. at[i] + k \in 1 .. Len(f[i])
        BY <4>4, <4>5
      <4> QED BY <2>9, <4>5, <4>6
    <3> QED BY <3>1, <3>2
  <2>11. at[n + 1] = Len(f[n])
    BY <2>0, <2>4a
  <2>12. \A i \in 1 .. n : at[i + 1] <= Len(f[n])
    BY <2>4a, <2>9
  <2>13. Lays(seqs, at)
    BY <2>1, <2>3, <2>4, <2>5, <2>10, <2>11, <2>12 DEF Lays, n
  <2>14. FlattenSeq(seqs) \in Seq(S)
    BY <2>0, <2>1, <2>2
  <2> QED BY <2>13, <2>14 DEF Starts
<1> QED BY <1>1, <1>2

\* The bits of a data block, one byte behind the other.
LEMMA ByteType == ASSUME NEW d \in Byte PROVE d \in Seq(Bit) /\ Len(d) = ByteBits
<1>1. ByteBits \in Nat
  BY PlayerAssumption
<1>2. d \in Seq(Bit)
  BY <1>1, SeqDef DEF Byte
<1>3. DOMAIN d = 1 .. ByteBits /\ DOMAIN d = 1 .. Len(d) /\ Len(d) \in Nat
  BY <1>2 DEF Byte
<1> QED BY <1>1, <1>2, <1>3

\* The bits of the data, byte by byte.
LEMMA FlattenData ==
  ASSUME NEW d \in Data
  PROVE  /\ FlattenSeq(d) \in Seq(Bit) /\ Len(FlattenSeq(d)) = Len(d) * ByteBits
         /\ \A i \in 1 .. Len(d), k \in 1 .. ByteBits :
               FlattenSeq(d)[(i - 1) * ByteBits + k] = d[i][k]
<1> DEFINE n == Len(d)
           at == Starts(d)
<1>1. n \in Nat /\ d \in Seq(Byte) /\ \A i \in 1 .. n : d[i] \in Byte
  BY DEF Data
<1>2. ByteBits \in Nat
  BY PlayerAssumption
<1>3. Byte \subseteq Seq(Bit)
  BY ByteType
<1>4. d \in Seq(Seq(Bit))
  BY <1>1, <1>3, SeqMonotonic
<1>5. FlattenSeq(d) \in Seq(Bit) /\ Lays(d, at)
  BY <1>4, FlattenLays
<1>6. \A i \in 1 .. n : Len(d[i]) = ByteBits
  BY <1>1, ByteType
<1>7. at[1] = 0 /\ \A i \in 1 .. n : at[i + 1] = at[i] + ByteBits
  BY <1>5, <1>6 DEF Lays
<1> HIDE DEF at, n
<1> DEFINE R == {m \in Nat : m <= n => at[m + 1] = m * ByteBits}
<1>8. 0 \in R
  BY <1>2, <1>7
<1>9. \A m \in Nat : m \in R => m + 1 \in R
  <2> TAKE m \in Nat
  <2> HAVE m \in R
  <2>1. ASSUME m + 1 <= n PROVE at[(m + 1) + 1] = (m + 1) * ByteBits
    <3>1. m + 1 \in 1 .. n /\ m <= n
      BY <1>1, <2>1
    <3>2. at[(m + 1) + 1] = at[m + 1] + ByteBits /\ at[m + 1] = m * ByteBits
      BY <1>7, <3>1
    <3>3. (m + 1) * ByteBits = m * ByteBits + ByteBits
      BY <1>2
    <3> QED BY <3>2, <3>3
  <2> QED BY <2>1
<1>10. \A m \in Nat : m \in R
  <2> HIDE DEF R
  <2> QED BY <1>8, <1>9, Induction
<1>11. ASSUME NEW i \in 1 .. n PROVE at[i] = (i - 1) * ByteBits
  <2>1. i - 1 \in Nat /\ i - 1 <= n /\ (i - 1) + 1 = i
    BY <1>1
  <2>2. i - 1 \in R
    BY <1>10, <2>1
  <2> QED BY <2>1, <2>2
<1>12. at[n + 1] = n * ByteBits
  <2>1. n \in R
    BY <1>1, <1>10
  <2> QED BY <1>1, <2>1
<1>13. \A i \in 1 .. n : \A k \in 1 .. ByteBits : FlattenSeq(d)[at[i] + k] = d[i][k]
  BY <1>5, <1>6 DEF Lays, n
<1> QED BY <1>5, <1>11, <1>12, <1>13 DEF Lays, n

(***************************************************************************)
(* What is recorded for a block: a pilot tone, pulses from a table, bits   *)
(* or samples, and a pause, of which each kind of block has some.          *)
(***************************************************************************)
Intervals == [kind : {"pulse", "sample", "hold", "low"}, bit : Bit, length : Nat]
WithPilot == {Std, Turbo, Tone}
WithTable == {Std, Turbo, Pulses}
WithBits  == {Std, Turbo, Pure}
WithPause == {Std, Turbo, Pure, Direct, Silence}
Shape(b)  == IF b.id = Std THEN Standard ELSE b
PilotLength(b) == IF b.id \in WithPilot THEN Shape(b).pulses ELSE 0
TableLength(b) == IF b.id \in WithTable THEN Len(Table(b)) ELSE 0
DataStart(b)   == PilotLength(b) + TableLength(b)
DataLength(b)  == CASE b.id \in WithBits -> 2 * DataBits(b) [] b.id = Direct -> DataBits(b) [] OTHER -> 0
GapLength(b)   == IF b.id \in WithPause /\ b.pause # 0 THEN 2 ELSE 0
BitLength(b, k) == CYCLE_ADJUST(IF Bits(b)[k] = 1 THEN Shape(b).one ELSE Shape(b).zero)

\* The sizes of words.
LEMMA WordsType == HalfWord \in Nat \ {0} /\ HalfWords \subseteq Word /\ Word \subseteq Nat
                   /\ HalfWord * HalfWord \in Nat \ {0} /\ 0 \in HalfWords /\ 0 \in Word
<1>1. HalfWord \in Nat \ {0}
  BY PlayerAssumption
<1>2. HalfWord * HalfWord \in Nat /\ HalfWord * HalfWord >= HalfWord
  BY <1>1
<1> QED BY <1>1, <1>2 DEF HalfWords, Word

\* CYCLE_ADJUST fits its result into a half word.
LEMMA CycleType == ASSUME NEW n \in Nat PROVE CYCLE_ADJUST(n) \in HalfWords
<1> DEFINE k == (40 * HalfWord) \div 35
           w == HalfWord * HalfWord
           m == n * k
<1>1. k \in Nat /\ w \in Nat \ {0}
  BY WordsType
<1> HIDE DEF k, w
<1>2. m \in Nat
  BY <1>1
<1> HIDE DEF m
<1>3. m % w \in 0 .. w - 1
  BY <1>1, <1>2
<1> DEFINE r == m % w
           d == r \div HalfWord
<1>4. r \in Nat /\ r < w
  BY <1>1, <1>3
<1> HIDE DEF r
<1>5. d \in Nat /\ r = HalfWord * d + (r % HalfWord) /\ r % HalfWord \in Nat
  BY <1>4, WordsType
<1> HIDE DEF d
<1>6. HalfWord * d < HalfWord * HalfWord
  <2>1. HalfWord * d \in Nat
    BY <1>5, WordsType
  <2>2. HalfWord * d <= r
    BY <1>4, <1>5, <2>1
  <2> QED BY <1>1, <1>4, <2>1, <2>2 DEF w
<1>7. d < HalfWord
  <2>1. SUFFICES ASSUME d >= HalfWord PROVE HalfWord * d >= HalfWord * HalfWord
    BY <1>5, <1>6, WordsType
  <2> QED BY <1>5, <2>1, WordsType
<1>8. d \in HalfWords
  BY <1>5, <1>7, WordsType DEF HalfWords
<1>9. CYCLE_ADJUST(n) = d
  BY DEF CYCLE_ADJUST, d, r, m, k, w
<1> QED BY <1>8, <1>9

\* The cycles of a pause fit into a word.
LEMMA MsType ==
  ASSUME NEW n \in HalfWords
  PROVE  MS_TO_CYCLES(1) \in Word /\ (n # 0 => MS_TO_CYCLES(n - 1) \in Word)
<1>1. CyclesPerMs \in Nat /\ CyclesPerMs <= HalfWord /\ HalfWord \in Nat \ {0}
  BY PlayerAssumption, TapeAssumption, WordsType
<1>2. HalfWord * HalfWord >= HalfWord
  BY <1>1
<1>3. n \in Nat /\ n < HalfWord
  BY <1>1 DEF HalfWords
<1>4. CASE n # 0
  <2>1. n - 1 \in Nat /\ (n - 1) + 2 <= HalfWord
    BY <1>1, <1>3, <1>4
  <2> DEFINE m == n - 1
  <2>2. m \in Nat /\ m + 2 <= HalfWord
    BY <2>1
  <2> HIDE DEF m
  <2>3. m * CyclesPerMs \in Nat /\ m * CyclesPerMs <= m * HalfWord
    BY <1>1, <2>2
  <2>4. m * HalfWord < HalfWord * HalfWord
    <3>1. m * HalfWord <= (HalfWord - 2) * HalfWord
      BY <1>1, <2>2
    <3>2. (HalfWord - 2) * HalfWord = HalfWord * HalfWord - 2 * HalfWord
      BY <1>1
    <3> QED BY <1>1, <2>2, <3>1, <3>2
  <2>5. m * CyclesPerMs < HalfWord * HalfWord
    BY <1>1, <2>2, <2>3, <2>4
  <2>6. m * CyclesPerMs \in Word
    BY <1>1, <2>3, <2>5 DEF Word
  <2>7. CyclesPerMs \in Word
    <3>1. HalfWord >= 2
      BY <1>1, <2>2
    <3>2. HalfWord * HalfWord >= 2 * HalfWord
      BY <1>1, <3>1
    <3> QED BY <1>1, <3>1, <3>2 DEF Word
  <2> QED BY <2>6, <2>7, <1>1 DEF MS_TO_CYCLES, m
<1>5. CASE n = 0
  <2>1. HalfWord >= 2
    BY TapeAssumption, PlayerAssumption
  <2>2. HalfWord * HalfWord >= 2 * HalfWord
    BY <1>1, <2>1
  <2> QED BY <1>1, <1>5, <2>1, <2>2 DEF MS_TO_CYCLES, Word
<1> QED BY <1>4, <1>5

\* A train of pulses, one for each length.
LEMMA TrainType ==
  ASSUME NEW s \in Seq(HalfWords)
  PROVE  /\ Train(s) \in Seq(Intervals) /\ Len(Train(s)) = Len(s)
         /\ \A i \in 1 .. Len(s) : Train(s)[i] = Interval("pulse", CYCLE_ADJUST(s[i]))
<1> DEFINE n == Len(s)
           t == [i \in 1 .. n |-> Interval("pulse", CYCLE_ADJUST(s[i]))]
<1>1. n \in Nat /\ DOMAIN s = 1 .. n /\ \A i \in 1 .. n : s[i] \in Nat
  <2>1. n \in Nat /\ DOMAIN s = 1 .. n /\ \A i \in 1 .. n : s[i] \in HalfWords
    OBVIOUS
  <2>2. HalfWords \subseteq Nat
    BY WordsType
  <2> QED BY <2>1, <2>2
<1>2. \A i \in 1 .. n : Interval("pulse", CYCLE_ADJUST(s[i])) \in Intervals
  BY <1>1, CycleType, WordsType DEF Interval, Intervals, Bit
<1>3. t \in [1 .. n -> Intervals]
  BY <1>2
<1>4. t = Train(s)
  BY <1>1 DEF Train
<1> HIDE DEF t
<1>5. t \in Seq(Intervals)
  BY <1>1, <1>3, SeqDef
<1>6. Len(t) = n
  <2>1. DOMAIN t = 1 .. n /\ DOMAIN t = 1 .. Len(t) /\ Len(t) \in Nat
    BY <1>3, <1>5
  <2> QED BY <1>1, <2>1
<1> QED BY <1>4, <1>5, <1>6 DEF t

\* A pause is nothing, or a hold and a low.
LEMMA GapType ==
  ASSUME NEW ms \in HalfWords
  PROVE  /\ Gap(ms) \in Seq(Intervals)
         /\ Len(Gap(ms)) = IF ms = 0 THEN 0 ELSE 2
         /\ ms # 0 => /\ Gap(ms)[1] = Interval("hold", MS_TO_CYCLES(1))
                      /\ Gap(ms)[2] = Interval("low", MS_TO_CYCLES(ms - 1))
<1>1. MS_TO_CYCLES(1) \in Nat /\ (ms # 0 => MS_TO_CYCLES(ms - 1) \in Nat)
  BY MsType, WordsType
<1>2. /\ Interval("hold", MS_TO_CYCLES(1)) \in Intervals
      /\ ms # 0 => Interval("low", MS_TO_CYCLES(ms - 1)) \in Intervals
  BY <1>1 DEF Interval, Intervals, Bit
<1> QED BY <1>2 DEF Gap

\* The number of bits of a data block.
LEMMA DataBitsType ==
  ASSUME NEW b \in Blocks, b.id \in {Std, Turbo, Pure, Direct}
  PROVE  /\ DataBits(b) \in Nat \ {0}
         /\ DataBits(b) <= Len(b.data) * ByteBits
         /\ Len(b.data) * ByteBits \in Word /\ DataBits(b) \in Word
         /\ Bits(b) \in Seq(Bit) /\ Len(Bits(b)) = DataBits(b)
         /\ \A k \in 1 .. DataBits(b) : Bits(b)[k] = FlattenSeq(b.data)[k] /\ Bits(b)[k] \in Bit
<1> DEFINE n == Len(b.data)
           s == FlattenSeq(b.data)
           m == DataBits(b)
<1>1. b.data \in Data /\ n \in Nat \ {0} /\ n * ByteBits \in Word
  BY BlockKinds, DataLen DEF Data
<1>2. ByteBits \in Nat \ {0}
  BY PlayerAssumption
<1>3. b.id # Std => b.bits \in 1 .. ByteBits
  BY BlockKinds
<1>4. s \in Seq(Bit) /\ Len(s) = n * ByteBits
  BY <1>1, FlattenData
<1> HIDE DEF n, s
<1>5. (n - 1) * ByteBits = n * ByteBits - ByteBits /\ n * ByteBits \in Nat /\ n * ByteBits >= ByteBits
  BY <1>1, <1>2
<1>6. m \in Nat \ {0} /\ m <= n * ByteBits
  <2>1. CASE b.id = Std
    BY <1>1, <1>2, <1>5, <2>1 DEF DataBits, n
  <2>2. CASE b.id # Std
    <3>1. m = (n - 1) * ByteBits + b.bits
      BY <2>2 DEF DataBits, n
    <3> HIDE DEF m
    <3> QED BY <1>1, <1>2, <1>3, <1>5, <2>2, <3>1
  <2> QED BY <2>1, <2>2
<1> HIDE DEF m
<1>7. m \in Word
  BY <1>1, <1>6, WordsType DEF Word
<1>8. /\ SubSeq(s, 1, m) \in Seq(Bit) /\ Len(SubSeq(s, 1, m)) = m
      /\ \A k \in 1 .. m : SubSeq(s, 1, m)[k] = s[k]
  <2>1. \A i \in 1 .. m : s[i] \in Bit
    BY <1>4, <1>5, <1>6
  <2>2. /\ SubSeq(s, 1, m) \in Seq(Bit)
        /\ Len(SubSeq(s, 1, m)) = IF 1 <= m THEN m - 1 + 1 ELSE 0
        /\ \A i \in 1 .. m - 1 + 1 : SubSeq(s, 1, m)[i] = s[1 + i - 1]
    BY <1>6, <2>1, SubSeqProperties
  <2> QED BY <1>6, <2>2
<1>9. Bits(b) = SubSeq(s, 1, m)
  BY DEF Bits, s, m
<1>10. \A k \in 1 .. m : s[k] \in Bit
  BY <1>4, <1>5, <1>6
<1> QED BY <1>1, <1>6, <1>7, <1>8, <1>9, <1>10 DEF n, m, s

\* Its bits.
LEMMA BitsType ==
  ASSUME NEW b \in Blocks, b.id \in WithBits, NEW t, t.one \in HalfWords, t.zero \in HalfWords
  PROVE  /\ DataTrain(b, t) \in Seq(Intervals) /\ Len(DataTrain(b, t)) = 2 * DataBits(b)
         /\ \A k \in 1 .. DataBits(b) :
               \A i \in {2 * k - 1, 2 * k} :
                  DataTrain(b, t)[i] =
                    Interval("pulse", CYCLE_ADJUST(IF Bits(b)[k] = 1 THEN t.one ELSE t.zero))
<1> DEFINE m == DataBits(b)
           n == 2 * m
           s == [i \in 1 .. n |-> IF Bits(b)[(i + 1) \div 2] = 1 THEN t.one ELSE t.zero]
<1>1. m \in Nat
  BY DataBitsType DEF WithBits
<1> HIDE DEF m
<1>2. n \in Nat
  BY <1>1
<1>3. s \in [1 .. n -> HalfWords]
  OBVIOUS
<1>4. s \in Seq(HalfWords)
  <2> HIDE DEF s, n
  <2> QED BY <1>2, <1>3, SeqDef
<1>5. Len(s) = n
  <2> HIDE DEF s, n
  <2>1. DOMAIN s = 1 .. n /\ DOMAIN s = 1 .. Len(s) /\ Len(s) \in Nat
    BY <1>3, <1>4
  <2> QED BY <1>2, <2>1
<1>6. /\ Train(s) \in Seq(Intervals) /\ Len(Train(s)) = n
      /\ \A i \in 1 .. n : Train(s)[i] = Interval("pulse", CYCLE_ADJUST(s[i]))
  <2> HIDE DEF s, n
  <2> QED BY <1>4, <1>5, TrainType
<1>7. DataTrain(b, t) = Train(s)
  BY DEF DataTrain, m
<1>8. ASSUME NEW k \in 1 .. m, NEW i \in {2 * k - 1, 2 * k}
      PROVE  i \in 1 .. n /\ s[i] = IF Bits(b)[k] = 1 THEN t.one ELSE t.zero
  <2>1. i \in 1 .. n /\ (i + 1) \div 2 = k
    BY <1>1
  <2> QED BY <2>1
<1> HIDE DEF s
<1> QED BY <1>6, <1>7, <1>8 DEF m

\* Its samples.
LEMMA SamplesType ==
  ASSUME NEW b \in Blocks, b.id = Direct
  PROVE  /\ Samples(b) \in Seq(Intervals) /\ Len(Samples(b)) = DataBits(b)
         /\ \A k \in 1 .. DataBits(b) :
               Samples(b)[k] = [kind |-> "sample", bit |-> Bits(b)[k], length |-> CYCLE_ADJUST(b.sample)]
<1> DEFINE m == DataBits(b)
           iv(k) == [kind |-> "sample", bit |-> Bits(b)[k], length |-> CYCLE_ADJUST(b.sample)]
           s == [i \in 1 .. m |-> iv(i)]
<1>1. m \in Nat /\ \A k \in 1 .. m : Bits(b)[k] \in Bit
  BY DataBitsType
<1>2. CYCLE_ADJUST(b.sample) \in Nat
  BY BlockKinds, CycleType, WordsType
<1>3. Samples(b) = s
  BY DEF Samples, Interval
<1> HIDE DEF m
<1>4. s \in [1 .. m -> Intervals]
  BY <1>1, <1>2 DEF Intervals
<1> HIDE DEF s
<1>5. s \in Seq(Intervals)
  BY <1>1, <1>4, SeqDef
<1>6. Len(s) = m
  <2>1. DOMAIN s = 1 .. m /\ DOMAIN s = 1 .. Len(s) /\ Len(s) \in Nat
    BY <1>4, <1>5
  <2> QED BY <1>1, <2>1
<1> QED BY <1>3, <1>5, <1>6 DEF s, m

\* A pilot tone.
LEMMA PilotType ==
  ASSUME NEW b, b.pulses \in HalfWords, b.pilot \in HalfWords
  PROVE  /\ Pilot(b) \in Seq(Intervals) /\ Len(Pilot(b)) = b.pulses
         /\ \A i \in 1 .. b.pulses : Pilot(b)[i] = Interval("pulse", CYCLE_ADJUST(b.pilot))
<1> DEFINE n == b.pulses
           s == [i \in 1 .. n |-> b.pilot]
<1>1. n \in Nat
  BY WordsType
<1>2. s \in [1 .. n -> HalfWords] /\ Pilot(b) = Train(s)
  BY DEF Pilot
<1>3. \A i \in 1 .. n : s[i] = b.pilot
  OBVIOUS
<1> HIDE DEF s, n
<1>4. s \in Seq(HalfWords)
  BY <1>1, <1>2, SeqDef
<1>5. Len(s) = n
  <2>1. DOMAIN s = 1 .. n /\ DOMAIN s = 1 .. Len(s) /\ Len(s) \in Nat
    BY <1>2, <1>4
  <2> QED BY <1>1, <2>1
<1> QED BY <1>2, <1>3, <1>4, <1>5, TrainType DEF n

\* The fields that shape the pulses of a block.
LEMMA ShapeType ==
  ASSUME NEW b \in Blocks
  PROVE  /\ b.id \in WithPilot => Shape(b).pulses \in HalfWords /\ Shape(b).pilot \in HalfWords
         /\ b.id \in WithTable => /\ Table(b) \in Seq(HalfWords) /\ Len(Table(b)) \in Word \ {0}
                                  /\ b.id # Pulses => Len(Table(b)) = 2
                                  /\ \A k \in 1 .. Len(Table(b)) : Table(b)[k] \in HalfWords
         /\ b.id \in WithBits => Shape(b).zero \in HalfWords /\ Shape(b).one \in HalfWords
<1>1. Standard \in [pilot : HalfWords, pulses : HalfWords, sync : Pair,
                    zero : HalfWords, one : HalfWords]
  BY TapeAssumption
<1>2. b.id \in WithPilot => Shape(b).pulses \in HalfWords /\ Shape(b).pilot \in HalfWords
  BY <1>1, BlockKinds DEF Shape, WithPilot
<1>3. b.id \in WithBits => Shape(b).zero \in HalfWords /\ Shape(b).one \in HalfWords
  BY <1>1, BlockKinds DEF Shape, WithBits
<1>4. ASSUME NEW s \in Pair PROVE s \in Seq(HalfWords) /\ Len(s) = 2
  <2>1. s \in Seq(HalfWords)
    BY SeqDef DEF Pair
  <2>2. DOMAIN s = 1 .. 2
    BY DEF Pair
  <2>3. DOMAIN s = 1 .. Len(s) /\ Len(s) \in Nat
    BY <2>1
  <2> QED BY <2>1, <2>2, <2>3
<1>6. 2 \in Word \ {0}
  <2>1. HalfWord \in Nat /\ HalfWord >= 2
    BY TapeAssumption, PlayerAssumption
  <2>2. HalfWord * HalfWord >= 2 * HalfWord
    BY <2>1
  <2> QED BY <2>1, <2>2 DEF Word
<1>5. ASSUME b.id \in WithTable
      PROVE  /\ Table(b) \in Seq(HalfWords) /\ Len(Table(b)) \in Word \ {0}
             /\ b.id # Pulses => Len(Table(b)) = 2
  <2>1. CASE b.id = Std
    <3>1. Table(b) = Standard.sync
      BY <2>1 DEF Table, Std, Turbo, Pulses
    <3>2. Standard.sync \in Pair
      BY <1>1
    <3> QED BY <1>4, <1>6, <3>1, <3>2
  <2>2. CASE b.id = Turbo
    <3>1. Table(b) = b.sync
      BY <2>2 DEF Table, Std, Turbo, Pulses
    <3> QED BY <1>4, <1>6, <2>2, <3>1, BlockKinds
  <2>3. CASE b.id = Pulses
    <3>1. Table(b) = b.table
      BY <2>3 DEF Table, Std, Turbo, Pulses
    <3>2. b.table \in PulseList
      BY <2>3, BlockKinds
    <3>3. \A l \in 1 .. HalfWord - 1 : l \in Word \ {0}
      BY WordsType DEF HalfWords
    <3> QED BY <2>3, <3>1, <3>2, <3>3 DEF PulseList
  <2> QED BY <1>5, <2>1, <2>2, <2>3 DEF WithTable
<1>7. b.id \in WithTable => \A k \in 1 .. Len(Table(b)) : Table(b)[k] \in HalfWords
  BY <1>5
<1> QED BY <1>2, <1>3, <1>5, <1>7

Joined(t, s1, s2, S) ==
  /\ t \in Seq(S)
  /\ Len(t) = Len(s1) + Len(s2)
  /\ \A k \in 1 .. Len(s1) : t[k] = s1[k]
  /\ \A k \in 1 .. Len(s2) : t[Len(s1) + k] = s2[k]
JoinedFour(t, a, b, c, d, S) ==
  /\ t \in Seq(S)
  /\ Len(t) = Len(a) + Len(b) + Len(c) + Len(d)
  /\ \A k \in 1 .. Len(a) : t[k] = a[k]
  /\ \A k \in 1 .. Len(b) : t[Len(a) + k] = b[k]
  /\ \A k \in 1 .. Len(c) : t[Len(a) + Len(b) + k] = c[k]
  /\ \A k \in 1 .. Len(d) : t[Len(a) + Len(b) + Len(c) + k] = d[k]

\* The elements of a sequence joined of two.
LEMMA Join ==
  ASSUME NEW S, NEW s1, NEW s2, s1 \in Seq(S), s2 \in Seq(S)
  PROVE  Joined(s1 \o s2, s1, s2, S)
BY ConcatAt DEF Joined

\* And of four.
LEMMA Four ==
  ASSUME NEW S, NEW a, NEW b, NEW c, NEW d,
         a \in Seq(S), b \in Seq(S), c \in Seq(S), d \in Seq(S)
  PROVE  JoinedFour(a \o b \o c \o d, a, b, c, d, S)
<1> DEFINE x == a \o b
           y == x \o c
           z == y \o d
           la == Len(a)
           lb == Len(b)
           lc == Len(c)
           ld == Len(d)
<1>1. la \in Nat /\ lb \in Nat /\ lc \in Nat /\ ld \in Nat
  OBVIOUS
<1>0. Joined(x, a, b, S)
  BY Join
<1>2. /\ x \in Seq(S) /\ Len(x) = la + lb
      /\ \A k \in 1 .. la : x[k] = a[k]
      /\ \A k \in 1 .. lb : x[la + k] = b[k]
  BY <1>0 DEF Joined
<1> HIDE DEF x
<1>3a. Joined(y, x, c, S)
  BY <1>2, Join
<1>3. /\ y \in Seq(S) /\ Len(y) = Len(x) + lc
      /\ \A k \in 1 .. Len(x) : y[k] = x[k]
      /\ \A k \in 1 .. lc : y[Len(x) + k] = c[k]
  BY <1>3a DEF Joined
<1> HIDE DEF y
<1>4a. Joined(z, y, d, S)
  BY <1>3, Join
<1>4. /\ z \in Seq(S) /\ Len(z) = Len(y) + ld
      /\ \A k \in 1 .. Len(y) : z[k] = y[k]
      /\ \A k \in 1 .. ld : z[Len(y) + k] = d[k]
  BY <1>4a DEF Joined
<1> HIDE DEF z, la, lb, lc, ld
<1>5. \A k \in 1 .. la : z[k] = a[k]
  <2> TAKE k \in 1 .. la
  <2>1. k \in 1 .. Len(x) /\ k \in 1 .. Len(y)
    BY <1>1, <1>2, <1>3
  <2> QED BY <1>2, <1>3, <1>4, <2>1
<1>6. \A k \in 1 .. lb : z[la + k] = b[k]
  <2> TAKE k \in 1 .. lb
  <2>1. la + k \in 1 .. Len(x) /\ la + k \in 1 .. Len(y)
    BY <1>1, <1>2, <1>3
  <2> QED BY <1>2, <1>3, <1>4, <2>1
<1>7. \A k \in 1 .. lc : z[la + lb + k] = c[k]
  <2> TAKE k \in 1 .. lc
  <2>1. Len(x) + k = la + lb + k /\ la + lb + k \in 1 .. Len(y)
    BY <1>1, <1>2, <1>3
  <2> QED BY <1>3, <1>4, <2>1
<1>8. \A k \in 1 .. ld : z[la + lb + lc + k] = d[k]
  <2> TAKE k \in 1 .. ld
  <2>1. Len(y) + k = la + lb + lc + k
    BY <1>1, <1>2, <1>3
  <2> QED BY <1>4, <2>1
<1>9. z \in Seq(S) /\ Len(z) = la + lb + lc + ld
  BY <1>1, <1>2, <1>3, <1>4
<1> QED BY <1>5, <1>6, <1>7, <1>8, <1>9 DEF x, y, z, la, lb, lc, ld, JoinedFour

\* The parts of what is recorded for a block, empty where its kind has none.
PilotPart(b) == IF b.id \in WithPilot THEN Pilot(Shape(b)) ELSE <<>>
TablePart(b) == IF b.id \in WithTable THEN Train(Table(b)) ELSE <<>>
DataPart(b)  == CASE b.id \in WithBits -> DataTrain(b, Shape(b)) [] b.id = Direct -> Samples(b)
                  [] OTHER -> <<>>
GapPart(b)   == IF b.id \in WithPause THEN Gap(b.pause) ELSE <<>>

\* The types of the four parts of a block.
LEMMA PartsType ==
  ASSUME NEW b \in Blocks
  PROVE  /\ PilotPart(b) \in Seq(Intervals) /\ Len(PilotPart(b)) = PilotLength(b)
         /\ TablePart(b) \in Seq(Intervals) /\ Len(TablePart(b)) = TableLength(b)
         /\ DataPart(b) \in Seq(Intervals) /\ Len(DataPart(b)) = DataLength(b)
         /\ GapPart(b) \in Seq(Intervals) /\ Len(GapPart(b)) = GapLength(b)
<1>0. <<>> \in Seq(Intervals) /\ Len(<<>>) = 0
  OBVIOUS
<1>1. PilotPart(b) \in Seq(Intervals) /\ Len(PilotPart(b)) = PilotLength(b)
  BY <1>0, ShapeType, PilotType DEF PilotPart, PilotLength
<1>2. TablePart(b) \in Seq(Intervals) /\ Len(TablePart(b)) = TableLength(b)
  BY <1>0, ShapeType, TrainType DEF TablePart, TableLength
<1>3. DataPart(b) \in Seq(Intervals) /\ Len(DataPart(b)) = DataLength(b)
  <2>1. CASE b.id \in WithBits
    <3>1. /\ DataTrain(b, Shape(b)) \in Seq(Intervals)
          /\ Len(DataTrain(b, Shape(b))) = 2 * DataBits(b)
      BY <2>1, ShapeType, BitsType
    <3>2. b.id # Direct
      BY <2>1 DEF WithBits, Std, Turbo, Pure, Direct
    <3> QED BY <2>1, <3>1, <3>2 DEF DataPart, DataLength
  <2>2. CASE b.id = Direct
    <3>1. Samples(b) \in Seq(Intervals) /\ Len(Samples(b)) = DataBits(b)
      BY <2>2, SamplesType
    <3>2. b.id \notin WithBits
      BY <2>2 DEF WithBits, Std, Turbo, Pure, Direct
    <3> QED BY <2>2, <3>1, <3>2 DEF DataPart, DataLength
  <2>3. CASE b.id \notin WithBits /\ b.id # Direct
    BY <1>0, <2>3 DEF DataPart, DataLength
  <2> QED BY <2>1, <2>2, <2>3
<1>4. GapPart(b) \in Seq(Intervals) /\ Len(GapPart(b)) = GapLength(b)
  <2>1. CASE b.id \in WithPause
    <3>1. b.pause \in HalfWords
      BY <2>1, BlockKinds DEF WithPause
    <3> QED BY <2>1, <3>1, GapType DEF GapPart, GapLength
  <2>2. CASE b.id \notin WithPause
    BY <1>0, <2>2 DEF GapPart, GapLength
  <2> QED BY <2>1, <2>2
<1> QED BY <1>1, <1>2, <1>3, <1>4

\* What is recorded for a block is its four parts.
LEMMA RecordedParts ==
  ASSUME NEW b \in Blocks
  PROVE  Recorded(b) = PilotPart(b) \o TablePart(b) \o DataPart(b) \o GapPart(b)
<1> USE DEF WithPilot, WithTable, WithBits, WithPause, Std, Turbo, Tone, Pulses, Pure, Direct, Silence
<1> DEFINE A == PilotPart(b)
           B == TablePart(b)
           C == DataPart(b)
           D == GapPart(b)
<1>1. A \in Seq(Intervals) /\ B \in Seq(Intervals) /\ C \in Seq(Intervals) /\ D \in Seq(Intervals)
  BY PartsType
<1>2. \A s \in Seq(Intervals) : <<>> \o s = s /\ s \o <<>> = s
  BY ConcatEmptySeq
<1>3. \A s, t \in Seq(Intervals) : s \o t \in Seq(Intervals)
  BY ConcatProperties
<1>4. <<>> \in Seq(Intervals)
  OBVIOUS
<1>5. CASE b.id = Std
  <2>1. A = Pilot(Standard) /\ B = Train(Standard.sync) /\ C = DataTrain(b, Standard)
        /\ D = Gap(b.pause)
    BY <1>5 DEF PilotPart, TablePart, DataPart, GapPart, Shape, Table
  <2>2. Recorded(b) = Pilot(Standard) \o Train(Standard.sync) \o DataTrain(b, Standard) \o Gap(b.pause)
    BY <1>5 DEF Recorded
  <2> QED BY <2>1, <2>2
<1>6. CASE b.id = Turbo
  <2>1. A = Pilot(b) /\ B = Train(b.sync) /\ C = DataTrain(b, b) /\ D = Gap(b.pause)
    BY <1>6 DEF PilotPart, TablePart, DataPart, GapPart, Shape, Table
  <2>2. Recorded(b) = Pilot(b) \o Train(b.sync) \o DataTrain(b, b) \o Gap(b.pause)
    BY <1>6 DEF Recorded
  <2> QED BY <2>1, <2>2
<1>7. CASE b.id = Tone
  <2>1. A = Pilot(b) /\ B = <<>> /\ C = <<>> /\ D = <<>>
    BY <1>7 DEF PilotPart, TablePart, DataPart, GapPart, Shape
  <2>2. Recorded(b) = A
    BY <1>7, <2>1 DEF Recorded
  <2> HIDE DEF A, B, C, D
  <2>3. A \o B \o C \o D = A
    BY <1>1, <1>2, <2>1
  <2> QED BY <2>2, <2>3 DEF A, B, C, D
<1>8. CASE b.id = Pulses
  <2>1. A = <<>> /\ B = Train(b.table) /\ C = <<>> /\ D = <<>>
    BY <1>8 DEF PilotPart, TablePart, DataPart, GapPart, Table
  <2>2. Recorded(b) = B
    BY <1>8, <2>1 DEF Recorded
  <2> HIDE DEF A, B, C, D
  <2>3. A \o B \o C \o D = B
    BY <1>1, <1>2, <2>1
  <2> QED BY <2>2, <2>3 DEF A, B, C, D
<1>9. CASE b.id = Pure
  <2>1. A = <<>> /\ B = <<>> /\ C = DataTrain(b, b) /\ D = Gap(b.pause)
    BY <1>9 DEF PilotPart, TablePart, DataPart, GapPart, Shape
  <2>2. Recorded(b) = C \o D
    BY <1>9, <2>1 DEF Recorded
  <2> HIDE DEF A, B, C, D
  <2>3. A \o B \o C \o D = C \o D
    BY <1>1, <1>2, <1>4, <2>1
  <2> QED BY <2>2, <2>3 DEF A, B, C, D
<1>10. CASE b.id = Direct
  <2>1. A = <<>> /\ B = <<>> /\ C = Samples(b) /\ D = Gap(b.pause)
    BY <1>10 DEF PilotPart, TablePart, DataPart, GapPart, Shape
  <2>2. Recorded(b) = C \o D
    BY <1>10, <2>1 DEF Recorded
  <2> HIDE DEF A, B, C, D
  <2>3. A \o B \o C \o D = C \o D
    BY <1>1, <1>2, <1>4, <2>1
  <2> QED BY <2>2, <2>3 DEF A, B, C, D
<1>11. CASE b.id = Silence
  <2>1. A = <<>> /\ B = <<>> /\ C = <<>> /\ D = Gap(b.pause)
    BY <1>11 DEF PilotPart, TablePart, DataPart, GapPart
  <2>2. Recorded(b) = D
    BY <1>11, <2>1 DEF Recorded
  <2> HIDE DEF A, B, C, D
  <2>3. A \o B \o C \o D = D
    BY <1>1, <1>2, <1>4, <2>1
  <2> QED BY <2>2, <2>3 DEF A, B, C, D
<1>12. CASE b.id \notin {Std, Turbo, Tone, Pulses, Pure, Direct, Silence}
  <2>1. A = <<>> /\ B = <<>> /\ C = <<>> /\ D = <<>>
    BY <1>12 DEF PilotPart, TablePart, DataPart, GapPart
  <2>2. Recorded(b) = <<>>
    BY <1>12 DEF Recorded
  <2> HIDE DEF A, B, C, D
  <2>3. A \o B \o C \o D = <<>>
    BY <1>2, <1>4, <2>1
  <2> QED BY <2>2, <2>3 DEF A, B, C, D
<1> QED BY <1>5, <1>6, <1>7, <1>8, <1>9, <1>10, <1>11, <1>12

\* The lengths of the four parts.
LEMMA LengthsType ==
  ASSUME NEW b \in Blocks
  PROVE  /\ PilotLength(b) \in Nat /\ TableLength(b) \in Nat /\ DataStart(b) \in Nat
         /\ DataLength(b) \in Nat /\ GapLength(b) \in {0, 2}
<1>1. PilotLength(b) \in Nat /\ TableLength(b) \in Nat /\ DataLength(b) \in Nat
  BY PartsType, LenProperties
<1> QED BY <1>1 DEF DataStart, GapLength

\* Where in what is recorded for a block its pulses, bits, samples and pause are.
LEMMA RecordedIs ==
  ASSUME NEW b \in Blocks
  PROVE  /\ Recorded(b) \in Seq(Intervals)
         /\ Len(Recorded(b)) = DataStart(b) + DataLength(b) + GapLength(b)
         /\ \A k \in 1 .. PilotLength(b) :
               Recorded(b)[k] = Interval("pulse", CYCLE_ADJUST(Shape(b).pilot))
         /\ \A k \in 1 .. TableLength(b) :
               Recorded(b)[PilotLength(b) + k] = Interval("pulse", CYCLE_ADJUST(Table(b)[k]))
         /\ b.id \in WithBits =>
               \A k \in 1 .. DataBits(b) : \A i \in {2 * k - 1, 2 * k} :
                  Recorded(b)[DataStart(b) + i] = Interval("pulse", BitLength(b, k))
         /\ b.id = Direct =>
               \A k \in 1 .. DataBits(b) :
                  Recorded(b)[DataStart(b) + k] =
                    [kind |-> "sample", bit |-> Bits(b)[k], length |-> CYCLE_ADJUST(b.sample)]
         /\ GapLength(b) = 2 =>
              /\ Recorded(b)[DataStart(b) + DataLength(b) + 1] = Interval("hold", MS_TO_CYCLES(1))
              /\ Recorded(b)[DataStart(b) + DataLength(b) + 2] =
                   Interval("low", MS_TO_CYCLES(b.pause - 1))
<1> DEFINE A == PilotPart(b)
           B == TablePart(b)
           C == DataPart(b)
           D == GapPart(b)
           R == Recorded(b)
           P == PilotLength(b)
           T == TableLength(b)
           L == DataLength(b)
           G == GapLength(b)
<1>1. /\ A \in Seq(Intervals) /\ B \in Seq(Intervals) /\ C \in Seq(Intervals) /\ D \in Seq(Intervals)
      /\ Len(A) = P /\ Len(B) = T /\ Len(C) = L /\ Len(D) = G
  BY PartsType
<1>2. R = A \o B \o C \o D
  BY RecordedParts
<1>3. P \in Nat /\ T \in Nat /\ L \in Nat /\ G \in Nat /\ DataStart(b) = P + T
  BY LengthsType DEF DataStart
<1> HIDE DEF A, B, C, D, R, P, T, L, G
<1>4. /\ R \in Seq(Intervals)
      /\ Len(R) = P + T + L + G
      /\ \A k \in 1 .. P : R[k] = A[k]
      /\ \A k \in 1 .. T : R[P + k] = B[k]
      /\ \A k \in 1 .. L : R[P + T + k] = C[k]
      /\ \A k \in 1 .. G : R[P + T + L + k] = D[k]
  <2>1. JoinedFour(R, A, B, C, D, Intervals)
    BY <1>1, <1>2, Four
  <2> QED BY <1>1, <2>1 DEF JoinedFour
<1>5. ASSUME NEW k \in 1 .. P PROVE A[k] = Interval("pulse", CYCLE_ADJUST(Shape(b).pilot))
  <2>1. b.id \in WithPilot
    BY DEF P, PilotLength
  <2> QED BY <2>1, ShapeType, PilotType DEF A, P, PilotPart, PilotLength
<1>6. ASSUME NEW k \in 1 .. T PROVE B[k] = Interval("pulse", CYCLE_ADJUST(Table(b)[k]))
  <2>1. b.id \in WithTable
    BY DEF T, TableLength
  <2> QED BY <2>1, ShapeType, TrainType DEF B, T, TablePart, TableLength
<1>7. ASSUME b.id \in WithBits, NEW k \in 1 .. DataBits(b), NEW i \in {2 * k - 1, 2 * k}
      PROVE  R[DataStart(b) + i] = Interval("pulse", BitLength(b, k))
  <2>1. C = DataTrain(b, Shape(b)) /\ L = 2 * DataBits(b)
    BY <1>7 DEF C, L, DataPart, DataLength, WithBits, Std, Turbo, Pure, Direct
  <2>2. C[i] = Interval("pulse", BitLength(b, k))
    BY <1>7, <2>1, ShapeType, BitsType DEF BitLength
  <2>3. DataBits(b) \in Nat
    BY <1>7, DataBitsType DEF WithBits
  <2>4. i \in 1 .. L
    BY <2>1, <2>3
  <2> QED BY <1>3, <1>4, <2>2, <2>4
<1>8. ASSUME b.id = Direct, NEW k \in 1 .. DataBits(b)
      PROVE  R[DataStart(b) + k] =
               [kind |-> "sample", bit |-> Bits(b)[k], length |-> CYCLE_ADJUST(b.sample)]
  <2>1. b.id \notin WithBits
    BY <1>8 DEF WithBits, Std, Turbo, Pure, Direct
  <2>2. C = Samples(b) /\ L = DataBits(b)
    BY <1>8, <2>1 DEF C, L, DataPart, DataLength
  <2>3. k \in 1 .. L
    BY <2>2
  <2>4. C[k] = [kind |-> "sample", bit |-> Bits(b)[k], length |-> CYCLE_ADJUST(b.sample)]
    BY <1>8, <2>2, SamplesType
  <2> QED BY <1>3, <1>4, <2>3, <2>4
<1>9. ASSUME G = 2
      PROVE  /\ R[DataStart(b) + L + 1] = Interval("hold", MS_TO_CYCLES(1))
             /\ R[DataStart(b) + L + 2] = Interval("low", MS_TO_CYCLES(b.pause - 1))
  <2>1. b.id \in WithPause /\ b.pause # 0
    BY <1>9 DEF G, GapLength
  <2>2. b.pause \in HalfWords
    BY <2>1, BlockKinds DEF WithPause
  <2>3. D = Gap(b.pause)
    BY <2>1 DEF D, GapPart
  <2>4. D[1] = Interval("hold", MS_TO_CYCLES(1)) /\ D[2] = Interval("low", MS_TO_CYCLES(b.pause - 1))
    BY <2>1, <2>2, <2>3, GapType
  <2>5. 1 \in 1 .. G /\ 2 \in 1 .. G
    BY <1>9
  <2> QED BY <1>3, <1>4, <2>4, <2>5
<1>10. /\ \A k \in 1 .. P : R[k] = Interval("pulse", CYCLE_ADJUST(Shape(b).pilot))
       /\ \A k \in 1 .. T : R[P + k] = Interval("pulse", CYCLE_ADJUST(Table(b)[k]))
       /\ Len(R) = DataStart(b) + L + G
  BY <1>3, <1>4, <1>5, <1>6
<1> QED BY <1>4, <1>7, <1>8, <1>9, <1>10 DEF P, T, L, G, R

(***************************************************************************)
(* The bits of a data block, read byte by byte.                            *)
(***************************************************************************)
\* The player has read all but `left' bits of block b.
ReadSoFar(p, b) ==
  /\ p.left \in Nat /\ p.left <= DataBits(b)
  /\ p.shift \in Shifts /\ p.byte \in Nat \ {0}
  /\ DataBits(b) - p.left = (p.byte - 1) * ByteBits - Len(p.shift)
  /\ \A k \in 1 .. Len(p.shift) : p.shift[k] = b.data[p.byte - 1][ByteBits - Len(p.shift) + k]

\* A product tells its factors apart.
LEMMA ByteBounds ==
  ASSUME NEW x \in Nat, NEW n \in Nat, NEW w \in Nat \ {0}, x * w < n * w
  PROVE  x < n
<1> SUFFICES ASSUME x >= n PROVE x * w >= n * w
  OBVIOUS
<1>1. PICK d \in Nat : x = n + d
  <2>1. x - n \in Nat /\ x = n + (x - n)
    OBVIOUS
  <2> QED BY <2>1
<1>2. x * w = n * w + d * w /\ d * w \in Nat /\ n * w \in Nat
  BY <1>1
<1> QED BY <1>2

\* Whether from the register or from the next byte, the bit that is read is the next one.
LEMMA NextBit ==
  ASSUME NEW p \in PlayerType, NEW b \in Blocks, b.id \in {Std, Turbo, Pure, Direct},
         BlockAt(p) = b, ReadSoFar(p, b), p.left > 0
  PROVE  /\ p.shift = <<>> => p.byte \in DOMAIN b.data
         /\ NextByte(p) \in Seq(Bit) /\ NextByte(p) # <<>>
         /\ Head(NextByte(p)) = Bits(b)[DataBits(b) - (p.left - 1)]
         /\ Shifted(p) \in PlayerType
         /\ ReadSoFar(Shifted(p), b)
<1> DEFINE d == b.data
           N == Len(d)
           W == ByteBits
           B == DataBits(b)
           F == FlattenSeq(d)
           r == p.byte
           s == Len(p.shift)
           l == p.left
<1>1. W \in Nat \ {0} /\ N \in Nat \ {0} /\ d \in Data
  BY PlayerAssumption, BlockKinds, DataLen
<1>2. B \in Nat \ {0} /\ B <= N * W /\ \A k \in 1 .. B : Bits(b)[k] = F[k]
  BY DataBitsType
<1>3. \A i \in 1 .. N, k \in 1 .. W : F[(i - 1) * W + k] = d[i][k]
  BY <1>1, FlattenData
<1>4. \A i \in 1 .. N : d[i] \in Byte
  BY <1>1, DataLen
<1>5. /\ l \in Nat \ {0} /\ l <= B /\ p.shift \in Seq(Bit) /\ s \in Nat /\ s < W
      /\ r \in Nat \ {0} /\ B - l = (r - 1) * W - s
      /\ \A k \in 1 .. s : p.shift[k] = d[r - 1][W - s + k]
  BY DEF ReadSoFar, Shifts
<1>6. DOMAIN d = 1 .. N
  BY <1>1, DataLen
<1>7. B - (l - 1) \in 1 .. B /\ B - (l - 1) = B - l + 1
  BY <1>2, <1>5
<1>w. Word \subseteq Nat /\ l - 1 \in Word
  <2>1. l \in Word
    BY DEF PlayerType
  <2> QED BY <1>5, <2>1, WordsType DEF Word
<1> DEFINE q == Shifted(p)
           Nxt == NextByte(p)
<1>q. /\ q.shift = Tail(Nxt) /\ q.left = l - 1
      /\ q.byte = IF p.shift = <<>> THEN r + 1 ELSE r
  BY DEF Shifted, PlayerType
<1>t. Tail(Nxt) \in Shifts => q \in PlayerType
  <2> DEFINE t == Tail(Nxt)
             c == IF p.shift = <<>> THEN r + 1 ELSE r
  <2>1. c \in Nat \ {0}
    BY <1>5
  <2>2. q = [p EXCEPT !.shift = t, !.left = l - 1, !.byte = c]
    BY DEF Shifted
  <2> HIDE DEF t, c, l
  <2>3. t \in Shifts => [p EXCEPT !.shift = t, !.left = l - 1, !.byte = c] \in PlayerType
    BY <1>w, <2>1 DEF PlayerType
  <2> QED BY <2>2, <2>3 DEF t
<1>n. p.shift = <<>> => Nxt = d[r]
  BY DEF NextByte
<1>m. p.shift # <<>> => Nxt = p.shift
  BY DEF NextByte
<1> HIDE DEF B, l, q, Nxt, N, W, F, s, r, d
<1>8. CASE p.shift = <<>>
  <2>1. s = 0
    BY <1>8 DEF s
  <2>2. r \in 1 .. N
    <3> DEFINE x == r - 1
    <3>1. x \in Nat /\ B - l = x * W
      BY <1>1, <1>5, <2>1
    <3> HIDE DEF x
    <3>2. x * W < N * W
      BY <1>1, <1>2, <1>5, <3>1
    <3>3. x < N
      BY <1>1, <3>1, <3>2, ByteBounds
    <3> QED BY <1>1, <1>5, <3>3 DEF x
  <2>3. d[r] \in Seq(Bit) /\ Len(d[r]) = W
    BY <1>4, <2>2, ByteType DEF W
  <2>4. Nxt = d[r]
    BY <1>8, <1>n
  <2>5. Nxt # <<>> /\ Head(Nxt) = d[r][1]
    BY <1>1, <2>3, <2>4
  <2>6. F[(r - 1) * W + 1] = d[r][1]
    BY <1>1, <1>3, <2>2
  <2>7. B - (l - 1) = (r - 1) * W + 1
    BY <1>1, <1>5, <1>7, <2>1
  <2>8. Head(Nxt) = Bits(b)[B - (l - 1)]
    BY <1>2, <1>7, <2>5, <2>6, <2>7
  <2>9. /\ Tail(Nxt) \in Seq(Bit) /\ Len(Tail(Nxt)) = W - 1
        /\ \A k \in 1 .. W - 1 : Tail(Nxt)[k] = d[r][k + 1]
    BY <1>1, <2>3, <2>4
  <2>10. Tail(Nxt) \in Shifts
    BY <1>1, <2>9 DEF Shifts, W
  <2>11. q.byte = r + 1 /\ q.byte - 1 = r /\ q.byte \in Nat \ {0}
    BY <1>8, <1>5, <1>q
  <2>12. B - q.left = (q.byte - 1) * W - Len(q.shift)
    <3>1. (r - 1) * W = r * W - W
      BY <1>1, <1>5
    <3>2. B - (l - 1) = r * W - (W - 1)
      BY <1>1, <1>5, <2>7, <3>1
    <3> QED BY <1>q, <2>9, <2>11, <3>2
  <2>13. \A k \in 1 .. Len(q.shift) : q.shift[k] = d[q.byte - 1][W - Len(q.shift) + k]
    <3> TAKE k \in 1 .. Len(q.shift)
    <3>1. Len(q.shift) = W - 1 /\ W - (W - 1) + k = k + 1
      BY <1>1, <1>q, <2>9
    <3> QED BY <1>q, <2>9, <2>11, <3>1
  <2>14. q.left \in Nat /\ q.left <= B
    BY <1>2, <1>5, <1>q
  <2>15. ReadSoFar(q, b)
    BY <1>q, <2>10, <2>11, <2>12, <2>13, <2>14 DEF ReadSoFar, B, W, d
  <2> QED
    BY <1>6, <1>t, <2>2, <2>3, <2>4, <2>5, <2>8, <2>10, <2>15 DEF q, B, l, d, r, Nxt
<1>9. CASE p.shift # <<>>
  <2>1. s \in 1 .. W - 1 /\ Nxt = p.shift
    <3>1. Len(p.shift) # 0
      BY <1>9, <1>5
    <3> QED BY <1>1, <1>5, <1>9, <1>m, <3>1 DEF s
  <2>2. r - 1 \in 1 .. N
    <3> DEFINE x == r - 1
    <3>1. x \in Nat /\ B - l = x * W - s
      BY <1>5
    <3> HIDE DEF x
    <3>2. x * W \in Nat /\ N * W \in Nat /\ (x - 1) * W = x * W - W
      BY <1>1, <3>1
    <3>3. x # 0
      <4> SUFFICES ASSUME x = 0 PROVE FALSE
        OBVIOUS
      <4>1. x * W = 0
        BY <1>1
      <4> QED BY <1>1, <1>2, <1>5, <2>1, <3>1, <4>1
    <3>4. x - 1 \in Nat
      BY <3>1, <3>3
    <3>5. (x - 1) * W < N * W
      <4> DEFINE y == x * W
                 z == N * W
                 v == (x - 1) * W
      <4>1. y \in Nat /\ z \in Nat /\ v = y - W /\ B - l = y - s /\ B <= z
        BY <1>2, <3>1, <3>2
      <4> HIDE DEF y, z, v
      <4>2. v < z
        BY <1>1, <1>2, <1>5, <2>1, <4>1
      <4> QED BY <4>2 DEF v, z
    <3>6. x - 1 < N
      BY <1>1, <3>4, <3>5, ByteBounds
    <3> QED BY <1>1, <1>5, <3>1, <3>3, <3>6 DEF x
  <2>3. p.shift[1] = d[r - 1][W - s + 1]
    BY <1>5, <2>1
  <2>4. W - s + 1 \in 1 .. W
    BY <1>1, <2>1
  <2>5. F[((r - 1) - 1) * W + (W - s + 1)] = d[r - 1][W - s + 1]
    BY <1>3, <2>2, <2>4
  <2>6. ((r - 1) - 1) * W + (W - s + 1) = B - (l - 1)
    <3>1. ((r - 1) - 1) * W = (r - 1) * W - W
      BY <1>1, <1>5
    <3> DEFINE y == (r - 1) * W
    <3>2. y \in Int /\ B - l = y - s
      BY <1>1, <1>5
    <3>3. ((r - 1) - 1) * W = y - W
      BY <3>1
    <3> HIDE DEF y
    <3>4. (y - W) + (W - s + 1) = B - (l - 1)
      BY <1>1, <1>2, <1>5, <2>1, <3>2
    <3> QED BY <3>3, <3>4
  <2>7. Nxt \in Seq(Bit) /\ Nxt # <<>> /\ Head(Nxt) = p.shift[1]
    BY <1>5, <1>9, <2>1
  <2>8. Head(Nxt) = Bits(b)[B - (l - 1)]
    BY <1>2, <1>7, <2>3, <2>5, <2>6, <2>7
  <2>9. /\ Tail(Nxt) \in Seq(Bit) /\ Len(Tail(Nxt)) = s - 1
        /\ \A k \in 1 .. s - 1 : Tail(Nxt)[k] = p.shift[k + 1]
    BY <1>5, <2>1, <2>7 DEF s
  <2>10. Tail(Nxt) \in Shifts
    BY <1>1, <1>5, <2>1, <2>9 DEF Shifts, W
  <2>11. q.byte = r
    BY <1>9, <1>q
  <2>12. B - q.left = (q.byte - 1) * W - Len(q.shift)
    <3>1. B - (l - 1) = (r - 1) * W - (s - 1)
      <4>1. (r - 1) * W \in Int
        BY <1>1, <1>5
      <4> QED BY <1>2, <1>5, <2>1, <4>1
    <3> QED BY <1>q, <2>9, <2>11, <3>1
  <2>13. \A k \in 1 .. Len(q.shift) : q.shift[k] = d[q.byte - 1][W - Len(q.shift) + k]
    <3> TAKE k \in 1 .. Len(q.shift)
    <3>1. Len(q.shift) = s - 1 /\ k + 1 \in 1 .. s /\ W - (s - 1) + k = W - s + (k + 1)
      BY <1>1, <1>q, <2>1, <2>9
    <3>2. q.shift[k] = p.shift[k + 1]
      BY <1>q, <2>9, <3>1
    <3>3. p.shift[k + 1] = d[r - 1][W - s + (k + 1)]
      BY <1>5, <3>1
    <3> QED BY <2>11, <3>1, <3>2, <3>3
  <2>14. q.left \in Nat /\ q.left <= B
    BY <1>2, <1>5, <1>q
  <2>15. ReadSoFar(q, b)
    BY <1>q, <1>5, <2>10, <2>11, <2>12, <2>13, <2>14 DEF ReadSoFar, B, W, d
  <2> QED
    BY <1>9, <1>t, <2>7, <2>8, <2>10, <2>15 DEF q, B, l, Nxt
<1> QED BY <1>8, <1>9

(***************************************************************************)
(* What the functions of the player do to its record.                      *)
(***************************************************************************)
\* q plays the same tape, at the same block, as p.
Frame(q, p) ==
  /\ q.img = p.img /\ q.live = p.live /\ q.blk = p.blk /\ q.play = p.play
  /\ q.recorded = p.recorded /\ q.elapsed = p.elapsed /\ q.lost = p.lost
\* Nothing has been heard between p and q.
Quiet(q, p) == Frame(q, p) /\ q.cycles = p.cycles /\ q.heard = p.heard
\* From p to q an interval has begun.
Plays(q, p, lv, n) ==
  /\ Frame(q, p) /\ q.level = lv /\ q.cycles = p.cycles + n
  /\ q.heard = Append(p.heard, [level |-> lv, length |-> n])
\* The counters of q are those of p.
Controls(q, p) ==
  /\ q.stage = p.stage /\ q.pulse = p.pulse /\ q.zero = p.zero /\ q.one = p.one
  /\ q.count = p.count /\ q.left = p.left /\ q.byte = p.byte /\ q.shift = p.shift /\ q.pos = p.pos

\* Sound begins an interval and leaves the counters alone.
LEMMA SoundPlays ==
  ASSUME NEW p \in PlayerType, NEW n \in Word
  PROVE  /\ Sound(p, n) \in PlayerType /\ Plays(Sound(p, n), p, p.level, n)
         /\ Controls(Sound(p, n), p)
<1> DEFINE c == p.cycles + n
           h == Append(p.heard, [level |-> p.level, length |-> n])
<1>1. n \in Nat /\ p.cycles \in Int /\ p.heard \in Heard /\ p.level \in BOOLEAN
  BY WordsType DEF PlayerType
<1>2. c \in Int
  BY <1>1
<1>3. h \in Heard
  BY <1>1 DEF Heard
<1>4. Sound(p, n) = [p EXCEPT !.cycles = c, !.heard = h]
  BY DEF Sound
<1> HIDE DEF c, h
<1>5. [p EXCEPT !.cycles = c, !.heard = h] \in PlayerType
  BY <1>2, <1>3 DEF PlayerType
<1>6. /\ Controls([p EXCEPT !.cycles = c, !.heard = h], p)
      /\ Frame([p EXCEPT !.cycles = c, !.heard = h], p)
      /\ [p EXCEPT !.cycles = c, !.heard = h].level = p.level
      /\ [p EXCEPT !.cycles = c, !.heard = h].cycles = c
      /\ [p EXCEPT !.cycles = c, !.heard = h].heard = h
  BY DEF PlayerType, Controls, Frame
<1> QED BY <1>4, <1>5, <1>6 DEF Plays, c, h

\* The pulse that is over, and its level, which is the opposite for all but pauses.
LEMMA CountedDown ==
  ASSUME NEW p \in PlayerType, NEW lv \in BOOLEAN
  PROVE  LET q == CountDown([p EXCEPT !.level = lv])
         IN /\ q \in PlayerType /\ Quiet(q, p) /\ q.level = lv
            /\ q.count = IF p.count = 0 THEN HalfWord * HalfWord - 1 ELSE p.count - 1
            /\ q.stage = p.stage /\ q.pulse = p.pulse /\ q.zero = p.zero /\ q.one = p.one
            /\ q.left = p.left /\ q.byte = p.byte /\ q.shift = p.shift /\ q.pos = p.pos
<1> DEFINE c == IF p.count = 0 THEN HalfWord * HalfWord - 1 ELSE p.count - 1
           r == [p EXCEPT !.level = lv]
           q == [r EXCEPT !.count = c]
<1>1. p.count \in Word
  BY DEF PlayerType
<1> HIDE DEF r
<1>2. c \in Word
  BY <1>1, WordsType DEF Word
<1>3. r \in PlayerType /\ r.count = p.count /\ r.level = lv
      /\ Quiet(r, p) /\ r.stage = p.stage /\ r.pulse = p.pulse /\ r.zero = p.zero /\ r.one = p.one
      /\ r.left = p.left /\ r.byte = p.byte /\ r.shift = p.shift /\ r.pos = p.pos
  BY DEF PlayerType, r, Quiet, Frame
<1>4. CountDown(r) = q
  BY <1>3 DEF CountDown
<1> HIDE DEF c
<1>5. q \in PlayerType /\ q.count = c /\ q.level = lv
      /\ Quiet(q, p) /\ q.stage = p.stage /\ q.pulse = p.pulse /\ q.zero = p.zero /\ q.one = p.one
      /\ q.left = p.left /\ q.byte = p.byte /\ q.shift = p.shift /\ q.pos = p.pos
  BY <1>2, <1>3 DEF PlayerType, Quiet, Frame
<1> HIDE DEF q
<1> QED BY <1>4, <1>5 DEF c, r

\* Tape_SwitchLevel as an assignment.
LEMMA Switched == ASSUME NEW p \in PlayerType PROVE Tape_SwitchLevel(p) = [p EXCEPT !.level = ~p.level]
BY DEF Tape_SwitchLevel

\* BlockAt depends on the image and the pointer only.
LEMMA SameBlock ==
  ASSUME NEW p, NEW q, q.img = p.img, q.live = p.live, q.blk = p.blk
  PROVE  BlockAt(q) = BlockAt(p)
BY DEF BlockAt

\* PlayTable begins the pulse that its pointer names.
LEMMA TablePlays ==
  ASSUME NEW p \in PlayerType, NEW b \in Blocks, b.id \in WithTable, BlockAt(p) = b,
         p.pos \in 1 .. TableLength(b)
  PROVE  LET q == PlayTable(p)
         IN /\ q \in PlayerType /\ Plays(q, p, p.level, CYCLE_ADJUST(Table(b)[p.pos]))
            /\ q.stage = p.stage /\ q.count = p.count
            /\ q.pos = IF p.pos = TableLength(b) THEN 1 ELSE p.pos + 1
<1> DEFINE n == CYCLE_ADJUST(Table(b)[p.pos])
           T == TableLength(b)
           c == IF p.pos = T THEN 1 ELSE p.pos + 1
           r == [p EXCEPT !.pulse = n, !.pos = c]
<1>1. T = Len(Table(b)) /\ T \in Nat \ {0} /\ p.pos \in 1 .. T /\ Table(b)[p.pos] \in HalfWords
  BY ShapeType, WordsType DEF TableLength, Word
<1>2. n \in Word
  BY <1>1, CycleType, WordsType
<1>3. Tape_GetCycleCount(p) = r
  <2>1. c = IF p.pos >= Len(Table(b)) THEN 1 ELSE p.pos + 1
    BY <1>1
  <2>2. Tape_GetCycleCount(p) = [p EXCEPT !.pulse = n, !.pos = IF p.pos >= Len(Table(b)) THEN 1
                                                               ELSE p.pos + 1]
    BY DEF Tape_GetCycleCount
  <2> HIDE DEF n, c
  <2> QED BY <2>1, <2>2
<1> HIDE DEF n, T
<1>4. c \in Nat \ {0}
  BY <1>1
<1> HIDE DEF c
<1>5. r \in PlayerType /\ r.pulse = n /\ r.pos = c /\ Quiet(r, p) /\ r.level = p.level
      /\ r.stage = p.stage /\ r.count = p.count
  BY <1>2, <1>4 DEF PlayerType, Quiet, Frame
<1> HIDE DEF r
<1>6. PlayTable(p) = Sound(r, r.pulse)
  BY <1>3 DEF PlayTable
<1> DEFINE q == Sound(r, n)
<1>7. q \in PlayerType /\ Plays(q, r, r.level, n) /\ Controls(q, r)
  BY <1>2, <1>5, SoundPlays
<1> HIDE DEF q
<1>8. Plays(q, p, p.level, n) /\ q.stage = p.stage /\ q.count = p.count /\ q.pos = c
  BY <1>5, <1>7 DEF Plays, Quiet, Frame, Controls
<1> QED BY <1>5, <1>6, <1>7, <1>8 DEF q, n, c, T

\* PlayBit begins the first pulse of the next bit.
LEMMA BitPlays ==
  ASSUME NEW p \in PlayerType, NEW b \in Blocks, b.id \in {Std, Turbo, Pure, Direct},
         BlockAt(p) = b, ReadSoFar(p, b), p.left > 0
  PROVE  LET q == PlayBit(p)
             n == IF Bits(b)[DataBits(b) - (p.left - 1)] = 1 THEN p.one ELSE p.zero
         IN /\ q \in PlayerType /\ Plays(q, p, p.level, n)
            /\ q.stage = p.stage /\ q.zero = p.zero /\ q.one = p.one /\ q.count = 2 /\ q.pulse = n
            /\ q.left = p.left - 1 /\ ReadSoFar(q, b)
<1> DEFINE n == IF Bits(b)[DataBits(b) - (p.left - 1)] = 1 THEN p.one ELSE p.zero
           s == Shifted(p)
           r == [s EXCEPT !.pulse = n, !.count = 2]
<1>1. s \in PlayerType /\ ReadSoFar(s, b)
      /\ Head(NextByte(p)) = Bits(b)[DataBits(b) - (p.left - 1)]
  BY NextBit
<1>2. s.left = p.left - 1 /\ Quiet(s, p) /\ s.level = p.level /\ s.stage = p.stage
      /\ s.zero = p.zero /\ s.one = p.one
  BY DEF Shifted, Quiet, Frame, PlayerType
<1>3. Tape_ReadDataBit(p) = r
  <2> DEFINE h == Head(NextByte(p))
             m == IF h = 1 THEN p.one ELSE p.zero
  <2>1. n = m
    BY <1>1
  <2>2. p.left # 0
    BY DEF PlayerType
  <2>3. Tape_ReadDataBit(p) = [s EXCEPT !.pulse = m, !.count = 2]
    BY <2>2 DEF Tape_ReadDataBit
  <2> HIDE DEF m, n, s
  <2> QED BY <2>1, <2>3
<1>4. n \in Word
  BY DEF PlayerType
<1>5. 2 \in Word
  <2>1. HalfWord >= 2 /\ HalfWord \in Nat
    BY TapeAssumption, PlayerAssumption
  <2>2. HalfWord * HalfWord >= 2 * HalfWord
    BY <2>1
  <2> QED BY <2>1, <2>2 DEF Word
<1> HIDE DEF n, s
<1>6. r \in PlayerType /\ r.pulse = n /\ r.count = 2 /\ Quiet(r, p) /\ r.level = p.level
      /\ r.stage = p.stage /\ r.zero = p.zero /\ r.one = p.one /\ r.left = s.left
      /\ r.byte = s.byte /\ r.shift = s.shift
  BY <1>1, <1>2, <1>4, <1>5 DEF PlayerType, Quiet, Frame
<1> HIDE DEF r
<1>7. PlayBit(p) = Sound(r, r.pulse)
  BY <1>3 DEF PlayBit
<1> DEFINE q == Sound(r, n)
<1>8. q \in PlayerType /\ Plays(q, r, r.level, n) /\ Controls(q, r)
  BY <1>4, <1>6, SoundPlays
<1> HIDE DEF q
<1>9. /\ Plays(q, p, p.level, n) /\ q.stage = p.stage /\ q.zero = p.zero /\ q.one = p.one
      /\ q.count = 2 /\ q.pulse = n /\ q.left = p.left - 1
  BY <1>2, <1>6, <1>8 DEF Plays, Quiet, Frame, Controls
<1>10. ReadSoFar(q, b)
  <2>1. q.left = s.left /\ q.byte = s.byte /\ q.shift = s.shift
    BY <1>6, <1>8 DEF Controls
  <2> QED BY <1>1, <2>1 DEF ReadSoFar
<1> QED BY <1>6, <1>7, <1>8, <1>9, <1>10 DEF q, n

\* Tape_ReadSampleDataBit begins the next sample.
LEMMA SamplePlays ==
  ASSUME NEW p \in PlayerType, NEW b \in Blocks, b.id \in {Std, Turbo, Pure, Direct},
         BlockAt(p) = b, ReadSoFar(p, b), p.left > 0
  PROVE  LET q == Tape_ReadSampleDataBit(p)
         IN /\ q \in PlayerType
            /\ Plays(q, p, Bits(b)[DataBits(b) - (p.left - 1)] = 1, p.pulse)
            /\ q.stage = p.stage /\ q.pulse = p.pulse
            /\ q.left = p.left - 1 /\ ReadSoFar(q, b)
<1> DEFINE lv == Bits(b)[DataBits(b) - (p.left - 1)] = 1
           s == Shifted(p)
           r == [s EXCEPT !.level = lv]
<1>1. s \in PlayerType /\ ReadSoFar(s, b)
      /\ Head(NextByte(p)) = Bits(b)[DataBits(b) - (p.left - 1)]
  BY NextBit
<1>2. s.left = p.left - 1 /\ Quiet(s, p) /\ s.pulse = p.pulse /\ s.stage = p.stage
  BY DEF Shifted, Quiet, Frame, PlayerType
<1>3. Tape_ReadSampleDataBit(p) = Sound(r, p.pulse)
  BY <1>1 DEF Tape_ReadSampleDataBit
<1>4. lv \in BOOLEAN /\ p.pulse \in Word
  BY DEF PlayerType
<1> HIDE DEF lv, s
<1>6. r \in PlayerType /\ r.level = lv /\ Quiet(r, p)
      /\ r.stage = p.stage /\ r.pulse = p.pulse /\ r.left = s.left
      /\ r.byte = s.byte /\ r.shift = s.shift
  BY <1>1, <1>2, <1>4 DEF PlayerType, Quiet, Frame
<1> HIDE DEF r
<1> DEFINE q == Sound(r, p.pulse)
<1>8. q \in PlayerType /\ Plays(q, r, r.level, p.pulse) /\ Controls(q, r)
  BY <1>4, <1>6, SoundPlays
<1> HIDE DEF q
<1>9. /\ Plays(q, p, lv, p.pulse) /\ q.stage = p.stage /\ q.pulse = p.pulse /\ q.left = p.left - 1
  BY <1>2, <1>6, <1>8 DEF Plays, Quiet, Frame, Controls
<1>10. ReadSoFar(q, b)
  <2>1. q.left = s.left /\ q.byte = s.byte /\ q.shift = s.shift
    BY <1>6, <1>8 DEF Controls
  <2> QED BY <1>1, <2>1 DEF ReadSoFar
<1> QED BY <1>3, <1>8, <1>9, <1>10 DEF q, lv

(***************************************************************************)
(* Where the player is: at the k-th interval of what block b records, or   *)
(* at 0 in a pilot tone of no pulses, which is not recorded.               *)
(***************************************************************************)
PilotAt(p, b, k) ==
  /\ p.stage = "PILOT" /\ b.id \in WithPilot /\ p.pulse = CYCLE_ADJUST(Shape(b).pilot)
  /\ PilotLength(b) = 0 => k = 0
  /\ PilotLength(b) # 0 => k \in 1 .. PilotLength(b) /\ p.count = PilotLength(b) + 1 - k
TableAt(p, b, k) ==
  /\ p.stage = "SYNC" /\ b.id \in WithTable /\ k \in 1 .. TableLength(b)
  /\ p.count = TableLength(b) + 1 - k
  /\ p.pos = IF k = TableLength(b) THEN 1 ELSE k + 1
BitAt(p, b, k) ==
  /\ p.stage = "DATA" /\ b.id \in WithBits /\ ReadSoFar(p, b) /\ p.left < DataBits(b)
  /\ p.zero = CYCLE_ADJUST(Shape(b).zero) /\ p.one = CYCLE_ADJUST(Shape(b).one)
  /\ p.pulse = BitLength(b, DataBits(b) - p.left)
  /\ p.count \in {1, 2} /\ k = 2 * (DataBits(b) - p.left) + 1 - p.count
SampleAt(p, b, k) ==
  /\ p.stage = "SAMPLE" /\ b.id = Direct /\ ReadSoFar(p, b) /\ p.left < DataBits(b)
  /\ p.pulse = CYCLE_ADJUST(b.sample) /\ k = DataBits(b) - p.left
PauseAt(p, b, k) ==
  /\ p.stage = "PAUSE" /\ b.id \in WithPause /\ b.pause # 0
  /\ p.pulse = MS_TO_CYCLES(b.pause - 1)
  /\ p.count \in {1, 2} /\ k = 3 - p.count /\ (p.count = 1 => ~p.level)
On(p, b, k) ==
  /\ k \in Nat
  /\ \/ PilotAt(p, b, k)
     \/ k > PilotLength(b) /\ TableAt(p, b, k - PilotLength(b))
     \/ k > DataStart(b) /\ BitAt(p, b, k - DataStart(b))
     \/ k > DataStart(b) /\ SampleAt(p, b, k - DataStart(b))
     \/ /\ k > DataStart(b) + DataLength(b)
        /\ PauseAt(p, b, k - (DataStart(b) + DataLength(b)))

\* The level of an interval, when the level behind the one before it is lv.
LevelOf(iv, lv) == IF iv.kind = "sample" THEN iv.bit = 1 ELSE iv.kind # "low" /\ lv
\* q is p after the k-th interval of b has begun.
Begins(q, p, lv, b, k) ==
  /\ q \in PlayerType /\ Frame(q, p) /\ On(q, b, k)
  /\ k # 0 => Plays(q, p, LevelOf(Recorded(b)[k], lv), Recorded(b)[k].length)

\* The counts that are set to one and two.
LEMMA TwoIsWord == 1 \in Word /\ 2 \in Word
<1>1. HalfWord >= 2 /\ HalfWord \in Nat
  BY TapeAssumption, PlayerAssumption
<1>2. HalfWord * HalfWord >= 2 * HalfWord
  BY <1>1
<1> QED BY <1>1, <1>2 DEF Word

\* A pulse has the level that it is begun with.
LEMMA PulseLevel ==
  ASSUME NEW n, NEW lv \in BOOLEAN
  PROVE  LevelOf(Interval("pulse", n), lv) = lv /\ Interval("pulse", n).length = n
BY DEF LevelOf, Interval

\* PlayPilot begins the first pulse of the pilot tone, if it has any.
LEMMA PilotStarts ==
  ASSUME NEW p \in PlayerType, NEW b \in Blocks, b.id \in WithPilot
  PROVE  LET q == PlayPilot(p, Shape(b).pilot, Shape(b).pulses)
         IN \E k \in {0, 1} : /\ Begins(q, p, p.level, b, k)
                              /\ k = 0 => PilotLength(b) = 0
<1> DEFINE n == CYCLE_ADJUST(Shape(b).pilot)
           P == PilotLength(b)
           r == [p EXCEPT !.stage = "PILOT", !.pulse = n, !.count = P]
           q == Sound(r, n)
           k == IF P = 0 THEN 0 ELSE 1
<1>1. P \in Word /\ n \in Word /\ P \in Nat /\ p.level \in BOOLEAN
  BY ShapeType, CycleType, WordsType DEF PilotLength, PlayerType
<1>2. PlayPilot(p, Shape(b).pilot, Shape(b).pulses) = q
  BY DEF PlayPilot, PilotLength
<1> HIDE DEF n, P
<1>3. r \in PlayerType /\ r.stage = "PILOT" /\ r.pulse = n /\ r.count = P /\ Quiet(r, p) /\ r.level = p.level
  BY <1>1 DEF PlayerType, Quiet, Frame, Stages
<1> HIDE DEF r
<1>4. q \in PlayerType /\ Plays(q, r, r.level, n) /\ Controls(q, r)
  BY <1>1, <1>3, SoundPlays
<1> HIDE DEF q
<1>5. Plays(q, p, p.level, n) /\ q.stage = "PILOT" /\ q.pulse = n /\ q.count = P
  BY <1>3, <1>4 DEF Plays, Quiet, Frame, Controls
<1>6. PilotAt(q, b, k)
  BY <1>1, <1>5 DEF PilotAt, n, P
<1>7. On(q, b, k)
  BY <1>6 DEF On
<1>8. P # 0 => Recorded(b)[1] = Interval("pulse", n)
  BY <1>1, RecordedIs DEF P, n
<1>9. Begins(q, p, p.level, b, k)
  BY <1>1, <1>4, <1>5, <1>7, <1>8, PulseLevel DEF Begins, Plays
<1> QED BY <1>2, <1>9 DEF P

\* PlaySync begins the first pulse of the table.
LEMMA TableStarts ==
  ASSUME NEW p \in PlayerType, NEW b \in Blocks, b.id \in WithTable, BlockAt(p) = b
  PROVE  Begins(PlaySync(p, Len(Table(b))), p, p.level, b, PilotLength(b) + 1)
<1> DEFINE T == TableLength(b)
           P == PilotLength(b)
           r == [p EXCEPT !.stage = "SYNC", !.pos = 1, !.count = T]
           q == PlayTable(r)
           n == CYCLE_ADJUST(Table(b)[1])
<1>1. T \in Word /\ T \in Nat \ {0} /\ T = Len(Table(b)) /\ P \in Nat /\ p.level \in BOOLEAN
      /\ 1 \in Nat \ {0}
  BY ShapeType, WordsType, LengthsType DEF TableLength, PlayerType
<1>2. PlaySync(p, Len(Table(b))) = q
  BY <1>1 DEF PlaySync
<1> HIDE DEF T
<1>3. r \in PlayerType /\ r.stage = "SYNC" /\ r.pos = 1 /\ r.count = T /\ Quiet(r, p) /\ r.level = p.level
  BY <1>1 DEF PlayerType, Quiet, Frame, Stages
<1> HIDE DEF r
<1>4. BlockAt(r) = b
  BY <1>3, SameBlock DEF Quiet, Frame
<1>5. r.pos \in 1 .. TableLength(b)
  BY <1>1, <1>3 DEF T
<1>6. /\ q \in PlayerType /\ Plays(q, r, r.level, CYCLE_ADJUST(Table(b)[r.pos]))
      /\ q.stage = r.stage /\ q.count = r.count
      /\ q.pos = IF r.pos = TableLength(b) THEN 1 ELSE r.pos + 1
  BY <1>3, <1>4, <1>5, TablePlays
<1> HIDE DEF q
<1>7. Plays(q, p, p.level, n) /\ q.stage = "SYNC" /\ q.count = T /\ q.pos = IF T = 1 THEN 1 ELSE 2
  BY <1>1, <1>3, <1>6 DEF Plays, Quiet, Frame, T
<1>8. TableAt(q, b, 1)
  BY <1>1, <1>7 DEF TableAt, T
<1>9. P + 1 \in Nat /\ P + 1 > P /\ (P + 1) - P = 1 /\ P + 1 # 0
  BY <1>1
<1>10. On(q, b, P + 1)
  BY <1>8, <1>9 DEF On
<1>11. Recorded(b)[P + 1] = Interval("pulse", n)
  BY <1>1, RecordedIs DEF P, T
<1> HIDE DEF n
<1> QED BY <1>1, <1>2, <1>6, <1>7, <1>10, <1>11, PulseLevel DEF Begins, Plays, P

\* A bit is read into its first pulse, whether it is the first one or not.
LEMMA BitStarts ==
  ASSUME NEW p \in PlayerType, NEW b \in Blocks, b.id \in WithBits, BlockAt(p) = b,
         p.stage = "DATA", ReadSoFar(p, b), p.left > 0,
         p.zero = CYCLE_ADJUST(Shape(b).zero), p.one = CYCLE_ADJUST(Shape(b).one)
  PROVE  Begins(PlayBit(p), p, p.level, b, DataStart(b) + 2 * (DataBits(b) - p.left) + 1)
<1> DEFINE B == DataBits(b)
           D == DataStart(b)
           l == p.left
           n == BitLength(b, B - (l - 1))
           q == PlayBit(p)
           k == 2 * (B - l) + 1
<1>0. b.id \in {Std, Turbo, Pure, Direct}
  BY DEF WithBits
<1>1. /\ q \in PlayerType
      /\ Plays(q, p, p.level, n)
      /\ q.stage = p.stage /\ q.zero = p.zero /\ q.one = p.one /\ q.count = 2 /\ q.pulse = n
      /\ q.left = l - 1 /\ ReadSoFar(q, b)
  <2>1. n = IF Bits(b)[B - (l - 1)] = 1 THEN p.one ELSE p.zero
    BY DEF BitLength
  <2> HIDE DEF n
  <2> QED BY <1>0, <2>1, BitPlays
<1>2. B \in Nat /\ l \in Nat \ {0} /\ l <= B /\ D \in Nat /\ p.level \in BOOLEAN
  BY <1>0, DataBitsType, LengthsType DEF ReadSoFar, PlayerType
<1> HIDE DEF q
<1>3. k = 2 * (B - q.left) + 1 - q.count /\ k \in Nat \ {0} /\ q.left < B
  BY <1>1, <1>2
<1>4. BitAt(q, b, k)
  BY <1>1, <1>3 DEF BitAt
<1>5. D + k > D /\ (D + k) - D = k /\ D + k \in Nat \ {0}
  BY <1>2, <1>3
<1> HIDE DEF k
<1>6. On(q, b, D + k)
  BY <1>4, <1>5 DEF On
<1>7. Recorded(b)[D + k] = Interval("pulse", n)
  <2> DEFINE m == B - (l - 1)
  <2>1. m \in 1 .. B /\ k = 2 * m - 1
    BY <1>2 DEF k
  <2> HIDE DEF m
  <2>2. Recorded(b)[D + k] = Interval("pulse", BitLength(b, m))
    BY <2>1, RecordedIs
  <2> QED BY <2>2 DEF m
<1>8. D + 2 * (B - l) + 1 = D + k
  BY <1>2 DEF k
<1> HIDE DEF n
<1>9. Begins(q, p, p.level, b, D + k)
  BY <1>1, <1>2, <1>5, <1>6, <1>7, PulseLevel DEF Begins, Plays
<1> QED BY <1>8, <1>9 DEF q

\* PlayData begins the first pulse of the data.
LEMMA DataStarts ==
  ASSUME NEW p \in PlayerType, NEW b \in Blocks, b.id \in WithBits, BlockAt(p) = b
  PROVE  Begins(PlayData(p, b, Shape(b)), p, p.level, b, DataStart(b) + 1)
<1> DEFINE z == CYCLE_ADJUST(Shape(b).zero)
           o == CYCLE_ADJUST(Shape(b).one)
           B == DataBits(b)
           r == [p EXCEPT !.stage = "DATA", !.zero = z, !.one = o, !.left = B,
                          !.byte = 1, !.shift = <<>>]
           q == PlayBit(r)
<1>0. b.id \in {Std, Turbo, Pure, Direct} /\ ByteBits \in Nat \ {0}
  BY PlayerAssumption DEF WithBits
<1>1. z \in Word /\ o \in Word /\ B \in Word /\ B \in Nat \ {0}
  BY <1>0, ShapeType, CycleType, WordsType, DataBitsType
<1>2. PlayData(p, b, Shape(b)) = q
  BY DEF PlayData
<1>3. <<>> \in Shifts /\ 1 \in Nat \ {0}
  BY <1>0 DEF Shifts
<1> HIDE DEF z, o, B
<1>4. /\ r \in PlayerType /\ r.stage = "DATA" /\ r.zero = z /\ r.one = o /\ r.left = B
      /\ r.byte = 1 /\ r.shift = <<>> /\ Quiet(r, p) /\ r.level = p.level
  BY <1>1, <1>3 DEF PlayerType, Quiet, Frame, Stages
<1> HIDE DEF r
<1>5. BlockAt(r) = b
  BY <1>4, SameBlock DEF Quiet, Frame
<1>6. ReadSoFar(r, b)
  <2>1. Len(r.shift) = 0 /\ 1 .. Len(r.shift) = {}
    BY <1>4
  <2>2. B - r.left = 0 /\ (r.byte - 1) * ByteBits - Len(r.shift) = 0
    BY <1>0, <1>1, <1>4, <2>1
  <2> QED BY <1>1, <1>3, <1>4, <2>1, <2>2 DEF ReadSoFar, B
<1>7. Begins(q, r, r.level, b, DataStart(b) + 2 * (DataBits(b) - r.left) + 1)
  BY <1>1, <1>4, <1>5, <1>6, BitStarts DEF z, o
<1>8. DataStart(b) + 2 * (DataBits(b) - r.left) + 1 = DataStart(b) + 1
  BY <1>1, <1>4, LengthsType DEF B
<1> HIDE DEF q
<1>9. Begins(q, p, p.level, b, DataStart(b) + 1)
  BY <1>4, <1>7, <1>8 DEF Begins, Plays, Quiet, Frame
<1> QED BY <1>2, <1>9

\* Reading a sample begins it.
LEMMA SampleStarts ==
  ASSUME NEW p \in PlayerType, NEW b \in Blocks, b.id = Direct, BlockAt(p) = b,
         p.stage = "SAMPLE", ReadSoFar(p, b), p.left > 0,
         p.pulse = CYCLE_ADJUST(b.sample), NEW lv \in BOOLEAN
  PROVE  Begins(Tape_ReadSampleDataBit(p), p, lv, b, DataStart(b) + (DataBits(b) - p.left) + 1)
<1> DEFINE B == DataBits(b)
           D == DataStart(b)
           l == p.left
           m == B - (l - 1)
           n == CYCLE_ADJUST(b.sample)
           q == Tape_ReadSampleDataBit(p)
<1>0. b.id \in {Std, Turbo, Pure, Direct}
  OBVIOUS
<1>1. /\ q \in PlayerType
      /\ Plays(q, p, Bits(b)[m] = 1, n)
      /\ q.stage = p.stage /\ q.pulse = p.pulse
      /\ q.left = l - 1 /\ ReadSoFar(q, b)
  BY <1>0, SamplePlays
<1>2. B \in Nat /\ l \in Nat \ {0} /\ l <= B /\ D \in Nat
  BY <1>0, DataBitsType, LengthsType DEF ReadSoFar
<1> HIDE DEF q
<1>3. m = B - q.left /\ m \in 1 .. B /\ m \in Nat \ {0} /\ q.left < B
  BY <1>1, <1>2
<1>4. SampleAt(q, b, m)
  BY <1>1, <1>3 DEF SampleAt
<1>5. D + m > D /\ (D + m) - D = m /\ D + m \in Nat \ {0} /\ D + (B - l) + 1 = D + m
  BY <1>2, <1>3
<1> HIDE DEF m
<1>6. On(q, b, D + m)
  BY <1>4, <1>5 DEF On
<1>7. Recorded(b)[D + m] = [kind |-> "sample", bit |-> Bits(b)[m], length |-> n]
  BY <1>3, RecordedIs
<1>8. /\ LevelOf(Recorded(b)[D + m], lv) = (Bits(b)[m] = 1)
      /\ Recorded(b)[D + m].length = n
  BY <1>7 DEF LevelOf
<1> HIDE DEF n
<1>9. Begins(q, p, lv, b, D + m)
  <2>1. Plays(q, p, LevelOf(Recorded(b)[D + m], lv), Recorded(b)[D + m].length)
    BY <1>1, <1>8
  <2> QED BY <1>1, <1>6, <2>1 DEF Begins, Plays
<1> QED BY <1>5, <1>9 DEF q

\* PlaySamples begins the first sample.
LEMMA SamplesStart ==
  ASSUME NEW p \in PlayerType, NEW b \in Blocks, b.id = Direct, BlockAt(p) = b
  PROVE  Begins(PlaySamples(p, b), p, p.level, b, DataStart(b) + 1)
<1> DEFINE n == CYCLE_ADJUST(b.sample)
           B == DataBits(b)
           r == [p EXCEPT !.stage = "SAMPLE", !.pulse = n, !.left = B, !.byte = 1, !.shift = <<>>]
           q == Tape_ReadSampleDataBit(r)
<1>0. b.id \in {Std, Turbo, Pure, Direct} /\ ByteBits \in Nat \ {0}
  BY PlayerAssumption
<1>1. n \in Word /\ B \in Word /\ B \in Nat \ {0}
  BY <1>0, BlockKinds, CycleType, WordsType, DataBitsType
<1>2. PlaySamples(p, b) = q
  BY DEF PlaySamples
<1>3. <<>> \in Shifts /\ 1 \in Nat \ {0} /\ p.level \in BOOLEAN
  BY <1>0 DEF Shifts, PlayerType
<1> HIDE DEF n, B
<1>4. /\ r \in PlayerType /\ r.stage = "SAMPLE" /\ r.pulse = n /\ r.left = B
      /\ r.byte = 1 /\ r.shift = <<>> /\ Quiet(r, p) /\ r.level = p.level
  BY <1>1, <1>3 DEF PlayerType, Quiet, Frame, Stages
<1> HIDE DEF r
<1>5. BlockAt(r) = b
  BY <1>4, SameBlock DEF Quiet, Frame
<1>6. ReadSoFar(r, b)
  <2>1. Len(r.shift) = 0 /\ 1 .. Len(r.shift) = {}
    BY <1>4
  <2>2. B - r.left = 0 /\ (r.byte - 1) * ByteBits - Len(r.shift) = 0
    BY <1>0, <1>1, <1>4, <2>1
  <2> QED BY <1>1, <1>3, <1>4, <2>1, <2>2 DEF ReadSoFar, B
<1>7. Begins(q, r, p.level, b, DataStart(b) + (DataBits(b) - r.left) + 1)
  BY <1>1, <1>3, <1>4, <1>5, <1>6, SampleStarts DEF n
<1>8. DataStart(b) + (DataBits(b) - r.left) + 1 = DataStart(b) + 1
  BY <1>1, <1>4, LengthsType DEF B
<1> HIDE DEF q
<1>9. Begins(q, p, p.level, b, DataStart(b) + 1)
  BY <1>4, <1>7, <1>8 DEF Begins, Plays, Quiet, Frame
<1> QED BY <1>2, <1>9

\* PlayPause begins the hold of the pause.
LEMMA PauseStarts ==
  ASSUME NEW p \in PlayerType, NEW b \in Blocks, b.id \in WithPause, b.pause # 0
  PROVE  Begins(PlayPause(p, b.pause), p, p.level, b, DataStart(b) + DataLength(b) + 1)
<1> DEFINE n == MS_TO_CYCLES(1)
           m == MS_TO_CYCLES(b.pause - 1)
           D == DataStart(b) + DataLength(b)
           r == [p EXCEPT !.stage = "PAUSE"]
           s == Sound(r, n)
           q == [s EXCEPT !.pulse = m, !.count = 2]
<1>1. b.pause \in HalfWords /\ n \in Word /\ m \in Word /\ 2 \in Word /\ p.level \in BOOLEAN
  BY BlockKinds, MsType, TwoIsWord DEF WithPause, PlayerType
<1>2. PlayPause(p, b.pause) = q
  BY DEF PlayPause
<1> HIDE DEF n, m
<1>3. r \in PlayerType /\ r.stage = "PAUSE" /\ Quiet(r, p) /\ r.level = p.level
  BY DEF PlayerType, Quiet, Frame, Stages
<1> HIDE DEF r
<1>4. s \in PlayerType /\ Plays(s, r, r.level, n) /\ Controls(s, r)
  BY <1>1, <1>3, SoundPlays
<1> HIDE DEF s
<1>5. q \in PlayerType /\ q.stage = "PAUSE" /\ q.pulse = m /\ q.count = 2 /\ Plays(q, p, p.level, n)
  BY <1>1, <1>3, <1>4 DEF PlayerType, Plays, Quiet, Frame, Controls
<1> HIDE DEF q
<1>6. D \in Nat
  BY LengthsType
<1> HIDE DEF D
<1>7. D + 1 > D /\ (D + 1) - D = 1 /\ D + 1 \in Nat \ {0} /\ 1 = 3 - 2
  BY <1>6
<1>8. PauseAt(q, b, 1)
  BY <1>5, <1>7 DEF PauseAt, m
<1>9. On(q, b, D + 1)
  BY <1>7, <1>8 DEF On, D
<1>10. Recorded(b)[D + 1] = Interval("hold", n)
  BY RecordedIs DEF GapLength, D, n
<1>11. LevelOf(Recorded(b)[D + 1], p.level) = p.level /\ Recorded(b)[D + 1].length = n
  BY <1>1, <1>10 DEF LevelOf, Interval
<1>12. Begins(q, p, p.level, b, D + 1)
  BY <1>5, <1>7, <1>9, <1>11 DEF Begins, Plays
<1> QED BY <1>2, <1>12 DEF D

(***************************************************************************)
(* From block to block.                                                    *)
(***************************************************************************)
AtBlock(p, j) == [p EXCEPT !.blk = Offset(p.img)[j]]
\* q is p at the first block from the i-th on that sounds.
Finds(q, p, i) ==
  \E j \in i .. Len(p.img) + 1 :
    /\ \A k \in i .. j - 1 : Silent(p.img[k])
    /\ \/ j = Len(p.img) + 1 /\ q = AtBlock(p, j)
       \/ /\ j <= Len(p.img) /\ p.img[j].id \in Unsupported
          /\ q = [AtBlock(p, j) EXCEPT !.lost = TRUE]
       \/ /\ j <= Len(p.img) /\ p.img[j].id \in SoundIds
          /\ \E k \in {0, 1} : /\ Begins(q, AtBlock(p, j), p.level, p.img[j], k)
                               /\ k = 0 => PilotLength(p.img[j]) = 0
\* The same, with the player stopped behind the last block.
Moves(q, p, i) ==
  \E j \in i .. Len(p.img) + 1 :
    /\ \A k \in i .. j - 1 : Silent(p.img[k])
    /\ \/ j = Len(p.img) + 1 /\ q = [AtBlock(p, j) EXCEPT !.stage = "END", !.play = FALSE]
       \/ /\ j <= Len(p.img) /\ p.img[j].id \in Unsupported
          /\ q = [AtBlock(p, j) EXCEPT !.lost = TRUE]
       \/ /\ j <= Len(p.img) /\ p.img[j].id \in SoundIds
          /\ \E k \in {0, 1} : /\ Begins(q, AtBlock(p, j), p.level, p.img[j], k)
                               /\ k = 0 => PilotLength(p.img[j]) = 0

\* The player moved to another block.
LEMMA AtBlockType ==
  ASSUME NEW p \in PlayerType, NEW j \in 1 .. Len(p.img) + 1
  PROVE  /\ AtBlock(p, j) \in PlayerType /\ AtBlock(p, j).blk = Offset(p.img)[j]
         /\ AtBlock(p, j).img = p.img /\ AtBlock(p, j).live = p.live
         /\ AtBlock(p, j).level = p.level
<1>1. p.img \in Seq(Blocks)
  BY InsertedType DEF PlayerType
<1>2. Offset(p.img)[j] \in Nat
  BY <1>1, OffsetType
<1> QED BY <1>2 DEF AtBlock, PlayerType

\* The end of the image is behind its last block.
LEMMA Ends ==
  ASSUME NEW img \in Seq(Blocks), NEW j \in 1 .. Len(img) + 1
  PROVE  Offset(img)[j] >= End(img) <=> j = Len(img) + 1
<1> DEFINE n == Len(img)
<1>1. n \in Nat
  OBVIOUS
<1>2. /\ \A k \in 1 .. n + 1 : Offset(img)[k] \in Nat
      /\ \A k, l \in 1 .. n + 1 : k < l => Offset(img)[k] < Offset(img)[l]
  BY OffsetType
<1>3. End(img) = Offset(img)[n + 1]
  BY DEF End
<1> HIDE DEF n
<1>4. n + 1 \in 1 .. n + 1 /\ j \in 1 .. n + 1 /\ (j # n + 1 => j < n + 1)
  BY <1>1 DEF n
<1> QED BY <1>2, <1>3, <1>4 DEF n

\* What Tape_GetNextBlock plays of a block that it has found.
StartOf(q, b) ==
  CASE b.id = Std     -> PlayPilot(q, Standard.pilot, Standard.pulses)
    [] b.id \in {Turbo, Tone} -> PlayPilot(q, b.pilot, b.pulses)
    [] b.id = Pulses  -> PlaySync(q, Len(b.table))
    [] b.id = Pure    -> PlayData(q, b, b)
    [] b.id = Direct  -> PlaySamples(q, b)
    [] b.id = Silence -> PlayPause(q, b.pause)

\* The player begins the first interval of the block it is at.
LEMMA BlockStarts ==
  ASSUME NEW q \in PlayerType, NEW b \in Blocks, b.id \in SoundIds, ~Silent(b), BlockAt(q) = b
  PROVE  \E k \in {0, 1} : /\ Begins(StartOf(q, b), q, q.level, b, k)
                           /\ k = 0 => PilotLength(b) = 0
<1> USE DEF Std, Turbo, Tone, Pulses, Pure, Direct, Silence
<1>1. CASE b.id \in {Std, Turbo, Tone}
  <2>1. StartOf(q, b) = PlayPilot(q, Shape(b).pilot, Shape(b).pulses)
    BY <1>1 DEF StartOf, Shape
  <2> QED BY <1>1, <2>1, PilotStarts DEF WithPilot
<1>2. CASE b.id = Pulses
  <2>1. StartOf(q, b) = PlaySync(q, Len(Table(b)))
    BY <1>2 DEF StartOf, Table
  <2>2. PilotLength(b) + 1 = 1
    BY <1>2 DEF PilotLength, WithPilot
  <2>3. Begins(StartOf(q, b), q, q.level, b, PilotLength(b) + 1)
    BY <1>2, <2>1, TableStarts DEF WithTable
  <2> QED BY <2>2, <2>3
<1>3. CASE b.id = Pure
  <2>1. StartOf(q, b) = PlayData(q, b, Shape(b))
    BY <1>3 DEF StartOf, Shape
  <2>2. DataStart(b) + 1 = 1
    BY <1>3 DEF DataStart, PilotLength, TableLength, WithPilot, WithTable
  <2>3. Begins(StartOf(q, b), q, q.level, b, DataStart(b) + 1)
    BY <1>3, <2>1, DataStarts DEF WithBits
  <2> QED BY <2>2, <2>3
<1>4. CASE b.id = Direct
  <2>1. StartOf(q, b) = PlaySamples(q, b)
    BY <1>4 DEF StartOf
  <2>2. DataStart(b) + 1 = 1
    BY <1>4 DEF DataStart, PilotLength, TableLength, WithPilot, WithTable
  <2>3. Begins(StartOf(q, b), q, q.level, b, DataStart(b) + 1)
    BY <1>4, <2>1, SamplesStart
  <2> QED BY <2>2, <2>3
<1>5. CASE b.id = Silence
  <2>1. StartOf(q, b) = PlayPause(q, b.pause)
    BY <1>5 DEF StartOf
  <2>2. DataStart(b) + DataLength(b) + 1 = 1
    BY <1>5 DEF DataStart, DataLength, PilotLength, TableLength, WithPilot, WithTable, WithBits
  <2>3. b.pause # 0
    BY <1>5 DEF Silent, DataBlocks, Unsupported
  <2>4. Begins(StartOf(q, b), q, q.level, b, DataStart(b) + DataLength(b) + 1)
    BY <1>5, <2>1, <2>3, PauseStarts DEF WithPause
  <2> QED BY <2>2, <2>4
<1> QED BY <1>1, <1>2, <1>3, <1>4, <1>5 DEF SoundIds, DataBlocks

\* Tape_GetNextBlock finds the first block that sounds, and begins it.
LEMMA NextBlock ==
  ASSUME NEW p \in PlayerType, p.live, NEW i \in 1 .. Len(p.img) + 1, p.blk = Offset(p.img)[i]
  PROVE  Finds(Tape_GetNextBlock(p), p, i)
<1> DEFINE img == p.img
           n == Len(p.img)
<1>1. img \in Seq(Blocks) /\ n \in Nat
  BY InsertedType DEF PlayerType
<1>2. PICK j \in i .. n + 1 : /\ FirstSounding(p) = Offset(img)[j]
                              /\ j <= n => ~Silent(img[j])
                              /\ \A k \in i .. j - 1 : Silent(img[k])
  BY FirstSoundingAt
<1> DEFINE q == AtBlock(p, j)
           b == BlockAt(q)
           r == Tape_GetNextBlock(p)
<1>3. j \in 1 .. n + 1
  BY <1>1, <1>2
<1>4. q \in PlayerType /\ q.blk = Offset(img)[j] /\ q.img = img /\ q.live /\ q.level = p.level
  BY <1>3, AtBlockType
<1>5. [p EXCEPT !.blk = FirstSounding(p)] = q
  BY <1>2 DEF AtBlock
<1>6. q.blk >= End(q.img) <=> j = n + 1
  BY <1>1, <1>3, <1>4, Ends
<1>7. r = CASE q.blk >= End(q.img)  -> q
            [] q.blk < End(q.img) /\ b.id \in Unsupported \cup {0} -> [q EXCEPT !.lost = TRUE]
            [] b.id = Std     -> PlayPilot(q, Standard.pilot, Standard.pulses)
            [] b.id \in {Turbo, Tone} -> PlayPilot(q, b.pilot, b.pulses)
            [] b.id = Pulses  -> PlaySync(q, Len(b.table))
            [] b.id = Pure    -> PlayData(q, b, b)
            [] b.id = Direct  -> PlaySamples(q, b)
            [] b.id = Silence -> PlayPause(q, b.pause)
  BY <1>5 DEF Tape_GetNextBlock
<1>8. q.blk \in Nat /\ End(q.img) \in Nat
  <2>1. n + 1 \in 1 .. n + 1
    BY <1>1
  <2> QED BY <1>1, <1>3, <1>4, <2>1, OffsetType DEF End
<1> HIDE DEF q, r
<1>9. CASE j = n + 1
  <2>2. BlockAt(q) = Junk
    <3>1. \A k \in 1 .. n : Offset(img)[k] # q.blk
      <4> TAKE k \in 1 .. n
      <4>1. k \in 1 .. n + 1 /\ k < n + 1 /\ n + 1 \in 1 .. n + 1
        BY <1>1
      <4>2. Offset(img)[k] < Offset(img)[n + 1] /\ Offset(img)[k] \in Nat
        BY <1>1, <4>1, OffsetType
      <4> QED BY <1>4, <1>8, <1>9, <4>2
    <3>2. q.img \in Seq(Blocks) /\ Len(q.img) = n
      BY <1>1, <1>4
    <3>3. \/ BlockAt(q) = Junk
          \/ \E k \in 1 .. Len(q.img) : /\ q.live /\ Offset(q.img)[k] = q.blk
                                        /\ BlockAt(q) = q.img[k]
      BY <3>2, BlockAnywhere
    <3> QED BY <1>4, <3>1, <3>2, <3>3
  <2>3. b.id = 0
    BY <2>2 DEF Junk
  <2>4. q.blk >= End(q.img) /\ ~(q.blk < End(q.img))
    BY <1>6, <1>8, <1>9
  <2> HIDE DEF b
  <2>5. r = q
    BY <1>7, <2>3, <2>4 DEF Std, Turbo, Tone, Pulses, Pure, Direct, Silence
  <2> QED BY <1>2, <1>9, <2>5 DEF Finds, q, r
<1>10. CASE j # n + 1
  <2>1. j \in 1 .. n /\ j <= n
    BY <1>1, <1>3, <1>10
  <2>2. b = img[j] /\ b \in Blocks
    BY <1>1, <1>4, <2>1, BlockHere
  <2>3. ~(q.blk >= End(q.img)) /\ q.blk < End(q.img)
    BY <1>6, <1>8, <1>10
  <2>4. ~Silent(b) /\ b.id # 0
    BY <1>2, <2>1, <2>2, BlockKinds
  <2>5. CASE b.id \in Unsupported
    <3> USE DEF Unsupported, Std, Turbo, Tone, Pulses, Pure, Direct, Silence
    <3> HIDE DEF b
    <3>1. r = [q EXCEPT !.lost = TRUE]
      BY <1>7, <2>3, <2>5
    <3> HIDE DEF Unsupported, Std, Turbo, Tone, Pulses, Pure, Direct, Silence
    <3> QED BY <1>2, <2>1, <2>2, <2>5, <3>1 DEF Finds, q, r
  <2>6. CASE b.id \notin Unsupported
    <3>1. b.id \in SoundIds
      BY <2>2, <2>4, <2>6, SoundingKinds
    <3>2. BlockAt(q) = b
      OBVIOUS
    <3> HIDE DEF b
    <3>3. b.id \notin Unsupported \cup {0}
      BY <2>4, <2>6
    <3>4. r = StartOf(q, b)
      BY <1>7, <2>3, <3>1, <3>3
      DEF StartOf, SoundIds, DataBlocks, Std, Turbo, Tone, Pulses, Pure, Direct, Silence
    <3>5. \E k \in {0, 1} : Begins(r, q, q.level, b, k) /\ (k = 0 => PilotLength(b) = 0)
      BY <1>4, <2>2, <2>4, <3>1, <3>2, <3>4, BlockStarts
    <3>6. \E k \in {0, 1} : /\ Begins(r, AtBlock(p, j), p.level, img[j], k)
                            /\ k = 0 => PilotLength(img[j]) = 0
      BY <1>4, <2>2, <3>5 DEF q
    <3> QED BY <1>2, <2>1, <2>2, <3>1, <3>6 DEF Finds, r
  <2> QED BY <2>5, <2>6
<1> QED BY <1>9, <1>10

\* Tape_BlockDone moves from a block to the next one that sounds, or stops the player.
LEMMA BlockDone ==
  ASSUME NEW p \in PlayerType, p.live, NEW i \in 1 .. Len(p.img), p.blk = Offset(p.img)[i],
         p.img[i].id \in SoundIds
  PROVE  Moves(Tape_BlockDone(p), p, i + 1)
<1> DEFINE img == p.img
           n == Len(p.img)
           s == [p EXCEPT !.blk = @ + 1 + DoneSize(BlockAt(p))]
           q == Tape_GetNextBlock(s)
           r == Tape_BlockDone(p)
<1>1. img \in Seq(Blocks) /\ n \in Nat /\ i \in 1 .. n + 1 /\ i + 1 \in 1 .. n + 1
  BY InsertedType DEF PlayerType
<1>2. BlockAt(p) = img[i] /\ img[i] \in Blocks
  BY <1>1, BlockHere
<1>3. p.blk + 1 + DoneSize(BlockAt(p)) = Offset(img)[i + 1]
  BY <1>1, <1>2, SizesAgree, OffsetDef
<1>4. s = AtBlock(p, i + 1)
  BY <1>3 DEF AtBlock
<1>a. i + 1 \in 1 .. Len(p.img) + 1
  BY <1>1
<1>5. /\ s \in PlayerType /\ s.blk = Offset(img)[i + 1] /\ s.img = img /\ s.live /\ s.level = p.level
  <2> HIDE DEF s
  <2> QED BY <1>a, <1>4, AtBlockType
<1>6. r = IF q.blk >= End(q.img) THEN [q EXCEPT !.stage = "END", !.play = FALSE] ELSE q
  BY DEF Tape_BlockDone
<1>7. \A j \in 1 .. n + 1 : AtBlock(s, j) = AtBlock(p, j)
  <2> TAKE j \in 1 .. n + 1
  <2> DEFINE o == Offset(img)[j]
             x == p.blk + 1 + DoneSize(BlockAt(p))
  <2>1. AtBlock(s, j) = [s EXCEPT !.blk = o] /\ AtBlock(p, j) = [p EXCEPT !.blk = o]
    <3> HIDE DEF s
    <3> QED BY <1>5 DEF AtBlock
  <2>2. s = [p EXCEPT !.blk = x]
    OBVIOUS
  <2> HIDE DEF s, o, x
  <2>3. [[p EXCEPT !.blk = x] EXCEPT !.blk = o] = [p EXCEPT !.blk = o]
    BY DEF PlayerType
  <2> QED BY <2>1, <2>2, <2>3
<1> HIDE DEF s, q, r
<1>8. Finds(q, s, i + 1)
  BY <1>1, <1>5, NextBlock DEF q
<1>9. PICK j \in i + 1 .. n + 1 :
        /\ \A k \in i + 1 .. j - 1 : Silent(img[k])
        /\ \/ j = n + 1 /\ q = AtBlock(s, j)
           \/ /\ j <= n /\ img[j].id \in Unsupported
              /\ q = [AtBlock(s, j) EXCEPT !.lost = TRUE]
           \/ /\ j <= n /\ img[j].id \in SoundIds
              /\ \E k \in {0, 1} : /\ Begins(q, AtBlock(s, j), s.level, img[j], k)
                                   /\ k = 0 => PilotLength(img[j]) = 0
  BY <1>5, <1>8 DEF Finds
<1> DEFINE t == AtBlock(p, j)
<1>10. j \in 1 .. n + 1 /\ AtBlock(s, j) = t
  BY <1>1, <1>7, <1>9
<1>11. t \in PlayerType /\ t.blk = Offset(img)[j] /\ t.img = img
  BY <1>10, AtBlockType
<1>12. Offset(img)[j] >= End(img) <=> j = n + 1
  BY <1>1, <1>10, Ends
<1> HIDE DEF t
<1>13. CASE j = n + 1 /\ q = AtBlock(s, j)
  <2>1. r = [t EXCEPT !.stage = "END", !.play = FALSE]
    BY <1>6, <1>10, <1>11, <1>12, <1>13
  <2> QED BY <1>9, <1>13, <2>1 DEF Moves, t, r
<1>14. CASE j <= n /\ img[j].id \in Unsupported /\ q = [AtBlock(s, j) EXCEPT !.lost = TRUE]
  <2>1. q.blk = t.blk /\ q.img = t.img /\ j # n + 1
    BY <1>1, <1>10, <1>11, <1>14 DEF PlayerType
  <2>2. r = [t EXCEPT !.lost = TRUE]
    BY <1>6, <1>10, <1>11, <1>12, <1>14, <2>1
  <2> QED BY <1>9, <1>14, <2>2 DEF Moves, t, r
<1>15. CASE /\ j <= n /\ img[j].id \in SoundIds
            /\ \E k \in {0, 1} : /\ Begins(q, AtBlock(s, j), s.level, img[j], k)
                                 /\ k = 0 => PilotLength(img[j]) = 0
  <2>1. PICK k \in {0, 1} : Begins(q, t, p.level, img[j], k) /\ (k = 0 => PilotLength(img[j]) = 0)
    BY <1>5, <1>10, <1>15
  <2>2. q.blk = t.blk /\ q.img = t.img /\ j # n + 1
    BY <1>1, <1>15, <2>1 DEF Begins, Frame
  <2>3. r = q
    BY <1>6, <1>11, <1>12, <2>2
  <2>4. \E l \in {0, 1} : /\ Begins(r, AtBlock(p, j), p.level, img[j], l)
                          /\ l = 0 => PilotLength(img[j]) = 0
    BY <2>1, <2>3 DEF t
  <2> QED BY <1>9, <1>15, <2>4 DEF Moves, r
<1> QED BY <1>9, <1>13, <1>14, <1>15

(***************************************************************************)
(* An interval is over: the next one of the block begins, or the block is  *)
(* done.                                                                   *)
(***************************************************************************)
\* The level behind the interval that p plays.
After(p) == IF p.stage \in {"PILOT", "SYNC", "DATA"} THEN ~p.level ELSE p.level
\* s is p with its interval over.
Over(s, p) ==
  /\ s \in PlayerType /\ Quiet(s, p) /\ s.level = After(p) /\ s.stage = p.stage
  /\ s.stage \in {"DATA", "SAMPLE"} => s.left = 0
Leaves(q, p, i) == \E s : Over(s, p) /\ Moves(q, s, i + 1)
\* From p, at the k-th interval of block i, to q.
Steps(q, p, i, k) ==
  \/ \E l \in {k + 1, 0} : /\ Begins(q, p, After(p), p.img[i], l)
                           /\ l = 0 => k = 0
  \/ k = Len(Recorded(p.img[i])) /\ Leaves(q, p, i)
Here(p, i, k) ==
  /\ p \in PlayerType /\ p.live /\ i \in 1 .. Len(p.img) /\ p.blk = Offset(p.img)[i]
  /\ p.img[i].id \in SoundIds /\ On(p, p.img[i], k)

\* What is known of a player that is at an interval.
LEMMA HereType ==
  ASSUME NEW p, NEW i, NEW k, Here(p, i, k)
  PROVE  /\ p \in PlayerType /\ p.live /\ i \in 1 .. Len(p.img) /\ p.blk = Offset(p.img)[i]
         /\ p.img[i] \in Blocks /\ p.img[i].id \in SoundIds /\ BlockAt(p) = p.img[i]
         /\ On(p, p.img[i], k) /\ k \in Nat /\ p.level \in BOOLEAN /\ After(p) \in BOOLEAN
         /\ Len(Recorded(p.img[i])) = DataStart(p.img[i]) + DataLength(p.img[i]) + GapLength(p.img[i])
<1>1. /\ p \in PlayerType /\ p.live /\ i \in 1 .. Len(p.img) /\ p.blk = Offset(p.img)[i]
      /\ p.img[i].id \in SoundIds /\ On(p, p.img[i], k) /\ k \in Nat
  BY DEF Here, On
<1>2. p.img \in Seq(Blocks)
  BY <1>1, InsertedType DEF PlayerType
<1>3. p.img[i] \in Blocks /\ BlockAt(p) = p.img[i]
  BY <1>1, <1>2, BlockHere
<1>4. p.level \in BOOLEAN /\ After(p) \in BOOLEAN
  BY <1>1 DEF PlayerType, After
<1> QED BY <1>1, <1>3, <1>4, RecordedIs

\* An interval begun after a quiet step is begun after the state before.
LEMMA BeginsLater ==
  ASSUME NEW p, NEW r, NEW q, NEW lv, NEW b, NEW k, Quiet(r, p), Begins(q, r, lv, b, k)
  PROVE  Begins(q, p, lv, b, k)
BY DEF Quiet, Begins, Plays, Frame

\* Tape_BlockDone, at the end of the last interval of a block.
LEMMA Leaving ==
  ASSUME NEW p, NEW i, NEW k, Here(p, i, k), NEW s, Over(s, p)
  PROVE  Leaves(Tape_BlockDone(s), p, i)
<1>1. /\ p.live /\ i \in 1 .. Len(p.img) /\ p.blk = Offset(p.img)[i] /\ p.img[i].id \in SoundIds
  BY HereType
<1>2. s \in PlayerType /\ s.live /\ i \in 1 .. Len(s.img) /\ s.blk = Offset(s.img)[i] /\ s.img[i].id \in SoundIds
  BY <1>1 DEF Over, Quiet, Frame
<1>3. Moves(Tape_BlockDone(s), s, i + 1)
  BY <1>2, BlockDone
<1> QED BY <1>3 DEF Leaves

\* The end of a pulse.
LEMMA PulseOver ==
  ASSUME NEW p \in PlayerType
  PROVE  LET r == CountDown(Tape_SwitchLevel(p))
         IN /\ r \in PlayerType /\ Quiet(r, p) /\ r.level = ~p.level
            /\ r.count = IF p.count = 0 THEN HalfWord * HalfWord - 1 ELSE p.count - 1
            /\ r.stage = p.stage /\ r.pulse = p.pulse /\ r.zero = p.zero /\ r.one = p.one
            /\ r.left = p.left /\ r.byte = p.byte /\ r.shift = p.shift /\ r.pos = p.pos
<1> DEFINE lv == ~p.level
           r == CountDown([p EXCEPT !.level = lv])
<1>1. lv \in BOOLEAN
  OBVIOUS
<1>2. Tape_SwitchLevel(p) = [p EXCEPT !.level = lv]
  BY Switched
<1> HIDE DEF lv
<1>3. /\ r \in PlayerType /\ Quiet(r, p) /\ r.level = lv
      /\ r.count = IF p.count = 0 THEN HalfWord * HalfWord - 1 ELSE p.count - 1
      /\ r.stage = p.stage /\ r.pulse = p.pulse /\ r.zero = p.zero /\ r.one = p.one
      /\ r.left = p.left /\ r.byte = p.byte /\ r.shift = p.shift /\ r.pos = p.pos
  BY <1>1, CountedDown
<1> HIDE DEF r
<1> QED BY <1>2, <1>3 DEF r, lv

\* The next pulse, or sample, of the same length.
LEMMA SoundBegins ==
  ASSUME NEW r \in PlayerType, NEW p, Quiet(r, p), NEW n \in Word, NEW lv, NEW b, NEW l,
         On(Sound(r, n), b, l),
         l # 0 => r.level = LevelOf(Recorded(b)[l], lv) /\ n = Recorded(b)[l].length
  PROVE  Begins(Sound(r, n), p, lv, b, l)
<1> DEFINE q == Sound(r, n)
<1>1. q \in PlayerType /\ Plays(q, r, r.level, n)
  BY SoundPlays
<1> HIDE DEF q
<1>2. Frame(q, p) /\ Plays(q, p, r.level, n)
  BY <1>1 DEF Plays, Quiet, Frame
<1> QED BY <1>1, <1>2 DEF Begins, q

\* At the end of a pulse of a pilot tone.
LEMMA PilotStep ==
  ASSUME NEW p, NEW i, NEW k, Here(p, i, k), PilotAt(p, p.img[i], k)
  PROVE  Steps(PilotOver(p), p, i, k)
<1> DEFINE b == p.img[i]
           P == PilotLength(b)
           c == IF p.count = 0 THEN HalfWord * HalfWord - 1 ELSE p.count - 1
           r == CountDown(Tape_SwitchLevel(p))
           n == CYCLE_ADJUST(Shape(b).pilot)
<1>1. /\ p \in PlayerType /\ b \in Blocks /\ b.id \in SoundIds /\ BlockAt(p) = b /\ k \in Nat
      /\ p.level \in BOOLEAN
      /\ Len(Recorded(b)) = DataStart(b) + DataLength(b) + GapLength(b)
  BY HereType
<1>2. /\ p.stage = "PILOT" /\ b.id \in WithPilot /\ p.pulse = n
      /\ P = 0 => k = 0
      /\ P # 0 => k \in 1 .. P /\ p.count = P + 1 - k
  BY DEF PilotAt
<1>3. P \in Nat /\ n \in Word /\ p.count \in Nat
  BY <1>1, <1>2, ShapeType, CycleType, WordsType DEF PilotLength, PlayerType
<1>4. After(p) = ~p.level /\ (~p.level) \in BOOLEAN
  BY <1>1, <1>2 DEF After
<1>5. /\ r \in PlayerType /\ Quiet(r, p) /\ r.level = ~p.level /\ r.count = c
      /\ r.stage = "PILOT" /\ r.pulse = n
  BY <1>1, <1>2, PulseOver
<1>6. BlockAt(r) = b
  BY <1>1, <1>5, SameBlock DEF Quiet, Frame
<1>7. PilotOver(p) = IF r.count > 0 THEN Sound(r, r.pulse)
                     ELSE IF BlockAt(r).id = Tone THEN Tape_BlockDone(r) ELSE PlaySync(r, 2)
  BY DEF PilotOver
<1> HIDE DEF r, P, n, b
<1>8. P # 0 => c = P - k
  BY <1>2, <1>3
<1> HIDE DEF c
<1>9. CASE r.count > 0
  <2> DEFINE q == Sound(r, n)
             l == IF P = 0 THEN 0 ELSE k + 1
  <2>1. PilotOver(p) = q
    BY <1>5, <1>7, <1>9
  <2>2. Controls(q, r)
    BY <1>3, <1>5, SoundPlays
  <2> HIDE DEF q
  <2>3. q.stage = "PILOT" /\ q.pulse = n /\ q.count = r.count
    BY <1>5, <2>2 DEF Controls
  <2>4. /\ P = 0 => l = 0
        /\ P # 0 => l \in 1 .. P /\ q.count = P + 1 - l
    BY <1>2, <1>3, <1>5, <1>8, <1>9, <2>3
  <2>5. PilotAt(q, b, l)
    BY <1>2, <2>3, <2>4 DEF PilotAt, P, n
  <2>6. On(q, b, l)
    <3>1. l \in Nat
      BY <1>1
    <3> HIDE DEF l
    <3> QED BY <2>5, <3>1 DEF On
  <2>7. ASSUME l # 0 PROVE r.level = LevelOf(Recorded(b)[l], After(p)) /\ n = Recorded(b)[l].length
    <3>1. l \in 1 .. P
      BY <2>4, <2>7
    <3> HIDE DEF l
    <3>2. Recorded(b)[l] = Interval("pulse", n)
      BY <1>1, <3>1, RecordedIs DEF P, n
    <3> QED BY <1>4, <1>5, <3>2, PulseLevel
  <2>8. Begins(q, p, After(p), b, l)
    <3> HIDE DEF l
    <3> QED BY <1>3, <1>5, <2>6, <2>7, SoundBegins DEF q
  <2>9. l \in {k + 1, 0} /\ (l = 0 => k = 0)
    BY <1>1, <1>2, <1>3
  <2> HIDE DEF l
  <2> QED BY <2>1, <2>8, <2>9 DEF Steps, b
<1>10. CASE ~(r.count > 0)
  <2>1. k = P
    BY <1>2, <1>3, <1>5, <1>8, <1>10
  <2>2. CASE b.id = Tone
    <3>1. PilotOver(p) = Tape_BlockDone(r)
      BY <1>6, <1>7, <1>10, <2>2
    <3>2. DataStart(b) = P /\ DataLength(b) = 0 /\ GapLength(b) = 0
      BY <1>3, <2>2 DEF DataStart, P, TableLength, DataLength, GapLength, WithTable, WithBits,
                        WithPause, Std, Turbo, Tone, Pulses, Pure, Direct, Silence
    <3>3. Over(r, p)
      BY <1>2, <1>4, <1>5 DEF Over
    <3>4. Leaves(Tape_BlockDone(r), p, i)
      BY <3>3, Leaving
    <3>5. k = Len(Recorded(b))
      BY <1>1, <1>3, <2>1, <3>2
    <3> QED BY <3>1, <3>4, <3>5 DEF Steps, b
  <2>3. CASE b.id # Tone
    <3>1. PilotOver(p) = PlaySync(r, 2)
      BY <1>6, <1>7, <1>10, <2>3
    <3>2. b.id \in WithTable /\ Len(Table(b)) = 2
      BY <1>1, <1>2, <2>3, ShapeType
      DEF WithPilot, WithTable, Std, Turbo, Tone, Pulses
    <3>3. Begins(PlaySync(r, 2), r, r.level, b, P + 1)
      BY <1>1, <1>5, <1>6, <3>2, TableStarts DEF P
    <3>4. Begins(PlaySync(r, 2), p, After(p), b, k + 1)
      BY <1>4, <1>5, <2>1, <3>3, BeginsLater
    <3>5. k + 1 # 0
      BY <1>1
    <3> QED BY <3>1, <3>4, <3>5 DEF Steps, b
  <2> QED BY <2>2, <2>3
<1> QED BY <1>9, <1>10

\* At the end of a pulse of a table.
LEMMA TableStep ==
  ASSUME NEW p, NEW i, NEW m, Here(p, i, PilotLength(p.img[i]) + m), TableAt(p, p.img[i], m)
  PROVE  Steps(SyncOver(p), p, i, PilotLength(p.img[i]) + m)
<1> DEFINE b == p.img[i]
           P == PilotLength(b)
           T == TableLength(b)
           r == CountDown(Tape_SwitchLevel(p))
<1>1. /\ p \in PlayerType /\ b \in Blocks /\ b.id \in SoundIds /\ BlockAt(p) = b
      /\ p.level \in BOOLEAN
      /\ Len(Recorded(b)) = DataStart(b) + DataLength(b) + GapLength(b)
  BY HereType
<1>2. /\ p.stage = "SYNC" /\ b.id \in WithTable /\ m \in 1 .. T
      /\ p.count = T + 1 - m /\ p.pos = IF m = T THEN 1 ELSE m + 1
  BY DEF TableAt
<1>3. P \in Nat /\ T \in Nat /\ DataStart(b) = P + T
  BY <1>1, LengthsType DEF DataStart
<1>4. After(p) = ~p.level /\ (~p.level) \in BOOLEAN
  BY <1>1, <1>2 DEF After
<1>5. /\ r \in PlayerType /\ Quiet(r, p) /\ r.level = ~p.level
      /\ r.count = IF p.count = 0 THEN HalfWord * HalfWord - 1 ELSE p.count - 1
      /\ r.stage = "SYNC" /\ r.pos = p.pos
  BY <1>1, <1>2, PulseOver
<1>6. BlockAt(r) = b
  BY <1>1, <1>5, SameBlock DEF Quiet, Frame
<1>7. SyncOver(p) = IF r.count > 0 THEN PlayTable(r)
                    ELSE IF BlockAt(r).id = Pulses THEN Tape_BlockDone(r)
                    ELSE PlayData(r, BlockAt(r), IF BlockAt(r).id = Std THEN Standard ELSE BlockAt(r))
  BY DEF SyncOver
<1> HIDE DEF r, P, T, b
<1>8. r.count = T - m
  BY <1>2, <1>3, <1>5
<1>9. CASE r.count > 0
  <2> DEFINE q == PlayTable(r)
             n == CYCLE_ADJUST(Table(b)[m + 1])
  <2>1. SyncOver(p) = q
    BY <1>7, <1>9
  <2>2. m + 1 \in 1 .. T /\ r.pos = m + 1
    BY <1>2, <1>3, <1>5, <1>8, <1>9
  <2>3. r.pos \in 1 .. TableLength(b)
    BY <2>2 DEF T
  <2>4. /\ q \in PlayerType /\ Plays(q, r, r.level, CYCLE_ADJUST(Table(b)[r.pos]))
        /\ q.stage = r.stage /\ q.count = r.count
        /\ q.pos = IF r.pos = TableLength(b) THEN 1 ELSE r.pos + 1
    BY <1>1, <1>2, <1>5, <1>6, <2>3, TablePlays
  <2> HIDE DEF q
  <2>5. q.stage = "SYNC" /\ q.count = T + 1 - (m + 1) /\ q.pos = IF m + 1 = T THEN 1 ELSE (m + 1) + 1
    BY <1>2, <1>3, <1>5, <1>8, <2>2, <2>4 DEF T
  <2>6. TableAt(q, b, m + 1)
    BY <1>2, <2>2, <2>5 DEF TableAt, T
  <2>7. (P + m) + 1 \in Nat \ {0} /\ (P + m) + 1 > P /\ ((P + m) + 1) - P = m + 1
        /\ (P + m) + 1 = P + (m + 1)
    BY <1>2, <1>3
  <2>8. On(q, b, (P + m) + 1)
    BY <2>6, <2>7 DEF On, P
  <2>9. Recorded(b)[P + (m + 1)] = Interval("pulse", n)
    BY <1>1, <2>2, RecordedIs DEF P, T
  <2>10. Plays(q, p, ~p.level, n)
    BY <1>5, <2>2, <2>4 DEF Plays, Quiet, Frame
  <2> HIDE DEF n
  <2>11. /\ LevelOf(Recorded(b)[(P + m) + 1], After(p)) = ~p.level
         /\ Recorded(b)[(P + m) + 1].length = n
    BY <1>4, <2>7, <2>9, PulseLevel, Zenon
  <2>12. Begins(q, p, After(p), b, (P + m) + 1)
    BY <2>4, <2>8, <2>10, <2>11 DEF Begins, Plays
  <2> QED BY <2>1, <2>7, <2>12 DEF Steps, b, P
<1>10. CASE ~(r.count > 0)
  <2>1. m = T
    BY <1>2, <1>3, <1>8, <1>10
  <2>2. CASE b.id = Pulses
    <3>1. SyncOver(p) = Tape_BlockDone(r)
      BY <1>6, <1>7, <1>10, <2>2
    <3>2. DataLength(b) = 0 /\ GapLength(b) = 0
      BY <2>2 DEF DataLength, GapLength, WithBits,
                  WithPause, Std, Turbo, Tone, Pulses, Pure, Direct, Silence
    <3>3. Over(r, p)
      BY <1>2, <1>4, <1>5 DEF Over
    <3>4. Leaves(Tape_BlockDone(r), p, i)
      BY <3>3, Leaving DEF P, b
    <3>5. P + m = Len(Recorded(b))
      BY <1>1, <1>3, <2>1, <3>2
    <3> QED BY <3>1, <3>4, <3>5 DEF Steps, b, P
  <2>3. CASE b.id # Pulses
    <3>1. SyncOver(p) = PlayData(r, b, Shape(b))
      BY <1>6, <1>7, <1>10, <2>3 DEF Shape
    <3>2. b.id \in WithBits
      BY <1>2, <2>3 DEF WithBits, WithTable, Std, Turbo, Pulses
    <3>3. Begins(PlayData(r, b, Shape(b)), r, r.level, b, DataStart(b) + 1)
      BY <1>1, <1>5, <1>6, <3>2, DataStarts
    <3>4. DataStart(b) + 1 = (P + m) + 1 /\ (P + m) + 1 # 0
      BY <1>3, <2>1
    <3>5. Begins(PlayData(r, b, Shape(b)), p, After(p), b, (P + m) + 1)
      BY <1>4, <1>5, <3>3, <3>4, BeginsLater
    <3> QED BY <3>1, <3>4, <3>5 DEF Steps, b, P
  <2> QED BY <2>2, <2>3
<1> QED BY <1>9, <1>10

\* The data of a block are over.
LEMMA PauseFollows ==
  ASSUME NEW p, NEW i, NEW k, Here(p, i, k), p.img[i].id \in WithPause,
         k = DataStart(p.img[i]) + DataLength(p.img[i]), NEW s, Over(s, p)
  PROVE  Steps(PauseAfter(s, p.img[i].pause), p, i, k)
<1> DEFINE b == p.img[i]
<1>1. /\ b \in Blocks /\ k \in Nat
      /\ Len(Recorded(b)) = DataStart(b) + DataLength(b) + GapLength(b)
  BY HereType
<1>2. s \in PlayerType /\ Quiet(s, p) /\ s.level = After(p)
  BY DEF Over
<1> HIDE DEF b
<1>3. CASE b.pause # 0
  <2>1. PauseAfter(s, b.pause) = PlayPause(s, b.pause)
    BY <1>3 DEF PauseAfter
  <2>2. Begins(PlayPause(s, b.pause), s, s.level, b, DataStart(b) + DataLength(b) + 1)
    BY <1>1, <1>2, <1>3, PauseStarts DEF b
  <2>3. Begins(PlayPause(s, b.pause), p, After(p), b, k + 1)
    BY <1>2, <2>2, BeginsLater DEF b
  <2>4. k + 1 # 0
    BY <1>1
  <2> QED BY <2>1, <2>3, <2>4 DEF Steps, b
<1>4. CASE b.pause = 0
  <2>1. PauseAfter(s, b.pause) = Tape_BlockDone(s)
    BY <1>4 DEF PauseAfter
  <2>2. GapLength(b) = 0
    BY <1>4 DEF GapLength
  <2>3. k = Len(Recorded(b))
    BY <1>1, <2>2 DEF b
  <2>4. Leaves(Tape_BlockDone(s), p, i)
    BY Leaving
  <2> QED BY <2>1, <2>3, <2>4 DEF Steps, b
<1> QED BY <1>3, <1>4 DEF b

\* At the end of a pulse of a bit.
LEMMA BitStep ==
  ASSUME NEW p, NEW i, NEW m, Here(p, i, DataStart(p.img[i]) + m), BitAt(p, p.img[i], m)
  PROVE  Steps(BitOver(p), p, i, DataStart(p.img[i]) + m)
<1> DEFINE b == p.img[i]
           D == DataStart(b)
           B == DataBits(b)
           r == CountDown(Tape_SwitchLevel(p))
           n == BitLength(b, B - p.left)
<1>1. /\ p \in PlayerType /\ b \in Blocks /\ b.id \in SoundIds /\ BlockAt(p) = b
      /\ p.level \in BOOLEAN /\ D + m \in Nat
  BY HereType
<1>2. /\ p.stage = "DATA" /\ b.id \in WithBits /\ ReadSoFar(p, b) /\ p.left < B
      /\ p.zero = CYCLE_ADJUST(Shape(b).zero) /\ p.one = CYCLE_ADJUST(Shape(b).one)
      /\ p.pulse = n
      /\ p.count \in {1, 2} /\ m = 2 * (B - p.left) + 1 - p.count
  BY DEF BitAt
<1>3. D \in Nat /\ B \in Nat /\ p.left \in Nat
  BY <1>1, <1>2, LengthsType, DataBitsType DEF WithBits, ReadSoFar
<1>4. After(p) = ~p.level /\ (~p.level) \in BOOLEAN
  BY <1>1, <1>2 DEF After
<1>5. /\ r \in PlayerType /\ Quiet(r, p) /\ r.level = ~p.level
      /\ r.count = p.count - 1
      /\ r.stage = "DATA" /\ r.pulse = n /\ r.zero = p.zero /\ r.one = p.one
      /\ r.left = p.left /\ r.byte = p.byte /\ r.shift = p.shift
  BY <1>1, <1>2, PulseOver
<1>6. BlockAt(r) = b
  BY <1>1, <1>5, SameBlock DEF Quiet, Frame
<1>7. ReadSoFar(r, b)
  BY <1>2, <1>5 DEF ReadSoFar
<1>8. BitOver(p) = IF r.count > 0 THEN Sound(r, r.pulse)
                   ELSE IF r.left > 0 THEN PlayBit(r) ELSE PauseAfter(r, BlockAt(r).pause)
  BY DEF BitOver
<1> HIDE DEF r, n, b, D, B
<1>9. n \in Word
  BY <1>1, <1>5 DEF PlayerType
<1>10. CASE p.count = 2
  <2> DEFINE q == Sound(r, n)
  <2>1. BitOver(p) = q
    BY <1>5, <1>8, <1>10
  <2>2. Controls(q, r)
    BY <1>5, <1>9, SoundPlays
  <2> HIDE DEF q
  <2>3. /\ q.stage = "DATA" /\ q.pulse = n /\ q.count = 1 /\ q.zero = p.zero /\ q.one = p.one
        /\ q.left = p.left /\ q.byte = p.byte /\ q.shift = p.shift
    BY <1>5, <1>10, <2>2 DEF Controls
  <2>4. ReadSoFar(q, b)
    BY <1>2, <2>3 DEF ReadSoFar
  <2>5. m + 1 = 2 * (B - q.left) + 1 - q.count /\ m + 1 \in Nat
    BY <1>2, <1>3, <1>10, <2>3
  <2>6. BitAt(q, b, m + 1)
    BY <1>2, <2>3, <2>4, <2>5 DEF BitAt, B, n
  <2>7. (D + m) + 1 \in Nat \ {0} /\ (D + m) + 1 > D /\ ((D + m) + 1) - D = m + 1
    BY <1>1, <1>2, <1>3, <1>10
  <2>8. On(q, b, (D + m) + 1)
    BY <2>6, <2>7 DEF On, D
  <2>9. Recorded(b)[(D + m) + 1] = Interval("pulse", n)
    <3> DEFINE x == B - p.left
    <3>1. x \in 1 .. B /\ m + 1 = 2 * x /\ (D + m) + 1 = D + (2 * x)
      BY <1>1, <1>2, <1>3, <1>10
    <3> HIDE DEF x
    <3>2. Recorded(b)[D + (2 * x)] = Interval("pulse", BitLength(b, x))
      BY <1>1, <1>2, <3>1, RecordedIs DEF D, B
    <3> QED BY <3>1, <3>2 DEF x, n
  <2>10. r.level = LevelOf(Recorded(b)[(D + m) + 1], After(p)) /\ n = Recorded(b)[(D + m) + 1].length
    BY <1>4, <1>5, <2>9, PulseLevel
  <2>11. Begins(q, p, After(p), b, (D + m) + 1)
    BY <1>5, <1>9, <2>8, <2>10, SoundBegins DEF q
  <2> QED BY <2>1, <2>7, <2>11 DEF Steps, b, D
<1>11. CASE p.count = 1 /\ p.left > 0
  <2>1. BitOver(p) = PlayBit(r)
    BY <1>5, <1>8, <1>11
  <2>2. Begins(PlayBit(r), r, r.level, b, DataStart(b) + 2 * (DataBits(b) - r.left) + 1)
    BY <1>1, <1>2, <1>5, <1>6, <1>7, <1>11, BitStarts
  <2>3. DataStart(b) + 2 * (DataBits(b) - r.left) + 1 = (D + m) + 1
    BY <1>2, <1>3, <1>5, <1>11 DEF D, B
  <2>4. Begins(PlayBit(r), p, After(p), b, (D + m) + 1)
    BY <1>4, <1>5, <2>2, <2>3, BeginsLater
  <2>5. (D + m) + 1 # 0
    BY <1>1
  <2> QED BY <2>1, <2>4, <2>5 DEF Steps, b, D
<1>12. CASE p.count = 1 /\ ~(p.left > 0)
  <2>1. BitOver(p) = PauseAfter(r, b.pause)
    BY <1>5, <1>6, <1>8, <1>12
  <2>2. r.left = 0
    BY <1>3, <1>5, <1>12
  <2>3. Over(r, p)
    BY <1>2, <1>4, <1>5, <2>2 DEF Over
  <2>4. D + m = DataStart(b) + DataLength(b)
    <3>1. DataLength(b) = 2 * B
      BY <1>2 DEF DataLength, B, WithBits, Std, Turbo, Pure, Direct
    <3> QED BY <1>2, <1>3, <1>5, <1>12, <2>2, <3>1 DEF D
  <2>5. b.id \in WithPause
    BY <1>2 DEF WithBits, WithPause
  <2>6. Here(p, i, D + m)
    BY DEF D, b
  <2>7. Steps(PauseAfter(r, b.pause), p, i, D + m)
    BY <2>3, <2>4, <2>5, <2>6, PauseFollows DEF b
  <2> QED BY <2>1, <2>7 DEF b, D
<1> QED BY <1>2, <1>10, <1>11, <1>12 DEF D, b

\* At the end of a sample.
LEMMA SampleStep ==
  ASSUME NEW p, NEW i, NEW m, Here(p, i, DataStart(p.img[i]) + m), SampleAt(p, p.img[i], m)
  PROVE  Steps(SampleOver(p), p, i, DataStart(p.img[i]) + m)
<1> DEFINE b == p.img[i]
           D == DataStart(b)
           B == DataBits(b)
<1>1. /\ p \in PlayerType /\ b \in Blocks /\ b.id \in SoundIds /\ BlockAt(p) = b
      /\ p.level \in BOOLEAN /\ D + m \in Nat
  BY HereType
<1>2. /\ p.stage = "SAMPLE" /\ b.id = Direct /\ ReadSoFar(p, b) /\ p.left < B
      /\ p.pulse = CYCLE_ADJUST(b.sample) /\ m = B - p.left
  BY DEF SampleAt
<1>3. D \in Nat /\ B \in Nat /\ p.left \in Nat
  BY <1>1, <1>2, LengthsType, DataBitsType DEF ReadSoFar
<1>4. After(p) = p.level
  BY <1>2 DEF After
<1>5. SampleOver(p) = IF p.left > 0 THEN Tape_ReadSampleDataBit(p) ELSE PauseAfter(p, BlockAt(p).pause)
  BY DEF SampleOver
<1> HIDE DEF b, D, B
<1>6. CASE p.left > 0
  <2>1. Begins(Tape_ReadSampleDataBit(p), p, p.level, b, DataStart(b) + (DataBits(b) - p.left) + 1)
    BY <1>1, <1>2, <1>6, SampleStarts
  <2>2. DataStart(b) + (DataBits(b) - p.left) + 1 = (D + m) + 1 /\ (D + m) + 1 # 0
    BY <1>1, <1>2, <1>3 DEF D, B
  <2> QED BY <1>4, <1>5, <1>6, <2>1, <2>2 DEF Steps, b, D
<1>7. CASE ~(p.left > 0)
  <2>1. p.left = 0 /\ Quiet(p, p)
    BY <1>3, <1>7 DEF Quiet, Frame
  <2>2. Over(p, p)
    BY <1>1, <1>4, <2>1 DEF Over
  <2>3. DataLength(b) = B
    BY <1>2 DEF DataLength, B, WithBits, Std, Turbo, Pure, Direct
  <2>4. D + m = DataStart(b) + DataLength(b)
    BY <1>2, <1>3, <2>1, <2>3 DEF D
  <2>5. b.id \in WithPause
    BY <1>2 DEF WithPause
  <2>6. Here(p, i, D + m)
    BY DEF D, b
  <2>7. Steps(PauseAfter(p, b.pause), p, i, D + m)
    BY <2>2, <2>4, <2>5, <2>6, PauseFollows DEF b
  <2> QED BY <1>1, <1>5, <1>7, <2>7 DEF b, D
<1> QED BY <1>6, <1>7

\* At the end of a part of a pause.
LEMMA PauseStep ==
  ASSUME NEW p, NEW i, NEW m,
         Here(p, i, DataStart(p.img[i]) + DataLength(p.img[i]) + m), PauseAt(p, p.img[i], m)
  PROVE  Steps(PauseOver(p), p, i, DataStart(p.img[i]) + DataLength(p.img[i]) + m)
<1> DEFINE b == p.img[i]
           D == DataStart(b) + DataLength(b)
           r == CountDown([p EXCEPT !.level = FALSE])
           n == MS_TO_CYCLES(b.pause - 1)
<1>1. /\ p \in PlayerType /\ b \in Blocks /\ b.id \in SoundIds /\ BlockAt(p) = b
      /\ p.level \in BOOLEAN
      /\ Len(Recorded(b)) = DataStart(b) + DataLength(b) + GapLength(b)
  BY HereType
<1>2. /\ p.stage = "PAUSE" /\ b.id \in WithPause /\ b.pause # 0
      /\ p.pulse = n
      /\ p.count \in {1, 2} /\ m = 3 - p.count /\ (p.count = 1 => ~p.level)
  BY DEF PauseAt
<1>3. D \in Nat /\ n \in Word /\ GapLength(b) = 2
  BY <1>1, <1>2, LengthsType DEF PlayerType, GapLength
<1>4. After(p) = p.level
  BY <1>2 DEF After
<1>5. /\ r \in PlayerType /\ Quiet(r, p) /\ r.level = FALSE
      /\ r.count = p.count - 1 /\ r.stage = "PAUSE" /\ r.pulse = n
  <2>1. FALSE \in BOOLEAN /\ p.count # 0
    BY <1>2
  <2> QED BY <1>1, <1>2, <2>1, CountedDown
<1>6. PauseOver(p) = IF r.count > 0 THEN Sound(r, r.pulse) ELSE Tape_BlockDone(r)
  BY DEF PauseOver
<1> HIDE DEF r, n, D, b
<1>7. CASE p.count = 2
  <2> DEFINE q == Sound(r, n)
  <2>1. PauseOver(p) = q
    BY <1>5, <1>6, <1>7
  <2>2. Controls(q, r) /\ Plays(q, r, r.level, n)
    BY <1>3, <1>5, SoundPlays
  <2> HIDE DEF q
  <2>3. q.stage = "PAUSE" /\ q.pulse = n /\ q.count = 1 /\ ~q.level /\ 2 = 3 - 1
    BY <1>5, <1>7, <2>2 DEF Controls, Plays
  <2>4. PauseAt(q, b, 2)
    BY <1>2, <2>3 DEF PauseAt, n
  <2>5. (D + m) + 1 \in Nat \ {0} /\ (D + m) + 1 > D /\ ((D + m) + 1) - D = 2 /\ (D + m) + 1 = D + 2
    BY <1>2, <1>3, <1>7
  <2>6. On(q, b, (D + m) + 1)
    BY <2>4, <2>5 DEF On, D
  <2>7. Recorded(b)[(D + m) + 1] = Interval("low", n)
    BY <1>1, <1>3, <2>5, RecordedIs DEF D, n
  <2>8. r.level = LevelOf(Recorded(b)[(D + m) + 1], After(p)) /\ n = Recorded(b)[(D + m) + 1].length
    <3>1. ~LevelOf(Interval("low", n), After(p)) /\ Interval("low", n).length = n
      BY DEF LevelOf, Interval
    <3>2. LevelOf(Interval("low", n), After(p)) \in BOOLEAN
      BY DEF LevelOf, Interval
    <3> QED BY <1>5, <2>7, <3>1, <3>2
  <2>9. Begins(q, p, After(p), b, (D + m) + 1)
    BY <1>3, <1>5, <2>6, <2>8, SoundBegins DEF q
  <2> QED BY <2>1, <2>5, <2>9 DEF Steps, b, D
<1>8. CASE p.count = 1
  <2>1. PauseOver(p) = Tape_BlockDone(r)
    BY <1>5, <1>6, <1>8
  <2>2. Over(r, p)
    BY <1>1, <1>2, <1>4, <1>5, <1>8 DEF Over
  <2>3. Here(p, i, D + m)
    BY DEF D, b
  <2>4. Leaves(Tape_BlockDone(r), p, i)
    BY <2>2, <2>3, Leaving
  <2>5. D + m = Len(Recorded(b))
    BY <1>1, <1>2, <1>3, <1>8 DEF D
  <2> QED BY <2>1, <2>4, <2>5 DEF Steps, b, D
<1> QED BY <1>2, <1>7, <1>8

(***************************************************************************)
(* The signal of an image.                                                 *)
(***************************************************************************)
Sounds == [level : BOOLEAN, length : Nat]
Parts(img) == [i \in DOMAIN img |-> Recorded(img[i])]
OnTape(img) == FlattenSeq(Parts(img))
Behind(iv, lv) == IF iv.kind = "pulse" THEN ~lv ELSE lv
\* sig is what the intervals s sound like.
SignalOf(sig, s) ==
  /\ sig \in Seq(Sounds) /\ Len(sig) = Len(s)
  /\ \A m \in 1 .. Len(s) : sig[m].length = s[m].length
  /\ s # <<>> => sig[1].level = LevelOf(s[1], FALSE)
  /\ \A m \in 1 .. Len(s) - 1 :
        sig[m + 1].level = LevelOf(s[m + 1], Behind(s[m], sig[m].level))

\* What is recorded on a tape, block by block.
LEMMA PartsOf ==
  ASSUME NEW img \in Seq(Blocks)
  PROVE  /\ Parts(img) \in Seq(Seq(Intervals)) /\ Len(Parts(img)) = Len(img)
         /\ \A i \in 1 .. Len(img) : Parts(img)[i] = Recorded(img[i])
         /\ OnTape(img) \in Seq(Intervals) /\ Lays(Parts(img), Starts(Parts(img)))
<1> DEFINE n == Len(img)
           r == Parts(img)
<1>1. n \in Nat /\ DOMAIN img = 1 .. n
  OBVIOUS
<1>2. \A i \in 1 .. n : Recorded(img[i]) \in Seq(Intervals)
  BY RecordedIs
<1>3. r \in [1 .. n -> Seq(Intervals)] /\ \A i \in 1 .. n : r[i] = Recorded(img[i])
  BY <1>1, <1>2 DEF Parts
<1> HIDE DEF n, r
<1>4. r \in Seq(Seq(Intervals))
  BY <1>1, <1>3, SeqDef
<1>5. Len(r) = n
  <2>1. DOMAIN r = 1 .. n /\ DOMAIN r = 1 .. Len(r) /\ Len(r) \in Nat
    BY <1>3, <1>4
  <2> QED BY <1>1, <2>1
<1> QED BY <1>3, <1>4, <1>5, FlattenLays DEF n, r, OnTape

\* Levels are levels.
LEMMA LevelType == ASSUME NEW iv, NEW lv \in BOOLEAN PROVE LevelOf(iv, lv) \in BOOLEAN /\ Behind(iv, lv) \in BOOLEAN
BY DEF LevelOf, Behind

\* Signal is what the intervals of the tape sound like.
LEMMA SignalIs ==
  ASSUME NEW img \in Seq(Blocks)
  PROVE  SignalOf(Signal(img), OnTape(img))
<1> DEFINE s == OnTape(img)
           n == Len(s)
           prev(i) == Behind(s[i - 1], TRUE)
           val(h, i) == IF i = 1 THEN LevelOf(s[i], FALSE) ELSE LevelOf(s[i], Behind(s[i - 1], h))
           step == [x \in BOOLEAN \X (1 .. n) |-> val(x[1], x[2])]
           IsHigh(f) == f = [i \in DOMAIN s |->
             CASE s[i].kind = "sample" -> s[i].bit = 1
               [] s[i].kind = "low"    -> FALSE
               [] OTHER -> i > 1 /\ (f[i - 1] # (s[i - 1].kind = "pulse"))]
           high == CHOOSE f : IsHigh(f)
<1>1. s \in Seq(Intervals)
  BY PartsOf
<1> HIDE DEF s
<1>2. n \in Nat /\ DOMAIN s = 1 .. n /\ \A i \in 1 .. n : s[i] \in Intervals
  BY <1>1
<1> HIDE DEF n
<1>3. \A h \in BOOLEAN, i \in 1 .. n : val(h, i) \in BOOLEAN
  <2> TAKE h \in BOOLEAN, i \in 1 .. n
  <2>1. LevelOf(s[i], FALSE) \in BOOLEAN
    BY LevelType
  <2>2. Behind(s[i - 1], h) \in BOOLEAN
    BY LevelType
  <2>3. LevelOf(s[i], Behind(s[i - 1], h)) \in BOOLEAN
    BY <2>2, LevelType
  <2> QED BY <2>1, <2>3
<1>4. PICK f : Runs(f, BOOLEAN, FALSE, n, step)
  <2>1. step \in [BOOLEAN \X (1 .. n) -> BOOLEAN]
    <3> HIDE DEF val
    <3> QED BY <1>3
  <2> HIDE DEF step
  <2> DEFINE T == BOOLEAN
             a == FALSE
  <2>2. a \in T /\ n \in Nat /\ step \in [T \X (1 .. n) -> T]
    BY <1>2, <2>1
  <2> HIDE DEF T, a
  <2>3. \E f : Runs(f, T, a, n, step)
    BY <2>2, Recursion
  <2> QED BY <2>3 DEF T, a
<1>5. /\ f \in [0 .. n -> BOOLEAN] /\ f[0] = FALSE
      /\ \A i \in 1 .. n : f[i] = val(f[i - 1], i)
  <2>1. f \in [0 .. n -> BOOLEAN] /\ f[0] = FALSE /\ \A i \in 1 .. n : f[i] = step[<<f[i - 1], i>>]
    <3> HIDE DEF step
    <3> QED BY <1>4 DEF Runs
  <2>2. ASSUME NEW i \in 1 .. n PROVE step[<<f[i - 1], i>>] = val(f[i - 1], i)
    <3>1. i - 1 \in 0 .. n
      BY <1>2
    <3>2. f[i - 1] \in BOOLEAN
      BY <2>1, <3>1
    <3> HIDE DEF val
    <3> QED BY <3>2
  <2> HIDE DEF step, val
  <2> QED BY <2>1, <2>2
<1> DEFINE g == [i \in 1 .. n |-> f[i]]
           arm(a, i) == CASE s[i].kind = "sample" -> s[i].bit = 1
                          [] s[i].kind = "low"    -> FALSE
                          [] OTHER -> i > 1 /\ (a[i - 1] # (s[i - 1].kind = "pulse"))
<1>6. ASSUME NEW a, NEW i \in 1 .. n, i # 1 => a[i - 1] \in BOOLEAN
      PROVE  arm(a, i) = val(a[i - 1], i)
  <2>1. s[i].kind = "sample" => arm(a, i) = (s[i].bit = 1)
    OBVIOUS
  <2>2. s[i].kind = "low" => arm(a, i) = FALSE
    OBVIOUS
  <2>3. CASE s[i].kind = "sample"
    BY <2>1, <2>3 DEF LevelOf
  <2>4. CASE s[i].kind = "low"
    BY <2>2, <2>4 DEF LevelOf
  <2>5. CASE s[i].kind \notin {"sample", "low"}
    <3>1. arm(a, i) = (i > 1 /\ (a[i - 1] # (s[i - 1].kind = "pulse")))
      BY <2>5
    <3>2. CASE i = 1
      <4>1. arm(a, i) = FALSE
        <5>1. ~(i > 1)
          BY <3>2
        <5>2. (i > 1 /\ (a[i - 1] # (s[i - 1].kind = "pulse"))) = FALSE
          BY <5>1
        <5> HIDE DEF arm
        <5> QED BY <3>1, <5>2
      <4>2. val(a[i - 1], i) = FALSE
        BY <2>5, <3>2 DEF LevelOf
      <4> QED BY <4>1, <4>2
    <3>3. CASE i # 1
      <4>1. i > 1
        BY <1>2, <3>3
      <4>2. arm(a, i) = (a[i - 1] # (s[i - 1].kind = "pulse"))
        BY <3>1, <4>1
      <4>4. a[i - 1] \in BOOLEAN
        BY <1>6, <3>3
      <4>3. val(a[i - 1], i) = Behind(s[i - 1], a[i - 1])
        <5> DEFINE lv == Behind(s[i - 1], a[i - 1])
        <5>1. lv \in BOOLEAN
          BY <4>4, LevelType
        <5>2. val(a[i - 1], i) = LevelOf(s[i], lv)
          BY <3>3
        <5> HIDE DEF lv, val
        <5>3. LevelOf(s[i], lv) = lv
          BY <2>5, <5>1 DEF LevelOf
        <5> QED BY <5>2, <5>3 DEF lv
      <4> HIDE DEF arm, val
      <4>5. Behind(s[i - 1], a[i - 1]) = (a[i - 1] # (s[i - 1].kind = "pulse"))
        BY <4>4 DEF Behind
      <4> QED BY <4>2, <4>3, <4>5
    <3> QED BY <3>2, <3>3
  <2> QED BY <2>3, <2>4, <2>5
<1>7. IsHigh(g)
  <2>1. ASSUME NEW i \in 1 .. n PROVE f[i] = arm(g, i)
    <3>1. i # 1 => i - 1 \in 1 .. n
      BY <1>2
    <3>2. i # 1 => g[i - 1] = f[i - 1] /\ g[i - 1] \in BOOLEAN
      BY <1>5, <3>1
    <3> HIDE DEF g
    <3>3. arm(g, i) = val(g[i - 1], i)
      <4> HIDE DEF arm, val
      <4> QED BY <1>6, <3>2
    <3>4. f[i] = val(f[i - 1], i)
      <4> HIDE DEF val
      <4> QED BY <1>5
    <3>5. val(f[i - 1], i) = val(g[i - 1], i)
      BY <3>2
    <3> HIDE DEF arm, val
    <3> QED BY <3>3, <3>4, <3>5
  <2>2. g = [i \in 1 .. n |-> arm(g, i)]
    <3> HIDE DEF arm
    <3> QED BY <2>1
  <2> HIDE DEF g
  <2> QED BY <1>2, <2>2
<1>8. IsHigh(high)
  <2> HIDE DEF IsHigh
  <2> QED BY <1>7
<1>9. Signal(img) = <<>> \o [i \in DOMAIN s |-> [level |-> high[i], length |-> s[i].length]]
  BY DEF Signal, s, OnTape, Parts
<1> HIDE DEF high
<1>10. high = [i \in 1 .. n |-> arm(high, i)]
  BY <1>2, <1>8
<1> HIDE DEF IsHigh, g
<1>11. \A i \in 1 .. n : high[i] = arm(high, i)
  <2> HIDE DEF arm
  <2> QED BY <1>10
<1>12. \A i \in 1 .. n : high[i] \in BOOLEAN
  <2>1. ASSUME NEW i \in 1 .. n PROVE arm(high, i) \in BOOLEAN
    BY <1>2
  <2> HIDE DEF arm
  <2> QED BY <1>11, <2>1
<1>13. \A i \in 1 .. n : high[i] = val(high[i - 1], i)
  <2> TAKE i \in 1 .. n
  <2>1. i # 1 => high[i - 1] \in BOOLEAN
    <3>1. i # 1 => i - 1 \in 1 .. n
      BY <1>2
    <3> QED BY <1>12, <3>1
  <2> HIDE DEF arm, val
  <2> QED BY <1>6, <1>11, <2>1
<1> DEFINE t == [i \in 1 .. n |-> [level |-> high[i], length |-> s[i].length]]
<1>14. t \in [1 .. n -> Sounds] /\ \A i \in 1 .. n : t[i].level = high[i] /\ t[i].length = s[i].length
  BY <1>2, <1>12 DEF Sounds, Intervals
<1>15. Signal(img) = <<>> \o t
  BY <1>2, <1>9
<1> HIDE DEF t
<1>16. t \in Seq(Sounds)
  BY <1>2, <1>14, SeqDef
<1>17. Len(t) = n
  <2>1. DOMAIN t = 1 .. n /\ DOMAIN t = 1 .. Len(t) /\ Len(t) \in Nat
    BY <1>14, <1>16
  <2> QED BY <1>2, <2>1
<1>18. Signal(img) = t
  BY <1>15, <1>16, ConcatEmptySeq
<1>19. s # <<>> => t[1].level = LevelOf(s[1], FALSE)
  <2> SUFFICES ASSUME s # <<>> PROVE t[1].level = LevelOf(s[1], FALSE)
    OBVIOUS
  <2>1. 1 \in 1 .. n
    BY <1>1 DEF n
  <2>2. high[1] = val(high[1 - 1], 1)
    <3> HIDE DEF val
    <3> QED BY <1>13, <2>1
  <2>3. val(high[1 - 1], 1) = LevelOf(s[1], FALSE)
    OBVIOUS
  <2> QED BY <1>14, <2>1, <2>2, <2>3
<1>20. ASSUME NEW m \in 1 .. n - 1
       PROVE  t[m + 1].level = LevelOf(s[m + 1], Behind(s[m], t[m].level))
  <2>1. m + 1 \in 1 .. n /\ m \in 1 .. n /\ (m + 1) - 1 = m /\ m + 1 # 1
    BY <1>2
  <2>2. high[m + 1] = val(high[(m + 1) - 1], m + 1)
    <3> HIDE DEF val
    <3> QED BY <1>13, <2>1
  <2>3. val(high[m], m + 1) = LevelOf(s[m + 1], Behind(s[m], high[m]))
    BY <2>1
  <2>4. high[m + 1] = LevelOf(s[m + 1], Behind(s[m], high[m]))
    <3> HIDE DEF val
    <3> QED BY <2>1, <2>2, <2>3
  <2> QED BY <1>14, <2>1, <2>4
<1> QED BY <1>14, <1>16, <1>17, <1>18, <1>19, <1>20 DEF SignalOf, n, s

(***************************************************************************)
(* Where on the tape an interval of a block is, and how much of the tape   *)
(* has been heard.                                                         *)
(***************************************************************************)
Place(img, i, k) == Starts(Parts(img))[i] + k
\* The first n intervals of the signal have been heard, and the n-th one lasts.
Hears(p, n) ==
  /\ n \in 1 .. Len(p.recorded) /\ Len(p.heard) = n
  /\ \A m \in 1 .. n : p.heard[m] = p.recorded[m]
  /\ p.level = p.recorded[n].level

\* An interval of a block, as one of the tape.
LEMMA Placed ==
  ASSUME NEW img \in Seq(Blocks), NEW i \in 1 .. Len(img), NEW k \in 1 .. Len(Recorded(img[i]))
  PROVE  /\ Place(img, i, k) \in 1 .. Len(OnTape(img))
         /\ OnTape(img)[Place(img, i, k)] = Recorded(img[i])[k]
<1> DEFINE r == Parts(img)
           at == Starts(r)
           n == Len(img)
           c == Len(Recorded(img[i]))
           N == Len(OnTape(img))
<1>1. Len(r) = n /\ n \in Nat /\ r[i] = Recorded(img[i]) /\ Lays(r, at)
  BY PartsOf
<1>2. Recorded(img[i]) \in Seq(Intervals) /\ OnTape(img) \in Seq(Intervals)
  BY RecordedIs, PartsOf
<1>3. c \in Nat /\ N \in Nat
  BY <1>2
<1>4. N = Len(FlattenSeq(r))
  BY DEF OnTape
<1> HIDE DEF r, at, n, c, N
<1>5. i \in 1 .. n + 1 /\ i + 1 \in 1 .. n + 1 /\ i \in 1 .. n
  BY <1>1 DEF n
<1>6. at[i] \in Nat /\ at[i + 1] = at[i] + c /\ at[i + 1] <= N
  BY <1>1, <1>4, <1>5 DEF Lays, c
<1>7. at[i] + k \in 1 .. N
  BY <1>3, <1>6 DEF c
<1>8. FlattenSeq(r)[at[i] + k] = r[i][k]
  <2>1. k \in 1 .. Len(r[i]) /\ i \in 1 .. Len(r)
    BY <1>1, <1>5
  <2> QED BY <1>1, <2>1 DEF Lays
<1> QED BY <1>1, <1>7, <1>8 DEF Place, OnTape, at, r, N

\* What is skipped has no intervals.
LEMMA SilentRecords == ASSUME NEW b \in Blocks, Silent(b) PROVE Len(Recorded(b)) = 0
<1>1. b.id \notin WithPilot \cup WithTable \cup WithBits \cup {Direct}
  BY DEF Silent, DataBlocks, WithPilot, WithTable, WithBits, Std, Turbo, Tone, Pulses, Pure, Direct
<1>2. ~(b.id \in WithPause /\ b.pause # 0)
  BY DEF Silent, DataBlocks, WithPause, Std, Turbo, Pure, Direct, Silence
<1>3. PilotLength(b) = 0 /\ TableLength(b) = 0 /\ DataLength(b) = 0 /\ GapLength(b) = 0
  BY <1>1, <1>2 DEF PilotLength, TableLength, DataLength, GapLength
<1>4. Len(Recorded(b)) = DataStart(b) + DataLength(b) + GapLength(b)
  BY RecordedIs
<1> QED BY <1>3, <1>4 DEF DataStart

\* Blocks without a sound take no place.
LEMMA NextPlace ==
  ASSUME NEW img \in Seq(Blocks), NEW i \in 1 .. Len(img), NEW j \in i + 1 .. Len(img) + 1,
         \A k \in i + 1 .. j - 1 : Silent(img[k])
  PROVE  /\ Place(img, j, 0) = Place(img, i, Len(Recorded(img[i])))
         /\ j = Len(img) + 1 => Place(img, j, 0) = Len(OnTape(img))
<1> DEFINE at == Starts(Parts(img))
           n == Len(img)
           S == {m \in Nat : i + 1 + m <= j => at[i + 1 + m] = at[i + 1]}
<1>1. /\ Len(Parts(img)) = n /\ n \in Nat /\ Lays(Parts(img), at)
      /\ \A k \in 1 .. n : Parts(img)[k] = Recorded(img[k])
      /\ FlattenSeq(Parts(img)) = OnTape(img)
  BY PartsOf DEF OnTape
<1> HIDE DEF at, n
<1>2. /\ at \in [1 .. n + 1 -> Nat]
      /\ \A k \in 1 .. n : at[k + 1] = at[k] + Len(Recorded(img[k]))
      /\ at[n + 1] = Len(OnTape(img))
  BY <1>1 DEF Lays
<1>3. 0 \in S
  OBVIOUS
<1>4. \A m \in Nat : m \in S => m + 1 \in S
  <2> TAKE m \in Nat
  <2> HAVE m \in S
  <2>1. ASSUME i + 1 + (m + 1) <= j PROVE at[i + 1 + (m + 1)] = at[i + 1]
    <3> DEFINE k == i + 1 + m
    <3>1. k \in i + 1 .. j - 1 /\ k \in 1 .. n /\ k + 1 = i + 1 + (m + 1) /\ k <= j
      BY <1>1, <2>1 DEF n
    <3>2. at[k] = at[i + 1]
      BY <3>1
    <3> HIDE DEF k
    <3>3. img[k] \in Blocks
      BY <3>1 DEF n
    <3>4. Len(Recorded(img[k])) = 0
      BY <3>1, <3>3, SilentRecords
    <3>5. at[k + 1] = at[k] + 0 /\ at[k] \in Nat
      BY <1>1, <1>2, <3>1, <3>4
    <3> QED BY <3>1, <3>2, <3>5
  <2> QED BY <2>1
<1>5. j - (i + 1) \in S
  <2>1. j - (i + 1) \in Nat
    OBVIOUS
  <2> HIDE DEF S
  <2> QED BY <1>3, <1>4, <2>1, Induction
<1>6. at[j] = at[i + 1]
  <2>1. i + 1 + (j - (i + 1)) = j /\ j <= j
    OBVIOUS
  <2> QED BY <1>5, <2>1
<1>7. j \in 1 .. n + 1 /\ i \in 1 .. n /\ i + 1 \in 1 .. n + 1
  BY <1>1 DEF n
<1>8. at[j] + 0 = at[j] /\ at[j] = at[i] + Len(Recorded(img[i]))
  <2>1. at[j] \in Nat /\ at[i + 1] = at[i] + Len(Recorded(img[i]))
    BY <1>2, <1>7
  <2> QED BY <1>6, <2>1
<1> QED BY <1>2, <1>8 DEF Place, at, n

\* Only in a pilot tone without pulses does the player play no interval.
LEMMA OnZero ==
  ASSUME NEW p, NEW b \in Blocks, On(p, b, 0)
  PROVE  b.id \in WithPilot /\ PilotLength(b) = 0
<1>1. PilotLength(b) \in Nat /\ DataStart(b) \in Nat /\ DataLength(b) \in Nat
  BY LengthsType
<1>2. PilotAt(p, b, 0)
  BY <1>1 DEF On
<1> QED BY <1>1, <1>2 DEF PilotAt

\* The stage tells which kind of interval is played.
LEMMA KindAt ==
  ASSUME NEW p, NEW b \in Blocks, NEW k, On(p, b, k), k # 0
  PROVE  /\ k \in 1 .. Len(Recorded(b))
         /\ Recorded(b)[k].kind = "pulse" <=> p.stage \in {"PILOT", "SYNC", "DATA"}
         /\ Recorded(b)[k].kind = "hold" <=> p.stage = "PAUSE" /\ p.count = 2
         /\ Recorded(b)[k].kind = "hold" => Recorded(b)[k].length = CyclesPerMs
         /\ Recorded(b)[k].kind = "low" => k > 1 /\ Recorded(b)[k - 1].kind = "hold"
         /\ Recorded(b)[k].kind \in {"pulse", "sample", "hold", "low"}
         /\ p.stage # "END"
<1> DEFINE P == PilotLength(b)
           T == TableLength(b)
           D == DataStart(b)
           L == DataLength(b)
           G == GapLength(b)
           B == DataBits(b)
<1>1. /\ P \in Nat /\ T \in Nat /\ D = P + T /\ L \in Nat /\ G \in {0, 2} /\ k \in Nat \ {0}
      /\ Len(Recorded(b)) = D + L + G
  BY LengthsType, RecordedIs DEF DataStart, On
<1> HIDE DEF P, T, D, L, G, B
<1>2. CASE PilotAt(p, b, k)
  <2>1. k \in 1 .. P /\ p.stage = "PILOT"
    BY <1>2, <1>1 DEF PilotAt, P
  <2>2a. Recorded(b)[k] = Interval("pulse", CYCLE_ADJUST(Shape(b).pilot))
    BY <2>1, RecordedIs DEF P
  <2>2. Recorded(b)[k].kind = "pulse"
    BY <2>2a DEF Interval
  <2>3. k \in 1 .. Len(Recorded(b))
    BY <1>1, <2>1
  <2> QED BY <2>1, <2>2, <2>3
<1>3. CASE k > P /\ TableAt(p, b, k - P)
  <2> DEFINE m == k - P
  <2>1. m \in 1 .. T /\ p.stage = "SYNC" /\ k = P + m
    BY <1>1, <1>3 DEF TableAt, T
  <2> HIDE DEF m
  <2>2a. Recorded(b)[P + m] = Interval("pulse", CYCLE_ADJUST(Table(b)[m]))
    BY <2>1, RecordedIs DEF P, T
  <2>2. Recorded(b)[k].kind = "pulse"
    BY <2>1, <2>2a DEF Interval
  <2>3. k \in 1 .. Len(Recorded(b))
    BY <1>1, <2>1
  <2> QED BY <2>1, <2>2, <2>3
<1>4. CASE k > D /\ BitAt(p, b, k - D)
  <2> DEFINE m == k - D
             x == B - p.left
  <2>1. /\ p.stage = "DATA" /\ b.id \in WithBits /\ ReadSoFar(p, b) /\ p.left < B
        /\ p.count \in {1, 2} /\ m = 2 * x + 1 - p.count
    BY <1>4 DEF BitAt, B
  <2>2. p.left \in Nat /\ B \in Nat /\ p.left <= B
    BY <2>1, DataBitsType DEF ReadSoFar, WithBits, B
  <2>3. x \in 1 .. B /\ m \in {2 * x - 1, 2 * x} /\ k = D + m
    BY <1>1, <2>1, <2>2
  <2>4. L = 2 * B
    BY <2>1 DEF L, DataLength, B, WithBits, Std, Turbo, Pure, Direct
  <2> HIDE DEF m, x
  <2>5. Recorded(b)[k] = Interval("pulse", BitLength(b, x))
    BY <2>1, <2>3, RecordedIs DEF D, B
  <2>6. k \in 1 .. Len(Recorded(b))
    BY <1>1, <2>2, <2>3, <2>4
  <2> QED BY <2>1, <2>5, <2>6 DEF Interval
<1>5. CASE k > D /\ SampleAt(p, b, k - D)
  <2> DEFINE m == k - D
  <2>1. /\ p.stage = "SAMPLE" /\ b.id = Direct /\ ReadSoFar(p, b) /\ p.left < B
        /\ m = B - p.left
    BY <1>5 DEF SampleAt, B
  <2>2. p.left \in Nat /\ B \in Nat
    BY <2>1, DataBitsType DEF ReadSoFar, B
  <2>3. m \in 1 .. B /\ k = D + m
    BY <1>1, <2>1, <2>2
  <2>4. L = B
    BY <2>1 DEF L, DataLength, B, WithBits, Std, Turbo, Pure, Direct
  <2> HIDE DEF m
  <2>5a. Recorded(b)[D + m] =
            [kind |-> "sample", bit |-> Bits(b)[m], length |-> CYCLE_ADJUST(b.sample)]
    BY <2>1, <2>3, RecordedIs DEF D, B
  <2>5. Recorded(b)[k].kind = "sample"
    BY <2>3, <2>5a
  <2>6. k \in 1 .. Len(Recorded(b))
    BY <1>1, <2>2, <2>3, <2>4
  <2> QED BY <2>1, <2>5, <2>6
<1>6. CASE k > D + L /\ PauseAt(p, b, k - (D + L))
  <2> DEFINE m == k - (D + L)
  <2>1. /\ p.stage = "PAUSE" /\ b.id \in WithPause /\ b.pause # 0
        /\ p.count \in {1, 2} /\ m = 3 - p.count
    BY <1>6 DEF PauseAt
  <2>2. G = 2 /\ k = D + L + m /\ m \in {1, 2}
    BY <1>1, <2>1 DEF G, GapLength
  <2>3. k \in 1 .. Len(Recorded(b))
    BY <1>1, <2>2
  <2> HIDE DEF m
  <2>4a. /\ Recorded(b)[D + L + 1] = Interval("hold", MS_TO_CYCLES(1))
         /\ Recorded(b)[D + L + 2] = Interval("low", MS_TO_CYCLES(b.pause - 1))
    BY <2>2, RecordedIs DEF G, D, L
  <2>4. /\ Recorded(b)[D + L + 1].kind = "hold"
        /\ Recorded(b)[D + L + 2].kind = "low"
    BY <2>4a DEF Interval
  <2>4b. Interval("hold", MS_TO_CYCLES(1)).length = CyclesPerMs
    BY PlayerAssumption DEF Interval, MS_TO_CYCLES
  <2>5. CASE p.count = 2
    <3>1. m = 1
      BY <2>1, <2>5
    <3> QED BY <2>1, <2>2, <2>3, <2>4, <2>4a, <2>4b, <2>5, <3>1
  <2>6. CASE p.count = 1
    <3>1. m = 2
      BY <2>1, <2>6
    <3>2. k > 1 /\ k - 1 = D + L + 1
      BY <1>1, <2>2, <3>1
    <3> QED BY <2>1, <2>2, <2>3, <2>4, <2>6, <3>1, <3>2
  <2> QED BY <2>1, <2>5, <2>6
<1> QED BY <1>2, <1>3, <1>4, <1>5, <1>6 DEF On, P, D, L

\* The next interval that is heard is the next one that is recorded.
LEMMA HearsNext ==
  ASSUME NEW p \in PlayerType, NEW q, NEW s \in Seq(Intervals), NEW n,
         SignalOf(p.recorded, s), Hears(p, n), n + 1 <= Len(s),
         q.recorded = p.recorded,
         q.level = LevelOf(s[n + 1], Behind(s[n], p.level)),
         q.heard = Append(p.heard, [level |-> q.level, length |-> s[n + 1].length])
  PROVE  Hears(q, n + 1)
<1> DEFINE sig == p.recorded
           N == Len(s)
           x == [level |-> q.level, length |-> s[n + 1].length]
<1>1. sig \in Seq(Sounds) /\ Len(sig) = N /\ N \in Nat
  BY DEF SignalOf
<1>2. n \in 1 .. N /\ Len(p.heard) = n /\ (\A m \in 1 .. n : p.heard[m] = sig[m])
      /\ p.level = sig[n].level /\ p.heard \in Seq(Sounds)
  BY <1>1 DEF Hears, PlayerType, Heard, Sounds
<1>3. n + 1 \in 1 .. N /\ n \in 1 .. N - 1 /\ n \in Nat
  BY <1>1, <1>2
<1>4. sig[n + 1].level = q.level /\ sig[n + 1].length = s[n + 1].length /\ sig[n + 1] \in Sounds
  BY <1>1, <1>2, <1>3 DEF SignalOf
<1> HIDE DEF N
<1>5. sig[n + 1] = x
  BY <1>4 DEF Sounds
<1> HIDE DEF sig, x
<1>6. q.heard = Append(p.heard, x)
  BY DEF x
<1>7. Len(q.heard) = n + 1 /\ q.heard[n + 1] = x /\ \A m \in 1 .. n : q.heard[m] = p.heard[m]
  BY <1>2, <1>6
<1>8. \A m \in 1 .. n + 1 : m \in 1 .. n \/ m = n + 1
  BY <1>3
<1>9. \A m \in 1 .. n + 1 : q.heard[m] = sig[m]
  BY <1>2, <1>5, <1>7, <1>8
<1> QED BY <1>1, <1>3, <1>4, <1>7, <1>9 DEF Hears, sig

(***************************************************************************)
(* How long what has been heard lasts.                                     *)
(***************************************************************************)
SumOf(f, s) == f = [i \in 0 .. Len(s) |-> IF i = 0 THEN 0 ELSE f[i - 1] + s[i].length]

\* The sum that Duration takes.
LEMMA DurationIs ==
  ASSUME NEW s \in Heard
  PROVE  \E f : /\ SumOf(f, s) /\ Duration(s) = f[Len(s)] /\ \A i \in 0 .. Len(s) : f[i] \in Nat
<1> DEFINE n == Len(s)
           step == [x \in Nat \X (1 .. n) |-> x[1] + s[x[2]].length]
           f0 == CHOOSE f : SumOf(f, s)
<1>1. n \in Nat /\ \A i \in 1 .. n : s[i].length \in Nat
  <2> HIDE DEF step, f0
  <2> DEFINE R == [level : BOOLEAN, length : Nat]
  <2>1. s \in Seq(R)
    BY DEF Heard
  <2>2. \A x \in R : x.length \in Nat
    OBVIOUS
  <2> HIDE DEF R
  <2>3. n \in Nat /\ \A i \in 1 .. n : s[i] \in R
    BY <2>1
  <2> HIDE DEF n
  <2> QED BY <2>2, <2>3
<1>2. PICK g : Runs(g, Nat, 0, n, step)
  <2>1. step \in [Nat \X (1 .. n) -> Nat]
    <3> HIDE DEF n
    <3> QED BY <1>1
  <2> HIDE DEF step, n
  <2> DEFINE T == Nat
             a == 0
  <2>2. a \in T /\ n \in Nat /\ step \in [T \X (1 .. n) -> T]
    BY <1>1, <2>1
  <2> HIDE DEF T, a
  <2>3. \E g : Runs(g, T, a, n, step)
    BY <2>2, Recursion
  <2> QED BY <2>3 DEF T, a
<1>3. /\ g \in [0 .. n -> Nat] /\ g[0] = 0
      /\ \A i \in 1 .. n : g[i] = g[i - 1] + s[i].length
  <2>1. g \in [0 .. n -> Nat] /\ g[0] = 0 /\ \A i \in 1 .. n : g[i] = step[<<g[i - 1], i>>]
    <3> HIDE DEF step
    <3> QED BY <1>2 DEF Runs
  <2>2. ASSUME NEW i \in 1 .. n PROVE step[<<g[i - 1], i>>] = g[i - 1] + s[i].length
    <3>1. i - 1 \in 0 .. n
      BY <1>1
    <3>2. g[i - 1] \in Nat
      BY <2>1, <3>1
    <3> QED BY <3>2
  <2> HIDE DEF step
  <2> QED BY <2>1, <2>2
<1> HIDE DEF n
<1>4. SumOf(g, s)
  <2>1. \A i \in 0 .. n : g[i] = IF i = 0 THEN 0 ELSE g[i - 1] + s[i].length
    BY <1>1, <1>3
  <2>2. g = [i \in 0 .. n |-> g[i]]
    BY <1>3
  <2>3. g = [i \in 0 .. n |-> IF i = 0 THEN 0 ELSE g[i - 1] + s[i].length]
    BY <2>1, <2>2
  <2> QED BY <2>3 DEF SumOf, n
<1>5. SumOf(f0, s)
  BY <1>4
<1>6. Duration(s) = f0[n]
  BY DEF Duration, SumOf, n
<1> HIDE DEF f0
<1>7. \A i \in 0 .. n : f0[i] = IF i = 0 THEN 0 ELSE f0[i - 1] + s[i].length
  <2>1. f0 = [i \in 0 .. n |-> IF i = 0 THEN 0 ELSE f0[i - 1] + s[i].length]
    BY <1>5 DEF SumOf, n
  <2> QED BY <2>1
<1>8. \A i \in 0 .. n : f0[i] \in Nat
  <2> DEFINE S == {m \in Nat : m <= n => f0[m] \in Nat}
  <2>1. 0 \in S
    <3>1. 0 \in 0 .. n
      BY <1>1
    <3> QED BY <1>7, <3>1
  <2>2. \A m \in Nat : m \in S => m + 1 \in S
    <3> TAKE m \in Nat
    <3> HAVE m \in S
    <3>1. ASSUME m + 1 <= n PROVE f0[m + 1] \in Nat
      <4>1. m + 1 \in 0 .. n /\ m + 1 # 0 /\ (m + 1) - 1 = m /\ m + 1 \in 1 .. n
        BY <1>1, <3>1
      <4>2. f0[m + 1] = f0[m] + s[m + 1].length /\ f0[m] \in Nat
        BY <1>1, <1>7, <3>1, <4>1
      <4> QED BY <1>1, <4>1, <4>2
    <3> QED BY <3>1
  <2>3. Nat \subseteq S
    <3> HIDE DEF S
    <3> QED BY <2>1, <2>2, Induction
  <2> QED BY <1>1, <2>3
<1> QED BY <1>5, <1>6, <1>8 DEF n

\* The duration of nothing.
LEMMA DurationEmpty == Duration(<<>>) = 0
<1>1. <<>> \in Heard
  BY DEF Heard
<1>2. PICK f : SumOf(f, <<>>) /\ Duration(<<>>) = f[Len(<<>>)]
  BY <1>1, DurationIs
<1>3. Len(<<>>) = 0 /\ 0 \in 0 .. 0
  OBVIOUS
<1>4. f = [i \in 0 .. 0 |-> IF i = 0 THEN 0 ELSE f[i - 1] + <<>>[i].length]
  BY <1>2, <1>3 DEF SumOf
<1>5. f[0] = 0
  BY <1>3, <1>4
<1> QED BY <1>2, <1>3, <1>5

\* The duration of one interval more.
LEMMA DurationAppend ==
  ASSUME NEW s \in Heard, NEW x \in Sounds
  PROVE  /\ Append(s, x) \in Heard
         /\ Duration(Append(s, x)) = Duration(s) + x.length
         /\ Duration(s) \in Nat
<1> DEFINE n == Len(s)
           t == Append(s, x)
<1>1. n \in Nat /\ t \in Heard /\ Len(t) = n + 1 /\ t[n + 1] = x /\ \A i \in 1 .. n : t[i] = s[i]
  BY DEF Heard, Sounds
<1>2. PICK f : SumOf(f, s) /\ Duration(s) = f[n] /\ \A i \in 0 .. n : f[i] \in Nat
  BY DurationIs
<1>3. PICK g : SumOf(g, t) /\ Duration(t) = g[n + 1]
  <2> HIDE DEF t
  <2> QED BY <1>1, DurationIs
<1>4. \A i \in 0 .. n : f[i] = IF i = 0 THEN 0 ELSE f[i - 1] + s[i].length
  <2>1. f = [i \in 0 .. n |-> IF i = 0 THEN 0 ELSE f[i - 1] + s[i].length]
    BY <1>2 DEF SumOf
  <2> QED BY <2>1
<1>5. \A i \in 0 .. n + 1 : g[i] = IF i = 0 THEN 0 ELSE g[i - 1] + t[i].length
  <2>1. g = [i \in 0 .. Len(t) |-> IF i = 0 THEN 0 ELSE g[i - 1] + t[i].length]
    <3> HIDE DEF t
    <3> QED BY <1>3 DEF SumOf
  <2> HIDE DEF t
  <2> QED BY <1>1, <2>1
<1> HIDE DEF n, t
<1>6. \A i \in 0 .. n : g[i] = f[i]
  <2> DEFINE S == {m \in Nat : m <= n => g[m] = f[m]}
  <2>1. 0 \in S
    <3>1. 0 \in 0 .. n /\ 0 \in 0 .. n + 1
      BY <1>1
    <3> QED BY <1>4, <1>5, <3>1
  <2>2. \A m \in Nat : m \in S => m + 1 \in S
    <3> TAKE m \in Nat
    <3> HAVE m \in S
    <3>1. ASSUME m + 1 <= n PROVE g[m + 1] = f[m + 1]
      <4>1. /\ m + 1 \in 0 .. n /\ m + 1 # 0 /\ (m + 1) - 1 = m /\ m + 1 \in 1 .. n
            /\ m + 1 \in 0 .. n + 1
        BY <1>1, <3>1
      <4>2. f[m + 1] = f[m] + s[m + 1].length /\ g[m + 1] = g[m] + t[m + 1].length /\ g[m] = f[m]
        BY <1>1, <1>4, <1>5, <3>1, <4>1
      <4> QED BY <1>1, <4>1, <4>2
    <3> QED BY <3>1
  <2>3. Nat \subseteq S
    <3> HIDE DEF S
    <3> QED BY <2>1, <2>2, Induction
  <2> QED BY <1>1, <2>3
<1>7. n + 1 \in 0 .. n + 1 /\ n + 1 # 0 /\ (n + 1) - 1 = n /\ n \in 0 .. n
  BY <1>1
<1>8. g[n + 1] = g[n] + t[n + 1].length
  BY <1>5, <1>7
<1> QED BY <1>1, <1>2, <1>3, <1>6, <1>7, <1>8 DEF t

(***************************************************************************)
(* Tape_UpdateLevel.                                                       *)
(***************************************************************************)
LEMMA ByStage ==
  ASSUME NEW p, p.live
  PROVE  /\ p.stage = "PILOT"  => Tape_UpdateLevel(p) = PilotOver(p)
         /\ p.stage = "SYNC"   => Tape_UpdateLevel(p) = SyncOver(p)
         /\ p.stage = "DATA"   => Tape_UpdateLevel(p) = BitOver(p)
         /\ p.stage = "SAMPLE" => Tape_UpdateLevel(p) = SampleOver(p)
         /\ p.stage = "PAUSE"  => Tape_UpdateLevel(p) = PauseOver(p)
         /\ p.stage = "END"    => Tape_UpdateLevel(p) = EndReached(p)
BY DEF Tape_UpdateLevel

\* Tape_UpdateLevel goes from an interval to the next one, within the block or behind it.
LEMMA UpdateHere ==
  ASSUME NEW p, NEW i, NEW k, Here(p, i, k)
  PROVE  Steps(Tape_UpdateLevel(p), p, i, k)
<1> DEFINE b == p.img[i]
           P == PilotLength(b)
           D == DataStart(b)
           L == DataLength(b)
<1>1. b \in Blocks /\ p.live /\ On(p, b, k)
  BY HereType
<1>2. P \in Nat /\ D \in Nat /\ L \in Nat /\ k \in Nat
  BY <1>1, HereType, LengthsType
<1>3. CASE PilotAt(p, b, k)
  <2>1. p.stage = "PILOT"
    BY <1>3 DEF PilotAt
  <2>2. Steps(PilotOver(p), p, i, k)
    BY <1>3, PilotStep
  <2> QED BY <1>1, <2>1, <2>2, ByStage
<1>4. CASE TableAt(p, b, k - P)
  <2>1. p.stage = "SYNC"
    BY <1>4 DEF TableAt
  <2> DEFINE m == k - P
  <2>2. PilotLength(p.img[i]) + m = k
    <3> HIDE DEF P
    <3>1. P + (k - P) = k
      BY <1>2
    <3> QED BY <3>1 DEF P
  <2>3. Here(p, i, PilotLength(p.img[i]) + m) /\ TableAt(p, p.img[i], m)
    BY <1>4, <2>2
  <2> HIDE DEF m
  <2>4. Steps(SyncOver(p), p, i, PilotLength(p.img[i]) + m)
    BY <2>3, TableStep
  <2> QED BY <1>1, <2>1, <2>2, <2>4, ByStage
<1>5. CASE BitAt(p, b, k - D)
  <2>1. p.stage = "DATA"
    BY <1>5 DEF BitAt
  <2> DEFINE m == k - D
  <2>2. DataStart(p.img[i]) + m = k
    <3> HIDE DEF D
    <3>1. D + (k - D) = k
      BY <1>2
    <3> QED BY <3>1 DEF D
  <2>3. Here(p, i, DataStart(p.img[i]) + m) /\ BitAt(p, p.img[i], m)
    BY <1>5, <2>2
  <2> HIDE DEF m
  <2>4. Steps(BitOver(p), p, i, DataStart(p.img[i]) + m)
    BY <2>3, BitStep
  <2> QED BY <1>1, <2>1, <2>2, <2>4, ByStage
<1>6. CASE SampleAt(p, b, k - D)
  <2>1. p.stage = "SAMPLE"
    BY <1>6 DEF SampleAt
  <2> DEFINE m == k - D
  <2>2. DataStart(p.img[i]) + m = k
    <3> HIDE DEF D
    <3>1. D + (k - D) = k
      BY <1>2
    <3> QED BY <3>1 DEF D
  <2>3. Here(p, i, DataStart(p.img[i]) + m) /\ SampleAt(p, p.img[i], m)
    BY <1>6, <2>2
  <2> HIDE DEF m
  <2>4. Steps(SampleOver(p), p, i, DataStart(p.img[i]) + m)
    BY <2>3, SampleStep
  <2> QED BY <1>1, <2>1, <2>2, <2>4, ByStage
<1>7. CASE PauseAt(p, b, k - (D + L))
  <2>1. p.stage = "PAUSE"
    BY <1>7 DEF PauseAt
  <2> DEFINE m == k - (D + L)
  <2>2. DataStart(p.img[i]) + DataLength(p.img[i]) + m = k
    <3> HIDE DEF D, L
    <3>1. D + L + (k - (D + L)) = k
      BY <1>2
    <3> QED BY <3>1 DEF D, L
  <2>3. Here(p, i, DataStart(p.img[i]) + DataLength(p.img[i]) + m) /\ PauseAt(p, p.img[i], m)
    BY <1>7, <2>2
  <2> HIDE DEF m
  <2>4. Steps(PauseOver(p), p, i, DataStart(p.img[i]) + DataLength(p.img[i]) + m)
    BY <2>3, PauseStep
  <2> QED BY <1>1, <2>1, <2>2, <2>4, ByStage
<1> QED BY <1>1, <1>3, <1>4, <1>5, <1>6, <1>7 DEF On

\* Without its image the player goes on with the counters and the bits it has, until
\* it has to read a block.
Detaches(q, p) ==
  q \in PlayerType /\ q.img = p.img /\ ~q.live /\ q.recorded = p.recorded
  /\ (q.play = p.play \/ ~q.play)

\* The register loses its first bit.
LEMMA ShiftRest ==
  ASSUME NEW s \in Shifts, s # <<>>
  PROVE  Tail(s) \in Shifts /\ Head(s) \in Bit
<1>1. s \in Seq(Bit) /\ Len(s) < ByteBits
  BY DEF Shifts
<1>2. Len(Tail(s)) = Len(s) - 1 /\ Tail(s) \in Seq(Bit) /\ Head(s) \in Bit /\ Len(s) \in Nat
  BY <1>1, HeadTailProperties, LenProperties
<1>3. ByteBits \in Nat
  BY PlayerAssumption
<1> QED BY <1>1, <1>2, <1>3 DEF Shifts

\* A detached player can begin an interval.
LEMMA DeadSounds ==
  ASSUME NEW p \in PlayerType, ~p.live, NEW r \in PlayerType, Quiet(r, p)
  PROVE  Detaches(Sound(r, r.pulse), p)
<1>1. r.pulse \in Word
  BY DEF PlayerType
<1>2. Sound(r, r.pulse) \in PlayerType /\ Plays(Sound(r, r.pulse), r, r.level, r.pulse)
  BY <1>1, SoundPlays
<1> QED BY <1>2 DEF Detaches, Plays, Quiet, Frame, PlayerType

\* It can take a bit from the register.
LEMMA DeadShifted ==
  ASSUME NEW p \in PlayerType, p.shift # <<>>, p.left # 0
  PROVE  Shifted(p) \in PlayerType /\ Quiet(Shifted(p), p) /\ Head(NextByte(p)) = Head(p.shift)
         /\ Shifted(p).pulse = p.pulse
<1>1. NextByte(p) = p.shift
  BY DEF NextByte
<1> DEFINE t == Tail(p.shift)
<1>2. p.shift \in Shifts /\ p.left \in Word
  BY DEF PlayerType
<1>3. t \in Shifts
  BY <1>2, ShiftRest
<1>4. p.left - 1 \in Word
  <2> DEFINE w == HalfWord * HalfWord - 1
  <2>1. Word = 0 .. w /\ w \in Int
    BY PlayerAssumption DEF Word
  <2> HIDE DEF w, t
  <2> QED BY <1>2, <2>1
<1>5. Shifted(p) = [p EXCEPT !.shift = t, !.left = p.left - 1, !.byte = p.byte]
  BY <1>1 DEF Shifted, PlayerType
<1>6. p.byte \in Nat \ {0}
  BY DEF PlayerType
<1> HIDE DEF t
<1>7. Shifted(p) \in PlayerType
  BY <1>3, <1>4, <1>5, <1>6 DEF PlayerType
<1> QED BY <1>1, <1>5, <1>7 DEF Quiet, Frame, PlayerType

\* So Tape_UpdateLevel leaves a detached player detached.
LEMMA UpdateDead ==
  ASSUME NEW p \in PlayerType, ~p.live
  PROVE  Detaches(Tape_UpdateLevel(p), p)
<1> DEFINE q == Tape_UpdateLevel(p)
           r == CountDown(Tape_SwitchLevel(p))
<1> SUFFICES Detaches(q, p)
  OBVIOUS
<1>1. CASE ReadsImage(p)
  <2>1. p.stage # "END"
    BY <1>1 DEF ReadsImage
  <2>2. q = [p EXCEPT !.lost = TRUE]
    BY <1>1, <2>1 DEF Tape_UpdateLevel
  <2>3. TRUE \in BOOLEAN
    OBVIOUS
  <2> HIDE DEF q, r
  <2> QED BY <2>2, <2>3 DEF Detaches, PlayerType
<1>2. CASE p.stage = "END"
  <2>1. ~ReadsImage(p)
    BY <1>2 DEF ReadsImage
  <2>2. q = [p EXCEPT !.play = FALSE]
    BY <1>2, <2>1 DEF Tape_UpdateLevel, EndReached
  <2>3. FALSE \in BOOLEAN
    OBVIOUS
  <2> HIDE DEF q
  <2> QED BY <2>2, <2>3 DEF Detaches, PlayerType
<1>3. /\ r \in PlayerType /\ Quiet(r, p) /\ r.left = p.left /\ r.shift = p.shift
      /\ r.count = IF p.count = 0 THEN HalfWord * HalfWord - 1 ELSE p.count - 1
  BY PulseOver
<1>4. HalfWord * HalfWord - 1 > 0 /\ p.count \in Nat
  <2> HIDE DEF q, r
  <2>1. 1 \in Word
    BY TwoIsWord
  <2>2. p.count \in Word
    BY DEF PlayerType
  <2> DEFINE w == HalfWord * HalfWord - 1
  <2>3. Word = 0 .. w /\ w \in Int
    BY PlayerAssumption DEF Word
  <2>4. HalfWord * HalfWord - 1 = w
    OBVIOUS
  <2> HIDE DEF w
  <2>5. w > 0 /\ p.count \in Nat
    BY <2>1, <2>2, <2>3
  <2> QED BY <2>4, <2>5
<1> DEFINE w == HalfWord * HalfWord - 1
<1>5. p.count # 1 => r.count > 0
  <2> HIDE DEF w, r
  <2>1. r.count = IF p.count = 0 THEN w ELSE p.count - 1
    BY <1>3 DEF w
  <2>2. w > 0
    BY <1>4 DEF w
  <2> QED BY <1>4, <2>1, <2>2
<1>6. ASSUME ~ReadsImage(p), p.stage = "PILOT" PROVE Detaches(q, p)
  <2>1. q = PilotOver(p) /\ p.count # 1
    BY <1>6 DEF Tape_UpdateLevel, ReadsImage
  <2>2. PilotOver(p) = Sound(r, r.pulse)
    BY <1>5, <2>1 DEF PilotOver
  <2> HIDE DEF q, r
  <2> QED BY <1>3, <2>1, <2>2, DeadSounds
<1>7. ASSUME ~ReadsImage(p), p.stage = "DATA" PROVE Detaches(q, p)
  <2>1. q = BitOver(p)
    BY <1>7 DEF Tape_UpdateLevel
  <2>2. CASE p.count # 1
    <3>1. BitOver(p) = Sound(r, r.pulse)
      BY <1>5, <2>2 DEF BitOver
    <3> HIDE DEF q, r
    <3> QED BY <1>3, <2>1, <3>1, DeadSounds
  <2>3. CASE p.count = 1
    <3>1. p.left # 0 /\ p.shift # <<>>
      BY <1>7, <2>3 DEF ReadsImage
    <3>2. p.left \in Nat /\ p.left > 0
      BY <3>1 DEF PlayerType, Word
    <3>3. r.count = 0 /\ r.left > 0
      <4> HIDE DEF r
      <4> QED BY <1>3, <2>3, <3>2
    <3>4. BitOver(p) = PlayBit(r)
      BY <3>3 DEF BitOver
    <3> HIDE DEF r
    <3> DEFINE s == Shifted(r)
               n == IF Head(NextByte(r)) = 1 THEN r.one ELSE r.zero
               t == Tape_ReadDataBit(r)
    <3>5. s \in PlayerType /\ Quiet(s, r)
      BY <1>3, <3>1, DeadShifted
    <3>6. n \in Word /\ 2 \in Word
      BY <1>3, TwoIsWord DEF PlayerType
    <3>7. t = [s EXCEPT !.pulse = n, !.count = 2]
      BY <3>3, <1>3, <3>1 DEF Tape_ReadDataBit
    <3> HIDE DEF s, n, t
    <3>8. t \in PlayerType /\ Quiet(t, s)
      BY <3>5, <3>6, <3>7 DEF PlayerType, Quiet, Frame
    <3>9. Quiet(t, p)
      BY <1>3, <3>5, <3>8 DEF Quiet, Frame
    <3>10. PlayBit(r) = Sound(t, t.pulse)
      BY DEF PlayBit, t
    <3> HIDE DEF q
    <3> QED BY <2>1, <3>4, <3>8, <3>9, <3>10, DeadSounds
  <2> QED BY <2>2, <2>3
<1>8. ASSUME ~ReadsImage(p), p.stage = "SAMPLE" PROVE Detaches(q, p)
  <2>1. p.left # 0 /\ p.shift # <<>>
    BY <1>8 DEF ReadsImage
  <2>2. p.left > 0
    BY <2>1 DEF PlayerType, Word
  <2>3. q = Tape_ReadSampleDataBit(p)
    BY <1>8, <2>2 DEF Tape_UpdateLevel, SampleOver
  <2> DEFINE s == Shifted(p)
             lv == (Head(NextByte(p)) = 1)
             t == [s EXCEPT !.level = lv]
  <2>4. s \in PlayerType /\ Quiet(s, p) /\ s.pulse = p.pulse
    BY <2>1, DeadShifted
  <2>5. lv \in BOOLEAN
    OBVIOUS
  <2>6. q = Sound(t, p.pulse)
    BY <2>1, <2>3 DEF Tape_ReadSampleDataBit
  <2> HIDE DEF s, lv
  <2>7. t \in PlayerType /\ Quiet(t, s) /\ t.pulse = s.pulse
    BY <2>4, <2>5 DEF PlayerType, Quiet, Frame
  <2>8. Quiet(t, p)
    BY <2>4, <2>7 DEF Quiet, Frame
  <2> HIDE DEF t, q
  <2>9. q = Sound(t, t.pulse)
    BY <2>4, <2>6, <2>7
  <2> QED BY <2>7, <2>8, <2>9, DeadSounds
<1>9. ASSUME ~ReadsImage(p), p.stage = "PAUSE" PROVE Detaches(q, p)
  <2>1. q = PauseOver(p) /\ p.count # 1
    BY <1>9 DEF Tape_UpdateLevel, ReadsImage
  <2> DEFINE z == CountDown([p EXCEPT !.level = FALSE])
  <2>2. z \in PlayerType /\ Quiet(z, p) /\ z.count = IF p.count = 0 THEN HalfWord * HalfWord - 1 ELSE p.count - 1
    <3>1. FALSE \in BOOLEAN
      OBVIOUS
    <3> QED BY <3>1, CountedDown
  <2>3. z.count > 0
    <3> HIDE DEF z, w
    <3>1. z.count = IF p.count = 0 THEN w ELSE p.count - 1
      BY <2>2 DEF w
    <3>2. w > 0
      BY <1>4 DEF w
    <3> QED BY <1>4, <2>1, <3>1, <3>2
  <2>4. PauseOver(p) = Sound(z, z.pulse)
    BY <2>3 DEF PauseOver
  <2> HIDE DEF q, z
  <2> QED BY <2>1, <2>2, <2>4, DeadSounds
<1>10. p.stage \in Stages
  BY DEF PlayerType
<1>11. p.stage = "SYNC" => ReadsImage(p)
  BY DEF ReadsImage
<1> HIDE DEF q, r, w
<1> QED BY <1>1, <1>2, <1>6, <1>7, <1>8, <1>9, <1>10, <1>11 DEF Stages

(***************************************************************************)
(* The files for which the player keeps its promises.                      *)
(***************************************************************************)
\* No pilot tone is without pulses.
PilotsSound ==
  /\ Standard.pulses # 0
  /\ \A file \in Files : \A i \in DOMAIN file : file[i].id \in {Turbo, Tone} => file[i].pulses # 0

\* No pulse and no sample is shorter than the longest wait state, of which a
\* millisecond has two.
Unhurried ==
  /\ \E c \in Costs : \A d \in Costs : d <= c
  /\ CyclesPerMs >= 2 * LongestCost /\ IdleBound >= 2 * LongestCost - 1
  /\ \A file \in Files : \A i \in DOMAIN file : \A k \in DOMAIN Recorded(file[i]) :
       Recorded(file[i])[k].kind \in {"pulse", "sample"} =>
         Recorded(file[i])[k].length >= LongestCost

\* The longest wait state.
LEMMA LongestType ==
  ASSUME Unhurried
  PROVE  LongestCost \in Nat \ {0} /\ \A d \in Costs : d <= LongestCost
<1>1. LongestCost \in Costs /\ \A d \in Costs : d <= LongestCost
  BY DEF Unhurried, LongestCost
<1> QED BY <1>1, PlayerAssumption

\* The intervals of a pause block.
LEMMA PauseBlock ==
  ASSUME NEW ms \in HalfWords, NEW b, b = Pause(ms)
  PROVE  /\ b \in Blocks /\ b.id = Silence /\ b.pause = ms
         /\ \A k \in DOMAIN Recorded(b) : Recorded(b)[k].kind \in {"hold", "low"}
<1>1. b \in Blocks /\ b.id = Silence /\ b.pause = ms
  BY PauseType DEF Pause
<1>2. Recorded(b) = Gap(ms)
  BY <1>1 DEF Recorded, Std, Turbo, Tone, Pulses, Pure, Direct, Silence
<1>3. /\ Len(Gap(ms)) = IF ms = 0 THEN 0 ELSE 2
      /\ Gap(ms) \in Seq(Intervals)
      /\ ms # 0 => Gap(ms)[1].kind = "hold" /\ Gap(ms)[2].kind = "low"
  <2>1. /\ Len(Gap(ms)) = IF ms = 0 THEN 0 ELSE 2
        /\ Gap(ms) \in Seq(Intervals)
        /\ ms # 0 => /\ Gap(ms)[1] = Interval("hold", MS_TO_CYCLES(1))
                     /\ Gap(ms)[2] = Interval("low", MS_TO_CYCLES(ms - 1))
    BY GapType
  <2>2. \A kind, l : Interval(kind, l).kind = kind
    BY DEF Interval
  <2> QED BY <2>1, <2>2
<1>4. \A k \in DOMAIN Gap(ms) : Gap(ms)[k].kind \in {"hold", "low"}
  <2>1. DOMAIN Gap(ms) = 1 .. Len(Gap(ms))
    BY <1>3
  <2>2. ASSUME NEW k \in 1 .. Len(Gap(ms)) PROVE ms # 0 /\ k \in {1, 2}
    BY <1>3
  <2> QED BY <1>3, <2>1, <2>2
<1> QED BY <1>1, <1>2, <1>4

\* The blocks of an image are those of its file and pauses, the first of them the
\* lead-in.
LEMMA ImageBlocks ==
  ASSUME NEW file \in Files
  PROVE  /\ Image(file) \in Seq(Blocks) /\ Len(Image(file)) \in Nat \ {0}
         /\ Image(file)[1] = Pause(LeadIn)
         /\ \A i \in 1 .. Len(Image(file)) :
              \/ \E j \in DOMAIN file : Image(file)[i] = file[j]
              \/ \E ms \in HalfWords : Image(file)[i] = Pause(ms)
<1> DEFINE lead == <<Pause(LeadIn)>>
           all == lead \o file \o lead
           early(i) == i > 1 /\ \A j \in 1 .. i : all[j].id \notin DataBlocks \cup Unsupported
           img == [i \in DOMAIN all |-> IF early(i) /\ all[i].id = Silence THEN Pause(0) ELSE all[i]]
           n == Len(file)
<1>1. file \in Seq(Blocks) /\ LeadIn \in HalfWords /\ 0 \in HalfWords
  BY TapeAssumption, PlayerAssumption DEF HalfWords
<1>2. Pause(LeadIn) \in Blocks /\ Image(file) = img /\ img \in Seq(Blocks)
  BY <1>1, PauseType, ImageType DEF Image
<1>3. n \in Nat /\ DOMAIN file = 1 .. n
  BY <1>1
<1>4. /\ DOMAIN all = 1 .. n + 2 /\ all[1] = Pause(LeadIn) /\ all[n + 2] = Pause(LeadIn)
      /\ \A i \in 2 .. n + 1 : all[i] = file[i - 1]
  BY <1>1, <1>2
<1> HIDE DEF all, early, n, lead
<1>5. DOMAIN img = 1 .. n + 2
  BY <1>4
<1>6. Len(img) = n + 2
  BY <1>2, <1>3, <1>5
<1>7. img[1] = Pause(LeadIn)
  BY <1>3, <1>4 DEF early
<1>8. ASSUME NEW i \in 1 .. n + 2
      PROVE  \/ \E j \in DOMAIN file : img[i] = file[j]
             \/ \E ms \in HalfWords : img[i] = Pause(ms)
  <2>1. img[i] = Pause(0) \/ img[i] = all[i]
    BY <1>4, <1>8
  <2>2. all[i] = Pause(LeadIn) \/ \E j \in DOMAIN file : all[i] = file[j]
    <3>1. CASE i = 1 \/ i = n + 2
      BY <1>4, <3>1
    <3>2. CASE i \in 2 .. n + 1
      <4>1. all[i] = file[i - 1] /\ i - 1 \in 1 .. n
        BY <1>3, <1>4, <3>2
      <4> QED BY <1>3, <4>1
    <3> QED BY <1>3, <3>1, <3>2
  <2> HIDE DEF img
  <2> QED BY <1>1, <2>1, <2>2
<1> HIDE DEF img
<1> QED BY <1>2, <1>3, <1>6, <1>7, <1>8

\* In every image the pilot tones have pulses.
LEMMA PilotsGiven ==
  ASSUME PilotsSound, NEW img \in Inserted, NEW i \in 1 .. Len(img), img[i].id \in WithPilot
  PROVE  PilotLength(img[i]) # 0
<1>1. PICK file \in Files : img = Image(file)
  <2>1. img # <<>>
    OBVIOUS
  <2> QED BY <2>1 DEF Inserted
<1>2. CASE img[i].id = Std
  BY <1>2 DEF PilotsSound, PilotLength, Shape
<1>3. CASE img[i].id # Std
  <2>1. img[i].id \in {Turbo, Tone}
    BY <1>3 DEF WithPilot
  <2>2. \/ \E j \in DOMAIN file : img[i] = file[j]
        \/ \E ms \in HalfWords : img[i] = Pause(ms)
    BY <1>1, ImageBlocks
  <2>3. \A ms : Pause(ms).id \notin {Turbo, Tone}
    BY DEF Pause, Silence, Turbo, Tone
  <2>4. PICK j \in DOMAIN file : img[i] = file[j]
    BY <2>1, <2>2, <2>3
  <2>5. img[i].pulses # 0
    BY <2>1, <2>4 DEF PilotsSound
  <2> QED BY <1>3, <2>5 DEF PilotLength, Shape
<1> QED BY <1>2, <1>3

\* In every image the pulses and samples are as long as a wait state.
LEMMA Lengthy ==
  ASSUME Unhurried, NEW img \in Inserted, NEW i \in 1 .. Len(img),
         NEW k \in DOMAIN Recorded(img[i]), Recorded(img[i])[k].kind \in {"pulse", "sample"}
  PROVE  Recorded(img[i])[k].length >= LongestCost
<1>1. PICK file \in Files : img = Image(file)
  <2>1. img # <<>>
    OBVIOUS
  <2> QED BY <2>1 DEF Inserted
<1>2. \/ \E j \in DOMAIN file : img[i] = file[j]
      \/ \E ms \in HalfWords : img[i] = Pause(ms)
  BY <1>1, ImageBlocks
<1>3. CASE \E j \in DOMAIN file : img[i] = file[j]
  BY <1>3 DEF Unhurried
<1>4. CASE \E ms \in HalfWords : img[i] = Pause(ms)
  <2> DEFINE b == img[i]
  <2>1. PICK ms \in HalfWords : b = Pause(ms)
    BY <1>4
  <2> HIDE DEF b
  <2>2. \A l \in DOMAIN Recorded(b) : Recorded(b)[l].kind \in {"hold", "low"}
    BY <2>1, PauseBlock
  <2> QED BY <2>2 DEF b
<1> QED BY <1>2, <1>3, <1>4

\* Without an image there is no signal.
LEMMA SignalNone == Signal(<<>>) = <<>>
<1>1. <<>> \in Seq(Blocks) /\ Len(<<>>) = 0
  OBVIOUS
<1> DEFINE e == <<>>
<1>2. e \in Seq(Blocks) /\ Len(e) = 0
  BY <1>1
<1> HIDE DEF e
<1>3. SignalOf(Signal(e), OnTape(e)) /\ Lays(Parts(e), Starts(Parts(e))) /\ Len(Parts(e)) = Len(e)
  BY <1>2, SignalIs, PartsOf
<1>4. Len(OnTape(e)) = 0
  BY <1>2, <1>3 DEF Lays, OnTape
<1>5. Signal(e) \in Seq(Sounds) /\ Len(Signal(e)) = 0
  BY <1>3, <1>4 DEF SignalOf
<1>6. Signal(e) = <<>>
  BY <1>5, EmptySeq
<1> QED BY <1>6 DEF e

\* The first block of an image is a pause that sounds.
LEMMA LeadInHere ==
  ASSUME NEW file \in Files
  PROVE  /\ Image(file) \in Inserted /\ 1 \in 1 .. Len(Image(file)) /\ Image(file) # <<>>
         /\ ~Silent(Image(file)[1]) /\ Image(file)[1].id = Silence
         /\ Image(file)[1].id \in SoundIds /\ Image(file)[1].id \notin Unsupported
<1>1. LeadIn \in HalfWords /\ LeadIn # 0
  BY TapeAssumption, PlayerAssumption DEF HalfWords
<1>2. Len(Image(file)) \in Nat \ {0} /\ Image(file)[1] = Pause(LeadIn)
  BY ImageBlocks
<1>3. Pause(LeadIn).id = Silence /\ Pause(LeadIn).pause = LeadIn
  BY DEF Pause
<1>4. 1 \in 1 .. Len(Image(file)) /\ Image(file) # <<>>
  BY <1>2
<1> QED BY <1>1, <1>2, <1>3, <1>4
        DEF Inserted, Silent, SoundIds, Silence, Unsupported

(***************************************************************************)
(* The invariant of the player.                                            *)
(***************************************************************************)
\* The interval that lasts has `cycles' more of them.
Counts(p) ==
  /\ p.heard # <<>> /\ p.elapsed = Duration(p.heard) - p.cycles
  /\ p.cycles <= p.heard[Len(p.heard)].length
Timed(p) ==
  /\ Counts(p) /\ p.cycles > -LongestCost
  /\ p.stage = "PAUSE" /\ p.count = 2 => p.cycles > 0
\* After a wait state, with the interval over.
Due(p) ==
  /\ Counts(p) /\ p.cycles \in -2 * LongestCost + 1 .. 0
  /\ p.stage = "PAUSE" /\ p.count = 2 => p.cycles > -LongestCost

\* The interval that follows on the tape is the next one of the signal.
LEMMA NextSound ==
  ASSUME NEW p, NEW i, NEW k, Here(p, i, k), k # 0,
         p.recorded = Signal(p.img), Hears(p, Place(p.img, i, k)),
         NEW j \in 1 .. Len(p.img), NEW l \in 1 .. Len(Recorded(p.img[j])),
         Place(p.img, j, l) = Place(p.img, i, k) + 1,
         NEW q, q.recorded = p.recorded,
         q.level = LevelOf(Recorded(p.img[j])[l], After(p)),
         q.heard = Append(p.heard, [level |-> q.level, length |-> Recorded(p.img[j])[l].length])
  PROVE  /\ Hears(q, Place(p.img, j, l))
         /\ Len(p.heard) < Len(p.recorded)
         /\ q.heard = Append(p.heard, p.recorded[Len(p.heard) + 1])
<1> DEFINE s == OnTape(p.img)
           n == Place(p.img, i, k)
           b == p.img[i]
           r == Recorded(p.img[j])[l]
<1>1. p \in PlayerType /\ p.img \in Seq(Blocks) /\ i \in 1 .. Len(p.img) /\ b \in Blocks /\ On(p, b, k)
  BY HereType, InsertedType DEF PlayerType
<1>2. /\ k \in 1 .. Len(Recorded(b))
      /\ Recorded(b)[k].kind = "pulse" <=> p.stage \in {"PILOT", "SYNC", "DATA"}
  BY <1>1, KindAt
<1>3. n \in 1 .. Len(s) /\ s[n] = Recorded(b)[k]
  BY <1>1, <1>2, Placed
<1>4. n + 1 \in 1 .. Len(s) /\ s[n + 1] = r
  <2>1. Place(p.img, j, l) \in 1 .. Len(s) /\ s[Place(p.img, j, l)] = r
    BY <1>1, Placed
  <2> QED BY <2>1
<1>5. SignalOf(p.recorded, s) /\ s \in Seq(Intervals)
  BY <1>1, SignalIs, PartsOf
<1>6. Behind(s[n], p.level) = After(p)
  BY <1>2, <1>3 DEF Behind, After
<1>7. Hears(p, n)
  OBVIOUS
<1> HIDE DEF s, n, r, b
<1>8. /\ q.level = LevelOf(s[n + 1], Behind(s[n], p.level))
      /\ q.heard = Append(p.heard, [level |-> q.level, length |-> s[n + 1].length])
      /\ n + 1 <= Len(s)
  BY <1>3, <1>4, <1>5, <1>6 DEF r
<1>9. Hears(q, n + 1)
  BY <1>1, <1>5, <1>7, <1>8, HearsNext
<1>10. Len(p.heard) = n /\ n \in Nat /\ Len(p.recorded) = Len(s) /\ p.recorded \in Seq(Sounds)
  BY <1>3, <1>5, <1>7 DEF Hears, SignalOf
<1>11. n + 1 \in 1 .. Len(p.recorded) /\ q.level = p.recorded[n + 1].level
       /\ p.recorded[n + 1].length = s[n + 1].length
  BY <1>4, <1>5, <1>9, <1>10 DEF Hears, SignalOf
<1>12. p.recorded[n + 1] = [level |-> q.level, length |-> s[n + 1].length]
  <2>1. p.recorded[n + 1] \in Sounds
    <3> DEFINE R == Sounds
    <3> HIDE DEF R
    <3>1. p.recorded \in Seq(R)
      BY <1>10 DEF R
    <3>2. p.recorded[n + 1] \in R
      BY <1>11, <3>1
    <3> QED BY <3>2 DEF R
  <2> DEFINE x == p.recorded[n + 1]
  <2>2. x \in Sounds /\ x.level = q.level /\ x.length = s[n + 1].length
    BY <1>11, <2>1
  <2> HIDE DEF x
  <2>3. x = [level |-> x.level, length |-> x.length]
    BY <2>2 DEF Sounds
  <2>4. x = [level |-> q.level, length |-> s[n + 1].length]
    BY <2>2, <2>3
  <2> QED BY <2>4 DEF x
<1>13. Place(p.img, j, l) = n + 1
  BY DEF n
<1> QED BY <1>4, <1>8, <1>9, <1>10, <1>11, <1>12, <1>13

\* It begins in time, if the one before it ended in time.
LEMMA NextTimed ==
  ASSUME Unhurried, NEW p \in PlayerType, Due(p), NEW q, NEW n \in Nat,
         q.elapsed = p.elapsed, q.cycles = p.cycles + n,
         NEW lv \in BOOLEAN, q.heard = Append(p.heard, [level |-> lv, length |-> n]),
         \/ n >= 2 * LongestCost
         \/ n >= LongestCost /\ ~(q.stage = "PAUSE" /\ q.count = 2)
         \/ p.stage = "PAUSE" /\ p.count = 2 /\ ~(q.stage = "PAUSE" /\ q.count = 2)
  PROVE  Timed(q)
<1> DEFINE x == [level |-> lv, length |-> n]
           L == LongestCost
<1>1. L \in Nat \ {0}
  BY LongestType
<1>2. x \in Sounds /\ x.length = n
  BY DEF Sounds
<1> HIDE DEF x
<1>3. p.heard \in Heard /\ p.cycles \in Int /\ p.elapsed \in Nat
  BY DEF PlayerType
<1>4. q.heard = Append(p.heard, x)
  BY DEF x
<1>5. q.heard \in Heard /\ Duration(q.heard) = Duration(p.heard) + n /\ Duration(p.heard) \in Nat
  BY <1>2, <1>3, <1>4, DurationAppend
<1>6. q.heard # <<>> /\ q.heard[Len(q.heard)] = x
  <2> DEFINE R == [level : BOOLEAN, length : Nat]
  <2>1. p.heard \in Seq(R)
    BY <1>3 DEF Heard
  <2>2. x \in R
    BY <1>2 DEF Sounds
  <2> HIDE DEF R
  <2>3. Len(Append(p.heard, x)) = Len(p.heard) + 1 /\ Append(p.heard, x)[Len(p.heard) + 1] = x
        /\ Append(p.heard, x) # <<>>
    <3> DEFINE h == p.heard
    <3>1. h \in Seq(R) /\ x \in R
      BY <2>1, <2>2
    <3> HIDE DEF h
    <3> QED BY <3>1, AppendProperties DEF h
  <2> QED BY <1>4, <2>3
<1>7. /\ p.elapsed = Duration(p.heard) - p.cycles /\ p.cycles <= 0 /\ p.cycles > -2 * L
      /\ p.stage = "PAUSE" /\ p.count = 2 => p.cycles > -L
  BY <1>1, <1>3 DEF Due, Counts
<1> HIDE DEF L
<1>8. Counts(q)
  <2>1. q.elapsed = Duration(q.heard) - q.cycles
    BY <1>3, <1>5, <1>7
  <2>2. q.cycles <= n
    BY <1>3, <1>7
  <2> QED BY <1>2, <1>6, <2>1, <2>2 DEF Counts
<1>9. q.cycles > -L
  BY <1>1, <1>3, <1>7 DEF L
<1>10. q.stage = "PAUSE" /\ q.count = 2 => q.cycles > 0
  BY <1>1, <1>3, <1>7 DEF L
<1> QED BY <1>8, <1>9, <1>10 DEF Timed, L

\* p plays the k-th interval of block i.  Of a pilot tone without pulses nothing is
\* known but that the player is in it.
Reached(p, i, k) ==
  /\ Here(p, i, k) /\ ~p.lost
  /\ PilotsSound => /\ k # 0 /\ Hears(p, Place(p.img, i, k))
                    /\ Unhurried => Timed(p)
Stopped(p) ==
  /\ ~p.lost /\ p.blk = Offset(p.img)[Len(p.img) + 1] /\ p.stage = "END"
  /\ PilotsSound => p.heard = p.recorded
Stray(p) ==
  /\ p.lost
  /\ \E i \in 1 .. Len(p.img) : p.blk = Offset(p.img)[i] /\ p.img[i].id \in Unsupported
  /\ p.stage \in {"DATA", "SAMPLE"} => p.left = 0
OK(p) ==
  /\ p \in PlayerType
  /\ p.live => /\ p.img # <<>> /\ p.recorded = Signal(p.img)
               /\ Stray(p) \/ Stopped(p) \/ \E i, k : Reached(p, i, k)
  /\ ~p.live => p.recorded = <<>>

HeardOf(p) == IF p.live THEN p.heard ELSE <<>>
\* What TapeSignal allows the player on its own.
Advances(q, p) ==
  /\ q.recorded = p.recorded
  /\ \/ HeardOf(q) = HeardOf(p) /\ q.play = p.play
     \/ /\ Len(HeardOf(p)) < Len(p.recorded) /\ q.play = p.play
        /\ HeardOf(q) = Append(HeardOf(p), p.recorded[Len(HeardOf(p)) + 1])
     \/ HeardOf(q) = HeardOf(p) /\ HeardOf(p) = p.recorded /\ ~q.play

\* The wait state before p has ended its interval.
Ended(p, i, k) ==
  /\ Here(p, i, k) /\ ~p.lost /\ p.recorded = Signal(p.img) /\ p.img # <<>>
  /\ PilotsSound => /\ k # 0 /\ Hears(p, Place(p.img, i, k))
                    /\ Unhurried => Due(p)
\* r is p, its counters and perhaps its level aside, at block j.
Moved(r, p, j) ==
  /\ r.img = p.img /\ r.live = p.live /\ r.blk = Offset(p.img)[j] /\ r.play = p.play
  /\ r.recorded = p.recorded /\ r.elapsed = p.elapsed /\ r.lost = p.lost
  /\ r.cycles = p.cycles /\ r.heard = p.heard
\* q is what OK and Advances ask of the successor of p.
Goes(q, p) == OK(q) /\ q.img = p.img /\ (PilotsSound => Advances(q, p))

\* From an interval that is over to the next one.
LEMMA Sounding ==
  ASSUME NEW p, NEW i, NEW k, Ended(p, i, k),
         NEW j \in 1 .. Len(p.img), p.img[j].id \in SoundIds, NEW r, Moved(r, p, j),
         NEW q, NEW l, Begins(q, r, After(p), p.img[j], l),
         l = 0 => PilotLength(p.img[j]) = 0,
         l # 0 /\ k # 0 => Place(p.img, j, l) = Place(p.img, i, k) + 1,
         (j = i /\ l = k + 1) \/ l \in {0, 1}
  PROVE  Goes(q, p)
<1> DEFINE b == p.img[j]
           iv == Recorded(b)[l]
<1>1. /\ Here(p, i, k) /\ ~p.lost /\ p.recorded = Signal(p.img) /\ p.img # <<>>
      /\ p \in PlayerType /\ p.live /\ k \in Nat /\ On(p, p.img[i], k) /\ p.img[i] \in Blocks
  BY HereType DEF Ended
<1>2. p.img \in Inserted /\ p.img \in Seq(Blocks) /\ b \in Blocks
  <2>1. p.img \in Inserted
    BY <1>1 DEF PlayerType
  <2>2. p.img \in Seq(Blocks)
    BY <2>1, InsertedType
  <2> QED BY <2>1, <2>2
<1>3. /\ q \in PlayerType /\ Frame(q, r) /\ On(q, b, l)
      /\ l # 0 => Plays(q, r, LevelOf(iv, After(p)), iv.length)
  BY DEF Begins
<1>4. /\ q.img = p.img /\ q.live /\ q.blk = Offset(p.img)[j] /\ q.play = p.play
      /\ q.recorded = p.recorded /\ q.elapsed = p.elapsed /\ ~q.lost
  BY <1>1, <1>3 DEF Frame, Moved
<1>5. Here(q, j, l)
  BY <1>3, <1>4 DEF Here
<1>6. ASSUME PilotsSound PROVE l # 0 /\ k # 0 /\ Hears(p, Place(p.img, i, k))
  <2>1. k # 0 /\ Hears(p, Place(p.img, i, k))
    BY <1>6 DEF Ended
  <2>2. ASSUME l = 0 PROVE FALSE
    <3>1. On(q, b, 0)
      BY <1>3, <2>2
    <3>2. b.id \in WithPilot /\ PilotLength(b) = 0
      BY <1>2, <3>1, OnZero
    <3> QED BY <1>2, <1>6, <3>2, PilotsGiven
  <2> QED BY <2>1, <2>2
<1>7. ASSUME PilotsSound
      PROVE  /\ Hears(q, Place(p.img, j, l)) /\ Len(p.heard) < Len(p.recorded)
             /\ q.heard = Append(p.heard, p.recorded[Len(p.heard) + 1])
  <2>1. l # 0 /\ k # 0 /\ Hears(p, Place(p.img, i, k))
    BY <1>6, <1>7
  <2>2. l \in 1 .. Len(Recorded(b))
    BY <1>2, <1>3, <2>1, KindAt
  <2>3. /\ q.level = LevelOf(iv, After(p))
        /\ q.heard = Append(p.heard, [level |-> q.level, length |-> iv.length])
    BY <1>3, <2>1 DEF Plays, Moved
  <2>4. Place(p.img, j, l) = Place(p.img, i, k) + 1
    BY <2>1
  <2> HIDE DEF Hears, Place, LevelOf, After
  <2>5. /\ Here(p, i, k) /\ p.recorded = Signal(p.img) /\ q.recorded = p.recorded
        /\ j \in 1 .. Len(p.img) /\ l \in 1 .. Len(Recorded(p.img[j]))
    BY <1>1, <1>4, <2>2
  <2>6. /\ q.level = LevelOf(Recorded(p.img[j])[l], After(p))
        /\ q.heard = Append(p.heard, [level |-> q.level, length |-> Recorded(p.img[j])[l].length])
    BY <2>3
  <2> HIDE DEF b, iv
  <2> QED BY <2>1, <2>4, <2>5, <2>6, NextSound
<1>8. ASSUME PilotsSound, Unhurried PROVE Timed(q)
  <2>1. l # 0 /\ k # 0
    BY <1>6, <1>8
  <2> DEFINE n == iv.length
             kd == iv.kind
  <2>2. /\ l \in 1 .. Len(Recorded(b))
        /\ kd = "hold" <=> q.stage = "PAUSE" /\ q.count = 2
        /\ kd = "hold" => n = CyclesPerMs
        /\ kd = "low" => l > 1 /\ Recorded(b)[l - 1].kind = "hold"
        /\ kd \in {"pulse", "sample", "hold", "low"}
    BY <1>2, <1>3, <2>1, KindAt
  <2>3. Recorded(b) \in Seq(Intervals) /\ iv \in Intervals /\ DOMAIN Recorded(b) = 1 .. Len(Recorded(b))
    <3>1. Recorded(b) \in Seq(Intervals)
      BY <1>2, RecordedIs
    <3> QED BY <2>2, <3>1
  <2>4. n \in Nat
    BY <2>3 DEF Intervals
  <2>5. kd \in {"pulse", "sample"} => n >= LongestCost
    BY <1>2, <1>8, <2>2, <2>3, Lengthy
  <2>6. kd = "hold" => n >= 2 * LongestCost
    BY <1>8, <2>2 DEF Unhurried
  <2>7. kd = "low" => p.stage = "PAUSE" /\ p.count = 2
    <3>1. SUFFICES ASSUME kd = "low" PROVE p.stage = "PAUSE" /\ p.count = 2
      OBVIOUS
    <3>2. l > 1 /\ Recorded(b)[l - 1].kind = "hold"
      BY <2>2, <3>1
    <3>3. j = i /\ l = k + 1
      BY <3>2
    <3>4. l - 1 = k
      BY <1>1, <3>3
    <3>5. Recorded(p.img[i])[k].kind = "hold"
      BY <3>2, <3>3, <3>4
    <3> QED BY <1>1, <2>1, <3>5, KindAt
  <2>8. Due(p)
    BY <1>8 DEF Ended
  <2> DEFINE lv == LevelOf(iv, After(p))
  <2>9. /\ q.cycles = p.cycles + n
        /\ q.heard = Append(p.heard, [level |-> lv, length |-> n])
    BY <1>3, <2>1 DEF Plays, Moved
  <2>10. lv \in BOOLEAN
    BY <1>1, HereType, LevelType
  <2> HIDE DEF n, kd, lv
  <2>11. \/ n >= 2 * LongestCost
         \/ n >= LongestCost /\ ~(q.stage = "PAUSE" /\ q.count = 2)
         \/ p.stage = "PAUSE" /\ p.count = 2 /\ ~(q.stage = "PAUSE" /\ q.count = 2)
    BY <2>2, <2>5, <2>6, <2>7
  <2> QED BY <1>1, <1>4, <1>8, <2>4, <2>8, <2>9, <2>10, <2>11, NextTimed
<1>9. Reached(q, j, l)
  BY <1>4, <1>5, <1>6, <1>7, <1>8 DEF Reached
<1>10. OK(q)
  BY <1>1, <1>3, <1>4, <1>9 DEF OK
<1>11. PilotsSound => Advances(q, p)
  BY <1>1, <1>4, <1>7 DEF Advances, HeardOf
<1> QED BY <1>4, <1>10, <1>11 DEF Goes

\* The next place of a block is the next one of the tape.
LEMMA PlaceLater ==
  ASSUME NEW img \in Seq(Blocks), NEW i \in 1 .. Len(img) + 1, NEW k \in Nat
  PROVE  Place(img, i, k + 1) = Place(img, i, k) + 1 /\ Place(img, i, k) \in Nat
<1>1. Len(Parts(img)) = Len(img) /\ Lays(Parts(img), Starts(Parts(img)))
  BY PartsOf
<1> DEFINE a == Starts(Parts(img))[i]
<1>2. a \in Nat
  BY <1>1 DEF Lays
<1> HIDE DEF a
<1>3. (a + (k + 1)) = (a + k) + 1 /\ a + k \in Nat
  BY <1>2
<1> QED BY <1>3 DEF Place, a

\* From an interval that is over to the next one, to the end, or to a block that is not one.
LEMMA HereGoes ==
  ASSUME NEW p, NEW i, NEW k, Ended(p, i, k)
  PROVE  Goes(Tape_UpdateLevel(p), p)
<1> DEFINE q == Tape_UpdateLevel(p)
           b == p.img[i]
<1>1. /\ Here(p, i, k) /\ ~p.lost /\ p.recorded = Signal(p.img) /\ p.img # <<>>
      /\ p \in PlayerType /\ p.live /\ k \in Nat /\ On(p, b, k) /\ b \in Blocks /\ b.id \in SoundIds
      /\ i \in 1 .. Len(p.img) /\ p.blk = Offset(p.img)[i]
  BY HereType DEF Ended
<1>2. p.img \in Seq(Blocks) /\ p.img \in Inserted
  BY <1>1, InsertedType DEF PlayerType
<1>3. Steps(q, p, i, k)
  BY <1>1, UpdateHere
<1> SUFFICES Goes(q, p)
  OBVIOUS
<1> HIDE DEF q
<1>4. ASSUME NEW l \in {k + 1, 0}, Begins(q, p, After(p), b, l), l = 0 => k = 0
      PROVE  Goes(q, p)
  <2>1. Moved(p, p, i)
    BY <1>1 DEF Moved
  <2>2. l = 0 => PilotLength(b) = 0
    <3>1. ASSUME l = 0 PROVE PilotLength(b) = 0
      <4>1. On(p, b, 0)
        BY <1>1, <1>4, <3>1
      <4> QED BY <1>1, <4>1, OnZero
    <3> QED BY <3>1
  <2>3. l # 0 /\ k # 0 => Place(p.img, i, l) = Place(p.img, i, k) + 1
    BY <1>1, <1>2, <1>4, PlaceLater
  <2>4. (i = i /\ l = k + 1) \/ l \in {0, 1}
    BY <1>4
  <2> HIDE DEF Begins, Place, Moved, Goes, Ended
  <2> QED BY <1>1, <1>4, <2>1, <2>2, <2>3, <2>4, Sounding
<1>5. ASSUME k = Len(Recorded(b)), Leaves(q, p, i) PROVE Goes(q, p)
  <2>1. PICK s : Over(s, p) /\ Moves(q, s, i + 1)
    BY <1>5 DEF Leaves
  <2>2. /\ s \in PlayerType /\ Frame(s, p) /\ s.cycles = p.cycles /\ s.heard = p.heard
        /\ s.level = After(p) /\ s.img = p.img
        /\ s.stage \in {"DATA", "SAMPLE"} => s.left = 0
    BY <2>1 DEF Over, Quiet, Frame
  <2>3. PICK j \in i + 1 .. Len(p.img) + 1 :
          /\ \A m \in i + 1 .. j - 1 : Silent(p.img[m])
          /\ \/ j = Len(p.img) + 1 /\ q = [AtBlock(s, j) EXCEPT !.stage = "END", !.play = FALSE]
             \/ /\ j <= Len(p.img) /\ p.img[j].id \in Unsupported
                /\ q = [AtBlock(s, j) EXCEPT !.lost = TRUE]
             \/ /\ j <= Len(p.img) /\ p.img[j].id \in SoundIds
                /\ \E l \in {0, 1} : /\ Begins(q, AtBlock(s, j), s.level, p.img[j], l)
                                     /\ l = 0 => PilotLength(p.img[j]) = 0
    BY <2>1, <2>2 DEF Moves
  <2> DEFINE r == AtBlock(s, j)
  <2>4. j \in 1 .. Len(p.img) + 1 /\ j \in Nat
    BY <1>1
  <2>5. r \in PlayerType /\ Moved(r, p, j) /\ r.stage = s.stage /\ r.left = s.left
    <3>1. r \in PlayerType /\ r.blk = Offset(p.img)[j]
      BY <2>2, <2>4, AtBlockType
    <3> QED BY <2>2, <3>1 DEF Moved, AtBlock, Frame, PlayerType
  <2>6. /\ Place(p.img, j, 0) = Place(p.img, i, k)
        /\ j = Len(p.img) + 1 => Place(p.img, j, 0) = Len(OnTape(p.img))
    <3>1. \A m \in i + 1 .. j - 1 : Silent(p.img[m])
      BY <2>3
    <3>2. /\ Place(p.img, j, 0) = Place(p.img, i, Len(Recorded(b)))
          /\ j = Len(p.img) + 1 => Place(p.img, j, 0) = Len(OnTape(p.img))
      BY <1>1, <1>2, <3>1, NextPlace
    <3> QED BY <1>5, <3>2
  <2> HIDE DEF r
  <2>7. ASSUME j = Len(p.img) + 1, q = [r EXCEPT !.stage = "END", !.play = FALSE]
        PROVE  Goes(q, p)
    <3>1. "END" \in Stages /\ FALSE \in BOOLEAN
      BY DEF Stages
    <3>2. q \in PlayerType
      BY <2>5, <2>7, <3>1 DEF PlayerType
    <3>3. /\ q.img = p.img /\ q.live /\ ~q.lost /\ q.blk = Offset(p.img)[Len(p.img) + 1]
          /\ q.stage = "END" /\ ~q.play /\ q.heard = p.heard /\ q.recorded = p.recorded
      BY <1>1, <2>5, <2>7 DEF Moved, PlayerType
    <3>4. PilotsSound => p.heard = p.recorded
      <4> SUFFICES ASSUME PilotsSound PROVE p.heard = p.recorded
        OBVIOUS
      <4> DEFINE n == Place(p.img, i, k)
      <4>1. Hears(p, n)
        BY DEF Ended
      <4>2. n = Len(OnTape(p.img))
        BY <2>6, <2>7
      <4> HIDE DEF n
      <4>3. SignalOf(p.recorded, OnTape(p.img))
        BY <1>1, <1>2, SignalIs
      <4>4. p.recorded \in Seq(Sounds) /\ Len(p.recorded) = n
        BY <4>2, <4>3 DEF SignalOf
      <4>5. p.heard \in Seq(Sounds)
        BY <1>1 DEF PlayerType, Heard, Sounds
      <4>6. Len(p.heard) = n /\ \A m \in 1 .. n : p.heard[m] = p.recorded[m]
        BY <4>1 DEF Hears
      <4> DEFINE h == p.heard
                 c == p.recorded
                 R == Sounds
      <4>7. h \in Seq(R) /\ c \in Seq(R) /\ Len(h) = Len(c) /\ \A m \in 1 .. Len(h) : h[m] = c[m]
        BY <4>4, <4>5, <4>6
      <4> HIDE DEF h, c, R
      <4>8. h = c
        BY <4>7, SeqEqual
      <4> QED BY <4>8 DEF h, c
    <3>5. Stopped(q)
      BY <3>3, <3>4 DEF Stopped
    <3>6. OK(q)
      BY <1>1, <3>2, <3>3, <3>5 DEF OK
    <3>7. PilotsSound => Advances(q, p)
      BY <1>1, <3>3, <3>4 DEF Advances, HeardOf
    <3> QED BY <3>3, <3>6, <3>7 DEF Goes
  <2>8. ASSUME j <= Len(p.img), p.img[j].id \in Unsupported, q = [r EXCEPT !.lost = TRUE]
        PROVE  Goes(q, p)
    <3>1. TRUE \in BOOLEAN
      OBVIOUS
    <3>2. q \in PlayerType
      BY <2>5, <2>8, <3>1 DEF PlayerType
    <3>3. /\ q.img = p.img /\ q.live /\ q.lost /\ q.blk = Offset(p.img)[j]
          /\ q.stage = s.stage /\ q.left = s.left /\ q.play = p.play
          /\ q.heard = p.heard /\ q.recorded = p.recorded
      BY <1>1, <2>5, <2>8 DEF Moved, PlayerType
    <3>4. j \in 1 .. Len(p.img)
      BY <1>1, <1>2, <2>4, <2>8
    <3>5. Stray(q)
      BY <2>2, <2>8, <3>3, <3>4 DEF Stray
    <3>6. OK(q)
      BY <1>1, <3>2, <3>3, <3>5 DEF OK
    <3>7. Advances(q, p)
      BY <1>1, <3>3 DEF Advances, HeardOf
    <3> QED BY <3>3, <3>6, <3>7 DEF Goes
  <2>9. ASSUME j <= Len(p.img), p.img[j].id \in SoundIds, NEW l \in {0, 1},
               Begins(q, r, s.level, p.img[j], l), l = 0 => PilotLength(p.img[j]) = 0
        PROVE  Goes(q, p)
    <3>1. j \in 1 .. Len(p.img)
      BY <1>1, <1>2, <2>4, <2>9
    <3>2. Begins(q, r, After(p), p.img[j], l)
      BY <2>2, <2>9
    <3>3. l # 0 /\ k # 0 => Place(p.img, j, l) = Place(p.img, i, k) + 1
      <4>1. Place(p.img, j, 0 + 1) = Place(p.img, j, 0) + 1
        BY <1>2, <2>4, PlaceLater
      <4>2. 0 + 1 = 1
        OBVIOUS
      <4> QED BY <2>6, <2>9, <4>1, <4>2
    <3>4. (j = i /\ l = k + 1) \/ l \in {0, 1}
      BY <2>9
    <3> HIDE DEF Begins, Place, Moved, Goes, Ended
    <3> QED BY <1>1, <2>5, <2>9, <3>1, <3>2, <3>3, <3>4, Sounding
  <2> QED BY <2>3, <2>7, <2>8, <2>9 DEF r
<1> QED BY <1>3, <1>4, <1>5 DEF Steps

\* Where the player is does not depend on its button, its cycles and what was heard.
LEMMA OnSame ==
  ASSUME NEW p, NEW q, Controls(q, p), q.level = p.level, NEW b, NEW k, On(p, b, k)
  PROVE  On(q, b, k)
<1>1. \A m : PilotAt(p, b, m) => PilotAt(q, b, m)
  BY DEF PilotAt, Controls
<1>2. \A m : TableAt(p, b, m) => TableAt(q, b, m)
  BY DEF TableAt, Controls
<1>3. ReadSoFar(p, b) => ReadSoFar(q, b)
  BY DEF ReadSoFar, Controls
<1>4. \A m : BitAt(p, b, m) => BitAt(q, b, m)
  BY <1>3 DEF BitAt, Controls
<1>5. \A m : SampleAt(p, b, m) => SampleAt(q, b, m)
  BY <1>3 DEF SampleAt, Controls
<1>6. \A m : PauseAt(p, b, m) => PauseAt(q, b, m)
  BY DEF PauseAt, Controls
<1> QED BY <1>1, <1>2, <1>4, <1>5, <1>6 DEF On

\* The player after a wait state, before it looks whether an interval is over.
Waited(p, cost) ==
  [p EXCEPT !.cycles = Below(@ - cost), !.elapsed = IF p.stage = "END" THEN @ ELSE @ + cost]

\* What a wait state changes.
LEMMA WaitedIs ==
  ASSUME NEW p \in PlayerType, NEW cost \in Costs
  PROVE  LET q == Waited(p, cost)
         IN /\ q \in PlayerType
            /\ Controls(q, p) /\ q.level = p.level /\ q.heard = p.heard
            /\ q.img = p.img /\ q.live = p.live /\ q.blk = p.blk /\ q.play = p.play
            /\ q.recorded = p.recorded /\ q.lost = p.lost
            /\ p.stage # "END" => q.elapsed = p.elapsed + cost
            /\ p.cycles - cost >= -IdleBound => q.cycles = p.cycles - cost
<1> DEFINE c == Below(p.cycles - cost)
           e == IF p.stage = "END" THEN p.elapsed ELSE p.elapsed + cost
           q == Waited(p, cost)
<1>1. cost \in Nat /\ p.cycles \in Int /\ p.elapsed \in Nat /\ IdleBound \in Nat
  BY PlayerAssumption DEF PlayerType
<1>2. /\ c \in Int /\ e \in Nat
      /\ p.stage # "END" => e = p.elapsed + cost
  BY <1>1 DEF Below
<1>3. p.cycles - cost >= -IdleBound => c = p.cycles - cost
  BY <1>1 DEF Below
<1>4. q = [p EXCEPT !.cycles = c, !.elapsed = e]
  BY DEF Waited, PlayerType
<1> HIDE DEF c, e, q
<1>5. q \in PlayerType
  BY <1>2, <1>4 DEF PlayerType
<1>6. /\ q.cycles = c /\ q.elapsed = e /\ q.level = p.level /\ q.heard = p.heard
      /\ q.img = p.img /\ q.live = p.live /\ q.blk = p.blk /\ q.play = p.play
      /\ q.recorded = p.recorded /\ q.lost = p.lost /\ Controls(q, p)
  BY <1>4 DEF PlayerType, Controls
<1>8. /\ q \in PlayerType
      /\ Controls(q, p) /\ q.level = p.level /\ q.heard = p.heard
      /\ q.img = p.img /\ q.live = p.live /\ q.blk = p.blk /\ q.play = p.play
      /\ q.recorded = p.recorded /\ q.lost = p.lost
      /\ p.stage # "END" => q.elapsed = p.elapsed + cost
      /\ p.cycles - cost >= -IdleBound => q.cycles = p.cycles - cost
  BY <1>2, <1>3, <1>5, <1>6
<1> QED BY <1>8 DEF q

\* A wait state of a running tape.
LEMMA RunGoes ==
  ASSUME NEW p, OK(p), ~p.lost, p.play, NEW cost \in Costs
  PROVE  Goes(IF Waited(p, cost).cycles <= 0 THEN Tape_UpdateLevel(Waited(p, cost))
              ELSE Waited(p, cost), p)
<1> DEFINE w == Waited(p, cost)
           q == IF w.cycles <= 0 THEN Tape_UpdateLevel(w) ELSE w
<1>0. p \in PlayerType
  BY DEF OK
<1>1. /\ w \in PlayerType /\ Controls(w, p) /\ w.level = p.level /\ w.heard = p.heard
      /\ w.img = p.img /\ w.live = p.live /\ w.blk = p.blk /\ w.play = p.play
      /\ w.recorded = p.recorded /\ w.lost = p.lost
      /\ p.stage # "END" => w.elapsed = p.elapsed + cost
      /\ p.cycles - cost >= -IdleBound => w.cycles = p.cycles - cost
  BY <1>0, WaitedIs
<1> SUFFICES Goes(q, p)
  OBVIOUS
<1> HIDE DEF w
<1>2. w.stage = p.stage /\ w.count = p.count
  BY <1>1 DEF Controls
<1>3. \A r : Goes(r, w) => Goes(r, p)
  BY <1>1 DEF Goes, Advances, HeardOf
<1>4. ASSUME ~p.live PROVE Goes(q, p)
  <2>1. p.recorded = <<>>
    BY <1>4 DEF OK
  <2>2. Detaches(q, w)
    <3>1. CASE w.cycles <= 0
      BY <1>1, <1>4, <3>1, UpdateDead
    <3>2. CASE ~(w.cycles <= 0)
      BY <1>1, <1>4, <3>2 DEF Detaches
    <3> QED BY <3>1, <3>2
  <2> HIDE DEF q
  <2>3. OK(q) /\ q.img = p.img
    BY <1>1, <2>1, <2>2 DEF OK, Detaches
  <2>4. Advances(q, p)
    BY <1>1, <1>4, <2>1, <2>2 DEF Advances, HeardOf, Detaches
  <2> QED BY <2>3, <2>4 DEF Goes
<1>5. ASSUME p.live, Stopped(p) PROVE Goes(q, p)
  <2>1. p.img # <<>> /\ p.recorded = Signal(p.img)
    BY <1>5 DEF OK
  <2>3. CASE w.cycles <= 0
    <3>1. q = [w EXCEPT !.play = FALSE]
      BY <1>1, <1>2, <1>5, <2>3, ByStage DEF EndReached, Stopped
    <3> HIDE DEF q
    <3>2. q \in PlayerType
      BY <1>1, <3>1 DEF PlayerType
    <3>3. /\ q.img = p.img /\ q.live /\ q.lost = p.lost /\ q.blk = p.blk /\ q.stage = p.stage
          /\ ~q.play /\ q.heard = p.heard /\ q.recorded = p.recorded
      BY <1>1, <1>2, <1>5, <3>1 DEF PlayerType
    <3>4. Stopped(q)
      BY <1>5, <3>3 DEF Stopped
    <3>5. OK(q)
      BY <2>1, <3>2, <3>3, <3>4 DEF OK
    <3>6. PilotsSound => Advances(q, p)
      BY <1>5, <3>3 DEF Stopped, Advances, HeardOf
    <3> QED BY <3>3, <3>5, <3>6 DEF Goes
  <2>4. CASE ~(w.cycles <= 0)
    <3>1. q = w
      BY <2>4
    <3> HIDE DEF q
    <3>2. Stopped(q)
      BY <1>1, <1>2, <1>5, <3>1 DEF Stopped
    <3>3. OK(q)
      BY <1>1, <1>5, <2>1, <3>1, <3>2 DEF OK
    <3>4. Advances(q, p)
      BY <1>1, <1>5, <3>1 DEF Advances, HeardOf
    <3> QED BY <1>1, <3>1, <3>3, <3>4 DEF Goes
  <2> QED BY <2>3, <2>4
<1>6. ASSUME p.live, NEW i, NEW k, Reached(p, i, k) PROVE Goes(q, p)
  <2>1. p.img # <<>> /\ p.recorded = Signal(p.img)
    BY <1>6 DEF OK
  <2>2. Here(w, i, k)
    <3>1. Here(p, i, k)
      BY <1>6 DEF Reached
    <3>2. On(w, p.img[i], k)
      BY <1>1, <3>1, OnSame DEF Here
    <3> QED BY <1>1, <3>1, <3>2 DEF Here
  <2>3. PilotsSound => k # 0 /\ Hears(p, Place(p.img, i, k)) /\ (Unhurried => Timed(p))
    BY <1>6 DEF Reached
  <2>4. PilotsSound => k # 0 /\ Hears(w, Place(w.img, i, k))
    BY <1>1, <2>3 DEF Hears
  <2>5. ASSUME PilotsSound, Unhurried
        PROVE  /\ Counts(w) /\ w.cycles \in Int /\ w.cycles > -2 * LongestCost
               /\ w.stage = "PAUSE" /\ w.count = 2 => w.cycles > -LongestCost
    <3> DEFINE L == LongestCost
               d == Duration(p.heard)
               m == p.heard[Len(p.heard)].length
    <3>1. L \in Nat \ {0} /\ cost \in Nat \ {0} /\ cost <= L /\ IdleBound \in Nat
      BY <2>5, LongestType, PlayerAssumption
    <3>2. Timed(p)
      BY <2>3, <2>5
    <3>3. /\ p.heard # <<>> /\ p.elapsed = d - p.cycles /\ p.cycles <= m /\ p.cycles > -L
          /\ p.stage = "PAUSE" /\ p.count = 2 => p.cycles > 0
      BY <3>2 DEF Timed, Counts
    <3>4. p.heard \in Heard /\ p.cycles \in Int /\ p.elapsed \in Nat
      BY <1>0 DEF PlayerType
    <3>5. d \in Nat /\ m \in Nat
      <4>1. d \in Nat
        <5>1. PICK f : Duration(p.heard) = f[Len(p.heard)] /\ \A x \in 0 .. Len(p.heard) : f[x] \in Nat
          BY <3>4, DurationIs
        <5>2. Len(p.heard) \in Nat
          BY <3>4 DEF Heard
        <5> QED BY <5>1, <5>2
      <4>2. m \in Nat
        <5> DEFINE R == [level : BOOLEAN, length : Nat]
                   h == p.heard
        <5>1. h \in Seq(R) /\ h # <<>> /\ \A x \in R : x.length \in Nat
          BY <3>3, <3>4 DEF Heard
        <5> HIDE DEF R, h
        <5>2. h[Len(h)] \in R
          BY <5>1
        <5>3. h[Len(h)].length \in Nat
          BY <5>1, <5>2
        <5> QED BY <5>3 DEF h
      <4> QED BY <4>1, <4>2
    <3>6. p.stage # "END"
      <4>1. On(p, p.img[i], k) /\ p.img[i] \in Blocks /\ k # 0
        BY <1>6, <2>3, <2>5, HereType DEF Reached
      <4> QED BY <4>1, KindAt
    <3>7. IdleBound >= 2 * L - 1
      BY <2>5 DEF Unhurried
    <3> HIDE DEF L, d, m
    <3>8. p.cycles - cost >= -IdleBound
      BY <3>1, <3>3, <3>4, <3>7
    <3>9. w.cycles = p.cycles - cost /\ w.elapsed = p.elapsed + cost
      BY <1>1, <3>6, <3>8
    <3>10. w.cycles \in Int /\ w.cycles > -2 * L /\ w.elapsed = d - w.cycles /\ w.cycles <= m
           /\ (w.stage = "PAUSE" /\ w.count = 2 => w.cycles > -L)
      BY <1>2, <3>1, <3>3, <3>4, <3>5, <3>9
    <3>11. Counts(w)
      BY <1>1, <3>3, <3>10 DEF Counts, d, m
    <3> QED BY <3>10, <3>11 DEF L
  <2>6. CASE w.cycles <= 0
    <3>1. PilotsSound /\ Unhurried => Due(w)
      <4> SUFFICES ASSUME PilotsSound, Unhurried PROVE Due(w)
        OBVIOUS
      <4> DEFINE L == LongestCost
      <4>1. L \in Nat \ {0}
        BY LongestType
      <4>2. w.cycles \in Int /\ w.cycles > -2 * L /\ w.cycles <= 0
        BY <2>5, <2>6
      <4> HIDE DEF L
      <4>3. w.cycles \in -2 * L + 1 .. 0
        BY <4>1, <4>2
      <4> QED BY <2>5, <4>3 DEF Due, L
    <3>2. Ended(w, i, k)
      BY <1>1, <2>1, <2>2, <2>4, <3>1 DEF Ended
    <3>3. Goes(Tape_UpdateLevel(w), w)
      BY <3>2, HereGoes
    <3> QED BY <1>3, <2>6, <3>3
  <2>7. CASE ~(w.cycles <= 0)
    <3>1. q = w
      BY <2>7
    <3> HIDE DEF q
    <3>2. PilotsSound /\ Unhurried => Timed(w)
      <4> SUFFICES ASSUME PilotsSound, Unhurried PROVE Timed(w)
        OBVIOUS
      <4> DEFINE L == LongestCost
      <4>1. L \in Nat \ {0}
        BY LongestType
      <4>2. w.cycles \in Int /\ Counts(w)
        BY <2>5
      <4> HIDE DEF L
      <4>3. w.cycles > -L /\ w.cycles > 0
        BY <2>7, <4>1, <4>2
      <4> QED BY <4>2, <4>3 DEF Timed, L
    <3>3. Reached(w, i, k)
      BY <1>1, <2>2, <2>4, <3>2 DEF Reached
    <3>4. OK(q)
      BY <1>1, <1>6, <2>1, <3>1, <3>3 DEF OK
    <3>5. Advances(q, p)
      BY <1>1, <1>6, <3>1 DEF Advances, HeardOf
    <3> QED BY <1>1, <3>1, <3>4, <3>5 DEF Goes
  <2> QED BY <2>6, <2>7
<1>7. p.live => Stopped(p) \/ \E i, k : Reached(p, i, k)
  BY DEF OK, Stray
<1> HIDE DEF q
<1> QED BY <1>4, <1>5, <1>6, <1>7

\* A rewound player has begun the lead-in.
LEMMA RewindSounds ==
  ASSUME NEW p \in PlayerType, NEW file \in Files, p.img = Image(file), p.live,
         p.recorded = Signal(p.img), p.blk = 0, ~p.level, p.cycles = 0, ~p.play,
         p.heard = <<>>, p.elapsed = 0, ~p.lost
  PROVE  LET q == Tape_GetNextBlock(p)
         IN /\ OK(q) /\ q.img = p.img /\ q.recorded = p.recorded /\ q.live /\ ~q.play /\ ~q.lost
            /\ q.recorded # <<>> /\ q.heard = <<q.recorded[1]>>
<1> DEFINE q == Tape_GetNextBlock(p)
           b == p.img[1]
           r == AtBlock(p, 1)
           iv == Recorded(b)[1]
           n == iv.length
           lv == LevelOf(iv, FALSE)
           s == OnTape(p.img)
<1>1. /\ p.img \in Inserted /\ 1 \in 1 .. Len(p.img) /\ p.img # <<>> /\ ~Silent(b)
      /\ b.id = Silence /\ b.id \in SoundIds /\ b.id \notin Unsupported
  BY LeadInHere
<1>2. p.img \in Seq(Blocks) /\ Len(p.img) \in Nat /\ b \in Blocks
  BY <1>1, InsertedType
<1>3. Offset(p.img)[1] = 0 /\ 1 \in 1 .. Len(p.img) + 1
  BY <1>1, <1>2, OffsetDef
<1>4. Finds(q, p, 1)
  BY <1>3, NextBlock
<1> HIDE DEF q
<1>5. PICK j \in 1 .. Len(p.img) + 1 :
        /\ \A k \in 1 .. j - 1 : Silent(p.img[k])
        /\ \/ j = Len(p.img) + 1 /\ q = AtBlock(p, j)
           \/ /\ j <= Len(p.img) /\ p.img[j].id \in Unsupported
              /\ q = [AtBlock(p, j) EXCEPT !.lost = TRUE]
           \/ /\ j <= Len(p.img) /\ p.img[j].id \in SoundIds
              /\ \E k \in {0, 1} : /\ Begins(q, AtBlock(p, j), p.level, p.img[j], k)
                                   /\ k = 0 => PilotLength(p.img[j]) = 0
  BY <1>4 DEF Finds
<1>6. j = 1
  <2> SUFFICES ASSUME j # 1 PROVE FALSE
    OBVIOUS
  <2>1. 1 \in 1 .. j - 1
    BY <1>2
  <2> QED BY <1>1, <1>5, <2>1
<1>7. PICK l \in {0, 1} : Begins(q, r, p.level, b, l)
  <2>1. ~(1 = Len(p.img) + 1)
    BY <1>1, <1>2
  <2> QED BY <1>1, <1>5, <1>6, <2>1
<1>8. l = 1
  <2> SUFFICES ASSUME l = 0 PROVE FALSE
    OBVIOUS
  <2>1. On(q, b, 0)
    BY <1>7 DEF Begins
  <2>2. b.id \in WithPilot
    BY <1>2, <2>1, OnZero
  <2> QED BY <1>1, <2>2 DEF WithPilot, Silence, Std, Turbo, Tone
<1>9. /\ r.blk = 0 /\ r.img = p.img /\ r.live /\ r.play = p.play /\ r.recorded = p.recorded
      /\ r.elapsed = 0 /\ ~r.lost /\ r.cycles = 0 /\ r.heard = <<>>
  <2>1. AtBlock(p, 1).blk = Offset(p.img)[1]
    BY <1>3, AtBlockType
  <2>2. r.blk = 0
    BY <1>3, <2>1
  <2> QED BY <2>2 DEF AtBlock, PlayerType
<1>10. p.level = FALSE
  BY DEF PlayerType
<1> HIDE DEF r
<1>11. /\ q \in PlayerType /\ On(q, b, 1)
       /\ q.img = p.img /\ q.live /\ q.blk = 0 /\ ~q.play /\ q.recorded = p.recorded
       /\ q.elapsed = 0 /\ ~q.lost /\ q.level = lv /\ q.cycles = 0 + n
       /\ q.heard = Append(<<>>, [level |-> lv, length |-> n])
  <2>1. Begins(q, r, FALSE, b, 1)
    BY <1>7, <1>8, <1>10
  <2>2. q \in PlayerType /\ Frame(q, r) /\ On(q, b, 1) /\ Plays(q, r, lv, n)
    <3>1. /\ q \in PlayerType /\ Frame(q, r) /\ On(q, b, 1)
          /\ 1 # 0 => Plays(q, r, LevelOf(Recorded(b)[1], FALSE), Recorded(b)[1].length)
      BY <2>1 DEF Begins
    <3>2. 1 # 0
      OBVIOUS
    <3> QED BY <3>1, <3>2
  <2> HIDE DEF lv, n, b
  <2>3. /\ q.img = p.img /\ q.live /\ q.blk = 0 /\ ~q.play /\ q.recorded = p.recorded
        /\ q.elapsed = 0 /\ ~q.lost
    BY <1>9, <2>2 DEF Frame
  <2>4. /\ q.level = lv /\ q.cycles = 0 + n
        /\ q.heard = Append(<<>>, [level |-> lv, length |-> n])
    BY <1>9, <2>2 DEF Plays
  <2> QED BY <2>2, <2>3, <2>4
<1>12. /\ 1 \in 1 .. Len(Recorded(b))
       /\ iv.kind = "hold" => n = CyclesPerMs
       /\ iv.kind = "low" => 1 > 1
  BY <1>2, <1>11, KindAt
<1>13. Recorded(b) \in Seq(Intervals) /\ iv \in Intervals
  <2>1. Recorded(b) \in Seq(Intervals)
    BY <1>2, RecordedIs
  <2> QED BY <1>12, <2>1
<1>14. n \in Nat /\ lv \in BOOLEAN
  <2>1. n \in Nat
    BY <1>13 DEF Intervals
  <2>2. FALSE \in BOOLEAN
    OBVIOUS
  <2> QED BY <2>1, <2>2, LevelType
<1>15. Place(p.img, 1, 1) = 1 /\ 1 \in 1 .. Len(s) /\ s[1] = iv
  <2>1. Place(p.img, 1, 1) \in 1 .. Len(s) /\ s[Place(p.img, 1, 1)] = iv
    BY <1>1, <1>2, <1>12, Placed
  <2>2. Lays(Parts(p.img), Starts(Parts(p.img)))
    BY <1>2, PartsOf
  <2> DEFINE a == Starts(Parts(p.img))[1]
  <2>3. a = 0
    BY <2>2 DEF Lays
  <2> HIDE DEF a
  <2>4. a + 1 = 1
    BY <2>3
  <2>5. Place(p.img, 1, 1) = 1
    BY <2>4 DEF Place, a
  <2> QED BY <2>1, <2>5
<1>16. SignalOf(p.recorded, s)
  BY <1>2, SignalIs
<1> DEFINE x == [level |-> lv, length |-> n]
<1>17. x \in Sounds /\ x.length = n /\ x.level = lv
  BY <1>14 DEF Sounds
<1>18. /\ p.recorded \in Seq(Sounds) /\ Len(p.recorded) = Len(s) /\ 1 \in 1 .. Len(p.recorded)
       /\ p.recorded[1].length = n /\ p.recorded[1].level = lv
  <2> HIDE DEF s
  <2>1. s # <<>>
    BY <1>15
  <2>2. s[1] = iv
    BY <1>15
  <2> HIDE DEF iv
  <2> QED BY <1>15, <1>16, <2>1, <2>2 DEF SignalOf
<1> HIDE DEF s, iv, lv
<1>19. p.recorded[1] = x /\ p.recorded # <<>>
  <2> DEFINE R == Sounds
             c == p.recorded
  <2>1. c \in Seq(R) /\ 1 \in 1 .. Len(c)
    BY <1>18
  <2> HIDE DEF R, c
  <2>2. c[1] \in R /\ c # <<>>
    BY <2>1
  <2> DEFINE y == c[1]
  <2>3. y \in Sounds /\ y.level = lv /\ y.length = n
    BY <1>18, <2>2 DEF R, c
  <2> HIDE DEF y
  <2>4. y = [level |-> y.level, length |-> y.length]
    BY <2>3 DEF Sounds
  <2>5. y = x
    BY <2>3, <2>4
  <2> QED BY <2>2, <2>5 DEF y, c
<1>20. q.heard = Append(<<>>, x)
  BY <1>11
<1> HIDE DEF x
<1>21. q.heard = <<x>> /\ Len(q.heard) = 1 /\ q.heard[1] = x
  BY <1>20
<1>22. Hears(q, 1)
  BY <1>11, <1>17, <1>18, <1>19, <1>21 DEF Hears
<1>23. Here(q, 1, 1)
  BY <1>1, <1>3, <1>11 DEF Here
<1>24. Unhurried => Timed(q)
  <2> SUFFICES ASSUME Unhurried PROVE Timed(q)
    OBVIOUS
  <2>1. <<>> \in Heard /\ Duration(<<>>) = 0
    BY DurationEmpty DEF Heard
  <2>2. Duration(q.heard) = 0 + n
    BY <1>17, <1>20, <2>1, DurationAppend
  <2>3. LongestCost \in Nat \ {0} /\ CyclesPerMs >= 2 * LongestCost
    BY LongestType DEF Unhurried
  <2>4. n = CyclesPerMs
    <3>1. iv.kind \in {"hold", "low"}
      <4>1. b = Pause(LeadIn) /\ LeadIn \in HalfWords
        BY ImageBlocks, TapeAssumption, PlayerAssumption DEF HalfWords
      <4>2. DOMAIN Recorded(b) = 1 .. Len(Recorded(b))
        BY <1>13
      <4> HIDE DEF b
      <4>3. \A k \in DOMAIN Recorded(b) : Recorded(b)[k].kind \in {"hold", "low"}
        BY <4>1, PauseBlock
      <4> QED BY <1>12, <4>2, <4>3 DEF iv
    <3> QED BY <1>12, <3>1
  <2>5. n > 0 /\ n > -LongestCost
    BY <1>14, <2>3, <2>4
  <2> HIDE DEF n
  <2>6. Counts(q)
    <3>1. q.elapsed = Duration(q.heard) - q.cycles
      BY <1>11, <1>14, <2>2
    <3>2. q.cycles <= q.heard[Len(q.heard)].length
      BY <1>11, <1>14, <1>17, <1>21
    <3> QED BY <1>21, <3>1, <3>2 DEF Counts
  <2>7. q.cycles = n
    BY <1>11, <1>14
  <2> QED BY <2>5, <2>6, <2>7 DEF Timed
<1>25. Reached(q, 1, 1)
  <2>1. Place(q.img, 1, 1) = 1
    BY <1>11, <1>15
  <2> QED BY <1>11, <1>22, <1>23, <1>24, <2>1 DEF Reached
<1>26. OK(q)
  BY <1>1, <1>11, <1>25 DEF OK
<1>27. /\ OK(q) /\ q.img = p.img /\ q.recorded = p.recorded /\ q.live /\ ~q.play /\ ~q.lost
       /\ q.recorded # <<>> /\ q.heard = <<q.recorded[1]>>
  BY <1>11, <1>19, <1>21, <1>26
<1> QED BY <1>27 DEF q

(***************************************************************************)
(* What the other actions make of the player.                              *)
(***************************************************************************)
LEMMA PressKeeps ==
  ASSUME NEW p, OK(p), ~p.lost, NEW v \in BOOLEAN
  PROVE  LET q == [p EXCEPT !.play = v]
         IN /\ OK(q) /\ q.img = p.img /\ q.play = v /\ q.recorded = p.recorded
            /\ HeardOf(q) = HeardOf(p)
<1> DEFINE q == [p EXCEPT !.play = v]
<1>1. p \in PlayerType
  BY DEF OK
<1>2. /\ q \in PlayerType /\ Controls(q, p) /\ q.level = p.level /\ q.heard = p.heard
      /\ q.img = p.img /\ q.live = p.live /\ q.blk = p.blk /\ q.play = v
      /\ q.recorded = p.recorded /\ q.lost = p.lost /\ q.cycles = p.cycles /\ q.elapsed = p.elapsed
  BY <1>1 DEF PlayerType, Controls
<1> HIDE DEF q
<1>3. Stopped(p) => Stopped(q)
  BY <1>2 DEF Stopped, Controls
<1>4. ASSUME NEW i, NEW k, Reached(p, i, k) PROVE Reached(q, i, k)
  <2>1. Here(q, i, k)
    <3>1. Here(p, i, k)
      BY <1>4 DEF Reached
    <3>2. On(q, p.img[i], k)
      BY <1>2, <3>1, OnSame DEF Here
    <3> QED BY <1>2, <3>1, <3>2 DEF Here
  <2>2. \A n : Hears(p, n) => Hears(q, n)
    BY <1>2 DEF Hears
  <2>3. Timed(p) => Timed(q)
    BY <1>2 DEF Timed, Counts, Controls
  <2> QED BY <1>2, <1>4, <2>1, <2>2, <2>3 DEF Reached
<1>5. p.live => Stopped(p) \/ \E i, k : Reached(p, i, k)
  BY DEF OK, Stray
<1>6. OK(q)
  BY <1>2, <1>3, <1>4, <1>5 DEF OK
<1>7. /\ OK(q) /\ q.img = p.img /\ q.play = v /\ q.recorded = p.recorded
      /\ HeardOf(q) = HeardOf(p)
  BY <1>2, <1>6 DEF HeardOf
<1> QED BY <1>7 DEF q

\* A player whose image is freed.
LEMMA DetachKeeps ==
  ASSUME NEW p, OK(p), NEW img \in Inserted
  PROVE  LET q == [p EXCEPT !.img = img, !.live = FALSE, !.recorded = <<>>]
         IN /\ OK(q) /\ q.img = img /\ q.play = p.play /\ q.recorded = <<>> /\ HeardOf(q) = <<>>
<1> DEFINE q == [p EXCEPT !.img = img, !.live = FALSE, !.recorded = <<>>]
<1>1. p \in PlayerType /\ FALSE \in BOOLEAN /\ <<>> \in Signals \cup {<<>>}
  BY DEF OK
<1>2. q \in PlayerType
  BY <1>1 DEF PlayerType
<1>3. q.img = img /\ ~q.live /\ q.play = p.play /\ q.recorded = <<>>
  BY <1>1 DEF PlayerType
<1> HIDE DEF q
<1>4. OK(q) /\ q.img = img /\ q.play = p.play /\ q.recorded = <<>> /\ HeardOf(q) = <<>>
  BY <1>2, <1>3 DEF OK, HeardOf
<1> QED BY <1>4 DEF q

\* The player as Tape_Rewind leaves it to Tape_GetNextBlock.
Rewound(p, img) ==
  [p EXCEPT !.img = img, !.live = img # <<>>, !.recorded = Signal(img),
            !.blk = 0, !.level = FALSE,
            !.cycles = 0, !.play = FALSE, !.heard = <<>>, !.elapsed = 0]
\* q has begun to play a tape from its start.
Started(q) ==
  /\ OK(q) /\ ~q.play
  /\ HeardOf(q) = IF q.recorded = <<>> THEN <<>> ELSE <<q.recorded[1]>>

\* What Tape_Rewind sets.
LEMMA RewoundIs ==
  ASSUME NEW p, OK(p), NEW img \in Inserted
  PROVE  LET q == Rewound(p, img)
         IN /\ q \in PlayerType /\ q.img = img /\ q.live = (img # <<>>) /\ q.recorded = Signal(img)
            /\ q.blk = 0 /\ ~q.level /\ q.cycles = 0 /\ ~q.play /\ q.heard = <<>>
            /\ q.elapsed = 0 /\ q.lost = p.lost
<1> DEFINE q == Rewound(p, img)
           v == (img # <<>>)
           sig == Signal(img)
<1>1. p \in PlayerType /\ FALSE \in BOOLEAN /\ v \in BOOLEAN /\ 0 \in Nat /\ 0 \in Int
  BY DEF OK
<1>2. sig \in Signals \cup {<<>>}
  BY SignalNone DEF Inserted, Signals
<1>3. <<>> \in Heard
  BY DEF Heard
<1>4. q = [p EXCEPT !.img = img, !.live = v, !.recorded = sig, !.blk = 0, !.level = FALSE,
                    !.cycles = 0, !.play = FALSE, !.heard = <<>>, !.elapsed = 0]
  BY DEF Rewound
<1> HIDE DEF q, v, sig
<1>5. q \in PlayerType
  BY <1>1, <1>2, <1>3, <1>4 DEF PlayerType
<1>6. /\ q.img = img /\ q.live = v /\ q.recorded = sig
      /\ q.blk = 0 /\ ~q.level /\ q.cycles = 0 /\ ~q.play /\ q.heard = <<>>
      /\ q.elapsed = 0 /\ q.lost = p.lost
  BY <1>1, <1>4 DEF PlayerType
<1>7. /\ q \in PlayerType /\ q.img = img /\ q.live = (img # <<>>) /\ q.recorded = Signal(img)
      /\ q.blk = 0 /\ ~q.level /\ q.cycles = 0 /\ ~q.play /\ q.heard = <<>>
      /\ q.elapsed = 0 /\ q.lost = p.lost
  BY <1>5, <1>6 DEF v, sig
<1> QED BY <1>7 DEF q

\* A rewound image has begun with its first interval.
LEMMA RewindImage ==
  ASSUME NEW p, OK(p), ~p.lost, NEW file \in Files
  PROVE  LET q == Tape_GetNextBlock(Rewound(p, Image(file)))
         IN Started(q) /\ q.img = Image(file) /\ q.recorded = Signal(Image(file))
<1> DEFINE img == Image(file)
           r == Rewound(p, img)
           q == Tape_GetNextBlock(r)
<1>1. img \in Inserted /\ img # <<>>
  BY LeadInHere
<1>2. /\ r \in PlayerType /\ r.img = img /\ r.live /\ r.recorded = Signal(img)
      /\ r.blk = 0 /\ ~r.level /\ r.cycles = 0 /\ ~r.play /\ r.heard = <<>>
      /\ r.elapsed = 0 /\ ~r.lost
  <2> HIDE DEF img
  <2>1. /\ r \in PlayerType /\ r.img = img /\ r.live = (img # <<>>) /\ r.recorded = Signal(img)
        /\ r.blk = 0 /\ ~r.level /\ r.cycles = 0 /\ ~r.play /\ r.heard = <<>>
        /\ r.elapsed = 0 /\ r.lost = p.lost
    BY <1>1, RewoundIs
  <2> HIDE DEF r
  <2> QED BY <1>1, <2>1
<1> HIDE DEF r
<1>3. r.img = Image(file) /\ r.recorded = Signal(r.img)
  BY <1>2
<1>4. /\ OK(q) /\ q.img = r.img /\ q.recorded = r.recorded /\ q.live /\ ~q.play /\ ~q.lost
      /\ q.recorded # <<>> /\ q.heard = <<q.recorded[1]>>
  BY <1>2, <1>3, RewindSounds
<1> HIDE DEF q
<1>5. Started(q) /\ q.img = img /\ q.recorded = Signal(img)
  BY <1>2, <1>4 DEF Started, HeardOf
<1> QED BY <1>5 DEF q, r

\* Without an image nothing begins.
LEMMA RewindNone ==
  ASSUME NEW p, OK(p), NEW v \in BOOLEAN
  PROVE  LET q == [Rewound(p, <<>>) EXCEPT !.lost = v]
         IN Started(q) /\ q.img = <<>> /\ q.recorded = <<>>
<1> DEFINE r == Rewound(p, <<>>)
           q == [r EXCEPT !.lost = v]
<1>1. <<>> \in Inserted
  BY DEF Inserted
<1>2. r \in PlayerType /\ r.img = <<>> /\ ~r.live /\ r.recorded = <<>> /\ ~r.play
  BY <1>1, RewoundIs, SignalNone
<1> HIDE DEF r
<1>3. q \in PlayerType /\ q.img = <<>> /\ ~q.live /\ q.recorded = <<>> /\ ~q.play
  BY <1>2 DEF PlayerType
<1> HIDE DEF q
<1>4. Started(q) /\ q.img = <<>> /\ q.recorded = <<>>
  BY <1>3 DEF Started, OK, HeardOf
<1> QED BY <1>4 DEF q, r

(***************************************************************************)
(* The invariant of the specification, and what each action does to the    *)
(* signal that is heard.                                                   *)
(***************************************************************************)
Inv == OK(Player) /\ end \in Nat /\ motor \in BOOLEAN /\ finished \in BOOLEAN

SignalStep == [Player_Signal!Next]_(Player_Signal!state)
\* What an action must show.
Keeps == Inv' /\ (PilotsSound => SignalStep)

\* The fields of the player.
LEMMA PlayerIs ==
  /\ Player.img = image /\ Player.live = live /\ Player.blk = blk /\ Player.stage = stage
  /\ Player.level = level /\ Player.pulse = pulse /\ Player.zero = zero /\ Player.one = one
  /\ Player.count = count /\ Player.left = left /\ Player.byte = byte /\ Player.shift = shift
  /\ Player.pos = pos /\ Player.cycles = cycles /\ Player.play = play
  /\ Player.recorded = recorded /\ Player.heard = heard /\ Player.elapsed = elapsed
  /\ Player.lost = lost
BY DEF Player

\* Store makes its record the next player.
LEMMA PlayerNext ==
  ASSUME NEW p, OK(p), Store(p), image' = p.img
  PROVE  Player' = p
<1>1. p \in PlayerType
  BY DEF OK
<1>2. p = [img |-> p.img, live |-> p.live, blk |-> p.blk, stage |-> p.stage, level |-> p.level,
           pulse |-> p.pulse, zero |-> p.zero, one |-> p.one, count |-> p.count, left |-> p.left,
           byte |-> p.byte, shift |-> p.shift, pos |-> p.pos, cycles |-> p.cycles,
           play |-> p.play, recorded |-> p.recorded, heard |-> p.heard, elapsed |-> p.elapsed,
           lost |-> p.lost]
  BY <1>1 DEF PlayerType
<1> QED BY <1>2 DEF Player, Store

\* The abstract state after an action that leaves the player as p.
LEMMA SignalNext ==
  ASSUME NEW p, OK(p), Store(p), image' = p.img
  PROVE  /\ recorded' = p.recorded /\ play' = p.play
         /\ (IF live THEN heard ELSE <<>>)' = HeardOf(p)
         /\ OK(Player)'
BY PlayerNext DEF Store, HeardOf

\* The abstract state.
LEMMA SignalHere == (IF live THEN heard ELSE <<>>) = HeardOf(Player)
BY PlayerIs DEF HeardOf

\* Initially.
LEMMA InitKeeps == Init => Inv /\ Player_Signal!Init
<1> SUFFICES ASSUME Init PROVE Inv /\ Player_Signal!Init
  OBVIOUS
<1>1. /\ image = <<>> /\ end = 0 /\ live = FALSE /\ blk = 0 /\ stage = "END"
      /\ level = FALSE /\ pulse = 0 /\ zero = 0 /\ one = 0 /\ count = 0 /\ left = 0
      /\ byte = 1 /\ shift = <<>> /\ pos = 1 /\ cycles = 0 /\ play = FALSE
      /\ motor = FALSE /\ recorded = <<>> /\ heard = <<>> /\ elapsed = 0 /\ lost = FALSE
      /\ finished = FALSE
  BY DEF Init
<1>2. /\ <<>> \in Inserted /\ FALSE \in BOOLEAN /\ 0 \in Nat /\ "END" \in Stages /\ 0 \in Word
      /\ 1 \in Nat \ {0} /\ 0 \in Int /\ <<>> \in Signals \cup {<<>>}
  BY WordsType DEF Inserted, Stages
<1>3. <<>> \in Shifts /\ <<>> \in Heard
  BY PlayerAssumption DEF Shifts, Heard
<1>4. Player \in PlayerType
  BY <1>1, <1>2, <1>3 DEF Player, PlayerType
<1>5. Inv
  BY <1>1, <1>4, PlayerIs DEF Inv, OK
<1>6. Player_Signal!Init
  BY <1>1 DEF Player_Signal!Init
<1> QED BY <1>5, <1>6

\* A wait state is an Advance, a Finish or no step of the signal.
LEMMA RunKeeps == ASSUME Inv, NEW cost \in Costs, Run(cost) PROVE Keeps
<1> DEFINE w == Waited(Player, cost)
           q == IF w.cycles <= 0 THEN Tape_UpdateLevel(w) ELSE w
<1>1. CanRun /\ Store(q) /\ ByTape /\ UNCHANGED <<tape, motor>>
  BY PlayerIs DEF Run, Waited
<1>2. OK(Player) /\ ~Player.lost /\ Player.play
  BY <1>1, PlayerIs DEF Inv, CanRun
<1>3. Goes(q, Player)
  BY <1>2, RunGoes
<1> HIDE DEF q
<1>4. OK(q) /\ image' = q.img /\ (PilotsSound => Advances(q, Player))
  BY <1>1, <1>3, PlayerIs DEF Goes, tape
<1>5. /\ recorded' = q.recorded /\ play' = q.play /\ OK(Player)'
      /\ (IF live THEN heard ELSE <<>>)' = HeardOf(q)
  BY <1>1, <1>4, SignalNext
<1>6. Inv'
  BY <1>1, <1>5 DEF Inv, tape, ByTape
<1>7. ASSUME PilotsSound PROVE SignalStep
  <2> DEFINE h == IF live THEN heard ELSE <<>>
  <2>1. h = HeardOf(Player) /\ h' = HeardOf(q)
    BY <1>5, SignalHere
  <2>2. play /\ play' \in BOOLEAN /\ finished \in BOOLEAN /\ finished' = (finished \/ ~play')
    BY <1>1, <1>4, <1>5 DEF Inv, CanRun, OK, PlayerType, ByTape
  <2>3. /\ recorded' = recorded
        /\ \/ h' = h /\ play' = play
           \/ Len(h) < Len(recorded) /\ play' = play /\ h' = Append(h, recorded[Len(h) + 1])
           \/ h' = h /\ h = recorded /\ ~play'
    BY <1>4, <1>5, <1>7, <2>1, PlayerIs DEF Advances
  <2>4. play' = play => finished' = finished
    BY <2>2
  <2>5. ~play' => finished' = TRUE /\ play' = FALSE
    BY <2>2
  <2> QED BY <2>2, <2>3, <2>4, <2>5 DEF SignalStep, Player_Signal!Next, Player_Signal!state,
                                        Player_Signal!Advance, Player_Signal!Finish
<1> QED BY <1>6, <1>7 DEF Keeps

\* An action that starts a tape, or none, is an Insert or a Rewind of the signal.
LEMMA StartKeeps ==
  ASSUME Inv, NEW p, Started(p), Store(p), ByHand, image' = p.img, end' \in Nat, motor' \in BOOLEAN,
         p.recorded \in Signals \/ p.recorded = recorded
  PROVE  Keeps
<1> DEFINE h == IF live THEN heard ELSE <<>>
<1>1. OK(p) /\ ~p.play /\ p.play \in BOOLEAN
  BY DEF Started, OK, PlayerType
<1>2. recorded' = p.recorded /\ play' = p.play /\ OK(Player)' /\ h' = HeardOf(p)
  BY <1>1, SignalNext
<1>3. Inv'
  BY <1>2 DEF Inv, ByHand
<1>4. Player_Signal!ByHand(FALSE)
  BY <1>1, <1>2 DEF ByHand, Player_Signal!ByHand
<1>5. h' = Player_Signal!Start(recorded')
  BY <1>2 DEF Started, Player_Signal!Start
<1>6. SignalStep
  <2>1. CASE p.recorded \in Signals
    BY <1>2, <1>4, <1>5, <2>1 DEF SignalStep, Player_Signal!Next, Player_Signal!Insert
  <2>2. CASE p.recorded = recorded
    <3>1. recorded' = recorded /\ h' = Player_Signal!Start(recorded)
      BY <1>2, <1>5, <2>2
    <3> QED BY <1>4, <3>1 DEF SignalStep, Player_Signal!Next, Player_Signal!Rewind
  <2> QED BY <2>1, <2>2
<1> QED BY <1>3, <1>6 DEF Keeps

\* So is one that detaches the player from its image an Eject.
LEMMA EjectKeeps ==
  ASSUME Inv, NEW img \in Inserted, Store(Detached), image' = img, end' \in Nat,
         motor' \in BOOLEAN, UNCHANGED finished
  PROVE  Keeps
<1> DEFINE h == IF live THEN heard ELSE <<>>
           p == [Player EXCEPT !.img = img, !.live = FALSE, !.recorded = <<>>]
<1>1. OK(Player)
  BY DEF Inv
<1>2. OK(p) /\ p.img = img /\ p.play = play /\ p.recorded = <<>> /\ HeardOf(p) = <<>>
  BY <1>1, PlayerIs, DetachKeeps
<1>3. Store(p)
  BY DEF Store, Detached, Player
<1> HIDE DEF p
<1>4. recorded' = p.recorded /\ play' = p.play /\ OK(Player)' /\ h' = HeardOf(p)
  BY <1>2, <1>3, SignalNext
<1>5. Inv'
  BY <1>4 DEF Inv
<1>6. SignalStep
  BY <1>2, <1>4 DEF SignalStep, Player_Signal!Next, Player_Signal!Eject
<1> QED BY <1>5, <1>6 DEF Keeps

\* Pressing or releasing the button is a Press, or no step.
LEMMA PressStep ==
  ASSUME Inv, NEW v \in BOOLEAN, Store([Player EXCEPT !.play = v]), ~lost, ByHand,
         UNCHANGED tape, motor' \in BOOLEAN
  PROVE  Keeps
<1> DEFINE h == IF live THEN heard ELSE <<>>
           p == [Player EXCEPT !.play = v]
<1>1. OK(Player) /\ ~Player.lost
  BY PlayerIs DEF Inv
<1>2. OK(p) /\ p.img = image /\ p.play = v /\ p.recorded = recorded /\ HeardOf(p) = h
  <2>1. /\ OK(p) /\ p.img = Player.img /\ p.play = v /\ p.recorded = Player.recorded
        /\ HeardOf(p) = HeardOf(Player)
    BY <1>1, PressKeeps
  <2> HIDE DEF p
  <2> QED BY <2>1, PlayerIs, SignalHere
<1> HIDE DEF p
<1>3. Store(p) /\ image' = p.img
  BY <1>2 DEF p, tape
<1>4. recorded' = p.recorded /\ play' = p.play /\ OK(Player)' /\ h' = HeardOf(p)
  BY <1>2, <1>3, SignalNext
<1>5. Inv'
  BY <1>4 DEF Inv, tape, ByHand
<1>6. recorded' = recorded /\ play' = v /\ h' = h
  BY <1>2, <1>4
<1>7. Player_Signal!ByHand(v)
  BY <1>6 DEF ByHand, Player_Signal!ByHand
<1>8. SignalStep
  BY <1>6, <1>7 DEF h, SignalStep, Player_Signal!Next, Player_Signal!Press
<1> QED BY <1>5, <1>8 DEF Keeps

\* A step of the motor is none.
LEMMA StillKeeps == ASSUME Inv, UNCHANGED <<tape, player, finished>>, motor' \in BOOLEAN PROVE Keeps
<1>1. Player' = Player /\ end' = end
  BY DEF tape, player, Player
<1>2. Inv'
  BY <1>1 DEF Inv
<1>3. SignalStep
  BY DEF SignalStep, player, Player_Signal!state
<1> QED BY <1>2, <1>3 DEF Keeps

\* The end of an image.
LEMMA EndType == ASSUME NEW img \in Seq(Blocks) PROVE End(img) \in Nat
<1>1. Len(img) + 1 \in 1 .. Len(img) + 1
  OBVIOUS
<1> QED BY <1>1, OffsetType DEF End

\* Rewinding is an Insert of the image in the slot, or a Rewind of no signal.
LEMMA RewindKeeps ==
  ASSUME Inv, ~lost, NEW img \in Inserted, Store(Rewind(img)), ByHand, image' = img,
         end' \in Nat, motor' \in BOOLEAN, img # <<>> \/ img = image
  PROVE  Keeps
<1>1. OK(Player) /\ ~Player.lost /\ end \in Nat
  BY PlayerIs DEF Inv
<1>2. CASE img # <<>>
  <2>1. PICK file \in Files : img = Image(file)
    BY <1>2 DEF Inserted
  <2> DEFINE q == Tape_GetNextBlock(Rewound(Player, Image(file)))
  <2>2. Rewind(img) = q
    BY <1>2, <2>1 DEF Rewind, Rewound
  <2>3. Started(q) /\ q.img = Image(file) /\ q.recorded = Signal(Image(file))
    BY <1>1, RewindImage
  <2> HIDE DEF q
  <2>4. Store(q) /\ image' = q.img /\ q.recorded \in Signals
    BY <2>1, <2>2, <2>3 DEF Signals
  <2> QED BY <2>3, <2>4, StartKeeps
<1>3. CASE img = <<>>
  <2> DEFINE v == (end # 0)
             q == [Rewound(Player, <<>>) EXCEPT !.lost = v]
  <2>1. Rewind(img) = q
    BY <1>3 DEF Rewind, Rewound
  <2>2. v \in BOOLEAN
    OBVIOUS
  <2> HIDE DEF v
  <2>3. Started(q) /\ q.img = <<>> /\ q.recorded = <<>>
    BY <1>1, <2>2, RewindNone
  <2> HIDE DEF q
  <2>4. recorded = <<>>
    <3>1. Player.img = <<>>
      BY <1>3, PlayerIs
    <3>2. Player.recorded = <<>>
      BY <1>1, <3>1 DEF OK, PlayerType
    <3> QED BY <3>2, PlayerIs
  <2>5. Store(q) /\ image' = q.img /\ q.recorded = recorded
    BY <1>3, <2>1, <2>3, <2>4
  <2> QED BY <2>3, <2>5, StartKeeps
<1> QED BY <1>2, <1>3

\* Every step keeps the invariant and is a step of the signal.
LEMMA StepKeeps == ASSUME Inv, [Next]_vars PROVE Keeps
<1>1. end \in Nat /\ motor \in BOOLEAN /\ image \in Inserted /\ TRUE \in BOOLEAN
      /\ FALSE \in BOOLEAN
  <2>1. Player.img \in Inserted
    BY DEF Inv, OK, PlayerType
  <2> QED BY <2>1, PlayerIs DEF Inv
<1>2. ASSUME RunTape PROVE Keeps
  BY <1>2, RunKeeps DEF RunTape
<1>3. ASSUME SwitchMotor PROVE Keeps
  <2>1. motor' \in BOOLEAN
    BY <1>1, <1>3 DEF SwitchMotor
  <2> QED BY <1>3, <2>1, StillKeeps DEF SwitchMotor
<1>4. ASSUME play_tape PROVE Keeps
  BY <1>1, <1>4, PressStep DEF play_tape, PlayerOnly
<1>5. ASSUME stop_tape PROVE Keeps
  BY <1>1, <1>5, PressStep DEF stop_tape, PlayerOnly
<1>6. ASSUME Tape_Rewind PROVE Keeps
  <2>1. ~lost /\ Store(Rewind(image)) /\ ByHand /\ image' = image /\ end' = end /\ motor' = motor
    BY <1>6 DEF Tape_Rewind, PlayerOnly, tape
  <2> QED BY <1>1, <2>1, RewindKeeps
<1>7. ASSUME tape_eject PROVE Keeps
  <2>1. <<>> \in Inserted
    BY DEF Inserted
  <2>2. Store(Detached) /\ image' = <<>> /\ end' = end /\ motor' = motor /\ finished' = finished
    BY <1>7 DEF tape_eject
  <2> QED BY <1>1, <2>1, <2>2, EjectKeeps
<1>8. ASSUME emulator_reset PROVE Keeps
  BY <1>1, <1>8, PressStep DEF emulator_reset
<1>9. ASSUME NEW file \in Files, tape_insert(file) PROVE Keeps
  <2> DEFINE img == Image(file)
  <2>1. img \in Inserted /\ img # <<>> /\ img \in Seq(Blocks)
    BY LeadInHere, ImageType
  <2>2. End(img) \in Nat
    BY <2>1, EndType
  <2>3. /\ ~lost /\ image' = img /\ end' \in Nat /\ motor' \in BOOLEAN
        /\ IF Playable(file) THEN Store(Rewind(img)) /\ ByHand ELSE Store(Detached) /\ UNCHANGED finished
    BY <1>1, <1>9, <2>2 DEF tape_insert
  <2> HIDE DEF img
  <2>4. CASE Playable(file)
    BY <2>1, <2>3, <2>4, RewindKeeps
  <2>5. CASE ~Playable(file)
    BY <2>1, <2>3, <2>5, EjectKeeps
  <2> QED BY <2>4, <2>5
<1>10. ASSUME UNCHANGED vars PROVE Keeps
  BY <1>1, <1>10, StillKeeps DEF vars
<1> QED BY <1>2, <1>3, <1>4, <1>5, <1>6, <1>7, <1>8, <1>9, <1>10 DEF Next, User

\* The invariant holds of every tape player: it is detached, or lost at a block that is
\* not supported, or stopped behind the last block, or at an interval of a block, with the counters
\* of that interval; and then it has heard the signal up to there, and in time.
THEOREM Invariance == Spec => []Inv
<1>1. Init => Inv
  BY InitKeeps
<1>2. Inv /\ [Next]_vars => Inv'
  BY StepKeeps DEF Keeps
<1> QED BY <1>1, <1>2, PTL DEF Spec

\* The invariant gives the types.
LEMMA InvTypes == Inv => TypeOK
<1> SUFFICES ASSUME Inv PROVE TypeOK
  OBVIOUS
<1>1. Player \in PlayerType /\ end \in Nat /\ motor \in BOOLEAN /\ finished \in BOOLEAN
  BY DEF Inv, OK
<1>2. /\ blk \in Nat /\ stage \in Stages /\ live \in BOOLEAN /\ level \in BOOLEAN
      /\ play \in BOOLEAN /\ lost \in BOOLEAN /\ pulse \in Word /\ zero \in Word /\ one \in Word
      /\ count \in Word /\ left \in Word /\ byte \in Nat \ {0} /\ pos \in Nat \ {0}
      /\ shift \in Shifts /\ cycles \in Int /\ elapsed \in Nat
  BY <1>1, PlayerIs DEF PlayerType
<1>3. Len(shift) < ByteBits
  BY <1>2 DEF Shifts
<1> QED BY <1>1, <1>2, <1>3 DEF TypeOK

\* tape.c keeps every variable of the player in its type, for every file: the counts and
\* lengths are words, and the register of bits never holds a whole byte.
THEOREM TypeCorrect == Spec => []TypeOK
BY Invariance, InvTypes, PTL

\* The invariant bounds the pointers.
LEMMA InvPointers == Inv => PointersInImage
<1> SUFFICES ASSUME Inv, live PROVE PointersInImage
  BY DEF PointersInImage
<1> DEFINE p == Player
<1>1. p \in PlayerType /\ p.live /\ image = p.img /\ blk = p.blk /\ stage = p.stage /\ pos = p.pos
      /\ left = p.left /\ shift = p.shift /\ byte = p.byte /\ lost = p.lost
  BY PlayerIs DEF Inv, OK
<1>2. p.img \in Seq(Blocks) /\ Len(p.img) \in Nat /\ DOMAIN Offset(p.img) = 1 .. Len(p.img) + 1
      /\ DOMAIN p.img = 1 .. Len(p.img)
  <2>1. p.img \in Seq(Blocks)
    BY <1>1, InsertedType DEF PlayerType
  <2> QED BY <2>1, OffsetDef
<1>3. Stray(p) \/ Stopped(p) \/ \E i, k : Reached(p, i, k)
  BY <1>1 DEF Inv, OK
<1> HIDE DEF p
<1>4. CASE Stray(p)
  <2>1. PICK i \in 1 .. Len(p.img) : p.blk = Offset(p.img)[i] /\ p.img[i].id \in Unsupported
    BY <1>4 DEF Stray
  <2>2. p.lost /\ (p.stage \in {"DATA", "SAMPLE"} => p.left = 0)
    BY <1>4 DEF Stray
  <2>3. ~Playable(p.img)
    BY <1>2, <2>1 DEF Playable
  <2>4. i \in DOMAIN Offset(image) /\ blk = Offset(image)[i]
    BY <1>1, <1>2, <2>1
  <2>5. lost /\ ~Playable(image) /\ ~(stage \in {"DATA", "SAMPLE"} /\ left > 0 /\ shift = <<>>)
    BY <1>1, <2>2, <2>3
  <2> QED BY <2>4, <2>5 DEF PointersInImage
<1>5. CASE Stopped(p)
  <2>1. p.blk = Offset(p.img)[Len(p.img) + 1] /\ ~p.lost /\ p.stage = "END"
    BY <1>5 DEF Stopped
  <2>2. Len(p.img) + 1 \in DOMAIN Offset(image) /\ blk = Offset(image)[Len(p.img) + 1]
    BY <1>1, <1>2, <2>1
  <2> QED BY <1>1, <2>1, <2>2 DEF PointersInImage
<1>6. ASSUME NEW i, NEW k, Reached(p, i, k) PROVE PointersInImage
  <2> DEFINE b == p.img[i]
  <2>1. /\ ~p.lost /\ i \in 1 .. Len(p.img) /\ p.blk = Offset(p.img)[i] /\ b \in Blocks
        /\ BlockAt(p) = b /\ On(p, b, k)
    BY <1>6, HereType DEF Reached
  <2>2. i \in DOMAIN Offset(image) /\ blk = Offset(image)[i]
    BY <1>1, <1>2, <2>1
  <2> HIDE DEF b
  <2>3. ASSUME stage = "SYNC" PROVE pos \in DOMAIN Table(BlockAt(p))
    <3>1. PICK m : TableAt(p, b, m)
      BY <1>1, <2>1, <2>3 DEF On, PilotAt, BitAt, SampleAt, PauseAt
    <3>2. /\ b.id \in WithTable /\ m \in 1 .. TableLength(b)
          /\ p.pos = IF m = TableLength(b) THEN 1 ELSE m + 1
      BY <3>1 DEF TableAt
    <3>3. Table(b) \in Seq(HalfWords) /\ TableLength(b) = Len(Table(b))
      BY <2>1, <3>2, ShapeType DEF TableLength
    <3> DEFINE n == TableLength(b)
    <3>4. n \in Nat /\ DOMAIN Table(b) = 1 .. n
      BY <3>3
    <3> HIDE DEF n
    <3>5. p.pos \in 1 .. n
      <4>1. m \in 1 .. n /\ p.pos = IF m = n THEN 1 ELSE m + 1
        BY <3>2 DEF n
      <4> QED BY <3>4, <4>1
    <3> QED BY <1>1, <2>1, <3>4, <3>5
  <2>4. ASSUME stage \in {"DATA", "SAMPLE"}, left > 0, shift = <<>>
        PROVE  byte \in DOMAIN BlockAt(p).data
    <3>1. \/ b.id \in WithBits /\ ReadSoFar(p, b)
          \/ b.id = Direct /\ ReadSoFar(p, b)
      BY <1>1, <2>1, <2>4 DEF On, PilotAt, TableAt, BitAt, SampleAt, PauseAt
    <3>2. b.id \in {Std, Turbo, Pure, Direct} /\ ReadSoFar(p, b)
      BY <3>1 DEF WithBits
    <3>3. p.shift = <<>> => p.byte \in DOMAIN b.data
      BY <1>1, <2>1, <2>4, <3>2, NextBit
    <3> QED BY <1>1, <2>1, <2>4, <3>3
  <2> QED BY <1>1, <2>1, <2>2, <2>3, <2>4 DEF PointersInImage, p
<1> QED BY <1>3, <1>4, <1>5, <1>6

\* pbTapeBlock, pwTapePulseTablePtr and pbTapeBlockData point into the image, for every file
\* with any blocks: the three computations of a block's length agree, and only an unsupported block
\* makes the player lose its way.
THEOREM Pointers == Spec => []PointersInImage
BY Invariance, InvPointers, PTL

\* A sequence is its front and its last element.
LEMMA FrontLast ==
  ASSUME NEW R, NEW h \in Seq(R), h # <<>>
  PROVE  h[Len(h)] \in R /\ Front(h) \in Seq(R) /\ h = Append(Front(h), h[Len(h)])
<1> DEFINE n == Len(h)
           f == SubSeq(h, 1, n - 1)
<1>1. n \in Nat \ {0} /\ h[n] \in R
  BY EmptySeq
<1>2. f \in Seq(R) /\ Len(f) = n - 1 /\ \A i \in 1 .. n - 1 : f[i] = h[i]
  <2> DEFINE l == n - 1
  <2>1. l \in Nat /\ \A i \in 1 .. l : h[i] \in R
    BY <1>1
  <2>2. f = SubSeq(h, 1, l)
    OBVIOUS
  <2> HIDE DEF f, l, n
  <2>3. /\ SubSeq(h, 1, l) \in Seq(R) /\ Len(SubSeq(h, 1, l)) = IF 1 <= l THEN l - 1 + 1 ELSE 0
        /\ \A i \in 1 .. l - 1 + 1 : SubSeq(h, 1, l)[i] = h[1 + i - 1]
    BY <2>1, SubSeqProperties
  <2>4. Len(f) = l /\ \A i \in 1 .. l : f[i] = h[i]
    BY <2>1, <2>2, <2>3
  <2> QED BY <2>2, <2>3, <2>4 DEF l
<1>3. Front(h) = f
  BY DEF Front
<1> HIDE DEF f
<1>4. /\ Append(f, h[n]) \in Seq(R) /\ Len(Append(f, h[n])) = n
      /\ \A i \in 1 .. n - 1 : Append(f, h[n])[i] = f[i]
      /\ Append(f, h[n])[n] = h[n]
  BY <1>1, <1>2, AppendProperties
<1> DEFINE a == Append(f, h[n])
<1> HIDE DEF a
<1>5. a \in Seq(R) /\ Len(a) = Len(h) /\ \A i \in 1 .. Len(h) : h[i] = a[i]
  BY <1>1, <1>2, <1>4 DEF a
<1>6. h = a
  BY <1>5, SeqEqual
<1> QED BY <1>1, <1>2, <1>3, <1>6 DEF a

\* The invariant bounds the time.
LEMMA InvOnTime == PilotsSound /\ Unhurried /\ Inv => OnTime
<1> SUFFICES ASSUME PilotsSound, Unhurried, Inv, live, ~lost, stage # "END" PROVE OnTime
  BY DEF OnTime
<1> DEFINE L == LongestCost
           n == Len(heard)
           f == Front(heard)
           x == heard[n]
<1>1. heard \in Heard /\ cycles \in Int /\ elapsed \in Nat
  <2>1. Player \in PlayerType
    BY DEF Inv, OK
  <2>2. Player.heard \in Heard /\ Player.cycles \in Int /\ Player.elapsed \in Nat
    BY <2>1 DEF PlayerType
  <2> QED BY <2>2, PlayerIs
<1>2. Timed(Player)
  BY PlayerIs DEF Inv, OK, Stray, Stopped, Reached
<1>3. heard # <<>> /\ elapsed = Duration(heard) - cycles /\ cycles <= x.length /\ cycles > -L
  BY <1>2, PlayerIs DEF Timed, Counts
<1>4. f \in Heard /\ x \in Sounds /\ heard = Append(f, x)
  <2> DEFINE R == [level : BOOLEAN, length : Nat]
             h == heard
  <2>1. h \in Seq(R) /\ h # <<>>
    BY <1>1, <1>3 DEF Heard
  <2> HIDE DEF R, h
  <2>2. h[Len(h)] \in R /\ Front(h) \in Seq(R) /\ h = Append(Front(h), h[Len(h)])
    BY <2>1, FrontLast
  <2> QED BY <2>2 DEF R, h, Heard, Sounds
<1> HIDE DEF f, x
<1>5. Duration(Append(f, x)) = Duration(f) + x.length /\ Duration(f) \in Nat
  BY <1>4, DurationAppend
<1>6. L \in Nat \ {0} /\ x.length \in Nat
  BY <1>4, LongestType DEF Sounds
<1> HIDE DEF L
<1>7. elapsed < Duration(heard) + L /\ elapsed >= Duration(f)
  BY <1>1, <1>3, <1>4, <1>5, <1>6
<1> QED BY <1>7 DEF OnTime, L, f

\* If no pulse or sample is shorter than the longest wait state (and no pilot tone is empty),
\* the tape is never a whole wait state past the end of the interval that is heard,
\* however many have been played: the remainder that iTapeCycleCount carries over keeps
\* the errors from adding up.
THEOREM OnTimeSafe ==
  ASSUME PilotsSound, Unhurried
  PROVE  Spec => []OnTime
<1>1. Inv => OnTime
  BY InvOnTime
<1> QED BY <1>1, Invariance, PTL

\* The player plays what is recorded and nothing else, for every file whose pilot tones have
\* pulses, and releases the play button by itself only behind the last interval: it implements
\* TapeSignal.
THEOREM Refinement ==
  ASSUME PilotsSound
  PROVE  Spec => ImplementsSignal
<1>1. Init => Player_Signal!Init
  BY InitKeeps
<1>2. Inv /\ [Next]_vars => SignalStep
  BY StepKeeps DEF Keeps
<1> QED BY <1>1, <1>2, Invariance, PTL DEF Spec, ImplementsSignal, Player_Signal!Spec, SignalStep
=============================================================================
