-------------------------- MODULE Interrupts_proofs --------------------------
(***************************************************************************)
(* Proofs about Interrupts and CRTC for all widths of counters, registers  *)
(* and programs.                                                           *)
(***************************************************************************)
EXTENDS Interrupts, FiniteSetTheorems, TLAPS

RegisterValues == Nat \cup [hsw : Nat, vsw : Nat]
Counters == [R : [DOMAIN Firmware -> RegisterValues],
             char : 0 .. CharMod - 1, line : 0 .. LineMod - 1, raster : 0 .. RasterMod - 1,
             lastEnd : 0 .. CharMod - 1, reg5 : RegisterValues, sl : Nat,
             hsw : 0 .. SyncMod - 1, vsw : 0 .. SyncMod - 1, instSL : 0 .. 2, instMR : 0 .. 2,
             flags : SUBSET Flags, pri : Rasters, ga : 0 .. IntLines - 1, hs : 0 .. 2,
             pending : BOOLEAN, beam : Int, scanline : Nat, done : BOOLEAN,
             steady : 0 .. 3, calm : 0 .. 3, lines : Nat, frame : Nat, held : Nat, vsync : Nat,
             raises : Nat, perFrame : Nat]
Processor == [IFF1 : BOOLEAN, EI : 0 .. 2, HALT : BOOLEAN, wait : Nat,
              todo : {<<"fetch">>, <<"end">>} \cup Ports]

IInv == crtc \in Counters /\ "newscan" \notin crtc.flags /\ cpu \in Processor

(***************************************************************************)
(* A stage of crtc_cycle keeps every counter in its range and does not     *)
(* begin a line.                                                           *)
(***************************************************************************)
Keeps(s, t) == t \in Counters /\ ("newscan" \in t.flags => "newscan" \in s.flags)

LEMMA Ranges ==
  /\ CharMod \in Nat \ {0} /\ LineMod \in Nat \ {0} /\ RasterMod \in Nat \ {0}
  /\ SyncMod \in Nat \ {0} /\ IntLines \in Nat \ {0} /\ Margin \in Nat \ {0} /\ Margin < IntLines
  /\ SlTop \in Nat \ {0} /\ 0 \in Rasters /\ 5 \in DOMAIN Firmware
<1>1. /\ CharMod \in Nat \ {0} /\ LineMod \in Nat \ {0} /\ RasterMod \in Nat \ {0}
      /\ SyncMod \in Nat \ {0} /\ IntLines \in Nat \ {0} /\ Margin \in Nat \ {0}
      /\ SlTop \in Nat \ {0} /\ Margin < IntLines
  BY CounterAssumption
<1>2. 0 \in Rasters
  BY InstructionAssumption
<1>3. 5 \in DOMAIN Firmware
  BY RegisterAssumption
<1> QED
  BY <1>1, <1>2, <1>3

LEMMA RegistersTyped ==
  /\ Firmware \in [DOMAIN Firmware -> RegisterValues]
  /\ \A w \in Writes : w[1] \in DOMAIN Firmware /\ w[2] \in RegisterValues
<1>1. \A r \in DOMAIN Firmware : Firmware[r] \in RegisterValues
  BY RegisterAssumption DEF Valid, RegisterValues
<1>2. Firmware = [r \in DOMAIN Firmware |-> Firmware[r]]
  BY RegisterAssumption
<1>3. ASSUME NEW w \in Writes
      PROVE  w[1] \in DOMAIN Firmware /\ w[2] \in RegisterValues
  BY RegisterAssumption DEF Valid, RegisterValues
<1> QED
  BY <1>1, <1>2, <1>3

LEMMA Wraps == ASSUME NEW n \in Nat, NEW m \in Nat \ {0}
               PROVE  (n + 1) % m \in 0 .. m - 1
OBVIOUS

LEMMA CountedTyped == \A n \in Nat : Counted(n) \in Nat
BY DEF Counted

LEMMA OnceMoreTyped == \A n \in 0 .. 3 : OnceMore(n) \in 0 .. 3
BY DEF OnceMore

LEMMA FlagKept ==
  ASSUME NEW s \in Counters, NEW flag \in Flags \ {"newscan"}, NEW value \in BOOLEAN
  PROVE  Keeps(s, Set(s, flag)) /\ Keeps(s, Clear(s, flag)) /\ Keeps(s, Put(s, flag, value))
<1>1. s.flags \cup {flag} \in SUBSET Flags /\ s.flags \ {flag} \in SUBSET Flags
  BY DEF Counters
<1>2. Keeps(s, Set(s, flag))
  BY <1>1 DEF Keeps, Set, Counters
<1>3. Keeps(s, Clear(s, flag))
  BY <1>1 DEF Keeps, Clear, Counters
<1> QED
  BY <1>2, <1>3 DEF Put

(***************************************************************************)
(* The stages, in the order of CRTC.                                       *)
(***************************************************************************)
LEMMA EnterVSyncKept == ASSUME NEW s \in Counters
                        PROVE  Keeps(s, EnterVSync(s))
<1> DEFINE t == Clear(s, "resvsync")
           u == Set(t, "invsync")
<1>1. Keeps(s, t) /\ Keeps(t, u)
  BY FlagKept DEF Flags, Keeps
<1> HIDE DEF t, u
<1>2. 0 \in 0 .. SyncMod - 1
  BY Ranges
<1>3. Keeps(u, [u EXCEPT !.vsw = 0, !.hs = 2])
  <2>1. u \in Counters /\ 2 \in 0 .. 2
    BY <1>1 DEF Keeps
  <2> DEFINE v == [u EXCEPT !.vsw = 0, !.hs = 2]
  <2>2. v \in Counters /\ v.flags = u.flags
    BY <1>2, <2>1 DEF Counters
  <2> QED
    BY <2>2 DEF Keeps
<1>4. EnterVSync(s) \in {t, [u EXCEPT !.vsw = 0, !.hs = 2]}
  BY DEF EnterVSync, t, u
<1> QED
  BY <1>1, <1>3, <1>4 DEF Keeps

LEMMA MatchLineKept == ASSUME NEW s \in Counters
                       PROVE  Keeps(s, match_line_count(s))
<1> DEFINE t == IF s.lastEnd >= 2 /\ ~Has(s, "r7match") THEN EnterVSync(s) ELSE s
<1>1. Keeps(s, t)
  BY EnterVSyncKept DEF Keeps
<1> HIDE DEF t
<1>2. Keeps(t, Set(t, "r7match")) /\ Keeps(s, Clear(s, "r7match"))
  BY <1>1, FlagKept DEF Flags, Keeps
<1>3. match_line_count(s) \in {Clear(s, "r7match"), Set(t, "r7match")}
  BY DEF match_line_count, t
<1> QED
  BY <1>1, <1>2, <1>3 DEF Keeps

LEMMA RestartKept == ASSUME NEW s \in Counters
                     PROVE  Keeps(s, restart_frame(s))
<1> DEFINE frame == IF s.steady >= 2 THEN s.lines ELSE 0
           steady == OnceMore(s.steady)
           t == [s EXCEPT !.flags = @ \ FrameFlags, !.raster = 0, !.line = 0, !.sl = 0,
                          !.frame = frame, !.lines = 0, !.steady = steady]
<1>1. frame \in Nat /\ steady \in 0 .. 3
  BY OnceMoreTyped DEF Counters
<1>2. 0 \in 0 .. RasterMod - 1 /\ 0 \in 0 .. LineMod - 1
  BY Ranges
<1>3. s.flags \ FrameFlags \in SUBSET Flags
  BY DEF Counters
<1>4. restart_frame(s) = match_line_count(t)
  BY DEF restart_frame
<1> HIDE DEF frame, steady
<1>5. Keeps(s, t)
  BY <1>1, <1>2, <1>3 DEF Keeps, Counters
<1> HIDE DEF t
<1> QED
  BY <1>4, <1>5, MatchLineKept DEF Keeps

LEMMA RaiseKept == ASSUME NEW s \in Counters, NEW on
                   PROVE  Keeps(s, Raise(s, on))
<1> DEFINE raises == IF s.calm = 0 THEN 0 ELSE Counted(s.raises)
<1>1. raises \in Nat
  BY CountedTyped DEF Counters
<1>2. Raise(s, on) \in {s, [s EXCEPT !.pending = TRUE, !.raises = raises]}
  BY DEF Raise
<1> HIDE DEF raises
<1>3. Keeps(s, [s EXCEPT !.pending = TRUE, !.raises = raises])
  BY <1>1 DEF Keeps, Counters
<1> QED
  BY <1>2, <1>3 DEF Keeps

LEMMA CountLineKept == ASSUME NEW s \in Counters
                       PROVE  Keeps(s, CountLine(s))
<1>1. ASSUME NEW n \in 0 .. IntLines - 1
      PROVE  Keeps(s, [s EXCEPT !.ga = n])
  BY DEF Keeps, Counters
<1>2. s.ga \in 0 .. IntLines - 1 /\ IntLines \in Nat \ {0}
  BY Ranges DEF Counters
<1>3. CASE s.ga + 1 = IntLines
  <2> DEFINE t == [s EXCEPT !.ga = 0]
  <2>1. 0 \in 0 .. IntLines - 1
    BY <1>2
  <2>2. Keeps(s, t)
    BY <1>1, <2>1
  <2>3. CountLine(s) = Raise(t, s.pri = 0)
    BY <1>3 DEF CountLine
  <2> HIDE DEF t
  <2> QED
    BY <2>2, <2>3, RaiseKept DEF Keeps
<1>4. CASE s.ga + 1 # IntLines
  <2> DEFINE n == s.ga + 1
             t == [s EXCEPT !.ga = n]
  <2>1. n \in 0 .. IntLines - 1
    BY <1>2, <1>4
  <2>2. CountLine(s) = Raise(t, s.pri # 0 /\ s.sl = s.pri)
    BY <1>4 DEF CountLine
  <2> HIDE DEF n
  <2>3. Keeps(s, t)
    BY <1>1, <2>1
  <2> HIDE DEF t
  <2> QED
    BY <2>2, <2>3, RaiseKept DEF Keeps
<1> QED
  BY <1>3, <1>4

LEMMA DelayedVSyncKept == ASSUME NEW s \in Counters
                          PROVE  Keeps(s, DelayedVSync(s))
<1>1. CASE s.hs = 0
  BY <1>1 DEF DelayedVSync, Keeps
<1>2. CASE s.hs # 0
  <2> DEFINE hs == s.hs - 1
             t == [s EXCEPT !.hs = hs]
             u == Raise(t, t.ga >= Margin /\ t.pri = 0)
             v == [u EXCEPT !.ga = 0, !.perFrame = IF u.calm >= 2 THEN u.raises ELSE 0,
                            !.raises = 0, !.calm = OnceMore(@)]
  <2>1. hs \in 0 .. 2
    BY <1>2 DEF Counters
  <2>2. DelayedVSync(s) \in {t, v}
    BY <1>2 DEF DelayedVSync
  <2> HIDE DEF hs
  <2>3. Keeps(s, t)
    BY <2>1 DEF Keeps, Counters
  <2> HIDE DEF t
  <2>4. Keeps(t, u)
    BY <2>3, RaiseKept DEF Keeps
  <2> HIDE DEF u
  <2>5. Keeps(u, v)
    <3> DEFINE perFrame == IF u.calm >= 2 THEN u.raises ELSE 0
               calm == OnceMore(u.calm)
    <3>1. u \in Counters
      BY <2>4 DEF Keeps
    <3>2. perFrame \in Nat /\ calm \in 0 .. 3 /\ 0 \in 0 .. IntLines - 1
      BY <3>1, OnceMoreTyped, Ranges DEF Counters
    <3>3. v = [u EXCEPT !.ga = 0, !.perFrame = perFrame, !.raises = 0, !.calm = calm]
      OBVIOUS
    <3> HIDE DEF perFrame, calm, v
    <3> QED
      BY <3>1, <3>2, <3>3 DEF Keeps, Counters
  <2> QED
    BY <2>2, <2>3, <2>4, <2>5 DEF Keeps
<1> QED
  BY <1>1, <1>2

LEMMA HSyncWidthKept == ASSUME NEW s \in Counters
                        PROVE  Keeps(s, match_hsw(s))
<1> DEFINE t == CountLine(s)
           u == DelayedVSync(t)
           hsw == (s.hsw + 1) % SyncMod
<1>1. Keeps(s, t)
  BY CountLineKept
<1>2. Keeps(t, u)
  BY <1>1, DelayedVSyncKept DEF Keeps
<1>3. Keeps(u, Clear(u, "inHSYNC"))
  BY <1>2, FlagKept DEF Keeps, Flags
<1>4. hsw \in 0 .. SyncMod - 1
  <2>1. s.hsw \in Nat
    BY Ranges DEF Counters
  <2> QED
    BY <2>1, Ranges, Wraps
<1>5. match_hsw(s) \in {Clear(u, "inHSYNC"), [s EXCEPT !.hsw = hsw]}
  BY DEF match_hsw
<1> HIDE DEF hsw, t, u
<1>6. Keeps(s, [s EXCEPT !.hsw = hsw])
  BY <1>4 DEF Keeps, Counters
<1> QED
  BY <1>1, <1>2, <1>3, <1>5, <1>6 DEF Keeps

LEMMA HSyncKept == ASSUME NEW s \in Counters
                   PROVE  Keeps(s, HSync(s))
<1> DEFINE t == Set(s, "inHSYNC")
           u == [t EXCEPT !.hsw = 0]
<1>1. Keeps(s, t)
  BY FlagKept DEF Flags
<1>2. HSync(s) \in {match_hsw(s), match_hsw(u), s}
  BY DEF HSync
<1> HIDE DEF t
<1>3. Keeps(t, u)
  <2>1. 0 \in 0 .. SyncMod - 1
    BY Ranges
  <2> QED
    BY <1>1, <2>1 DEF Keeps, Counters
<1> HIDE DEF u
<1>4. Keeps(s, match_hsw(s)) /\ Keeps(u, match_hsw(u))
  BY <1>3, HSyncWidthKept DEF Keeps
<1> QED
  BY <1>1, <1>2, <1>3, <1>4 DEF Keeps

LEMMA LineEndKept == ASSUME NEW s \in Counters
                     PROVE  Keeps(s, AtLineEnd(s))
<1> DEFINE frame == Has(s, "resframe") \/ Has(s, "resnext")
           adjust == Has(s, "invta") \/ Has(s, "startvta")
           a == Put(s, "reschar", LastRaster(s))
           b == Put(a, "resframe", frame)
           t == Put(b, "invta", adjust)
           u == [t EXCEPT !.flags = @ \ {"resnext", "startvta"}]
           v == Put(u, "resscan", LastLine(s))
<1>1. AtLineEnd(s) \in {s, u, v}
  BY DEF AtLineEnd
<1>2. {"reschar", "resframe", "invta", "resscan"} \subseteq Flags \ {"newscan"}
  BY DEF Flags
<1>3. frame \in BOOLEAN /\ adjust \in BOOLEAN /\ LastRaster(s) \in BOOLEAN /\ LastLine(s) \in BOOLEAN
  BY DEF Has, LastRaster, LastLine
<1> HIDE DEF frame, adjust
<1>4. Keeps(s, a)
  BY <1>2, <1>3, FlagKept
<1> HIDE DEF a
<1>5. Keeps(a, b)
  BY <1>2, <1>3, <1>4, FlagKept DEF Keeps
<1> HIDE DEF b
<1>6. Keeps(b, t)
  BY <1>2, <1>3, <1>5, FlagKept DEF Keeps
<1> HIDE DEF t
<1>7. Keeps(t, u)
  BY <1>6 DEF Keeps, Counters
<1> HIDE DEF u
<1>8. Keeps(u, v)
  BY <1>2, <1>3, <1>7, FlagKept DEF Keeps
<1> QED
  BY <1>1, <1>4, <1>5, <1>6, <1>7, <1>8 DEF Keeps

LEMMA DelayedKept == ASSUME NEW s \in Counters
                     PROVE  Keeps(s, CharInstSL(s)) /\ Keeps(s, CharInstMR(s))
<1>1. s.instSL \in 0 .. 2 /\ s.instMR \in 0 .. 2 /\ s.R[5] \in RegisterValues
  BY Ranges DEF Counters
<1>2. ASSUME NEW t, Keeps(s, t)
      PROVE  Keeps(s, [t EXCEPT !.instMR = 2]) /\ Keeps(s, [t EXCEPT !.instMR = 0])
  <2>1. t \in Counters /\ {0, 2} \subseteq 0 .. 2
    BY <1>2 DEF Keeps
  <2> QED
    BY <1>2, <2>1 DEF Keeps, Counters
<1>3. Keeps(s, CharInstSL(s))
  <2>1. CharInstSL(s) \in {[s EXCEPT !.instSL = 2], [s EXCEPT !.instSL = 0, !.reg5 = s.R[5]], s}
    BY <1>1 DEF CharInstSL
  <2>2. Keeps(s, [s EXCEPT !.instSL = 2]) /\ Keeps(s, [s EXCEPT !.instSL = 0, !.reg5 = s.R[5]])
    <3> DEFINE v == s.R[5]
    <3>1. v \in RegisterValues /\ {0, 2} \subseteq 0 .. 2
      BY <1>1
    <3> HIDE DEF v
    <3>2. Keeps(s, [s EXCEPT !.instSL = 2])
      BY <3>1 DEF Keeps, Counters
    <3>3. Keeps(s, [s EXCEPT !.instSL = 0, !.reg5 = v])
      BY <3>1 DEF Keeps, Counters
    <3> QED
      BY <3>2, <3>3 DEF v
  <2> QED
    BY <2>1, <2>2 DEF Keeps
<1>4. Keeps(s, CharMR1(s))
  <2> DEFINE t == Clear(s, "invta")
  <2>1. Keeps(s, t) /\ Keeps(s, Clear(s, "startvta"))
    BY FlagKept DEF Flags
  <2> HIDE DEF t
  <2>2. Keeps(s, Set(t, "startvta"))
    BY <2>1, FlagKept DEF Keeps, Flags
  <2>3. CharMR1(s) = [(IF LastLine(s) THEN Set(t, "startvta") ELSE Clear(s, "startvta"))
                        EXCEPT !.instMR = 2]
    BY DEF CharMR1, t
  <2> QED
    BY <1>2, <2>1, <2>2, <2>3
<1>5. Keeps(s, CharMR2(s))
  <2> DEFINE on == Has(s, "resnext") \/ (Has(s, "startvta") /\ s.line = s.R[4] /\ s.R[5] = 0)
  <2>1. CharMR2(s) = [Put(s, "resnext", on) EXCEPT !.instMR = 0]
    BY DEF CharMR2
  <2>2. on \in BOOLEAN
    BY DEF Has
  <2> HIDE DEF on
  <2>3. Keeps(s, Put(s, "resnext", on))
    BY <2>2, FlagKept DEF Flags
  <2> QED
    BY <1>2, <2>1, <2>3
<1>6. CharInstMR(s) \in {CharMR1(s), CharMR2(s), s}
  BY <1>1 DEF CharInstMR
<1> QED
  BY <1>3, <1>4, <1>5, <1>6 DEF Keeps

LEMMA CountVSyncKept == ASSUME NEW s \in Counters
                        PROVE  Keeps(s, CountVSync(s))
<1> DEFINE n == (s.vsw + 1) % SyncMod
           t == Set(s, "resvsync")
<1>1. n \in 0 .. SyncMod - 1 /\ 0 \in 0 .. SyncMod - 1
  <2>1. s.vsw \in Nat
    BY Ranges DEF Counters
  <2> QED
    BY <2>1, Ranges, Wraps
<1>2. CountVSync(s) \in {s, [t EXCEPT !.vsw = 0], [s EXCEPT !.vsw = n]}
  BY DEF CountVSync
<1>3. Keeps(s, t)
  BY FlagKept DEF Flags
<1> HIDE DEF n, t
<1>4. Keeps(t, [t EXCEPT !.vsw = 0]) /\ Keeps(s, [s EXCEPT !.vsw = n])
  BY <1>1, <1>3 DEF Keeps, Counters
<1> QED
  BY <1>2, <1>3, <1>4 DEF Keeps

LEMMA CountRasterKept == ASSUME NEW s \in Counters
                         PROVE  Keeps(s, CountRaster(s))
<1> DEFINE n == (s.raster + 1) % RasterMod
           t == [s EXCEPT !.raster = n]
           c == Clear(s, "resscan")
<1>1. n \in 0 .. RasterMod - 1 /\ 0 \in 0 .. RasterMod - 1
  <2>1. s.raster \in Nat
    BY Ranges DEF Counters
  <2> QED
    BY <2>1, Ranges, Wraps
<1>2. CountRaster(s) \in {[c EXCEPT !.raster = 0], match_line_count(t), t}
  BY DEF CountRaster
<1> HIDE DEF n
<1>3. Keeps(s, t)
  BY <1>1 DEF Keeps, Counters
<1>4. Keeps(s, c)
  BY FlagKept DEF Flags
<1> HIDE DEF t, c
<1>5. Keeps(t, match_line_count(t)) /\ Keeps(c, [c EXCEPT !.raster = 0])
  <2>1. t \in Counters /\ c \in Counters
    BY <1>3, <1>4 DEF Keeps
  <2>2. Keeps(c, [c EXCEPT !.raster = 0])
    BY <1>1, <2>1 DEF Keeps, Counters
  <2> QED
    BY <2>1, <2>2, MatchLineKept
<1> QED
  BY <1>2, <1>3, <1>4, <1>5 DEF Keeps

LEMMA WatchRasterKept == ASSUME NEW s \in Counters
                         PROVE  Keeps(s, WatchRaster(s))
<1> DEFINE t == [s EXCEPT !.instSL = 1]
           u == [t EXCEPT !.flags = @ \cup {"resscan", "r9match"}, !.instMR = 1]
<1>1. Keeps(s, t)
  BY DEF Keeps, Counters
<1>2. WatchRaster(s) \in {u, Clear(t, "r9match")}
  BY DEF WatchRaster
<1> HIDE DEF t
<1>3. Keeps(t, Clear(t, "r9match"))
  BY <1>1, FlagKept DEF Keeps, Flags
<1>4. Keeps(t, u)
  <2> DEFINE flags == t.flags \cup {"resscan", "r9match"}
  <2>1. t \in Counters /\ 1 \in 0 .. 2
    BY <1>1 DEF Keeps
  <2>2. flags \in SUBSET Flags /\ ("newscan" \in flags => "newscan" \in t.flags)
    BY <2>1 DEF Counters, Flags
  <2>3. u = [t EXCEPT !.flags = flags, !.instMR = 1]
    OBVIOUS
  <2> HIDE DEF flags, u
  <2> QED
    BY <2>1, <2>2, <2>3 DEF Keeps, Counters
<1> QED
  BY <1>1, <1>2, <1>3, <1>4 DEF Keeps

LEMMA AdjustKept == ASSUME NEW s \in Counters
                    PROVE  Keeps(s, Adjust(s))
<1> DEFINE t == restart_frame(s)
<1>1. Keeps(s, t)
  BY RestartKept
<1>2. Adjust(s) \in {s, t, Set(t, "resscan")}
  BY DEF Adjust
<1> HIDE DEF t
<1>3. Keeps(t, Set(t, "resscan"))
  BY <1>1, FlagKept DEF Keeps, Flags
<1> QED
  BY <1>1, <1>2, <1>3 DEF Keeps

LEMMA CharLineKept == ASSUME NEW s \in Counters
                      PROVE  Keeps(s, CountCharLine(s))
<1> DEFINE n == (s.line + 1) % LineMod
           t == [s EXCEPT !.line = n]
<1>1. n \in 0 .. LineMod - 1
  <2>1. s.line \in Nat
    BY Ranges DEF Counters
  <2> QED
    BY <2>1, Ranges, Wraps
<1>2. CountCharLine(s) \in {s, match_line_count(t)}
  BY DEF CountCharLine
<1> HIDE DEF n
<1>3. Keeps(s, t)
  BY <1>1 DEF Keeps, Counters
<1> HIDE DEF t
<1>4. Keeps(t, match_line_count(t))
  BY <1>3, MatchLineKept DEF Keeps
<1> QED
  BY <1>2, <1>3, <1>4 DEF Keeps

LEMMA ScanBeginsKept == ASSUME NEW s \in Counters
                        PROVE  StartScan(s) \in Counters /\ "newscan" \notin StartScan(s).flags
<1> DEFINE sl == Counted(s.sl)
           lines == IF s.steady = 0 THEN 0 ELSE Counted(s.lines)
           flags == s.flags \ {"newscan"}
           t == [s EXCEPT !.flags = flags, !.sl = sl, !.lines = lines]
<1>1. sl \in Nat /\ lines \in Nat /\ flags \in SUBSET Flags /\ "newscan" \notin flags
  BY CountedTyped DEF Counters
<1>2. StartScan(s) = CountVSync(t)
  BY DEF StartScan, Clear, Counters
<1> HIDE DEF sl, lines, flags
<1>3. t \in Counters /\ t.flags = flags
  BY <1>1 DEF Counters
<1> HIDE DEF t
<1> QED
  BY <1>1, <1>2, <1>3, CountVSyncKept DEF Keeps

LEMMA EndScanKept == ASSUME NEW s \in Counters
                     PROVE  Keeps(s, EndScan(s))
<1> DEFINE over == Has(s, "invsync") /\ Has(s, "resvsync")
           vsync == IF s.steady >= 2 THEN s.held ELSE 0
           held == IF Has(s, "invsync") /\ s.steady > 0 THEN Counted(s.held) ELSE 0
           flags == s.flags \ {"invsync", "resvsync"}
           ended == [s EXCEPT !.flags = flags, !.vsync = vsync, !.held = 0]
           goes == [s EXCEPT !.held = held]
           t == IF over THEN ended ELSE goes
<1>1. vsync \in Nat /\ held \in Nat /\ flags \in SUBSET Flags
      /\ ("newscan" \in flags => "newscan" \in s.flags)
  BY CountedTyped DEF Counters
<1>2. EndScan(s) \in {t, frame_finished(t)}
  BY DEF EndScan
<1> HIDE DEF vsync, held, flags
<1>3. Keeps(s, ended)
  BY <1>1 DEF Keeps, Counters
<1>4. Keeps(s, goes)
  BY <1>1 DEF Keeps, Counters
<1> HIDE DEF ended, goes
<1>5. Keeps(s, t)
  BY <1>3, <1>4
<1> HIDE DEF t
<1>6. Keeps(t, frame_finished(t))
  BY <1>5 DEF Keeps, frame_finished, Counters
<1> QED
  BY <1>2, <1>5, <1>6 DEF Keeps

LEMMA CharKept == ASSUME NEW s \in Counters, NEW length \in Int
                  PROVE  CountChar(MonitorLine(s, length)) \in Counters
<1> DEFINE t == MonitorLine(s, length)
<1>1. t \in Counters
  <2> DEFINE scanline == s.scanline + 1
             beam == s.beam - 1
  <2>1. scanline \in Nat /\ beam \in Int
    BY DEF Counters
  <2>2. t \in {[s EXCEPT !.beam = length, !.scanline = scanline], [s EXCEPT !.beam = beam]}
    BY DEF MonitorLine
  <2> HIDE DEF scanline, beam
  <2>3. [s EXCEPT !.beam = length, !.scanline = scanline] \in Counters
    BY <2>1 DEF Counters
  <2>4. [s EXCEPT !.beam = beam] \in Counters
    BY <2>1 DEF Counters
  <2> QED
    BY <2>2, <2>3, <2>4
<1> HIDE DEF t
<1> DEFINE char == (t.char + 1) % CharMod
           flags == t.flags \cup {"newscan"}
           begun == [t EXCEPT !.flags = flags, !.lastEnd = t.char, !.char = 0]
           next == [t EXCEPT !.char = char]
<1>2. char \in 0 .. CharMod - 1 /\ 0 \in 0 .. CharMod - 1
  <2>1. t.char \in Nat
    BY <1>1, Ranges DEF Counters
  <2> QED
    BY <2>1, Ranges, Wraps
<1>3. t.char \in 0 .. CharMod - 1 /\ flags \in SUBSET Flags
  BY <1>1 DEF Counters, Flags
<1>4. CountChar(t) \in {begun, next}
  BY <1>1 DEF CountChar, Set, Counters
<1> HIDE DEF char, flags
<1>5. begun \in Counters
  BY <1>1, <1>2, <1>3 DEF Counters
<1>6. next \in Counters
  BY <1>1, <1>2 DEF Counters
<1> QED
  BY <1>4, <1>5, <1>6 DEF t

LEMMA CycleKept ==
  ASSUME NEW s \in Counters, NEW length \in Int, NEW t, crtc_cycle(s, length, t)
  PROVE  t \in Counters /\ "newscan" \notin t.flags
<1> DEFINE char == CountChar(MonitorLine(s, length))
           sync == HSync(AtLineEnd(char))
           late == CharInstMR(CharInstSL(sync))
           start == StartScan(late)
           scan == NextRaster(start)
           line == Adjust(WatchRaster(scan))
           end == EndScan(CountCharLine(line))
<1>1. t = IF Has(late, "newscan") THEN end ELSE late
  BY DEF crtc_cycle
<1>2. char \in Counters
  BY CharKept
<1> HIDE DEF char
<1>3. sync \in Counters
  BY <1>2, LineEndKept, HSyncKept DEF Keeps
<1> HIDE DEF sync
<1>4. late \in Counters
  BY <1>3, DelayedKept DEF Keeps
<1> HIDE DEF late
<1>5. start \in Counters /\ "newscan" \notin start.flags
  BY <1>4, ScanBeginsKept
<1> HIDE DEF start
<1>6. Keeps(start, scan)
  BY <1>5, RestartKept, CountRasterKept DEF NextRaster
<1> HIDE DEF scan
<1>7. Keeps(scan, line)
  <2>1. Keeps(scan, WatchRaster(scan))
    BY <1>6, WatchRasterKept DEF Keeps
  <2> QED
    BY <2>1, AdjustKept DEF Keeps
<1> HIDE DEF line
<1>8. Keeps(line, end)
  <2>1. Keeps(line, CountCharLine(line))
    BY <1>7, CharLineKept DEF Keeps
  <2> QED
    BY <2>1, EndScanKept DEF Keeps
<1> HIDE DEF end
<1> QED
  BY <1>1, <1>4, <1>5, <1>6, <1>7, <1>8 DEF Keeps, Has

(***************************************************************************)
(* Register writes and reset.                                              *)
(***************************************************************************)
LEMMA RecountKept == ASSUME NEW s \in Counters
                     PROVE  Keeps(s, Recount(s))
<1>1. 0 \in 0 .. 3 /\ 0 \in Nat
  OBVIOUS
<1>2. Recount(s) \in Counters
  BY <1>1 DEF Recount, Counters
<1>3. Recount(s).flags = s.flags
  BY DEF Recount, Counters
<1> QED
  BY <1>2, <1>3 DEF Keeps

LEMMA R4Kept == ASSUME NEW s \in Counters
                PROVE  Keeps(s, WriteR4(s))
BY FlagKept DEF WriteR4, Keeps, Flags

LEMMA R7Kept == ASSUME NEW s \in Counters
                PROVE  Keeps(s, WriteR7(s))
<1> DEFINE t == IF s.char >= 2 THEN EnterVSync(s) ELSE s
<1>1. Keeps(s, t)
  BY EnterVSyncKept DEF Keeps
<1>2. WriteR7(s) \in {Clear(s, "r7match"), s, Set(t, "r7match")}
  BY DEF WriteR7
<1> HIDE DEF t
<1>3. Keeps(t, Set(t, "r7match")) /\ Keeps(s, Clear(s, "r7match"))
  BY <1>1, FlagKept DEF Keeps, Flags
<1> QED
  BY <1>1, <1>2, <1>3 DEF Keeps

LEMMA R9Kept == ASSUME NEW s \in Counters
                PROVE  Keeps(s, WriteR9(s))
<1> DEFINE instMR == IF Has(s, "r9match") THEN s.instMR ELSE 1
           flags == s.flags \cup {"resscan", "r9match"}
           u == [s EXCEPT !.instMR = instMR, !.flags = flags]
           t == Clear(s, "r9match")
<1>1. WriteR9(s) \in {Set(u, "reschar"), u, t, Clear(t, "resscan")}
  BY DEF WriteR9, Counters
<1>2. instMR \in 0 .. 2 /\ flags \in SUBSET Flags /\ ("newscan" \in flags => "newscan" \in s.flags)
  BY DEF Counters, Flags
<1>3. Keeps(s, t)
  BY FlagKept DEF Flags
<1> HIDE DEF instMR, flags, t
<1>4. Keeps(s, u)
  BY <1>2 DEF Keeps, Counters
<1> HIDE DEF u
<1>5. Keeps(u, Set(u, "reschar")) /\ Keeps(t, Clear(t, "resscan"))
  BY <1>3, <1>4, FlagKept DEF Keeps, Flags
<1> QED
  BY <1>1, <1>3, <1>4, <1>5 DEF Keeps

LEMMA WriteKept ==
  ASSUME NEW s \in Counters, NEW r \in DOMAIN Firmware, NEW v \in RegisterValues
  PROVE  Keeps(s, WriteRegister(s, r, v))
<1> DEFINE q == Recount(s)
           R == [q.R EXCEPT ![r] = v]
           t == [q EXCEPT !.R = R, !.steady = 0, !.lines = 0, !.frame = 0, !.held = 0, !.vsync = 0]
<1>1. Keeps(s, q)
  BY RecountKept
<1>2. WriteRegister(s, r, v) \in {WriteR4(t), WriteR7(t), WriteR9(t), t}
  BY DEF WriteRegister
<1> HIDE DEF q
<1>3. R \in [DOMAIN Firmware -> RegisterValues]
  BY <1>1 DEF Keeps, Counters
<1> HIDE DEF R
<1>4. Keeps(q, t)
  <2>1. q \in Counters /\ 0 \in 0 .. 3
    BY <1>1 DEF Keeps
  <2>2. t \in Counters
    BY <1>3, <2>1 DEF Counters
  <2>3. t.flags = q.flags
    BY <2>1 DEF Counters
  <2> HIDE DEF t
  <2> QED
    BY <2>2, <2>3 DEF Keeps
<1> HIDE DEF t
<1>5. Keeps(t, WriteR4(t)) /\ Keeps(t, WriteR7(t)) /\ Keeps(t, WriteR9(t))
  BY <1>4, R4Kept, R7Kept, R9Kept DEF Keeps
<1> QED
  BY <1>1, <1>2, <1>4, <1>5 DEF Keeps

LEMMA ResetKept == ASSUME NEW s, NEW length \in Int
                   PROVE  LET t == ResetCRTC(s, Firmware, length)
                          IN t \in Counters /\ "newscan" \notin t.flags
<1> DEFINE t == ResetCRTC(s, Firmware, length)
<1>1. s.flags \cap {"inHSYNC"} \in SUBSET Flags /\ "newscan" \notin s.flags \cap {"inHSYNC"}
  BY DEF Flags
<1>2. /\ 0 \in 0 .. CharMod - 1 /\ 0 \in 0 .. LineMod - 1 /\ 0 \in 0 .. RasterMod - 1
      /\ 0 \in 0 .. SyncMod - 1 /\ 0 \in 0 .. IntLines - 1 /\ 0 \in Rasters
  BY Ranges
<1>3. Firmware \in [DOMAIN Firmware -> RegisterValues] /\ 0 \in RegisterValues
  BY RegistersTyped DEF RegisterValues
<1>4. t \in Counters
  BY <1>1, <1>2, <1>3 DEF ResetCRTC, Counters
<1>5. t.flags = s.flags \cap {"inHSYNC"}
  BY DEF ResetCRTC
<1> QED
  BY <1>1, <1>4, <1>5

(***************************************************************************)
(* The processor.                                                          *)
(***************************************************************************)
LEMMA Lengths == Beam \subseteq Int /\ Times \subseteq Nat /\ OutTime \in Nat /\ AckTime \in Nat
BY InstructionAssumption

LEMMA AcknowledgeKept == ASSUME IInv, NEW c \in Processor, Acknowledge(c)
                         PROVE  IInv'
<1> DEFINE s == IF crtc.ga < Margin THEN crtc ELSE Recount(crtc)
           ga == s.ga % Margin
           t == [s EXCEPT !.pending = FALSE, !.ga = ga]
<1>1. crtc' = t /\ cpu' = [c EXCEPT !.IFF1 = FALSE, !.HALT = FALSE, !.wait = AckTime,
                                    !.todo = <<"fetch">>]
  BY DEF Acknowledge
<1>2. cpu' \in Processor
  BY <1>1, Lengths DEF Processor
<1>3. Keeps(crtc, s)
  BY RecountKept DEF IInv, Keeps
<1> HIDE DEF s
<1>4. ga \in 0 .. IntLines - 1
  <2>1. s.ga \in Nat
    BY <1>3, Ranges DEF Keeps, Counters
  <2>2. s.ga % Margin \in 0 .. Margin - 1
    BY <2>1, Ranges
  <2> QED
    BY <2>2, Ranges
<1> HIDE DEF ga
<1>5. t \in Counters /\ t.flags = s.flags
  BY <1>3, <1>4 DEF Keeps, Counters
<1> QED
  BY <1>1, <1>2, <1>3, <1>5 DEF IInv, Keeps

LEMMA ExecuteKept == ASSUME IInv, NEW op \in Instructions, NEW n \in Times, Execute(op, n)
                     PROVE  IInv'
<1>1. cpu \in Processor /\ crtc \in Counters /\ "newscan" \notin crtc.flags
  BY DEF IInv
<1>2. Decode(op) \in Processor
  <2>1. Decode(op) \in {[cpu EXCEPT !.EI = 2], [cpu EXCEPT !.IFF1 = FALSE, !.EI = 0],
                        [cpu EXCEPT !.HALT = TRUE], cpu}
    BY DEF Decode
  <2>2. {0, 2} \subseteq 0 .. 2
    OBVIOUS
  <2> QED
    BY <1>1, <2>1, <2>2 DEF Processor
<1>3. cpu' \in Processor
  <2> DEFINE todo == IF op \in Ports THEN op ELSE <<"end">>
             d == Decode(op)
  <2>1. cpu' = [d EXCEPT !.wait = n, !.todo = todo] /\ n \in Nat
    BY Lengths DEF Execute
  <2>2. todo \in {<<"fetch">>, <<"end">>} \cup Ports
    OBVIOUS
  <2> HIDE DEF todo, d
  <2>3. d \in Processor
    BY <1>2 DEF d
  <2> QED
    BY <2>1, <2>2, <2>3 DEF Processor
<1>4. crtc' \in Counters /\ "newscan" \notin (crtc').flags
  <2>1. CASE op[1] = "raster"
    <3>1. op[2] \in Rasters
      BY <2>1 DEF Instructions, Ports
    <3> DEFINE q == Recount(crtc)
               line == op[2]
    <3>2. crtc' = [q EXCEPT !.pri = line]
      BY <2>1 DEF Execute
    <3>3. Keeps(crtc, q)
      BY <1>1, RecountKept
    <3> HIDE DEF q, line
    <3>4. [q EXCEPT !.pri = line] \in Counters /\ [q EXCEPT !.pri = line].flags = q.flags
      BY <3>1, <3>3 DEF Keeps, Counters, line
    <3> QED
      BY <1>1, <3>2, <3>3, <3>4 DEF Keeps
  <2>2. CASE op[1] # "raster"
    BY <1>1, <2>2 DEF Execute
  <2> QED
    BY <2>1, <2>2
<1> QED
  BY <1>3, <1>4 DEF IInv

LEMMA PortsKept == ASSUME IInv, OutRegister \/ OutDelay
                   PROVE  IInv'
<1>1. cpu \in Processor /\ crtc \in Counters /\ "newscan" \notin crtc.flags
  BY DEF IInv
<1>2. cpu' = [cpu EXCEPT !.wait = OutTime, !.todo = <<"end">>]
  BY DEF OutRegister, OutDelay, AfterOut
<1>3. cpu' \in Processor
  BY <1>1, <1>2, Lengths DEF Processor
<1>4. CASE OutRegister
  <2>1. cpu.todo \in {<<"fetch">>, <<"end">>} \cup Ports /\ cpu.todo[1] = "register"
    BY <1>1, <1>4 DEF Processor, OutRegister, At
  <2>2. PICK w \in Writes : cpu.todo = <<"register", w[1], w[2]>>
    BY <2>1 DEF Ports
  <2>3. crtc' = WriteRegister(crtc, w[1], w[2])
    BY <1>4, <2>2 DEF OutRegister
  <2>4. w[1] \in DOMAIN Firmware /\ w[2] \in RegisterValues
    BY RegistersTyped
  <2> QED
    BY <1>1, <1>3, <2>3, <2>4, WriteKept DEF IInv, Keeps
<1>5. CASE OutDelay
  <2> DEFINE q == Recount(crtc)
  <2>1. crtc' = [q EXCEPT !.pending = FALSE, !.ga = 0]
    BY <1>5 DEF OutDelay
  <2>2. Keeps(crtc, q) /\ 0 \in 0 .. IntLines - 1
    BY <1>1, RecountKept, Ranges
  <2> HIDE DEF q
  <2>3. crtc' \in Counters /\ (crtc').flags = q.flags
    BY <2>1, <2>2 DEF Keeps, Counters
  <2> QED
    BY <1>1, <1>3, <2>2, <2>3 DEF IInv, Keeps
<1> QED
  BY <1>4, <1>5

LEMMA EndKept == ASSUME IInv, EndInstruction
                 PROVE  IInv'
<1> DEFINE c == Enabled(cpu)
<1>1. c \in Processor
  <2>1. cpu \in Processor
    BY DEF IInv
  <2>2. CASE cpu.EI = 0
    BY <2>1, <2>2 DEF Enabled
  <2>3. CASE cpu.EI # 0
    <3> DEFINE ei == cpu.EI - 1
               iff == IF cpu.EI = 1 THEN TRUE ELSE cpu.IFF1
    <3>a. cpu.EI \in 0 .. 2 /\ cpu.IFF1 \in BOOLEAN
      BY <2>1 DEF Processor
    <3>b. ei \in 0 .. 2
      BY <3>a, <2>3
    <3>c. iff \in BOOLEAN
      BY <3>a, Zenon
    <3>1. ei \in 0 .. 2 /\ iff \in BOOLEAN
      BY <3>b, <3>c
    <3>2. c = [cpu EXCEPT !.EI = ei, !.IFF1 = iff]
      BY <2>3 DEF Enabled
    <3> HIDE DEF ei, iff
    <3> QED
      BY <2>1, <3>1, <3>2 DEF Processor
  <2> QED
    BY <2>2, <2>3
<1>2. Acknowledge(c) \/ (cpu' = [c EXCEPT !.todo = <<"fetch">>] /\ UNCHANGED crtc)
  BY DEF EndInstruction
<1> HIDE DEF c
<1>3. CASE cpu' = [c EXCEPT !.todo = <<"fetch">>] /\ UNCHANGED crtc
  <2>1. cpu' \in Processor
    BY <1>1, <1>3 DEF Processor
  <2> QED
    BY <1>3, <2>1 DEF IInv
<1> QED
  BY <1>1, <1>2, <1>3, AcknowledgeKept

LEMMA IdleTyped == Idle \in Processor
BY DEF Idle, Processor

LEMMA FramesKept == ASSUME IInv, ShowFrame \/ emulator_reset
                    PROVE  IInv'
<1>1. CASE ShowFrame
  <2>1. crtc' \in Counters /\ (crtc').flags = crtc.flags
    BY <1>1 DEF ShowFrame, IInv, Counters
  <2> QED
    BY <1>1, <2>1 DEF ShowFrame, IInv
<1>2. CASE emulator_reset
  <2>1. PICK n \in Beam : crtc' = ResetCRTC(crtc, Firmware, n)
    BY <1>2 DEF emulator_reset
  <2>2. n \in Int
    BY Lengths
  <2>3. crtc' \in Counters /\ "newscan" \notin (crtc').flags
    BY <2>1, <2>2, ResetKept
  <2> QED
    BY <1>2, <2>3, IdleTyped DEF emulator_reset, IInv
<1> QED
  BY <1>1, <1>2

LEMMA MicrosecondKept == ASSUME IInv, Microsecond
                         PROVE  IInv'
<1>1. PICK n \in Beam : crtc_cycle(crtc, n, crtc')
  BY DEF Microsecond
<1>2. n \in Int
  BY Lengths
<1>3. crtc' \in Counters /\ "newscan" \notin (crtc').flags
  BY <1>1, <1>2, CycleKept DEF IInv
<1>4. cpu' \in Processor
  <2> DEFINE wait == cpu.wait - 1
  <2>1. wait \in Nat /\ cpu \in Processor
    BY DEF Microsecond, IInv, Processor
  <2>2. cpu' = [cpu EXCEPT !.wait = wait]
    BY DEF Microsecond
  <2> HIDE DEF wait
  <2> QED
    BY <2>1, <2>2 DEF Processor
<1> QED
  BY <1>3, <1>4 DEF IInv

(***************************************************************************)
(* The invariant.                                                          *)
(***************************************************************************)
LEMMA Initial == ASSUME Init
                 PROVE  IInv
<1>1. PICK n \in Beam : crtc = ResetCRTC([flags |-> {}], Firmware, n)
  BY DEF Init
<1>2. n \in Int
  BY Lengths
<1>3. crtc \in Counters /\ "newscan" \notin crtc.flags
  BY <1>1, <1>2, ResetKept
<1> QED
  BY <1>3, IdleTyped DEF Init, IInv

LEMMA Steps == ASSUME IInv, [Next]_vars
               PROVE  IInv'
<1>1. CASE UNCHANGED vars
  BY <1>1 DEF vars, IInv
<1> QED
  BY <1>1, MicrosecondKept, ExecuteKept, PortsKept, EndKept, FramesKept DEF Next

(***************************************************************************)
(* Every counter of the CRTC stays within its bits, the gate array's below *)
(* 52, and no delayed function is lost in between, for any registers,      *)
(* widths and programs, whenever they are written and the machine is       *)
(* reset: the interrupt counter is compared with 52 for equality only, so  *)
(* that nothing else would bring it back.                                  *)
(***************************************************************************)
THEOREM CountersBounded == Spec => []TypeOK
<1>1. Spec => []IInv
  BY Initial, Steps, PTL DEF Spec
<1>2. IInv => TypeOK
  <2> SUFFICES ASSUME IInv
               PROVE  TypeOK
    OBVIOUS
  <2>1. crtc \in Counters /\ "newscan" \notin crtc.flags /\ cpu \in Processor
    BY DEF IInv
  <2> QED
    BY <2>1 DEF TypeOK, Counters, Processor
<1> QED
  BY <1>1, <1>2, PTL

(***************************************************************************)
(* What the frame depends on, and what VSYNC depends on: the stages that   *)
(* change nothing of it.                                                   *)
(***************************************************************************)
SamePlace(s, t) ==
  /\ t.R = s.R /\ t.char = s.char /\ t.line = s.line /\ t.raster = s.raster
  /\ t.reg5 = s.reg5 /\ t.instSL = s.instSL /\ t.instMR = s.instMR
  /\ t.steady = s.steady /\ t.lines = s.lines /\ t.frame = s.frame
SameRequests(s, t) ==
  /\ Has(t, "newscan") <=> Has(s, "newscan")
  /\ Has(t, "reschar") <=> Has(s, "reschar")
  /\ Has(t, "resframe") <=> Has(s, "resframe")
  /\ Has(t, "resscan") <=> Has(s, "resscan")
  /\ Has(t, "resnext") <=> Has(s, "resnext")
  /\ Has(t, "startvta") <=> Has(s, "startvta")
  /\ Has(t, "invta") <=> Has(s, "invta")
SameFrame(s, t) == SamePlace(s, t) /\ SameRequests(s, t)
SameSync(s, t) ==
  /\ t.lastEnd = s.lastEnd /\ t.vsw = s.vsw /\ t.held = s.held /\ t.vsync = s.vsync
  /\ Has(t, "invsync") <=> Has(s, "invsync")
  /\ Has(t, "resvsync") <=> Has(s, "resvsync")
  /\ Has(t, "r7match") <=> Has(s, "r7match")
Alike(s, t) == t \in Counters /\ SameFrame(s, t) /\ SameSync(s, t)

LEMMA AlikeSelf == ASSUME NEW s \in Counters PROVE Alike(s, s)
BY DEF Alike, SameFrame, SamePlace, SameRequests, SameSync

LEMMA AlikeBoth ==
  ASSUME NEW s, NEW t, NEW u, Alike(s, t), Alike(t, u) PROVE Alike(s, u)
BY DEF Alike, SameFrame, SamePlace, SameRequests, SameSync

\* A change that leaves the fields alone, and the flags but inHSYNC.
LEMMA AlikeFields ==
  ASSUME NEW s \in Counters, NEW t \in Counters, SamePlace(s, t), t.lastEnd = s.lastEnd,
         t.vsw = s.vsw, t.held = s.held, t.vsync = s.vsync,
         t.flags \cup {"inHSYNC"} = s.flags \cup {"inHSYNC"}
  PROVE  Alike(s, t)
<1>1. ASSUME NEW f, f # "inHSYNC" PROVE f \in t.flags <=> f \in s.flags
  BY <1>1
<1> QED BY <1>1 DEF Alike, SameFrame, SameRequests, SameSync, Has

LEMMA RaiseAlike == ASSUME NEW s \in Counters, NEW on PROVE Alike(s, Raise(s, on))
<1> DEFINE raises == IF s.calm = 0 THEN 0 ELSE Counted(s.raises)
           t == [s EXCEPT !.pending = TRUE, !.raises = raises]
<1>1. Raise(s, on) \in {s, t} /\ Raise(s, on) \in Counters
  BY RaiseKept DEF Raise, Keeps
<1> HIDE DEF raises
<1>2. t \in Counters => Alike(s, t)
  <2>1. SamePlace(s, t) /\ t.lastEnd = s.lastEnd /\ t.vsw = s.vsw /\ t.held = s.held
        /\ t.vsync = s.vsync /\ t.flags = s.flags
    BY DEF SamePlace, Counters
  <2> HIDE DEF t
  <2> QED BY <2>1, AlikeFields
<1> QED BY <1>1, <1>2, AlikeSelf

LEMMA CountLineAlike == ASSUME NEW s \in Counters PROVE Alike(s, CountLine(s))
<1>1. ASSUME NEW n \in Int, NEW on, [s EXCEPT !.ga = n] \in Counters
      PROVE  Alike(s, Raise([s EXCEPT !.ga = n], on))
  <2> DEFINE t == [s EXCEPT !.ga = n]
  <2>1. SamePlace(s, t) /\ t.lastEnd = s.lastEnd /\ t.vsw = s.vsw /\ t.held = s.held
        /\ t.vsync = s.vsync /\ t.flags = s.flags
    BY DEF SamePlace, Counters
  <2>2. t \in Counters
    BY <1>1
  <2> HIDE DEF t
  <2>3. Alike(s, t)
    BY <2>1, <2>2, AlikeFields
  <2>4. Alike(s, Raise(t, on))
    BY <2>2, <2>3, RaiseAlike, AlikeBoth
  <2> QED BY <2>4 DEF t
<1>2. s.ga \in 0 .. IntLines - 1 /\ IntLines \in Nat \ {0}
  BY Ranges DEF Counters
<1> DEFINE n == s.ga + 1
<1>3. n \in Int /\ (n = IntLines \/ n \in 0 .. IntLines - 1) /\ 0 \in 0 .. IntLines - 1
  BY <1>2
<1>4. ASSUME NEW g \in 0 .. IntLines - 1 PROVE [s EXCEPT !.ga = g] \in Counters
  BY DEF Counters
<1>5. CountLine(s) = IF n = IntLines THEN Raise([s EXCEPT !.ga = 0], s.pri = 0)
                     ELSE Raise([s EXCEPT !.ga = n], s.pri # 0 /\ s.sl = s.pri)
  BY DEF CountLine, Counters
<1> HIDE DEF n
<1>6. Alike(s, Raise([s EXCEPT !.ga = 0], s.pri = 0))
  BY <1>1, <1>3, <1>4
<1>7. CASE n = IntLines
  BY <1>5, <1>6, <1>7
<1>8. CASE n # IntLines
  BY <1>1, <1>3, <1>4, <1>5, <1>8
<1> QED BY <1>7, <1>8

LEMMA DelayedVSyncAlike == ASSUME NEW s \in Counters PROVE Alike(s, DelayedVSync(s))
<1>1. CASE s.hs = 0
  BY <1>1, AlikeSelf DEF DelayedVSync
<1>2. CASE s.hs # 0
  <2> DEFINE hs == s.hs - 1
             t == [s EXCEPT !.hs = hs]
             u == Raise(t, t.ga >= Margin /\ t.pri = 0)
             perFrame == IF u.calm >= 2 THEN u.raises ELSE 0
             calm == OnceMore(u.calm)
             v == [u EXCEPT !.ga = 0, !.perFrame = perFrame, !.raises = 0, !.calm = calm]
  <2>1. hs \in 0 .. 2
    BY <1>2 DEF Counters
  <2>2. DelayedVSync(s) \in {t, v}
    BY <1>2 DEF DelayedVSync
  <2> HIDE DEF hs
  <2>3. Alike(s, t)
    <3>1. t \in Counters /\ t.flags = s.flags
      BY <2>1 DEF Counters
    <3>2. SamePlace(s, t) /\ t.lastEnd = s.lastEnd /\ t.vsw = s.vsw /\ t.held = s.held
          /\ t.vsync = s.vsync
      BY DEF SamePlace, Counters
    <3> HIDE DEF t
    <3> QED BY <3>1, <3>2, AlikeFields
  <2> HIDE DEF t
  <2>4. Alike(t, u) /\ u \in Counters
    BY <2>3, RaiseAlike DEF Alike
  <2> HIDE DEF u
  <2>5. Alike(u, v)
    <3>1. perFrame \in Nat /\ calm \in 0 .. 3 /\ 0 \in 0 .. IntLines - 1
      BY <2>4, OnceMoreTyped, Ranges DEF Counters
    <3> HIDE DEF perFrame, calm
    <3>2. v \in Counters /\ v.flags = u.flags
      BY <2>4, <3>1 DEF Counters
    <3>3. SamePlace(u, v) /\ v.lastEnd = u.lastEnd /\ v.vsw = u.vsw /\ v.held = u.held
          /\ v.vsync = u.vsync
      BY <2>4 DEF SamePlace, Counters
    <3> HIDE DEF v
    <3> QED BY <2>4, <3>2, <3>3, AlikeFields
  <2> HIDE DEF v
  <2> QED BY <2>2, <2>3, <2>4, <2>5, AlikeBoth
<1> QED BY <1>1, <1>2

LEMMA HSyncFlag ==
  ASSUME NEW s \in Counters
  PROVE  Alike(s, Set(s, "inHSYNC")) /\ Alike(s, Clear(s, "inHSYNC"))
<1> DEFINE on == Set(s, "inHSYNC")
           off == Clear(s, "inHSYNC")
<1>1. on \in Counters /\ off \in Counters
  BY FlagKept DEF Keeps, Flags
<1>2. on.flags = s.flags \cup {"inHSYNC"} /\ off.flags = s.flags \ {"inHSYNC"}
  BY DEF Set, Clear, Counters
<1>3. /\ SamePlace(s, on) /\ on.lastEnd = s.lastEnd /\ on.vsw = s.vsw /\ on.held = s.held
      /\ on.vsync = s.vsync
      /\ SamePlace(s, off) /\ off.lastEnd = s.lastEnd /\ off.vsw = s.vsw /\ off.held = s.held
      /\ off.vsync = s.vsync
  BY DEF SamePlace, Set, Clear, Counters
<1> HIDE DEF on, off
<1>4. on.flags \cup {"inHSYNC"} = s.flags \cup {"inHSYNC"}
      /\ off.flags \cup {"inHSYNC"} = s.flags \cup {"inHSYNC"}
  BY <1>2
<1>5. Alike(s, on) /\ Alike(s, off)
  BY <1>1, <1>3, <1>4, AlikeFields
<1> QED BY <1>5 DEF on, off

LEMMA HSyncAlike == ASSUME NEW s \in Counters PROVE Alike(s, HSync(s))
<1>1. ASSUME NEW x \in Counters, NEW n \in 0 .. SyncMod - 1
      PROVE  Alike(x, [x EXCEPT !.hsw = n])
  <2> DEFINE t == [x EXCEPT !.hsw = n]
  <2>1. t \in Counters /\ t.flags = x.flags
    BY DEF Counters
  <2>2. SamePlace(x, t) /\ t.lastEnd = x.lastEnd /\ t.vsw = x.vsw /\ t.held = x.held
        /\ t.vsync = x.vsync
    BY DEF SamePlace, Counters
  <2> HIDE DEF t
  <2>3. Alike(x, t)
    BY <2>1, <2>2, AlikeFields
  <2> QED BY <2>3 DEF t
<1>2. ASSUME NEW x \in Counters PROVE Alike(x, match_hsw(x))
  <2> DEFINE t == CountLine(x)
             u == DelayedVSync(t)
             c == Clear(u, "inHSYNC")
             hsw == (x.hsw + 1) % SyncMod
  <2>1. hsw \in 0 .. SyncMod - 1
    <3>1. x.hsw \in Nat
      BY Ranges DEF Counters
    <3> QED BY <3>1, Ranges, Wraps
  <2>2. match_hsw(x) \in {c, [x EXCEPT !.hsw = hsw]}
    BY DEF match_hsw
  <2> HIDE DEF hsw
  <2>3. Alike(x, t)
    BY CountLineAlike
  <2> HIDE DEF t
  <2>4. Alike(t, u)
    BY <2>3, DelayedVSyncAlike DEF Alike
  <2> HIDE DEF u
  <2>5. Alike(u, c)
    BY <2>4, HSyncFlag DEF Alike
  <2> HIDE DEF c
  <2>6. Alike(x, c)
    BY <2>3, <2>4, <2>5, AlikeBoth
  <2>7. Alike(x, [x EXCEPT !.hsw = hsw])
    BY <1>1, <2>1
  <2> QED BY <2>2, <2>6, <2>7
<1> DEFINE t == Set(s, "inHSYNC")
           u == [t EXCEPT !.hsw = 0]
<1>3. HSync(s) \in {match_hsw(s), match_hsw(u), s}
  BY DEF HSync
<1>4. Alike(s, t)
  BY HSyncFlag
<1> HIDE DEF t
<1>5. 0 \in 0 .. SyncMod - 1 /\ t \in Counters
  BY <1>4, Ranges DEF Alike
<1>6. Alike(t, u)
  BY <1>1, <1>5
<1> HIDE DEF u
<1>7. Alike(s, match_hsw(u)) /\ Alike(s, match_hsw(s))
  BY <1>2, <1>4, <1>6, AlikeBoth DEF Alike
<1> QED BY <1>3, <1>7, AlikeSelf

\* What Set, Clear and Put do to the fields and to the flags.
SameFields(s, t) ==
  /\ SamePlace(s, t) /\ t.lastEnd = s.lastEnd /\ t.vsw = s.vsw /\ t.held = s.held
  /\ t.vsync = s.vsync
LEMMA FlagSet ==
  ASSUME NEW s \in Counters, NEW flag
  PROVE  /\ SameFields(s, Set(s, flag)) /\ SameFields(s, Clear(s, flag))
         /\ \A g : Has(Set(s, flag), g) <=> g = flag \/ Has(s, g)
         /\ \A g : Has(Clear(s, flag), g) <=> g # flag /\ Has(s, g)
<1>1. SameFields(s, Set(s, flag)) /\ SameFields(s, Clear(s, flag))
  BY DEF SameFields, SamePlace, Set, Clear, Counters
<1>2. Set(s, flag).flags = s.flags \cup {flag} /\ Clear(s, flag).flags = s.flags \ {flag}
  BY DEF Set, Clear, Counters
<1> QED BY <1>1, <1>2 DEF Has

LEMMA FlagPut ==
  ASSUME NEW s \in Counters, NEW flag, NEW on \in BOOLEAN
  PROVE  /\ SameFields(s, Put(s, flag, on))
         /\ \A g : Has(Put(s, flag, on), g) <=> IF g = flag THEN on ELSE Has(s, g)
BY FlagSet DEF Put

\* A record that differs in the flags only.
LEMMA FlagsAre ==
  ASSUME NEW s \in Counters, NEW flags
  PROVE  /\ SameFields(s, [s EXCEPT !.flags = flags])
         /\ \A g : Has([s EXCEPT !.flags = flags], g) <=> g \in flags
BY DEF SameFields, SamePlace, Has, Counters

LEMMA EnterVSyncFrame == ASSUME NEW s \in Counters PROVE SameFrame(s, EnterVSync(s))
<1> DEFINE t == Clear(s, "resvsync")
           u == Set(t, "invsync")
           v == [u EXCEPT !.vsw = 0, !.hs = 2]
<1>1. EnterVSync(s) \in {t, v}
  BY DEF EnterVSync
<1>2. t \in Counters /\ u \in Counters
  BY FlagKept DEF Keeps, Flags
<1>3. SameFrame(s, t)
  BY FlagSet DEF SameFrame, SameRequests, SameFields
<1> HIDE DEF t
<1>4. SameFrame(t, u)
  BY <1>2, FlagSet DEF SameFrame, SameRequests, SameFields
<1> HIDE DEF u
<1>5. v.flags = u.flags /\ SamePlace(u, v)
  BY <1>2 DEF Counters, SamePlace
<1> HIDE DEF v
<1>6. SameFrame(u, v)
  BY <1>5 DEF SameFrame, SameRequests, Has
<1> QED BY <1>1, <1>3, <1>4, <1>6 DEF SameFrame, SamePlace, SameRequests

LEMMA MatchFrame == ASSUME NEW s \in Counters PROVE SameFrame(s, match_line_count(s))
<1> DEFINE t == IF s.lastEnd >= 2 /\ ~Has(s, "r7match") THEN EnterVSync(s) ELSE s
<1>1. t \in Counters /\ SameFrame(s, t)
  BY EnterVSyncKept, EnterVSyncFrame, AlikeSelf DEF Keeps, Alike
<1>2. match_line_count(s) \in {Clear(s, "r7match"), Set(t, "r7match")}
  BY DEF match_line_count
<1> HIDE DEF t
<1>3. SameFrame(s, Clear(s, "r7match")) /\ SameFrame(t, Set(t, "r7match"))
  BY <1>1, FlagSet DEF SameFrame, SameRequests, SameFields
<1> QED BY <1>1, <1>2, <1>3 DEF SameFrame, SamePlace, SameRequests

LEMMA CountVSyncFrame == ASSUME NEW s \in Counters PROVE SameFrame(s, CountVSync(s))
<1> DEFINE n == (s.vsw + 1) % SyncMod
           t == Set(s, "resvsync")
           u == [t EXCEPT !.vsw = 0]
           v == [s EXCEPT !.vsw = n]
<1>1. CountVSync(s) \in {s, u, v}
  BY DEF CountVSync
<1>2. t \in Counters
  BY FlagKept DEF Keeps, Flags
<1>3. SameFrame(s, t) /\ SameFrame(s, s)
  BY FlagSet DEF SameFrame, SameRequests, SameFields, SamePlace
<1> HIDE DEF n, t
<1>4. u.flags = t.flags /\ v.flags = s.flags /\ SamePlace(t, u) /\ SamePlace(s, v)
  BY <1>2 DEF Counters, SamePlace
<1> HIDE DEF u, v
<1>5. SameFrame(t, u) /\ SameFrame(s, v)
  BY <1>4 DEF SameFrame, SameRequests, Has
<1> QED BY <1>1, <1>3, <1>5 DEF SameFrame, SamePlace, SameRequests

LEMMA EndScanFrame == ASSUME NEW s \in Counters PROVE SameFrame(s, EndScan(s))
<1> DEFINE over == Has(s, "invsync") /\ Has(s, "resvsync")
           vsync == IF s.steady >= 2 THEN s.held ELSE 0
           held == IF Has(s, "invsync") /\ s.steady > 0 THEN Counted(s.held) ELSE 0
           flags == s.flags \ {"invsync", "resvsync"}
           ended == [s EXCEPT !.flags = flags, !.vsync = vsync, !.held = 0]
           goes == [s EXCEPT !.held = held]
           t == IF over THEN ended ELSE goes
<1>1. EndScan(s) \in {t, frame_finished(t)}
  BY DEF EndScan
<1>2. SamePlace(s, ended) /\ SamePlace(s, goes) /\ ended.flags = flags /\ goes.flags = s.flags
      /\ DOMAIN ended = DOMAIN s /\ DOMAIN goes = DOMAIN s
  BY DEF SamePlace, Counters
<1> HIDE DEF ended, goes, over
<1>3. SameFrame(s, ended) /\ SameFrame(s, goes)
  BY <1>2 DEF SameFrame, SameRequests, Has
<1>4. SameFrame(s, t)
  BY <1>3
<1>5. DOMAIN t = DOMAIN s
  BY <1>2
<1> HIDE DEF t
<1>6. SamePlace(t, frame_finished(t)) /\ frame_finished(t).flags = t.flags
  BY <1>5 DEF frame_finished, SamePlace, Counters
<1> HIDE DEF flags
<1>7. SameFrame(s, frame_finished(t))
  BY <1>4, <1>6 DEF SameFrame, SamePlace, SameRequests, Has
<1> QED BY <1>1, <1>4, <1>7

(***************************************************************************)
(* The stages before a line begins: what each makes of the fields and of   *)
(* the flags.                                                              *)
(***************************************************************************)
SameLines(s, t) ==
  /\ t.R = s.R /\ t.line = s.line /\ t.raster = s.raster
  /\ t.steady = s.steady /\ t.lines = s.lines /\ t.frame = s.frame
  /\ t.vsw = s.vsw /\ t.held = s.held /\ t.vsync = s.vsync

LEMMA CharCounted ==
  ASSUME NEW s \in Counters, ~Has(s, "newscan"), NEW length \in Int,
         NEW t, t = CountChar(MonitorLine(s, length))
  PROVE  /\ t \in Counters /\ SameLines(s, t)
         /\ t.reg5 = s.reg5 /\ t.instSL = s.instSL /\ t.instMR = s.instMR
         /\ t.char = IF s.char = s.R[0] THEN 0 ELSE (s.char + 1) % CharMod
         /\ t.lastEnd = IF s.char = s.R[0] THEN s.char ELSE s.lastEnd
         /\ Has(t, "newscan") <=> s.char = s.R[0]
         /\ \A g : g # "newscan" => (Has(t, g) <=> Has(s, g))
<1> DEFINE m == MonitorLine(s, length)
           scanline == s.scanline + 1
           beam == s.beam - 1
<1>1. t \in Counters
  BY CharKept
<1>2. m \in {[s EXCEPT !.beam = length, !.scanline = scanline], [s EXCEPT !.beam = beam]}
  BY DEF MonitorLine
<1> HIDE DEF scanline, beam
<1>3. /\ SameLines(s, m) /\ m.reg5 = s.reg5 /\ m.instSL = s.instSL /\ m.instMR = s.instMR
      /\ m.char = s.char /\ m.lastEnd = s.lastEnd /\ m.flags = s.flags
      /\ DOMAIN m = DOMAIN s
  BY <1>2 DEF SameLines, Counters
<1>4. t = CountChar(m)
  OBVIOUS
<1> HIDE DEF m
<1>5. CASE s.char = s.R[0]
  <2> DEFINE flags == m.flags \cup {"newscan"}
             v == m.char
  <2>1. t = [m EXCEPT !.flags = flags, !.lastEnd = v, !.char = 0]
    BY <1>3, <1>4, <1>5 DEF CountChar, Set, SameLines, Counters
  <2> HIDE DEF flags, v
  <2>2. /\ SameLines(m, t) /\ t.reg5 = m.reg5 /\ t.instSL = m.instSL /\ t.instMR = m.instMR
        /\ t.char = 0 /\ t.lastEnd = v /\ t.flags = flags
    BY <1>3, <2>1 DEF SameLines, Counters
  <2>3. \A g : Has(t, g) <=> g = "newscan" \/ Has(s, g)
    BY <1>3, <2>2 DEF Has, flags
  <2> QED BY <1>1, <1>3, <1>5, <2>2, <2>3 DEF SameLines, v
<1>6. CASE s.char # s.R[0]
  <2> DEFINE char == (m.char + 1) % CharMod
  <2>1. t = [m EXCEPT !.char = char]
    BY <1>3, <1>4, <1>6 DEF CountChar, SameLines
  <2> HIDE DEF char
  <2>2. /\ SameLines(m, t) /\ t.reg5 = m.reg5 /\ t.instSL = m.instSL /\ t.instMR = m.instMR
        /\ t.char = char /\ t.lastEnd = m.lastEnd /\ t.flags = m.flags
    BY <1>3, <2>1 DEF SameLines, Counters
  <2>3. \A g : Has(t, g) <=> Has(s, g)
    BY <1>3, <2>2 DEF Has
  <2> QED BY <1>1, <1>3, <1>6, <2>2, <2>3 DEF SameLines, char
<1> QED BY <1>5, <1>6

\* The requests as AtLineEnd leaves them, at the last character of a line.
LineEnds(s, t) ==
  /\ Has(t, "newscan") <=> Has(s, "newscan")
  /\ Has(t, "reschar") <=> LastRaster(s)
  /\ Has(t, "resframe") <=> Has(s, "resframe") \/ Has(s, "resnext")
  /\ Has(t, "invta") <=> Has(s, "invta") \/ Has(s, "startvta")
  /\ Has(t, "resscan") <=> IF Has(t, "invta") THEN LastLine(s) ELSE Has(s, "resscan")
  /\ ~Has(t, "resnext") /\ ~Has(t, "startvta")
SameVSync(s, t) ==
  /\ Has(t, "invsync") <=> Has(s, "invsync")
  /\ Has(t, "resvsync") <=> Has(s, "resvsync")
  /\ Has(t, "r7match") <=> Has(s, "r7match")

LEMMA LineEnded ==
  ASSUME NEW s \in Counters, NEW t, t = AtLineEnd(s)
  PROVE  /\ t \in Counters /\ SameFields(s, t) /\ SameVSync(s, t)
         /\ s.char # s.R[0] => SameRequests(s, t)
         /\ s.char = s.R[0] => LineEnds(s, t)
<1>1. t \in Counters
  BY LineEndKept DEF Keeps
<1>2. CASE s.char # s.R[0]
  <2>1. t = s
    BY <1>2 DEF AtLineEnd
  <2> QED BY <1>1, <1>2, <2>1 DEF SameFields, SamePlace, SameVSync, SameRequests
<1>3. CASE s.char = s.R[0]
  <2> DEFINE raster == LastRaster(s)
             line == LastLine(s)
             frame == Has(s, "resframe") \/ Has(s, "resnext")
             adjust == Has(s, "invta") \/ Has(s, "startvta")
             a == Put(s, "reschar", raster)
             b == Put(a, "resframe", frame)
             c == Put(b, "invta", adjust)
             flags == c.flags \ {"resnext", "startvta"}
             u == [c EXCEPT !.flags = flags]
             v == Put(u, "resscan", line)
  <2>1. t = IF adjust THEN v ELSE u
    BY <1>3 DEF AtLineEnd
  <2>2. raster \in BOOLEAN /\ line \in BOOLEAN /\ frame \in BOOLEAN /\ adjust \in BOOLEAN
    BY DEF LastRaster, LastLine, Has
  <2>3. {"reschar", "resframe", "invta", "resscan"} \subseteq Flags \ {"newscan"}
    BY DEF Flags
  <2>4. /\ Has(t, "reschar") <=> raster
        /\ Has(t, "resframe") <=> frame
        /\ Has(t, "invta") <=> adjust
        /\ Has(t, "resscan") <=> IF adjust THEN line ELSE Has(s, "resscan")
        /\ ~Has(t, "resnext") /\ ~Has(t, "startvta")
        /\ \A g \in {"newscan", "invsync", "resvsync", "r7match"} : Has(t, g) <=> Has(s, g)
        /\ SameFields(s, t)
    <3> HIDE DEF raster, line, frame, adjust
    <3>1. /\ a \in Counters /\ SameFields(s, a)
          /\ \A g : Has(a, g) <=> IF g = "reschar" THEN raster ELSE Has(s, g)
      BY <2>2, <2>3, FlagPut, FlagKept DEF Keeps
    <3> HIDE DEF a
    <3>2. /\ b \in Counters /\ SameFields(a, b)
          /\ \A g : Has(b, g) <=> IF g = "resframe" THEN frame ELSE Has(a, g)
      BY <2>2, <2>3, <3>1, FlagPut, FlagKept DEF Keeps
    <3> HIDE DEF b
    <3>3. /\ c \in Counters /\ SameFields(b, c)
          /\ \A g : Has(c, g) <=> IF g = "invta" THEN adjust ELSE Has(b, g)
      BY <2>2, <2>3, <3>2, FlagPut, FlagKept DEF Keeps
    <3> HIDE DEF c
    <3>4. flags \in SUBSET Flags
      BY <3>3 DEF Counters
    <3>5. /\ SameFields(c, u) /\ u \in Counters
          /\ \A g : Has(u, g) <=> g \in flags
      <4> HIDE DEF flags
      <4> QED BY <3>3, <3>4, FlagsAre DEF Counters
    <3>6. \A g : Has(u, g) <=> Has(c, g) /\ g # "resnext" /\ g # "startvta"
      BY <3>5 DEF Has, flags
    <3> HIDE DEF flags, u
    <3>7. /\ SameFields(u, v)
          /\ \A g : Has(v, g) <=> IF g = "resscan" THEN line ELSE Has(u, g)
      BY <2>2, <3>5, FlagPut
    <3> HIDE DEF v
    <3>8. SameFields(s, u) /\ SameFields(s, v)
      BY <3>1, <3>2, <3>3, <3>5, <3>7 DEF SameFields, SamePlace
    <3>9. \A g : Has(u, g) <=> CASE g = "reschar" -> raster
                                 [] g = "resframe" -> frame
                                 [] g = "invta" -> adjust
                                 [] OTHER -> Has(s, g) /\ g # "resnext" /\ g # "startvta"
      BY <3>1, <3>2, <3>3, <3>6
    <3>10. /\ Has(u, "reschar") <=> raster
           /\ Has(u, "resframe") <=> frame
           /\ Has(u, "invta") <=> adjust
           /\ Has(u, "resscan") <=> Has(s, "resscan")
           /\ ~Has(u, "resnext") /\ ~Has(u, "startvta")
           /\ \A g \in {"newscan", "invsync", "resvsync", "r7match"} : Has(u, g) <=> Has(s, g)
      BY <3>1, <3>2, <3>3, <3>6
    <3>11. CASE adjust
      BY <2>1, <3>7, <3>8, <3>10, <3>11
    <3>12. CASE ~adjust
      BY <2>1, <3>8, <3>10, <3>12
    <3> QED BY <3>11, <3>12
  <2>5. LineEnds(s, t) /\ SameVSync(s, t)
    BY <2>4 DEF LineEnds, SameVSync
  <2> QED BY <1>1, <1>3, <2>4, <2>5
<1> QED BY <1>2, <1>3

LEMMA DelayedWhich ==
  ASSUME NEW s
  PROVE  /\ s.instMR = 1 => CharInstMR(s) = CharMR1(s)
         /\ s.instMR = 2 => CharInstMR(s) = CharMR2(s)
         /\ s.instMR = 0 => CharInstMR(s) = s
         /\ s.instSL = 1 => CharInstSL(s) = [s EXCEPT !.instSL = 2]
         /\ s.instSL = 2 => CharInstSL(s) = [s EXCEPT !.instSL = 0, !.reg5 = s.R[5]]
         /\ s.instSL = 0 => CharInstSL(s) = s
BY DEF CharInstMR, CharInstSL

LEMMA Delayed ==
  ASSUME NEW s \in Counters, NEW t, t = CharInstMR(CharInstSL(s))
  PROVE  /\ t \in Counters /\ SameLines(s, t) /\ t.char = s.char /\ t.lastEnd = s.lastEnd
         /\ t.instSL = IF s.instSL = 1 THEN 2 ELSE 0
         /\ t.reg5 = IF s.instSL = 2 THEN s.R[5] ELSE s.reg5
         /\ t.instMR = IF s.instMR = 1 THEN 2 ELSE 0
         /\ SameVSync(s, t)
         /\ \A g \in {"newscan", "reschar", "resframe", "resscan"} : Has(t, g) <=> Has(s, g)
         /\ Has(t, "startvta") <=> IF s.instMR = 1 THEN LastLine(s) ELSE Has(s, "startvta")
         /\ Has(t, "invta") <=> Has(s, "invta") /\ ~(s.instMR = 1 /\ LastLine(s))
         /\ Has(t, "resnext") <=> \/ Has(s, "resnext")
                                  \/ s.instMR = 2 /\ Has(s, "startvta") /\ s.line = s.R[4] /\ s.R[5] = 0
<1> DEFINE u == CharInstSL(s)
           v == s.R[5]
<1>1. u \in Counters /\ t \in Counters
  BY DelayedKept DEF Keeps
<1>2. s.instSL \in {0, 1, 2} /\ s.instMR \in {0, 1, 2}
  BY DEF Counters
<1>3. /\ s.instSL = 1 => u = [s EXCEPT !.instSL = 2]
      /\ s.instSL = 2 => u = [s EXCEPT !.instSL = 0, !.reg5 = v]
      /\ s.instSL = 0 => u = s
  BY DelayedWhich
<1> HIDE DEF v
<1>4. /\ SameLines(s, u) /\ u.char = s.char /\ u.lastEnd = s.lastEnd /\ u.flags = s.flags
      /\ u.instMR = s.instMR
      /\ u.instSL = (IF s.instSL = 1 THEN 2 ELSE 0)
      /\ u.reg5 = (IF s.instSL = 2 THEN v ELSE s.reg5)
  <2>1. CASE s.instSL = 1
    BY <1>3, <2>1 DEF SameLines, Counters
  <2>2. CASE s.instSL = 2
    <3>1. u = [s EXCEPT !.instSL = 0, !.reg5 = v]
      BY <1>3, <2>2
    <3>2. u.instSL = 0 /\ u.reg5 = v /\ u.instMR = s.instMR /\ u.flags = s.flags
      BY <3>1 DEF Counters
    <3>3. SameLines(s, u) /\ u.char = s.char /\ u.lastEnd = s.lastEnd
      BY <3>1 DEF SameLines, Counters
    <3> QED BY <2>2, <3>2, <3>3
  <2>3. CASE s.instSL = 0
    BY <1>3, <2>3 DEF SameLines, Counters
  <2> QED BY <1>2, <2>1, <2>2, <2>3
<1>5. t = CharInstMR(u)
  OBVIOUS
<1> HIDE DEF u
<1>6. \A g : Has(u, g) <=> Has(s, g)
  BY <1>4 DEF Has
<1>7. LastLine(u) <=> LastLine(s)
  BY <1>4 DEF LastLine, LastRaster, SameLines
<1>8. ASSUME NEW f \in Counters, SameFields(u, f), NEW n \in {0, 2}, t = [f EXCEPT !.instMR = n]
      PROVE  /\ SameLines(u, t) /\ t.char = u.char /\ t.lastEnd = u.lastEnd /\ t.reg5 = u.reg5
             /\ t.instSL = u.instSL /\ t.instMR = n /\ \A g : Has(t, g) <=> Has(f, g)
  <2>1. t.flags = f.flags /\ t.instMR = n /\ SameLines(f, t) /\ t.char = f.char
        /\ t.lastEnd = f.lastEnd /\ t.reg5 = f.reg5 /\ t.instSL = f.instSL
    BY <1>8 DEF Counters, SameLines
  <2>2. SameLines(u, t) /\ t.char = u.char /\ t.lastEnd = u.lastEnd /\ t.reg5 = u.reg5
        /\ t.instSL = u.instSL
    BY <1>8, <2>1 DEF SameFields, SamePlace, SameLines
  <2> QED BY <2>1, <2>2 DEF Has
<1>9. CASE s.instMR = 1
  <2> DEFINE c == Clear(u, "invta")
             on == Set(c, "startvta")
             off == Clear(u, "startvta")
             f == IF LastLine(u) THEN on ELSE off
  <2>1. t = [f EXCEPT !.instMR = 2]
    BY <1>4, <1>5, <1>9, DelayedWhich DEF CharMR1
  <2>2. c \in Counters /\ SameFields(u, c) /\ \A g : Has(c, g) <=> g # "invta" /\ Has(u, g)
    BY <1>1, FlagSet, FlagKept DEF Keeps, Flags
  <2>3. off \in Counters /\ SameFields(u, off)
        /\ \A g : Has(off, g) <=> g # "startvta" /\ Has(u, g)
    BY <1>1, FlagSet, FlagKept DEF Keeps, Flags
  <2> HIDE DEF c, off
  <2>4. on \in Counters /\ SameFields(c, on) /\ \A g : Has(on, g) <=> g = "startvta" \/ Has(c, g)
    BY <2>2, FlagSet, FlagKept DEF Keeps, Flags
  <2> HIDE DEF on
  <2>5. SameFields(u, on)
    BY <2>2, <2>4 DEF SameFields, SamePlace
  <2>6. CASE LastLine(s)
    <3>1. /\ SameLines(u, t) /\ t.char = u.char /\ t.lastEnd = u.lastEnd /\ t.reg5 = u.reg5
          /\ t.instSL = u.instSL /\ t.instMR = 2 /\ \A g : Has(t, g) <=> Has(on, g)
      BY <1>7, <1>8, <2>1, <2>4, <2>5, <2>6
    <3>2. /\ Has(t, "startvta") /\ ~Has(t, "invta") /\ (Has(t, "resnext") <=> Has(s, "resnext"))
          /\ SameVSync(s, t)
          /\ \A g \in {"newscan", "reschar", "resframe", "resscan"} : Has(t, g) <=> Has(s, g)
      BY <1>6, <2>2, <2>4, <3>1 DEF SameVSync
    <3>3. SameLines(s, t)
      BY <1>4, <3>1 DEF SameLines
    <3> QED BY <1>1, <1>4, <1>9, <2>6, <3>1, <3>2, <3>3 DEF v
  <2>7. CASE ~LastLine(s)
    <3>1. /\ SameLines(u, t) /\ t.char = u.char /\ t.lastEnd = u.lastEnd /\ t.reg5 = u.reg5
          /\ t.instSL = u.instSL /\ t.instMR = 2 /\ \A g : Has(t, g) <=> Has(off, g)
      BY <1>7, <1>8, <2>1, <2>3, <2>7
    <3>2. /\ ~Has(t, "startvta") /\ (Has(t, "invta") <=> Has(s, "invta"))
          /\ (Has(t, "resnext") <=> Has(s, "resnext")) /\ SameVSync(s, t)
          /\ \A g \in {"newscan", "reschar", "resframe", "resscan"} : Has(t, g) <=> Has(s, g)
      BY <1>6, <2>3, <3>1 DEF SameVSync
    <3>3. SameLines(s, t)
      BY <1>4, <3>1 DEF SameLines
    <3> QED BY <1>1, <1>4, <1>9, <2>7, <3>1, <3>2, <3>3 DEF v
  <2> QED BY <2>6, <2>7
<1>10. CASE s.instMR = 2
  <2> DEFINE on == Has(u, "resnext") \/ (Has(u, "startvta") /\ u.line = u.R[4] /\ u.R[5] = 0)
             f == Put(u, "resnext", on)
  <2>1. t = [f EXCEPT !.instMR = 0]
    BY <1>4, <1>5, <1>10, DelayedWhich DEF CharMR2
  <2>2. on \in BOOLEAN
    BY DEF Has
  <2>3. on <=> \/ Has(s, "resnext")
               \/ s.instMR = 2 /\ Has(s, "startvta") /\ s.line = s.R[4] /\ s.R[5] = 0
    BY <1>4, <1>6, <1>10 DEF SameLines
  <2> HIDE DEF on
  <2>4. f \in Counters /\ SameFields(u, f)
        /\ \A g : Has(f, g) <=> IF g = "resnext" THEN on ELSE Has(u, g)
    BY <1>1, <2>2, FlagPut, FlagKept DEF Keeps, Flags
  <2> HIDE DEF f
  <2>5. /\ SameLines(u, t) /\ t.char = u.char /\ t.lastEnd = u.lastEnd /\ t.reg5 = u.reg5
        /\ t.instSL = u.instSL /\ t.instMR = 0 /\ \A g : Has(t, g) <=> Has(f, g)
    BY <1>8, <2>1, <2>4
  <2>6. /\ (Has(t, "startvta") <=> Has(s, "startvta")) /\ (Has(t, "invta") <=> Has(s, "invta"))
        /\ (Has(t, "resnext") <=> on) /\ SameVSync(s, t)
        /\ \A g \in {"newscan", "reschar", "resframe", "resscan"} : Has(t, g) <=> Has(s, g)
    BY <1>6, <2>4, <2>5 DEF SameVSync
  <2>7. SameLines(s, t)
    BY <1>4, <2>5 DEF SameLines
  <2> QED BY <1>1, <1>4, <1>10, <2>3, <2>5, <2>6, <2>7 DEF v
<1>11. CASE s.instMR = 0
  <2>1. t = u
    BY <1>4, <1>5, <1>11, DelayedWhich
  <2> QED BY <1>1, <1>4, <1>6, <1>11, <2>1 DEF SameVSync, v
<1> QED BY <1>2, <1>9, <1>10, <1>11

(***************************************************************************)
(* Registers whose frames have the lines they ask for.                     *)
(***************************************************************************)
Proper(R) ==
  /\ R[0] \in 2 .. CharMod - 1 /\ R[4] \in 0 .. LineMod - 1
  /\ R[5] \in 0 .. RasterMod - 1 /\ R[9] \in 0 .. RasterMod - 1
  /\ R[4] = 0 /\ R[9] = 0 => R[5] = 0
  /\ Lines(R) <= SlTop

\* Where in the line it is, and what the delayed functions have still to do there.
Aligned(s) ==
  /\ s.char \in 0 .. s.R[0]
  /\ s.instSL = (IF s.char = 0 THEN 1 ELSE IF s.char = 1 THEN 2 ELSE 0)
  /\ s.char = 1 => s.instMR \in {0, 2}
  /\ s.char >= 2 => s.instMR = 0 /\ s.reg5 = s.R[5]
  /\ s.char = s.R[0] => ~Has(s, "startvta") /\ ~Has(s, "resnext")

\* The scan lines of the frame before this one, and before the adjustment.
Position(s) == s.line * (s.R[9] + 1) + s.raster
Before(R) == (R[4] + 1) * (R[9] + 1)

\* In the character lines, and in the adjustment after the last one.
Regular(s) ==
  /\ s.line \in 0 .. s.R[4] /\ s.raster \in 0 .. s.R[9]
  /\ s.lines = Position(s)
  /\ Has(s, "resscan") <=> LastRaster(s)
  /\ s.char = 0 => /\ ~Has(s, "startvta") /\ s.instMR \in {0, 1}
                   /\ LastLine(s) => s.instMR = 1
  /\ s.char = 1 /\ LastLine(s) => s.instMR = 2
  /\ s.char \in 1 .. s.R[0] - 1 => (Has(s, "startvta") <=> LastLine(s))
  /\ Has(s, "resnext") => LastLine(s) /\ s.R[5] = 0
  /\ Has(s, "resframe") => s.char = s.R[0] /\ LastLine(s) /\ s.R[5] = 0
  /\ Has(s, "invta") <=> s.char = s.R[0] /\ LastLine(s)
  /\ s.char = s.R[0] => (Has(s, "reschar") <=> LastRaster(s))
Adjusting(s) ==
  /\ s.raster \in 0 .. s.R[5] - 1
  /\ s.lines = Before(s.R) + s.raster
  /\ s.line = (s.R[4] + (IF s.raster <= s.R[9] THEN 1 ELSE 2)) % LineMod
  /\ Has(s, "invta") /\ ~Has(s, "startvta") /\ ~Has(s, "resnext") /\ ~Has(s, "resframe")
  /\ s.char = 0 => s.instMR \in {0, 1}
  /\ s.char = s.R[0] => ~Has(s, "resscan") /\ (Has(s, "reschar") <=> LastRaster(s))

\* The adjustment has no line with the number of the last one.
LEMMA Beyond ==
  ASSUME LineMod > 2, NEW s, Proper(s.R), Adjusting(s)
  PROVE  ~LastLine(s)
<1>1. LineMod \in Nat /\ s.R[4] \in Nat /\ s.R[4] < LineMod
  BY Ranges DEF Proper
<1>2. \A n \in Nat : n < LineMod => (n + 1) % LineMod # n /\ (n + 2) % LineMod # n
  <2> SUFFICES ASSUME NEW n \in Nat, n < LineMod
               PROVE  (n + 1) % LineMod # n /\ (n + 2) % LineMod # n
    OBVIOUS
  <2>1. CASE n + 2 < LineMod
    BY <1>1, <2>1
  <2>2. CASE n + 2 = LineMod
    BY <1>1, <2>2
  <2>3. CASE n + 1 = LineMod
    BY <1>1, <2>3
  <2> QED BY <1>1, <2>1, <2>2, <2>3
<1>3. s.line = (s.R[4] + 1) % LineMod \/ s.line = (s.R[4] + 2) % LineMod
  BY DEF Adjusting
<1> QED BY <1>1, <1>2, <1>3 DEF LastLine

\* A microsecond within a line.
LEMMA WithinLine ==
  ASSUME NEW s \in Counters, ~Has(s, "newscan"), NEW length \in Int, s.char # s.R[0],
         s.R[0] \in 2 .. CharMod - 1, Aligned(s),
         NEW t, t = CharInstMR(CharInstSL(HSync(AtLineEnd(CountChar(MonitorLine(s, length))))))
  PROVE  /\ t \in Counters /\ ~Has(t, "newscan") /\ SameLines(s, t) /\ SameVSync(s, t)
         /\ t.lastEnd = s.lastEnd /\ t.char = s.char + 1 /\ Aligned(t)
         /\ Regular(s) => Regular(t)
         /\ LineMod > 2 /\ Proper(s.R) /\ Adjusting(s) => Adjusting(t)
<1> DEFINE c == CountChar(MonitorLine(s, length))
           a == AtLineEnd(c)
           h == HSync(a)
<1>1. /\ c \in Counters /\ SameLines(s, c)
      /\ c.reg5 = s.reg5 /\ c.instSL = s.instSL /\ c.instMR = s.instMR
      /\ c.char = (s.char + 1) % CharMod /\ c.lastEnd = s.lastEnd /\ ~Has(c, "newscan")
      /\ \A g : g # "newscan" => (Has(c, g) <=> Has(s, g))
  BY CharCounted
<1>2. s.char + 1 \in 1 .. s.R[0] /\ s.char \in Nat /\ s.R[0] \in Nat /\ s.R[0] >= 2 /\ c.char = s.char + 1
  <2>1. CharMod \in Nat /\ s.char \in 0 .. s.R[0] /\ s.R[0] \in Nat /\ s.R[0] >= 2 /\ s.R[0] < CharMod
    BY Ranges DEF Aligned
  <2>2. s.char + 1 \in 1 .. s.R[0]
    BY <2>1
  <2>3. (s.char + 1) % CharMod = s.char + 1
    BY <2>1, <2>2
  <2> QED BY <1>1, <2>1, <2>2, <2>3
<1> HIDE DEF c
<1>3. /\ a \in Counters /\ SameFields(c, a) /\ SameVSync(c, a)
      /\ c.char # c.R[0] => SameRequests(c, a)
      /\ c.char = c.R[0] => LineEnds(c, a)
  BY <1>1, LineEnded
<1> HIDE DEF a
<1>4. h \in Counters /\ Alike(a, h)
  BY <1>3, HSyncAlike DEF Alike
<1>5. /\ SameLines(s, h) /\ h.char = s.char + 1 /\ h.lastEnd = s.lastEnd /\ h.reg5 = s.reg5
      /\ h.instSL = s.instSL /\ h.instMR = s.instMR /\ SameVSync(s, h) /\ ~Has(h, "newscan")
  <2>1. SameLines(s, h) /\ h.char = s.char + 1 /\ h.lastEnd = s.lastEnd /\ h.reg5 = s.reg5
        /\ h.instSL = s.instSL /\ h.instMR = s.instMR
    BY <1>1, <1>2, <1>3, <1>4 DEF SameFields, SameLines, Alike, SameFrame, SamePlace, SameSync
  <2>2. SameVSync(s, h)
    BY <1>1, <1>3, <1>4 DEF SameVSync, Alike, SameSync
  <2>3. ~Has(h, "newscan")
    BY <1>1, <1>3, <1>4 DEF SameRequests, LineEnds, Alike, SameFrame
  <2> QED BY <2>1, <2>2, <2>3
<1>6. s.char + 1 # s.R[0] =>
        /\ Has(h, "reschar") <=> Has(s, "reschar")
        /\ Has(h, "resframe") <=> Has(s, "resframe")
        /\ Has(h, "resscan") <=> Has(s, "resscan")
        /\ Has(h, "resnext") <=> Has(s, "resnext")
        /\ Has(h, "startvta") <=> Has(s, "startvta")
        /\ Has(h, "invta") <=> Has(s, "invta")
  BY <1>1, <1>2, <1>3, <1>4 DEF SameRequests, Alike, SameFrame, SameLines
<1>7. s.char + 1 = s.R[0] =>
        /\ Has(h, "reschar") <=> LastRaster(s)
        /\ Has(h, "resframe") <=> Has(s, "resframe") \/ Has(s, "resnext")
        /\ Has(h, "invta") <=> Has(s, "invta") \/ Has(s, "startvta")
        /\ Has(h, "resscan") <=> IF Has(h, "invta") THEN LastLine(s) ELSE Has(s, "resscan")
        /\ ~Has(h, "resnext") /\ ~Has(h, "startvta")
  <2> SUFFICES ASSUME s.char + 1 = s.R[0]
               PROVE  /\ Has(h, "reschar") <=> LastRaster(s)
                      /\ Has(h, "resframe") <=> Has(s, "resframe") \/ Has(s, "resnext")
                      /\ Has(h, "invta") <=> Has(s, "invta") \/ Has(s, "startvta")
                      /\ Has(h, "resscan") <=> IF Has(h, "invta") THEN LastLine(s) ELSE Has(s, "resscan")
                      /\ ~Has(h, "resnext") /\ ~Has(h, "startvta")
    OBVIOUS
  <2>1. LineEnds(c, a)
    BY <1>1, <1>2, <1>3 DEF SameLines
  <2>2. SameRequests(a, h)
    BY <1>4 DEF Alike, SameFrame
  <2>3. (LastRaster(c) <=> LastRaster(s)) /\ (LastLine(c) <=> LastLine(s))
    BY <1>1 DEF LastLine, LastRaster, SameLines
  <2>4. /\ Has(c, "resframe") <=> Has(s, "resframe")
        /\ Has(c, "resnext") <=> Has(s, "resnext")
        /\ Has(c, "invta") <=> Has(s, "invta")
        /\ Has(c, "startvta") <=> Has(s, "startvta")
        /\ Has(c, "resscan") <=> Has(s, "resscan")
    BY <1>1
  <2> QED BY <2>1, <2>2, <2>3, <2>4 DEF LineEnds, SameRequests
<1>8. t = CharInstMR(CharInstSL(h))
  BY DEF h, a, c
<1> HIDE DEF h
<1>9. LastLine(h) <=> LastLine(s)
  BY <1>5 DEF LastLine, LastRaster, SameLines
<1>10. /\ t \in Counters /\ SameLines(h, t) /\ t.char = h.char /\ t.lastEnd = h.lastEnd
       /\ t.instSL = (IF h.instSL = 1 THEN 2 ELSE 0)
       /\ t.reg5 = (IF h.instSL = 2 THEN h.R[5] ELSE h.reg5)
       /\ t.instMR = (IF h.instMR = 1 THEN 2 ELSE 0)
       /\ SameVSync(h, t)
       /\ \A g \in {"newscan", "reschar", "resframe", "resscan"} : Has(t, g) <=> Has(h, g)
       /\ Has(t, "startvta") <=> IF h.instMR = 1 THEN LastLine(h) ELSE Has(h, "startvta")
       /\ Has(t, "invta") <=> Has(h, "invta") /\ ~(h.instMR = 1 /\ LastLine(h))
       /\ Has(t, "resnext") <=> \/ Has(h, "resnext")
                                \/ h.instMR = 2 /\ Has(h, "startvta") /\ h.line = h.R[4] /\ h.R[5] = 0
  BY <1>4, <1>8, Delayed
<1>11. /\ SameLines(s, t) /\ t.char = s.char + 1 /\ t.lastEnd = s.lastEnd /\ SameVSync(s, t)
       /\ ~Has(t, "newscan")
  <2>1. SameLines(s, t) /\ t.char = s.char + 1 /\ t.lastEnd = s.lastEnd
    BY <1>5, <1>10 DEF SameLines
  <2>2. SameVSync(s, t) /\ ~Has(t, "newscan")
    BY <1>5, <1>10 DEF SameVSync
  <2> QED BY <2>1, <2>2
<1>12. /\ t.instSL = (IF s.instSL = 1 THEN 2 ELSE 0)
       /\ t.reg5 = (IF s.instSL = 2 THEN s.R[5] ELSE s.reg5)
       /\ t.instMR = (IF s.instMR = 1 THEN 2 ELSE 0)
       /\ Has(t, "reschar") <=> Has(h, "reschar")
       /\ Has(t, "resframe") <=> Has(h, "resframe")
       /\ Has(t, "resscan") <=> Has(h, "resscan")
       /\ Has(t, "startvta") <=> IF s.instMR = 1 THEN LastLine(s) ELSE Has(h, "startvta")
       /\ Has(t, "invta") <=> Has(h, "invta") /\ ~(s.instMR = 1 /\ LastLine(s))
       /\ Has(t, "resnext") <=> \/ Has(h, "resnext")
                                \/ s.instMR = 2 /\ Has(h, "startvta") /\ s.line = s.R[4] /\ s.R[5] = 0
  <2>1. h.R = s.R /\ h.line = s.line
    BY <1>5 DEF SameLines
  <2> QED BY <1>5, <1>9, <1>10, <2>1
<1>13. t.R = s.R /\ t.line = s.line /\ t.raster = s.raster /\ t.lines = s.lines
       /\ Position(t) = Position(s)
       /\ (LastLine(t) <=> LastLine(s)) /\ (LastRaster(t) <=> LastRaster(s))
  BY <1>11 DEF SameLines, LastLine, LastRaster, Position
<1>14. Aligned(t)
  <2>1. s.char = 0 => s.instSL = 1
    BY DEF Aligned
  <2>2. s.char = 1 => s.instSL = 2 /\ s.instMR \in {0, 2}
    BY <1>2 DEF Aligned
  <2>3. s.char >= 2 => s.instSL = 0 /\ s.instMR = 0 /\ s.reg5 = s.R[5]
    BY <1>2 DEF Aligned
  <2>4. t.char \in 0 .. t.R[0]
    BY <1>2, <1>11, <1>13
  <2>5. t.instSL = (IF t.char = 0 THEN 1 ELSE IF t.char = 1 THEN 2 ELSE 0)
    BY <1>2, <1>11, <1>12, <2>1, <2>2, <2>3
  <2>6. t.instMR \in {0, 2}
    BY <1>12
  <2>7. t.char >= 2 => t.instMR = 0 /\ t.reg5 = t.R[5]
    BY <1>2, <1>11, <1>12, <1>13, <2>2, <2>3
  <2>8. t.char = t.R[0] => ~Has(t, "startvta") /\ ~Has(t, "resnext")
    BY <1>2, <1>7, <1>11, <1>12, <1>13, <2>2, <2>3
  <2> QED BY <2>4, <2>5, <2>6, <2>7, <2>8 DEF Aligned
<1>15. ASSUME Regular(s) PROVE Regular(t)
  <2>1. /\ t.line \in 0 .. t.R[4] /\ t.raster \in 0 .. t.R[9] /\ t.lines = Position(t)
    BY <1>13, <1>15 DEF Regular
  <2>2. /\ Has(s, "resscan") <=> LastRaster(s)
        /\ s.char = 0 => ~Has(s, "startvta") /\ s.instMR \in {0, 1} /\ (LastLine(s) => s.instMR = 1)
        /\ s.char = 1 /\ LastLine(s) => s.instMR = 2
        /\ s.char >= 1 => (Has(s, "startvta") <=> LastLine(s))
        /\ Has(s, "resnext") => LastLine(s) /\ s.R[5] = 0
        /\ ~Has(s, "resframe") /\ ~Has(s, "invta")
    BY <1>2, <1>15 DEF Regular
  <2>3. LastLine(s) => LastRaster(s)
    BY DEF LastLine
  <2>4. s.instMR = 2 => s.char = 1 \/ s.char = 0
    BY <1>2 DEF Aligned
  <2>5. s.char >= 1 => s.instMR # 1
    BY <1>2 DEF Aligned
  <2>6. CASE s.char + 1 # s.R[0]
    <3>1. Has(t, "resscan") <=> LastRaster(t)
      BY <1>6, <1>12, <1>13, <2>2, <2>6
    <3>2. Has(t, "startvta") <=> LastLine(t)
      BY <1>2, <1>6, <1>12, <1>13, <2>2, <2>5, <2>6
    <3>3. t.char = 1 /\ LastLine(t) => t.instMR = 2
      BY <1>2, <1>11, <1>12, <1>13, <2>2
    <3>4. Has(t, "resnext") => LastLine(t) /\ t.R[5] = 0
      BY <1>2, <1>6, <1>12, <1>13, <2>2, <2>4, <2>6
    <3>5. ~Has(t, "resframe") /\ ~Has(t, "invta")
      BY <1>6, <1>12, <2>2, <2>6
    <3>6. t.char # t.R[0] /\ t.char # 0
      BY <1>2, <1>11, <1>13, <2>6
    <3> QED BY <2>1, <3>1, <3>2, <3>3, <3>4, <3>5, <3>6 DEF Regular
  <2>7. CASE s.char + 1 = s.R[0]
    <3>1. s.char >= 1
      BY <1>2, <2>7
    <3>2. /\ (Has(h, "resscan") <=> LastRaster(s)) /\ (Has(h, "invta") <=> LastLine(s))
          /\ (Has(h, "reschar") <=> LastRaster(s))
          /\ (Has(h, "resframe") => LastLine(s) /\ s.R[5] = 0)
          /\ ~Has(h, "resnext") /\ ~Has(h, "startvta")
      BY <1>7, <2>2, <2>3, <2>7, <3>1
    <3>3. /\ (Has(t, "resscan") <=> LastRaster(t)) /\ (Has(t, "invta") <=> LastLine(t))
          /\ (Has(t, "reschar") <=> LastRaster(t))
          /\ (Has(t, "resframe") => LastLine(t) /\ t.R[5] = 0)
          /\ ~Has(t, "resnext") /\ ~Has(t, "startvta")
      BY <1>12, <1>13, <2>5, <3>1, <3>2
    <3>4. t.char = t.R[0] /\ t.char \in Nat /\ t.char >= 2
      BY <1>2, <1>11, <1>13, <2>7
    <3>5. t.char # 0 /\ t.char # 1 /\ t.char \notin 1 .. t.R[0] - 1
      BY <3>4
    <3> QED BY <2>1, <3>3, <3>4, <3>5 DEF Regular
  <2> QED BY <2>6, <2>7
<1>16. ASSUME LineMod > 2, Proper(s.R), Adjusting(s) PROVE Adjusting(t)
  <2>1. ~LastLine(s)
    BY <1>16, Beyond
  <2>2. /\ t.raster \in 0 .. t.R[5] - 1 /\ t.lines = Before(t.R) + t.raster
        /\ t.line = (t.R[4] + (IF t.raster <= t.R[9] THEN 1 ELSE 2)) % LineMod
    BY <1>13, <1>16 DEF Adjusting
  <2>3. Has(s, "invta") /\ ~Has(s, "startvta") /\ ~Has(s, "resnext") /\ ~Has(s, "resframe")
    BY <1>16 DEF Adjusting
  <2>4. Has(t, "invta") /\ ~Has(t, "startvta") /\ ~Has(t, "resnext") /\ ~Has(t, "resframe")
    BY <1>6, <1>7, <1>12, <2>1, <2>3
  <2>5. t.char = t.R[0] => ~Has(t, "resscan") /\ (Has(t, "reschar") <=> LastRaster(t))
    BY <1>7, <1>11, <1>12, <1>13, <2>1, <2>3
  <2>6. t.char # 0
    BY <1>2, <1>11
  <2> QED BY <2>2, <2>4, <2>5, <2>6 DEF Adjusting
<1> QED BY <1>10, <1>11, <1>14, <1>15, <1>16

(***************************************************************************)
(* The stages of a line that begins.  A stage passes on what Passes and    *)
(* SameRest name.                                                          *)
(***************************************************************************)
Passes(s, t) ==
  /\ t.R = s.R /\ t.char = s.char /\ t.reg5 = s.reg5 /\ t.lastEnd = s.lastEnd
  /\ t.held = s.held /\ t.vsync = s.vsync
  /\ Has(t, "startvta") <=> Has(s, "startvta")
  /\ Has(t, "resnext") <=> Has(s, "resnext")
SameWhere(s, t) ==
  /\ t.line = s.line /\ t.raster = s.raster
  /\ t.steady = s.steady /\ t.lines = s.lines /\ t.frame = s.frame
SameWork(s, t) ==
  /\ t.instSL = s.instSL /\ t.instMR = s.instMR
  /\ Has(t, "newscan") <=> Has(s, "newscan")
SameAsked(s, t) ==
  /\ Has(t, "reschar") <=> Has(s, "reschar")
  /\ Has(t, "resframe") <=> Has(s, "resframe")
  /\ Has(t, "resscan") <=> Has(s, "resscan")
  /\ Has(t, "invta") <=> Has(s, "invta")
SyncKept(s, t) == t.vsw = s.vsw /\ SameVSync(s, t)

\* VSYNC as match_line_count leaves it when it compares the given line.
Enters(s, line) == line = s.R[7] /\ s.lastEnd >= 2 /\ ~Has(s, "r7match")
Matched(s, line, t) ==
  /\ Has(t, "r7match") <=> line = s.R[7]
  /\ Has(t, "invsync") <=> Has(s, "invsync") \/ Enters(s, line)
  /\ Has(t, "resvsync") <=> Has(s, "resvsync") /\ ~Enters(s, line)
  /\ t.vsw = IF Enters(s, line) /\ ~Has(s, "invsync") THEN 0 ELSE s.vsw

LEMMA VSyncEntered ==
  ASSUME NEW s \in Counters, NEW t, t = EnterVSync(s)
  PROVE  /\ t \in Counters /\ t.lastEnd = s.lastEnd /\ t.held = s.held /\ t.vsync = s.vsync
         /\ Has(t, "invsync") /\ ~Has(t, "resvsync")
         /\ Has(t, "r7match") <=> Has(s, "r7match")
         /\ t.vsw = IF Has(s, "invsync") THEN s.vsw ELSE 0
<1> DEFINE c == Clear(s, "resvsync")
           u == Set(c, "invsync")
           v == [u EXCEPT !.vsw = 0, !.hs = 2]
<1>1. t \in Counters
  BY EnterVSyncKept DEF Keeps
<1>2. c \in Counters /\ SameFields(s, c) /\ \A g : Has(c, g) <=> g # "resvsync" /\ Has(s, g)
  BY FlagSet, FlagKept DEF Keeps, Flags
<1>3. t = IF Has(c, "invsync") THEN c ELSE v
  BY DEF EnterVSync
<1> HIDE DEF c
<1>4. u \in Counters /\ SameFields(c, u) /\ \A g : Has(u, g) <=> g = "invsync" \/ Has(c, g)
  BY <1>2, FlagSet, FlagKept DEF Keeps, Flags
<1> HIDE DEF u
<1>5. v.lastEnd = u.lastEnd /\ v.held = u.held /\ v.vsync = u.vsync /\ v.vsw = 0 /\ v.flags = u.flags
  BY <1>4 DEF Counters
<1> HIDE DEF v
<1>6. \A g : Has(v, g) <=> Has(u, g)
  BY <1>5 DEF Has
<1>7. CASE Has(s, "invsync")
  <2>1. t = c
    BY <1>2, <1>3, <1>7
  <2> QED BY <1>1, <1>2, <1>7, <2>1 DEF SameFields
<1>8. CASE ~Has(s, "invsync")
  <2>1. t = v
    BY <1>2, <1>3, <1>8
  <2>2. Has(t, "invsync") /\ ~Has(t, "resvsync") /\ (Has(t, "r7match") <=> Has(s, "r7match"))
    BY <1>2, <1>4, <1>6, <2>1
  <2> QED BY <1>1, <1>2, <1>4, <1>5, <1>8, <2>1, <2>2 DEF SameFields
<1> QED BY <1>7, <1>8

LEMMA LineMatched ==
  ASSUME NEW s \in Counters, NEW t, t = match_line_count(s)
  PROVE  /\ t \in Counters /\ SameFrame(s, t) /\ Matched(s, s.line, t)
         /\ t.lastEnd = s.lastEnd /\ t.held = s.held /\ t.vsync = s.vsync
<1> DEFINE e == EnterVSync(s)
           m == IF s.lastEnd >= 2 /\ ~Has(s, "r7match") THEN e ELSE s
<1>1. t \in Counters /\ SameFrame(s, t)
  BY MatchLineKept, MatchFrame DEF Keeps
<1>2. CASE s.line # s.R[7]
  <2>1. t = Clear(s, "r7match")
    BY <1>2 DEF match_line_count
  <2>2. SameFields(s, t) /\ \A g : Has(t, g) <=> g # "r7match" /\ Has(s, g)
    BY <2>1, FlagSet
  <2>3. Matched(s, s.line, t)
    BY <1>2, <2>2 DEF Matched, Enters, SameFields
  <2> QED BY <1>1, <2>2, <2>3 DEF SameFields
<1>3. CASE s.line = s.R[7]
  <2>1. t = Set(m, "r7match")
    BY <1>3 DEF match_line_count
  <2>2. /\ e \in Counters /\ e.lastEnd = s.lastEnd /\ e.held = s.held /\ e.vsync = s.vsync
        /\ Has(e, "invsync") /\ ~Has(e, "resvsync")
        /\ e.vsw = IF Has(s, "invsync") THEN s.vsw ELSE 0
    BY VSyncEntered
  <2> HIDE DEF e
  <2>3. m \in Counters /\ m.lastEnd = s.lastEnd /\ m.held = s.held /\ m.vsync = s.vsync
    BY <2>2
  <2>4. /\ Has(m, "invsync") <=> Has(s, "invsync") \/ Enters(s, s.line)
        /\ Has(m, "resvsync") <=> Has(s, "resvsync") /\ ~Enters(s, s.line)
        /\ m.vsw = IF Enters(s, s.line) /\ ~Has(s, "invsync") THEN 0 ELSE s.vsw
    <3>1. Enters(s, s.line) <=> s.lastEnd >= 2 /\ ~Has(s, "r7match")
      BY <1>3 DEF Enters
    <3> QED BY <2>2, <3>1
  <2> HIDE DEF m
  <2>5. SameFields(m, t) /\ \A g : Has(t, g) <=> g = "r7match" \/ Has(m, g)
    BY <2>1, <2>3, FlagSet
  <2>6. Matched(s, s.line, t)
    BY <1>3, <2>4, <2>5 DEF Matched, SameFields
  <2> QED BY <1>1, <2>3, <2>5, <2>6 DEF SameFields
<1> QED BY <1>2, <1>3

\* VSYNC as CountVSync leaves it.
Widened(s, t) ==
  /\ Has(t, "invsync") <=> Has(s, "invsync")
  /\ Has(t, "r7match") <=> Has(s, "r7match")
  /\ IF Has(s, "invsync")
     THEN LET n == (s.vsw + 1) % SyncMod
          IN IF n = s.R[3].vsw THEN Has(t, "resvsync") /\ t.vsw = 0
             ELSE (Has(t, "resvsync") <=> Has(s, "resvsync")) /\ t.vsw = n
     ELSE (Has(t, "resvsync") <=> Has(s, "resvsync")) /\ t.vsw = s.vsw

LEMMA VSyncCounted ==
  ASSUME NEW s \in Counters, NEW t, t = CountVSync(s)
  PROVE  /\ t \in Counters /\ SameFrame(s, t) /\ Widened(s, t)
         /\ t.lastEnd = s.lastEnd /\ t.held = s.held /\ t.vsync = s.vsync
<1> DEFINE n == (s.vsw + 1) % SyncMod
           c == Set(s, "resvsync")
           u == [c EXCEPT !.vsw = 0]
           v == [s EXCEPT !.vsw = n]
<1>1. t \in Counters /\ SameFrame(s, t)
  BY CountVSyncKept, CountVSyncFrame DEF Keeps
<1>2. t = IF ~Has(s, "invsync") THEN s ELSE IF n = s.R[3].vsw THEN u ELSE v
  BY DEF CountVSync
<1>3. c \in Counters /\ SameFields(s, c) /\ \A g : Has(c, g) <=> g = "resvsync" \/ Has(s, g)
  BY FlagSet, FlagKept DEF Keeps, Flags
<1> HIDE DEF c
<1>4. u.lastEnd = c.lastEnd /\ u.held = c.held /\ u.vsync = c.vsync /\ u.vsw = 0 /\ u.flags = c.flags
  BY <1>3 DEF Counters
<1>5. v.lastEnd = s.lastEnd /\ v.held = s.held /\ v.vsync = s.vsync /\ v.vsw = n /\ v.flags = s.flags
  <2> HIDE DEF n
  <2> QED BY DEF Counters
<1> HIDE DEF u, v
<1>6. (\A g : Has(u, g) <=> Has(c, g)) /\ (\A g : Has(v, g) <=> Has(s, g))
  BY <1>4, <1>5 DEF Has
<1>7. CASE ~Has(s, "invsync")
  BY <1>1, <1>2, <1>7 DEF Widened
<1>8. CASE Has(s, "invsync") /\ n = s.R[3].vsw
  <2>1. t = u
    BY <1>2, <1>8
  <2>2. Widened(s, t)
    BY <1>3, <1>4, <1>6, <1>8, <2>1 DEF Widened
  <2> QED BY <1>1, <1>3, <1>4, <2>1, <2>2 DEF SameFields
<1>9. CASE Has(s, "invsync") /\ n # s.R[3].vsw
  <2>1. t = v
    BY <1>2, <1>9
  <2>2. Widened(s, t)
    BY <1>5, <1>6, <1>9, <2>1 DEF Widened
  <2> QED BY <1>1, <1>5, <2>1, <2>2
<1> QED BY <1>7, <1>8, <1>9

LEMMA ScanStarted ==
  ASSUME NEW s \in Counters, NEW t, t = StartScan(s)
  PROVE  /\ t \in Counters /\ Passes(s, t) /\ SameAsked(s, t) /\ Widened(s, t)
         /\ t.line = s.line /\ t.raster = s.raster /\ t.steady = s.steady /\ t.frame = s.frame
         /\ t.instSL = s.instSL /\ t.instMR = s.instMR /\ ~Has(t, "newscan")
         /\ t.lines = IF s.steady = 0 THEN 0 ELSE Counted(s.lines)
<1> DEFINE sl == Counted(s.sl)
           lines == IF s.steady = 0 THEN 0 ELSE Counted(s.lines)
           flags == s.flags \ {"newscan"}
           u == [s EXCEPT !.flags = flags, !.sl = sl, !.lines = lines]
<1>1. sl \in Nat /\ lines \in Nat /\ flags \in SUBSET Flags
  BY CountedTyped DEF Counters
<1>2. t = CountVSync(u)
  BY DEF StartScan, Clear, Counters
<1> HIDE DEF sl, lines
<1>3. \A g : g \in flags <=> g # "newscan" /\ Has(s, g)
  BY DEF Has
<1> HIDE DEF flags
<1>4. u \in Counters
  BY <1>1 DEF Counters
<1>5. /\ u.R = s.R /\ u.char = s.char /\ u.reg5 = s.reg5 /\ u.lastEnd = s.lastEnd
      /\ u.held = s.held /\ u.vsync = s.vsync /\ u.line = s.line /\ u.raster = s.raster
      /\ u.steady = s.steady /\ u.frame = s.frame /\ u.instSL = s.instSL /\ u.instMR = s.instMR
      /\ u.lines = lines /\ u.flags = flags /\ u.vsw = s.vsw
  BY DEF Counters
<1> HIDE DEF u
<1>6. \A g : Has(u, g) <=> g # "newscan" /\ Has(s, g)
  BY <1>3, <1>5 DEF Has
<1>7. /\ t \in Counters /\ SameFrame(u, t) /\ Widened(u, t)
      /\ t.lastEnd = u.lastEnd /\ t.held = u.held /\ t.vsync = u.vsync
  BY <1>2, <1>4, VSyncCounted
<1>8. Widened(s, t)
  BY <1>5, <1>6, <1>7 DEF Widened
<1>9. SamePlace(u, t) /\ SameRequests(u, t)
  BY <1>7 DEF SameFrame
<1>10. Passes(s, t)
  BY <1>5, <1>6, <1>7, <1>9 DEF Passes, SamePlace, SameRequests
<1>11. SameAsked(s, t) /\ ~Has(t, "newscan")
  BY <1>6, <1>9 DEF SameAsked, SameRequests
<1>12. /\ t.line = s.line /\ t.raster = s.raster /\ t.steady = s.steady /\ t.frame = s.frame
       /\ t.instSL = s.instSL /\ t.instMR = s.instMR /\ t.lines = lines
  BY <1>5, <1>9 DEF SamePlace
<1> QED BY <1>7, <1>8, <1>10, <1>11, <1>12 DEF lines

LEMMA FrameRestarted ==
  ASSUME NEW s \in Counters, NEW t, t = restart_frame(s)
  PROVE  /\ t \in Counters /\ Passes(s, t) /\ SameWork(s, t) /\ Matched(s, 0, t)
         /\ t.line = 0 /\ t.raster = 0 /\ t.lines = 0 /\ t.steady = OnceMore(s.steady)
         /\ t.frame = IF s.steady >= 2 THEN s.lines ELSE 0
         /\ ~Has(t, "invta") /\ ~Has(t, "resframe") /\ ~Has(t, "resscan") /\ ~Has(t, "reschar")
<1> DEFINE frame == IF s.steady >= 2 THEN s.lines ELSE 0
           steady == OnceMore(s.steady)
           flags == s.flags \ FrameFlags
           u == [s EXCEPT !.flags = flags, !.raster = 0, !.line = 0, !.sl = 0,
                          !.frame = frame, !.lines = 0, !.steady = steady]
<1>1. frame \in Nat /\ steady \in 0 .. 3 /\ flags \in SUBSET Flags
  BY OnceMoreTyped DEF Counters
<1>2. 0 \in 0 .. RasterMod - 1 /\ 0 \in 0 .. LineMod - 1
  BY Ranges
<1>3. t = match_line_count(u)
  BY DEF restart_frame
<1>4. \A g : g \in flags <=> g \notin FrameFlags /\ Has(s, g)
  BY DEF Has
<1> HIDE DEF frame, steady, flags
<1>5. u \in Counters
  BY <1>1, <1>2 DEF Counters
<1>6. /\ u.R = s.R /\ u.char = s.char /\ u.reg5 = s.reg5 /\ u.lastEnd = s.lastEnd
      /\ u.held = s.held /\ u.vsync = s.vsync /\ u.vsw = s.vsw
      /\ u.instSL = s.instSL /\ u.instMR = s.instMR
  BY DEF Counters
<1>7. /\ u.line = 0 /\ u.raster = 0 /\ u.lines = 0 /\ u.steady = steady /\ u.frame = frame
      /\ u.flags = flags
  BY DEF Counters
<1> HIDE DEF u
<1>8. \A g : Has(u, g) <=> g \notin FrameFlags /\ Has(s, g)
  BY <1>4, <1>7 DEF Has
<1>9. /\ t \in Counters /\ SameFrame(u, t) /\ Matched(u, u.line, t)
      /\ t.lastEnd = u.lastEnd /\ t.held = u.held /\ t.vsync = u.vsync
  BY <1>3, <1>5, LineMatched
<1>10. SamePlace(u, t) /\ SameRequests(u, t)
  BY <1>9 DEF SameFrame
<1>11. /\ ~Has(u, "invta") /\ ~Has(u, "resframe") /\ ~Has(u, "resscan") /\ ~Has(u, "reschar")
       /\ Has(u, "startvta") <=> Has(s, "startvta")
       /\ Has(u, "resnext") <=> Has(s, "resnext")
       /\ Has(u, "newscan") <=> Has(s, "newscan")
       /\ Has(u, "invsync") <=> Has(s, "invsync")
       /\ Has(u, "resvsync") <=> Has(s, "resvsync")
       /\ Has(u, "r7match") <=> Has(s, "r7match")
  BY <1>8 DEF FrameFlags
<1>12. Passes(s, t) /\ SameWork(s, t)
  BY <1>6, <1>9, <1>10, <1>11 DEF Passes, SameWork, SamePlace, SameRequests
<1>13. Matched(s, 0, t)
  BY <1>6, <1>7, <1>9, <1>11 DEF Matched, Enters
<1>14. ~Has(t, "invta") /\ ~Has(t, "resframe") /\ ~Has(t, "resscan") /\ ~Has(t, "reschar")
  BY <1>10, <1>11 DEF SameRequests
<1>15. /\ t.line = 0 /\ t.raster = 0 /\ t.lines = 0 /\ t.steady = steady /\ t.frame = frame
  BY <1>7, <1>10 DEF SamePlace
<1> QED BY <1>9, <1>12, <1>13, <1>14, <1>15 DEF steady, frame

\* The comparison of the line agrees with the counters; a second one changes nothing then.
Right(s) == Has(s, "r7match") <=> s.line = s.R[7]
Loose(s, t) ==
  /\ Has(t, "resvsync") => Has(s, "resvsync")
  /\ Has(s, "invsync") => Has(t, "invsync")

LEMMA LooseMatch ==
  ASSUME NEW s, NEW t, NEW line
  PROVE  /\ Matched(s, line, t) => Loose(s, t)
         /\ SyncKept(s, t) => Loose(s, t)
         /\ Right(s) /\ Matched(s, s.line, t) => SyncKept(s, t)
BY DEF Matched, Loose, SyncKept, SameVSync, Right, Enters

LEMMA RasterCounted ==
  ASSUME NEW s \in Counters, NEW t, t = CountRaster(s)
  PROVE  /\ t \in Counters /\ Passes(s, t) /\ SameWork(s, t)
         /\ Loose(s, t) /\ (Right(s) => SyncKept(s, t))
         /\ t.line = s.line /\ t.lines = s.lines /\ t.steady = s.steady /\ t.frame = s.frame
         /\ t.raster = IF Has(s, "resscan") THEN 0 ELSE (s.raster + 1) % RasterMod
         /\ ~Has(t, "resscan")
         /\ Has(t, "reschar") <=> Has(s, "reschar")
         /\ Has(t, "resframe") <=> Has(s, "resframe")
         /\ Has(t, "invta") <=> Has(s, "invta")
<1> DEFINE n == (s.raster + 1) % RasterMod
           c == Clear(s, "resscan")
           u == [c EXCEPT !.raster = 0]
           v == [s EXCEPT !.raster = n]
<1>1. t \in Counters
  BY CountRasterKept DEF Keeps
<1>2. t = IF Has(s, "resscan") THEN u ELSE IF v.raster = 0 THEN match_line_count(v) ELSE v
  BY DEF CountRaster
<1>3. CASE Has(s, "resscan")
  <2>1. c \in Counters /\ SameFields(s, c) /\ \A g : Has(c, g) <=> g # "resscan" /\ Has(s, g)
    BY FlagSet, FlagKept DEF Keeps, Flags
  <2>2. t = u
    BY <1>2, <1>3
  <2> HIDE DEF c
  <2>3. /\ u.R = c.R /\ u.char = c.char /\ u.reg5 = c.reg5 /\ u.lastEnd = c.lastEnd
        /\ u.held = c.held /\ u.vsync = c.vsync /\ u.vsw = c.vsw
        /\ u.instSL = c.instSL /\ u.instMR = c.instMR
        /\ u.line = c.line /\ u.raster = 0 /\ u.lines = c.lines /\ u.steady = c.steady
        /\ u.frame = c.frame /\ u.flags = c.flags
    BY <2>1 DEF Counters
  <2> HIDE DEF u
  <2>4. \A g : Has(u, g) <=> g # "resscan" /\ Has(s, g)
    BY <2>1, <2>3 DEF Has
  <2>5. Passes(s, u) /\ SameWork(s, u) /\ SyncKept(s, u)
    BY <2>1, <2>3, <2>4 DEF Passes, SameWork, SyncKept, SameVSync, SameFields, SamePlace
  <2>6. u.line = s.line /\ u.lines = s.lines /\ u.steady = s.steady /\ u.frame = s.frame
    BY <2>1, <2>3 DEF SameFields, SamePlace
  <2>7. Loose(s, u)
    BY <2>5, LooseMatch
  <2> QED BY <1>1, <1>3, <2>2, <2>3, <2>4, <2>5, <2>6, <2>7
<1>4. CASE ~Has(s, "resscan")
  <2>1. n \in 0 .. RasterMod - 1
    <3>1. s.raster \in Nat
      BY Ranges DEF Counters
    <3> QED BY <3>1, Ranges, Wraps
  <2> HIDE DEF n
  <2>2. /\ v.R = s.R /\ v.char = s.char /\ v.reg5 = s.reg5 /\ v.lastEnd = s.lastEnd
        /\ v.held = s.held /\ v.vsync = s.vsync /\ v.vsw = s.vsw
        /\ v.instSL = s.instSL /\ v.instMR = s.instMR
        /\ v.line = s.line /\ v.raster = n /\ v.lines = s.lines /\ v.steady = s.steady
        /\ v.frame = s.frame /\ v.flags = s.flags /\ v \in Counters
    BY <2>1 DEF Counters
  <2> HIDE DEF v
  <2>3. \A g : Has(v, g) <=> Has(s, g)
    BY <2>2 DEF Has
  <2>4. Passes(s, v) /\ SameWork(s, v) /\ SyncKept(s, v) /\ (Right(v) <=> Right(s))
    BY <2>2, <2>3 DEF Passes, SameWork, SyncKept, SameVSync, Right
  <2>5. CASE n # 0
    <3>1. t = v
      BY <1>2, <1>4, <2>2, <2>5
    <3>2. Loose(s, v)
      BY <2>4, LooseMatch
    <3> QED BY <1>1, <1>4, <2>2, <2>3, <2>4, <3>1, <3>2 DEF n
  <2>6. CASE n = 0
    <3>1. t = match_line_count(v)
      BY <1>2, <1>4, <2>2, <2>6
    <3>2. /\ SameFrame(v, t) /\ Matched(v, v.line, t)
          /\ t.lastEnd = v.lastEnd /\ t.held = v.held /\ t.vsync = v.vsync
      BY <2>2, <3>1, LineMatched
    <3>3. SamePlace(v, t) /\ SameRequests(v, t)
      BY <3>2 DEF SameFrame
    <3>4. Passes(s, t) /\ SameWork(s, t)
      BY <2>2, <2>3, <3>2, <3>3 DEF Passes, SameWork, SamePlace, SameRequests
    <3>5. Loose(v, t) /\ (Right(v) => SyncKept(v, t))
      BY <3>2, LooseMatch
    <3>6. Loose(s, t) /\ (Right(s) => SyncKept(s, t))
      BY <2>4, <3>5 DEF Loose, SyncKept, SameVSync
    <3>7. t.line = s.line /\ t.lines = s.lines /\ t.steady = s.steady /\ t.frame = s.frame
          /\ t.raster = n
      BY <2>2, <3>3 DEF SamePlace
    <3>8. /\ (Has(t, "reschar") <=> Has(s, "reschar")) /\ (Has(t, "resframe") <=> Has(s, "resframe"))
          /\ (Has(t, "invta") <=> Has(s, "invta")) /\ ~Has(t, "resscan")
      BY <1>4, <2>3, <3>3 DEF SameRequests
    <3> QED BY <1>1, <1>4, <3>4, <3>6, <3>7, <3>8 DEF n
  <2> QED BY <2>5, <2>6
<1> QED BY <1>3, <1>4

LEMMA RasterWatched ==
  ASSUME NEW s \in Counters, NEW t, t = WatchRaster(s)
  PROVE  /\ t \in Counters /\ Passes(s, t) /\ SameWhere(s, t) /\ SyncKept(s, t)
         /\ t.instSL = 1 /\ t.instMR = IF LastRaster(s) THEN 1 ELSE s.instMR
         /\ Has(t, "newscan") <=> Has(s, "newscan")
         /\ Has(t, "resscan") <=> Has(s, "resscan") \/ LastRaster(s)
         /\ \A g \in {"reschar", "resframe", "invta"} : Has(t, g) <=> Has(s, g)
<1> DEFINE u == [s EXCEPT !.instSL = 1]
           flags == u.flags \cup {"resscan", "r9match"}
           v == [u EXCEPT !.flags = flags, !.instMR = 1]
           w == Clear(u, "r9match")
<1>1. t \in Counters
  BY WatchRasterKept DEF Keeps
<1>2. t = IF LastRaster(u) THEN v ELSE w
  BY DEF WatchRaster
<1>3. u \in Counters
  BY DEF Counters
<1>4. /\ u.R = s.R /\ u.char = s.char /\ u.reg5 = s.reg5 /\ u.lastEnd = s.lastEnd
      /\ u.held = s.held /\ u.vsync = s.vsync /\ u.vsw = s.vsw
      /\ u.instSL = 1 /\ u.instMR = s.instMR
      /\ u.line = s.line /\ u.raster = s.raster /\ u.lines = s.lines /\ u.steady = s.steady
      /\ u.frame = s.frame /\ u.flags = s.flags
  BY DEF Counters
<1> HIDE DEF u
<1>5. LastRaster(u) <=> LastRaster(s)
  BY <1>4 DEF LastRaster
<1>6. CASE LastRaster(s)
  <2>1. t = v
    BY <1>2, <1>5, <1>6
  <2>2. \A g : g \in flags <=> g \in {"resscan", "r9match"} \/ Has(s, g)
    BY <1>4 DEF Has
  <2> HIDE DEF flags
  <2>3. /\ v.R = u.R /\ v.char = u.char /\ v.reg5 = u.reg5 /\ v.lastEnd = u.lastEnd
        /\ v.held = u.held /\ v.vsync = u.vsync /\ v.vsw = u.vsw
        /\ v.instSL = u.instSL /\ v.instMR = 1
        /\ v.line = u.line /\ v.raster = u.raster /\ v.lines = u.lines /\ v.steady = u.steady
        /\ v.frame = u.frame /\ v.flags = flags
    BY <1>3 DEF Counters
  <2> HIDE DEF v
  <2>4. \A g : Has(v, g) <=> g \in {"resscan", "r9match"} \/ Has(s, g)
    BY <2>2, <2>3 DEF Has
  <2>5. Passes(s, v) /\ SameWhere(s, v) /\ SyncKept(s, v)
    BY <1>4, <2>3, <2>4 DEF Passes, SameWhere, SyncKept, SameVSync
  <2> QED BY <1>1, <1>4, <1>6, <2>1, <2>3, <2>4, <2>5
<1>7. CASE ~LastRaster(s)
  <2>1. t = w
    BY <1>2, <1>5, <1>7
  <2>2. SameFields(u, w) /\ \A g : Has(w, g) <=> g # "r9match" /\ Has(u, g)
    BY <1>3, FlagSet
  <2>3. \A g : Has(u, g) <=> Has(s, g)
    BY <1>4 DEF Has
  <2> HIDE DEF w
  <2>4. Passes(s, w) /\ SameWhere(s, w) /\ SyncKept(s, w)
    BY <1>4, <2>2, <2>3 DEF Passes, SameWhere, SyncKept, SameVSync, SameFields, SamePlace
  <2>5. w.instSL = 1 /\ w.instMR = s.instMR
    BY <1>4, <2>2 DEF SameFields, SamePlace
  <2> QED BY <1>1, <1>7, <2>1, <2>2, <2>3, <2>4, <2>5
<1> QED BY <1>6, <1>7

LEMMA Adjusted ==
  ASSUME NEW s \in Counters, NEW t, t = Adjust(s)
  PROVE  /\ t \in Counters /\ Passes(s, t) /\ SameWork(s, t)
         /\ ~(Has(s, "invta") /\ s.raster = s.reg5) =>
              SameWhere(s, t) /\ SameAsked(s, t) /\ SyncKept(s, t)
         /\ Has(s, "invta") /\ s.raster = s.reg5 =>
              /\ t.line = 0 /\ t.raster = 0 /\ t.lines = 0 /\ t.steady = OnceMore(s.steady)
              /\ t.frame = IF s.steady >= 2 THEN s.lines ELSE 0
              /\ ~Has(t, "invta") /\ ~Has(t, "resframe") /\ ~Has(t, "reschar")
              /\ Has(t, "resscan") <=> s.R[9] = 0
              /\ Matched(s, 0, t)
<1> DEFINE u == restart_frame(s)
           v == Set(u, "resscan")
<1>1. t \in Counters
  BY AdjustKept DEF Keeps
<1>2. t = IF Has(s, "invta") /\ s.raster = s.reg5 THEN (IF u.R[9] = 0 THEN v ELSE u) ELSE s
  BY DEF Adjust
<1>3. CASE ~(Has(s, "invta") /\ s.raster = s.reg5)
  BY <1>2, <1>3 DEF Passes, SameWork, SameWhere, SameAsked, SyncKept, SameVSync
<1>4. CASE Has(s, "invta") /\ s.raster = s.reg5
  <2>1. /\ u \in Counters /\ Passes(s, u) /\ SameWork(s, u) /\ Matched(s, 0, u)
        /\ u.line = 0 /\ u.raster = 0 /\ u.lines = 0 /\ u.steady = OnceMore(s.steady)
        /\ u.frame = IF s.steady >= 2 THEN s.lines ELSE 0
        /\ ~Has(u, "invta") /\ ~Has(u, "resframe") /\ ~Has(u, "resscan") /\ ~Has(u, "reschar")
    BY FrameRestarted
  <2> HIDE DEF u
  <2>2. SameFields(u, v) /\ \A g : Has(v, g) <=> g = "resscan" \/ Has(u, g)
    BY <2>1, FlagSet
  <2> HIDE DEF v
  <2>3. u.R[9] = s.R[9]
    BY <2>1 DEF Passes
  <2>4. CASE s.R[9] # 0
    BY <1>1, <1>2, <1>4, <2>1, <2>3, <2>4
  <2>5. CASE s.R[9] = 0
    <3>1. t = v
      BY <1>2, <1>4, <2>3, <2>5
    <3>2. Passes(s, v) /\ SameWork(s, v)
      BY <2>1, <2>2 DEF Passes, SameWork, SameFields, SamePlace
    <3>3. Matched(s, 0, v)
      BY <2>1, <2>2 DEF Matched, SameFields
    <3>4. /\ v.line = 0 /\ v.raster = 0 /\ v.lines = 0 /\ v.steady = u.steady
          /\ v.frame = u.frame
      BY <2>1, <2>2 DEF SameFields, SamePlace
    <3> QED BY <1>1, <1>4, <2>1, <2>2, <2>5, <3>1, <3>2, <3>3, <3>4
  <2> QED BY <2>4, <2>5
<1> QED BY <1>3, <1>4

LEMMA LineCounted ==
  ASSUME NEW s \in Counters, NEW t, t = CountCharLine(s)
  PROVE  /\ t \in Counters /\ Passes(s, t) /\ SameWork(s, t) /\ SameAsked(s, t)
         /\ t.raster = s.raster /\ t.lines = s.lines /\ t.steady = s.steady /\ t.frame = s.frame
         /\ ~Has(s, "reschar") => t.line = s.line /\ SyncKept(s, t)
         /\ Has(s, "reschar") => t.line = (s.line + 1) % LineMod /\ Matched(s, t.line, t)
<1> DEFINE n == (s.line + 1) % LineMod
           u == [s EXCEPT !.line = n]
<1>1. t \in Counters
  BY CharLineKept DEF Keeps
<1>2. CASE ~Has(s, "reschar")
  <2>1. t = s
    BY <1>2 DEF CountCharLine
  <2> QED BY <1>1, <1>2, <2>1 DEF Passes, SameWork, SameAsked, SyncKept, SameVSync
<1>3. CASE Has(s, "reschar")
  <2>1. t = match_line_count(u)
    BY <1>3 DEF CountCharLine
  <2>2. n \in 0 .. LineMod - 1
    <3>1. s.line \in Nat
      BY Ranges DEF Counters
    <3> QED BY <3>1, Ranges, Wraps
  <2> HIDE DEF n
  <2>3. u \in Counters
    BY <2>2 DEF Counters
  <2>4. /\ u.R = s.R /\ u.char = s.char /\ u.reg5 = s.reg5 /\ u.lastEnd = s.lastEnd
        /\ u.held = s.held /\ u.vsync = s.vsync /\ u.vsw = s.vsw
        /\ u.instSL = s.instSL /\ u.instMR = s.instMR
        /\ u.line = n /\ u.raster = s.raster /\ u.lines = s.lines /\ u.steady = s.steady
        /\ u.frame = s.frame /\ u.flags = s.flags
    BY DEF Counters
  <2> HIDE DEF u
  <2>5. \A g : Has(u, g) <=> Has(s, g)
    BY <2>4 DEF Has
  <2>6. /\ t \in Counters /\ SameFrame(u, t) /\ Matched(u, u.line, t)
        /\ t.lastEnd = u.lastEnd /\ t.held = u.held /\ t.vsync = u.vsync
    BY <2>1, <2>3, LineMatched
  <2>7. SamePlace(u, t) /\ SameRequests(u, t)
    BY <2>6 DEF SameFrame
  <2>8. Passes(s, t) /\ SameWork(s, t) /\ SameAsked(s, t)
    BY <2>4, <2>5, <2>6, <2>7 DEF Passes, SameWork, SameAsked, SamePlace, SameRequests
  <2>9. t.line = n /\ t.raster = s.raster /\ t.lines = s.lines /\ t.steady = s.steady /\ t.frame = s.frame
    BY <2>4, <2>7 DEF SamePlace
  <2>10. Matched(s, t.line, t)
    BY <2>4, <2>5, <2>6, <2>9 DEF Matched, Enters
  <2> QED BY <1>1, <1>3, <2>8, <2>9, <2>10 DEF n
<1> QED BY <1>2, <1>3

\* What the end of the scan makes of VSYNC.
Over(s) == Has(s, "invsync") /\ Has(s, "resvsync")
LEMMA ScanEnded ==
  ASSUME NEW s \in Counters, NEW t, t = EndScan(s)
  PROVE  /\ t \in Counters /\ SameFrame(s, t) /\ t.lastEnd = s.lastEnd /\ t.vsw = s.vsw
         /\ Has(t, "r7match") <=> Has(s, "r7match")
         /\ Has(t, "invsync") <=> Has(s, "invsync") /\ ~Over(s)
         /\ Has(t, "resvsync") <=> Has(s, "resvsync") /\ ~Over(s)
         /\ t.vsync = IF Over(s) THEN (IF s.steady >= 2 THEN s.held ELSE 0) ELSE s.vsync
         /\ t.held = IF ~Over(s) /\ Has(s, "invsync") /\ s.steady > 0 THEN Counted(s.held) ELSE 0
<1> DEFINE over == Over(s)
           vsync == IF s.steady >= 2 THEN s.held ELSE 0
           held == IF Has(s, "invsync") /\ s.steady > 0 THEN Counted(s.held) ELSE 0
           flags == s.flags \ {"invsync", "resvsync"}
           ended == [s EXCEPT !.flags = flags, !.vsync = vsync, !.held = 0]
           goes == [s EXCEPT !.held = held]
           e == IF over THEN ended ELSE goes
<1>1. t \in Counters /\ SameFrame(s, t)
  BY EndScanKept, EndScanFrame DEF Keeps
<1>2. t \in {e, frame_finished(e)}
  BY DEF EndScan, Over
<1>3. \A g : g \in flags <=> g # "invsync" /\ g # "resvsync" /\ Has(s, g)
  BY DEF Has
<1> HIDE DEF vsync, held, flags
<1>4. /\ ended.lastEnd = s.lastEnd /\ ended.vsw = s.vsw /\ ended.vsync = vsync /\ ended.held = 0
      /\ ended.flags = flags /\ DOMAIN ended = DOMAIN s
  BY DEF Counters
<1>5. /\ goes.lastEnd = s.lastEnd /\ goes.vsw = s.vsw /\ goes.vsync = s.vsync /\ goes.held = held
      /\ goes.flags = s.flags /\ DOMAIN goes = DOMAIN s
  BY DEF Counters
<1> HIDE DEF ended, goes, over
<1>6. /\ e.lastEnd = s.lastEnd /\ e.vsw = s.vsw
      /\ e.vsync = (IF over THEN vsync ELSE s.vsync) /\ e.held = (IF over THEN 0 ELSE held)
      /\ e.flags = (IF over THEN flags ELSE s.flags) /\ DOMAIN e = DOMAIN s
  BY <1>4, <1>5
<1> HIDE DEF e
<1>7. /\ t.lastEnd = e.lastEnd /\ t.vsw = e.vsw /\ t.vsync = e.vsync /\ t.held = e.held
      /\ t.flags = e.flags
  <2>1. t \in {e, [e EXCEPT !.done = TRUE, !.scanline = 0]}
    BY <1>2 DEF frame_finished
  <2> QED BY <1>6, <2>1 DEF Counters
<1>8. CASE over
  <2>1. \A g : Has(t, g) <=> g # "invsync" /\ g # "resvsync" /\ Has(s, g)
    BY <1>3, <1>6, <1>7, <1>8 DEF Has
  <2> QED BY <1>1, <1>6, <1>7, <1>8, <2>1 DEF over, vsync
<1>9. CASE ~over
  <2>1. \A g : Has(t, g) <=> Has(s, g)
    BY <1>6, <1>7, <1>9 DEF Has
  <2>2. t.held = IF Has(s, "invsync") /\ s.steady > 0 THEN Counted(s.held) ELSE 0
    BY <1>6, <1>7, <1>9 DEF held
  <2> QED BY <1>1, <1>6, <1>7, <1>9, <2>1, <2>2 DEF over
<1> QED BY <1>8, <1>9

(***************************************************************************)
(* A line that begins, as a whole: the frame starts again, or the counters *)
(* go on.                                                                  *)
(***************************************************************************)
NextOf(s) == IF Has(s, "resframe") \/ Has(s, "resscan") THEN 0 ELSE (s.raster + 1) % RasterMod
Again(s) == Has(s, "resframe") \/ (Has(s, "invta") /\ NextOf(s) = s.reg5)
LineOf(s) == IF Has(s, "reschar") THEN (s.line + 1) % LineMod ELSE s.line
LinesOf(s) == IF s.steady = 0 THEN 0 ELSE Counted(s.lines)

Begun(s, t) ==
  /\ t.R = s.R /\ t.char = s.char /\ t.reg5 = s.reg5 /\ t.lastEnd = s.lastEnd /\ t.instSL = 1
  /\ t.instMR = (IF NextOf(s) = s.R[9] THEN 1 ELSE s.instMR)
  /\ ~Has(t, "newscan")
  /\ Has(t, "startvta") <=> Has(s, "startvta")
  /\ Has(t, "resnext") <=> Has(s, "resnext")
Restarts(s, t) ==
  /\ t.line = 0 /\ t.raster = 0 /\ t.lines = 0 /\ t.steady = OnceMore(s.steady)
  /\ t.frame = (IF s.steady >= 2 THEN LinesOf(s) ELSE 0)
  /\ ~Has(t, "invta") /\ ~Has(t, "resframe") /\ ~Has(t, "reschar")
  /\ Has(t, "resscan") <=> s.R[9] = 0
GoesOn(s, t) ==
  /\ t.line = LineOf(s) /\ t.raster = NextOf(s) /\ t.lines = LinesOf(s)
  /\ t.steady = s.steady /\ t.frame = s.frame
  /\ Has(t, "resscan") <=> NextOf(s) = s.R[9]
  /\ Has(t, "reschar") <=> Has(s, "reschar")
  /\ Has(t, "invta") <=> Has(s, "invta")
  /\ ~Has(t, "resframe")

\* VSYNC in it is counted, then compared at most once, then ended; k is before the end.
SyncEnds(k, t) ==
  /\ t.vsw = k.vsw
  /\ Has(t, "r7match") <=> Has(k, "r7match")
  /\ Has(t, "invsync") <=> Has(k, "invsync") /\ ~Over(k)
  /\ Has(t, "resvsync") <=> Has(k, "resvsync") /\ ~Over(k)
  /\ t.vsync = IF Over(k) THEN (IF t.steady >= 2 THEN k.held ELSE 0) ELSE k.vsync
  /\ t.held = IF ~Over(k) /\ Has(k, "invsync") /\ t.steady > 0 THEN Counted(k.held) ELSE 0

LEMMA LineScanned ==
  ASSUME NEW s \in Counters,
         NEW a, a = StartScan(s), NEW b, b = NextRaster(a), NEW w, w = WatchRaster(b),
         NEW d, d = Adjust(w), NEW k, k = CountCharLine(d), NEW t, t = EndScan(k)
  PROVE  /\ t \in Counters /\ Begun(s, t)
         /\ Again(s) => Restarts(s, t)
         /\ ~Again(s) => GoesOn(s, t)
         /\ a \in Counters /\ k \in Counters /\ Widened(s, a) /\ SyncEnds(k, t)
         /\ a.held = s.held /\ a.vsync = s.vsync /\ k.held = s.held /\ k.vsync = s.vsync
         /\ Loose(a, k)
         /\ (Again(s) \/ Has(s, "reschar")) => Right(t)
         /\ Right(s) => Right(t) /\ (IF Again(s) \/ Has(s, "reschar") THEN Matched(a, t.line, k) ELSE SyncKept(a, k))
<1>1. /\ a \in Counters /\ Passes(s, a) /\ SameAsked(s, a) /\ Widened(s, a)
      /\ a.line = s.line /\ a.raster = s.raster /\ a.steady = s.steady /\ a.frame = s.frame
      /\ a.instSL = s.instSL /\ a.instMR = s.instMR /\ ~Has(a, "newscan")
      /\ a.lines = LinesOf(s)
  BY ScanStarted DEF LinesOf
<1>2. Right(s) <=> Right(a)
  BY <1>1 DEF Right, Widened, Passes
<1>3. b \in Counters /\ Passes(a, b) /\ SameWork(a, b)
      /\ b.raster = NextOf(s) /\ ~Has(b, "resframe") /\ ~Has(b, "resscan")
  <2>1. CASE Has(a, "resframe")
    <3>1. b = restart_frame(a)
      BY <2>1 DEF NextRaster
    <3>2. Has(s, "resframe")
      BY <1>1, <2>1 DEF SameAsked
    <3> QED BY <1>1, <3>1, <3>2, FrameRestarted DEF NextOf
  <2>2. CASE ~Has(a, "resframe")
    <3>1. b = CountRaster(a)
      BY <2>2 DEF NextRaster
    <3>2. ~Has(s, "resframe") /\ (Has(a, "resscan") <=> Has(s, "resscan"))
      BY <1>1, <2>2 DEF SameAsked
    <3>3. /\ b \in Counters /\ Passes(a, b) /\ SameWork(a, b)
          /\ b.raster = (IF Has(a, "resscan") THEN 0 ELSE (a.raster + 1) % RasterMod)
          /\ ~Has(b, "resscan")
          /\ Has(b, "resframe") <=> Has(a, "resframe")
      BY <1>1, <3>1, RasterCounted
    <3> QED BY <1>1, <2>2, <3>2, <3>3 DEF NextOf
  <2> QED BY <2>1, <2>2
<1>4. /\ w \in Counters /\ Passes(b, w) /\ SameWhere(b, w) /\ SyncKept(b, w)
      /\ w.instSL = 1 /\ w.instMR = (IF LastRaster(b) THEN 1 ELSE b.instMR)
      /\ Has(w, "newscan") <=> Has(b, "newscan")
      /\ Has(w, "resscan") <=> Has(b, "resscan") \/ LastRaster(b)
      /\ \A g \in {"reschar", "resframe", "invta"} : Has(w, g) <=> Has(b, g)
  BY <1>3, RasterWatched
<1>5. /\ d \in Counters /\ Passes(w, d) /\ SameWork(w, d)
      /\ ~(Has(w, "invta") /\ w.raster = w.reg5) =>
           SameWhere(w, d) /\ SameAsked(w, d) /\ SyncKept(w, d)
      /\ Has(w, "invta") /\ w.raster = w.reg5 =>
           /\ d.line = 0 /\ d.raster = 0 /\ d.lines = 0 /\ d.steady = OnceMore(w.steady)
           /\ d.frame = IF w.steady >= 2 THEN w.lines ELSE 0
           /\ ~Has(d, "invta") /\ ~Has(d, "resframe") /\ ~Has(d, "reschar")
           /\ Has(d, "resscan") <=> w.R[9] = 0
           /\ Matched(w, 0, d)
  BY <1>4, Adjusted
<1>6. /\ k \in Counters /\ Passes(d, k) /\ SameWork(d, k) /\ SameAsked(d, k)
      /\ k.raster = d.raster /\ k.lines = d.lines /\ k.steady = d.steady /\ k.frame = d.frame
      /\ ~Has(d, "reschar") => k.line = d.line /\ SyncKept(d, k)
      /\ Has(d, "reschar") => k.line = (d.line + 1) % LineMod /\ Matched(d, k.line, k)
  BY <1>5, LineCounted
<1>7. /\ t \in Counters /\ SamePlace(k, t) /\ SameRequests(k, t)
      /\ t.lastEnd = k.lastEnd /\ SyncEnds(k, t)
  <2>1. t.steady = k.steady /\ t \in Counters /\ SamePlace(k, t) /\ SameRequests(k, t)
        /\ t.lastEnd = k.lastEnd
    BY <1>6, ScanEnded DEF SameFrame, SamePlace
  <2> QED BY <1>6, <2>1, ScanEnded DEF SyncEnds
<1>8. Passes(s, w) /\ Passes(a, w) /\ Passes(s, k)
  BY <1>1, <1>3, <1>4, <1>5, <1>6 DEF Passes
<1>9. Begun(s, t)
  <2>1. t.R = s.R /\ t.char = s.char /\ t.reg5 = s.reg5 /\ t.lastEnd = s.lastEnd
    BY <1>7, <1>8 DEF Passes, SamePlace
  <2>2. t.instSL = 1
    BY <1>4, <1>5, <1>6, <1>7 DEF SameWork, SamePlace
  <2>3. t.instMR = (IF NextOf(s) = s.R[9] THEN 1 ELSE s.instMR)
    <3>1. LastRaster(b) <=> NextOf(s) = s.R[9]
      BY <1>1, <1>3 DEF LastRaster, Passes
    <3>2. t.instMR = w.instMR /\ b.instMR = s.instMR
      BY <1>1, <1>3, <1>5, <1>6, <1>7 DEF SameWork, SamePlace
    <3> QED BY <1>4, <3>1, <3>2
  <2>4. ~Has(t, "newscan")
    BY <1>1, <1>3, <1>4, <1>5, <1>6, <1>7 DEF SameWork, SameRequests
  <2>5. (Has(t, "startvta") <=> Has(s, "startvta")) /\ (Has(t, "resnext") <=> Has(s, "resnext"))
    BY <1>7, <1>8 DEF Passes, SameRequests
  <2> QED BY <2>1, <2>2, <2>3, <2>4, <2>5 DEF Begun
<1>10. /\ Has(w, "resscan") <=> NextOf(s) = s.R[9]
       /\ w.raster = NextOf(s) /\ w.reg5 = s.reg5 /\ w.R = s.R
  <2>1. LastRaster(b) <=> NextOf(s) = s.R[9]
    BY <1>1, <1>3 DEF LastRaster, Passes
  <2>2. w.raster = NextOf(s) /\ w.reg5 = s.reg5 /\ w.R = s.R
    BY <1>3, <1>4, <1>8 DEF SameWhere, Passes
  <2> QED BY <1>3, <1>4, <2>1, <2>2
<1>11. /\ a.held = s.held /\ a.vsync = s.vsync /\ k.held = s.held /\ k.vsync = s.vsync
       /\ k.R = a.R /\ k.lastEnd = a.lastEnd
  BY <1>1, <1>8 DEF Passes
<1>12. t.line = k.line /\ (Has(t, "r7match") <=> Has(k, "r7match")) /\ t.R = a.R
  BY <1>7, <1>11 DEF SamePlace, SyncEnds
<1>13. CASE Has(s, "resframe")
  <2>1. Has(a, "resframe") /\ b = restart_frame(a)
    BY <1>1, <1>13 DEF SameAsked, NextRaster
  <2>2. /\ Matched(a, 0, b) /\ b.line = 0 /\ b.raster = 0 /\ b.lines = 0
        /\ b.steady = OnceMore(s.steady) /\ b.frame = (IF s.steady >= 2 THEN LinesOf(s) ELSE 0)
        /\ ~Has(b, "invta") /\ ~Has(b, "resframe") /\ ~Has(b, "resscan") /\ ~Has(b, "reschar")
    BY <1>1, <2>1, FrameRestarted
  <2>3. ~Has(w, "invta") /\ ~Has(w, "resframe") /\ ~Has(w, "reschar")
    BY <1>4, <2>2
  <2>4. SameWhere(w, d) /\ SameAsked(w, d) /\ SyncKept(w, d)
    BY <1>5, <2>3
  <2>5. ~Has(d, "invta") /\ ~Has(d, "resframe") /\ ~Has(d, "reschar")
    BY <2>3, <2>4 DEF SameAsked
  <2>6. k.line = 0 /\ k.raster = 0 /\ k.lines = 0 /\ k.steady = OnceMore(s.steady)
        /\ k.frame = (IF s.steady >= 2 THEN LinesOf(s) ELSE 0)
    BY <1>4, <1>6, <2>2, <2>4, <2>5 DEF SameWhere
  <2>7. /\ ~Has(k, "invta") /\ ~Has(k, "resframe") /\ ~Has(k, "reschar")
        /\ Has(k, "resscan") <=> s.R[9] = 0
    <3>1. NextOf(s) = 0
      BY <1>13 DEF NextOf
    <3> QED BY <1>6, <1>10, <2>4, <2>5, <3>1 DEF SameAsked
  <2>8. Restarts(s, t)
    BY <1>7, <2>6, <2>7 DEF Restarts, SamePlace, SameRequests
  <2>9. SyncKept(b, k)
    BY <1>4, <1>6, <2>4, <2>5 DEF SyncKept, SameVSync
  <2>10. Matched(a, 0, k)
    BY <2>2, <2>9 DEF Matched, SyncKept, SameVSync
  <2>11. Loose(a, k)
    BY <2>10, LooseMatch
  <2>12. Right(t)
    BY <1>12, <2>6, <2>10 DEF Right, Matched
  <2>13. Again(s)
    BY <1>13 DEF Again
  <2>14. t.line = 0
    BY <1>12, <2>6
  <2> QED BY <1>1, <1>6, <1>7, <1>9, <1>11, <2>8, <2>10, <2>11, <2>12, <2>13, <2>14
<1>14. CASE ~Has(s, "resframe")
  <2>1. ~Has(a, "resframe") /\ b = CountRaster(a)
    BY <1>1, <1>14 DEF SameAsked, NextRaster
  <2>2. /\ Loose(a, b) /\ (Right(a) => SyncKept(a, b))
        /\ b.line = a.line /\ b.lines = a.lines /\ b.steady = a.steady /\ b.frame = a.frame
        /\ Has(b, "reschar") <=> Has(a, "reschar")
        /\ Has(b, "resframe") <=> Has(a, "resframe")
        /\ Has(b, "invta") <=> Has(a, "invta")
    BY <1>1, <2>1, RasterCounted
  <2>3. /\ (Has(w, "reschar") <=> Has(s, "reschar")) /\ ~Has(w, "resframe")
        /\ (Has(w, "invta") <=> Has(s, "invta"))
        /\ w.line = s.line /\ w.lines = LinesOf(s) /\ w.steady = s.steady /\ w.frame = s.frame
    <3>1. (Has(w, "reschar") <=> Has(b, "reschar")) /\ (Has(w, "resframe") <=> Has(b, "resframe"))
          /\ (Has(w, "invta") <=> Has(b, "invta"))
      BY <1>4
    <3>2. (Has(a, "reschar") <=> Has(s, "reschar")) /\ (Has(a, "invta") <=> Has(s, "invta"))
      BY <1>1 DEF SameAsked
    <3>3. w.line = s.line /\ w.lines = LinesOf(s) /\ w.steady = s.steady /\ w.frame = s.frame
      BY <1>1, <1>4, <2>2 DEF SameWhere
    <3> QED BY <2>1, <2>2, <3>1, <3>2, <3>3
  <2>4. Loose(a, w) /\ (Right(a) => SyncKept(a, w))
    BY <1>4, <2>2, LooseMatch DEF Loose, SyncKept, SameVSync
  <2>5. Again(s) <=> Has(w, "invta") /\ w.raster = w.reg5
    BY <1>10, <1>14, <2>3 DEF Again
  <2>6. \A line : Right(a) /\ Matched(w, line, d) => Matched(a, line, d)
    BY <1>8, <2>4 DEF Matched, Enters, SyncKept, SameVSync, Passes
  <2>7. CASE Again(s)
    <3>1. /\ d.line = 0 /\ d.raster = 0 /\ d.lines = 0 /\ d.steady = OnceMore(s.steady)
          /\ d.frame = (IF s.steady >= 2 THEN LinesOf(s) ELSE 0)
          /\ ~Has(d, "invta") /\ ~Has(d, "resframe") /\ ~Has(d, "reschar")
          /\ (Has(d, "resscan") <=> s.R[9] = 0)
          /\ Matched(w, 0, d)
      BY <1>5, <1>10, <2>3, <2>5, <2>7
    <3>2. SyncKept(d, k) /\ k.line = 0
      BY <1>6, <3>1
    <3>3. Restarts(s, t)
      BY <1>6, <1>7, <3>1, <3>2 DEF Restarts, SamePlace, SameRequests, SameAsked
    <3>4. Loose(w, d)
      BY <3>1, LooseMatch
    <3>5. Loose(a, k)
      BY <2>4, <3>2, <3>4 DEF Loose, SyncKept, SameVSync
    <3>6. Right(t) /\ t.line = 0
      BY <1>8, <1>12, <3>1, <3>2 DEF Right, Matched, SyncKept, SameVSync, Passes
    <3>7. Right(s) => Matched(a, 0, k)
      <4>1. Right(s) => Matched(a, 0, d)
        BY <1>2, <2>6, <3>1
      <4> QED BY <3>2, <4>1 DEF Matched, SyncKept, SameVSync
    <3> QED BY <1>1, <1>6, <1>7, <1>9, <1>11, <2>7, <3>3, <3>5, <3>6, <3>7
  <2>8. CASE ~Again(s)
    <3>1. SameWhere(w, d) /\ SameAsked(w, d) /\ SyncKept(w, d)
      BY <1>5, <2>5, <2>8
    <3>2. Has(d, "reschar") <=> Has(s, "reschar")
      BY <2>3, <3>1 DEF SameAsked
    <3>3. k.line = LineOf(s)
      BY <1>6, <2>3, <3>1, <3>2 DEF LineOf, SameWhere
    <3>4. k.raster = NextOf(s) /\ k.lines = LinesOf(s) /\ k.steady = s.steady /\ k.frame = s.frame
      BY <1>6, <1>10, <2>3, <3>1 DEF SameWhere
    <3>5. /\ Has(k, "resscan") <=> NextOf(s) = s.R[9]
          /\ Has(k, "reschar") <=> Has(s, "reschar")
          /\ Has(k, "invta") <=> Has(s, "invta")
          /\ ~Has(k, "resframe")
      BY <1>6, <1>10, <2>3, <3>1 DEF SameAsked
    <3>6. GoesOn(s, t)
      BY <1>7, <3>3, <3>4, <3>5 DEF GoesOn, SamePlace, SameRequests
    <3>7. Loose(a, d) /\ (Right(a) => SyncKept(a, d))
      BY <2>4, <3>1 DEF Loose, SyncKept, SameVSync
    <3>8. CASE Has(s, "reschar")
      <4>1. Matched(d, k.line, k)
        BY <1>6, <3>2, <3>8
      <4>2. Loose(a, k)
        BY <3>7, <4>1, LooseMatch DEF Loose
      <4>3. d.R = a.R /\ d.lastEnd = a.lastEnd
        BY <1>5, <1>8 DEF Passes
      <4>4. Right(t)
        BY <1>12, <4>1, <4>3 DEF Right, Matched
      <4>5. Right(s) => Matched(a, t.line, k)
        BY <1>2, <1>12, <3>7, <4>1, <4>3 DEF Matched, Enters, SyncKept, SameVSync
      <4> QED BY <1>1, <1>6, <1>7, <1>9, <1>11, <2>8, <3>6, <3>8, <4>2, <4>4, <4>5
    <3>9. CASE ~Has(s, "reschar")
      <4>1. SyncKept(d, k) /\ k.line = s.line
        BY <1>6, <3>2, <3>3, <3>9 DEF LineOf
      <4>2. Loose(a, k) /\ (Right(a) => SyncKept(a, k))
        BY <3>7, <4>1 DEF Loose, SyncKept, SameVSync
      <4>3. Right(s) => Right(t)
        BY <1>1, <1>2, <1>12, <4>1, <4>2 DEF Right, SyncKept, SameVSync
      <4> QED BY <1>1, <1>2, <1>6, <1>7, <1>9, <1>11, <2>8, <3>6, <3>9, <4>2, <4>3
    <3> QED BY <3>8, <3>9
  <2> QED BY <2>7, <2>8
<1> QED BY <1>13, <1>14

(***************************************************************************)
(* The frame.                                                              *)
(***************************************************************************)
LEMMA Late ==
  ASSUME NEW s \in Counters, ~Has(s, "newscan"), NEW length \in Int,
         NEW t, t = CharInstMR(CharInstSL(HSync(AtLineEnd(CountChar(MonitorLine(s, length))))))
  PROVE  /\ t \in Counters /\ SameLines(s, t) /\ SameVSync(s, t)
         /\ Has(t, "newscan") <=> s.char = s.R[0]
         /\ s.char = s.R[0] => t.char = 0 /\ t.lastEnd = s.char
         /\ s.char = s.R[0] /\ s.R[0] \in 2 .. CharMod - 1 /\ Aligned(s) =>
              /\ t.instMR = 0 /\ t.reg5 = s.R[5] /\ ~Has(t, "startvta") /\ ~Has(t, "resnext")
              /\ SameAsked(s, t)
<1> DEFINE c == CountChar(MonitorLine(s, length))
           a == AtLineEnd(c)
           h == HSync(a)
<1>1. /\ c \in Counters /\ SameLines(s, c)
      /\ c.reg5 = s.reg5 /\ c.instSL = s.instSL /\ c.instMR = s.instMR
      /\ c.char = (IF s.char = s.R[0] THEN 0 ELSE (s.char + 1) % CharMod)
      /\ c.lastEnd = (IF s.char = s.R[0] THEN s.char ELSE s.lastEnd)
      /\ Has(c, "newscan") <=> s.char = s.R[0]
      /\ \A g : g # "newscan" => (Has(c, g) <=> Has(s, g))
  BY CharCounted
<1> HIDE DEF c
<1>2. /\ a \in Counters /\ SameFields(c, a) /\ SameVSync(c, a)
      /\ c.char # c.R[0] => SameRequests(c, a)
      /\ c.char = c.R[0] => LineEnds(c, a)
  BY <1>1, LineEnded
<1>3. Has(a, "newscan") <=> Has(c, "newscan")
  BY <1>2 DEF SameRequests, LineEnds
<1> HIDE DEF a
<1>4. h \in Counters /\ Alike(a, h)
  BY <1>2, HSyncAlike DEF Alike
<1> HIDE DEF h
<1>5. SamePlace(a, h) /\ SameRequests(a, h) /\ SameSync(a, h)
  BY <1>4 DEF Alike, SameFrame
<1>6. t = CharInstMR(CharInstSL(h))
  BY DEF h, a, c
<1>7. /\ t \in Counters /\ SameLines(h, t) /\ t.char = h.char /\ t.lastEnd = h.lastEnd
      /\ t.reg5 = (IF h.instSL = 2 THEN h.R[5] ELSE h.reg5)
      /\ t.instMR = (IF h.instMR = 1 THEN 2 ELSE 0)
      /\ SameVSync(h, t)
      /\ \A g \in {"newscan", "reschar", "resframe", "resscan"} : Has(t, g) <=> Has(h, g)
      /\ Has(t, "startvta") <=> IF h.instMR = 1 THEN LastLine(h) ELSE Has(h, "startvta")
      /\ Has(t, "invta") <=> Has(h, "invta") /\ ~(h.instMR = 1 /\ LastLine(h))
      /\ Has(t, "resnext") <=> \/ Has(h, "resnext")
                               \/ h.instMR = 2 /\ Has(h, "startvta") /\ h.line = h.R[4] /\ h.R[5] = 0
  BY <1>4, <1>6, Delayed
<1>8. SameLines(s, t)
  BY <1>1, <1>2, <1>5, <1>7 DEF SameLines, SameFields, SamePlace, SameSync
<1>9. SameVSync(s, t)
  BY <1>1, <1>2, <1>5, <1>7 DEF SameVSync, SameSync
<1>10. Has(t, "newscan") <=> s.char = s.R[0]
  BY <1>1, <1>3, <1>5, <1>7 DEF SameRequests
<1>11. s.char = s.R[0] => t.char = 0 /\ t.lastEnd = s.char
  BY <1>1, <1>2, <1>5, <1>7 DEF SameFields, SamePlace, SameSync
<1>12. ASSUME s.char = s.R[0], s.R[0] \in 2 .. CharMod - 1, Aligned(s)
       PROVE  /\ t.instMR = 0 /\ t.reg5 = s.R[5] /\ ~Has(t, "startvta") /\ ~Has(t, "resnext")
              /\ SameAsked(s, t)
  <2>1. s.char \in Nat /\ s.char >= 2 /\ CharMod \in Nat
    BY <1>12, Ranges
  <2>2. s.instSL = 0 /\ s.instMR = 0 /\ s.reg5 = s.R[5] /\ ~Has(s, "startvta") /\ ~Has(s, "resnext")
    BY <1>12, <2>1 DEF Aligned
  <2>3. c.char # c.R[0]
    BY <1>1, <1>12, <2>1 DEF SameLines
  <2>4. SameRequests(c, a)
    BY <1>2, <2>3
  <2>5. h.instSL = 0 /\ h.instMR = 0 /\ h.reg5 = s.R[5]
    BY <1>1, <1>2, <1>5, <2>2 DEF SameFields, SamePlace
  <2>6. ~Has(h, "startvta") /\ ~Has(h, "resnext") /\ SameAsked(s, h)
    BY <1>1, <1>5, <2>2, <2>4 DEF SameRequests, SameAsked
  <2> QED BY <1>7, <2>5, <2>6 DEF SameAsked
<1> QED BY <1>7, <1>8, <1>9, <1>10, <1>11, <1>12

LEMMA Products ==
  ASSUME NEW a \in Nat, NEW b \in Nat, NEW k \in Nat, a <= b
  PROVE  a * k <= b * k /\ (a + 1) * k = a * k + k /\ a * k \in Nat
<1>1. PICK c \in Nat : b = a + c
  <2>1. b - a \in Nat /\ b = a + (b - a)
    OBVIOUS
  <2> QED BY <2>1
<1>2. b * k = a * k + c * k /\ c * k \in Nat /\ a * k \in Nat
  BY <1>1
<1> QED BY <1>2

\* What a line that begins makes of the frame.
LEMMA NextLine ==
  ASSUME LineMod > 2, NEW s \in Counters, NEW l \in Counters, NEW t \in Counters,
         SameLines(s, l), SameAsked(s, l), l.instMR = 0, l.reg5 = s.R[5], l.char = 0,
         ~Has(l, "startvta"), ~Has(l, "resnext"), s.char = s.R[0], Proper(s.R),
         Begun(l, t), Again(l) => Restarts(l, t), ~Again(l) => GoesOn(l, t), s.steady >= 1
  PROVE  /\ Again(l) => Regular(t)
         /\ s.steady >= 2 /\ (Regular(s) \/ Adjusting(s)) =>
              /\ Regular(t) \/ Adjusting(t)
              /\ Again(l) => t.frame = Lines(s.R)
<1> DEFINE R0 == s.R[0]
           R4 == s.R[4]
           R5 == s.R[5]
           R9 == s.R[9]
<1>1. /\ R0 \in Nat /\ R0 >= 2 /\ R4 \in Nat /\ R4 < LineMod /\ R5 \in Nat /\ R5 < RasterMod
      /\ R9 \in Nat /\ R9 < RasterMod /\ LineMod \in Nat /\ RasterMod \in Nat
      /\ (R4 = 0 /\ R9 = 0 => R5 = 0)
  BY Ranges DEF Proper
<1>2. /\ t.R = s.R /\ t.char = 0 /\ l.R = s.R /\ l.line = s.line /\ l.raster = s.raster
      /\ l.lines = s.lines /\ l.steady = s.steady
      /\ t.instMR = (IF NextOf(l) = R9 THEN 1 ELSE 0)
      /\ ~Has(t, "startvta") /\ ~Has(t, "resnext")
  BY DEF Begun, SameLines
<1>3. t.char # t.R[0]
  BY <1>1, <1>2
<1>4. /\ NextOf(l) = (IF Has(s, "resframe") \/ Has(s, "resscan") THEN 0 ELSE (s.raster + 1) % RasterMod)
      /\ Again(l) <=> Has(s, "resframe") \/ (Has(s, "invta") /\ NextOf(l) = R5)
      /\ LineOf(l) = (IF Has(s, "reschar") THEN (s.line + 1) % LineMod ELSE s.line)
  <2>1. NextOf(l) = (IF Has(s, "resframe") \/ Has(s, "resscan") THEN 0 ELSE (s.raster + 1) % RasterMod)
    BY <1>2 DEF NextOf, SameAsked
  <2>2. Again(l) <=> Has(s, "resframe") \/ (Has(s, "invta") /\ NextOf(l) = R5)
    BY <1>2 DEF Again, SameAsked
  <2>3. LineOf(l) = (IF Has(s, "reschar") THEN (s.line + 1) % LineMod ELSE s.line)
    BY <1>2 DEF LineOf, SameAsked
  <2> QED BY <2>1, <2>2, <2>3
<1>5. ASSUME Again(l) PROVE Regular(t)
  <2>1. Restarts(l, t)
    BY <1>5
  <2>2. /\ t.line = 0 /\ t.raster = 0 /\ t.lines = 0
        /\ ~Has(t, "invta") /\ ~Has(t, "resframe") /\ (Has(t, "resscan") <=> R9 = 0)
    BY <1>2, <2>1 DEF Restarts
  <2>3. (LastRaster(t) <=> R9 = 0) /\ (LastLine(t) <=> R9 = 0 /\ R4 = 0)
    BY <1>2, <2>2 DEF LastLine, LastRaster
  <2>4. Position(t) = 0
    BY <1>1, <1>2, <2>2 DEF Position
  <2>5. LastLine(t) => t.instMR = 1
    <3> SUFFICES ASSUME LastLine(t) PROVE NextOf(l) = 0
      BY <1>1, <1>2, <2>3
    <3>1. R9 = 0 /\ R4 = 0 /\ R5 = 0
      BY <1>1, <2>3
    <3> QED BY <1>4, <1>5, <3>1
  <2>6. t.line \in 0 .. t.R[4] /\ t.raster \in 0 .. t.R[9] /\ t.char \notin 1 .. t.R[0] - 1
        /\ t.instMR \in {0, 1}
    BY <1>1, <1>2, <2>2
  <2> QED BY <1>2, <1>3, <2>2, <2>3, <2>4, <2>5, <2>6 DEF Regular
<1>6. ASSUME s.steady >= 2, Regular(s)
      PROVE  /\ Regular(t) \/ Adjusting(t)
             /\ Again(l) => t.frame = Lines(s.R)
  <2> DEFINE K == R9 + 1
             P == s.line * K
             Q == R4 * K
  <2>1. /\ s.line \in Nat /\ s.line <= R4 /\ s.raster \in Nat /\ s.raster <= R9
        /\ s.lines = P + s.raster /\ K \in Nat
    BY <1>1, <1>6 DEF Regular, Position
  <2>2. P <= Q /\ (s.line + 1) * K = P + K /\ P \in Nat /\ Q \in Nat
    <3> DEFINE n == s.line
    <3>1. n \in Nat /\ R4 \in Nat /\ K \in Nat /\ n <= R4
      BY <1>1, <2>1
    <3> HIDE DEF n, K, R4
    <3>2. n * K <= R4 * K /\ (n + 1) * K = n * K + K /\ n * K \in Nat
      BY <3>1, Products
    <3>3. R4 * K \in Nat
      BY <3>1
    <3> QED BY <3>2, <3>3 DEF n
  <2>3. Before(s.R) = Q + K /\ Lines(s.R) = Q + K + R5 /\ Lines(s.R) <= SlTop /\ SlTop \in Nat
    <3>1. (R4 + 1) * K = Q + K
      BY <1>1, <2>1, Products
    <3>2. Lines(s.R) <= SlTop /\ SlTop \in Nat
      BY Ranges DEF Proper
    <3> QED BY <3>1, <3>2 DEF Before, Lines
  <2>4. (LastRaster(s) <=> s.raster = R9) /\ (LastLine(s) <=> s.raster = R9 /\ s.line = R4)
    BY DEF LastRaster, LastLine
  <2>5. /\ Has(s, "resscan") <=> s.raster = R9
        /\ Has(s, "reschar") <=> s.raster = R9
        /\ Has(s, "invta") <=> s.raster = R9 /\ s.line = R4
        /\ Has(s, "resframe") => s.raster = R9 /\ s.line = R4 /\ R5 = 0
    BY <1>6, <2>4 DEF Regular
  <2>6. LastLine(s) => P = Q
    BY <2>4
  <2> HIDE DEF P, Q
  <2>7. LinesOf(l) = P + s.raster + 1
    <3>1. P + s.raster < SlTop /\ s.steady # 0
      BY <1>1, <1>6, <2>1, <2>2, <2>3
    <3> QED BY <1>2, <2>1, <3>1 DEF LinesOf, Counted
  <2>8. CASE s.raster # R9
    <3>1. NextOf(l) = s.raster + 1 /\ ~Again(l) /\ LineOf(l) = s.line
      <4>1. NextOf(l) = (s.raster + 1) % RasterMod /\ ~Again(l) /\ LineOf(l) = s.line
        BY <1>4, <2>5, <2>8
      <4>2. s.raster + 1 < RasterMod /\ s.raster + 1 \in Nat
        BY <1>1, <2>1, <2>8
      <4> DEFINE n == s.raster + 1
      <4>3. n % RasterMod = n
        <5> HIDE DEF n
        <5>1. n \in 0 .. RasterMod - 1 /\ RasterMod \in Nat \ {0}
          BY <1>1, <4>2 DEF n
        <5> QED BY <5>1
      <4> QED BY <4>1, <4>3
    <3>2. /\ t.line = s.line /\ t.raster = s.raster + 1 /\ t.lines = P + s.raster + 1
          /\ (Has(t, "resscan") <=> t.raster = R9) /\ ~Has(t, "invta") /\ ~Has(t, "resframe")
      <4>1. GoesOn(l, t)
        BY <3>1
      <4>2. ~Has(l, "invta")
        BY <2>5, <2>8 DEF SameAsked
      <4> QED BY <1>2, <2>7, <3>1, <4>1, <4>2 DEF GoesOn
    <3>3. t.lines = Position(t)
      <4>1. Position(t) = P + t.raster
        BY <1>2, <3>2 DEF Position, P
      <4> QED BY <2>1, <2>2, <3>2, <4>1
    <3>4. (LastRaster(t) <=> t.raster = R9) /\ (LastLine(t) => t.raster = R9)
      BY <1>2 DEF LastRaster, LastLine
    <3>5. t.instMR \in {0, 1} /\ (LastLine(t) => t.instMR = 1)
      BY <1>2, <3>1, <3>2, <3>4
    <3>6. t.line \in 0 .. t.R[4] /\ t.raster \in 0 .. t.R[9] /\ t.char \notin 1 .. t.R[0] - 1
      BY <1>1, <1>2, <2>1, <2>8, <3>2
    <3>7. Regular(t)
      BY <1>2, <1>3, <3>2, <3>3, <3>4, <3>5, <3>6 DEF Regular
    <3> QED BY <3>1, <3>7
  <2>9. CASE s.raster = R9 /\ s.line # R4
    <3>1. NextOf(l) = 0 /\ ~Again(l) /\ LineOf(l) = s.line + 1
      <4>1. NextOf(l) = 0 /\ ~Again(l) /\ LineOf(l) = (s.line + 1) % LineMod
        BY <1>4, <2>5, <2>9
      <4>2. s.line + 1 < LineMod /\ s.line + 1 \in Nat
        BY <1>1, <2>1, <2>9
      <4> DEFINE n == s.line + 1
      <4>3. n % LineMod = n
        <5> HIDE DEF n
        <5>1. n \in 0 .. LineMod - 1 /\ LineMod \in Nat \ {0}
          BY <1>1, <4>2 DEF n
        <5> QED BY <5>1
      <4> QED BY <4>1, <4>3
    <3>2. /\ t.line = s.line + 1 /\ t.raster = 0 /\ t.lines = P + K
          /\ (Has(t, "resscan") <=> R9 = 0) /\ ~Has(t, "invta") /\ ~Has(t, "resframe")
      <4>1. GoesOn(l, t)
        BY <3>1
      <4>2. ~Has(l, "invta")
        BY <2>5, <2>9 DEF SameAsked
      <4>3. LinesOf(l) = P + K
        BY <1>1, <2>2, <2>7, <2>9
      <4>4. t.line = s.line + 1 /\ t.raster = 0 /\ t.lines = LinesOf(l)
            /\ (Has(t, "resscan") <=> 0 = R9) /\ ~Has(t, "invta") /\ ~Has(t, "resframe")
        BY <1>2, <3>1, <4>1, <4>2 DEF GoesOn
      <4> QED BY <4>3, <4>4
    <3>3. t.lines = Position(t)
      <4>1. Position(t) = (s.line + 1) * K + 0
        BY <1>2, <3>2 DEF Position
      <4> QED BY <2>1, <2>2, <3>2, <4>1
    <3>4. (LastRaster(t) <=> R9 = 0) /\ (LastLine(t) => R9 = 0)
      BY <1>2, <3>2 DEF LastRaster, LastLine
    <3>5. t.instMR \in {0, 1} /\ (LastLine(t) => t.instMR = 1)
      BY <1>2, <3>1, <3>4
    <3>6. t.line \in 0 .. t.R[4] /\ t.raster \in 0 .. t.R[9] /\ t.char \notin 1 .. t.R[0] - 1
      BY <1>1, <1>2, <2>1, <2>9, <3>2
    <3>7. Regular(t)
      BY <1>2, <1>3, <3>2, <3>3, <3>4, <3>5, <3>6 DEF Regular
    <3> QED BY <3>1, <3>7
  <2>10. CASE s.raster = R9 /\ s.line = R4
    <3>1. NextOf(l) = 0 /\ (Again(l) <=> R5 = 0) /\ LineOf(l) = (R4 + 1) % LineMod
      BY <1>4, <2>5, <2>10
    <3>2. LinesOf(l) = Q + K
      BY <1>1, <2>2, <2>4, <2>6, <2>7, <2>10
    <3>3. CASE R5 = 0
      <4>1. Restarts(l, t) /\ Regular(t)
        BY <1>5, <3>1, <3>3
      <4>2. t.frame = Q + K
        BY <1>2, <1>6, <3>2, <4>1 DEF Restarts
      <4>3. t.frame = Lines(s.R)
        BY <2>1, <2>2, <2>3, <3>3, <4>2
      <4> QED BY <4>1, <4>3
    <3>4. CASE R5 # 0
      <4>1. GoesOn(l, t) /\ ~Again(l)
        BY <3>1, <3>4
      <4>2. /\ t.line = (R4 + 1) % LineMod /\ t.raster = 0 /\ t.lines = Q + K
            /\ Has(t, "invta") /\ ~Has(t, "resframe")
        <5>1. Has(l, "invta")
          BY <2>5, <2>10 DEF SameAsked
        <5> QED BY <3>1, <3>2, <4>1, <5>1 DEF GoesOn
      <4>3. t.raster \in 0 .. t.R[5] - 1 /\ t.lines = Before(t.R) + t.raster
        BY <1>1, <1>2, <2>1, <2>2, <2>3, <3>4, <4>2
      <4>4. t.line = (t.R[4] + (IF t.raster <= t.R[9] THEN 1 ELSE 2)) % LineMod
        BY <1>1, <1>2, <4>2
      <4>5. t.instMR \in {0, 1}
        BY <1>2
      <4>6. Adjusting(t)
        BY <1>2, <1>3, <4>2, <4>3, <4>4, <4>5 DEF Adjusting
      <4> QED BY <4>1, <4>6
    <3> QED BY <3>3, <3>4
  <2> QED BY <2>8, <2>9, <2>10
<1>7. ASSUME s.steady >= 2, Adjusting(s)
      PROVE  /\ Regular(t) \/ Adjusting(t)
             /\ Again(l) => t.frame = Lines(s.R)
  <2> DEFINE n == s.raster + 1
  <2>1. /\ s.raster \in Nat /\ n \in Nat /\ n >= 1 /\ n <= R5 /\ s.lines = Before(s.R) + s.raster
        /\ Has(s, "invta") /\ ~Has(s, "resframe") /\ ~Has(s, "resscan")
        /\ Has(s, "reschar") <=> s.raster = R9
    BY <1>1, <1>7 DEF Adjusting, LastRaster
  <2>2. NextOf(l) = n /\ (Again(l) <=> n = R5)
    <3>1. NextOf(l) = n % RasterMod
      BY <1>4, <2>1
    <3>2. n % RasterMod = n
      <4> HIDE DEF n
      <4>1. n \in 0 .. RasterMod - 1 /\ RasterMod \in Nat \ {0}
        BY <1>1, <2>1
      <4> QED BY <4>1
    <3> QED BY <1>4, <2>1, <3>1, <3>2
  <2>3. Before(s.R) \in Nat /\ Lines(s.R) = Before(s.R) + R5 /\ Lines(s.R) <= SlTop /\ SlTop \in Nat
    <3>1. (R4 + 1) * (R9 + 1) \in Nat
      BY <1>1
    <3>2. Lines(s.R) <= SlTop /\ SlTop \in Nat
      BY Ranges DEF Proper
    <3> QED BY <3>1, <3>2 DEF Before, Lines
  <2>4. LinesOf(l) = Before(s.R) + n
    <3>1. s.lines < SlTop /\ s.steady # 0
      BY <1>1, <1>7, <2>1, <2>3
    <3>2. LinesOf(l) = s.lines + 1
      BY <1>2, <3>1 DEF LinesOf, Counted
    <3> QED BY <2>1, <2>3, <3>2
  <2>5. CASE n = R5
    <3>1. Restarts(l, t) /\ Regular(t)
      BY <1>5, <2>2, <2>5
    <3>2. t.frame = LinesOf(l)
      BY <1>2, <1>7, <3>1 DEF Restarts
    <3> QED BY <2>3, <2>4, <2>5, <3>1, <3>2
  <2>6. CASE n # R5
    <3>1. GoesOn(l, t) /\ ~Again(l)
      BY <2>2, <2>6
    <3>2. /\ t.line = LineOf(l) /\ t.raster = n /\ t.lines = Before(s.R) + n
          /\ Has(t, "invta") /\ ~Has(t, "resframe")
      <4>1. Has(l, "invta")
        BY <2>1 DEF SameAsked
      <4> QED BY <2>2, <2>4, <3>1, <4>1 DEF GoesOn
    <3>3. t.raster \in 0 .. t.R[5] - 1 /\ t.lines = Before(t.R) + t.raster
      BY <1>1, <1>2, <2>1, <2>6, <3>2
    <3>4. t.line = (t.R[4] + (IF t.raster <= t.R[9] THEN 1 ELSE 2)) % LineMod
      <4>1. s.line = (R4 + (IF s.raster <= R9 THEN 1 ELSE 2)) % LineMod
        BY <1>7 DEF Adjusting
      <4>2. CASE s.raster = R9
        <5>1. t.line = (s.line + 1) % LineMod /\ s.line = (R4 + 1) % LineMod
          BY <1>1, <1>4, <2>1, <3>2, <4>1, <4>2
        <5>2. ~(t.raster <= t.R[9])
          BY <1>1, <1>2, <2>1, <3>2, <4>2
        <5>3. (((R4 + 1) % LineMod) + 1) % LineMod = (R4 + 2) % LineMod
          <6> HIDE DEF R4
          <6>1. CASE R4 + 1 < LineMod
            <7>1. (R4 + 1) % LineMod = R4 + 1
              BY <1>1, <6>1
            <7>2. R4 + 1 + 1 = R4 + 2
              BY <1>1
            <7> QED BY <7>1, <7>2
          <6>2. CASE R4 + 1 = LineMod
            <7>1. (R4 + 1) % LineMod = 0 /\ R4 + 2 = LineMod + 1
              BY <1>1, <6>2
            <7>2. 1 % LineMod = 1 /\ (LineMod + 1) % LineMod = 1
              BY <1>1
            <7>3. 0 + 1 = 1
              OBVIOUS
            <7> QED BY <7>1, <7>2, <7>3
          <6> QED BY <1>1, <6>1, <6>2
        <5> QED BY <1>2, <5>1, <5>2, <5>3
      <4>3. CASE s.raster # R9
        <5>1. t.line = s.line
          BY <1>4, <2>1, <3>2, <4>3
        <5>2. (t.raster <= t.R[9]) <=> (s.raster <= R9)
          BY <1>1, <1>2, <2>1, <3>2, <4>3
        <5> QED BY <1>2, <4>1, <5>1, <5>2
      <4> QED BY <4>2, <4>3
    <3>5. t.instMR \in {0, 1}
      BY <1>2
    <3>6. Adjusting(t)
      BY <1>2, <1>3, <3>2, <3>3, <3>4, <3>5 DEF Adjusting
    <3> QED BY <3>1, <3>6
  <2> QED BY <2>5, <2>6
<1> QED BY <1>5, <1>6, <1>7

\* The invariant.
Framed(s) ==
  /\ s.steady >= 1 /\ s.R[0] \in 2 .. CharMod - 1 => Aligned(s)
  /\ Proper(s.R) => /\ s.steady >= 2 => Regular(s) \/ Adjusting(s)
                    /\ s.steady = 3 => s.frame = Lines(s.R)

LEMMA FramedCycle ==
  ASSUME LineMod > 2, NEW s \in Counters, ~Has(s, "newscan"), NEW length \in Int, NEW t,
         crtc_cycle(s, length, t), Framed(s)
  PROVE  Framed(t)
<1> DEFINE l == CharInstMR(CharInstSL(HSync(AtLineEnd(CountChar(MonitorLine(s, length))))))
           a == StartScan(l)
           b == NextRaster(a)
           w == WatchRaster(b)
           d == Adjust(w)
           k == CountCharLine(d)
           e == EndScan(k)
<1>1. t = IF Has(l, "newscan") THEN e ELSE l
  BY DEF crtc_cycle
<1>2. /\ l \in Counters /\ SameLines(s, l)
      /\ Has(l, "newscan") <=> s.char = s.R[0]
      /\ s.char = s.R[0] => l.char = 0
      /\ s.char = s.R[0] /\ s.R[0] \in 2 .. CharMod - 1 /\ Aligned(s) =>
           /\ l.instMR = 0 /\ l.reg5 = s.R[5] /\ ~Has(l, "startvta") /\ ~Has(l, "resnext")
           /\ SameAsked(s, l)
  BY Late
<1>3. s.steady \in 0 .. 3 /\ (Proper(s.R) => s.R[0] \in 2 .. CharMod - 1)
  BY DEF Counters, Proper
<1>4. CASE s.char # s.R[0]
  <2>1. t = l /\ t.R = s.R /\ t.steady = s.steady /\ t.frame = s.frame
    BY <1>1, <1>2, <1>4 DEF SameLines
  <2>2. ASSUME s.steady >= 1, s.R[0] \in 2 .. CharMod - 1
        PROVE  /\ Aligned(t) /\ (Regular(s) => Regular(t))
               /\ Proper(s.R) /\ Adjusting(s) => Adjusting(t)
    <3>1. Aligned(s)
      BY <2>2 DEF Framed
    <3> QED BY <1>4, <2>1, <2>2, <3>1, WithinLine
  <2> HIDE DEF l
  <2> QED BY <1>3, <2>1, <2>2 DEF Framed
<1>5. CASE s.char = s.R[0]
  <2>1. t = e
    BY <1>1, <1>2, <1>5
  <2> HIDE DEF l
  <2>2. /\ t \in Counters /\ Begun(l, t)
        /\ Again(l) => Restarts(l, t)
        /\ ~Again(l) => GoesOn(l, t)
    BY <1>2, <2>1, LineScanned
  <2> HIDE DEF a, b, w, d, k, e
  <2>3. t.R = s.R /\ t.char = 0 /\ t.instSL = 1
    BY <1>2, <1>5, <2>2 DEF Begun, SameLines
  <2>4. /\ Again(l) => t.steady = OnceMore(s.steady)
        /\ ~Again(l) => t.steady = s.steady /\ t.frame = s.frame
    BY <1>2, <2>2 DEF Restarts, GoesOn, SameLines
  <2>5. s.R[0] \in 2 .. CharMod - 1 => Aligned(t)
    <3> SUFFICES ASSUME s.R[0] \in 2 .. CharMod - 1
                 PROVE  Aligned(t)
      OBVIOUS
    <3>1. s.R[0] \in Nat /\ s.R[0] >= 2
      BY Ranges
    <3> QED BY <2>3, <3>1 DEF Aligned
  <2>6. ASSUME s.steady >= 1, Proper(s.R)
        PROVE  /\ Again(l) => Regular(t)
               /\ s.steady >= 2 /\ (Regular(s) \/ Adjusting(s)) =>
                    /\ Regular(t) \/ Adjusting(t)
                    /\ Again(l) => t.frame = Lines(s.R)
    <3>1. Aligned(s) /\ s.R[0] \in 2 .. CharMod - 1
      BY <1>3, <2>6 DEF Framed
    <3>2. /\ SameLines(s, l) /\ SameAsked(s, l) /\ l.instMR = 0 /\ l.reg5 = s.R[5] /\ l.char = 0
          /\ ~Has(l, "startvta") /\ ~Has(l, "resnext")
      BY <1>2, <1>5, <3>1
    <3> QED BY <1>2, <1>5, <2>2, <2>6, <3>2, NextLine
  <2>7. OnceMore(0) = 1 /\ OnceMore(1) = 2 /\ OnceMore(2) = 3 /\ OnceMore(3) = 3
    BY DEF OnceMore
  <2>8. ASSUME Proper(s.R)
        PROVE  /\ t.steady >= 2 => Regular(t) \/ Adjusting(t)
               /\ t.steady = 3 => t.frame = Lines(s.R)
    <3>1. s.steady >= 2 => Regular(s) \/ Adjusting(s)
      BY <2>8 DEF Framed
    <3>2. s.steady = 3 => s.frame = Lines(s.R)
      BY <2>8 DEF Framed
    <3>3. CASE s.steady = 0
      <4>1. t.steady \in {0, 1}
        BY <2>4, <2>7, <3>3
      <4> QED BY <4>1
    <3>4. CASE s.steady = 1
      BY <2>4, <2>6, <2>7, <2>8, <3>4
    <3>5. CASE s.steady = 2
      BY <2>4, <2>6, <2>7, <2>8, <3>1, <3>5
    <3>6. CASE s.steady = 3
      BY <2>4, <2>6, <2>7, <2>8, <3>1, <3>2, <3>6
    <3> QED BY <1>3, <3>3, <3>4, <3>5, <3>6
  <2> QED BY <2>3, <2>5, <2>8 DEF Framed
<1> QED BY <1>4, <1>5

(***************************************************************************)
(* VSYNC.                                                                  *)
(***************************************************************************)
\* Its first line is a line of the frame after as many lines as the width of a VSYNC can
\* have, it ends within the frame, and the lines of the adjustment have other numbers.
Fits(R) ==
  /\ R[3].vsw \in 0 .. SyncMod - 1 /\ R[7] \in 0 .. R[4] /\ R[4] + 2 < LineMod
  /\ SyncMod <= R[7] * (R[9] + 1)
  /\ R[7] * (R[9] + 1) + VSyncLines(R) <= Lines(R)
Begin(R) == R[7] * (R[9] + 1)
\* The lines until the counter of the width meets register 3.
Left(R, vsw) == IF vsw < R[3].vsw THEN R[3].vsw - vsw ELSE R[3].vsw + SyncMod - vsw
InPlace(s) ==
  /\ s.lines < Begin(s.R) /\ Has(s, "invsync") => s.steady = 2 /\ Left(s.R, s.vsw) + s.lines < SyncMod
  /\ s.lines >= Begin(s.R) /\ s.lines < Begin(s.R) + VSyncLines(s.R) =>
       Has(s, "invsync") /\ s.vsw = s.lines - Begin(s.R) /\ s.held = s.vsw + 1
  /\ s.lines >= Begin(s.R) + VSyncLines(s.R) => ~Has(s, "invsync") /\ s.vsync = VSyncLines(s.R)
  /\ s.steady = 3 => s.vsync = VSyncLines(s.R)
Synced(s) ==
  /\ ~Has(s, "resvsync") /\ (Has(s, "invsync") \/ s.held = 0)
  /\ s.steady >= 1 => Right(s)
  /\ s.steady >= 2 /\ Proper(s.R) /\ Fits(s.R) => InPlace(s)

LEMMA Widths ==
  ASSUME NEW R, Proper(R), Fits(R)
  PROVE  /\ Begin(R) \in Nat /\ SyncMod <= Begin(R) /\ SyncMod \in Nat \ {0}
         /\ R[7] \in Nat /\ R[7] # 0 /\ R[4] \in Nat /\ R[9] \in Nat /\ R[7] <= R[4]
         /\ R[3].vsw \in 0 .. SyncMod - 1
         /\ VSyncLines(R) \in 1 .. SyncMod
         /\ VSyncLines(R) = (IF R[3].vsw = 0 THEN SyncMod ELSE R[3].vsw)
         /\ Begin(R) + VSyncLines(R) <= Lines(R) /\ Lines(R) \in Nat /\ Lines(R) <= SlTop /\ SlTop \in Nat
<1>1. /\ R[4] \in Nat /\ R[5] \in Nat /\ R[9] \in Nat /\ SyncMod \in Nat \ {0} /\ SlTop \in Nat
      /\ Lines(R) <= SlTop /\ R[9] + 1 \in Nat
  BY Ranges DEF Proper
<1>2. /\ R[3].vsw \in 0 .. SyncMod - 1 /\ R[7] \in Nat /\ R[7] <= R[4]
      /\ SyncMod <= Begin(R) /\ Begin(R) + VSyncLines(R) <= Lines(R)
  BY <1>1 DEF Fits, Begin
<1>3. Begin(R) \in Nat
  BY <1>1, <1>2 DEF Begin
<1>4. R[7] # 0
  <2> SUFFICES ASSUME R[7] = 0 PROVE FALSE
    OBVIOUS
  <2>1. Begin(R) = 0
    BY <1>1 DEF Begin
  <2> QED BY <1>1, <1>2, <2>1
<1>5. VSyncLines(R) = (IF R[3].vsw = 0 THEN SyncMod ELSE R[3].vsw)
  BY DEF VSyncLines
<1>6. VSyncLines(R) \in 1 .. SyncMod
  <2> DEFINE v == R[3].vsw
  <2>1. v \in 0 .. SyncMod - 1 /\ VSyncLines(R) = (IF v = 0 THEN SyncMod ELSE v)
    BY <1>2, <1>5
  <2> HIDE DEF v
  <2> QED BY <1>1, <2>1
<1>7. Lines(R) \in Nat
  <2>1. (R[4] + 1) * (R[9] + 1) \in Nat
    BY <1>1
  <2> QED BY <1>1, <2>1 DEF Lines
<1> QED BY <1>1, <1>2, <1>3, <1>4, <1>5, <1>6, <1>7

\* The line that VSYNC begins with comes at its place in the frame, and nowhere else.
LEMMA EntersInPlace ==
  ASSUME LineMod > 2, NEW s \in Counters, NEW l \in Counters, NEW t \in Counters,
         SameLines(s, l), SameAsked(s, l), l.reg5 = s.R[5], s.char = s.R[0],
         s.R[0] \in 2 .. CharMod - 1, Proper(s.R), Fits(s.R),
         Again(l) => Restarts(l, t), ~Again(l) => GoesOn(l, t), s.steady >= 2,
         Regular(s) \/ Adjusting(s)
  PROVE  /\ LinesOf(l) = s.lines + 1 /\ t.lines = (IF Again(l) THEN 0 ELSE s.lines + 1)
         /\ (Again(l) \/ Has(s, "reschar")) /\ t.line = s.R[7] /\ s.line # s.R[7]
              <=> ~Again(l) /\ s.lines + 1 = Begin(s.R)
<1> DEFINE R4 == s.R[4]
           R7 == s.R[7]
           R9 == s.R[9]
           K == R9 + 1
           y == s.line
<1>1. /\ R4 \in Nat /\ R9 \in Nat /\ R9 < RasterMod /\ R7 \in Nat /\ R7 # 0 /\ R7 <= R4
      /\ Begin(s.R) = R7 * K /\ K \in Nat /\ LineMod \in Nat /\ RasterMod \in Nat
      /\ s.R[5] \in Nat /\ SlTop \in Nat /\ Lines(s.R) \in Nat /\ Lines(s.R) <= SlTop
      /\ Lines(s.R) = Before(s.R) + s.R[5]
  BY Widths, Ranges DEF Begin, Proper, Lines, Before
<1>2. R4 + 2 < LineMod /\ s.R[0] \in Nat /\ s.R[0] >= 2 /\ s.R[0] \notin 1 .. s.R[0] - 1
  BY Ranges DEF Fits
<1>3. Before(s.R) = R4 * K + K /\ R4 * K \in Nat /\ R7 * K <= R4 * K /\ R7 * K \in Nat
  <2>1. R4 \in Nat /\ R7 \in Nat /\ R7 <= R4 /\ K \in Nat
    BY <1>1
  <2>2. Before(s.R) = (R4 + 1) * K
    BY DEF Before
  <2> HIDE DEF R4, R7, K
  <2>3. R7 * K <= R4 * K /\ R7 * K \in Nat
    BY <2>1, Products
  <2>4. (R4 + 1) * K = R4 * K + K /\ R4 * K \in Nat
    BY <2>1, Products
  <2> QED BY <2>2, <2>3, <2>4
<1>4. l.R = s.R /\ l.line = s.line /\ l.lines = s.lines /\ l.steady = s.steady
      /\ (Has(l, "reschar") <=> Has(s, "reschar"))
      /\ LineOf(l) = (IF Has(s, "reschar") THEN (s.line + 1) % LineMod ELSE s.line)
      /\ (Again(l) => t.line = 0) /\ (~Again(l) => t.line = LineOf(l))
      /\ t.lines = (IF Again(l) THEN 0 ELSE LinesOf(l))
  BY DEF SameLines, SameAsked, LineOf, Restarts, GoesOn
<1>5. s.steady # 0 /\ s.lines \in Nat
  BY DEF Counters
<1>6. CASE Regular(s)
  <2> DEFINE P == y * K
             B == R7 * K
             Q == R4 * K
  <2>1. /\ y \in Nat /\ y <= R4 /\ s.raster \in Nat /\ s.raster <= R9
        /\ s.lines = P + s.raster /\ (Has(s, "reschar") <=> s.raster = R9)
    BY <1>1, <1>2, <1>6 DEF Regular, Position, LastRaster
  <2>2. /\ P \in Nat /\ P <= Q
        /\ R7 <= y => B <= P
        /\ R7 >= y + 1 => P + K <= B
        /\ R7 = y + 1 => B = P + K
    <3>1. y \in Nat /\ R4 \in Nat /\ R7 \in Nat /\ K \in Nat /\ y <= R4
      BY <1>1, <2>1
    <3> HIDE DEF y, R4, R7, K
    <3>2. P <= Q /\ P \in Nat /\ (y + 1) * K = P + K
      BY <3>1, Products
    <3>3. ASSUME R7 <= y PROVE B <= P
      BY <3>1, <3>3, Products
    <3>4. ASSUME R7 >= y + 1 PROVE P + K <= B
      <4>1. (y + 1) * K <= R7 * K
        <5>1. y + 1 \in Nat /\ y + 1 <= R7
          BY <3>1, <3>4
        <5> DEFINE z == y + 1
        <5> HIDE DEF z
        <5>2. z * K <= R7 * K
          BY <3>1, <5>1, Products DEF z
        <5> QED BY <5>2 DEF z
      <4> QED BY <3>2, <4>1
    <3> QED BY <3>2, <3>3, <3>4
  <2> HIDE DEF P, B, Q
  <2>3. Begin(s.R) = B /\ Before(s.R) = Q + K /\ Q \in Nat /\ B \in Nat
    BY <1>1, <1>3 DEF B, Q
  <2>4. LinesOf(l) = s.lines + 1
    <3>1. s.lines < SlTop
      BY <1>1, <2>1, <2>2, <2>3
    <3> QED BY <1>4, <1>5, <3>1 DEF LinesOf, Counted
  <2>5. Again(l) => t.line # R7
    BY <1>1, <1>4
  <2>6. CASE s.raster # R9
    <3>1. ~Has(s, "reschar") /\ s.lines + 1 # B
      <4> DEFINE n == s.raster
      <4>1. /\ n \in Nat /\ n < R9 /\ R9 \in Nat /\ K = R9 + 1 /\ R7 \in Nat /\ y \in Nat
            /\ s.lines = P + n /\ P \in Nat /\ B \in Nat
        BY <1>1, <2>1, <2>2, <2>3, <2>6
      <4> HIDE DEF n, R7, R9, y, K
      <4>2. R7 <= y => s.lines + 1 # B
        BY <2>2, <4>1
      <4>3. R7 >= y + 1 => s.lines + 1 # B
        BY <2>2, <4>1
      <4>4. R7 <= y \/ R7 >= y + 1
        BY <4>1
      <4>5. s.lines + 1 # B
        BY <4>2, <4>3, <4>4
      <4> QED BY <2>1, <2>6, <4>5 DEF R9
    <3> QED BY <1>4, <2>3, <2>4, <2>5, <3>1
  <2>7. CASE s.raster = R9
    <3>1. Has(s, "reschar") /\ s.lines + 1 = P + K /\ LineOf(l) = (y + 1) % LineMod
      BY <1>1, <1>4, <2>1, <2>2, <2>7
    <3>2. (y + 1) % LineMod = y + 1
      <4> DEFINE n == y + 1
      <4>1. n \in 0 .. LineMod - 1 /\ LineMod \in Nat \ {0}
        BY <1>1, <1>2, <2>1
      <4> HIDE DEF n
      <4>2. n % LineMod = n
        BY <4>1
      <4> QED BY <4>2 DEF n
    <3>3. P + K = B <=> R7 = y + 1
      <4>1. K \in Nat /\ K > 0 /\ R7 \in Nat /\ y \in Nat /\ P \in Nat /\ B \in Nat
        BY <1>1, <2>1, <2>2, <2>3
      <4>2. R7 >= y + 2 => P + K # B
        <5> HIDE DEF R7, y, K
        <5>1. ASSUME R7 >= y + 2 PROVE P + K + K <= B
          <6>1. (y + 1) * K = y * K + K /\ (y + 1 + 1) * K = (y + 1) * K + K /\ (y + 1 + 1) * K <= R7 * K
            <7> DEFINE z == y + 1 + 1
            <7>1. z \in Nat /\ z <= R7
              BY <4>1, <5>1
            <7>2. (y + 1) * K = y * K + K
              BY <4>1, Products
            <7>3. (y + 1 + 1) * K = (y + 1) * K + K
              <8> DEFINE x == y + 1
              <8>1. x \in Nat
                BY <4>1
              <8> HIDE DEF x
              <8>2. (x + 1) * K = x * K + K
                BY <4>1, <8>1, Products
              <8> QED BY <8>2 DEF x
            <7> HIDE DEF z
            <7>4. z * K <= R7 * K
              BY <4>1, <7>1, Products
            <7> QED BY <7>2, <7>3, <7>4 DEF z
          <6> DEFINE e == (y + 1) * K
                     f == (y + 1 + 1) * K
          <6>2. e = P + K /\ f = e + K /\ f <= B
            BY <6>1 DEF P, B
          <6> HIDE DEF e, f
          <6> QED BY <4>1, <6>2
        <5> QED BY <4>1, <5>1
      <4> HIDE DEF R7, y, K
      <4> QED BY <2>2, <4>1, <4>2
    <3>4. y + 1 = R7 => y # R7
      BY <2>1
    <3> QED BY <1>4, <2>3, <2>4, <2>5, <3>1, <3>2, <3>3, <3>4
  <2> QED BY <2>6, <2>7
<1>7. CASE Adjusting(s)
  <2>1. /\ s.raster \in Nat /\ s.raster <= s.R[5] - 1 /\ s.lines = Before(s.R) + s.raster
        /\ s.line = (R4 + (IF s.raster <= R9 THEN 1 ELSE 2)) % LineMod
    BY <1>1, <1>7 DEF Adjusting
  <2>2. R4 + 1 \in 0 .. LineMod - 1 /\ R4 + 2 \in 0 .. LineMod - 1 /\ LineMod \in Nat \ {0}
    BY <1>1, <1>2
  <2>3. (R4 + 1) % LineMod = R4 + 1 /\ (R4 + 2) % LineMod = R4 + 2
    BY <2>2
  <2>4. s.line # R7
    BY <1>1, <2>1, <2>3
  <2>5. LinesOf(l) = s.lines + 1
    <3>1. s.lines < SlTop
      BY <1>1, <1>3, <2>1
    <3> QED BY <1>4, <1>5, <3>1 DEF LinesOf, Counted
  <2>6. s.lines + 1 # Begin(s.R)
    BY <1>1, <1>3, <2>1
  <2>7. (Again(l) \/ Has(s, "reschar")) => t.line # R7
    <3>1. CASE Again(l)
      BY <1>1, <1>4, <3>1
    <3>2. CASE ~Again(l) /\ Has(s, "reschar")
      <4>1. s.raster = R9
        BY <1>7, <3>2 DEF Adjusting, LastRaster
      <4>2. s.line = R4 + 1
        BY <1>1, <2>1, <2>3, <4>1
      <4>3. t.line = (s.line + 1) % LineMod
        BY <1>4, <3>2
      <4>4. R4 + 1 + 1 = R4 + 2
        BY <1>1
      <4>5. t.line = R4 + 2
        BY <2>3, <4>2, <4>3, <4>4
      <4> QED BY <1>1, <4>5
    <3> QED BY <3>1, <3>2
  <2> QED BY <1>4, <2>4, <2>5, <2>6, <2>7
<1> QED BY <1>6, <1>7

LEMMA SyncLine ==
  ASSUME NEW s \in Counters, NEW a \in Counters, NEW k \in Counters, NEW t \in Counters,
         NEW again \in BOOLEAN, Proper(s.R), Fits(s.R), s.steady \in {2, 3}, InPlace(s),
         ~Has(s, "resvsync"), Has(s, "invsync") \/ s.held = 0,
         Widened(s, a), SyncEnds(k, t), t.R = s.R, k.held = s.held, k.vsync = s.vsync,
         LET enters == ~again /\ s.lines + 1 = Begin(s.R)
         IN /\ Has(k, "invsync") <=> Has(a, "invsync") \/ enters
            /\ Has(k, "resvsync") <=> Has(a, "resvsync") /\ ~enters
            /\ k.vsw = IF enters /\ ~Has(a, "invsync") THEN 0 ELSE a.vsw,
         t.lines = (IF again THEN 0 ELSE s.lines + 1),
         t.steady = (IF again THEN 3 ELSE s.steady), again => s.lines + 1 = Lines(s.R)
  PROVE  InPlace(t)
<1> DEFINE V == s.R[3].vsw
           W == VSyncLines(s.R)
           B == Begin(s.R)
           L == Lines(s.R)
           x == s.lines
           v == s.vsw
           n == (v + 1) % SyncMod
           enters == ~again /\ x + 1 = B
           sync == Has(s, "invsync")
<1>1. /\ B \in Nat /\ SyncMod <= B /\ SyncMod \in Nat \ {0} /\ V \in 0 .. SyncMod - 1
      /\ W \in 1 .. SyncMod /\ W = (IF V = 0 THEN SyncMod ELSE V)
      /\ B + W <= L /\ L \in Nat /\ L <= SlTop /\ SlTop \in Nat
  BY Widths
<1>2. x \in Nat /\ v \in 0 .. SyncMod - 1 /\ s.held \in Nat
  BY DEF Counters
<1>3. n = (IF v + 1 = SyncMod THEN 0 ELSE v + 1)
  <2> HIDE DEF v
  <2>1. CASE v + 1 = SyncMod
    BY <1>1, <1>2, <2>1
  <2>2. CASE v + 1 # SyncMod
    <3> DEFINE m == v + 1
    <3>1. m \in 0 .. SyncMod - 1
      BY <1>1, <1>2, <2>2
    <3> HIDE DEF m
    <3>2. m % SyncMod = m
      BY <1>1, <3>1
    <3> QED BY <2>2, <3>2 DEF m
  <2> QED BY <2>1, <2>2
<1>4. /\ x < B /\ sync => s.steady = 2 /\ Left(s.R, v) + x < SyncMod
      /\ x >= B /\ x < B + W => sync /\ v = x - B /\ s.held = v + 1
      /\ x >= B + W => ~sync /\ s.vsync = W
      /\ s.steady = 3 => s.vsync = W
  BY DEF InPlace
<1>5. \A m : Left(s.R, m) = (IF m < V THEN V - m ELSE V + SyncMod - m)
  BY DEF Left
<1>6. /\ Has(a, "invsync") <=> sync
      /\ ~sync => ~Has(a, "resvsync") /\ a.vsw = v
      /\ sync /\ n = V => Has(a, "resvsync") /\ a.vsw = 0
      /\ sync /\ n # V => ~Has(a, "resvsync") /\ a.vsw = n
  BY DEF Widened
<1> HIDE DEF n
<1>7. /\ Has(k, "invsync") <=> Has(a, "invsync") \/ enters
      /\ Has(k, "resvsync") <=> Has(a, "resvsync") /\ ~enters
      /\ k.vsw = IF enters /\ ~Has(a, "invsync") THEN 0 ELSE a.vsw
  OBVIOUS
<1>8. /\ t.vsw = k.vsw
      /\ Has(t, "invsync") <=> Has(k, "invsync") /\ ~Over(k)
      /\ t.vsync = (IF Over(k) THEN s.held ELSE s.vsync)
      /\ t.held = (IF ~Over(k) /\ Has(k, "invsync") THEN Counted(s.held) ELSE 0)
      /\ Over(k) <=> Has(k, "invsync") /\ Has(k, "resvsync")
  <2>1. t.steady >= 2 /\ t.steady > 0
    OBVIOUS
  <2> QED BY <2>1 DEF SyncEnds, Over
<1>9. /\ t.lines = (IF again THEN 0 ELSE x + 1) /\ t.steady = (IF again THEN 3 ELSE s.steady)
      /\ again => x + 1 = L
  OBVIOUS
<1>10. InPlace(t) <=>
         /\ t.lines < B /\ Has(t, "invsync") => t.steady = 2 /\ Left(s.R, t.vsw) + t.lines < SyncMod
         /\ t.lines >= B /\ t.lines < B + W => Has(t, "invsync") /\ t.vsw = t.lines - B /\ t.held = t.vsw + 1
         /\ t.lines >= B + W => ~Has(t, "invsync") /\ t.vsync = W
         /\ t.steady = 3 => t.vsync = W
  BY DEF InPlace
<1> HIDE DEF V, W, B, L, x, v, enters, sync
<1>11. CASE x < B /\ ~sync
  <2>1. ~again
    BY <1>1, <1>2, <1>9, <1>11
  <2>2. CASE x + 1 = B
    <3>1. enters
      BY <2>1, <2>2 DEF enters
    <3>2. Has(k, "invsync") /\ ~Over(k) /\ t.vsw = 0 /\ Has(t, "invsync")
      BY <1>6, <1>7, <1>8, <1>11, <3>1
    <3>3. s.held = 0
      BY <1>11 DEF sync
    <3>4. t.held = 1
      <4>1. SlTop > 0
        BY <1>1
      <4> QED BY <1>8, <3>2, <3>3, <4>1 DEF Counted
    <3>5. t.lines = B /\ t.steady = s.steady /\ t.vsync = s.vsync
      BY <1>8, <1>9, <2>1, <2>2, <3>2
    <3>6. t.lines - B = 0 /\ ~(t.lines < B) /\ ~(t.lines >= B + W)
      BY <1>1, <3>5
    <3>7. t.steady = 3 => t.vsync = W
      BY <1>4, <3>5
    <3>8. t.held = t.vsw + 1
      BY <3>2, <3>4
    <3> QED BY <1>10, <3>2, <3>6, <3>7, <3>8
  <2>3. CASE x + 1 # B
    <3>1. ~enters
      BY <2>3 DEF enters
    <3>2. ~Has(k, "invsync") /\ ~Over(k) /\ ~Has(t, "invsync") /\ t.vsync = s.vsync
      BY <1>6, <1>7, <1>8, <1>11, <3>1
    <3>3. t.lines < B /\ ~(t.lines >= B) /\ ~(t.lines >= B + W) /\ t.steady = s.steady
      BY <1>1, <1>2, <1>9, <1>11, <2>1, <2>3
    <3> QED BY <1>4, <1>10, <3>2, <3>3
  <2> QED BY <2>2, <2>3
<1>12. CASE x < B /\ sync
  <2>1. s.steady = 2 /\ Left(s.R, v) + x < SyncMod
    BY <1>4, <1>12
  <2>2. Left(s.R, v) = (IF v < V THEN V - v ELSE V + SyncMod - v) /\ Left(s.R, v) \in Nat
        /\ Left(s.R, v) >= 1
    <3>1. Left(s.R, v) = (IF v < V THEN V - v ELSE V + SyncMod - v)
      BY <1>5
    <3> QED BY <1>1, <1>2, <3>1
  <2>3. x + 1 < B /\ ~again /\ ~enters
    BY <1>1, <1>2, <1>9, <2>1, <2>2 DEF enters
  <2>4. t.lines = x + 1 /\ t.lines < B /\ ~(t.lines >= B) /\ ~(t.lines >= B + W) /\ t.steady = 2
    BY <1>1, <1>2, <1>9, <2>1, <2>3
  <2>5. CASE n = V
    <3>1. ~Has(t, "invsync")
      BY <1>6, <1>7, <1>8, <1>12, <2>3, <2>5
    <3>2. t.steady # 3
      BY <2>4
    <3> QED BY <1>10, <2>4, <3>1, <3>2
  <2>6. CASE n # V
    <3>1. t.vsw = n
      BY <1>6, <1>7, <1>8, <1>12, <2>3, <2>6
    <3>2. Left(s.R, n) = (IF n < V THEN V - n ELSE V + SyncMod - n)
      BY <1>5
    <3>3. Left(s.R, n) = Left(s.R, v) - 1
      BY <1>1, <1>2, <1>3, <2>2, <2>6, <3>2
    <3>4. Left(s.R, t.vsw) + t.lines < SyncMod
      <4> DEFINE left == Left(s.R, v)
      <4>1. left \in Nat /\ left + x < SyncMod /\ Left(s.R, t.vsw) = left - 1 /\ t.lines = x + 1
        BY <2>1, <2>2, <2>4, <3>1, <3>3
      <4> HIDE DEF left
      <4> QED BY <1>1, <1>2, <4>1
    <3>5. t.steady # 3
      BY <2>4
    <3> QED BY <1>10, <2>4, <3>4, <3>5
  <2> QED BY <2>5, <2>6
<1>13. CASE x >= B /\ x < B + W
  <2>1. sync /\ v = x - B /\ s.held = v + 1
    BY <1>4, <1>13
  <2>2. ~enters
    BY <1>1, <1>2, <1>13 DEF enters
  <2>3. n = V <=> v + 1 = W
    BY <1>1, <1>2, <1>3, <1>13, <2>1
  <2>4. CASE v + 1 = W
    <3>1. Over(k) /\ ~Has(t, "invsync") /\ t.vsync = W
      BY <1>6, <1>7, <1>8, <2>1, <2>2, <2>3, <2>4
    <3>2. x + 1 = B + W
      BY <1>1, <1>2, <2>1, <2>4
    <3>3. ~(t.lines >= B /\ t.lines < B + W)
      BY <1>1, <1>9, <3>2
    <3> QED BY <1>10, <3>1, <3>3
  <2>5. CASE v + 1 # W
    <3>1. ~Over(k) /\ Has(k, "invsync") /\ Has(t, "invsync") /\ t.vsw = n /\ t.vsync = s.vsync
          /\ t.held = Counted(s.held)
      BY <1>6, <1>7, <1>8, <2>1, <2>2, <2>3, <2>5
    <3>2. x + 1 < B + W /\ v + 1 < W
      BY <1>1, <1>2, <1>13, <2>1, <2>5
    <3>3. ~again
      BY <1>1, <1>2, <1>9, <3>2
    <3>4. n = v + 1 /\ t.held = v + 2
      <4>1. n = v + 1
        BY <1>1, <1>2, <1>3, <3>2
      <4>2. s.held < SlTop
        BY <1>1, <1>2, <2>1, <3>2
      <4>3. t.held = s.held + 1
        BY <3>1, <4>2 DEF Counted
      <4> QED BY <1>2, <2>1, <4>1, <4>3
    <3>5. t.lines = x + 1 /\ t.steady = s.steady
      BY <1>9, <3>3
    <3>6. /\ t.vsw = t.lines - B /\ t.held = t.vsw + 1
          /\ ~(t.lines < B) /\ ~(t.lines >= B + W)
      BY <1>1, <1>2, <1>13, <2>1, <3>1, <3>2, <3>4, <3>5
    <3>7. t.steady = 3 => t.vsync = W
      BY <1>4, <3>1, <3>5
    <3> QED BY <1>10, <3>1, <3>6, <3>7
  <2> QED BY <2>4, <2>5
<1>14. CASE x >= B + W
  <2>1. ~sync /\ s.vsync = W
    BY <1>4, <1>14
  <2>2. ~enters
    BY <1>1, <1>2, <1>14 DEF enters
  <2>3. ~Over(k) /\ ~Has(t, "invsync") /\ t.vsync = W
    BY <1>6, <1>7, <1>8, <2>1, <2>2
  <2>4. ~(t.lines >= B /\ t.lines < B + W)
    BY <1>1, <1>2, <1>9, <1>14
  <2> QED BY <1>10, <2>3, <2>4
<1>15. x < B \/ (x >= B /\ x < B + W) \/ x >= B + W
  BY <1>1, <1>2
<1> QED BY <1>11, <1>12, <1>13, <1>14, <1>15

LEMMA SyncedCycle ==
  ASSUME LineMod > 2, NEW s \in Counters, ~Has(s, "newscan"), NEW length \in Int, NEW t,
         crtc_cycle(s, length, t), Framed(s), Framed(t), Synced(s)
  PROVE  Synced(t)
<1> DEFINE l == CharInstMR(CharInstSL(HSync(AtLineEnd(CountChar(MonitorLine(s, length))))))
           a == StartScan(l)
           b == NextRaster(a)
           w == WatchRaster(b)
           d == Adjust(w)
           k == CountCharLine(d)
           e == EndScan(k)
<1>1. t = IF Has(l, "newscan") THEN e ELSE l
  BY DEF crtc_cycle
<1>2. /\ l \in Counters /\ SameLines(s, l) /\ SameVSync(s, l)
      /\ Has(l, "newscan") <=> s.char = s.R[0]
      /\ s.char = s.R[0] /\ s.R[0] \in 2 .. CharMod - 1 /\ Aligned(s) =>
           /\ l.reg5 = s.R[5] /\ SameAsked(s, l)
  BY Late
<1>3. s.steady \in 0 .. 3 /\ (Proper(s.R) => s.R[0] \in 2 .. CharMod - 1)
  BY DEF Counters, Proper
<1>4. Right(l) <=> Right(s)
  BY <1>2 DEF Right, SameLines, SameVSync
<1>5. CASE s.char # s.R[0]
  <2>1. t = l
    BY <1>1, <1>2, <1>5
  <2> HIDE DEF l
  <2>2. InPlace(s) => InPlace(t)
    BY <1>2, <2>1 DEF InPlace, SameLines, SameVSync
  <2> QED BY <1>2, <1>4, <2>1, <2>2 DEF Synced, SameLines, SameVSync
<1>6. CASE s.char = s.R[0]
  <2>1. t = e
    BY <1>1, <1>2, <1>6
  <2> HIDE DEF l
  <2>2. /\ t \in Counters /\ Begun(l, t)
        /\ Again(l) => Restarts(l, t)
        /\ ~Again(l) => GoesOn(l, t)
        /\ a \in Counters /\ k \in Counters /\ Widened(l, a) /\ SyncEnds(k, t)
        /\ k.held = l.held /\ k.vsync = l.vsync /\ Loose(a, k)
        /\ (Again(l) \/ Has(l, "reschar")) => Right(t)
        /\ Right(l) => /\ Right(t)
                       /\ IF Again(l) \/ Has(l, "reschar") THEN Matched(a, t.line, k) ELSE SyncKept(a, k)
    BY <1>2, <2>1, LineScanned
  <2>3. a.R = l.R /\ a.lastEnd = l.lastEnd
    BY <1>2, ScanStarted DEF Passes
  <2>4. l.lastEnd = s.char
    BY <1>6, Late DEF l
  <2> HIDE DEF a, b, w, d, k, e
  <2>5. t.R = s.R /\ k.held = s.held /\ k.vsync = s.vsync
    BY <1>2, <2>2 DEF Begun, SameLines
  <2>6. Widened(s, a)
    BY <1>2, <2>2 DEF Widened, SameLines, SameVSync
  <2>7. ~Has(t, "resvsync") /\ (Has(t, "invsync") \/ t.held = 0)
    <3>1. ~Has(s, "resvsync")
      BY DEF Synced
    <3>2. Has(a, "resvsync") => Has(a, "invsync")
      BY <2>6, <3>1 DEF Widened
    <3>3. Has(k, "resvsync") => Over(k)
      BY <2>2, <3>2 DEF Loose, Over
    <3> QED BY <2>2, <3>3 DEF SyncEnds
  <2>8. /\ Again(l) => t.steady = OnceMore(s.steady)
        /\ ~Again(l) => t.steady = s.steady
    BY <1>2, <2>2 DEF Restarts, GoesOn, SameLines
  <2>9. OnceMore(0) = 1 /\ OnceMore(1) = 2 /\ OnceMore(2) = 3 /\ OnceMore(3) = 3
    BY DEF OnceMore
  <2>10. s.steady >= 1 => Right(l)
    BY <1>4 DEF Synced
  <2>11. t.steady >= 1 => Right(t)
    <3>1. CASE s.steady >= 1
      BY <2>2, <2>10, <3>1
    <3>2. CASE s.steady = 0
      BY <2>2, <2>8, <3>2
    <3> QED BY <1>3, <3>1, <3>2
  <2>12. ASSUME t.steady >= 2, Proper(t.R), Fits(t.R)
         PROVE  InPlace(t)
    <3>1. Proper(s.R) /\ Fits(s.R) /\ s.steady >= 1 /\ Right(l) /\ Right(s)
      <4>1. s.steady >= 1
        BY <1>3, <2>8, <2>9, <2>12
      <4> QED BY <1>4, <2>5, <2>10, <2>12, <4>1
    <3>2. s.R[0] \in 2 .. CharMod - 1 /\ Aligned(s)
      BY <1>3, <3>1 DEF Framed
    <3>3. l.reg5 = s.R[5] /\ SameAsked(s, l)
      BY <1>2, <1>6, <3>2
    <3>4. l.lastEnd >= 2
      BY <1>6, <2>4, <3>2, Ranges
    <3> DEFINE acts == Again(l) \/ Has(s, "reschar")
               enters == acts /\ t.line = s.R[7] /\ s.line # s.R[7]
    <3>5. Enters(a, t.line) <=> t.line = s.R[7] /\ s.line # s.R[7]
      <4>1. a.R = s.R
        BY <1>2, <2>3 DEF SameLines
      <4>2. Has(a, "r7match") <=> Has(s, "r7match")
        BY <2>6 DEF Widened
      <4>3. Has(s, "r7match") <=> s.line = s.R[7]
        BY <3>1 DEF Right
      <4> QED BY <2>3, <3>4, <4>1, <4>2, <4>3 DEF Enters
    <3>6. /\ Has(k, "invsync") <=> Has(a, "invsync") \/ enters
          /\ Has(k, "resvsync") <=> Has(a, "resvsync") /\ ~enters
          /\ k.vsw = IF enters /\ ~Has(a, "invsync") THEN 0 ELSE a.vsw
      <4>1. Has(l, "reschar") <=> Has(s, "reschar")
        BY <3>3 DEF SameAsked
      <4>2. CASE acts
        <5>1. Matched(a, t.line, k)
          BY <2>2, <3>1, <4>1, <4>2
        <5> QED BY <3>5, <4>2, <5>1 DEF Matched
      <4>3. CASE ~acts
        <5>1. SyncKept(a, k)
          BY <2>2, <3>1, <4>1, <4>3
        <5> QED BY <4>3, <5>1 DEF SyncKept, SameVSync
      <4> QED BY <4>2, <4>3
    <3>7. CASE s.steady = 1
      <4>1. Again(l) /\ t.steady = 2
        BY <2>8, <2>9, <2>12, <3>7
      <4>2. t.line = 0 /\ t.lines = 0
        BY <2>2, <4>1 DEF Restarts
      <4>3. /\ Begin(s.R) \in Nat /\ SyncMod <= Begin(s.R) /\ SyncMod \in Nat \ {0} /\ s.R[7] # 0
            /\ s.R[3].vsw \in 0 .. SyncMod - 1 /\ VSyncLines(s.R) \in 1 .. SyncMod
        BY <3>1, Widths
      <4>4. ~enters
        BY <4>2, <4>3
      <4>5. ASSUME Has(t, "invsync") PROVE Left(t.R, t.vsw) + t.lines < SyncMod
        <5> DEFINE n == (s.vsw + 1) % SyncMod
                   V == s.R[3].vsw
        <5>1. ~Over(k) /\ Has(k, "invsync") /\ t.vsw = k.vsw
          BY <2>2, <4>5 DEF SyncEnds
        <5>2. Has(a, "invsync") /\ ~Has(a, "resvsync") /\ t.vsw = a.vsw
          BY <3>6, <4>4, <5>1 DEF Over
        <5>3. n # V /\ t.vsw = n
          BY <2>6, <5>2 DEF Widened
        <5>4. n \in 0 .. SyncMod - 1
          <6>1. s.vsw \in Nat
            BY Ranges DEF Counters
          <6> QED BY <4>3, <6>1, Wraps
        <5>5. Left(t.R, t.vsw) = (IF n < V THEN V - n ELSE V + SyncMod - n)
          BY <2>5, <5>3 DEF Left
        <5> HIDE DEF n, V
        <5>6. V \in 0 .. SyncMod - 1
          BY <4>3 DEF V
        <5>7. (IF n < V THEN V - n ELSE V + SyncMod - n) < SyncMod
          BY <4>3, <5>3, <5>4, <5>6
        <5>8. (IF n < V THEN V - n ELSE V + SyncMod - n) \in Int
          BY <4>3, <5>4, <5>6
        <5> QED BY <4>2, <4>3, <5>5, <5>7, <5>8
      <4>6. /\ t.lines < Begin(t.R) /\ ~(t.lines >= Begin(t.R))
            /\ ~(t.lines >= Begin(t.R) + VSyncLines(t.R)) /\ t.steady # 3
        BY <2>5, <4>1, <4>2, <4>3
      <4> QED BY <4>1, <4>5, <4>6 DEF InPlace
    <3>8. CASE s.steady \in {2, 3}
      <4>1. InPlace(s) /\ ~Has(s, "resvsync") /\ (Has(s, "invsync") \/ s.held = 0)
        BY <3>1, <3>8 DEF Synced
      <4>2. s.steady >= 2 /\ (Regular(s) \/ Adjusting(s))
        BY <3>1, <3>8 DEF Framed
      <4>3. /\ LinesOf(l) = s.lines + 1 /\ t.lines = (IF Again(l) THEN 0 ELSE s.lines + 1)
            /\ enters <=> ~Again(l) /\ s.lines + 1 = Begin(s.R)
        BY <1>2, <1>6, <2>2, <3>1, <3>2, <3>3, <4>2, EntersInPlace
      <4>4. t.steady = (IF Again(l) THEN 3 ELSE s.steady)
        BY <2>8, <2>9, <3>8
      <4>5. Again(l) => s.lines + 1 = Lines(s.R)
        <5> SUFFICES ASSUME Again(l) PROVE s.lines + 1 = Lines(s.R)
          OBVIOUS
        <5>1. t.frame = LinesOf(l)
          <6>1. l.steady = s.steady
            BY <1>2 DEF SameLines
          <6> QED BY <2>2, <4>2, <6>1 DEF Restarts
        <5>2. t.steady = 3
          BY <4>4
        <5>3. t.frame = Lines(s.R)
          BY <2>5, <2>12, <5>2 DEF Framed
        <5> QED BY <4>3, <5>1, <5>3
      <4> DEFINE again == Again(l)
      <4>6. again \in BOOLEAN
        BY DEF Again, Has
      <4>7. LET en == ~again /\ s.lines + 1 = Begin(s.R)
            IN /\ Has(k, "invsync") <=> Has(a, "invsync") \/ en
               /\ Has(k, "resvsync") <=> Has(a, "resvsync") /\ ~en
               /\ k.vsw = IF en /\ ~Has(a, "invsync") THEN 0 ELSE a.vsw
        BY <3>6, <4>3
      <4>8. /\ t.lines = (IF again THEN 0 ELSE s.lines + 1)
            /\ t.steady = (IF again THEN 3 ELSE s.steady)
            /\ again => s.lines + 1 = Lines(s.R)
        BY <4>3, <4>4, <4>5
      <4> HIDE DEF again, enters, acts
      <4> QED BY <2>2, <2>5, <2>6, <3>1, <3>8, <4>1, <4>6, <4>7, <4>8, SyncLine
    <3> QED BY <1>3, <3>1, <3>7, <3>8
  <2> QED BY <2>7, <2>11, <2>12 DEF Synced
<1> QED BY <1>5, <1>6

(***************************************************************************)
(* Everything but crtc_cycle leaves the timing alone or disturbs it.       *)
(***************************************************************************)
Disturbed(s, t) == t.steady = 0 /\ t.held = 0 /\ (Has(t, "resvsync") => Has(s, "resvsync"))

LEMMA WriteDisturbs ==
  ASSUME NEW s \in Counters, NEW r \in DOMAIN Firmware, NEW v \in RegisterValues
  PROVE  Disturbed(s, WriteRegister(s, r, v))
<1> DEFINE q == Recount(s)
           R == [q.R EXCEPT ![r] = v]
           t == [q EXCEPT !.R = R, !.steady = 0, !.lines = 0, !.frame = 0, !.held = 0, !.vsync = 0]
<1>1. q \in Counters /\ q.flags = s.flags
  BY RecountKept DEF Keeps, Recount, Counters
<1>2. WriteRegister(s, r, v) \in {WriteR4(t), WriteR7(t), WriteR9(t), t}
  BY DEF WriteRegister
<1> HIDE DEF q
<1>3. R \in [DOMAIN Firmware -> RegisterValues]
  BY <1>1 DEF Counters
<1> HIDE DEF R
<1>4. t \in Counters /\ t.flags = q.flags /\ t.steady = 0 /\ t.held = 0
  <2>1. 0 \in 0 .. 3 /\ 0 \in Nat
    OBVIOUS
  <2> QED BY <1>1, <1>3, <2>1 DEF Counters
<1> HIDE DEF t
<1>5. Disturbed(s, t)
  BY <1>1, <1>4 DEF Disturbed, Has
<1>6. ASSUME NEW u \in Counters, Disturbed(s, u), NEW flag, flag # "resvsync"
      PROVE  Disturbed(s, Set(u, flag)) /\ Disturbed(s, Clear(u, flag))
  BY <1>6, FlagSet DEF Disturbed, SameFields, SamePlace
<1>7. Disturbed(s, WriteR4(t))
  BY <1>4, <1>5, <1>6 DEF WriteR4
<1>8. Disturbed(s, WriteR7(t))
  <2> DEFINE e == EnterVSync(t)
             u == IF t.char >= 2 THEN e ELSE t
  <2>1. WriteR7(t) \in {Clear(t, "r7match"), t, Set(u, "r7match")}
    BY DEF WriteR7
  <2>2. e \in Counters /\ e.steady = 0 /\ e.held = 0 /\ ~Has(e, "resvsync")
    BY <1>4, VSyncEntered, EnterVSyncFrame DEF SameFrame, SamePlace
  <2> HIDE DEF e
  <2>3. u \in Counters /\ Disturbed(s, u)
    BY <1>4, <1>5, <2>2 DEF Disturbed
  <2> HIDE DEF u
  <2>4. Disturbed(s, Set(u, "r7match")) /\ Disturbed(s, Clear(t, "r7match"))
    BY <1>4, <1>5, <1>6, <2>3
  <2> QED BY <1>5, <2>1, <2>4
<1>9. Disturbed(s, WriteR9(t))
  <2> DEFINE instMR == IF Has(t, "r9match") THEN t.instMR ELSE 1
             flags == t.flags \cup {"resscan", "r9match"}
             u == [t EXCEPT !.instMR = instMR, !.flags = flags]
             c == Clear(t, "r9match")
  <2>1. WriteR9(t) \in {Set(u, "reschar"), u, c, Clear(c, "resscan")}
    BY <1>4 DEF WriteR9, Counters
  <2>2. instMR \in 0 .. 2 /\ flags \in SUBSET Flags
    BY <1>4 DEF Counters, Flags
  <2>3. "resvsync" \in flags <=> "resvsync" \in t.flags
    OBVIOUS
  <2> HIDE DEF instMR, flags
  <2>4. u \in Counters /\ u.flags = flags /\ u.steady = t.steady /\ u.held = t.held
    BY <1>4, <2>2 DEF Counters
  <2> HIDE DEF u
  <2>5. Disturbed(s, u)
    BY <1>5, <2>3, <2>4 DEF Disturbed, Has
  <2>6. Disturbed(s, Set(u, "reschar"))
    BY <1>6, <2>4, <2>5
  <2>7. c \in Counters /\ Disturbed(s, c)
    BY <1>4, <1>5, <1>6, FlagKept DEF Keeps, Flags
  <2> HIDE DEF c
  <2>8. Disturbed(s, Clear(c, "resscan"))
    BY <1>6, <2>7
  <2> QED BY <2>1, <2>5, <2>6, <2>7, <2>8
<1> QED BY <1>2, <1>5, <1>7, <1>8, <1>9

LEMMA ResetDisturbs ==
  ASSUME NEW s, NEW length
  PROVE  /\ Disturbed(s, ResetCRTC(s, Firmware, length))
         /\ ~Has(ResetCRTC(s, Firmware, length), "resvsync")
BY DEF Disturbed, ResetCRTC, Has

LEMMA RecountAlike == ASSUME NEW s \in Counters PROVE Alike(s, Recount(s))
<1> DEFINE t == Recount(s)
<1>1. t \in Counters /\ t.flags = s.flags
  BY RecountKept DEF Keeps, Recount, Counters
<1>2. SamePlace(s, t) /\ t.lastEnd = s.lastEnd /\ t.vsw = s.vsw /\ t.held = s.held
      /\ t.vsync = s.vsync
  BY DEF SamePlace, Recount, Counters
<1> HIDE DEF t
<1>3. Alike(s, t)
  BY <1>1, <1>2, AlikeFields
<1> QED BY <1>3 DEF t

LEMMA Effects ==
  ASSUME IInv, [Next]_vars
  PROVE  \/ \E n \in Int : crtc_cycle(crtc, n, crtc')
         \/ Alike(crtc, crtc')
         \/ Disturbed(crtc, crtc')
<1>1. crtc \in Counters /\ cpu \in Processor /\ crtc' \in Counters
  BY Steps DEF IInv
<1>2. CASE UNCHANGED crtc
  BY <1>1, <1>2, AlikeSelf
<1>3. CASE Microsecond
  BY <1>3, Lengths DEF Microsecond
<1>4. CASE \E op \in Instructions, n \in Times : Execute(op, n)
  <2>1. PICK op \in Instructions, n \in Times : Execute(op, n)
    BY <1>4
  <2>2. CASE op[1] # "raster"
    BY <1>1, <2>1, <2>2, AlikeSelf DEF Execute
  <2>3. CASE op[1] = "raster"
    <3> DEFINE q == Recount(crtc)
               line == op[2]
    <3>1. crtc' = [q EXCEPT !.pri = line]
      BY <2>1, <2>3 DEF Execute
    <3>2. Alike(crtc, q) /\ q \in Counters
      BY <1>1, RecountAlike DEF Alike
    <3> HIDE DEF q, line
    <3>3. /\ SamePlace(q, crtc') /\ (crtc').lastEnd = q.lastEnd /\ (crtc').vsw = q.vsw
          /\ (crtc').held = q.held /\ (crtc').vsync = q.vsync /\ (crtc').flags = q.flags
      BY <3>1, <3>2 DEF SamePlace, Counters
    <3>4. Alike(q, crtc')
      BY <1>1, <3>2, <3>3, AlikeFields
    <3> QED BY <3>2, <3>4, AlikeBoth
  <2> QED BY <2>2, <2>3
<1>5. CASE OutRegister
  <2>1. cpu.todo \in {<<"fetch">>, <<"end">>} \cup Ports /\ cpu.todo[1] = "register"
    BY <1>1, <1>5 DEF Processor, OutRegister, At
  <2>2. PICK w \in Writes : cpu.todo = <<"register", w[1], w[2]>>
    BY <2>1 DEF Ports
  <2>3. crtc' = WriteRegister(crtc, w[1], w[2])
    BY <1>5, <2>2 DEF OutRegister
  <2>4. w[1] \in DOMAIN Firmware /\ w[2] \in RegisterValues
    BY RegistersTyped
  <2> QED BY <1>1, <2>3, <2>4, WriteDisturbs
<1>6. ASSUME NEW q, Alike(crtc, q), NEW p, NEW g, crtc' = [q EXCEPT !.pending = p, !.ga = g]
      PROVE  Alike(crtc, crtc')
  <2>1. q \in Counters
    BY <1>6 DEF Alike
  <2>2. /\ SamePlace(q, crtc') /\ (crtc').lastEnd = q.lastEnd /\ (crtc').vsw = q.vsw
        /\ (crtc').held = q.held /\ (crtc').vsync = q.vsync /\ (crtc').flags = q.flags
    BY <1>6, <2>1 DEF SamePlace, Counters
  <2>3. Alike(q, crtc')
    BY <1>1, <2>1, <2>2, AlikeFields
  <2> QED BY <1>6, <2>3, AlikeBoth
<1>7. CASE OutDelay
  <2>1. Alike(crtc, Recount(crtc))
    BY <1>1, RecountAlike
  <2>2. crtc' = [Recount(crtc) EXCEPT !.pending = FALSE, !.ga = 0]
    BY <1>7 DEF OutDelay
  <2> QED BY <1>6, <2>1, <2>2
<1>8. CASE EndInstruction
  <2>1. CASE \E c : Acknowledge(c)
    <3> DEFINE q == IF crtc.ga < Margin THEN crtc ELSE Recount(crtc)
               g == q.ga % Margin
    <3>1. Alike(crtc, q)
      BY <1>1, RecountAlike, AlikeSelf
    <3>2. crtc' = [q EXCEPT !.pending = FALSE, !.ga = g]
      BY <2>1 DEF Acknowledge
    <3> HIDE DEF q, g
    <3> QED BY <1>6, <3>1, <3>2
  <2> QED BY <1>2, <1>8, <2>1 DEF EndInstruction
<1>9. CASE ShowFrame
  <2>1. crtc' = [crtc EXCEPT !.done = FALSE]
    BY <1>9 DEF ShowFrame
  <2>2. /\ SamePlace(crtc, crtc') /\ (crtc').lastEnd = crtc.lastEnd /\ (crtc').vsw = crtc.vsw
        /\ (crtc').held = crtc.held /\ (crtc').vsync = crtc.vsync /\ (crtc').flags = crtc.flags
    BY <1>1, <2>1 DEF SamePlace, Counters
  <2> QED BY <1>1, <2>2, AlikeFields
<1>10. CASE emulator_reset
  BY <1>10, ResetDisturbs DEF emulator_reset
<1>11. CASE UNCHANGED vars
  BY <1>2, <1>11 DEF vars
<1> QED BY <1>3, <1>4, <1>5, <1>7, <1>8, <1>9, <1>10, <1>11 DEF Next

TimedInv == Framed(crtc) /\ Synced(crtc)

LEMMA AlikeTimed ==
  ASSUME NEW s, NEW t, Alike(s, t), Framed(s), Synced(s)
  PROVE  Framed(t) /\ Synced(t)
<1>1. /\ t.R = s.R /\ t.char = s.char /\ t.line = s.line /\ t.raster = s.raster
      /\ t.reg5 = s.reg5 /\ t.instSL = s.instSL /\ t.instMR = s.instMR
      /\ t.steady = s.steady /\ t.lines = s.lines /\ t.frame = s.frame
      /\ t.vsw = s.vsw /\ t.held = s.held /\ t.vsync = s.vsync
  BY DEF Alike, SameFrame, SamePlace, SameSync
<1>2. /\ Has(t, "reschar") <=> Has(s, "reschar")
      /\ Has(t, "resframe") <=> Has(s, "resframe")
      /\ Has(t, "resscan") <=> Has(s, "resscan")
      /\ Has(t, "resnext") <=> Has(s, "resnext")
      /\ Has(t, "startvta") <=> Has(s, "startvta")
      /\ Has(t, "invta") <=> Has(s, "invta")
      /\ Has(t, "invsync") <=> Has(s, "invsync")
      /\ Has(t, "resvsync") <=> Has(s, "resvsync")
      /\ Has(t, "r7match") <=> Has(s, "r7match")
  BY DEF Alike, SameFrame, SameRequests, SameSync
<1>3. (LastLine(t) <=> LastLine(s)) /\ (LastRaster(t) <=> LastRaster(s)) /\ Position(t) = Position(s)
  BY <1>1 DEF LastLine, LastRaster, Position
<1>4. (Aligned(s) => Aligned(t)) /\ (Regular(s) => Regular(t)) /\ (Adjusting(s) => Adjusting(t))
  <2>1. Aligned(s) => Aligned(t)
    BY <1>1, <1>2 DEF Aligned
  <2>2. Regular(s) => Regular(t)
    BY <1>1, <1>2, <1>3 DEF Regular
  <2>3. Adjusting(s) => Adjusting(t)
    BY <1>1, <1>2, <1>3 DEF Adjusting
  <2> QED BY <2>1, <2>2, <2>3
<1>5. (Right(s) => Right(t)) /\ (InPlace(s) => InPlace(t))
  BY <1>1, <1>2 DEF Right, InPlace
<1>6. Framed(t)
  BY <1>1, <1>4 DEF Framed
<1>7. Synced(t)
  BY <1>1, <1>2, <1>5 DEF Synced
<1> QED BY <1>6, <1>7

LEMMA DisturbedTimed ==
  ASSUME NEW s, NEW t, Disturbed(s, t), ~Has(s, "resvsync")
  PROVE  Framed(t) /\ Synced(t)
BY DEF Disturbed, Framed, Synced

LEMMA TimedInitially == ASSUME Init PROVE TimedInv
<1>1. PICK n \in Beam : crtc = ResetCRTC([flags |-> {}], Firmware, n)
  BY DEF Init
<1>2. ~Has([flags |-> {}], "resvsync")
  BY DEF Has
<1> QED BY <1>1, <1>2, ResetDisturbs, DisturbedTimed DEF TimedInv

LEMMA TimedKept ==
  ASSUME LineMod > 2, IInv, TimedInv, [Next]_vars
  PROVE  TimedInv'
<1>1. crtc \in Counters /\ ~Has(crtc, "newscan") /\ Framed(crtc) /\ Synced(crtc)
  BY DEF IInv, TimedInv, Has
<1>2. CASE \E n \in Int : crtc_cycle(crtc, n, crtc')
  <2>1. PICK n \in Int : crtc_cycle(crtc, n, crtc')
    BY <1>2
  <2>2. Framed(crtc')
    BY <1>1, <2>1, FramedCycle
  <2>3. Synced(crtc')
    BY <1>1, <2>1, <2>2, SyncedCycle
  <2> QED BY <2>2, <2>3 DEF TimedInv
<1>3. CASE Alike(crtc, crtc')
  <2>1. Framed(crtc') /\ Synced(crtc')
    BY <1>1, <1>3, AlikeTimed
  <2> QED BY <2>1 DEF TimedInv
<1>4. CASE Disturbed(crtc, crtc')
  <2>1. ~Has(crtc, "resvsync")
    BY <1>1 DEF Synced
  <2>2. Framed(crtc') /\ Synced(crtc')
    BY <1>4, <2>1, DisturbedTimed
  <2> QED BY <2>2 DEF TimedInv
<1> QED BY <1>2, <1>3, <1>4, Effects

LEMMA TimedInvariance == ASSUME LineMod > 2 PROVE Spec => [](IInv /\ TimedInv)
<1>1. Init => IInv /\ TimedInv
  BY Initial, TimedInitially
<1>2. (IInv /\ TimedInv) /\ [Next]_vars => (IInv /\ TimedInv)'
  BY Steps, TimedKept
<1> QED BY <1>1, <1>2, PTL DEF Spec

(***************************************************************************)
(* Once no register is written and the machine is not reset for two whole  *)
(* frames, a frame has exactly the lines that registers 4, 5 and 9 ask     *)
(* for, for all widths of the counters, registers and programs: the        *)
(* requests that crtc_cycle and its delayed functions pass on from         *)
(* character to character end every character line, and the adjustment,    *)
(* once.  Wherever the counters were when the last register was written,   *)
(* one restart of the frame puts them right.                               *)
(***************************************************************************)
THEOREM FramesHaveTheirLines ==
  ASSUME LineMod > 2
  PROVE  Spec => [](Proper(crtc.R) => FrameLength)
<1>1. Spec => [](IInv /\ TimedInv)
  BY TimedInvariance
<1>2. IInv /\ TimedInv => (Proper(crtc.R) => FrameLength)
  BY DEF TimedInv, Framed, FrameLength
<1> QED BY <1>1, <1>2, PTL

(***************************************************************************)
(* In such a frame VSYNC lasts exactly the lines that register 3 asks for, *)
(* 16 for 0, when the frame has room for it: register 7 is matched once in *)
(* a frame, at its line, and a VSYNC that was under way when the registers *)
(* were written is over, and has been counted, before.                     *)
(***************************************************************************)
THEOREM VSyncHasItsLines ==
  ASSUME LineMod > 2
  PROVE  Spec => [](Proper(crtc.R) /\ Fits(crtc.R) => VSyncLength)
<1>1. Spec => [](IInv /\ TimedInv)
  BY TimedInvariance
<1>2. IInv /\ TimedInv => (Proper(crtc.R) /\ Fits(crtc.R) => VSyncLength)
  BY DEF TimedInv, Synced, InPlace, VSyncLength
<1> QED BY <1>1, <1>2, PTL

(***************************************************************************)
(* What the interrupts depend on: the stages that leave it alone, or only  *)
(* begin a frame or VSYNC.                                                 *)
(***************************************************************************)
SameGate(s, t) ==
  /\ t.hsw = s.hsw /\ t.ga = s.ga /\ t.calm = s.calm /\ t.raises = s.raises
  /\ t.perFrame = s.perFrame /\ t.pri = s.pri
  /\ Has(t, "inHSYNC") <=> Has(s, "inHSYNC")
SameScan(s, t) == t.sl = s.sl /\ t.lines = s.lines /\ t.steady = s.steady
SameDelay(s, t) == t.hs = s.hs /\ (Has(t, "invsync") <=> Has(s, "invsync"))
Same(s, t) == SameGate(s, t) /\ SameScan(s, t) /\ SameDelay(s, t)
Onward(s, t) ==
  /\ SameGate(s, t)
  /\ SameScan(s, t) \/ (t.sl = 0 /\ t.lines = 0)
  /\ SameDelay(s, t) \/ (~Has(s, "invsync") /\ Has(t, "invsync") /\ t.hs = 2)

LEMMA SameOnward == ASSUME NEW s, NEW t, Same(s, t) PROVE Onward(s, t)
BY DEF Same, Onward

LEMMA SameBoth == ASSUME NEW s, NEW t, NEW u, Same(s, t), Same(t, u) PROVE Same(s, u)
BY DEF Same, SameGate, SameScan, SameDelay

LEMMA OnwardBoth == ASSUME NEW s, NEW t, NEW u, Onward(s, t), Onward(t, u) PROVE Onward(s, u)
<1>1. SameGate(s, u)
  BY DEF Onward, SameGate
<1>2. SameScan(s, u) \/ (u.sl = 0 /\ u.lines = 0)
  BY DEF Onward, SameScan
<1>3. SameDelay(s, u) \/ (~Has(s, "invsync") /\ Has(u, "invsync") /\ u.hs = 2)
  BY DEF Onward, SameDelay
<1> QED BY <1>1, <1>2, <1>3 DEF Onward

\* The fields of a record that differs from another one elsewhere.
SameNumbers(s, t) ==
  /\ t.hsw = s.hsw /\ t.ga = s.ga /\ t.calm = s.calm /\ t.raises = s.raises
  /\ t.perFrame = s.perFrame /\ t.pri = s.pri
  /\ t.sl = s.sl /\ t.lines = s.lines /\ t.steady = s.steady /\ t.hs = s.hs
LEMMA NumbersSame ==
  ASSUME NEW s, NEW t, SameNumbers(s, t), Has(t, "inHSYNC") <=> Has(s, "inHSYNC"),
         Has(t, "invsync") <=> Has(s, "invsync")
  PROVE  Same(s, t)
BY DEF SameNumbers, Same, SameGate, SameScan, SameDelay

LEMMA FlagNumbers ==
  ASSUME NEW s \in Counters, NEW flag, NEW on
  PROVE  SameNumbers(s, Set(s, flag)) /\ SameNumbers(s, Clear(s, flag))
         /\ SameNumbers(s, Put(s, flag, on))
<1>1. SameNumbers(s, Set(s, flag)) /\ SameNumbers(s, Clear(s, flag))
  BY DEF SameNumbers, Set, Clear, Counters
<1> QED BY <1>1 DEF Put

LEMMA FlagSame ==
  ASSUME NEW s \in Counters, NEW flag, flag \notin {"inHSYNC", "invsync"}, NEW on \in BOOLEAN
  PROVE  Same(s, Set(s, flag)) /\ Same(s, Clear(s, flag)) /\ Same(s, Put(s, flag, on))
BY FlagNumbers, FlagSet, FlagPut, NumbersSame

LEMMA SelfSame == ASSUME NEW s PROVE Same(s, s)
BY DEF Same, SameGate, SameScan, SameDelay

LEMMA MatchOnward == ASSUME NEW s \in Counters PROVE Onward(s, match_line_count(s))
<1> DEFINE c == Clear(s, "resvsync")
           u == Set(c, "invsync")
           v == [u EXCEPT !.vsw = 0, !.hs = 2]
           e == EnterVSync(s)
           m == IF s.lastEnd >= 2 /\ ~Has(s, "r7match") THEN e ELSE s
<1>1. e \in Counters
  BY EnterVSyncKept DEF Keeps
<1>2. c \in Counters /\ u \in Counters
  BY FlagKept DEF Keeps, Flags
<1>3. Same(s, c)
  BY FlagSame
<1>4. e = IF Has(c, "invsync") THEN c ELSE v
  BY DEF EnterVSync
<1>5. SameNumbers(c, u) /\ \A g : Has(u, g) <=> g = "invsync" \/ Has(c, g)
  BY <1>2, FlagNumbers, FlagSet
<1>6. /\ v.hsw = u.hsw /\ v.ga = u.ga /\ v.calm = u.calm /\ v.raises = u.raises
      /\ v.perFrame = u.perFrame /\ v.pri = u.pri
      /\ v.sl = u.sl /\ v.lines = u.lines /\ v.steady = u.steady /\ v.hs = 2
      /\ v.flags = u.flags
  BY <1>2 DEF Counters
<1> HIDE DEF u
<1>7. \A g : Has(v, g) <=> Has(u, g)
  BY <1>6 DEF Has
<1> HIDE DEF v, c
<1>8. Onward(s, e)
  <2>1. CASE Has(c, "invsync")
    BY <1>3, <1>4, <2>1, SameOnward
  <2>2. CASE ~Has(c, "invsync")
    <3>1. SameGate(c, e) /\ SameScan(c, e) /\ Has(e, "invsync") /\ e.hs = 2
      BY <1>4, <1>5, <1>6, <1>7, <2>2 DEF SameNumbers, SameGate, SameScan
    <3>2. Onward(c, e)
      BY <2>2, <3>1 DEF Onward
    <3> QED BY <1>3, <3>2, SameOnward, OnwardBoth
  <2> QED BY <2>1, <2>2
<1> HIDE DEF e
<1>9. Onward(s, m) /\ m \in Counters
  BY <1>1, <1>8, SelfSame, SameOnward
<1>10. match_line_count(s) \in {Clear(s, "r7match"), Set(m, "r7match")}
  BY DEF match_line_count, e
<1> HIDE DEF m
<1>11. Onward(s, Clear(s, "r7match")) /\ Onward(m, Set(m, "r7match"))
  BY <1>9, FlagSame, SameOnward
<1>12. Onward(s, Set(m, "r7match"))
  BY <1>9, <1>11, OnwardBoth
<1> QED BY <1>10, <1>11, <1>12

LEMMA RestartOnward == ASSUME NEW s \in Counters PROVE Onward(s, restart_frame(s))
<1> DEFINE frame == IF s.steady >= 2 THEN s.lines ELSE 0
           steady == OnceMore(s.steady)
           flags == s.flags \ FrameFlags
           u == [s EXCEPT !.flags = flags, !.raster = 0, !.line = 0, !.sl = 0,
                          !.frame = frame, !.lines = 0, !.steady = steady]
           t == restart_frame(s)
<1>1. frame \in Nat /\ steady \in 0 .. 3 /\ flags \in SUBSET Flags
  BY OnceMoreTyped DEF Counters
<1>2. 0 \in 0 .. RasterMod - 1 /\ 0 \in 0 .. LineMod - 1
  BY Ranges
<1>3. t = match_line_count(u)
  BY DEF restart_frame
<1>4. /\ "inHSYNC" \in flags <=> Has(s, "inHSYNC")
      /\ "invsync" \in flags <=> Has(s, "invsync")
  BY DEF Has, FrameFlags
<1> HIDE DEF frame, steady, flags
<1>5. u \in Counters
  BY <1>1, <1>2 DEF Counters
<1>6. /\ u.hsw = s.hsw /\ u.ga = s.ga /\ u.calm = s.calm /\ u.raises = s.raises
      /\ u.perFrame = s.perFrame /\ u.pri = s.pri /\ u.hs = s.hs
      /\ u.sl = 0 /\ u.lines = 0 /\ u.flags = flags
  BY DEF Counters
<1> HIDE DEF u
<1>7. Onward(s, u)
  BY <1>4, <1>6 DEF Onward, SameGate, SameDelay, Has
<1>8. Onward(u, t)
  BY <1>3, <1>5, MatchOnward
<1> HIDE DEF t
<1>9. Onward(s, t)
  BY <1>7, <1>8, OnwardBoth
<1> QED BY <1>9 DEF t

LEMMA CharSame ==
  ASSUME NEW s \in Counters, NEW length \in Int
  PROVE  Same(s, CountChar(MonitorLine(s, length)))
<1> DEFINE m == MonitorLine(s, length)
           scanline == s.scanline + 1
           beam == s.beam - 1
           t == CountChar(m)
           v == m.char
           flags == m.flags \cup {"newscan"}
           char == (m.char + 1) % CharMod
<1>1. m \in {[s EXCEPT !.beam = length, !.scanline = scanline], [s EXCEPT !.beam = beam]}
  BY DEF MonitorLine
<1> HIDE DEF scanline, beam
<1>2. SameNumbers(s, m) /\ m.flags = s.flags /\ DOMAIN m = DOMAIN s
  <2>1. CASE m = [s EXCEPT !.beam = length, !.scanline = scanline]
    BY <2>1 DEF SameNumbers, Counters
  <2>2. CASE m = [s EXCEPT !.beam = beam]
    BY <2>2 DEF SameNumbers, Counters
  <2> QED BY <1>1, <2>1, <2>2
<1>3. t \in {[m EXCEPT !.flags = flags, !.lastEnd = v, !.char = 0], [m EXCEPT !.char = char]}
  <2>1. "flags" \in DOMAIN m
    BY <1>2 DEF Counters
  <2> QED BY <2>1 DEF CountChar, Set
<1> HIDE DEF m, char, v
<1>4. /\ "inHSYNC" \in flags <=> Has(m, "inHSYNC")
      /\ "invsync" \in flags <=> Has(m, "invsync")
  BY DEF Has
<1> HIDE DEF flags
<1>5. SameNumbers(m, t) /\ t.flags \in {flags, m.flags}
  <2>1. DOMAIN m = DOMAIN s
    BY <1>2
  <2>2. CASE t = [m EXCEPT !.flags = flags, !.lastEnd = v, !.char = 0]
    BY <2>1, <2>2 DEF SameNumbers, Counters
  <2>3. CASE t = [m EXCEPT !.char = char]
    BY <2>1, <2>3 DEF SameNumbers, Counters
  <2> QED BY <1>3, <2>2, <2>3
<1> HIDE DEF t
<1>6. Same(m, t)
  BY <1>4, <1>5, NumbersSame DEF Has
<1>7. Same(s, m)
  BY <1>2, NumbersSame DEF Has
<1>8. Same(s, t)
  BY <1>6, <1>7, SameBoth
<1> QED BY <1>8 DEF t, m

LEMMA LineEndSame == ASSUME NEW s \in Counters PROVE Same(s, AtLineEnd(s))
<1>1. CASE s.char # s.R[0]
  BY <1>1, SelfSame DEF AtLineEnd
<1>2. CASE s.char = s.R[0]
  <2> DEFINE raster == LastRaster(s)
             line == LastLine(s)
             frame == Has(s, "resframe") \/ Has(s, "resnext")
             adjust == Has(s, "invta") \/ Has(s, "startvta")
             a == Put(s, "reschar", raster)
             b == Put(a, "resframe", frame)
             c == Put(b, "invta", adjust)
             flags == c.flags \ {"resnext", "startvta"}
             u == [c EXCEPT !.flags = flags]
             v == Put(u, "resscan", line)
  <2>1. raster \in BOOLEAN /\ line \in BOOLEAN /\ frame \in BOOLEAN /\ adjust \in BOOLEAN
    BY DEF LastRaster, LastLine, Has
  <2>2. AtLineEnd(s) \in {u, v}
    <3>1. "flags" \in DOMAIN c
      <4>1. a \in Counters
        BY <2>1, FlagKept DEF Keeps, Flags
      <4> HIDE DEF a, frame, adjust
      <4>2. b \in Counters
        BY <2>1, <4>1, FlagKept DEF Keeps, Flags
      <4> HIDE DEF b
      <4>3. c \in Counters
        BY <2>1, <4>2, FlagKept DEF Keeps, Flags
      <4> QED BY <4>3 DEF Counters
    <3> QED BY <1>2, <3>1 DEF AtLineEnd
  <2> HIDE DEF raster, line, frame, adjust
  <2>3. a \in Counters /\ Same(s, a)
    BY <2>1, FlagKept, FlagSame DEF Keeps, Flags
  <2> HIDE DEF a
  <2>4. b \in Counters /\ Same(a, b)
    BY <2>1, <2>3, FlagKept, FlagSame DEF Keeps, Flags
  <2> HIDE DEF b
  <2>5. c \in Counters /\ Same(b, c)
    BY <2>1, <2>4, FlagKept, FlagSame DEF Keeps, Flags
  <2> HIDE DEF c
  <2>6. flags \in SUBSET Flags
    BY <2>5 DEF Counters
  <2>7. /\ "inHSYNC" \in flags <=> Has(c, "inHSYNC")
        /\ "invsync" \in flags <=> Has(c, "invsync")
    BY DEF Has
  <2> HIDE DEF flags
  <2>8. u \in Counters /\ u.flags = flags /\ SameNumbers(c, u)
    BY <2>5, <2>6 DEF Counters, SameNumbers
  <2> HIDE DEF u
  <2>9. Same(c, u)
    BY <2>7, <2>8, NumbersSame DEF Has
  <2>10. Same(u, v)
    BY <2>1, <2>8, FlagSame
  <2> HIDE DEF v
  <2>11. Same(s, u)
    BY <2>3, <2>4, <2>5, <2>9, SameBoth
  <2> QED BY <2>2, <2>10, <2>11, SameBoth
<1> QED BY <1>1, <1>2

LEMMA DelayedSame == ASSUME NEW s \in Counters PROVE Same(s, CharInstMR(CharInstSL(s)))
<1> DEFINE u == CharInstSL(s)
           v == s.R[5]
           t == CharInstMR(u)
<1>1. u \in Counters /\ s.instSL \in 0 .. 2
  BY DelayedKept DEF Keeps, Counters
<1>2. /\ s.instSL = 1 => u = [s EXCEPT !.instSL = 2]
      /\ s.instSL = 2 => u = [s EXCEPT !.instSL = 0, !.reg5 = v]
      /\ s.instSL = 0 => u = s
  BY DelayedWhich
<1> HIDE DEF u, v
<1>3. SameNumbers(s, u) /\ u.flags = s.flags
  <2>1. CASE s.instSL = 1
    BY <1>2, <2>1 DEF Counters, SameNumbers
  <2>2. CASE s.instSL = 2
    <3> DEFINE w == [s EXCEPT !.instSL = 0]
    <3>1. u = [w EXCEPT !.reg5 = v]
      BY <1>2, <2>2 DEF Counters
    <3>2. SameNumbers(s, w) /\ w.flags = s.flags
      BY DEF Counters, SameNumbers
    <3>3. SameNumbers(w, u) /\ u.flags = w.flags
      BY <3>1 DEF Counters, SameNumbers
    <3> HIDE DEF w
    <3> QED BY <3>2, <3>3 DEF SameNumbers
  <2>3. CASE s.instSL = 0
    BY <1>2, <2>3 DEF Counters, SameNumbers
  <2> QED BY <1>1, <2>1, <2>2, <2>3
<1>4. Same(s, u)
  BY <1>3, NumbersSame DEF Has
<1>5. u.instMR \in 0 .. 2
  BY <1>1 DEF Counters
<1>6. /\ u.instMR = 1 => t = CharMR1(u)
      /\ u.instMR = 2 => t = CharMR2(u)
      /\ u.instMR = 0 => t = u
  BY DelayedWhich
<1>7. ASSUME NEW f \in Counters, Same(u, f), NEW n, t = [f EXCEPT !.instMR = n]
      PROVE  Same(u, t)
  <2>1. SameNumbers(f, t) /\ t.flags = f.flags
    BY <1>7 DEF Counters, SameNumbers
  <2>2. Same(f, t)
    BY <2>1, NumbersSame DEF Has
  <2> QED BY <1>7, <2>2, SameBoth
<1> HIDE DEF t
<1>8. Same(u, t)
  <2>1. CASE u.instMR = 1
    <3> DEFINE c == Clear(u, "invta")
               on == Set(c, "startvta")
               off == Clear(u, "startvta")
               f == IF LastLine(u) THEN on ELSE off
    <3>1. c \in Counters /\ Same(u, c) /\ off \in Counters /\ Same(u, off)
      BY <1>1, FlagKept, FlagSame DEF Keeps, Flags
    <3>2. t = [f EXCEPT !.instMR = 2]
      BY <1>6, <2>1 DEF CharMR1
    <3> HIDE DEF c, off
    <3>3. on \in Counters /\ Same(c, on)
      BY <3>1, FlagKept, FlagSame DEF Keeps, Flags
    <3> HIDE DEF on
    <3>4. f \in Counters /\ Same(u, f)
      BY <3>1, <3>3, SameBoth
    <3> HIDE DEF f
    <3> QED BY <1>7, <3>2, <3>4
  <2>2. CASE u.instMR = 2
    <3> DEFINE on == Has(u, "resnext") \/ (Has(u, "startvta") /\ u.line = u.R[4] /\ u.R[5] = 0)
               f == Put(u, "resnext", on)
    <3>1. t = [f EXCEPT !.instMR = 0]
      BY <1>6, <2>2 DEF CharMR2
    <3>2. on \in BOOLEAN
      BY DEF Has
    <3> HIDE DEF on
    <3>3. f \in Counters /\ Same(u, f)
      BY <1>1, <3>2, FlagKept, FlagSame DEF Keeps, Flags
    <3> HIDE DEF f
    <3> QED BY <1>7, <3>1, <3>3
  <2>3. CASE u.instMR = 0
    BY <1>6, <2>3, SelfSame
  <2> QED BY <1>5, <2>1, <2>2, <2>3
<1>9. Same(s, t)
  BY <1>4, <1>8, SameBoth
<1> QED BY <1>9 DEF t, u

\* A line begins: the counters of scan lines count, VSYNC is counted.
LEMMA StartSame ==
  ASSUME NEW s \in Counters, NEW t, t = StartScan(s)
  PROVE  /\ t \in Counters /\ SameGate(s, t) /\ SameDelay(s, t) /\ t.steady = s.steady
         /\ t.sl = Counted(s.sl) /\ t.lines = (IF s.steady = 0 THEN 0 ELSE Counted(s.lines))
<1> DEFINE sl == Counted(s.sl)
           lines == IF s.steady = 0 THEN 0 ELSE Counted(s.lines)
           flags == s.flags \ {"newscan"}
           u == [s EXCEPT !.flags = flags, !.sl = sl, !.lines = lines]
           n == (u.vsw + 1) % SyncMod
           c == Set(u, "resvsync")
           x == [c EXCEPT !.vsw = 0]
           y == [u EXCEPT !.vsw = n]
<1>1. sl \in Nat /\ lines \in Nat /\ flags \in SUBSET Flags
  BY CountedTyped DEF Counters
<1>2. t = CountVSync(u)
  BY DEF StartScan, Clear, Counters
<1>3. /\ "inHSYNC" \in flags <=> Has(s, "inHSYNC")
      /\ "invsync" \in flags <=> Has(s, "invsync")
  BY DEF Has
<1> HIDE DEF sl, lines, flags
<1>4. u \in Counters
  BY <1>1 DEF Counters
<1>5. /\ u.hsw = s.hsw /\ u.ga = s.ga /\ u.calm = s.calm /\ u.raises = s.raises
      /\ u.perFrame = s.perFrame /\ u.pri = s.pri /\ u.hs = s.hs
      /\ u.sl = sl /\ u.lines = lines /\ u.steady = s.steady /\ u.flags = flags
  BY DEF Counters
<1> HIDE DEF u
<1>6. t \in {u, x, y} /\ t \in Counters
  BY <1>2, <1>4, CountVSyncKept DEF CountVSync, Keeps
<1>7. Same(u, c) /\ c \in Counters
  BY <1>4, FlagKept, FlagSame DEF Keeps, Flags
<1> HIDE DEF c, n
<1>8. SameNumbers(c, x) /\ x.flags = c.flags /\ SameNumbers(u, y) /\ y.flags = u.flags
  BY <1>4, <1>7 DEF SameNumbers, Counters
<1> HIDE DEF x, y
<1>9. Same(c, x) /\ Same(u, y)
  BY <1>8, NumbersSame DEF Has
<1>10. Same(u, t)
  BY <1>6, <1>7, <1>9, SameBoth, SelfSame
<1>11. SameGate(s, u) /\ SameDelay(s, u)
  BY <1>3, <1>5 DEF SameGate, SameDelay, Has
<1>12. SameGate(s, t) /\ SameDelay(s, t)
  BY <1>10, <1>11 DEF Same, SameGate, SameDelay
<1>13. t.sl = sl /\ t.lines = lines /\ t.steady = s.steady
  BY <1>5, <1>10 DEF Same, SameScan
<1> QED BY <1>6, <1>12, <1>13 DEF sl, lines

LEMMA RasterOnward == ASSUME NEW s \in Counters PROVE Onward(s, NextRaster(s))
<1> DEFINE n == (s.raster + 1) % RasterMod
           c == Clear(s, "resscan")
           u == [c EXCEPT !.raster = 0]
           v == [s EXCEPT !.raster = n]
           m == match_line_count(v)
<1>1. n \in 0 .. RasterMod - 1
  <2>1. s.raster \in Nat
    BY Ranges DEF Counters
  <2> QED BY <2>1, Ranges, Wraps
<1>2. NextRaster(s) \in {restart_frame(s), u, v, m}
  BY DEF NextRaster, CountRaster
<1>3. c \in Counters /\ Same(s, c)
  BY FlagKept, FlagSame DEF Keeps, Flags
<1> HIDE DEF c, n
<1>4. SameNumbers(c, u) /\ u.flags = c.flags
  BY <1>3 DEF SameNumbers, Counters
<1>5. v \in Counters /\ SameNumbers(s, v) /\ v.flags = s.flags
  BY <1>1 DEF SameNumbers, Counters
<1> HIDE DEF u, v
<1>6. Onward(s, u)
  BY <1>3, <1>4, NumbersSame, SameOnward, SameBoth DEF Has
<1>7. Onward(s, v) /\ Onward(v, m)
  BY <1>5, NumbersSame, SameOnward, MatchOnward DEF Has
<1> HIDE DEF m
<1>8. Onward(s, m)
  BY <1>7, OnwardBoth
<1> QED BY <1>2, <1>6, <1>7, <1>8, RestartOnward

LEMMA WatchOnward == ASSUME NEW s \in Counters PROVE Onward(s, WatchRaster(s))
<1> DEFINE u == [s EXCEPT !.instSL = 1]
           flags == u.flags \cup {"resscan", "r9match"}
           v == [u EXCEPT !.flags = flags, !.instMR = 1]
           w == Clear(u, "r9match")
<1>1. u \in Counters /\ SameNumbers(s, u) /\ u.flags = s.flags
  BY DEF SameNumbers, Counters
<1>2. WatchRaster(s) \in {v, w}
  BY <1>1 DEF WatchRaster, Counters
<1> HIDE DEF u
<1>3. /\ "inHSYNC" \in flags <=> Has(u, "inHSYNC")
      /\ "invsync" \in flags <=> Has(u, "invsync")
  BY DEF Has
<1> HIDE DEF flags
<1>4. SameNumbers(u, v) /\ v.flags = flags
  BY <1>1 DEF SameNumbers, Counters
<1> HIDE DEF v
<1>5. Same(u, v) /\ Same(s, u)
  BY <1>1, <1>3, <1>4, NumbersSame DEF Has
<1>6. Same(u, w)
  BY <1>1, FlagSame
<1> HIDE DEF w
<1>7. Same(s, v) /\ Same(s, w)
  BY <1>5, <1>6, SameBoth
<1> QED BY <1>2, <1>7, SameOnward

LEMMA AdjustOnward == ASSUME NEW s \in Counters PROVE Onward(s, Adjust(s))
<1> DEFINE u == restart_frame(s)
           v == Set(u, "resscan")
<1>1. u \in Counters /\ Onward(s, u)
  BY RestartKept, RestartOnward DEF Keeps
<1>2. Adjust(s) \in {s, u, v}
  BY DEF Adjust
<1> HIDE DEF u
<1>3. Onward(u, v)
  BY <1>1, FlagSame, SameOnward
<1> HIDE DEF v
<1> QED BY <1>1, <1>2, <1>3, OnwardBoth, SelfSame, SameOnward

LEMMA CharLineOnward == ASSUME NEW s \in Counters PROVE Onward(s, CountCharLine(s))
<1> DEFINE n == (s.line + 1) % LineMod
           u == [s EXCEPT !.line = n]
           m == match_line_count(u)
<1>1. n \in 0 .. LineMod - 1
  <2>1. s.line \in Nat
    BY Ranges DEF Counters
  <2> QED BY <2>1, Ranges, Wraps
<1>2. CountCharLine(s) \in {s, m}
  BY DEF CountCharLine
<1> HIDE DEF n
<1>3. u \in Counters /\ SameNumbers(s, u) /\ u.flags = s.flags
  BY <1>1 DEF SameNumbers, Counters
<1> HIDE DEF u
<1>4. Onward(s, u) /\ Onward(u, m)
  BY <1>3, NumbersSame, SameOnward, MatchOnward DEF Has
<1> HIDE DEF m
<1> QED BY <1>2, <1>4, OnwardBoth, SelfSame, SameOnward

LEMMA EndScanSame ==
  ASSUME NEW s \in Counters, NEW t, t = EndScan(s)
  PROVE  SameGate(s, t) /\ SameScan(s, t) /\ t.hs = s.hs
<1> DEFINE over == Has(s, "invsync") /\ Has(s, "resvsync")
           vsync == IF s.steady >= 2 THEN s.held ELSE 0
           held == IF Has(s, "invsync") /\ s.steady > 0 THEN Counted(s.held) ELSE 0
           flags == s.flags \ {"invsync", "resvsync"}
           ended == [s EXCEPT !.flags = flags, !.vsync = vsync, !.held = 0]
           goes == [s EXCEPT !.held = held]
           e == IF over THEN ended ELSE goes
           x == frame_finished(e)
<1>1. t \in {x, e}
  BY DEF EndScan
<1>2. "inHSYNC" \in flags <=> Has(s, "inHSYNC")
  BY DEF Has
<1> HIDE DEF vsync, held, flags
<1>3. /\ SameNumbers(s, ended) /\ ended.flags = flags /\ DOMAIN ended = DOMAIN s
      /\ SameNumbers(s, goes) /\ goes.flags = s.flags /\ DOMAIN goes = DOMAIN s
  BY DEF SameNumbers, Counters
<1> HIDE DEF ended, goes
<1>4. SameNumbers(s, e) /\ (Has(e, "inHSYNC") <=> Has(s, "inHSYNC")) /\ DOMAIN e = DOMAIN s
  BY <1>2, <1>3 DEF Has
<1> HIDE DEF e
<1>5. SameNumbers(e, x) /\ x.flags = e.flags
  BY <1>4 DEF frame_finished, SameNumbers, Counters
<1> HIDE DEF x
<1>6. SameNumbers(s, x) /\ (Has(x, "inHSYNC") <=> Has(s, "inHSYNC"))
  BY <1>4, <1>5 DEF SameNumbers, Has
<1> QED BY <1>1, <1>4, <1>6 DEF SameNumbers, SameGate, SameScan

\* A line that begins, as a whole.
LEMMA LineGate ==
  ASSUME NEW s \in Counters,
         NEW a, a = StartScan(s), NEW b, b = NextRaster(a), NEW w, w = WatchRaster(b),
         NEW d, d = Adjust(w), NEW k, k = CountCharLine(d), NEW t, t = EndScan(k)
  PROVE  /\ SameGate(s, t)
         /\ \/ t.sl = Counted(s.sl) /\ t.steady = s.steady
               /\ t.lines = (IF s.steady = 0 THEN 0 ELSE Counted(s.lines))
            \/ t.sl = 0 /\ t.lines = 0
         /\ ~Has(s, "invsync") /\ Has(k, "invsync") => t.hs = 2
         /\ Has(s, "invsync") \/ ~Has(k, "invsync") => t.hs = s.hs
<1>1. /\ a \in Counters /\ SameGate(s, a) /\ SameDelay(s, a) /\ a.steady = s.steady
      /\ a.sl = Counted(s.sl) /\ a.lines = (IF s.steady = 0 THEN 0 ELSE Counted(s.lines))
  BY StartSame
<1>2. b \in Counters /\ Onward(a, b)
  BY <1>1, RasterOnward, RestartKept, CountRasterKept DEF NextRaster, Keeps
<1>3. w \in Counters /\ Onward(b, w)
  BY <1>2, WatchOnward, WatchRasterKept DEF Keeps
<1>4. d \in Counters /\ Onward(w, d)
  BY <1>3, AdjustOnward, AdjustKept DEF Keeps
<1>5. k \in Counters /\ Onward(d, k)
  BY <1>4, CharLineOnward, CharLineKept DEF Keeps
<1>6. SameGate(k, t) /\ SameScan(k, t) /\ t.hs = k.hs
  BY <1>5, EndScanSame
<1>7. Onward(a, w)
  BY <1>2, <1>3, OnwardBoth
<1>8. Onward(a, d)
  BY <1>4, <1>7, OnwardBoth
<1>9. Onward(a, k)
  BY <1>5, <1>8, OnwardBoth
<1>10. SameGate(s, t)
  BY <1>1, <1>6, <1>9 DEF Onward, SameGate
<1>11. SameScan(a, t) \/ (t.sl = 0 /\ t.lines = 0)
  BY <1>6, <1>9 DEF Onward, SameScan
<1>12. t.hs = k.hs /\ (SameDelay(a, k) \/ (~Has(a, "invsync") /\ Has(k, "invsync") /\ k.hs = 2))
  BY <1>6, <1>9 DEF Onward
<1>13. /\ ~Has(s, "invsync") /\ Has(k, "invsync") => t.hs = 2
       /\ Has(s, "invsync") \/ ~Has(k, "invsync") => t.hs = s.hs
  BY <1>1, <1>12 DEF SameDelay
<1> QED BY <1>1, <1>10, <1>11, <1>13 DEF SameScan

(***************************************************************************)
(* HSYNC: how it moves the gate array.                                     *)
(***************************************************************************)
Wrapped(s) == IF s.ga + 1 = IntLines THEN 0 ELSE s.ga + 1
Asks(s) == IF s.ga + 1 = IntLines THEN s.pri = 0 ELSE s.pri # 0 /\ s.sl = s.pri
Tally(s) == IF Asks(s) THEN Counted(s.raises) ELSE s.raises
Ticked(s, t) ==
  /\ t.pri = s.pri /\ t.sl = s.sl
  /\ s.hs # 1 => /\ t.ga = Wrapped(s) /\ t.hs = (IF s.hs = 0 THEN 0 ELSE s.hs - 1)
                 /\ t.calm = s.calm /\ t.perFrame = s.perFrame
                 /\ s.calm >= 1 => t.raises = Tally(s)
  /\ s.hs = 1 => /\ t.ga = 0 /\ t.hs = 0 /\ t.calm = OnceMore(s.calm) /\ t.raises = 0
                 /\ s.calm >= 2 => t.perFrame = IF Wrapped(s) >= Margin /\ s.pri = 0
                                                THEN Counted(Tally(s)) ELSE Tally(s)
Unticked(s, t) ==
  /\ t.pri = s.pri /\ t.sl = s.sl /\ t.ga = s.ga /\ t.hs = s.hs /\ t.calm = s.calm
  /\ t.raises = s.raises /\ t.perFrame = s.perFrame

LEMMA LineTallied ==
  ASSUME NEW s \in Counters, NEW t, t = CountLine(s)
  PROVE  /\ t \in Counters /\ t.R = s.R /\ t.hsw = s.hsw /\ t.flags = s.flags
         /\ t.pri = s.pri /\ t.sl = s.sl /\ t.hs = s.hs /\ t.calm = s.calm
         /\ t.perFrame = s.perFrame /\ t.ga = Wrapped(s) /\ (s.calm >= 1 => t.raises = Tally(s))
<1>1. t \in Counters
  BY CountLineKept DEF Keeps
<1>2. ASSUME NEW n, NEW on \in BOOLEAN, t = Raise([s EXCEPT !.ga = n], on)
      PROVE  /\ t.R = s.R /\ t.hsw = s.hsw /\ t.flags = s.flags
             /\ t.pri = s.pri /\ t.sl = s.sl /\ t.hs = s.hs /\ t.calm = s.calm
             /\ t.perFrame = s.perFrame /\ t.ga = n
             /\ s.calm >= 1 => t.raises = IF on THEN Counted(s.raises) ELSE s.raises
  <2> DEFINE u == [s EXCEPT !.ga = n]
             raises == IF u.calm = 0 THEN 0 ELSE Counted(u.raises)
             v == [u EXCEPT !.pending = TRUE, !.raises = raises]
  <2>1. t = IF on THEN v ELSE u
    BY <1>2 DEF Raise
  <2>2. /\ u.R = s.R /\ u.hsw = s.hsw /\ u.flags = s.flags
        /\ u.pri = s.pri /\ u.sl = s.sl /\ u.hs = s.hs /\ u.calm = s.calm
        /\ u.perFrame = s.perFrame /\ u.ga = n /\ u.raises = s.raises /\ DOMAIN u = DOMAIN s
    BY DEF Counters
  <2>3. s.calm >= 1 => raises = Counted(s.raises)
    BY <2>2
  <2> HIDE DEF u, raises
  <2>4. /\ v.R = u.R /\ v.hsw = u.hsw /\ v.flags = u.flags
        /\ v.pri = u.pri /\ v.sl = u.sl /\ v.hs = u.hs /\ v.calm = u.calm
        /\ v.perFrame = u.perFrame /\ v.ga = u.ga /\ v.raises = raises
    BY <2>2 DEF Counters
  <2> HIDE DEF v
  <2> QED BY <2>1, <2>2, <2>3, <2>4
<1>3. CASE s.ga + 1 = IntLines
  <2>1. t = Raise([s EXCEPT !.ga = 0], s.pri = 0)
    BY <1>3 DEF CountLine
  <2>2. Wrapped(s) = 0 /\ Tally(s) = (IF s.pri = 0 THEN Counted(s.raises) ELSE s.raises)
    BY <1>3 DEF Wrapped, Tally, Asks
  <2> QED BY <1>1, <1>2, <2>1, <2>2
<1>4. CASE s.ga + 1 # IntLines
  <2> DEFINE n == s.ga + 1
             on == s.pri # 0 /\ s.sl = s.pri
  <2>1. t = Raise([s EXCEPT !.ga = n], on)
    BY <1>4 DEF CountLine
  <2>2. Wrapped(s) = n /\ Tally(s) = (IF on THEN Counted(s.raises) ELSE s.raises) /\ on \in BOOLEAN
    BY <1>4 DEF Wrapped, Tally, Asks
  <2> HIDE DEF n, on
  <2> QED BY <1>1, <1>2, <2>1, <2>2
<1> QED BY <1>3, <1>4

LEMMA VSyncDelayed ==
  ASSUME NEW s \in Counters, NEW t, t = DelayedVSync(s)
  PROVE  /\ t \in Counters /\ t.R = s.R /\ t.hsw = s.hsw /\ t.flags = s.flags
         /\ t.pri = s.pri /\ t.sl = s.sl
         /\ s.hs # 1 => /\ t.ga = s.ga /\ t.hs = (IF s.hs = 0 THEN 0 ELSE s.hs - 1)
                        /\ t.calm = s.calm /\ t.perFrame = s.perFrame /\ t.raises = s.raises
         /\ s.hs = 1 => /\ t.ga = 0 /\ t.hs = 0 /\ t.calm = OnceMore(s.calm) /\ t.raises = 0
                        /\ s.calm >= 2 =>
                             t.perFrame = IF s.ga >= Margin /\ s.pri = 0
                                          THEN Counted(s.raises) ELSE s.raises
<1>1. t \in Counters
  BY DelayedVSyncKept DEF Keeps
<1>2. CASE s.hs = 0
  BY <1>1, <1>2 DEF DelayedVSync
<1>3. CASE s.hs # 0
  <2> DEFINE hs == s.hs - 1
             u == [s EXCEPT !.hs = hs]
             on == u.ga >= Margin /\ u.pri = 0
             raises == IF u.calm = 0 THEN 0 ELSE Counted(u.raises)
             v == [u EXCEPT !.pending = TRUE, !.raises = raises]
             x == IF on THEN v ELSE u
             perFrame == IF x.calm >= 2 THEN x.raises ELSE 0
             calm == OnceMore(x.calm)
             y == [x EXCEPT !.ga = 0, !.perFrame = perFrame, !.raises = 0, !.calm = calm]
  <2>1. hs \in 0 .. 1 /\ (hs = 0 <=> s.hs = 1)
    BY <1>3 DEF Counters
  <2>2. t = IF u.hs # 0 THEN u ELSE y
    BY <1>3 DEF DelayedVSync, Raise
  <2>3. /\ u.R = s.R /\ u.hsw = s.hsw /\ u.flags = s.flags
        /\ u.pri = s.pri /\ u.sl = s.sl /\ u.hs = hs /\ u.calm = s.calm
        /\ u.perFrame = s.perFrame /\ u.ga = s.ga /\ u.raises = s.raises /\ DOMAIN u = DOMAIN s
    <3> HIDE DEF hs
    <3> QED BY DEF Counters
  <2>4. s.calm >= 2 => raises = Counted(s.raises)
    BY <2>3
  <2>5. on <=> s.ga >= Margin /\ s.pri = 0
    BY <2>3
  <2> HIDE DEF u, raises, on
  <2>6. /\ v.R = u.R /\ v.hsw = u.hsw /\ v.flags = u.flags
        /\ v.pri = u.pri /\ v.sl = u.sl /\ v.hs = u.hs /\ v.calm = u.calm
        /\ v.perFrame = u.perFrame /\ v.ga = u.ga /\ v.raises = raises /\ DOMAIN v = DOMAIN u
    BY <2>3 DEF Counters
  <2> HIDE DEF v
  <2>7. /\ x.R = s.R /\ x.hsw = s.hsw /\ x.flags = s.flags
        /\ x.pri = s.pri /\ x.sl = s.sl /\ x.hs = hs /\ x.calm = s.calm /\ DOMAIN x = DOMAIN s
        /\ s.calm >= 2 => x.raises = IF s.ga >= Margin /\ s.pri = 0 THEN Counted(s.raises) ELSE s.raises
    BY <2>3, <2>4, <2>5, <2>6
  <2>8. calm = OnceMore(s.calm) /\ (s.calm >= 2 => perFrame = x.raises)
    BY <2>7
  <2> HIDE DEF x, calm, perFrame
  <2>9. /\ y.R = x.R /\ y.hsw = x.hsw /\ y.flags = x.flags
        /\ y.pri = x.pri /\ y.sl = x.sl /\ y.hs = x.hs /\ y.calm = calm
        /\ y.perFrame = perFrame /\ y.ga = 0 /\ y.raises = 0
    BY <2>7 DEF Counters
  <2> HIDE DEF y, hs
  <2>10. CASE hs = 0
    <3>1. t = y /\ s.hs = 1
      BY <2>1, <2>2, <2>3, <2>10
    <3> QED BY <1>1, <2>7, <2>8, <2>9, <2>10, <3>1
  <2>11. CASE hs # 0
    <3>1. t = u /\ s.hs # 1 /\ s.hs # 0
      BY <1>3, <2>1, <2>2, <2>3, <2>11
    <3> QED BY <1>1, <2>3, <3>1 DEF hs
  <2> QED BY <2>10, <2>11
<1> QED BY <1>2, <1>3

LEMMA WidthMatched ==
  ASSUME NEW s \in Counters, NEW t, t = match_hsw(s)
  PROVE  /\ t \in Counters
         /\ s.hsw = s.R[3].hsw => ~Has(t, "inHSYNC") /\ Ticked(s, t)
         /\ s.hsw # s.R[3].hsw =>
              /\ t.hsw = (s.hsw + 1) % SyncMod /\ (Has(t, "inHSYNC") <=> Has(s, "inHSYNC"))
              /\ Unticked(s, t)
<1>1. t \in Counters
  BY HSyncWidthKept DEF Keeps
<1>2. CASE s.hsw # s.R[3].hsw
  <2> DEFINE n == (s.hsw + 1) % SyncMod
  <2>1. t = [s EXCEPT !.hsw = n]
    BY <1>2 DEF match_hsw
  <2> HIDE DEF n
  <2>2. t.hsw = n /\ t.flags = s.flags /\ Unticked(s, t)
    BY <2>1 DEF Counters, Unticked
  <2> QED BY <1>1, <1>2, <2>2 DEF Has, n
<1>3. CASE s.hsw = s.R[3].hsw
  <2> DEFINE c == CountLine(s)
             d == DelayedVSync(c)
  <2>1. t = Clear(d, "inHSYNC")
    BY <1>3 DEF match_hsw
  <2>2. /\ c \in Counters /\ c.pri = s.pri /\ c.sl = s.sl /\ c.hs = s.hs /\ c.calm = s.calm
        /\ c.perFrame = s.perFrame /\ c.ga = Wrapped(s) /\ (s.calm >= 1 => c.raises = Tally(s))
    BY LineTallied
  <2> HIDE DEF c
  <2>3. /\ d \in Counters /\ d.pri = c.pri /\ d.sl = c.sl
        /\ c.hs # 1 => /\ d.ga = c.ga /\ d.hs = (IF c.hs = 0 THEN 0 ELSE c.hs - 1)
                       /\ d.calm = c.calm /\ d.perFrame = c.perFrame /\ d.raises = c.raises
        /\ c.hs = 1 => /\ d.ga = 0 /\ d.hs = 0 /\ d.calm = OnceMore(c.calm) /\ d.raises = 0
                       /\ c.calm >= 2 =>
                            d.perFrame = IF c.ga >= Margin /\ c.pri = 0
                                         THEN Counted(c.raises) ELSE c.raises
    BY <2>2, VSyncDelayed
  <2> HIDE DEF d
  <2>4. SameNumbers(d, t) /\ ~Has(t, "inHSYNC")
    <3>1. d \in Counters /\ t = Clear(d, "inHSYNC")
      BY <2>1, <2>3 DEF d
    <3> HIDE DEF d
    <3>2. SameNumbers(d, t)
      BY <3>1, FlagNumbers
    <3>3. ~Has(t, "inHSYNC")
      BY <3>1, FlagSet
    <3> QED BY <3>2, <3>3
  <2>5. s.calm >= 2 => s.calm >= 1
    BY DEF Counters
  <2>6. Ticked(s, t)
    BY <2>2, <2>3, <2>4, <2>5 DEF Ticked, SameNumbers
  <2> QED BY <1>1, <1>3, <2>4, <2>6
<1> QED BY <1>2, <1>3

\* Whether HSYNC is on in this microsecond, and its counter then.
Begins(s) == ~Has(s, "inHSYNC") /\ s.char = s.R[2]
Width(s) == IF Begins(s) THEN 0 ELSE s.hsw
LEMMA HSynced ==
  ASSUME NEW s \in Counters, NEW t, t = HSync(s)
  PROVE  /\ t \in Counters
         /\ ~Has(s, "inHSYNC") /\ ~Begins(s) => ~Has(t, "inHSYNC") /\ Unticked(s, t)
         /\ (Has(s, "inHSYNC") \/ Begins(s)) /\ Width(s) # s.R[3].hsw =>
              Has(t, "inHSYNC") /\ t.hsw = (Width(s) + 1) % SyncMod /\ Unticked(s, t)
         /\ (Has(s, "inHSYNC") \/ Begins(s)) /\ Width(s) = s.R[3].hsw =>
              ~Has(t, "inHSYNC") /\ Ticked(s, t)
<1>1. t \in Counters
  BY HSyncKept DEF Keeps
<1>2. CASE Has(s, "inHSYNC")
  <2>1. t = match_hsw(s) /\ Width(s) = s.hsw
    BY <1>2 DEF HSync, Width, Begins
  <2> QED BY <1>1, <1>2, <2>1, WidthMatched
<1>3. CASE Begins(s)
  <2> DEFINE f == Set(s, "inHSYNC")
             u == [f EXCEPT !.hsw = 0]
  <2>1. t = match_hsw(u) /\ Width(s) = 0
    BY <1>3 DEF HSync, Width, Begins
  <2>2. f \in Counters /\ SameNumbers(s, f) /\ Has(f, "inHSYNC") /\ f.R = s.R
    BY FlagKept, FlagNumbers, FlagSet DEF Keeps, Flags, SameFields, SamePlace
  <2> HIDE DEF f
  <2>3. u \in Counters /\ u.flags = f.flags /\ u.hsw = 0 /\ u.R = f.R
        /\ u.ga = f.ga /\ u.calm = f.calm /\ u.raises = f.raises
        /\ u.perFrame = f.perFrame /\ u.pri = f.pri /\ u.sl = f.sl /\ u.hs = f.hs
    <3>1. 0 \in 0 .. SyncMod - 1
      BY Ranges
    <3> QED BY <2>2, <3>1 DEF Counters
  <2> HIDE DEF u
  <2>4. /\ u.ga = s.ga /\ u.calm = s.calm /\ u.raises = s.raises /\ u.R = s.R
        /\ u.perFrame = s.perFrame /\ u.pri = s.pri /\ u.sl = s.sl /\ u.hs = s.hs
        /\ Has(u, "inHSYNC")
    BY <2>2, <2>3 DEF SameNumbers, Has
  <2>5. Wrapped(u) = Wrapped(s) /\ Tally(u) = Tally(s)
    BY <2>4 DEF Wrapped, Tally, Asks
  <2>6. (Ticked(u, t) => Ticked(s, t)) /\ (Unticked(u, t) => Unticked(s, t))
    BY <2>4, <2>5 DEF Ticked, Unticked
  <2> QED BY <1>1, <1>3, <2>1, <2>3, <2>4, <2>6, WidthMatched DEF Begins
<1>4. CASE ~Has(s, "inHSYNC") /\ ~Begins(s)
  <2>1. t = s
    BY <1>4 DEF HSync, Begins
  <2> QED BY <1>1, <1>4, <2>1 DEF Unticked
<1> QED BY <1>2, <1>3, <1>4

(***************************************************************************)
(* The place of HSYNC in the line.                                         *)
(***************************************************************************)
SyncEnd(R) == R[2] + R[3].hsw
\* HSYNC ends within its line, not with its first character, and the gate array sees two
\* of them after VSYNC has begun and before the frame ends.
Brief(R) ==
  /\ R[2] \in Nat /\ R[3].hsw \in 0 .. SyncMod - 1 /\ SyncEnd(R) \in 1 .. R[0]
  /\ Begin(R) + 2 <= Lines(R)
\* The characters until the counter of the width has met register 3.
CharsLeft(R, hsw) == IF hsw <= R[3].hsw THEN R[3].hsw - hsw + 1 ELSE R[3].hsw + SyncMod - hsw + 1
InLine(s) ==
  /\ Has(s, "inHSYNC") <=> s.char \in s.R[2] .. SyncEnd(s.R) - 1
  /\ Has(s, "inHSYNC") => s.hsw = s.char - s.R[2] + 1
\* An HSYNC that was on when the registers were written, in the first lines of a frame.
Astray(s) ==
  /\ s.steady = 2 /\ s.lines < SyncMod
  /\ Has(s, "inHSYNC") =>
       CharsLeft(s.R, s.hsw) + s.lines + (IF s.char > 0 THEN 1 ELSE 0) <= SyncMod
NextChar(s) == IF s.char = s.R[0] THEN 0 ELSE s.char + 1

LEMMA WrapsTo ==
  ASSUME NEW m \in Nat \ {0}, NEW n \in 0 .. m - 1
  PROVE  (n + 1) % m = IF n + 1 = m THEN 0 ELSE n + 1
<1>1. CASE n + 1 = m
  BY <1>1
<1>2. CASE n + 1 # m
  <2> DEFINE x == n + 1
  <2>1. x \in 0 .. m - 1
    BY <1>2
  <2> HIDE DEF x
  <2>2. x % m = x
    BY <2>1
  <2> QED BY <1>2, <2>2 DEF x
<1> QED BY <1>1, <1>2

LEMMA SameTicks ==
  ASSUME NEW s, NEW x, NEW h, NEW l, Same(s, x), Same(h, l)
  PROVE  (Ticked(x, h) => Ticked(s, l)) /\ (Unticked(x, h) => Unticked(s, l))
<1>1. /\ x.ga = s.ga /\ x.calm = s.calm /\ x.raises = s.raises
      /\ x.perFrame = s.perFrame /\ x.pri = s.pri /\ x.sl = s.sl /\ x.hs = s.hs
      /\ l.ga = h.ga /\ l.calm = h.calm /\ l.raises = h.raises
      /\ l.perFrame = h.perFrame /\ l.pri = h.pri /\ l.sl = h.sl /\ l.hs = h.hs
  BY DEF Same, SameGate, SameScan, SameDelay
<1>2. Wrapped(x) = Wrapped(s) /\ Tally(x) = Tally(s)
  BY <1>1 DEF Wrapped, Tally, Asks
<1> QED BY <1>1, <1>2 DEF Ticked, Unticked

\* HSYNC at the next character, when it was at its place before.
LEMMA SyncInLine ==
  ASSUME NEW s \in Counters, NEW x \in Counters, NEW h, h = HSync(x), Same(s, x), x.R = s.R,
         x.char = NextChar(s), s.char \in 0 .. s.R[0], s.R[0] \in Nat, Brief(s.R), InLine(s),
         NEW l, l.char = x.char, l.R = s.R, Same(h, l)
  PROVE  /\ InLine(l)
         /\ x.char = SyncEnd(s.R) => Ticked(s, l)
         /\ x.char # SyncEnd(s.R) => Unticked(s, l)
<1> DEFINE a == s.R[2]
           v == s.R[3].hsw
           e == SyncEnd(s.R)
           z == s.R[0]
           c == s.char
           n == x.char
           on == Has(s, "inHSYNC")
<1>1. a \in Nat /\ v \in 0 .. SyncMod - 1 /\ e = a + v /\ e \in 1 .. z /\ z \in Nat
      /\ SyncMod \in Nat \ {0}
  BY Ranges DEF Brief, SyncEnd
<1>2. c \in 0 .. z /\ n = (IF c = z THEN 0 ELSE c + 1)
  BY DEF NextChar
<1>3. (on <=> c \in a .. e - 1) /\ (on => s.hsw = c - a + 1)
  BY DEF InLine
<1>4. x.hsw = s.hsw /\ (Has(x, "inHSYNC") <=> on) /\ (Begins(x) <=> ~on /\ n = a)
  BY DEF Same, SameGate, Begins
<1>5. /\ ~on /\ n # a => ~Has(h, "inHSYNC") /\ Unticked(x, h)
      /\ (on \/ n = a) /\ Width(x) # v => Has(h, "inHSYNC") /\ h.hsw = (Width(x) + 1) % SyncMod /\ Unticked(x, h)
      /\ (on \/ n = a) /\ Width(x) = v => ~Has(h, "inHSYNC") /\ Ticked(x, h)
  BY <1>4, HSynced
<1>6. Width(x) = (IF ~on /\ n = a THEN 0 ELSE s.hsw)
  BY <1>4 DEF Width
<1>7. (Has(l, "inHSYNC") <=> Has(h, "inHSYNC")) /\ l.hsw = h.hsw
  BY DEF Same, SameGate
<1>8. InLine(l) <=> /\ Has(h, "inHSYNC") <=> n \in a .. e - 1
                    /\ Has(h, "inHSYNC") => h.hsw = n - a + 1
  BY <1>7 DEF InLine
<1>9. (Ticked(x, h) => Ticked(s, l)) /\ (Unticked(x, h) => Unticked(s, l))
  BY SameTicks
<1>10. on \in BOOLEAN
  BY DEF Has
<1> HIDE DEF a, v, e, z, c, n, on
<1>11. CASE ~on /\ n # a
  <2>1. n \notin a .. e - 1 /\ n # e
    BY <1>1, <1>2, <1>3, <1>11
  <2> QED BY <1>5, <1>8, <1>9, <1>11, <2>1 DEF e, n
<1>12. CASE on \/ n = a
  <2>1. n \in a .. e /\ Width(x) = n - a
    <3>1. CASE on
      <4>1. c # z /\ n = c + 1 /\ n # a
        BY <1>1, <1>2, <1>3, <3>1
      <4> QED BY <1>1, <1>3, <1>6, <3>1, <4>1
    <3>2. CASE ~on
      BY <1>1, <1>6, <1>12, <3>2
    <3> QED BY <3>1, <3>2
  <2>2. CASE n = e
    <3>1. Width(x) = v /\ n \notin a .. e - 1
      BY <1>1, <2>1, <2>2
    <3> QED BY <1>5, <1>8, <1>9, <1>12, <2>2, <3>1 DEF e, n
  <2>3. CASE n # e
    <3>1. Width(x) # v /\ n \in a .. e - 1 /\ Width(x) \in 0 .. SyncMod - 1 /\ Width(x) + 1 # SyncMod
      BY <1>1, <2>1, <2>3
    <3>2. (Width(x) + 1) % SyncMod = Width(x) + 1
      BY <1>1, <3>1, WrapsTo
    <3>3. Has(h, "inHSYNC") /\ h.hsw = n - a + 1 /\ Unticked(x, h)
      BY <1>1, <1>5, <1>12, <2>1, <3>1, <3>2
    <3> QED BY <1>8, <1>9, <2>3, <3>1, <3>3 DEF e, n
  <2> QED BY <2>2, <2>3
<1> QED BY <1>10, <1>11, <1>12

LEMMA LeftInRange ==
  ASSUME NEW R, R[3].hsw \in 0 .. SyncMod - 1, NEW n \in 0 .. SyncMod - 1
  PROVE  CharsLeft(R, n) \in 1 .. SyncMod
<1> DEFINE v == R[3].hsw
<1>1. CharsLeft(R, n) = (IF n <= v THEN v - n + 1 ELSE v + SyncMod - n + 1) /\ v \in 0 .. SyncMod - 1
  BY DEF CharsLeft
<1> HIDE DEF v
<1> QED BY <1>1, Ranges

\* HSYNC at the next character, when it is astray.
LEMMA SyncAstray ==
  ASSUME NEW s \in Counters, NEW x \in Counters, NEW h, h = HSync(x), Same(s, x), x.R = s.R,
         x.char = NextChar(s), s.char \in 0 .. s.R[0], s.R[0] \in Nat, Brief(s.R), ~InLine(s),
         NEW l, l.char = x.char, l.R = s.R, Same(h, l)
  PROVE  /\ Has(s, "inHSYNC") /\ Has(l, "inHSYNC") => CharsLeft(s.R, l.hsw) + 1 = CharsLeft(s.R, s.hsw)
         /\ ~Has(s, "inHSYNC") => ~Has(l, "inHSYNC") /\ s.char # s.R[0]
<1> DEFINE a == s.R[2]
           v == s.R[3].hsw
           e == SyncEnd(s.R)
           z == s.R[0]
           c == s.char
           n == x.char
           w == s.hsw
           on == Has(s, "inHSYNC")
<1>1. a \in Nat /\ v \in 0 .. SyncMod - 1 /\ e = a + v /\ e \in 1 .. z /\ z \in Nat
      /\ SyncMod \in Nat \ {0} /\ w \in 0 .. SyncMod - 1
  BY Ranges DEF Brief, SyncEnd, Counters
<1>2. c \in 0 .. z /\ n = (IF c = z THEN 0 ELSE c + 1)
  BY DEF NextChar
<1>3. ~on => c \in a .. e - 1
  BY DEF InLine
<1>4. x.hsw = w /\ (Has(x, "inHSYNC") <=> on) /\ (Begins(x) <=> ~on /\ n = a)
  BY DEF Same, SameGate, Begins
<1>5. /\ ~on /\ n # a => ~Has(h, "inHSYNC")
      /\ on /\ w # v => h.hsw = (w + 1) % SyncMod
      /\ on /\ w = v => ~Has(h, "inHSYNC")
  <2>1. on => Width(x) = w
    BY <1>4 DEF Width
  <2> QED BY <1>4, <2>1, HSynced
<1>6. (Has(l, "inHSYNC") <=> Has(h, "inHSYNC")) /\ l.hsw = h.hsw
  BY DEF Same, SameGate
<1>7. \A m : CharsLeft(s.R, m) = (IF m <= v THEN v - m + 1 ELSE v + SyncMod - m + 1)
  BY DEF CharsLeft
<1>8. (w + 1) % SyncMod = IF w + 1 = SyncMod THEN 0 ELSE w + 1
  BY <1>1, WrapsTo
<1> HIDE DEF a, v, e, z, c, n, w, on
<1>9. ASSUME on, Has(l, "inHSYNC")
      PROVE  CharsLeft(s.R, l.hsw) + 1 = CharsLeft(s.R, w)
  <2> DEFINE m == IF w + 1 = SyncMod THEN 0 ELSE w + 1
  <2>1. l.hsw = m /\ w # v
    BY <1>5, <1>6, <1>8, <1>9
  <2>2. CharsLeft(s.R, m) = (IF m <= v THEN v - m + 1 ELSE v + SyncMod - m + 1)
    BY <1>7
  <2>3. CharsLeft(s.R, w) = (IF w <= v THEN v - w + 1 ELSE v + SyncMod - w + 1)
    BY <1>7
  <2>4. CharsLeft(s.R, m) + 1 = CharsLeft(s.R, w)
    BY <1>1, <2>1, <2>2, <2>3
  <2> QED BY <2>1, <2>4
<1>10. ASSUME ~on
       PROVE  ~Has(l, "inHSYNC") /\ c # z
  <2>1. n # a /\ c # z
    BY <1>1, <1>2, <1>3, <1>10
  <2> QED BY <1>5, <1>6, <1>10, <2>1
<1> QED BY <1>9, <1>10 DEF on, w, c, z

(***************************************************************************)
(* Counting the interrupts of a frame.                                     *)
(***************************************************************************)
\* The interrupts of the first k lines after the gate array has taken VSYNC.
Raised(R, pri, k) ==
  IF pri = 0 THEN k \div IntLines
  ELSE Cardinality({j \in 1 .. k : (Begin(R) + 1 + j) % Lines(R) = pri /\ j % IntLines # 0})

LEMMA DivStep ==
  ASSUME NEW m \in Nat \ {0}, NEW k \in Nat
  PROVE  /\ k % m \in 0 .. m - 1 /\ k \div m \in Nat /\ k \div m <= k
         /\ (k + 1) % m = (IF (k % m) + 1 = m THEN 0 ELSE (k % m) + 1)
         /\ (k + 1) \div m = (IF (k % m) + 1 = m THEN k \div m + 1 ELSE k \div m)
<1> DEFINE q == k \div m
           r == k % m
           x == (k + 1) \div m
           y == (k + 1) % m
<1>1. r \in 0 .. m - 1 /\ q \in Int /\ k = m * q + r /\ y \in 0 .. m - 1 /\ x \in Int /\ k + 1 = m * x + y
  OBVIOUS
<1> HIDE DEF q, r, x, y
<1>2. q >= 0
  <2>1. ASSUME q <= -1 PROVE FALSE
    <3>1. m * q <= -m
      BY <1>1, <2>1
    <3> QED BY <1>1, <3>1
  <2> QED BY <1>1, <2>1
<1>3. q <= k
  <2>1. m * q >= q
    BY <1>1, <1>2
  <2>2. m * q \in Int
    BY <1>1
  <2> QED BY <1>1, <2>1, <2>2
<1>4. ASSUME NEW b \in 0 .. m - 1, NEW p \in Int, m * p + b = m * x + y
      PROVE  p = x /\ b = y
  <2>1. m * (p - x) = y - b /\ p - x \in Int
    BY <1>1, <1>4
  <2> DEFINE d == p - x
  <2>2. d \in Int /\ m * d < m /\ m * d > -m
    BY <1>1, <2>1
  <2> HIDE DEF d
  <2>3. ~(d >= 1)
    <3>1. d >= 1 => m * d >= m
      BY <2>2
    <3> QED BY <2>2, <3>1
  <2>4. ~(d <= -1)
    <3>1. d <= -1 => m * d <= -m
      BY <2>2
    <3> QED BY <2>2, <3>1
  <2>5. d = 0
    BY <2>2, <2>3, <2>4
  <2> QED BY <1>1, <2>1, <2>5 DEF d
<1>5. CASE r + 1 = m
  <2>1. m * (q + 1) + 0 = m * x + y
    <3>1. m * (q + 1) = m * q + m
      BY <1>1
    <3> QED BY <1>1, <1>5, <3>1
  <2>2. q + 1 = x /\ 0 = y
    BY <1>1, <1>4, <2>1
  <2> QED BY <1>1, <1>2, <1>3, <1>5, <2>2 DEF q, r, x, y
<1>6. CASE r + 1 # m
  <2>1. m * q + (r + 1) = m * x + y
    BY <1>1
  <2>2. q = x /\ r + 1 = y
    BY <1>1, <1>4, <1>6, <2>1
  <2> QED BY <1>1, <1>2, <1>3, <1>6, <2>2 DEF q, r, x, y
<1> QED BY <1>5, <1>6

LEMMA NoneRaised == ASSUME NEW R, NEW pri \in Nat PROVE Raised(R, pri, 0) = 0 /\ 0 % IntLines = 0
<1>1. IntLines \in Nat \ {0}
  BY Ranges
<1>2. 0 \div IntLines = 0 /\ 0 % IntLines = 0
  <2>1. 0 % IntLines = 0
    BY <1>1
  <2>2. 0 \div IntLines \in Nat /\ 0 \div IntLines <= 0
    BY <1>1, DivStep
  <2> QED BY <2>1, <2>2
<1>3. {j \in 1 .. 0 : (Begin(R) + 1 + j) % Lines(R) = pri /\ j % IntLines # 0} = {}
  OBVIOUS
<1> QED BY <1>2, <1>3, FS_EmptySet DEF Raised

LEMMA OneMoreRaised ==
  ASSUME NEW R, NEW pri \in Nat, NEW k \in Nat, Begin(R) \in Nat, Lines(R) \in Nat \ {0}
  PROVE  /\ Raised(R, pri, k) \in Nat /\ Raised(R, pri, k) <= k
         /\ Raised(R, pri, k + 1) =
              IF (IF (k % IntLines) + 1 = IntLines THEN pri = 0
                  ELSE pri # 0 /\ (Begin(R) + 2 + k) % Lines(R) = pri)
              THEN Raised(R, pri, k) + 1 ELSE Raised(R, pri, k)
<1>1. /\ k \div IntLines \in Nat /\ k \div IntLines <= k
      /\ (k + 1) % IntLines = (IF (k % IntLines) + 1 = IntLines THEN 0 ELSE (k % IntLines) + 1)
      /\ (k + 1) \div IntLines = (IF (k % IntLines) + 1 = IntLines THEN k \div IntLines + 1 ELSE k \div IntLines)
      /\ k % IntLines \in Nat
  <2> DEFINE m == IntLines
  <2>1. m \in Nat \ {0}
    BY Ranges
  <2> HIDE DEF m
  <2>2. /\ k % m \in 0 .. m - 1 /\ k \div m \in Nat /\ k \div m <= k
        /\ (k + 1) % m = (IF (k % m) + 1 = m THEN 0 ELSE (k % m) + 1)
        /\ (k + 1) \div m = (IF (k % m) + 1 = m THEN k \div m + 1 ELSE k \div m)
    BY <2>1, DivStep
  <2>3. k % m \in Nat
    BY <2>1, <2>2
  <2> QED BY <2>2, <2>3 DEF m
<1>2. CASE pri = 0
  BY <1>1, <1>2 DEF Raised
<1>3. CASE pri # 0
  <2> DEFINE P(j) == (Begin(R) + 1 + j) % Lines(R) = pri /\ j % IntLines # 0
             S == {j \in 1 .. k : P(j)}
             T == {j \in 1 .. k + 1 : P(j)}
  <2>1. Raised(R, pri, k) = Cardinality(S) /\ Raised(R, pri, k + 1) = Cardinality(T)
    BY <1>3 DEF Raised
  <2>2. P(k + 1) <=> (Begin(R) + 2 + k) % Lines(R) = pri /\ (k % IntLines) + 1 # IntLines
    <3>1. Begin(R) + 1 + (k + 1) = Begin(R) + 2 + k
      OBVIOUS
    <3>2. (k + 1) % IntLines # 0 <=> (k % IntLines) + 1 # IntLines
      BY <1>1
    <3> QED BY <3>1, <3>2
  <2> HIDE DEF P
  <2>3. T = (IF P(k + 1) THEN S \cup {k + 1} ELSE S) /\ k + 1 \notin S
    <3>1. 1 .. k + 1 = (1 .. k) \cup {k + 1} /\ k + 1 \notin 1 .. k
      OBVIOUS
    <3> QED BY <3>1
  <2>4. IsFiniteSet(S) /\ Cardinality(S) <= k /\ Cardinality(S) \in Nat
    <3>1. IsFiniteSet(1 .. k) /\ Cardinality(1 .. k) = k
      <4>1. 1 \in Int /\ k \in Int
        OBVIOUS
      <4>2. IsFiniteSet(1 .. k) /\ Cardinality(1 .. k) = IF 1 > k THEN 0 ELSE k - 1 + 1
        BY <4>1, FS_Interval
      <4> QED BY <4>2
    <3>2. S \subseteq 1 .. k
      OBVIOUS
    <3> HIDE DEF S
    <3>3. IsFiniteSet(S) /\ Cardinality(S) <= Cardinality(1 .. k)
      BY <3>1, <3>2, FS_Subset
    <3> QED BY <3>1, <3>3, FS_CardinalityType
  <2> HIDE DEF S, T
  <2>5. Cardinality(T) = IF P(k + 1) THEN Cardinality(S) + 1 ELSE Cardinality(S)
    <3>1. Cardinality(S \cup {k + 1}) = Cardinality(S) + 1
      BY <2>3, <2>4, FS_AddElement
    <3> QED BY <2>3, <3>1
  <2> QED BY <1>3, <2>1, <2>2, <2>4, <2>5
<1> QED BY <1>2, <1>3

(***************************************************************************)
(* The interrupts of a frame, after n of its lines.                        *)
(***************************************************************************)
Steady(s) == s.steady \in {2, 3} /\ Proper(s.R) /\ Fits(s.R) /\ Brief(s.R)
\* The lines whose HSYNC has ended.
Done(s) == IF s.char >= SyncEnd(s.R) THEN s.lines + 1 ELSE s.lines
\* The lines since the gate array took VSYNC, in this frame or in the one before.
Since(R, n) == IF n >= Begin(R) + 2 THEN n - (Begin(R) + 2) ELSE n - (Begin(R) + 2) + Lines(R)
Delay(R, n) == IF n = Begin(R) THEN 2 ELSE IF n = Begin(R) + 1 THEN 1 ELSE 0
Counting(s, n) ==
  /\ s.lines >= Begin(s.R) => s.hs = Delay(s.R, n)
  /\ s.steady = 3 /\ s.lines < Begin(s.R) => s.hs = 0
  /\ s.calm >= 1 /\ (s.steady = 3 \/ n >= Begin(s.R) + 2) =>
       /\ s.ga = Since(s.R, n) % IntLines
       /\ s.raises = Raised(s.R, s.pri, Since(s.R, n))
  /\ s.steady = 3 /\ s.calm = 3 /\ n >= Begin(s.R) + 2 =>
       s.perFrame = Interrupting(s.R, s.pri)

LEMMA FrameBounds ==
  ASSUME NEW R, Proper(R), Fits(R), Brief(R)
  PROVE  /\ Begin(R) \in Nat /\ Lines(R) \in Nat \ {0} /\ Begin(R) + 2 <= Lines(R)
         /\ Lines(R) <= SlTop /\ SlTop \in Nat /\ SyncMod \in Nat \ {0} /\ SyncMod <= Begin(R)
         /\ R[0] \in Nat /\ SyncEnd(R) \in 1 .. R[0] /\ R[3].hsw \in 0 .. SyncMod - 1
BY Widths, Ranges DEF Proper, Brief

LEMMA CountingIdle ==
  ASSUME NEW s, NEW l, NEW n, Counting(s, n), Unticked(s, l), l.R = s.R, l.lines = s.lines,
         l.steady = s.steady
  PROVE  Counting(l, n)
BY DEF Counting, Unticked

\* A frame begins after the second line or earlier, where little is known.
LEMMA AstrayCounting ==
  ASSUME NEW s \in Counters, Steady(s), Astray(s), NEW n \in Nat, n <= s.lines + 1
  PROVE  Counting(s, n)
<1>1. /\ Begin(s.R) \in Nat /\ SyncMod \in Nat \ {0} /\ SyncMod <= Begin(s.R)
  BY FrameBounds DEF Steady
<1>2. s.lines \in Nat /\ s.lines < SyncMod /\ s.steady = 2
  BY Ranges DEF Astray, Counters
<1>3. ~(s.lines >= Begin(s.R)) /\ s.steady # 3 /\ ~(n >= Begin(s.R) + 2)
  BY <1>1, <1>2
<1> QED BY <1>3 DEF Counting

LEMMA ModLines ==
  ASSUME NEW m \in Nat \ {0}, NEW n \in 0 .. m - 1
  PROVE  n % m = n /\ (n + m) % m = n
OBVIOUS

LEMMA WholeFrame ==
  ASSUME NEW R, NEW pri \in Nat, Begin(R) \in Nat, Lines(R) \in Nat \ {0},
         NEW r, r = Raised(R, pri, Lines(R))
  PROVE  Interrupting(R, pri) =
           IF Lines(R) % IntLines >= Margin /\ pri = 0 THEN r + 1 ELSE r
<1>1. Lines(R) % IntLines \in Nat /\ Margin \in Nat /\ IntLines \in Nat \ {0} /\ Lines(R) \div IntLines \in Nat
  <2> DEFINE m == IntLines
             k == Lines(R)
  <2>1. m \in Nat \ {0} /\ k \in Nat /\ Margin \in Nat
    BY Ranges
  <2> HIDE DEF m, k
  <2>2. k % m \in 0 .. m - 1 /\ k \div m \in Nat
    BY <2>1, DivStep
  <2>3. k % m \in Nat
    BY <2>1, <2>2
  <2> QED BY <2>1, <2>2, <2>3 DEF m, k
<1>2. CASE pri = 0
  <2>1. r = Lines(R) \div IntLines
    BY <1>2 DEF Raised
  <2>2. Interrupting(R, pri) = Lines(R) \div IntLines + (IF Lines(R) % IntLines >= Margin THEN 1 ELSE 0)
    BY <1>2 DEF Interrupting
  <2> QED BY <1>1, <1>2, <2>1, <2>2
<1>3. CASE pri # 0
  <2>1. r = Cardinality({j \in 1 .. Lines(R) : (Begin(R) + 1 + j) % Lines(R) = pri /\ j % IntLines # 0})
    BY <1>3 DEF Raised
  <2>2. Interrupting(R, pri) =
          Cardinality({k \in 1 .. Lines(R) : (R[7] * (R[9] + 1) + 1 + k) % Lines(R) = pri /\ k % IntLines # 0})
    BY <1>3 DEF Interrupting
  <2> QED BY <1>3, <2>1, <2>2 DEF Begin
<1> QED BY <1>2, <1>3

\* An HSYNC ends: the gate array counts a line.
LEMMA CountingTick ==
  ASSUME NEW s \in Counters, NEW l \in Counters, Steady(s), s.lines \in 0 .. Lines(s.R) - 1,
         s.sl = s.lines, Counting(s, s.lines), Ticked(s, l), l.R = s.R, l.lines = s.lines,
         l.steady = s.steady
  PROVE  Counting(l, s.lines + 1)
<1> DEFINE R == s.R
           b == Begin(R)
           L == Lines(R)
           n == s.lines
           k == Since(R, n)
           p == s.pri
           ready == s.steady = 3 \/ n >= b + 2
<1>1. b \in Nat /\ L \in Nat \ {0} /\ b + 2 <= L /\ L <= SlTop /\ SlTop \in Nat
  BY FrameBounds DEF Steady
<1>2. n \in 0 .. L - 1 /\ p \in Nat /\ s.calm \in 0 .. 3 /\ s.hs \in 0 .. 2 /\ n \in Nat
  <2>1. p \in Rasters /\ n \in Nat /\ s.calm \in 0 .. 3 /\ s.hs \in 0 .. 2
    BY DEF Counters
  <2>2. p \in 0 .. SlTop - 1
    BY <2>1, InstructionAssumption
  <2> QED BY <1>1, <2>1, <2>2
<1>3. k = (IF n >= b + 2 THEN n - (b + 2) ELSE n - (b + 2) + L)
  BY DEF Since
<1>4. Since(R, n + 1) = (IF n + 1 >= b + 2 THEN n + 1 - (b + 2) ELSE n + 1 - (b + 2) + L)
  BY <1>1, <1>2 DEF Since
<1>5. /\ n >= b => s.hs = Delay(R, n)
      /\ s.steady = 3 /\ n < b => s.hs = 0
      /\ s.calm >= 1 /\ ready => s.ga = k % IntLines /\ s.raises = Raised(R, p, k)
      /\ s.steady = 3 /\ s.calm = 3 /\ n >= b + 2 => s.perFrame = Interrupting(R, p)
  BY DEF Counting
<1>6. Counting(l, n + 1) <=>
      /\ n >= b => l.hs = Delay(R, n + 1)
      /\ s.steady = 3 /\ n < b => l.hs = 0
      /\ l.calm >= 1 /\ (s.steady = 3 \/ n + 1 >= b + 2) =>
           l.ga = Since(R, n + 1) % IntLines /\ l.raises = Raised(R, p, Since(R, n + 1))
      /\ s.steady = 3 /\ l.calm = 3 /\ n + 1 >= b + 2 => l.perFrame = Interrupting(R, p)
  BY DEF Counting, Ticked
<1>7. Delay(R, n) = (IF n = b THEN 2 ELSE IF n = b + 1 THEN 1 ELSE 0)
      /\ Delay(R, n + 1) = (IF n + 1 = b THEN 2 ELSE IF n + 1 = b + 1 THEN 1 ELSE 0)
  BY DEF Delay
<1>8. s.sl = n /\ l.pri = p
  BY DEF Ticked
<1> HIDE DEF b, L, n, k, p, R
<1>9. k \in 0 .. L - 1 /\ k \in Nat
  BY <1>1, <1>2, <1>3
<1>10. (b + 2 + k) % L = n
  <2>1. b + 2 + k = n \/ b + 2 + k = n + L
    BY <1>1, <1>2, <1>3
  <2>2. n % L = n /\ (n + L) % L = n
    BY <1>1, <1>2, ModLines
  <2> QED BY <2>1, <2>2
<1>11. /\ n # b + 1 => Since(R, n + 1) = k + 1
       /\ n = b + 1 => Since(R, n + 1) = 0 /\ k + 1 = L
  BY <1>1, <1>2, <1>3, <1>4
<1>12. ASSUME s.calm >= 1, ready
       PROVE  Wrapped(s) = (k + 1) % IntLines /\ Tally(s) = Raised(R, p, k + 1)
  <2>1. /\ Raised(R, p, k) \in Nat /\ Raised(R, p, k) <= k
        /\ Raised(R, p, k + 1) =
             IF (IF (k % IntLines) + 1 = IntLines THEN p = 0 ELSE p # 0 /\ (b + 2 + k) % L = p)
             THEN Raised(R, p, k) + 1 ELSE Raised(R, p, k)
    BY <1>1, <1>2, <1>9, OneMoreRaised DEF b, L
  <2>2. (k + 1) % IntLines = (IF (k % IntLines) + 1 = IntLines THEN 0 ELSE (k % IntLines) + 1)
    <3> DEFINE m == IntLines
    <3>1. m \in Nat \ {0}
      BY Ranges
    <3> HIDE DEF m
    <3>2. (k + 1) % m = (IF (k % m) + 1 = m THEN 0 ELSE (k % m) + 1)
      BY <1>9, <3>1, DivStep
    <3> QED BY <3>2 DEF m
  <2>3. s.ga = k % IntLines /\ s.raises = Raised(R, p, k)
    BY <1>5, <1>12
  <2>4. Wrapped(s) = (k + 1) % IntLines
    BY <2>2, <2>3 DEF Wrapped
  <2>5. Asks(s) <=> IF (k % IntLines) + 1 = IntLines THEN p = 0 ELSE p # 0 /\ (b + 2 + k) % L = p
    BY <1>8, <1>10, <2>3 DEF Asks, p
  <2>6. Counted(s.raises) = Raised(R, p, k) + 1
    <3>1. Raised(R, p, k) < SlTop
      BY <1>1, <1>9, <2>1
    <3> QED BY <2>3, <3>1 DEF Counted
  <2>7. Tally(s) = Raised(R, p, k + 1)
    BY <2>1, <2>3, <2>5, <2>6 DEF Tally
  <2> QED BY <2>4, <2>7
<1>13. CASE s.hs = 1
  <2>1. /\ l.ga = 0 /\ l.hs = 0 /\ l.calm = OnceMore(s.calm) /\ l.raises = 0
        /\ s.calm >= 2 => l.perFrame = IF Wrapped(s) >= Margin /\ p = 0
                                       THEN Counted(Tally(s)) ELSE Tally(s)
    BY <1>13 DEF Ticked, p
  <2>2. n >= b => n = b + 1
    BY <1>1, <1>2, <1>5, <1>7, <1>13
  <2>3. s.steady = 3 => n >= b
    BY <1>1, <1>2, <1>5, <1>13
  <2>4. n >= b => l.hs = Delay(R, n + 1)
    BY <1>1, <1>2, <1>7, <2>1, <2>2
  <2>5. s.steady = 3 \/ n + 1 >= b + 2 =>
          l.ga = Since(R, n + 1) % IntLines /\ l.raises = Raised(R, p, Since(R, n + 1))
    <3>1. s.steady = 3 \/ n + 1 >= b + 2 => n = b + 1
      BY <1>1, <1>2, <2>2, <2>3
    <3> QED BY <1>2, <1>11, <2>1, <3>1, NoneRaised
  <2>6. ASSUME s.steady = 3, l.calm = 3 PROVE l.perFrame = Interrupting(R, p)
    <3>1. n = b + 1 /\ k + 1 = L
      BY <1>11, <2>2, <2>3, <2>6
    <3>2. s.calm >= 2 /\ s.calm >= 1
      BY <1>2, <2>1, <2>6 DEF OnceMore
    <3>3. Wrapped(s) = L % IntLines /\ Tally(s) = Raised(R, p, L)
      BY <1>12, <2>6, <3>1, <3>2
    <3>4. Interrupting(R, p) = IF L % IntLines >= Margin /\ p = 0 THEN Raised(R, p, L) + 1 ELSE Raised(R, p, L)
      BY <1>1, <1>2, WholeFrame DEF b, L
    <3>5. p = 0 => Counted(Raised(R, p, L)) = Raised(R, p, L) + 1
      <4> SUFFICES ASSUME p = 0 PROVE Counted(Raised(R, p, L)) = Raised(R, p, L) + 1
        OBVIOUS
      <4> DEFINE m == IntLines
                 q == L \div m
      <4>1. q \in Nat /\ q < SlTop
        <5>1. m \in Nat \ {0} /\ m > 1
          BY Ranges, CounterAssumption
        <5> HIDE DEF m
        <5>2. q \in Nat /\ L = m * q + (L % m) /\ L % m \in 0 .. m - 1
          <6>1. q \in Nat /\ L % m \in 0 .. m - 1
            BY <1>1, <5>1, DivStep
          <6>2. L = m * q + (L % m)
            BY <1>1, <5>1
          <6> QED BY <6>1, <6>2
        <5> HIDE DEF q
        <5>3. m * q >= 2 * q
          BY <5>1, <5>2
        <5>4. m * q \in Nat
          BY <5>1, <5>2
        <5>5. L >= 2 * q
          <6> DEFINE x == L % m
                     y == m * q
          <6>1. x \in Nat /\ y \in Nat /\ y >= 2 * q /\ L = y + x
            BY <1>1, <5>1, <5>2, <5>3, <5>4
          <6> HIDE DEF x, y
          <6> QED BY <1>1, <5>2, <6>1
        <5> QED BY <1>1, <5>2, <5>5
      <4>2. Raised(R, p, L) = q
        BY DEF Raised
      <4> HIDE DEF q
      <4> QED BY <4>1, <4>2 DEF Counted
    <3> QED BY <2>1, <3>2, <3>3, <3>4, <3>5
  <2>7. s.steady = 3 /\ n < b => l.hs = 0
    BY <2>1
  <2> QED BY <1>6, <2>4, <2>5, <2>6, <2>7 DEF n
<1>14. CASE s.hs # 1
  <2>1. /\ l.ga = Wrapped(s) /\ l.hs = (IF s.hs = 0 THEN 0 ELSE s.hs - 1)
        /\ l.calm = s.calm /\ l.perFrame = s.perFrame
        /\ s.calm >= 1 => l.raises = Tally(s)
    BY <1>14 DEF Ticked
  <2>2. n >= b => n # b + 1 /\ l.hs = Delay(R, n + 1)
    BY <1>1, <1>2, <1>5, <1>7, <1>14, <2>1
  <2>3. s.steady = 3 /\ n < b => l.hs = 0
    BY <1>5, <2>1
  <2>4. n # b + 1 /\ (n + 1 >= b + 2 => n >= b + 2)
    BY <1>1, <1>2, <2>2
  <2>5. l.calm >= 1 /\ (s.steady = 3 \/ n + 1 >= b + 2) =>
           l.ga = Since(R, n + 1) % IntLines /\ l.raises = Raised(R, p, Since(R, n + 1))
    BY <1>11, <1>12, <2>1, <2>4
  <2>6. s.steady = 3 /\ l.calm = 3 /\ n + 1 >= b + 2 => l.perFrame = Interrupting(R, p)
    BY <1>5, <2>1, <2>4
  <2> QED BY <1>6, <2>2, <2>3, <2>5, <2>6 DEF n
<1> QED BY <1>13, <1>14

\* A line begins: of the same frame, or the first one of the next.
LEMMA CountingNext ==
  ASSUME NEW s \in Counters, NEW t \in Counters, NEW again \in BOOLEAN, Steady(s),
         s.lines \in 0 .. Lines(s.R) - 1, Counting(s, s.lines + 1), SameGate(s, t), t.R = s.R,
         t.lines = (IF again THEN 0 ELSE s.lines + 1), t.steady = (IF again THEN 3 ELSE s.steady),
         again => s.lines + 1 = Lines(s.R),
         t.hs = (IF ~again /\ s.lines + 1 = Begin(s.R) THEN 2 ELSE s.hs)
  PROVE  Counting(t, t.lines)
<1> DEFINE R == s.R
           b == Begin(R)
           L == Lines(R)
           n == s.lines
           p == s.pri
           m == t.lines
<1>1. b \in Nat /\ L \in Nat \ {0} /\ b + 2 <= L /\ b # 0
  BY FrameBounds DEF Steady
<1>2. n \in 0 .. L - 1
  OBVIOUS
<1>3. /\ n >= b => s.hs = Delay(R, n + 1)
      /\ s.steady = 3 /\ n < b => s.hs = 0
      /\ s.calm >= 1 /\ (s.steady = 3 \/ n + 1 >= b + 2) =>
           s.ga = Since(R, n + 1) % IntLines /\ s.raises = Raised(R, p, Since(R, n + 1))
      /\ s.steady = 3 /\ s.calm = 3 /\ n + 1 >= b + 2 => s.perFrame = Interrupting(R, p)
  BY DEF Counting
<1>4. t.ga = s.ga /\ t.raises = s.raises /\ t.calm = s.calm /\ t.perFrame = s.perFrame /\ t.pri = p
  BY DEF SameGate
<1>5. Counting(t, m) <=>
      /\ m >= b => t.hs = Delay(R, m)
      /\ t.steady = 3 /\ m < b => t.hs = 0
      /\ s.calm >= 1 /\ (t.steady = 3 \/ m >= b + 2) =>
           s.ga = Since(R, m) % IntLines /\ s.raises = Raised(R, p, Since(R, m))
      /\ t.steady = 3 /\ s.calm = 3 /\ m >= b + 2 => s.perFrame = Interrupting(R, p)
  BY <1>4 DEF Counting
<1>6. /\ Delay(R, n + 1) = (IF n + 1 = b THEN 2 ELSE IF n + 1 = b + 1 THEN 1 ELSE 0)
      /\ Delay(R, m) = (IF m = b THEN 2 ELSE IF m = b + 1 THEN 1 ELSE 0)
  BY DEF Delay
<1>7. /\ Since(R, L) = L - (b + 2)
      /\ Since(R, 0) = 0 - (b + 2) + L
  BY <1>1 DEF Since
<1>8. m = (IF again THEN 0 ELSE n + 1) /\ t.hs = (IF ~again /\ n + 1 = b THEN 2 ELSE s.hs)
      /\ (again => n + 1 = L)
  OBVIOUS
<1> HIDE DEF R, b, L, n, p, m
<1>9. CASE again
  <2>1. n + 1 = L /\ m = 0 /\ t.steady = 3 /\ t.hs = s.hs /\ n >= b /\ n + 1 >= b + 2 /\ n + 1 # b + 1
    BY <1>1, <1>2, <1>8, <1>9
  <2>2. t.hs = 0
    BY <1>1, <1>2, <1>3, <1>6, <2>1
  <2>3. Since(R, n + 1) = Since(R, m)
    BY <1>1, <1>7, <2>1
  <2>4. ~(m >= b) /\ ~(m >= b + 2)
    BY <1>1, <2>1
  <2> QED BY <1>3, <1>5, <2>1, <2>2, <2>3, <2>4 DEF m
<1>10. CASE ~again
  <2>1. m = n + 1 /\ t.steady = s.steady /\ t.hs = (IF n + 1 = b THEN 2 ELSE s.hs)
    BY <1>8, <1>10
  <2>2. m >= b => t.hs = Delay(R, m)
    BY <1>1, <1>2, <1>3, <1>6, <2>1
  <2>3. t.steady = 3 /\ m < b => t.hs = 0
    BY <1>1, <1>2, <1>3, <2>1
  <2> QED BY <1>3, <1>5, <2>1, <2>2, <2>3 DEF m
<1> QED BY <1>9, <1>10

\* The line is one of the frame.
LEMMA LinesBelow ==
  ASSUME NEW s \in Counters, Proper(s.R), Regular(s) \/ Adjusting(s)
  PROVE  s.lines \in 0 .. Lines(s.R) - 1
<1> DEFINE a == s.R[4]
           b == s.R[9] + 1
           c == s.R[5]
<1>1. a \in Nat /\ s.R[9] \in Nat /\ b \in Nat \ {0} /\ c \in Nat
  BY Ranges DEF Proper
<1>2. (a + 1) * b = a * b + b /\ a * b \in Nat
  BY <1>1
<1>3. CASE Regular(s)
  <2>1. s.line \in 0 .. a /\ s.raster \in 0 .. s.R[9] /\ s.lines = s.line * b + s.raster
    BY <1>3 DEF Regular, Position
  <2>2. s.line \in Nat /\ s.line <= a
    BY <1>1, <2>1
  <2>3. s.line * b <= a * b /\ s.line * b \in Nat
    BY <1>1, <2>2, Products
  <2>4. Lines(s.R) = a * b + b + c
    BY <1>2 DEF Lines
  <2> DEFINE x == s.line * b
             y == a * b
  <2>5. x \in Nat /\ y \in Nat /\ x <= y /\ s.lines = x + s.raster /\ Lines(s.R) = y + b + c
    BY <1>2, <2>1, <2>3, <2>4
  <2>6. s.raster \in Nat /\ s.raster < b
    BY <1>1, <2>1
  <2> HIDE DEF x, y, a, b, c
  <2> QED BY <1>1, <2>5, <2>6
<1>4. CASE Adjusting(s)
  <2> DEFINE y == (a + 1) * b
  <2>1. s.raster \in 0 .. c - 1 /\ s.lines = y + s.raster /\ Lines(s.R) = y + c /\ y \in Nat
    BY <1>1, <1>2, <1>4 DEF Adjusting, Before, Lines
  <2> HIDE DEF y, c
  <2> QED BY <1>1, <2>1
<1> QED BY <1>3, <1>4

\* A microsecond until a line may begin: where it leads, and what moves the gate array.
LEMMA ThroughHSync ==
  ASSUME NEW s \in Counters, ~Has(s, "newscan"), NEW length \in Int,
         s.char \in 0 .. s.R[0], s.R[0] \in 2 .. CharMod - 1,
         NEW x, x = AtLineEnd(CountChar(MonitorLine(s, length))),
         NEW h, h = HSync(x), NEW l, l = CharInstMR(CharInstSL(h))
  PROVE  /\ x \in Counters /\ h \in Counters /\ l \in Counters /\ Same(s, x) /\ Same(h, l)
         /\ x.R = s.R /\ l.R = s.R /\ x.char = NextChar(s) /\ l.char = x.char
<1> DEFINE c == CountChar(MonitorLine(s, length))
<1>1. /\ c \in Counters /\ SameLines(s, c)
      /\ c.char = IF s.char = s.R[0] THEN 0 ELSE (s.char + 1) % CharMod
  BY CharCounted
<1>2. Same(s, c)
  BY CharSame
<1>3. x = AtLineEnd(c)
  OBVIOUS
<1> HIDE DEF c
<1>4. x \in Counters /\ SameFields(c, x) /\ Same(c, x)
  BY <1>1, <1>3, LineEnded, LineEndSame
<1>5. h \in Counters /\ h.R = x.R /\ h.char = x.char
  BY <1>4, HSyncAlike DEF Alike, SameFrame, SamePlace
<1>6. l \in Counters /\ l.R = h.R /\ l.char = h.char /\ Same(h, l)
  BY <1>5, Delayed, DelayedSame DEF SameLines
<1>7. x.R = s.R /\ x.char = c.char
  BY <1>1, <1>4 DEF SameFields, SamePlace, SameLines
<1>8. Same(s, x)
  BY <1>2, <1>4, SameBoth
<1>9. c.char = NextChar(s)
  <2>1. s.char # s.R[0] => (s.char + 1) % CharMod = s.char + 1
    <3> SUFFICES ASSUME s.char # s.R[0] PROVE (s.char + 1) % CharMod = s.char + 1
      OBVIOUS
    <3> DEFINE y == s.char
               z == s.R[0]
    <3>1. y \in 0 .. CharMod - 1 /\ y + 1 # CharMod /\ CharMod \in Nat \ {0}
      <4>1. y \in 0 .. z /\ y # z /\ z \in 2 .. CharMod - 1 /\ CharMod \in Nat \ {0}
        BY Ranges
      <4> HIDE DEF y, z
      <4> QED BY <4>1
    <3> HIDE DEF y
    <3>2. (y + 1) % CharMod = y + 1
      BY <3>1, WrapsTo
    <3> QED BY <3>2 DEF y
  <2> QED BY <1>1, <2>1 DEF NextChar
<1> QED BY <1>4, <1>5, <1>6, <1>7, <1>8, <1>9

\* What the gate array has counted then, with HSYNC at its place.
LEMMA CountingChar ==
  ASSUME NEW s \in Counters, NEW x \in Counters, NEW h, h = HSync(x), NEW l \in Counters,
         Same(s, x), Same(h, l), x.R = s.R, l.R = s.R, x.char = NextChar(s), l.char = x.char,
         l.lines = s.lines, l.steady = s.steady, s.char \in 0 .. s.R[0],
         Steady(s), InLine(s), Counting(s, Done(s)), s.lines \in 0 .. Lines(s.R) - 1, s.sl = s.lines
  PROVE  /\ InLine(l)
         /\ s.char # s.R[0] => Counting(l, Done(l))
         /\ s.char = s.R[0] => Counting(l, s.lines + 1)
<1> DEFINE e == SyncEnd(s.R)
           z == s.R[0]
           c == s.char
           n == s.lines
<1>1. e \in 1 .. z /\ z \in Nat /\ c \in 0 .. z /\ Brief(s.R) /\ n \in Nat
  BY FrameBounds DEF Steady, Counters
<1>2. /\ InLine(l)
      /\ x.char = e => Ticked(s, l)
      /\ x.char # e => Unticked(s, l)
  BY <1>1, SyncInLine
<1>3. x.char = (IF c = z THEN 0 ELSE c + 1)
  BY DEF NextChar
<1>4. Done(s) = (IF c >= e THEN n + 1 ELSE n) /\ Done(l) = (IF x.char >= e THEN n + 1 ELSE n)
  BY DEF Done
<1>5. CASE x.char = e
  <2>1. c # z /\ ~(c >= e)
    BY <1>1, <1>3, <1>5
  <2>2. Done(s) = n
    BY <1>4, <2>1
  <2>3. Counting(l, n + 1)
    BY <1>2, <1>5, <2>2, CountingTick
  <2>4. x.char >= e
    BY <1>1, <1>5
  <2>5. Done(l) = n + 1
    BY <1>4, <2>4
  <2> QED BY <1>2, <2>1, <2>3, <2>5
<1>6. CASE x.char # e
  <2>1. Counting(l, Done(s))
    BY <1>2, <1>6, CountingIdle
  <2>2. c # z => (x.char >= e <=> c >= e)
    BY <1>1, <1>3, <1>6
  <2>3. c = z => c >= e
    BY <1>1
  <2> QED BY <1>2, <1>4, <2>1, <2>2, <2>3
<1> QED BY <1>5, <1>6

\* Where HSYNC is not at its place, it comes there within the lines that its counter takes.
LEMMA AstrayChar ==
  ASSUME NEW s \in Counters, NEW x \in Counters, NEW h, h = HSync(x), NEW l \in Counters,
         Same(s, x), Same(h, l), x.R = s.R, l.R = s.R, x.char = NextChar(s), l.char = x.char,
         l.lines = s.lines, l.steady = s.steady, s.char \in 0 .. s.R[0],
         Steady(s), ~InLine(s), Astray(s), NEW t, SameGate(l, t), t.R = s.R, t.steady = 2,
         t.char = l.char, t.lines = (IF s.char = s.R[0] THEN s.lines + 1 ELSE s.lines)
  PROVE  Astray(t)
<1> DEFINE R == s.R
           z == R[0]
           c == s.char
           n == s.lines
           on == Has(s, "inHSYNC")
           still == Has(l, "inHSYNC")
           p == CharsLeft(R, s.hsw)
           q == CharsLeft(R, l.hsw)
<1>1. /\ z \in Nat /\ z >= 1 /\ c \in 0 .. z /\ Brief(s.R) /\ n \in Nat
      /\ R[3].hsw \in 0 .. SyncMod - 1 /\ SyncMod \in Nat \ {0}
  BY FrameBounds DEF Steady, Counters
<1>2. on /\ still => q + 1 = p
  BY <1>1, SyncAstray
<1>3. ~on => ~still /\ c # z
  BY <1>1, SyncAstray
<1>4. p \in 1 .. SyncMod /\ q \in 1 .. SyncMod
  <2>1. s.hsw \in 0 .. SyncMod - 1 /\ l.hsw \in 0 .. SyncMod - 1
    BY DEF Counters
  <2> QED BY <1>1, <2>1, LeftInRange
<1>5. n < SyncMod /\ (on => p + n + (IF c > 0 THEN 1 ELSE 0) <= SyncMod)
  BY DEF Astray
<1>6. t.char = (IF c = z THEN 0 ELSE c + 1) /\ t.lines = (IF c = z THEN n + 1 ELSE n)
  BY DEF NextChar
<1>7. Astray(t) <=> t.lines < SyncMod /\ (still => q + t.lines + (IF t.char > 0 THEN 1 ELSE 0) <= SyncMod)
  BY DEF Astray, SameGate
<1> HIDE DEF R, z, c, n, p, q, on, still
<1>8. CASE c = z
  <2>1. c > 0 /\ on
    BY <1>1, <1>3, <1>8
  <2>2. p + n + 1 <= SyncMod
    BY <1>5, <2>1
  <2>3. t.char = 0 /\ t.lines = n + 1
    BY <1>6, <1>8
  <2> QED BY <1>1, <1>2, <1>4, <1>7, <2>1, <2>2, <2>3
<1>9. CASE c # z
  <2>1. t.char = c + 1 /\ t.lines = n /\ t.char > 0
    BY <1>1, <1>6, <1>9
  <2>2. still => on
    BY <1>3
  <2>3. on => p + n <= SyncMod
    BY <1>1, <1>4, <1>5
  <2> QED BY <1>1, <1>2, <1>4, <1>5, <1>7, <2>1, <2>2, <2>3
<1> QED BY <1>8, <1>9

\* A line that begins in a frame whose timing is right.
LEMMA SteadyLine ==
  ASSUME LineMod > 2, NEW s \in Counters, ~Has(s, "newscan"), NEW length \in Int, NEW l,
         l = CharInstMR(CharInstSL(HSync(AtLineEnd(CountChar(MonitorLine(s, length)))))),
         NEW a, a = StartScan(l), NEW b, b = NextRaster(a), NEW w, w = WatchRaster(b),
         NEW d, d = Adjust(w), NEW k, k = CountCharLine(d), NEW t, t = EndScan(k),
         s.char = s.R[0], Framed(s), Framed(t), Synced(s), s.steady \in {2, 3},
         Proper(s.R), Fits(s.R)
  PROVE  /\ t \in Counters /\ t.R = s.R /\ SameGate(l, t)
         /\ t.lines = (IF Again(l) THEN 0 ELSE s.lines + 1)
         /\ t.steady = (IF Again(l) THEN 3 ELSE s.steady)
         /\ Again(l) => s.lines + 1 = Lines(s.R)
         /\ t.hs = (IF ~Again(l) /\ s.lines + 1 = Begin(s.R) THEN 2 ELSE l.hs)
<1>1. /\ l \in Counters /\ SameLines(s, l) /\ SameVSync(s, l) /\ l.lastEnd = s.char
      /\ s.R[0] \in 2 .. CharMod - 1 /\ Aligned(s) => l.reg5 = s.R[5] /\ SameAsked(s, l)
  BY Late
<1>2. s.R[0] \in 2 .. CharMod - 1 /\ Right(s)
  BY DEF Proper, Synced
<1>3. Aligned(s) /\ (Regular(s) \/ Adjusting(s)) /\ s.steady >= 2
  BY <1>2 DEF Framed
<1>4. InPlace(s)
  BY <1>3 DEF Synced
<1> HIDE DEF InPlace
<1>5. /\ t \in Counters /\ Begun(l, t)
      /\ Again(l) => Restarts(l, t)
      /\ ~Again(l) => GoesOn(l, t)
      /\ a \in Counters /\ k \in Counters /\ Widened(l, a)
      /\ Right(l) => IF Again(l) \/ Has(l, "reschar") THEN Matched(a, t.line, k) ELSE SyncKept(a, k)
  BY <1>1, LineScanned
<1>6. a.R = l.R /\ a.lastEnd = l.lastEnd
  BY <1>1, ScanStarted DEF Passes
<1>7. /\ SameGate(l, t)
      /\ ~Has(l, "invsync") /\ Has(k, "invsync") => t.hs = 2
      /\ Has(l, "invsync") \/ ~Has(k, "invsync") => t.hs = l.hs
  BY <1>1, LineGate
<1>8. /\ Right(l)
      /\ l.steady = s.steady /\ l.R = s.R /\ t.R = s.R
      /\ Has(l, "invsync") <=> Has(s, "invsync")
      /\ Has(l, "r7match") <=> Has(s, "r7match")
      /\ Has(a, "invsync") <=> Has(s, "invsync")
      /\ Has(a, "r7match") <=> Has(s, "r7match")
  BY <1>1, <1>2, <1>5 DEF Right, SameLines, SameVSync, Widened, Begun
<1>9. l.reg5 = s.R[5] /\ SameAsked(s, l) /\ (Has(l, "reschar") <=> Has(s, "reschar"))
  BY <1>1, <1>2, <1>3 DEF SameAsked
<1>10. /\ LinesOf(l) = s.lines + 1 /\ t.lines = (IF Again(l) THEN 0 ELSE s.lines + 1)
       /\ (Again(l) \/ Has(s, "reschar")) /\ t.line = s.R[7] /\ s.line # s.R[7]
            <=> ~Again(l) /\ s.lines + 1 = Begin(s.R)
  BY <1>1, <1>2, <1>3, <1>5, <1>9, EntersInPlace
<1>11. t.steady = (IF Again(l) THEN 3 ELSE s.steady)
  <2>1. OnceMore(2) = 3 /\ OnceMore(3) = 3
    BY DEF OnceMore
  <2> QED BY <1>5, <1>8, <2>1 DEF Restarts, GoesOn
<1>12. ASSUME Again(l) PROVE s.lines + 1 = Lines(s.R)
  <2>1. t.frame = LinesOf(l)
    BY <1>3, <1>5, <1>8, <1>12 DEF Restarts
  <2>2. t.steady = 3
    BY <1>11, <1>12
  <2>3. t.frame = Lines(s.R)
    BY <1>8, <2>2 DEF Framed
  <2> QED BY <1>10, <2>1, <2>3
<1>13. ~Again(l) /\ s.lines + 1 = Begin(s.R) => ~Has(s, "invsync")
  <2> SUFFICES ASSUME ~Again(l), s.lines + 1 = Begin(s.R), Has(s, "invsync") PROVE FALSE
    OBVIOUS
  <2> DEFINE n == s.lines
             v == s.vsw
             V == s.R[3].vsw
             B == Begin(s.R)
             left == Left(s.R, v)
  <2>1. B \in Nat /\ SyncMod <= B /\ SyncMod \in Nat \ {0} /\ V \in 0 .. SyncMod - 1
    BY Widths
  <2>2. n \in Nat /\ v \in 0 .. SyncMod - 1 /\ n + 1 = B
    BY DEF Counters
  <2>3. n < B => left + n < SyncMod
    BY <1>4 DEF InPlace
  <2>4. left = (IF v < V THEN V - v ELSE V + SyncMod - v)
    BY DEF Left
  <2> HIDE DEF n, v, V, B, left
  <2>5. left \in Int /\ left >= 1
    BY <2>1, <2>2, <2>4
  <2> QED BY <2>1, <2>2, <2>3, <2>5
<1> DEFINE acts == Again(l) \/ Has(s, "reschar")
           enters == ~Again(l) /\ s.lines + 1 = Begin(s.R)
<1>14. Enters(a, t.line) <=> t.line = s.R[7] /\ s.line # s.R[7]
  <2>1. l.lastEnd >= 2
    BY <1>1, <1>2, Ranges
  <2> QED BY <1>2, <1>6, <1>8, <2>1 DEF Enters, Right
<1>15. Has(k, "invsync") <=> Has(a, "invsync") \/ enters
  <2>1. CASE acts
    <3>1. Matched(a, t.line, k)
      BY <1>5, <1>8, <1>9, <2>1
    <3> QED BY <1>10, <1>14, <2>1, <3>1 DEF Matched
  <2>2. CASE ~acts
    <3>1. SyncKept(a, k)
      BY <1>5, <1>8, <1>9, <2>2
    <3> QED BY <1>10, <2>2, <3>1 DEF SyncKept, SameVSync
  <2> QED BY <2>1, <2>2
<1>16. t.hs = (IF enters THEN 2 ELSE l.hs)
  <2> HIDE DEF acts
  <2>1. enters => ~Has(s, "invsync")
    BY <1>13
  <2> HIDE DEF enters
  <2> QED BY <1>7, <1>8, <1>15, <2>1
<1> QED BY <1>5, <1>7, <1>8, <1>10, <1>11, <1>12, <1>16

\* The invariant.
Paced(s) ==
  /\ s.steady >= 1 => s.sl = s.lines
  /\ Steady(s) => Astray(s) \/ (InLine(s) /\ Counting(s, Done(s)))

LEMMA SteadyFacts ==
  ASSUME NEW s \in Counters, Steady(s), Framed(s), Paced(s)
  PROVE  /\ s.char \in 0 .. s.R[0] /\ s.R[0] \in 2 .. CharMod - 1
         /\ s.lines \in 0 .. Lines(s.R) - 1 /\ s.sl = s.lines
         /\ InLine(s) => Counting(s, Done(s))
         /\ ~InLine(s) => Astray(s)
<1>1. Proper(s.R) /\ s.R[0] \in 2 .. CharMod - 1 /\ s.steady >= 2 /\ s.steady >= 1 /\ s.lines \in Nat
  BY DEF Steady, Proper, Counters
<1>2. Aligned(s) /\ (Regular(s) \/ Adjusting(s)) /\ s.sl = s.lines
  BY <1>1 DEF Framed, Paced
<1>3. s.lines \in 0 .. Lines(s.R) - 1
  BY <1>1, <1>2, LinesBelow
<1>4. Done(s) \in Nat /\ Done(s) <= s.lines + 1
  BY <1>1 DEF Done
<1>5. Astray(s) => Counting(s, Done(s))
  BY <1>4, AstrayCounting
<1> QED BY <1>1, <1>2, <1>3, <1>5 DEF Paced, Aligned

LEMMA SameScanLine ==
  ASSUME NEW s \in Counters, NEW length \in Int,
         NEW l, l = CharInstMR(CharInstSL(HSync(AtLineEnd(CountChar(MonitorLine(s, length))))))
  PROVE  l.sl = s.sl
<1> DEFINE c == CountChar(MonitorLine(s, length))
           x == AtLineEnd(c)
           h == HSync(x)
<1>1. c \in Counters /\ Same(s, c)
  BY CharKept, CharSame DEF Keeps
<1> HIDE DEF c
<1>2. x \in Counters /\ Same(c, x)
  BY <1>1, LineEnded, LineEndSame
<1> HIDE DEF x
<1>3. h \in Counters /\ h.sl = x.sl
  BY <1>2, HSynced DEF Ticked, Unticked
<1>4. l = CharInstMR(CharInstSL(h))
  BY DEF h, x, c
<1> HIDE DEF h
<1>5. Same(h, l)
  BY <1>3, <1>4, DelayedSame
<1> QED BY <1>1, <1>2, <1>3, <1>5 DEF Same, SameScan

LEMMA PacedCycle ==
  ASSUME LineMod > 2, NEW s \in Counters, ~Has(s, "newscan"), NEW length \in Int, NEW t,
         crtc_cycle(s, length, t), Framed(s), Framed(t), Synced(s), Paced(s)
  PROVE  Paced(t)
<1> DEFINE x == AtLineEnd(CountChar(MonitorLine(s, length)))
           h == HSync(x)
           l == CharInstMR(CharInstSL(h))
           a == StartScan(l)
           b == NextRaster(a)
           w == WatchRaster(b)
           d == Adjust(w)
           k == CountCharLine(d)
           e == EndScan(k)
<1>1. t = IF Has(l, "newscan") THEN e ELSE l
  BY DEF crtc_cycle
<1>2. l \in Counters /\ SameLines(s, l) /\ (Has(l, "newscan") <=> s.char = s.R[0])
      /\ (s.char = s.R[0] => l.char = 0)
  BY Late
<1>3. l.sl = s.sl /\ l.steady = s.steady /\ l.lines = s.lines /\ l.R = s.R
  BY <1>2, SameScanLine DEF SameLines
<1>4. s.steady \in 0 .. 3
  BY DEF Counters
<1>5. Steady(s) =>
        /\ x \in Counters /\ h \in Counters /\ Same(s, x) /\ Same(h, l)
        /\ x.R = s.R /\ x.char = NextChar(s) /\ l.char = x.char
        /\ s.char \in 0 .. s.R[0] /\ s.lines \in 0 .. Lines(s.R) - 1 /\ s.sl = s.lines
        /\ InLine(s) => Counting(s, Done(s))
        /\ ~InLine(s) => Astray(s)
  <2> SUFFICES ASSUME Steady(s)
               PROVE  /\ x \in Counters /\ h \in Counters /\ Same(s, x) /\ Same(h, l)
                      /\ x.R = s.R /\ x.char = NextChar(s) /\ l.char = x.char
                      /\ s.char \in 0 .. s.R[0] /\ s.lines \in 0 .. Lines(s.R) - 1 /\ s.sl = s.lines
                      /\ InLine(s) => Counting(s, Done(s))
                      /\ ~InLine(s) => Astray(s)
    OBVIOUS
  <2>1. /\ s.char \in 0 .. s.R[0] /\ s.R[0] \in 2 .. CharMod - 1
        /\ s.lines \in 0 .. Lines(s.R) - 1 /\ s.sl = s.lines
        /\ InLine(s) => Counting(s, Done(s))
        /\ ~InLine(s) => Astray(s)
    BY SteadyFacts
  <2> QED BY <2>1, ThroughHSync
<1>6. Steady(s) /\ InLine(s) =>
        /\ InLine(l)
        /\ s.char # s.R[0] => Counting(l, Done(l))
        /\ s.char = s.R[0] => Counting(l, s.lines + 1)
  <2> HIDE DEF x, l
  <2> QED BY <1>2, <1>3, <1>5, CountingChar DEF h
<1>7. ASSUME Steady(s), ~InLine(s), SameGate(l, t), t.R = s.R, t.steady = 2, t.char = l.char,
             t.lines = (IF s.char = s.R[0] THEN s.lines + 1 ELSE s.lines)
      PROVE  Astray(t)
  <2> HIDE DEF x, l
  <2> QED BY <1>2, <1>3, <1>5, <1>7, AstrayChar DEF h
<1>8. CASE s.char # s.R[0]
  <2>1. t = l
    BY <1>1, <1>2, <1>8
  <2> HIDE DEF x, h, l
  <2>2. t.steady >= 1 => t.sl = t.lines
    BY <1>3, <2>1 DEF Paced
  <2>3. ASSUME Steady(t) PROVE Astray(t) \/ (InLine(t) /\ Counting(t, Done(t)))
    <3>1. Steady(s)
      BY <1>3, <2>1, <2>3 DEF Steady
    <3>2. CASE InLine(s)
      BY <1>6, <1>8, <2>1, <3>1, <3>2
    <3>3. CASE ~InLine(s)
      <4>1. SameGate(l, t) /\ t.R = s.R /\ t.char = l.char /\ t.lines = s.lines
        BY <1>3, <2>1 DEF SameGate
      <4>2. t.steady = 2
        BY <1>3, <1>5, <2>1, <3>1, <3>3 DEF Astray
      <4> QED BY <1>7, <1>8, <3>1, <3>3, <4>1, <4>2
    <3> QED BY <3>2, <3>3
  <2> QED BY <2>2, <2>3 DEF Paced
<1>9. CASE s.char = s.R[0]
  <2>1. t = e
    BY <1>1, <1>2, <1>9
  <2>2. l = CharInstMR(CharInstSL(HSync(AtLineEnd(CountChar(MonitorLine(s, length))))))
    OBVIOUS
  <2> HIDE DEF x, h, l
  <2>3. /\ t \in Counters /\ Begun(l, t)
        /\ Again(l) => Restarts(l, t)
        /\ ~Again(l) => GoesOn(l, t)
    BY <1>2, <2>1, LineScanned
  <2>4. /\ SameGate(l, t)
        /\ \/ t.sl = Counted(l.sl) /\ t.steady = l.steady
              /\ t.lines = (IF l.steady = 0 THEN 0 ELSE Counted(l.lines))
           \/ t.sl = 0 /\ t.lines = 0
    BY <1>2, <2>1, LineGate
  <2>5. ASSUME s.steady \in {2, 3}, Proper(s.R), Fits(s.R)
        PROVE  /\ t \in Counters /\ t.R = s.R /\ SameGate(l, t)
               /\ t.lines = (IF Again(l) THEN 0 ELSE s.lines + 1)
               /\ t.steady = (IF Again(l) THEN 3 ELSE s.steady)
               /\ Again(l) => s.lines + 1 = Lines(s.R)
               /\ t.hs = (IF ~Again(l) /\ s.lines + 1 = Begin(s.R) THEN 2 ELSE l.hs)
    BY <1>9, <2>1, <2>2, <2>5, SteadyLine
  <2> HIDE DEF a, b, w, d, k, e
  <2>6. t.R = s.R /\ t.char = 0 /\ t.char = l.char
    BY <1>2, <1>3, <1>9, <2>3 DEF Begun
  <2>7. t.steady >= 1 => t.sl = t.lines
    <3> SUFFICES ASSUME t.steady >= 1, t.sl = Counted(l.sl), t.steady = l.steady,
                        t.lines = (IF l.steady = 0 THEN 0 ELSE Counted(l.lines))
                 PROVE  t.sl = t.lines
      BY <2>4
    <3>1. s.steady >= 1 /\ l.steady # 0
      BY <1>3, <1>4
    <3>2. l.sl = l.lines
      BY <1>3, <3>1 DEF Paced
    <3> QED BY <3>1, <3>2
  <2>8. ASSUME Steady(t) PROVE Astray(t) \/ (InLine(t) /\ Counting(t, Done(t)))
    <3>1. Proper(s.R) /\ Fits(s.R) /\ Brief(s.R) /\ t.steady \in {2, 3}
      BY <2>6, <2>8 DEF Steady
    <3>2. s.steady \in {1, 2, 3}
      <4>1. OnceMore(0) = 1
        BY DEF OnceMore
      <4>2. s.steady = 0 => t.steady \in {0, 1}
        BY <1>3, <2>3, <4>1 DEF Restarts, GoesOn
      <4> QED BY <1>4, <3>1, <4>2
    <3>3. CASE s.steady = 1
      <4>1. OnceMore(1) = 2
        BY DEF OnceMore
      <4>2. Again(l) /\ t.steady = 2 /\ t.lines = 0
        BY <1>3, <2>3, <3>1, <3>3, <4>1 DEF Restarts, GoesOn
      <4>3. SyncMod \in Nat \ {0} /\ t.hsw \in 0 .. SyncMod - 1 /\ t.R[3].hsw \in 0 .. SyncMod - 1
        BY <2>3, <2>6, <3>1, FrameBounds DEF Counters
      <4>4. CharsLeft(t.R, t.hsw) \in 1 .. SyncMod
        BY <4>3, LeftInRange
      <4>5. CharsLeft(t.R, t.hsw) + t.lines + (IF t.char > 0 THEN 1 ELSE 0) <= SyncMod
        BY <2>6, <4>2, <4>3, <4>4
      <4>6. t.lines < SyncMod
        BY <4>2, <4>3
      <4> QED BY <4>2, <4>5, <4>6 DEF Astray
    <3>4. CASE s.steady \in {2, 3}
      <4>1. Steady(s)
        BY <3>1, <3>4 DEF Steady
      <4>2. /\ SameGate(l, t)
            /\ t.lines = (IF Again(l) THEN 0 ELSE s.lines + 1)
            /\ t.steady = (IF Again(l) THEN 3 ELSE s.steady)
            /\ Again(l) => s.lines + 1 = Lines(s.R)
            /\ t.hs = (IF ~Again(l) /\ s.lines + 1 = Begin(s.R) THEN 2 ELSE l.hs)
        BY <2>5, <3>1, <3>4
      <4>3. CASE InLine(s)
        <5>1. InLine(l) /\ Counting(l, l.lines + 1)
          BY <1>3, <1>6, <1>9, <4>1, <4>3
        <5>2. InLine(t)
          BY <1>3, <2>6, <4>2, <5>1 DEF InLine, SameGate
        <5>3. Steady(l) /\ l.lines \in 0 .. Lines(l.R) - 1
          BY <1>3, <1>5, <4>1 DEF Steady
        <5> DEFINE again == Again(l)
        <5>4. again \in BOOLEAN
          BY DEF Again, Has
        <5>5. /\ t.lines = (IF again THEN 0 ELSE l.lines + 1)
              /\ t.steady = (IF again THEN 3 ELSE l.steady)
              /\ again => l.lines + 1 = Lines(l.R)
              /\ t.hs = (IF ~again /\ l.lines + 1 = Begin(l.R) THEN 2 ELSE l.hs)
              /\ t.R = l.R
          BY <1>3, <2>6, <4>2
        <5> HIDE DEF again
        <5>6. Counting(t, t.lines)
          BY <1>2, <2>3, <4>2, <5>1, <5>3, <5>4, <5>5, CountingNext
        <5>7. Done(t) = t.lines
          <6>1. SyncEnd(t.R) \in 1 .. t.R[0] /\ t.R[0] \in Nat
            BY <2>6, <3>1, FrameBounds
          <6>2. ~(t.char >= SyncEnd(t.R))
            BY <2>6, <6>1
          <6> QED BY <6>2 DEF Done
        <5> QED BY <5>2, <5>6, <5>7
      <4>4. CASE ~InLine(s)
        <5>1. Astray(s)
          BY <1>5, <4>1, <4>4
        <5>2. s.steady = 2 /\ s.lines < SyncMod
          BY <5>1 DEF Astray
        <5>3. ~Again(l)
          <6>1. SyncMod <= Begin(s.R) /\ Begin(s.R) \in Nat /\ Begin(s.R) + 2 <= Lines(s.R)
                /\ Lines(s.R) \in Nat /\ SyncMod \in Nat /\ s.lines \in Nat
            BY <3>1, FrameBounds DEF Counters
          <6>2. s.lines + 1 # Lines(s.R)
            BY <5>2, <6>1
          <6> QED BY <4>2, <6>2
        <5>4. t.steady = 2 /\ t.lines = s.lines + 1
          BY <4>2, <5>2, <5>3
        <5> QED BY <1>7, <1>9, <2>6, <4>1, <4>2, <4>4, <5>4
      <4> QED BY <4>3, <4>4
    <3> QED BY <3>2, <3>3, <3>4
  <2> QED BY <2>7, <2>8 DEF Paced
<1> QED BY <1>8, <1>9

\* Everything but crtc_cycle leaves the counting alone, starts it again or disturbs it.
Rests(s, t) ==
  /\ t.R = s.R /\ t.char = s.char /\ t.steady = s.steady /\ t.lines = s.lines /\ t.sl = s.sl
  /\ t.hs = s.hs /\ t.hsw = s.hsw /\ (Has(t, "inHSYNC") <=> Has(s, "inHSYNC"))
  /\ \/ t.ga = s.ga /\ t.calm = s.calm /\ t.raises = s.raises /\ t.perFrame = s.perFrame
        /\ t.pri = s.pri
     \/ t.calm = 0

LEMMA RestsPaced == ASSUME NEW s, NEW t, Rests(s, t), Paced(s) PROVE Paced(t)
<1>1. (Steady(t) <=> Steady(s)) /\ Done(t) = Done(s)
  BY DEF Rests, Steady, Done
<1>2. (InLine(s) => InLine(t)) /\ (Astray(s) => Astray(t))
  BY DEF Rests, InLine, Astray
<1>3. Counting(s, Done(s)) => Counting(t, Done(t))
  <2> DEFINE n == Done(s)
  <2>1. Done(t) = n
    BY <1>1
  <2> HIDE DEF n
  <2>2. Counting(s, n) => Counting(t, n)
    BY DEF Rests, Counting
  <2> QED BY <2>1, <2>2 DEF n
<1> QED BY <1>1, <1>2, <1>3 DEF Paced, Rests

LEMMA Recounted ==
  ASSUME NEW s \in Counters
  PROVE  Recount(s) \in Counters /\ Rests(s, Recount(s)) /\ Recount(s).calm = 0
BY RecountKept DEF Keeps, Rests, Recount, Counters, Has

LEMMA GateEffects ==
  ASSUME IInv, [Next]_vars
  PROVE  \/ \E n \in Int : crtc_cycle(crtc, n, crtc')
         \/ Rests(crtc, crtc')
         \/ Disturbed(crtc, crtc')
<1>1. crtc \in Counters /\ cpu \in Processor /\ crtc' \in Counters
  BY Steps DEF IInv
<1>2. CASE UNCHANGED crtc
  BY <1>2 DEF Rests
<1>3. CASE Microsecond
  BY <1>3, Lengths DEF Microsecond
<1>4. CASE \E op \in Instructions, n \in Times : Execute(op, n)
  <2>1. PICK op \in Instructions, n \in Times : Execute(op, n)
    BY <1>4
  <2>2. CASE op[1] # "raster"
    BY <1>2, <2>1, <2>2 DEF Execute
  <2>3. CASE op[1] = "raster"
    <3> DEFINE q == Recount(crtc)
               line == op[2]
    <3>1. crtc' = [q EXCEPT !.pri = line]
      BY <2>1, <2>3 DEF Execute
    <3>2. q \in Counters /\ Rests(crtc, q) /\ q.calm = 0
      BY <1>1, Recounted
    <3> HIDE DEF q, line
    <3>3. /\ (crtc').R = q.R /\ (crtc').char = q.char /\ (crtc').steady = q.steady
          /\ (crtc').lines = q.lines /\ (crtc').sl = q.sl /\ (crtc').hs = q.hs
          /\ (crtc').hsw = q.hsw /\ (crtc').flags = q.flags /\ (crtc').calm = 0
      BY <3>1, <3>2 DEF Counters
    <3> QED BY <3>2, <3>3 DEF Rests, Has
  <2> QED BY <2>2, <2>3
<1>5. CASE OutRegister
  <2>1. cpu.todo \in {<<"fetch">>, <<"end">>} \cup Ports /\ cpu.todo[1] = "register"
    BY <1>1, <1>5 DEF Processor, OutRegister, At
  <2>2. PICK w \in Writes : cpu.todo = <<"register", w[1], w[2]>>
    BY <2>1 DEF Ports
  <2>3. crtc' = WriteRegister(crtc, w[1], w[2])
    BY <1>5, <2>2 DEF OutRegister
  <2>4. w[1] \in DOMAIN Firmware /\ w[2] \in RegisterValues
    BY RegistersTyped
  <2> QED BY <1>1, <2>3, <2>4, WriteDisturbs
<1>6. ASSUME NEW q \in Counters, Rests(crtc, q), NEW p, NEW g, g = q.ga \/ q.calm = 0,
             crtc' = [q EXCEPT !.pending = p, !.ga = g]
      PROVE  Rests(crtc, crtc')
  <2>1. /\ (crtc').R = q.R /\ (crtc').char = q.char /\ (crtc').steady = q.steady
        /\ (crtc').lines = q.lines /\ (crtc').sl = q.sl /\ (crtc').hs = q.hs
        /\ (crtc').hsw = q.hsw /\ (crtc').flags = q.flags /\ (crtc').calm = q.calm
        /\ (crtc').raises = q.raises /\ (crtc').perFrame = q.perFrame /\ (crtc').pri = q.pri
        /\ (crtc').ga = g
    BY <1>6 DEF Counters
  <2> QED BY <1>6, <2>1 DEF Rests, Has
<1>7. CASE OutDelay
  <2>1. crtc' = [Recount(crtc) EXCEPT !.pending = FALSE, !.ga = 0]
    BY <1>7 DEF OutDelay
  <2> QED BY <1>1, <1>6, <2>1, Recounted
<1>8. CASE EndInstruction
  <2>1. CASE \E c : Acknowledge(c)
    <3> DEFINE q == IF crtc.ga < Margin THEN crtc ELSE Recount(crtc)
               g == q.ga % Margin
    <3>1. q \in Counters /\ Rests(crtc, q)
      <4>1. Rests(crtc, crtc)
        BY DEF Rests
      <4> QED BY <1>1, <4>1, Recounted
    <3>2. crtc' = [q EXCEPT !.pending = FALSE, !.ga = g]
      BY <2>1 DEF Acknowledge
    <3>3. g = q.ga \/ q.calm = 0
      <4>1. CASE crtc.ga < Margin
        <5>1. q = crtc /\ crtc.ga \in 0 .. Margin - 1 /\ Margin \in Nat \ {0}
          BY <1>1, <4>1, Ranges DEF Counters
        <5> DEFINE y == crtc.ga
        <5>2. y \in 0 .. Margin - 1
          BY <5>1
        <5> HIDE DEF y
        <5>3. y % Margin = y
          BY <5>1, <5>2, ModLines
        <5> QED BY <5>1, <5>3 DEF y
      <4>2. CASE ~(crtc.ga < Margin)
        BY <1>1, <4>2, Recounted
      <4> QED BY <4>1, <4>2
    <3> HIDE DEF q, g
    <3> QED BY <1>6, <3>1, <3>2, <3>3
  <2> QED BY <1>2, <1>8, <2>1 DEF EndInstruction
<1>9. CASE ShowFrame
  <2>1. crtc' = [crtc EXCEPT !.done = FALSE]
    BY <1>9 DEF ShowFrame
  <2> QED BY <1>1, <2>1 DEF Rests, Counters, Has
<1>10. CASE emulator_reset
  BY <1>10, ResetDisturbs DEF emulator_reset
<1>11. CASE UNCHANGED vars
  BY <1>2, <1>11 DEF vars
<1> QED BY <1>3, <1>4, <1>5, <1>7, <1>8, <1>9, <1>10, <1>11 DEF Next

PacedInv == Paced(crtc)

LEMMA DisturbedPaced == ASSUME NEW s, NEW t, Disturbed(s, t) PROVE Paced(t)
BY DEF Disturbed, Paced, Steady

LEMMA PacedInitially == ASSUME Init PROVE PacedInv
<1>1. PICK n \in Beam : crtc = ResetCRTC([flags |-> {}], Firmware, n)
  BY DEF Init
<1> QED BY <1>1, ResetDisturbs, DisturbedPaced DEF PacedInv

LEMMA PacedKept ==
  ASSUME LineMod > 2, IInv, TimedInv, PacedInv, [Next]_vars
  PROVE  PacedInv'
<1>1. crtc \in Counters /\ ~Has(crtc, "newscan") /\ Framed(crtc) /\ Synced(crtc) /\ Paced(crtc)
  BY DEF IInv, TimedInv, PacedInv, Has
<1>2. Framed(crtc')
  BY TimedKept DEF TimedInv
<1>3. CASE \E n \in Int : crtc_cycle(crtc, n, crtc')
  <2>1. PICK n \in Int : crtc_cycle(crtc, n, crtc')
    BY <1>3
  <2>2. Paced(crtc')
    BY <1>1, <1>2, <2>1, PacedCycle
  <2> QED BY <2>2 DEF PacedInv
<1>4. CASE Rests(crtc, crtc')
  <2>1. Paced(crtc')
    BY <1>1, <1>4, RestsPaced
  <2> QED BY <2>1 DEF PacedInv
<1>5. CASE Disturbed(crtc, crtc')
  <2>1. Paced(crtc')
    BY <1>5, DisturbedPaced
  <2> QED BY <2>1 DEF PacedInv
<1> QED BY <1>3, <1>4, <1>5, GateEffects

(***************************************************************************)
(* Once neither registers, raster line nor interrupt counter have been     *)
(* disturbed for three VSYNCs, every count that the gate array takes at a  *)
(* VSYNC of such a frame is the number of interrupts that the registers    *)
(* and the raster line ask for, whenever the CPU accepts them: crtc_cycle  *)
(* puts HSYNC and VSYNC in their places, match_hsw counts each line once,  *)
(* takes VSYNC two lines late, and an acknowledgement below the margin     *)
(* leaves its counter alone.  Register 3 lets HSYNC end within its line.   *)
(***************************************************************************)
THEOREM InterruptsCounted ==
  ASSUME LineMod > 2
  PROVE  Spec => [](Proper(crtc.R) /\ Fits(crtc.R) /\ Brief(crtc.R)
                      /\ Done(crtc) >= Begin(crtc.R) + 2 => InterruptsPerFrame)
<1> DEFINE Taken == Proper(crtc.R) /\ Fits(crtc.R) /\ Brief(crtc.R)
                      /\ Done(crtc) >= Begin(crtc.R) + 2
<1>1. Init => IInv /\ TimedInv /\ PacedInv
  BY Initial, TimedInitially, PacedInitially
<1>2. (IInv /\ TimedInv /\ PacedInv) /\ [Next]_vars => (IInv /\ TimedInv /\ PacedInv)'
  BY Steps, TimedKept, PacedKept
<1>3. IInv /\ TimedInv /\ PacedInv => (Taken => InterruptsPerFrame)
  <2> SUFFICES ASSUME IInv, TimedInv, PacedInv, Taken, crtc.steady = 3, crtc.calm = 3
               PROVE  crtc.perFrame = Interrupting(crtc.R, crtc.pri)
    BY DEF InterruptsPerFrame
  <2>1. Steady(crtc)
    BY DEF Steady
  <2>2. Counting(crtc, Done(crtc))
    <3>1. crtc \in Counters /\ crtc.steady # 2
      BY DEF IInv
    <3> QED BY <2>1, <3>1 DEF PacedInv, Paced, Astray
  <2> QED BY <2>2 DEF Counting
<1> HIDE DEF Taken
<1>4. Spec => [](Taken => InterruptsPerFrame)
  BY <1>1, <1>2, <1>3, PTL DEF Spec
<1> QED BY <1>4 DEF Taken
=============================================================================
