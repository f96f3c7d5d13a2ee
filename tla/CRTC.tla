-------------------------------- MODULE CRTC --------------------------------
(***************************************************************************)
(* The display timing of cap32/crtc.c: one call of crtc_cycle per          *)
(* microsecond counts characters, raster lines and character lines, makes  *)
(* HSYNC and VSYNC, and drives the interrupt counter of the gate array,    *)
(* which watches both.  The program may write the registers at any         *)
(* microsecond (z80_OUT_handler in cap32.c).                               *)
(*                                                                         *)
(* The operators transform a record s that holds t_CRTC, the counters of   *)
(* the gate array and z80.int_pending; what is drawn (addresses, display   *)
(* enable, modes, colours) is left out.  The boolean fields of t_CRTC are  *)
(* members of the set s.flags, under their name without "flag_".           *)
(***************************************************************************)
EXTENDS Integers, FiniteSets

CONSTANTS
  CharMod, LineMod, RasterMod,   \* 256, 128 and 32: the counters wrap there
  SyncMod,      \* 16: both sync width counters wrap there
  IntLines,     \* 52: HSYNCs from one interrupt to the next
  Margin,       \* 32: the bit of the interrupt counter that guards its distance
  MinVSync, MaxVSync,  \* monitor lines a frame has at least, and at most without VSYNC
  SlTop         \* bound: scan lines are told apart below it, above every raster line

ASSUME CounterAssumption ==
  /\ {CharMod, LineMod, RasterMod, SyncMod, IntLines, Margin,
      MinVSync, MaxVSync, SlTop} \subseteq Nat \ {0}
  /\ Margin < IntLines /\ MinVSync < MaxVSync

Has(s, flag) == flag \in s.flags
Set(s, flag) == [s EXCEPT !.flags = @ \cup {flag}]
Clear(s, flag) == [s EXCEPT !.flags = @ \ {flag}]
Put(s, flag, value) == IF value THEN Set(s, flag) ELSE Clear(s, flag)
Counted(n) == IF n < SlTop THEN n + 1 ELSE n
OnceMore(n) == IF n < 3 THEN n + 1 ELSE n   \* since the last disturbance, as far as 3

(***************************************************************************)
(* VSYNC and frames                                                        *)
(***************************************************************************)
EnterVSync(s) ==
  LET t == Clear(s, "resvsync")
  IN IF Has(t, "invsync") THEN t ELSE [Set(t, "invsync") EXCEPT !.vsw = 0, !.hs = 2]

match_line_count(s) ==
  IF s.line # s.R[7] THEN Clear(s, "r7match")
  ELSE Set(IF s.lastEnd >= 2 /\ ~Has(s, "r7match") THEN EnterVSync(s) ELSE s, "r7match")

FrameFlags == {"invta", "resframe", "resscan", "reschar"}
restart_frame(s) ==
  match_line_count([s EXCEPT !.flags = @ \ FrameFlags, !.raster = 0, !.line = 0, !.sl = 0,
                             !.frame = IF s.steady >= 2 THEN s.lines ELSE 0, !.lines = 0,
                             !.steady = OnceMore(@)])

(***************************************************************************)
(* The gate array at the end of an HSYNC.  hs counts the two HSYNCs by     *)
(* which it delays VSYNC; raises and perFrame only count interrupts.       *)
(***************************************************************************)
\* The count per frame starts again: something moved the gate array's counter.
Recount(s) == [s EXCEPT !.calm = 0, !.raises = 0, !.perFrame = 0]
Raise(s, on) == IF on THEN [s EXCEPT !.pending = TRUE, !.raises = IF s.calm = 0 THEN 0 ELSE Counted(@)] ELSE s

CountLine_Above(s) ==                                                  \* mutant
  IF s.ga = IntLines THEN Raise([s EXCEPT !.ga = 0], s.pri = 0)
  ELSE Raise([s EXCEPT !.ga = @ + 1], s.pri # 0 /\ s.sl = s.pri)
CountLine(s) ==
  LET n == s.ga + 1
  IN IF n = IntLines THEN Raise([s EXCEPT !.ga = 0], s.pri = 0)
     ELSE Raise([s EXCEPT !.ga = n], s.pri # 0 /\ s.sl = s.pri)

DelayedVSync_Above(s) ==                                               \* mutant
  IF s.hs = 0 THEN s
  ELSE LET t == [s EXCEPT !.hs = @ - 1]
       IN IF t.hs # 0 THEN t
          ELSE LET u == Raise(t, t.ga > Margin /\ t.pri = 0)
               IN [u EXCEPT !.ga = 0, !.perFrame = IF u.calm >= 2 THEN u.raises ELSE 0, !.raises = 0,
                            !.calm = OnceMore(@)]
DelayedVSync(s) ==
  IF s.hs = 0 THEN s
  ELSE LET t == [s EXCEPT !.hs = @ - 1]
       IN IF t.hs # 0 THEN t
          ELSE LET u == Raise(t, t.ga >= Margin /\ t.pri = 0)
               IN [u EXCEPT !.ga = 0, !.perFrame = IF u.calm >= 2 THEN u.raises ELSE 0, !.raises = 0,
                            !.calm = OnceMore(@)]

match_hsw(s) ==
  IF s.hsw = s.R[3].hsw THEN Clear(DelayedVSync(CountLine(s)), "inHSYNC")
  ELSE [s EXCEPT !.hsw = (@ + 1) % SyncMod]

HSync(s) ==
  IF Has(s, "inHSYNC") THEN match_hsw(s)
  ELSE IF s.char = s.R[2] THEN match_hsw([Set(s, "inHSYNC") EXCEPT !.hsw = 0])
  ELSE s

(***************************************************************************)
(* Characters and lines                                                    *)
(***************************************************************************)
CountChar(s) ==
  IF s.char = s.R[0] THEN [Set(s, "newscan") EXCEPT !.lastEnd = s.char, !.char = 0]
  ELSE [s EXCEPT !.char = (@ + 1) % CharMod]

LastRaster(s) == s.raster = s.R[9]
LastLine(s) == LastRaster(s) /\ s.line = s.R[4]

\* At the last character of a line the pending requests take effect.
AtLineEnd(s) ==
  IF s.char # s.R[0] THEN s
  ELSE LET frame == Has(s, "resframe") \/ Has(s, "resnext")
           adjust == Has(s, "invta") \/ Has(s, "startvta")
           t == Put(Put(Put(s, "reschar", LastRaster(s)), "resframe", frame), "invta", adjust)
           u == [t EXCEPT !.flags = @ \ {"resnext", "startvta"}]
       IN IF adjust THEN Put(u, "resscan", LastLine(s)) ELSE u

\* The two functions that act one and two characters after a line has begun.
CharInstSL(s) ==
  CASE s.instSL = 1 -> [s EXCEPT !.instSL = 2]
    [] s.instSL = 2 -> [s EXCEPT !.instSL = 0, !.reg5 = s.R[5]]
    [] s.instSL = 0 -> s
CharMR1(s) ==
  [(IF LastLine(s) THEN Set(Clear(s, "invta"), "startvta") ELSE Clear(s, "startvta"))
     EXCEPT !.instMR = 2]
CharMR2_Always(s) ==                                                   \* mutant
  [Put(s, "resnext", Has(s, "resnext") \/ (Has(s, "startvta") /\ s.line = s.R[4])) EXCEPT !.instMR = 0]
CharMR2(s) ==
  [Put(s, "resnext", Has(s, "resnext") \/ (Has(s, "startvta") /\ s.line = s.R[4] /\ s.R[5] = 0))
     EXCEPT !.instMR = 0]
CharInstMR(s) ==
  CASE s.instMR = 1 -> CharMR1(s) [] s.instMR = 2 -> CharMR2(s) [] s.instMR = 0 -> s

CountVSync_Short(s) ==                                                 \* mutant
  IF ~Has(s, "invsync") THEN s
  ELSE IF s.vsw = s.R[3].vsw THEN [Set(s, "resvsync") EXCEPT !.vsw = 0]
  ELSE [s EXCEPT !.vsw = (@ + 1) % SyncMod]
CountVSync(s) ==
  IF ~Has(s, "invsync") THEN s
  ELSE LET n == (s.vsw + 1) % SyncMod
       IN IF n = s.R[3].vsw THEN [Set(s, "resvsync") EXCEPT !.vsw = 0] ELSE [s EXCEPT !.vsw = n]

CountRaster(s) ==
  IF Has(s, "resscan") THEN [Clear(s, "resscan") EXCEPT !.raster = 0]
  ELSE LET t == [s EXCEPT !.raster = (@ + 1) % RasterMod]
       IN IF t.raster = 0 THEN match_line_count(t) ELSE t

WatchRaster(s) ==
  LET t == [s EXCEPT !.instSL = 1]
  IN IF LastRaster(t)
     THEN [t EXCEPT !.flags = @ \cup {"resscan", "r9match"}, !.instMR = 1]
     ELSE Clear(t, "r9match")

Adjust(s) ==
  IF Has(s, "invta") /\ s.raster = s.reg5
  THEN LET t == restart_frame(s) IN IF t.R[9] = 0 THEN Set(t, "resscan") ELSE t
  ELSE s

CountCharLine(s) ==
  IF Has(s, "reschar") THEN match_line_count([s EXCEPT !.line = (@ + 1) % LineMod]) ELSE s

(***************************************************************************)
(* The monitor.  It takes a line of its own; a frame is finished when      *)
(* VSYNC comes late enough, or without VSYNC at the last monitor line.     *)
(***************************************************************************)
MonitorLine(s, length) ==
  IF s.beam = 1 THEN [s EXCEPT !.beam = length, !.scanline = @ + 1] ELSE [s EXCEPT !.beam = @ - 1]

frame_finished_Quiet(s) == [s EXCEPT !.scanline = 0]                   \* mutant
frame_finished(s) == [s EXCEPT !.done = TRUE, !.scanline = 0]

\* held counts the lines of VSYNC, vsync those of the last one.
EndScan(s) ==
  LET vsync == Has(s, "invsync")
      over  == vsync /\ Has(s, "resvsync")
      t == IF over THEN [s EXCEPT !.flags = @ \ {"invsync", "resvsync"}, !.vsync = IF s.steady >= 2 THEN s.held ELSE 0, !.held = 0]
           ELSE [s EXCEPT !.held = IF vsync /\ s.steady > 0 THEN Counted(@) ELSE 0]
  IN IF s.scanline = MaxVSync /\ (over \/ ~vsync) THEN frame_finished(t)
     ELSE IF s.scanline > MinVSync /\ vsync /\ ~over THEN frame_finished(t)
     ELSE t

StartScan(s) ==
  CountVSync([Clear(s, "newscan") EXCEPT !.sl = Counted(@),
                                         !.lines = IF s.steady = 0 THEN 0 ELSE Counted(@)])
NextRaster(s) == IF Has(s, "resframe") THEN restart_frame(s) ELSE CountRaster(s)

\* t is what crtc_cycle makes of s, named stage by stage.
crtc_cycle(s, length, t) ==
  \E char \in {CountChar(MonitorLine(s, length))} : \E sync \in {HSync(AtLineEnd(char))} :
  \E late \in {CharInstMR(CharInstSL(sync))} :
    IF Has(late, "newscan")
    THEN \E scan \in {NextRaster(StartScan(late))} : \E line \in {Adjust(WatchRaster(scan))} :
           t = EndScan(CountCharLine(line))
    ELSE t = late

(***************************************************************************)
(* Register writes, with what z80_OUT_handler does at once                 *)
(***************************************************************************)
WriteR4(s) ==
  IF s.instMR = 2 /\ LastLine(s) THEN Set(s, "startvta") ELSE s
WriteR7(s) ==
  IF s.line # s.R[7] THEN Clear(s, "r7match")
  ELSE IF Has(s, "r7match") THEN s
  ELSE Set(IF s.char >= 2 THEN EnterVSync(s) ELSE s, "r7match")
WriteR9(s) ==
  IF LastRaster(s)
  THEN LET t == [s EXCEPT !.instMR = IF Has(s, "r9match") THEN @ ELSE 1]
           u == [t EXCEPT !.flags = @ \cup {"resscan", "r9match"}]
       IN IF s.char = s.R[0] THEN Set(u, "reschar") ELSE u
  ELSE LET t == Clear(s, "r9match")
       IN IF Has(s, "invta") THEN t ELSE Clear(t, "resscan")

WriteRegister(s, r, v) ==
  LET t == [Recount(s) EXCEPT !.R[r] = v, !.steady = 0, !.lines = 0, !.frame = 0,
                              !.held = 0, !.vsync = 0]
  IN CASE r = 4 -> WriteR4(t) [] r = 7 -> WriteR7(t) [] r = 9 -> WriteR9(t) [] OTHER -> t

\* crtc_reset, with the gate array, the monitor and z80.int_pending as emulator_reset
\* leaves them.  inHSYNC lives outside t_CRTC and keeps its value.
ResetCRTC(s, R, length) ==
  [R |-> R, char |-> 0, line |-> 0, raster |-> 0, lastEnd |-> 0, reg5 |-> 0, sl |-> 0,
   hsw |-> 0, vsw |-> 0, instSL |-> 0, instMR |-> 0, flags |-> s.flags \cap {"inHSYNC"},
   pri |-> 0, ga |-> 0, hs |-> 0, pending |-> FALSE, beam |-> length, scanline |-> 0, done |-> FALSE,
   steady |-> 0, calm |-> 0, lines |-> 0, frame |-> 0, held |-> 0, vsync |-> 0,
   raises |-> 0, perFrame |-> 0]
=============================================================================
