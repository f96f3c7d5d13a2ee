----------------------------- MODULE Interrupts -----------------------------
(***************************************************************************)
(* The Z80 taking interrupts (cap32/z80.c) from the gate array and the     *)
(* ASIC's raster interrupt, while its instructions drive the CRTC one      *)
(* microsecond at a time and may write its registers, reset the interrupt  *)
(* counter or be halted; and the front end, which may reset the machine    *)
(* whenever a frame is shown (retro_loop in cap32.c).                      *)
(*                                                                         *)
(* An instruction waits, then acts on a port and waits again, then looks   *)
(* at interrupts: cpu.todo says what comes after cpu.wait microseconds.    *)
(***************************************************************************)
EXTENDS CRTC

CONSTANTS
  Beam,         \* the characters a monitor line may last
  Firmware,     \* the registers as the firmware sets them, at once after a reset
  Writes,       \* the writes <<register, value>> a program may make
  Rasters,      \* the raster lines a program may ask the ASIC for (0: none)
  Times,        \* microseconds that an instruction, or its part before a port access, lasts
  OutTime,      \* microseconds of the part after it
  AckTime       \* microseconds of taking an interrupt

ASSUME InstructionAssumption ==
  /\ Beam \cup Times \cup {OutTime, AckTime} \subseteq Nat \ {0}
  /\ Rasters \subseteq 0 .. SlTop - 1 /\ 0 \in Rasters
\* Registers hold numbers, register 3 two of them.
Valid(r, v) == IF r = 3 THEN v \in [hsw : Nat, vsw : Nat] ELSE v \in Nat
ASSUME RegisterAssumption ==
  /\ {0, 2, 3, 4, 5, 7, 9} \subseteq DOMAIN Firmware
  /\ Firmware = [r \in DOMAIN Firmware |-> Firmware[r]]
  /\ \A r \in DOMAIN Firmware : Valid(r, Firmware[r])
  /\ \A w \in Writes : w[1] \in DOMAIN Firmware /\ Valid(w[1], w[2])

VARIABLES
  crtc,         \* CRTC, gate array counters, VDU and z80.int_pending
  cpu           \* IFF1, EI_issued (as EI), HALT, and the instruction in progress

vars == <<crtc, cpu>>

Ports == {<<"register", w[1], w[2]>> : w \in Writes} \cup {<<"delay">>}
Instructions == {<<"other">>, <<"ei">>, <<"di">>, <<"halt">>} \cup Ports
                \cup {<<"raster", l>> : l \in Rasters}
Idle == [IFF1 |-> FALSE, EI |-> 0, HALT |-> FALSE, wait |-> 0, todo |-> <<"fetch">>]

Init ==
  /\ \E n \in Beam : crtc = ResetCRTC([flags |-> {}], Firmware, n)
  /\ cpu = Idle

At(what) == cpu.wait = 0 /\ cpu.todo[1] = what

\* One microsecond of z80_wait_states.
Microsecond ==
  /\ cpu.wait > 0
  /\ cpu' = [cpu EXCEPT !.wait = @ - 1]
  /\ \E n \in Beam : crtc_cycle(crtc, n, crtc')

\* What an instruction does before it waits; a halted CPU repeats HALT.
Decode(op) ==
  CASE op[1] = "ei"   -> [cpu EXCEPT !.EI = 2]
    [] op[1] = "di"   -> [cpu EXCEPT !.IFF1 = FALSE, !.EI = 0]
    [] op[1] = "halt" -> [cpu EXCEPT !.HALT = TRUE]
    [] OTHER -> cpu
Execute(op, n) ==
  /\ At("fetch") /\ ~crtc.done
  /\ cpu.HALT => op = <<"halt">>
  /\ cpu' = [Decode(op) EXCEPT !.wait = n, !.todo = IF op \in Ports THEN op ELSE <<"end">>]
  /\ crtc' = IF op[1] = "raster" THEN [Recount(crtc) EXCEPT !.pri = op[2]] ELSE crtc

AfterOut == [cpu EXCEPT !.wait = OutTime, !.todo = <<"end">>]
OutRegister ==
  /\ At("register")
  /\ crtc' = WriteRegister(crtc, cpu.todo[2], cpu.todo[3])
  /\ cpu' = AfterOut
\* The gate array's mode port with bit 4 set.
OutDelay ==
  /\ At("delay")
  /\ crtc' = [Recount(crtc) EXCEPT !.pending = FALSE, !.ga = 0]
  /\ cpu' = AfterOut

\* z80_int_handler.
Acknowledge_Asleep(c) ==                                               \* mutant
  /\ crtc' = [(IF crtc.ga < Margin THEN crtc ELSE Recount(crtc))
               EXCEPT !.pending = FALSE, !.ga = @ % Margin]
  /\ cpu' = [c EXCEPT !.IFF1 = FALSE, !.wait = AckTime, !.todo = <<"fetch">>]
Acknowledge(c) ==
  /\ crtc' = [(IF crtc.ga < Margin THEN crtc ELSE Recount(crtc))
               EXCEPT !.pending = FALSE, !.ga = @ % Margin]
  /\ cpu' = [c EXCEPT !.IFF1 = FALSE, !.HALT = FALSE, !.wait = AckTime, !.todo = <<"fetch">>]
Enabled(c) ==
  IF c.EI = 0 THEN c ELSE [c EXCEPT !.EI = @ - 1, !.IFF1 = IF c.EI = 1 THEN TRUE ELSE @]
EndInstruction ==
  /\ At("end")
  /\ LET c == Enabled(cpu)
     IN IF c.EI = 0 /\ crtc.pending /\ c.IFF1 THEN Acknowledge(c)
        ELSE /\ cpu' = [c EXCEPT !.todo = <<"fetch">>]
             /\ UNCHANGED crtc

\* z80_execute and retro_loop return; the front end calls again, or resets first.
ShowFrame ==
  /\ At("fetch") /\ crtc.done
  /\ crtc' = [crtc EXCEPT !.done = FALSE]
  /\ UNCHANGED cpu
emulator_reset ==
  /\ At("fetch") /\ crtc.done
  /\ \E n \in Beam : crtc' = ResetCRTC(crtc, Firmware, n)
  /\ cpu' = Idle

Next ==
  \/ Microsecond
  \/ \E op \in Instructions, n \in Times : Execute(op, n)
  \/ OutRegister
  \/ OutDelay
  \/ EndInstruction
  \/ ShowFrame
  \/ emulator_reset

Spec == Init /\ [][Next]_vars
\* The emulator never waits for anything: z80_execute runs instruction after
\* instruction, and every instruction takes time.
FairSpec == Spec /\ WF_vars(Next)

(***************************************************************************)
(* Properties                                                              *)
(***************************************************************************)
Flags == {"newscan", "reschar", "resframe", "resscan", "resnext", "startvta", "invta",
          "invsync", "resvsync", "inHSYNC", "r7match", "r9match"}

\* Every counter stays in the range of its bits, and the interrupt counter below 52,
\* whatever the program writes and whenever the machine is reset.
TypeOK ==
  /\ crtc.char \in 0 .. CharMod - 1 /\ crtc.lastEnd \in 0 .. CharMod - 1
  /\ crtc.line \in 0 .. LineMod - 1 /\ crtc.raster \in 0 .. RasterMod - 1
  /\ {crtc.hsw, crtc.vsw} \subseteq 0 .. SyncMod - 1
  /\ {crtc.instSL, crtc.instMR, crtc.hs} \subseteq 0 .. 2
  /\ crtc.flags \subseteq Flags /\ "newscan" \notin crtc.flags
  /\ crtc.ga \in 0 .. IntLines - 1
  /\ crtc.pri \in Rasters
  /\ {crtc.pending, crtc.done, cpu.IFF1, cpu.HALT} \subseteq BOOLEAN
  /\ cpu.EI \in 0 .. 2

\* What the registers say of a frame: its scan lines, and whether it has a VSYNC.
Lines(R) == (R[4] + 1) * (R[9] + 1) + R[5]
HasVSync(R) ==
  /\ R[7] <= R[4] \/ (R[7] = R[4] + 1 /\ R[5] > 0)
  /\ R[4] > 0 \/ R[5] > 0
VSyncLines(R) == IF R[3].vsw = 0 THEN SyncMod ELSE R[3].vsw

\* Frames have the lines that the registers ask for: the requests that crtc_cycle and
\* the two delayed functions pass on from character to character meet every frame once.
FrameLength == crtc.steady = 3 => crtc.frame = Lines(crtc.R)

\* VSYNC lasts the lines that register 3 asks for.
VSyncLength ==
  crtc.steady = 3 /\ HasVSync(crtc.R) /\ VSyncLines(crtc.R) < Lines(crtc.R)
    => crtc.vsync = VSyncLines(crtc.R)

\* From VSYNC to VSYNC the gate array interrupts every 52 lines and once more at the end
\* if at least 32 lines are left; the ASIC interrupts once, at the line that was asked
\* for, unless the gate array's counter reaches 52 there (crtc.c:684 is its ELSE).
Interrupting(R, pri) ==
  IF pri = 0 THEN Lines(R) \div IntLines + (IF Lines(R) % IntLines >= Margin THEN 1 ELSE 0)
  ELSE LET second == R[7] * (R[9] + 1) + 1
       IN Cardinality({k \in 1 .. Lines(R) :
                         (second + k) % Lines(R) = pri /\ k % IntLines # 0})
InterruptsPerFrame ==
  crtc.steady = 3 /\ crtc.calm = 3 /\ HasVSync(crtc.R) /\ VSyncLines(crtc.R) < Lines(crtc.R)
    => crtc.perFrame = Interrupting(crtc.R, crtc.pri)

\* z80_execute always finishes a frame, also without VSYNC, so retro_run returns to the
\* front end, as long as the CRTC's lines are no longer than the monitor's.
FrameEnds == []<>crtc.done

\* A CPU that halts with interrupts enabled, or with EI still to take effect, goes on,
\* if the registers give it interrupts at all.
Wakes == crtc.pri = 0 /\ (HasVSync(crtc.R) => Interrupting(crtc.R, 0) > 0)
HaltWakes == (cpu.HALT /\ (cpu.IFF1 \/ cpu.EI > 0) /\ Wakes) ~> ~cpu.HALT

\* "above maximum scanline count?" (crtc.c:1386) ends the frame: no frame has more.
FrameCutOff == crtc.scanline <= MaxVSync
=============================================================================
