-------------------------------- MODULE FDC --------------------------------
(***************************************************************************)
(* The NEC uPD765A floppy disk controller of cap32/fdc.c, the drive it     *)
(* serves, and the two parties that act on them: the emulated CPU (I/O     *)
(* ports &FA7E, &FB7E and &FB7F, and the overrun timer that z80.c runs     *)
(* with every wait state) and the libretro host (disk changes and resets). *)
(*                                                                         *)
(* The CPU drives the controller one byte at a time, so every interleaving *)
(* of command bytes, data bytes, timer ticks, motor switches, resets and   *)
(* disk changes is a behaviour.  A handler runs to completion inside the   *)
(* I/O access that triggers it, so it is part of one step.                 *)
(*                                                                         *)
(* Only drive A ever holds a disk: the core passes drive 0 to attach_disk  *)
(* and detach_disk, and nothing in the repository sets the write-protect   *)
(* or the flipped attribute of a drive, so they are left out.              *)
(***************************************************************************)
EXTENDS Integers, Sequences, FiniteSetsExt

CONSTANTS
  TrackMax,        \* DSK_TRACKMAX: cylinders a drive can reach
  SectorMax,       \* DSK_SECTORMAX: entries of a track's sector table
  ByteMod,         \* 2^8: what C, H, R, N, EOT and STP are counted modulo
  Unit,            \* bytes of a sector with N = 0
  GapOverhead,     \* bytes that format a sector besides its data and gap
  MaxTrackSize,    \* CPC.max_tracksize
  OverrunTimeout,  \* OVERRUN_TIMEOUT, in ticks of the timer
  Images,          \* disks the host can insert
  Opcodes,         \* bytes the CPU sends as a first command byte
  Args,            \* Args[i]: bytes it sends as command byte i
  FormatIds        \* sector IDs it sends to the write ID command

ASSUME SizeAssumption ==
  /\ TrackMax \in Nat \ {0} /\ SectorMax \in Nat \ {0} /\ Unit \in Nat \ {0}
  /\ GapOverhead \in Nat /\ MaxTrackSize \in Nat
  /\ ByteMod \in Nat /\ ByteMod > 1

ASSUME TimeoutAssumption == OverrunTimeout \in Nat \ {0}

ASSUME GuestAssumption ==
  /\ Opcodes \subseteq 0 .. 255
  /\ Args \in [1 .. 8 -> SUBSET (0 .. ByteMod - 1)]

FF      == ByteMod - 1
Drive   == {0, 1}
DriveA  == 0
InitialTimeout == OverrunTimeout * 4

(***************************************************************************)
(* The command table.                                                      *)
(***************************************************************************)
NoCommand == 0
Specify   == 3
DrvStat   == 4
Recalib   == 7
IntStat   == 8
Seek      == 15
ReadTrk   == 66
Write     == 69
Read      == 70
WriteDel  == 73
ReadID    == 74
ReadDel   == 76
WriteID   == 77
ScanEqual == 81
ScanLow   == 89
ScanHigh  == 93

ReadCommands  == {Read, ReadDel}
WriteCommands == {Write, WriteDel}
ScanCommands  == {ScanEqual, ScanLow, ScanHigh}
CpuToFdc      == WriteCommands \cup ScanCommands \cup {WriteID}
Transfers     == ReadCommands \cup CpuToFdc \cup {ReadTrk}
Commands      == Transfers \cup {Specify, DrvStat, Recalib, IntStat, Seek, ReadID}

CmdLength(c) == CASE c = IntStat                      -> 1
                  [] c \in {DrvStat, Recalib, ReadID} -> 2
                  [] c \in {Specify, Seek}            -> 3
                  [] c = WriteID                      -> 6
                  [] c = NoCommand                    -> 0
                  [] OTHER                            -> 9

ResLength(c) == CASE c \in {Specify, Recalib, Seek} -> 0
                  [] c = DrvStat                    -> 1
                  [] c = IntStat                    -> 2
                  [] OTHER                          -> 7

(***************************************************************************)
(* Disks.  A sector entry has its ID <<C, H, R, N>>, the error bits stored *)
(* with it, those that the reading commands take (Stored1, Stored2), the   *)
(* offset of its data in the track's data (Nowhere when the pointer is     *)
(* null or dangles), its size, and the versions of a weak sector.  A track *)
(* has the sector count, track->size, the bytes really allocated for its   *)
(* data (`room') and what its data pointer refers to (`own').  Bytes       *)
(* themselves are left out: what matters is where they are read and        *)
(* written.                                                                *)
(***************************************************************************)
Byte256  == 0 .. ByteMod - 1
IDs      == Byte256 \X Byte256 \X Byte256 \X Byte256
Cylinder == 0 .. TrackMax - 1
Stored1  == {"DE", "ND", "MA"}
Stored2  == {"CM", "DD", "MD"}
SectorType == [id : IDs, st1 : SUBSET Stored1, st2 : SUBSET Stored2,
               off : Int, size : Nat, weak : Nat, ver : Nat]
TrackType  == [sectors : Nat, size : Nat, room : Int, own : {"null", "live", "freed"},
               tab : [0 .. SectorMax - 1 -> SectorType]]
DiskType   == [tracks : 0 .. TrackMax, sides : {0, 1}, altered : BOOLEAN,
               track : [Cylinder -> [{0, 1} -> TrackType]]]

ASSUME DiskAssumption == Images \subseteq DiskType /\ FormatIds \subseteq IDs

Nowhere     == -1
BlankSector == [id |-> <<0, 0, 0, 0>>, st1 |-> {}, st2 |-> {},
                off |-> Nowhere, size |-> 0, weak |-> 0, ver |-> 0]
BlankTrack  == [sectors |-> 0, size |-> 0, room |-> 0, own |-> "null",
                tab |-> [i \in 0 .. SectorMax - 1 |-> BlankSector]]
NoDisk      == [tracks |-> 0, sides |-> 0, altered |-> FALSE,
                track |-> [t \in Cylinder |-> [s \in {0, 1} |-> BlankTrack]]]

Entry(t, i) == IF i \in DOMAIN t.tab THEN t.tab[i] ELSE BlankSector

VARIABLES
  phase,          \* FDC.phase; "DEAD" once a handler never returns
  byte_count,     \* FDC.byte_count
  cmd,            \* FDC.command[CMD_CODE]: length, direction and handler follow
  res_length,     \* FDC.res_length
  command,        \* FDC.command[1..8]
  res,            \* FDC.result: ST0, ST1, ST2, the sector ID, the track number
  flags,          \* FDC.flags: SKIP, OVERRUN, SCAN, SCANFAILED
  seekDone,       \* FDC.flags: drives with SEEKDRV set
  statusChanged,  \* FDC.flags: drives with STATUSDRV set
  motor, led,     \* FDC.motor, FDC.led
  timeout,        \* FDC.timeout
  delay,          \* read_status_delay
  buf,            \* FDC.buffer_count, buffer_ptr, buffer_endptr
  gp,             \* pbGPBuffer: the IDs write ID has received
  head,           \* current_track of each drive
  sec,            \* driveA.current_sector
  atrk,           \* active_track, as <<cylinder, side>> of drive A
  disk,           \* what drive A holds
  dirty,          \* history: track data modified since the disk was inserted
  timedOut,       \* history: the current data transfer has timed out
  differs         \* history: a byte of the sector scanned last compared unequal

control == <<phase, byte_count, cmd, res_length>>
drives  == <<head, sec, atrk, disk, dirty>>
vars == <<control, command, res, flags, seekDone, statusChanged, motor, led,
          timeout, delay, buf, gp, drives, timedOut, differs>>

NoResult == [st0 |-> {}, st1 |-> {}, st2 |-> {}, id |-> <<0, 0, 0, 0>>, pcn |-> 0]
NoBuffer == [count |-> 0, ptr |-> 0, end |-> 0, mem |-> "none"]

InitWith(d) ==
  /\ phase = "CMD" /\ byte_count = 0 /\ cmd = NoCommand /\ res_length = 0
  /\ command = [i \in 1 .. 8 |-> 0] /\ res = NoResult
  /\ flags = {} /\ seekDone = {} /\ statusChanged = Drive
  /\ motor = FALSE /\ led = FALSE /\ timeout = 0 /\ delay = 0
  /\ buf = NoBuffer /\ gp = <<>>
  /\ head = [u \in Drive |-> 0] /\ sec = 0 /\ atrk = <<0, 0>>
  /\ disk = d /\ dirty = FALSE /\ timedOut = FALSE /\ differs = FALSE
Init == InitWith(NoDisk)

(***************************************************************************)
(* Result registers.  ST0, ST1 and ST2 are sets of the names of their bits.*)
(***************************************************************************)
Bit(v, i)  == (v \div i) % 2 = 1
UnitBits(u) == {b \in {"US0", "US1", "HD"} :
                  Bit(u, CASE b = "US0" -> 1 [] b = "US1" -> 2 [] b = "HD" -> 4)}
UnitOf(c)  == c[1] % 2
LoadedIn(d) == d = DriveA /\ disk.tracks # 0
Ready(d)   == LoadedIn(d) /\ motor

InitStatus(c) == [NoResult EXCEPT !.st0 = UnitBits(c[1]) \cup
                                   (IF Ready(UnitOf(c)) THEN {} ELSE {"AT", "NR"})]

\* LOAD_RESULT_WITH_STATUS
LoadStatus(r) ==
  LET errors == (r.st1 \ {"EN"}) \cup r.st2
      wrong  == "DE" \in r.st1 \/ "DD" \in r.st2
      marked == "CM" \in r.st2 /\ ~wrong
  IN IF cmd = ReadTrk \/ errors = {}
     THEN [r EXCEPT !.st0 = @ \cup {"AT"}, !.st1 = @ \cup {"EN"}]
     ELSE [r EXCEPT !.st0 = IF marked THEN @ \ {"AT", "IC"} ELSE @ \cup {"AT"},
                    !.st1 = @ \ {"EN"},
                    !.st2 = IF wrong THEN @ \ {"CM"} ELSE @]

(***************************************************************************)
(* A command at work: the record the handlers and helpers below transform, *)
(* and Store, which makes it the next state.  `trk' is *active_track.      *)
(***************************************************************************)
Transfer == [phase |-> phase, command |-> command, res |-> res, flags |-> flags,
             at |-> atrk, sec |-> sec, trk |-> disk.track[atrk[1]][atrk[2]],
             altered |-> disk.altered, dirty |-> dirty, differs |-> differs,
             buf |-> buf, gp |-> gp, timeout |-> timeout, delay |-> delay]

Store(x) ==
  /\ phase' = x.phase /\ command' = x.command /\ res' = x.res /\ flags' = x.flags
  /\ atrk' = x.at /\ sec' = x.sec /\ dirty' = x.dirty /\ differs' = x.differs
  /\ disk' = [disk EXCEPT !.track[x.at[1]][x.at[2]] = x.trk, !.altered = x.altered]
  /\ buf' = x.buf /\ gp' = x.gp /\ timeout' = x.timeout /\ delay' = x.delay

Wanted(c)  == <<c[2], c[3], c[4], c[5]>>                   \* C, H, R, N
Finish_NoResult(x) == [x EXCEPT !.phase = "CMD"]                      \* mutant
Finish(x)  == [x EXCEPT !.phase = "RESULT", !.res.id = Wanted(x.command)]
Fail(x, bit) == Finish([x EXCEPT !.res.st0 = @ \cup {"AT"}, !.res.st1 = @ \cup {bit}])
Done(x)    == Finish([x EXCEPT !.res = LoadStatus(@)])
Dead(x)    == [x EXCEPT !.phase = "DEAD"]
AtEot_Early(x) == x.command[4] + 1 >= x.command[6]                    \* mutant
AtEot(x)   == x.command[4] = x.command[6]
NextR(x, step) == [x EXCEPT !.command[4] = (@ + step) % ByteMod]
\* A transfer starts: its buffer is set up and its timer runs.
Start(x, buffer) == [x EXCEPT !.buf = buffer, !.timeout = InitialTimeout, !.delay = 1]
Track(x, count, ptr) == [count |-> count, ptr |-> ptr, end |-> x.trk.size, mem |-> "track"]
Current(x)   == Entry(x.trk, x.sec)
Update(x, e) == [x EXCEPT !.trk.tab[x.sec] = e]

DataLength(c) == IF c[5] = 0 THEN (IF c[8] > Unit THEN Unit ELSE c[8])
                             ELSE Unit * 2^c[5]

\* The order in which find_sector looks at the sector table: from the current
\* sector to the index hole, then once around.
FirstPass(x)  == IF x.sec < x.trk.sectors THEN x.trk.sectors - x.sec ELSE 1
Looks(x)      == 0 .. FirstPass(x) + (IF x.trk.sectors = 0 THEN 1 ELSE x.trk.sectors) - 1
Look(x, k)    == IF k < FirstPass(x) THEN x.sec + k ELSE k - FirstPass(x)
Hits_AnySize(x) ==                                                     \* mutant
  {k \in Looks(x) : \A i \in 1 .. 3 : Entry(x.trk, Look(x, k)).id[i] = x.command[i + 1]}
Hits(x)       == {k \in Looks(x) : Entry(x.trk, Look(x, k)).id = Wanted(x.command)}
Found(x)      == Hits(x) # {}

NotFoundIndex_Stay(x) == x.sec                                         \* mutant
NotFoundIndex(x) == 0
find_sector(x) ==
  LET passed == {Entry(x.trk, Look(x, k)).id[1] : k \in Looks(x)}
      st2    == x.res.st2 \cup (IF FF \in passed THEN {"BC"} ELSE {}) \cup
                (IF passed \subseteq {FF, x.command[2]} THEN {} ELSE {"NC"})
  IN IF Found(x)
     THEN [x EXCEPT !.sec = Look(x, Min(Hits(x))), !.res.st2 = @ \ {"BC", "NC"}]
     ELSE [x EXCEPT !.sec = NotFoundIndex(x),
                    !.res.st2 = IF "BC" \in st2 THEN st2 \ {"NC"} ELSE st2]

\* sector_get_read_data and the assignments that start a read.  A sector whose
\* weak_versions is 0 divides by zero.
StartRead(x, count) ==
  LET e   == Current(x)
      ver == (e.ver + 1) % e.weak
  IN IF e.weak = 0 THEN Dead(x)
     ELSE Start(Update(x, [e EXCEPT !.ver = ver]), Track(x, count, e.off + ver * e.size))

cmd_write(x) ==
  LET f == find_sector(x)
      e == [Current(f) EXCEPT !.st1 = {}, !.st2 = IF cmd = Write THEN {} ELSE {"CM"}]
  IN IF ~Found(x) THEN Fail(f, "ND")
     ELSE Start(Update(f, e), Track(f, DataLength(x.command), e.off))

\* What cmd_read and cmd_scan share.  They find the sector and load its status
\* bits (ST2 keeps nothing but the control mark, which read deleted data
\* inverts); a sector to be skipped sends the search `step' sectors further.
LoadBits(f) ==
  LET marked == ("CM" \in Current(f).st2) # (cmd = ReadDel)
  IN [f EXCEPT !.res.st1 = Current(f).st1, !.res.st2 = IF marked THEN {"CM"} ELSE {}]
LoadSector(x) == IF Found(x) THEN LoadBits(find_sector(x)) ELSE find_sector(x)
Skipped(x) == Found(x) /\ "SKIP" \in x.flags /\ "CM" \in x.res.st2
SkipOn(f, step) == IF Skipped(f) /\ ~AtEot(f) THEN LoadSector(NextR(f, step)) ELSE f
Arrived(x, f) == [x EXCEPT !.command[4] = f.command[4], !.sec = f.sec,
                           !.res.st1 = f.res.st1, !.res.st2 = f.res.st2]
Searches(x, step) ==
  LET at[n \in 0 .. ByteMod] == IF n = 0 THEN LoadSector(x) ELSE SkipOn(at[n - 1], step)
  IN at
Search(x, step) == Arrived(x, Searches(x, step)[ByteMod])

\* After ByteMod sectors a search that still skips never ends.  A sector with a
\* control mark is the last one.
LastIfMarked(f) == IF "CM" \in f.res.st2 THEN [f EXCEPT !.command[6] = f.command[4]] ELSE f
StartFound(f, count) ==
  CASE ~Found(f)                  -> Fail(f, "ND")
    [] Skipped(f) /\ AtEot(f)     -> Done(f)
    [] Skipped(f) /\ ~AtEot(f)    -> Dead(f)
    [] Found(f) /\ ~Skipped(f)    -> StartRead(LastIfMarked(f), count)
SearchAndStart(x, step, count) == StartFound(Search(x, step), count)

cmd_read(x) == SearchAndStart(x, 1, DataLength(x.command))
StartScan(s) ==
  IF s.phase # "EXEC" THEN s
  ELSE [s EXCEPT !.flags = @ \ {"SCANFAILED"}, !.res.st2 = @ \cup {"SH"}, !.differs = FALSE]
cmd_scan(x) ==
  StartScan(SearchAndStart(x, x.command[8], Unit * 2^x.command[5]))
cmd_readtrk(x) ==
  LET e == Current(x)
      other == IF e.id = Wanted(x.command) THEN {} ELSE {"ND"}
  IN StartRead([x EXCEPT !.res.st1 = @ \cup other \cup e.st1,
                         !.res.st2 = (@ \ {"CM"}) \cup e.st2], DataLength(x.command))

(***************************************************************************)
(* The handlers, run when the last command byte arrives.                   *)
(***************************************************************************)
Reach(c) == <<head[DriveA], IF disk.sides # 0 /\ Bit(c[1], 4) THEN 1 ELSE 0>>
Access(c) ==
  [Transfer EXCEPT !.phase = "EXEC", !.command = c, !.res = InitStatus(c),
                   !.at = IF Ready(UnitOf(c)) THEN Reach(c) ELSE @,
                   !.trk = IF Ready(UnitOf(c)) THEN disk.track[Reach(c)[1]][Reach(c)[2]]
                                               ELSE @]
Formatted(x, started) == IF x.trk.sectors # 0 THEN started ELSE Fail(x, "MA")

fdc_readtrk(x) == Formatted(x, cmd_readtrk([x EXCEPT !.command[4] = 1, !.sec = 0]))
fdc_write(x)   == Formatted(x, cmd_write(x))
fdc_read(x)    == Formatted(x, cmd_read(x))
fdc_readID(x)  ==
  LET idx == IF x.sec < x.trk.sectors THEN x.sec ELSE 0
  IN Formatted(x, [x EXCEPT !.phase = "RESULT", !.res.id = Entry(x.trk, idx).id,
                            !.sec = idx + 1])
fdc_writeID(x) ==
  Start([x EXCEPT !.gp = <<>>],
        [count |-> x.command[3], ptr |-> 0, end |-> x.command[3], mem |-> "gp"])
fdc_scan(x) ==
  Formatted(x, cmd_scan([x EXCEPT !.command[8] = IF @ > 2 THEN 2 ELSE @,
                                  !.flags = @ \cup {"SCAN"}]))

Handle(x) == CASE cmd = ReadTrk         -> fdc_readtrk(x)
               [] cmd \in WriteCommands -> fdc_write(x)
               [] cmd \in ReadCommands  -> fdc_read(x)
               [] cmd = ReadID          -> fdc_readID(x)
               [] cmd = WriteID         -> fdc_writeID(x)
               [] cmd \in ScanCommands  -> fdc_scan(x)

Execute(c) ==
  LET x == Access(c)
  IN /\ cmd \in Transfers \cup {ReadID}
     /\ Store(IF Ready(UnitOf(c)) THEN Handle(x)
              ELSE IF cmd = ReadID THEN [x EXCEPT !.phase = "RESULT"] ELSE Finish(x))
     /\ led' = TRUE /\ timedOut' = FALSE
     /\ UNCHANGED <<seekDone, head>>

fdc_specify(c) ==
  /\ cmd = Specify
  /\ phase' = "CMD" /\ command' = c
  /\ UNCHANGED <<res, flags, seekDone, led, timeout, delay, buf, gp, drives,
                 timedOut, differs>>

\* ST3 shares the byte, so it is written with the names ST0 gives the bits: "SE"
\* is Ready, "EC" is Track 0, {"AT", "NR"} is Write Protected and Two Sided.
fdc_drvstat(c) ==
  /\ cmd = DrvStat
  /\ phase' = "RESULT" /\ command' = c
  /\ res' = [res EXCEPT !.st0 = UnitBits(c[1])
        \cup (IF LoadedIn(UnitOf(c)) THEN {} ELSE {"AT", "NR"})
        \cup (IF Ready(UnitOf(c)) THEN {"SE"} ELSE {})
        \cup (IF head[UnitOf(c)] = 0 THEN {"EC"} ELSE {})]
  /\ UNCHANGED <<flags, seekDone, led, timeout, delay, buf, gp, drives,
                 timedOut, differs>>

Limited_Not(c) == c                                                    \* mutant
Limited(c) == Min({c, TrackMax - 1})
\* fdc_recalib is a seek whose target it sets to cylinder 0.
fdc_seek(c) ==
  LET d  == UnitOf(c)
      to == IF cmd = Recalib THEN [c EXCEPT ![2] = 0] ELSE c
  IN /\ cmd \in {Seek, Recalib}
     /\ phase' = "CMD" /\ command' = to /\ res' = InitStatus(c)
     /\ head' = IF Ready(d) THEN [head EXCEPT ![d] = Limited(to[2])] ELSE head
     /\ seekDone' = seekDone \cup {d}
     /\ UNCHANGED <<flags, led, timeout, delay, buf, gp, sec, atrk, disk, dirty,
                    timedOut, differs>>

\* A completed seek is reported before a status change, drive A before drive B.
\* The interrupt codes of the previous result are kept, and result[1] is the
\* cylinder instead of ST1.
InvalidLength == 1
SenseDrive ==
  LET first(S) == {Min(S) : s \in S}
  IN IF seekDone # {} THEN first(seekDone) ELSE first(statusChanged)
UnitOf0(d) == IF d = DriveA THEN {} ELSE {"US0"}
fdc_intstat ==
  /\ phase' = "RESULT"
  /\ IF SenseDrive = {}
     THEN /\ res' = [res EXCEPT !.st0 = {"IC"}] /\ res_length' = InvalidLength
          /\ UNCHANGED <<seekDone, statusChanged>>
     ELSE \E d \in SenseDrive :
          /\ res_length' = ResLength(IntStat)
          /\ res' = [res EXCEPT !.st1 = {}, !.pcn = head[d],
               !.st0 = IF d \in seekDone
                       THEN (@ \ {"HD", "US1", "US0"}) \cup {"SE"} \cup UnitOf0(d)
                       ELSE {"IC", "AT"} \cup UnitOf0(d) \cup
                            (IF Ready(d) THEN {} ELSE {"NR"})]
          /\ seekDone' = seekDone \ {d} /\ statusChanged' = statusChanged \ {d}

(***************************************************************************)
(* The command phase of fdc_write_data.                                    *)
(***************************************************************************)
ReceiveCommand(val) ==
  LET skip == Bit(val, 32)
      code == IF skip THEN val - 32 ELSE val
  IN /\ phase = "CMD" /\ byte_count = 0
     /\ flags' = (flags \ {"SKIP"}) \cup (IF skip THEN {"SKIP"} ELSE {})
     /\ \/ /\ code \in Commands \ {IntStat}
           /\ byte_count' = 1 /\ cmd' = code /\ res_length' = ResLength(code)
           /\ UNCHANGED <<phase, res, seekDone, statusChanged>>
        \/ /\ code = IntStat
           /\ cmd' = code /\ fdc_intstat
           /\ UNCHANGED byte_count
        \/ /\ code \notin Commands
           /\ phase' = "RESULT" /\ res_length' = InvalidLength /\ res' = [res EXCEPT !.st0 = {"IC"}]
           /\ UNCHANGED <<byte_count, cmd, seekDone, statusChanged>>
     /\ UNCHANGED <<command, motor, led, timeout, delay, buf, gp, drives, timedOut, differs>>

LastParameter == byte_count + 1 = CmdLength(cmd)
ReceiveParameter(val) ==
  LET c == [command EXCEPT ![byte_count] = val]
  IN /\ phase = "CMD" /\ byte_count > 0
     /\ IF LastParameter
        THEN /\ byte_count' = 0
             /\ Execute(c) \/ fdc_specify(c) \/ fdc_drvstat(c) \/ fdc_seek(c)
        ELSE /\ byte_count' = byte_count + 1 /\ command' = c
             /\ UNCHANGED <<phase, res, flags, seekDone, led, timeout, delay, buf, gp,
                            head, sec, atrk, disk, dirty, timedOut, differs>>
     /\ UNCHANGED <<cmd, res_length, statusChanged, motor>>

(***************************************************************************)
(* The execution phase.  Each operator below is one byte of a transfer;    *)
(* the CPU or, when it is late, the overrun timer makes it happen.  A      *)
(* count that starts at zero is decremented below zero and never gets      *)
(* there again.                                                            *)
(***************************************************************************)
Rewound(x, b) == [b EXCEPT !.ptr = 0, !.mem = IF x.trk.own = "live" THEN "track" ELSE "freed"]
Advance(x, past) ==
  LET b == [x.buf EXCEPT !.count = IF @ > 0 THEN @ - 1 ELSE -1, !.ptr = @ + 1]
  IN [x EXCEPT !.buf = IF past THEN Rewound(x, b) ELSE b, !.timeout = OverrunTimeout]
WrapWrite(x) == Advance(x, x.buf.ptr + 1 > x.buf.end)
WrapRead_Late(x) == Advance(x, x.buf.ptr + 1 > x.buf.end)              \* mutant
WrapRead(x)  == Advance(x, x.buf.ptr + 1 >= x.buf.end)

write_byte(x) ==
  LET y == [WrapWrite(x) EXCEPT !.dirty = @ \/ x.buf.mem = "track"]
  IN IF y.buf.count # 0 THEN y
     ELSE IF ~AtEot(y) THEN cmd_write(NextR(y, 1))
     ELSE Finish([y EXCEPT !.altered = TRUE, !.res.st0 = @ \cup {"AT"},
                           !.res.st1 = @ \cup {"EN"}])

\* `cmp' is how the CPU's byte compares with the sector's; &FF is not compared.
scan_byte(x, cmp) ==
  LET code    == cmd % 32                           \* command[CMD_CODE] & 0x1f
      unequal == cmp \in {"below", "above"}
      failed  == \/ code = ScanEqual /\ unequal
                 \/ code = ScanLow   /\ cmp = "above"
                 \/ code = ScanHigh  /\ cmp = "below"
      y == [WrapWrite(x) EXCEPT
              !.res.st2 = IF code \in ScanCommands /\ unequal THEN @ \ {"SH"} ELSE @,
              !.flags   = IF failed THEN @ \cup {"SCANFAILED"} ELSE @,
              !.differs = @ \/ unequal]
  IN IF y.buf.count # 0 THEN y
     ELSE IF "SCANFAILED" \notin y.flags THEN Finish(y)
     ELSE IF ~AtEot(y) THEN cmd_scan(NextR(y, y.command[8]))
     ELSE Finish([y EXCEPT !.res.st2 = @ \cup {"SN"}])

\* Write ID: N is command[2], the number of sectors command[3], the gap
\* command[4].  One step stands for the four bytes of a sector ID, so the timer
\* expires between two IDs only.
Reformat(x) ==
  LET n     == x.command[3]
      size  == Unit * 2^x.command[2]
      keep  == [x.trk EXCEPT !.tab = [i \in DOMAIN @ |-> [@[i] EXCEPT !.off = Nowhere]]]
      old   == IF x.trk.sectors # 0 THEN keep ELSE x.trk
  IN IF (size + GapOverhead + x.command[4]) * n > MaxTrackSize
     THEN [old EXCEPT !.sectors = 0,
                      !.own = IF @ = "live" /\ x.trk.sectors # 0 THEN "freed" ELSE @]
     ELSE [old EXCEPT !.sectors = n, !.own = "live", !.room = size * n,
             !.tab = [i \in DOMAIN @ |->
                        IF i >= n THEN @[i]
                        ELSE [@[i] EXCEPT !.id = x.gp[i + 1], !.st1 = {}, !.st2 = {},
                                          !.off = i * size]]]
format_id(x, id) ==
  LET y == [WrapWrite(x) EXCEPT !.gp = IF x.buf.count > 0 THEN Append(@, id) ELSE @]
      last == y.gp[y.command[3]]
  IN IF y.buf.count # 0 THEN y
     ELSE [y EXCEPT !.trk = Reformat(y), !.altered = TRUE, !.dirty = TRUE, !.gp = <<>>,
                    !.res.id = [last EXCEPT ![4] = y.command[2]], !.phase = "RESULT"]

PrevByte(v)  == (v - 1) % ByteMod
Overran_Now(x) == x.timeout <= 0                                       \* mutant
Overran(x)   == "OVERRUN" \in x.flags
\* A sector has been read: of a track, the next one follows until the count that
\* is kept in EOT is used up.
TrackSectorRead(m) ==
  IF m.command[6] = 0 THEN Done(m)
  ELSE cmd_readtrk(NextR([m EXCEPT !.sec = IF @ >= m.trk.sectors THEN 0 ELSE @], 1))
SectorRead(n) ==
  LET errors == (n.res.st1 \cap {"DE", "OR", "MA"}) \cup (n.res.st2 \cap {"DD", "MD"})
  IN IF Overran(n)
     THEN Finish([n EXCEPT !.flags = @ \ {"OVERRUN"}, !.res.st0 = @ \cup {"AT"},
                           !.res.st1 = @ \cup {"OR"}])
     ELSE IF cmd = ReadTrk THEN TrackSectorRead([n EXCEPT !.command[6] = PrevByte(@)])
     ELSE IF errors = {} /\ ~AtEot(n) THEN cmd_read(NextR(n, 1))
     ELSE Done(n)
read_byte(x) == IF WrapRead(x).buf.count # 0 THEN WrapRead(x)
                ELSE SectorRead([WrapRead(x) EXCEPT !.sec = @ + 1])

Comparisons == {"equal", "below", "above"}
\* What a transfer may become with its next byte.
Byte(x, cmps, ids) ==
  CASE cmd \in ReadCommands \cup {ReadTrk} -> {read_byte(x)}
    [] cmd \in WriteCommands               -> {write_byte(x)}
    [] cmd \in ScanCommands                -> {scan_byte(x, cmp) : cmp \in cmps}
    [] cmd = WriteID                       -> {format_id(x, id) : id \in ids}

TimerByte_Misdirected(x) == {[x EXCEPT !.timeout = OverrunTimeout]} \* mutant
TimerByte(x) == Byte(x, {"ignored"}, {<<FF, FF, FF, FF>>})

TransferByte ==
  /\ phase = "EXEC"
  /\ \E x \in Byte(Transfer, Comparisons \cup {"ignored"}, FormatIds) : Store(x)
  /\ UNCHANGED <<byte_count, cmd, res_length, seekDone, statusChanged, motor, led,
                 head, timedOut>>

\* z80_wait_states: the timer of a transfer runs; when it expires the missing
\* byte is read, or written as &FF, in the CPU's place.
Tick ==
  LET x    == [Transfer EXCEPT !.timeout = @ - 1]
      late == [x EXCEPT !.flags = @ \cup {"OVERRUN"}]
  IN /\ phase = "EXEC"
     /\ IF x.timeout > 0
        THEN Store(x) /\ UNCHANGED timedOut
        ELSE /\ \E y \in TimerByte(late) : Store(y)
             /\ timedOut' = TRUE
     /\ UNCHANGED <<byte_count, cmd, res_length, seekDone, statusChanged, motor, led, head>>

fdc_read_status ==
  /\ phase = "EXEC" /\ delay > 0
  /\ delay' = delay - 1
  /\ UNCHANGED <<control, command, res, flags, seekDone, statusChanged, motor, led,
                 timeout, buf, gp, drives, timedOut, differs>>

\* The result phase of fdc_read_data.
LastResult_Late == byte_count = res_length                             \* mutant
LastResult == byte_count + 1 = res_length
Finished == flags \ {"SCAN"}
ReadResult ==
  /\ phase = "RESULT"
  /\ IF LastResult
     THEN /\ phase' = "CMD" /\ byte_count' = 0 /\ led' = FALSE
          /\ flags' = Finished
     ELSE /\ byte_count' = byte_count + 1
          /\ UNCHANGED <<phase, led, flags>>
  /\ UNCHANGED <<cmd, res_length, command, res, seekDone, statusChanged, motor,
                 timeout, delay, buf, gp, drives, timedOut, differs>>

(***************************************************************************)
(* The other parties: the motor port, a reset, and a disk change by the    *)
(* host (dsk_load ejects what the drive held; dsk_eject frees the tracks   *)
(* and clears the drive, except for the head position).  A change may come *)
(* in the middle of a transfer.                                            *)
(***************************************************************************)
SwitchMotor ==
  /\ phase # "DEAD"
  /\ motor' \in BOOLEAN /\ statusChanged' = Drive
  /\ UNCHANGED <<control, command, res, flags, seekDone, led, timeout, delay, buf, gp,
                 drives, timedOut, differs>>

emulator_reset ==
  /\ phase # "DEAD"
  /\ phase' = "CMD" /\ byte_count' = 0 /\ cmd' = NoCommand /\ res_length' = 0
  /\ command' = [i \in 1 .. 8 |-> 0] /\ res' = NoResult /\ flags' = {}
  /\ seekDone' = {} /\ statusChanged' = Drive /\ motor' = FALSE /\ led' = FALSE
  /\ timeout' = 0 /\ buf' = NoBuffer /\ timedOut' = FALSE
  /\ UNCHANGED <<delay, gp, drives, differs>>

ChangeDisk(d) ==
  /\ phase # "DEAD"
  /\ disk' = d /\ sec' = 0 /\ dirty' = FALSE
  /\ buf' = IF buf.mem = "track" THEN [buf EXCEPT !.mem = "freed"] ELSE buf
  /\ UNCHANGED <<control, command, res, flags, seekDone, statusChanged, motor, led,
                 timeout, delay, gp, head, atrk, timedOut, differs>>

CPU == \/ \E val \in Opcodes : ReceiveCommand(val)
       \/ byte_count \in 1 .. 8 /\ \E val \in Args[byte_count] : ReceiveParameter(val)
       \/ TransferByte \/ fdc_read_status \/ ReadResult \/ SwitchMotor
Host == emulator_reset \/ \E d \in Images \cup {NoDisk} : ChangeDisk(d)

Next == CPU \/ Tick \/ Host

(***************************************************************************)
(* The timer runs for as long as the emulated CPU executes instructions.   *)
(***************************************************************************)
Spec     == Init /\ [][Next]_vars
FairSpec == Spec /\ WF_vars(Tick)

(***************************************************************************)
(* A machine whose disk stays in the drive; and one whose host may reset   *)
(* it at any time, but changes the disk only between two transfers.        *)
(***************************************************************************)
Loaded      == \E d \in Images : InitWith(d)
Guest       == CPU \/ Tick
PatientHost == \/ emulator_reset
               \/ phase # "EXEC" /\ \E d \in Images \cup {NoDisk} : ChangeDisk(d)
GuestSpec   == Loaded /\ [][Guest]_vars
FairGuest   == GuestSpec /\ WF_vars(Tick)
PatientSpec == (Init \/ Loaded) /\ [][Guest \/ PatientHost]_vars

(***************************************************************************)
(* Properties.                                                             *)
(***************************************************************************)
ST0Bits  == {"IC", "AT", "SE", "EC", "NR", "HD", "US1", "US0"}
ST1Bits  == {"EN", "DE", "OR", "ND", "NW", "MA"}
ST2Bits  == {"CM", "DD", "NC", "SH", "SN", "BC", "MD"}
Active   == disk.track[atrk[1]][atrk[2]]

\* Every variable of the controller and of drive A keeps its type.
ControlTypeOK ==
  /\ phase \in {"CMD", "EXEC", "RESULT", "DEAD"} /\ byte_count \in 0 .. 8
  /\ cmd \in Commands \cup {NoCommand} /\ res_length \in Nat
  /\ motor \in BOOLEAN /\ led \in BOOLEAN
TypeOK ==
  /\ ControlTypeOK
  /\ command \in [1 .. 8 -> Byte256]
  /\ res \in [st0 : SUBSET ST0Bits, st1 : SUBSET ST1Bits, st2 : SUBSET ST2Bits,
              id : IDs, pcn : Cylinder]
  /\ flags \subseteq {"SKIP", "OVERRUN", "SCAN", "SCANFAILED"}
  /\ seekDone \subseteq Drive /\ statusChanged \subseteq Drive
  /\ {dirty, timedOut, differs} \subseteq BOOLEAN
  /\ timeout \in 0 .. InitialTimeout /\ delay \in {0, 1}
  /\ buf.mem \in {"none", "gp", "track", "freed"} /\ buf.count \in Int
  /\ head \in [Drive -> Cylinder] /\ atrk \in Cylinder \X {0, 1}
  /\ sec \in Nat /\ disk.altered \in BOOLEAN /\ gp \in Seq(IDs)

\* The byte counter, the phase and the command agree, whatever the order of CPU
\* accesses, forced transfers, motor switches, disk changes and resets: fewer
\* parameters have arrived than the command has (so command[] is not written
\* beyond its end), only the transfer commands have an execution phase, fewer
\* result bytes have been read than there are (so result[] is not read beyond
\* its end), the scan flag is set only while a scan command is at work, and the
\* drive LED is never left on when the controller is idle.
ProtocolInv ==
  /\ phase = "CMD" /\ byte_count > 0 =>
       cmd \in Commands /\ byte_count < CmdLength(cmd) /\ res_length = ResLength(cmd)
  /\ phase \in {"EXEC", "DEAD"} =>
       cmd \in Transfers /\ byte_count = 0 /\ res_length = ResLength(cmd)
  /\ phase = "RESULT" => byte_count < res_length /\ res_length <= 7
  /\ "SCAN" \in flags => cmd \in ScanCommands /\ phase # "CMD"
  /\ led => phase # "CMD"

\* The controller implements the protocol a program relies on.
Mode == CASE phase = "CMD"    -> IF byte_count = 0 THEN "idle" ELSE "params"
          [] phase = "RESULT" -> "result"
          [] OTHER            -> "exec"
Left == CASE Mode = "params" -> CmdLength(cmd) - byte_count
          [] Mode = "result" -> res_length - byte_count
          [] OTHER           -> 0
Owed == IF Mode \in {"params", "exec"} THEN res_length ELSE 0
Shapes == {<<CmdLength(c) - 1, ResLength(c)>> : c \in Commands}
Fresh == cmd = NoCommand
Protocol == INSTANCE FDCProtocol
              WITH mode <- Mode, left <- Left, owed <- Owed, fresh <- Fresh
ImplementsProtocol == Protocol!Spec

\* "Data transfers can now time out and will be reported via OVERRUN condition":
\* a command that reads, and any of whose bytes the timer took, ends abnormally
\* with Overrun, even if the CPU is back in time for the rest.
Completed(commands) == phase = "RESULT" /\ cmd \in commands /\ res_length = 7
Reported == "AT" \in res.st0 /\ "OR" \in res.st1
OverrunReported == Completed(ReadCommands \cup {ReadTrk}) /\ timedOut => Reported

\* "If a sector cannot be found, table index should be 0": also when it is a
\* later sector of a multi-sector transfer that is missing.
NotFoundRewinds ==
  Completed(ReadCommands \cup WriteCommands \cup ScanCommands) /\ "ND" \in res.st1
     => sec = 0 /\ ~({"BC", "NC"} \subseteq res.st2)

\* End of Cylinder is reported only by a transfer that got as far as its last
\* sector, and never together with a missing sector or an overrun.
EndReached ==
  Completed(ReadCommands \cup WriteCommands) /\ "EN" \in res.st1
     => res.id[3] = command[6] /\ res.st1 \cap {"ND", "OR", "MA", "DE"} = {}

\* The byte that is transferred next lies within the data of the active track.
InTrack == phase = "EXEC" /\ buf.mem = "track" => buf.ptr \in 0 .. Active.room - 1

\* A byte is written only within the sector whose ID the command names.
Wr == buf.ptr \in Entry(Active, sec).off .. Entry(Active, sec).off + Entry(Active, sec).size - 1
WriteStaysInSector ==
  phase = "EXEC" /\ cmd \in WriteCommands => Wr /\ Entry(Active, sec).id = Wanted(command)

\* A transfer always ends: if the CPU stops asking for bytes the overrun timer
\* moves them in its place.
TransferEnds == phase = "EXEC" ~> phase \in {"CMD", "RESULT"}

(***************************************************************************)
(* What comments of the source say of the controller, and the code does    *)
(* not do.                                                                 *)
(***************************************************************************)
\* cap32.h:112: OVERRUN_flag says that the data transfer has timed out.
OnlyRealOverruns == Completed(Transfers) /\ "OR" \in res.st1 => timedOut

\* fdc.c:520: a byte that differs resets Scan Equal Hit.
ScanCompares == Completed({ScanEqual}) /\ differs => "SH" \notin res.st2

\* fdc.c:606: `altered' indicates that the image has been modified.
AlteredWhenDirty == phase = "RESULT" /\ dirty => disk.altered

\* fdc.c:297, 358: during a transfer the buffer pointer points to sector data.
BufferLive == phase = "EXEC" => buf.mem # "freed"
=============================================================================
