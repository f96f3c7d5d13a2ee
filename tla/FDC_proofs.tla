----------------------------- MODULE FDC_proofs -----------------------------
(***************************************************************************)
(* Proofs about FDC for all values of its constants.                       *)
(***************************************************************************)
EXTENDS FDC, WellFoundedInduction, TLAPS

(***************************************************************************)
(* The helpers of fdc.c leave the phase alone or end it, and only a scan   *)
(* touches a flag, SCANFAILED.                                             *)
(***************************************************************************)
IsWork(x) == /\ DOMAIN x = {"phase", "command", "res", "flags", "at", "sec", "trk",
                              "altered", "dirty", "differs", "buf", "gp", "timeout", "delay"}
             /\ DOMAIN x.res = {"st0", "st1", "st2", "id", "pcn"}
Leads(x, y) == /\ IsWork(y)
               /\ y.phase \in {x.phase, "RESULT", "DEAD"}
               /\ y.flags = x.flags

LEMMA FinishLeads == ASSUME NEW x, IsWork(x) PROVE Leads(x, Finish(x))
  BY DEF IsWork, Leads, Finish

LEMMA FailLeads == ASSUME NEW x, NEW bit, IsWork(x) PROVE Leads(x, Fail(x, bit))
<1> DEFINE y == [x EXCEPT !.res.st0 = @ \cup {"AT"}, !.res.st1 = @ \cup {bit}]
<1>1. Leads(x, y)
  BY DEF IsWork, Leads
<1> HIDE DEF y
<1>2. Leads(y, Finish(y))
  BY <1>1, FinishLeads DEF Leads
<1> QED
  BY <1>1, <1>2 DEF Fail, Leads, y

LEMMA DoneLeads == ASSUME NEW x, IsWork(x) PROVE Leads(x, Done(x))
<1> DEFINE y == [x EXCEPT !.res = LoadStatus(@)]
<1>1. DOMAIN LoadStatus(x.res) = DOMAIN x.res
  BY DEF LoadStatus
<1>2. Leads(x, y)
  BY <1>1 DEF IsWork, Leads
<1> HIDE DEF y
<1>3. Leads(y, Finish(y))
  BY <1>2, FinishLeads DEF Leads
<1> QED
  BY <1>2, <1>3 DEF Done, Leads, y

LEMMA FindLeads == ASSUME NEW x, IsWork(x)
                   PROVE  IsWork(find_sector(x)) /\ find_sector(x).phase = x.phase
                          /\ find_sector(x).flags = x.flags
  BY DEF IsWork, find_sector

LEMMA UpdateLeads ==
  ASSUME NEW x, NEW e, NEW b, IsWork(x) PROVE Leads(x, Update(x, e)) /\ Leads(x, Start(x, b))
  BY DEF IsWork, Leads, Update, Start

LEMMA StartLeads == ASSUME NEW x, NEW count, IsWork(x) PROVE Leads(x, StartRead(x, count))
<1> DEFINE e   == Current(x)
           ver == (e.ver + 1) % e.weak
           u   == Update(x, [e EXCEPT !.ver = ver])
<1>1. Leads(x, Dead(x))
  BY DEF IsWork, Leads, Dead
<1>2. Leads(x, u)
  BY UpdateLeads
<1>3. Leads(u, Start(u, Track(x, count, e.off + ver * e.size)))
  BY <1>2, UpdateLeads DEF Leads
<1> HIDE DEF u
<1>4. Leads(x, Start(u, Track(x, count, e.off + ver * e.size)))
  BY <1>2, <1>3 DEF Leads
<1> QED
  BY <1>1, <1>4 DEF StartRead, u

LEMMA WriteLeads == ASSUME NEW x, IsWork(x) PROVE Leads(x, cmd_write(x))
  BY FindLeads, FailLeads, UpdateLeads DEF Leads, cmd_write

\* The search changes R, the sector index and the result, and nothing else.
LEMMA SearchLeads == ASSUME NEW x, NEW step, IsWork(x)
                     PROVE  Leads(x, Search(x, step)) /\ Search(x, step).phase = x.phase
  BY DEF IsWork, Leads, Search, Arrived

LEMMA SearchAndStartLeads ==
  ASSUME NEW x, NEW step, NEW count, IsWork(x)
  PROVE  Leads(x, SearchAndStart(x, step, count))
<1> DEFINE f == Search(x, step)
           g == IF "CM" \in f.res.st2 THEN [f EXCEPT !.command[6] = f.command[4]] ELSE f
<1>1. Leads(x, f)
  BY SearchLeads
<1>2. Leads(f, Fail(f, "ND")) /\ Leads(f, Done(f))
  BY <1>1, FailLeads, DoneLeads DEF Leads
<1>3. Leads(f, Dead(f))
  BY <1>1 DEF Leads, IsWork, Dead
<1>4. Leads(f, g)
  BY <1>1 DEF Leads, IsWork
<1>5. Leads(g, StartRead(g, count))
  BY <1>4, StartLeads DEF Leads
<1>6. Leads(f, StartRead(g, count))
  BY <1>4, <1>5 DEF Leads
<1> HIDE DEF f, g
<1>7. PICK y \in {Fail(f, "ND"), Done(f), Dead(f), StartRead(g, count)} :
         SearchAndStart(x, step, count) = y
  <2>1. \/ ~Found(f)
        \/ Skipped(f) /\ AtEot(f)
        \/ Skipped(f) /\ ~AtEot(f)
        \/ Found(f) /\ ~Skipped(f)
    OBVIOUS
  <2> QED
    BY <2>1 DEF SearchAndStart, StartFound, LastIfMarked, f, g
<1>8. Leads(f, y)
  BY <1>2, <1>3, <1>6
<1> QED
  BY <1>1, <1>7, <1>8 DEF Leads

LEMMA ReadLeads == ASSUME NEW x, IsWork(x) PROVE Leads(x, cmd_read(x))
  BY SearchAndStartLeads DEF cmd_read

LEMMA ReadTrkLeads == ASSUME NEW x, IsWork(x) PROVE Leads(x, cmd_readtrk(x))
<1> DEFINE e == Current(x)
           other == IF e.id = Wanted(x.command) THEN {} ELSE {"ND"}
           r == [x EXCEPT !.res.st1 = @ \cup other \cup e.st1,
                          !.res.st2 = (@ \ {"CM"}) \cup e.st2]
<1>1. Leads(x, r)
  BY DEF Leads, IsWork
<1>2. Leads(r, StartRead(r, DataLength(x.command)))
  BY <1>1, StartLeads DEF Leads
<1> HIDE DEF r
<1>3. Leads(x, StartRead(r, DataLength(x.command)))
  BY <1>1, <1>2 DEF Leads
<1> QED
  BY <1>3 DEF cmd_readtrk, r

\* A scan may also set or clear SCANFAILED.
LeadsScan(x, y) == /\ IsWork(y)
                   /\ y.phase \in {x.phase, "RESULT", "DEAD"}
                   /\ y.flags \subseteq x.flags \cup {"SCANFAILED"}
                   /\ x.flags \subseteq y.flags \cup {"SCANFAILED"}

LEMMA ScanLeads == ASSUME NEW x, IsWork(x) PROVE LeadsScan(x, cmd_scan(x))
<1> DEFINE s == SearchAndStart(x, x.command[8], Unit * 2^x.command[5])
<1>1. Leads(x, s)
  BY SearchAndStartLeads
<1> HIDE DEF s
<1>2. CASE s.phase # "EXEC"
  BY <1>1, <1>2 DEF cmd_scan, StartScan, s, Leads, LeadsScan
<1>3. CASE s.phase = "EXEC"
  BY <1>1, <1>3 DEF cmd_scan, StartScan, s, Leads, LeadsScan, IsWork
<1> QED
  BY <1>2, <1>3
(***************************************************************************)
(* One byte of a transfer.                                                 *)
(***************************************************************************)
LEMMA AdvanceLeads ==
  ASSUME NEW x, NEW past, IsWork(x)
  PROVE  Leads(x, Advance(x, past)) /\ Advance(x, past).phase = x.phase
  BY DEF IsWork, Leads, Advance

LEMMA NextLeads ==
  ASSUME NEW x, NEW step, IsWork(x)
  PROVE  Leads(x, NextR(x, step)) /\ NextR(x, step).phase = x.phase
  BY DEF IsWork, Leads, NextR

LEMMA WriteByteLeads == ASSUME NEW x, IsWork(x) PROVE Leads(x, write_byte(x))
<1> DEFINE w == WrapWrite(x)
           y == [w EXCEPT !.dirty = @ \/ x.buf.mem = "track"]
           z == [y EXCEPT !.altered = TRUE, !.res.st0 = @ \cup {"AT"},
                          !.res.st1 = @ \cup {"EN"}]
<1>1. Leads(x, w)
  BY AdvanceLeads DEF WrapWrite
<1> HIDE DEF w
<1>2. Leads(x, y)
  BY <1>1 DEF Leads, IsWork
<1> HIDE DEF y
<1>3. Leads(y, z)
  BY <1>2 DEF Leads, IsWork
<1> HIDE DEF z
<1>4. Leads(z, Finish(z))
  BY <1>3, FinishLeads DEF Leads
<1>5. Leads(NextR(y, 1), cmd_write(NextR(y, 1))) /\ Leads(y, NextR(y, 1))
  BY <1>2, NextLeads, WriteLeads DEF Leads
<1>6. Leads(x, Finish(z)) /\ Leads(x, cmd_write(NextR(y, 1)))
  BY <1>2, <1>3, <1>4, <1>5 DEF Leads
<1> QED
  BY <1>2, <1>6 DEF write_byte, w, y, z

LEMMA ScanByteLeads == ASSUME NEW x, NEW cmp, IsWork(x) PROVE LeadsScan(x, scan_byte(x, cmp))
<1> DEFINE code    == cmd % 32
           unequal == cmp \in {"below", "above"}
           failed  == \/ code = ScanEqual /\ unequal
                      \/ code = ScanLow   /\ cmp = "above"
                      \/ code = ScanHigh  /\ cmp = "below"
           w == WrapWrite(x)
           y == [w EXCEPT
                  !.res.st2 = IF code \in ScanCommands /\ unequal THEN @ \ {"SH"} ELSE @,
                  !.flags   = IF failed THEN @ \cup {"SCANFAILED"} ELSE @,
                  !.differs = @ \/ unequal]
           z == [y EXCEPT !.res.st2 = @ \cup {"SN"}]
           n == NextR(y, y.command[8])
<1>1. Leads(x, w)
  BY AdvanceLeads DEF WrapWrite
<1> HIDE DEF w
<1>2. LeadsScan(x, y)
  <2> HIDE DEF code, unequal, failed
  <2> QED
    BY <1>1 DEF Leads, LeadsScan, IsWork
<1>3. scan_byte(x, cmp) \in {y, Finish(y), cmd_scan(n), Finish(z)}
  BY DEF scan_byte, w
<1> HIDE DEF y
<1>4. Leads(y, z)
  BY <1>2 DEF Leads, LeadsScan, IsWork
<1> HIDE DEF z
<1>5. Leads(y, Finish(y)) /\ Leads(z, Finish(z))
  BY <1>2, <1>4, FinishLeads DEF Leads, LeadsScan
<1>6. Leads(y, n)
  BY <1>2, NextLeads DEF LeadsScan
<1> HIDE DEF n
<1>7. LeadsScan(n, cmd_scan(n))
  BY <1>6, ScanLeads DEF Leads
<1> QED
  BY <1>2, <1>3, <1>4, <1>5, <1>6, <1>7 DEF Leads, LeadsScan

LEMMA FormatIdLeads == ASSUME NEW x, NEW id, IsWork(x) PROVE Leads(x, format_id(x, id))
<1> DEFINE w == WrapWrite(x)
           y == [w EXCEPT !.gp = IF x.buf.count > 0 THEN Append(@, id) ELSE @]
           last == y.gp[y.command[3]]
           z == [y EXCEPT !.trk = Reformat(y), !.altered = TRUE, !.dirty = TRUE, !.gp = <<>>,
                    !.res.id = [last EXCEPT ![4] = y.command[2]], !.phase = "RESULT"]
<1>1. Leads(x, w)
  BY AdvanceLeads DEF WrapWrite
<1>2. format_id(x, id) \in {y, z}
  BY DEF format_id
<1> HIDE DEF w
<1>3. Leads(x, y)
  BY <1>1 DEF Leads, IsWork
<1> HIDE DEF y, last
<1>4. Leads(y, z)
  BY <1>3 DEF Leads, IsWork
<1> HIDE DEF z
<1> QED
  BY <1>2, <1>3, <1>4 DEF Leads

\* A read that has overrun keeps the flag until its last byte, and then reports it.
ReportsOverrun(y) == y.phase = "RESULT" /\ "AT" \in y.res.st0 /\ "OR" \in y.res.st1
LeadsRead(x, y) == /\ IsWork(y)
                   /\ y.phase \in {x.phase, "RESULT", "DEAD"}
                   /\ y.flags \subseteq x.flags
                   /\ "OVERRUN" \in x.flags =>
                        \/ y.phase = x.phase /\ y.flags = x.flags
                        \/ ReportsOverrun(y)

LEMMA ReadByteLeads == ASSUME NEW x, IsWork(x) PROVE LeadsRead(x, read_byte(x))
<1> DEFINE y == WrapRead(x)
           n == [y EXCEPT !.sec = @ + 1]
           o == [n EXCEPT !.flags = @ \ {"OVERRUN"}, !.res.st0 = @ \cup {"AT"},
                          !.res.st1 = @ \cup {"OR"}]
           m == [n EXCEPT !.command[6] = PrevByte(@)]
           k == [m EXCEPT !.sec = IF @ >= m.trk.sectors THEN 0 ELSE @]
<1>1. Leads(x, y) /\ y.phase = x.phase
  BY AdvanceLeads DEF WrapRead
<1>2. \/ read_byte(x) = y
      \/ "OVERRUN" \in x.flags /\ read_byte(x) = Finish(o)
      \/ /\ "OVERRUN" \notin x.flags
         /\ read_byte(x) \in {Done(m), cmd_readtrk(NextR(k, 1)), cmd_read(NextR(n, 1)), Done(n)}
  BY DEF read_byte, SectorRead, TrackSectorRead, Overran, WrapRead, Advance
<1> HIDE DEF y
<1>3. Leads(y, n)
  BY <1>1 DEF Leads, IsWork
<1> HIDE DEF n
<1>4. Leads(n, m)
  BY <1>1, <1>3 DEF Leads, IsWork
<1> HIDE DEF m
<1>5. Leads(m, k)
  BY <1>4 DEF Leads, IsWork
<1> HIDE DEF k
<1>6. Leads(n, Done(n)) /\ Leads(m, Done(m))
  BY <1>3, <1>4, DoneLeads DEF Leads
<1>7. Leads(n, NextR(n, 1)) /\ Leads(k, NextR(k, 1))
  BY <1>3, <1>5, NextLeads DEF Leads
<1>8. Leads(NextR(n, 1), cmd_read(NextR(n, 1)))
  BY <1>7, ReadLeads DEF Leads
<1>9. Leads(NextR(k, 1), cmd_readtrk(NextR(k, 1)))
  BY <1>7, ReadTrkLeads DEF Leads
<1>10. ASSUME "OVERRUN" \in x.flags
       PROVE  IsWork(Finish(o)) /\ ReportsOverrun(Finish(o)) /\ Finish(o).flags \subseteq x.flags
  <2>1. IsWork(o) /\ "AT" \in o.res.st0 /\ "OR" \in o.res.st1 /\ o.flags \subseteq x.flags
    BY <1>1, <1>3 DEF Leads, IsWork
  <2> HIDE DEF o
  <2> QED
    BY <2>1 DEF IsWork, Finish, ReportsOverrun
<1> HIDE DEF o
<1>11. CASE "OVERRUN" \notin x.flags
  <2>1. Leads(x, n) /\ Leads(x, m) /\ Leads(x, k)
    BY <1>1, <1>3, <1>4, <1>5 DEF Leads
  <2>2. Leads(x, Done(n)) /\ Leads(x, Done(m))
    BY <2>1, <1>6 DEF Leads
  <2>3. Leads(x, cmd_read(NextR(n, 1))) /\ Leads(x, cmd_readtrk(NextR(k, 1)))
    BY <2>1, <1>7, <1>8, <1>9 DEF Leads
  <2> QED
    BY <1>1, <1>2, <1>11, <2>2, <2>3 DEF Leads, LeadsRead
<1>12. CASE "OVERRUN" \in x.flags
  BY <1>1, <1>2, <1>10, <1>12 DEF Leads, LeadsRead, ReportsOverrun
<1> QED
  BY <1>11, <1>12

(***************************************************************************)
(* The handlers.                                                           *)
(***************************************************************************)
LEMMA AccessWork ==
  ASSUME NEW c, DOMAIN res = {"st0", "st1", "st2", "id", "pcn"}
  PROVE  IsWork(Access(c)) /\ Access(c).phase = "EXEC" /\ Access(c).flags = flags
<1>1. DOMAIN InitStatus(c) = {"st0", "st1", "st2", "id", "pcn"}
  BY DEF InitStatus, NoResult
<1> QED
  BY <1>1 DEF IsWork, Access, Transfer

\* The scan command alone sets SCAN.
LeadsHandler(x, y) == /\ IsWork(y)
                      /\ y.phase \in {x.phase, "RESULT", "DEAD"}
                      /\ y.flags \subseteq x.flags \cup {"SCAN", "SCANFAILED"}
                      /\ "SCAN" \in y.flags /\ "SCAN" \notin x.flags => cmd \in ScanCommands
                      /\ cmd = ReadID => y.phase = "RESULT"

LEMMA HandleLeads ==
  ASSUME NEW x, IsWork(x), cmd \in Transfers \cup {ReadID}
  PROVE  LeadsHandler(x, Handle(x))
<1> DEFINE s == [x EXCEPT !.command[8] = IF @ > 2 THEN 2 ELSE @, !.flags = @ \cup {"SCAN"}]
           t == [x EXCEPT !.command[4] = 1, !.sec = 0]
           idx == IF x.sec < x.trk.sectors THEN x.sec ELSE 0
           i == [x EXCEPT !.phase = "RESULT", !.res.id = Entry(x.trk, idx).id, !.sec = idx + 1]
           v == [x EXCEPT !.gp = <<>>]
           w == [count |-> x.command[3], ptr |-> 0, end |-> x.command[3], mem |-> "gp"]
<1>1. Handle(x) \in CASE cmd = ReadTrk         -> {cmd_readtrk(t), Fail(x, "MA")}
                      [] cmd \in WriteCommands -> {cmd_write(x), Fail(x, "MA")}
                      [] cmd \in ReadCommands  -> {cmd_read(x), Fail(x, "MA")}
                      [] cmd = ReadID          -> {i, Fail(x, "MA")}
                      [] cmd = WriteID         -> {Start(v, w)}
                      [] cmd \in ScanCommands  -> {cmd_scan(s), Fail(x, "MA")}
  <2> HIDE DEF s, t, i, v, w
  <2> QED
    BY DEF Handle, Formatted, fdc_readtrk, fdc_write, fdc_read, fdc_readID, fdc_writeID,
         fdc_scan, Transfers, CpuToFdc, ReadCommands, WriteCommands, ScanCommands, s, t, i, v, w
<1>2. Leads(x, Fail(x, "MA")) /\ Fail(x, "MA").phase = "RESULT"
  BY FailLeads DEF Fail, Finish, IsWork
<1>3. Leads(x, t) /\ Leads(t, cmd_readtrk(t))
  <2>1. Leads(x, t)
    BY DEF Leads, IsWork
  <2> HIDE DEF t
  <2> QED
    BY <2>1, ReadTrkLeads DEF Leads
<1>4. IsWork(i) /\ i.phase = "RESULT" /\ i.flags = x.flags
  BY DEF IsWork
<1>5. IsWork(s) /\ s.phase = x.phase /\ s.flags = x.flags \cup {"SCAN"}
  BY DEF IsWork
<1>v. Leads(x, v)
  BY DEF Leads, IsWork
<1> HIDE DEF s, t, i, v
<1>6. LeadsScan(s, cmd_scan(s))
  BY <1>5, ScanLeads
<1>7. Leads(x, cmd_write(x)) /\ Leads(x, cmd_read(x)) /\ Leads(x, v) /\ Leads(v, Start(v, w))
  BY <1>v, WriteLeads, ReadLeads, UpdateLeads DEF Leads
<1>8. CASE cmd \in ScanCommands
  <2>1. Handle(x) \in {cmd_scan(s), Fail(x, "MA")} /\ cmd # ReadID
    BY <1>1, <1>8 DEF ReadTrk, WriteCommands, Write, WriteDel, ReadCommands, Read, ReadDel,
         ReadID, WriteID, ScanCommands, ScanEqual, ScanLow, ScanHigh
  <2> QED
    BY <1>2, <1>5, <1>6, <1>8, <2>1 DEF LeadsHandler, Leads, LeadsScan
<1>9. CASE cmd = ReadID
  <2>1. Handle(x) \in {i, Fail(x, "MA")}
    BY <1>1, <1>9 DEF ReadTrk, WriteCommands, Write, WriteDel, ReadCommands, Read, ReadDel,
         ReadID, WriteID, ScanCommands, ScanEqual, ScanLow, ScanHigh
  <2> QED
    BY <1>2, <1>4, <2>1 DEF LeadsHandler, Leads
<1>10. CASE cmd \in Transfers \ ScanCommands
  <2>1. Handle(x) \in {cmd_readtrk(t), cmd_write(x), cmd_read(x), Start(v, w), Fail(x, "MA")}
        /\ cmd # ReadID
    BY <1>1, <1>10 DEF Transfers, CpuToFdc, ReadTrk, WriteCommands, Write, WriteDel,
         ReadCommands, Read, ReadDel, ReadID, WriteID, ScanCommands, ScanEqual, ScanLow, ScanHigh
  <2> QED
    BY <1>2, <1>3, <1>7, <2>1 DEF LeadsHandler, Leads
<1> QED
  BY <1>8, <1>9, <1>10

LeadsByte(x, y) == /\ IsWork(y)
                   /\ y.phase \in {x.phase, "RESULT", "DEAD"}
                   /\ y.flags \subseteq x.flags \cup {"SCANFAILED"}
                   /\ cmd \in ReadCommands \cup {ReadTrk} => LeadsRead(x, y)

LEMMA ByteLeads ==
  ASSUME NEW x, IsWork(x), cmd \in Transfers, NEW cmps, NEW ids, NEW y \in Byte(x, cmps, ids)
  PROVE  LeadsByte(x, y)
<1> USE DEF Transfers, CpuToFdc, ReadTrk, WriteCommands, Write, WriteDel, ReadCommands,
            Read, ReadDel, WriteID, ScanCommands, ScanEqual, ScanLow, ScanHigh
<1>1. CASE cmd \in ReadCommands \cup {ReadTrk}
  <2>1. y = read_byte(x)
    BY <1>1 DEF Byte
  <2> QED
    BY <2>1, ReadByteLeads DEF LeadsRead, LeadsByte
<1>2. CASE cmd \in WriteCommands
  <2>1. y = write_byte(x)
    BY <1>2 DEF Byte
  <2> QED
    BY <1>2, <2>1, WriteByteLeads DEF Leads, LeadsByte
<1>3. CASE cmd \in ScanCommands
  <2>1. PICK cmp \in cmps : y = scan_byte(x, cmp)
    BY <1>3 DEF Byte
  <2> QED
    BY <1>3, <2>1, ScanByteLeads DEF LeadsScan, LeadsByte
<1>4. CASE cmd = WriteID
  <2>1. PICK id \in ids : y = format_id(x, id)
    BY <1>4 DEF Byte
  <2> QED
    BY <1>4, <2>1, FormatIdLeads DEF Leads, LeadsByte
<1> QED
  BY <1>1, <1>2, <1>3, <1>4

(***************************************************************************)
(* The inductive invariant.  ProtocolInv says nothing of the phase when    *)
(* the controller is idle and nothing of the overrun flag during a read;   *)
(* ControlInv and OverrunInv add what their preservation needs.            *)
(***************************************************************************)
ControlInv == /\ DOMAIN res = {"st0", "st1", "st2", "id", "pcn"}
              /\ phase \in {"CMD", "EXEC", "RESULT", "DEAD"}
              /\ byte_count \in Nat /\ res_length \in Nat
              /\ cmd \in Commands \cup {NoCommand}
              /\ ProtocolInv

OverrunInv == /\ phase = "EXEC" /\ cmd \in ReadCommands \cup {ReadTrk} /\ timedOut
                   => "OVERRUN" \in flags
              /\ OverrunReported

IInv == ControlInv /\ OverrunInv

LEMMA InitInv == Init => IInv
  BY DEF Init, InitWith, IInv, ControlInv, OverrunInv, ProtocolInv, OverrunReported,
         Completed, NoResult, NoCommand

LEMMA TransferWork == ControlInv => IsWork(Transfer)
  BY DEF ControlInv, IsWork, Transfer

\* A byte, by the CPU or by the timer: LeadsByte is all the invariant needs of it.
LEMMA ByteKeeps ==
  ASSUME IInv, phase = "EXEC", NEW x, NEW y, IsWork(x), LeadsByte(x, y), Store(y),
         x.phase = "EXEC", x.flags \in {flags, flags \cup {"OVERRUN"}},
         timedOut' => "OVERRUN" \in x.flags \/ timedOut,
         UNCHANGED <<byte_count, cmd, res_length, led>>
  PROVE  IInv'
<1> USE DEF IInv, ControlInv, LeadsByte, Store
<1>1. ProtocolInv'
  <2>1. cmd \in Transfers /\ byte_count = 0 /\ res_length = ResLength(cmd)
    BY DEF ProtocolInv
  <2>2. res_length = 7
    BY <2>1 DEF ResLength, Transfers, CpuToFdc, ReadTrk, WriteCommands, Write, WriteDel,
         ReadCommands, Read, ReadDel, WriteID, ScanCommands, ScanEqual, ScanLow, ScanHigh,
         Specify, Recalib, Seek, DrvStat, IntStat
  <2>3. "SCAN" \in flags' => "SCAN" \in flags
    OBVIOUS
  <2> QED
    BY <2>1, <2>2, <2>3 DEF ProtocolInv, ResLength
<1>2. OverrunInv'
  <2>1. CASE cmd \in ReadCommands \cup {ReadTrk} /\ timedOut'
    BY <2>1 DEF OverrunInv, OverrunReported, Completed, Reported, LeadsRead, ReportsOverrun,
         ReadCommands
  <2>2. CASE ~(cmd \in ReadCommands \cup {ReadTrk} /\ timedOut')
    BY <2>2 DEF OverrunInv, OverrunReported, Completed, ReadCommands
  <2> QED
    BY <2>1, <2>2
<1> QED
  BY <1>1, <1>2 DEF IsWork

LEMMA TransferByteKeeps == IInv /\ TransferByte => IInv'
<1> SUFFICES ASSUME IInv, TransferByte PROVE IInv'
  OBVIOUS
<1>1. IsWork(Transfer) /\ Transfer.phase = "EXEC" /\ Transfer.flags = flags
  BY TransferWork DEF IInv, TransferByte, Transfer
<1>2. PICK y \in Byte(Transfer, Comparisons \cup {"ignored"}, FormatIds) : Store(y)
  BY DEF TransferByte
<1>3. cmd \in Transfers /\ phase = "EXEC"
  BY DEF TransferByte, IInv, ControlInv, ProtocolInv
<1>4. LeadsByte(Transfer, y)
  BY <1>1, <1>3, ByteLeads
<1>5. UNCHANGED <<byte_count, cmd, res_length, led, timedOut>>
  BY DEF TransferByte
<1>6. timedOut' => "OVERRUN" \in Transfer.flags \/ timedOut
  BY <1>5
<1> QED
  BY <1>1, <1>2, <1>3, <1>4, <1>5, <1>6, ByteKeeps

LEMMA TickKeeps == IInv /\ Tick => IInv'
<1> SUFFICES ASSUME IInv, Tick PROVE IInv'
  OBVIOUS
<1> DEFINE x    == [Transfer EXCEPT !.timeout = @ - 1]
           late == [x EXCEPT !.flags = @ \cup {"OVERRUN"}]
<1>1. cmd \in Transfers /\ phase = "EXEC"
  BY DEF Tick, IInv, ControlInv, ProtocolInv
<1>2. IsWork(Transfer) /\ Transfer.phase = "EXEC" /\ Transfer.flags = flags
  BY TransferWork, <1>1 DEF IInv, Transfer
<1>3. IsWork(x) /\ x.phase = "EXEC" /\ x.flags = flags
  BY <1>2 DEF IsWork
<1>4. UNCHANGED <<byte_count, cmd, res_length, led>>
  BY DEF Tick
<1>5. CASE x.timeout > 0
  <2>1. Store(x) /\ UNCHANGED timedOut
    BY <1>5 DEF Tick
  <2> HIDE DEF x
  <2>2. phase' = "EXEC" /\ flags' = flags /\ res' = x.res
    BY <1>3, <2>1 DEF Store
  <2> QED
    BY <1>1, <1>3, <1>4, <2>1, <2>2 DEF IInv, ControlInv, ProtocolInv, OverrunInv,
         OverrunReported, Completed, IsWork
<1>6. CASE ~(x.timeout > 0)
  <2>1. PICK y \in TimerByte(late) : Store(y)
    BY <1>6 DEF Tick
  <2>2. timedOut'
    BY <1>6 DEF Tick
  <2> HIDE DEF x
  <2>3. IsWork(late) /\ late.phase = "EXEC" /\ late.flags = flags \cup {"OVERRUN"}
    BY <1>3 DEF IsWork
  <2> HIDE DEF late
  <2>4. LeadsByte(late, y)
    BY <1>1, <2>1, <2>3, ByteLeads DEF TimerByte
  <2>5. late.flags \in {flags, flags \cup {"OVERRUN"}} /\ "OVERRUN" \in late.flags
    BY <2>3
  <2> QED
    BY <1>1, <1>4, <2>1, <2>3, <2>4, <2>5, ByteKeeps
<1> QED
  BY <1>5, <1>6

LEMMA IntStatResult ==
  ASSUME fdc_intstat
  PROVE  phase' = "RESULT" /\ res_length' \in {1, 2} /\ DOMAIN res' = DOMAIN res
<1>1. ResLength(IntStat) = 2 /\ InvalidLength = 1
  BY DEF InvalidLength, ResLength, Specify, Recalib, Seek, DrvStat, IntStat
<1>2. CASE SenseDrive = {}
  BY <1>1, <1>2 DEF fdc_intstat
<1>3. CASE SenseDrive # {}
  <2>1. PICK d \in SenseDrive : /\ res_length' = ResLength(IntStat)
                                /\ \E st0 : res' = [res EXCEPT !.st1 = {}, !.pcn = head[d],
                                                               !.st0 = st0]
    BY <1>3, Zenon DEF fdc_intstat
  <2> QED
    BY <1>1, <2>1 DEF fdc_intstat
<1> QED
  BY <1>2, <1>3

LEMMA CommandKeeps == ASSUME NEW val, IInv, ReceiveCommand(val) PROVE IInv'
<1> DEFINE code == IF Bit(val, 32) THEN val - 32 ELSE val
<1> USE DEF IInv, ControlInv, ReceiveCommand
<1>1. phase = "CMD" /\ byte_count = 0 /\ led' = led /\ timedOut' = timedOut
  OBVIOUS
<1>2. "SCAN" \in flags' => "SCAN" \in flags
  OBVIOUS
<1>3. ~("SCAN" \in flags) /\ ~led
  BY <1>1 DEF ProtocolInv
<1>4. CASE code \in Commands \ {IntStat} /\ byte_count' = 1 /\ cmd' = code
           /\ res_length' = ResLength(code) /\ UNCHANGED <<phase, res>>
  <2>1. 1 < CmdLength(code) /\ ResLength(code) \in 0 .. 7
    BY <1>4 DEF CmdLength, ResLength, Commands, Transfers, CpuToFdc, ReadTrk, WriteCommands,
         Write, WriteDel, ReadCommands, Read, ReadDel, WriteID, ScanCommands, ScanEqual,
         ScanLow, ScanHigh, Specify, Recalib, Seek, DrvStat, IntStat, ReadID, NoCommand
  <2> QED
    BY <1>1, <1>2, <1>3, <1>4, <2>1 DEF ProtocolInv, OverrunInv, OverrunReported, Completed
<1>5. CASE code = IntStat /\ cmd' = code /\ fdc_intstat /\ UNCHANGED byte_count
  <2>1. phase' = "RESULT" /\ res_length' \in {1, 2} /\ DOMAIN res' = DOMAIN res
    BY <1>5, IntStatResult
  <2>2. cmd' \in Commands /\ cmd' \notin ReadCommands \cup {ReadTrk}
    BY <1>5 DEF Commands, ReadTrk, ReadCommands, Read, ReadDel, IntStat
  <2> QED
    BY <1>1, <1>2, <1>3, <1>5, <2>1, <2>2
       DEF ProtocolInv, OverrunInv, OverrunReported, Completed
<1>6. CASE /\ phase' = "RESULT" /\ res_length' = InvalidLength
           /\ res' = [res EXCEPT !.st0 = {"IC"}] /\ UNCHANGED <<byte_count, cmd>>
  <2>1. res_length' = 1 /\ DOMAIN res' = DOMAIN res
    BY <1>6 DEF InvalidLength
  <2> QED
    BY <1>1, <1>2, <1>3, <1>6, <2>1 DEF ProtocolInv, OverrunInv, OverrunReported, Completed
<1> QED
  BY <1>4, <1>5, <1>6

LEMMA ExecuteKeeps ==
  ASSUME NEW c, IInv, Execute(c), phase = "CMD", byte_count' = 0,
         UNCHANGED <<cmd, res_length>>, res_length = ResLength(cmd)
  PROVE  IInv'
<1> DEFINE x == Access(c)
           y == IF Ready(UnitOf(c)) THEN Handle(x)
                ELSE IF cmd = ReadID THEN [x EXCEPT !.phase = "RESULT"] ELSE Finish(x)
<1>1. cmd \in Transfers \cup {ReadID} /\ Store(y) /\ led' = TRUE /\ timedOut' = FALSE
  BY DEF Execute
<1>2. IsWork(x) /\ x.phase = "EXEC" /\ x.flags = flags
  BY AccessWork DEF IInv, ControlInv
<1> HIDE DEF x
<1>3. LeadsHandler(x, y)
  <2>1. CASE Ready(UnitOf(c))
    BY <1>1, <1>2, <2>1, HandleLeads
  <2>2. CASE ~Ready(UnitOf(c)) /\ cmd = ReadID
    <3>1. y = [x EXCEPT !.phase = "RESULT"]
      BY <2>2
    <3> QED
      BY <1>2, <3>1 DEF LeadsHandler, IsWork
  <2>3. CASE ~Ready(UnitOf(c)) /\ cmd # ReadID
    BY <1>2, <2>3, FinishLeads DEF LeadsHandler, Leads
  <2> QED
    BY <2>1, <2>2, <2>3
<1> HIDE DEF y
<1>4. "SCAN" \notin flags
  BY DEF IInv, ControlInv, ProtocolInv
<1>5. res_length = 7 /\ cmd \in Commands
  BY <1>1 DEF ResLength, Transfers, CpuToFdc, ReadTrk, WriteCommands, Write, WriteDel,
       ReadCommands, Read, ReadDel, WriteID, ScanCommands, ScanEqual, ScanLow, ScanHigh,
       Specify, Recalib, Seek, DrvStat, IntStat, ReadID, Commands
<1>6. phase' = y.phase /\ flags' = y.flags /\ res' = y.res
  BY <1>1 DEF Store
<1>7. phase' \in {"EXEC", "RESULT", "DEAD"} /\ (cmd = ReadID => phase' = "RESULT")
  BY <1>2, <1>3, <1>6 DEF LeadsHandler
<1>8. "SCAN" \in flags' => cmd \in ScanCommands
  BY <1>2, <1>3, <1>4, <1>6 DEF LeadsHandler
<1>9. ProtocolInv'
  BY <1>1, <1>5, <1>7, <1>8 DEF ProtocolInv, ResLength
<1>10. DOMAIN res' = {"st0", "st1", "st2", "id", "pcn"}
  BY <1>3, <1>6 DEF LeadsHandler, IsWork
<1> QED
  BY <1>1, <1>5, <1>7, <1>9, <1>10
     DEF IInv, ControlInv, OverrunInv, OverrunReported, Completed

LEMMA ParameterKeeps == ASSUME NEW val, IInv, ReceiveParameter(val) PROVE IInv'
<1> DEFINE c == [command EXCEPT ![byte_count] = val]
<1>1. /\ phase = "CMD" /\ byte_count > 0 /\ cmd \in Commands /\ byte_count < CmdLength(cmd)
      /\ res_length = ResLength(cmd) /\ UNCHANGED <<cmd, res_length>>
  BY DEF ReceiveParameter, IInv, ControlInv, ProtocolInv
<1>2. ~led /\ "SCAN" \notin flags
  BY <1>1 DEF IInv, ControlInv, ProtocolInv
<1>3. CASE ~LastParameter
  <2>1. byte_count' = byte_count + 1 /\ UNCHANGED <<phase, res, flags, led, timedOut>>
    BY <1>3 DEF ReceiveParameter
  <2>2. CmdLength(cmd) \in Nat /\ byte_count + 1 # CmdLength(cmd)
    BY <1>3 DEF CmdLength, LastParameter
  <2>3. byte_count' < CmdLength(cmd)
    BY <1>1, <2>1, <2>2 DEF IInv, ControlInv
  <2> QED
    BY <1>1, <1>2, <2>1, <2>3 DEF IInv, ControlInv, ProtocolInv, OverrunInv,
       OverrunReported, Completed, CmdLength
<1>4. CASE LastParameter
  <2>1. byte_count' = 0
    BY <1>4 DEF ReceiveParameter
  <2>2. CASE Execute(c)
    BY <1>1, <2>1, <2>2, ExecuteKeeps
  <2>3. CASE fdc_specify(c)
    BY <1>1, <1>2, <2>1, <2>3 DEF fdc_specify, IInv, ControlInv, ProtocolInv, OverrunInv,
       OverrunReported, Completed
  <2>4. CASE fdc_drvstat(c)
    <3>1. DOMAIN res' = DOMAIN res /\ phase' = "RESULT"
      BY <2>4 DEF fdc_drvstat
    <3>0. cmd = DrvStat
      BY <2>4 DEF fdc_drvstat
    <3>2. res_length = 1 /\ cmd \notin ReadCommands \cup {ReadTrk}
      BY <1>1, <3>0 DEF ResLength, DrvStat, IntStat, Specify, Recalib, Seek, ReadCommands,
         Read, ReadDel, ReadTrk
    <3>3. UNCHANGED <<flags, led, timedOut>>
      BY <2>4 DEF fdc_drvstat
    <3> QED
      BY <1>1, <1>2, <2>1, <3>1, <3>2, <3>3 DEF IInv, ControlInv, ProtocolInv, OverrunInv,
         OverrunReported, Completed
  <2>5. CASE fdc_seek(c)
    <3>1. phase' = "CMD" /\ res' = InitStatus(c)
          /\ UNCHANGED <<flags, led, timedOut>>
      BY <2>5 DEF fdc_seek
    <3>2. DOMAIN res' = {"st0", "st1", "st2", "id", "pcn"}
      BY <3>1 DEF InitStatus, NoResult
    <3> QED
      BY <1>1, <1>2, <2>1, <3>1, <3>2 DEF IInv, ControlInv, ProtocolInv, OverrunInv,
         OverrunReported, Completed
  <2> QED
    BY <1>4, <2>2, <2>3, <2>4, <2>5 DEF ReceiveParameter
<1> QED
  BY <1>3, <1>4

LEMMA OthersKeep ==
  ASSUME IInv, fdc_read_status \/ ReadResult \/ SwitchMotor \/ emulator_reset
               \/ (\E d \in Images \cup {NoDisk} : ChangeDisk(d)) \/ UNCHANGED vars
  PROVE  IInv'
<1> USE DEF IInv, ControlInv, OverrunInv
<1>1. CASE UNCHANGED <<control, res, flags, led, timedOut>>
  BY <1>1 DEF control, ProtocolInv, OverrunReported, Completed, Reported
<1>2. CASE fdc_read_status \/ SwitchMotor \/ (\E d \in Images \cup {NoDisk} : ChangeDisk(d))
           \/ UNCHANGED vars
  BY <1>1, <1>2 DEF fdc_read_status, SwitchMotor, ChangeDisk, vars
<1>3. CASE ReadResult
  <2>1. phase = "RESULT" /\ UNCHANGED <<cmd, res_length, res, timedOut>>
    BY <1>3 DEF ReadResult
  <2>2. byte_count < res_length /\ res_length <= 7
    BY <2>1 DEF ProtocolInv
  <2>3. CASE LastResult
    <3>1. phase' = "CMD" /\ byte_count' = 0 /\ led' = FALSE /\ flags' = flags \ {"SCAN"}
      BY <1>3, <2>3 DEF ReadResult, Finished
    <3> QED
      BY <2>1, <3>1 DEF ProtocolInv, OverrunReported, Completed
  <2>4. CASE ~LastResult
    <3>1. byte_count' = byte_count + 1 /\ UNCHANGED <<phase, led, flags>>
      BY <1>3, <2>4 DEF ReadResult
    <3>2. byte_count' < res_length
      BY <2>2, <2>4, <3>1 DEF LastResult
    <3> QED
      BY <2>1, <2>2, <3>1, <3>2 DEF ProtocolInv, OverrunReported, Completed, Reported
  <2> QED
    BY <2>3, <2>4
<1>4. CASE emulator_reset
  BY <1>4 DEF emulator_reset, ProtocolInv, OverrunReported, Completed, NoResult, NoCommand
<1> QED
  BY <1>2, <1>3, <1>4

LEMMA NextKeeps == IInv /\ [Next]_vars => IInv'
<1> SUFFICES ASSUME IInv, [Next]_vars PROVE IInv'
  OBVIOUS
<1>1. CASE \E val \in Opcodes : ReceiveCommand(val)
  BY <1>1, CommandKeeps
<1>2. CASE byte_count \in 1 .. 8 /\ \E val \in Args[byte_count] : ReceiveParameter(val)
  BY <1>2, ParameterKeeps
<1>3. CASE TransferByte
  BY <1>3, TransferByteKeeps
<1>4. CASE Tick
  BY <1>4, TickKeeps
<1>5. CASE fdc_read_status \/ ReadResult \/ SwitchMotor \/ emulator_reset
           \/ (\E d \in Images \cup {NoDisk} : ChangeDisk(d)) \/ UNCHANGED vars
  BY <1>5, OthersKeep
<1> QED
  BY <1>1, <1>2, <1>3, <1>4, <1>5 DEF Next, CPU, Host

LEMMA Invariance == Spec => []IInv
  BY InitInv, NextKeeps, PTL DEF Spec

LEMMA SwitchesKeep ==
  [Next]_vars /\ motor \in BOOLEAN /\ led \in BOOLEAN => motor' \in BOOLEAN /\ led' \in BOOLEAN
<1> SUFFICES ASSUME [Next]_vars, motor \in BOOLEAN, led \in BOOLEAN
             PROVE  motor' \in BOOLEAN /\ led' \in BOOLEAN
  OBVIOUS
<1>1. CASE UNCHANGED <<motor, led>>
  BY <1>1
<1>2. ASSUME NEW val, ReceiveParameter(val) PROVE motor' = motor /\ led' \in {led, TRUE}
  <2>1. motor' = motor
    BY <1>2 DEF ReceiveParameter
  <2>2. CASE ~LastParameter
    BY <1>2, <2>1, <2>2 DEF ReceiveParameter
  <2>3. CASE LastParameter
    BY <1>2, <2>1, <2>3 DEF ReceiveParameter, Execute, fdc_specify, fdc_drvstat, fdc_seek
  <2> QED
    BY <2>2, <2>3
<1>3. CASE \E val : ReceiveParameter(val)
  BY <1>2, <1>3
<1>4. CASE \E val : ReceiveCommand(val)
  <2>1. UNCHANGED <<motor, led>>
    BY <1>4 DEF ReceiveCommand
  <2> QED
    BY <1>1, <2>1
<1>5. CASE TransferByte \/ Tick \/ fdc_read_status
  BY <1>1, <1>5 DEF TransferByte, Tick, fdc_read_status
<1>6. CASE ReadResult \/ SwitchMotor \/ emulator_reset \/ UNCHANGED vars
  BY <1>6 DEF ReadResult, SwitchMotor, emulator_reset, vars
<1>7. CASE \E d \in Images \cup {NoDisk} : ChangeDisk(d)
  BY <1>1, <1>7 DEF ChangeDisk
<1> QED
  BY <1>3, <1>4, <1>5, <1>6, <1>7 DEF Next, CPU, Host

(***************************************************************************)
(* The control variables keep their types: the byte counter, in particular,*)
(* never exceeds the parameters of the longest command.                    *)
(***************************************************************************)
THEOREM ControlTypes == Spec => []ControlTypeOK
<1> DEFINE Switches == motor \in BOOLEAN /\ led \in BOOLEAN
<1>1. Init => Switches
  BY DEF Init, InitWith
<1>2. Switches /\ [Next]_vars => Switches'
  BY SwitchesKeep
<1>3. IInv /\ Switches => ControlTypeOK
  <2> SUFFICES ASSUME IInv, Switches PROVE ControlTypeOK
    OBVIOUS
  <2>1. CmdLength(cmd) \in 0 .. 9
    BY DEF CmdLength
  <2>2. byte_count \in 0 .. 8
    BY <2>1 DEF IInv, ControlInv, ProtocolInv
  <2> QED
    BY <2>2 DEF IInv, ControlInv, ControlTypeOK
<1> HIDE DEF Switches
<1> QED
  BY <1>1, <1>2, <1>3, Invariance, PTL DEF Spec

(***************************************************************************)
(* The byte counters of fdc_write_data and fdc_read_data stay within the   *)
(* command and result buffers, only transfer commands reach the execution  *)
(* phase, and neither the scan flag nor the drive LED survives a command:  *)
(* for every set of disks, command bytes and interleavings.                *)
(***************************************************************************)
THEOREM ProtocolSafe == Spec => []ProtocolInv
<1>1. IInv => ProtocolInv
  BY DEF IInv, ControlInv
<1> QED
  BY <1>1, Invariance, PTL

(***************************************************************************)
(* A read whose bytes the overrun timer took, even one of them in the      *)
(* middle of a multi-sector transfer, ends abnormally with Overrun.        *)
(***************************************************************************)
THEOREM OverrunSafe == Spec => []OverrunReported
<1>1. IInv => OverrunReported
  BY DEF IInv, OverrunInv
<1> QED
  BY <1>1, Invariance, PTL

(***************************************************************************)
(* The controller implements FDCProtocol: every step is a step of the      *)
(* protocol or leaves its state alone.                                     *)
(***************************************************************************)
LEMMA ModeOf ==
  /\ phase = "CMD" /\ byte_count = 0 => Mode = "idle" /\ Left = 0 /\ Owed = 0
  /\ phase = "CMD" /\ byte_count # 0 =>
       Mode = "params" /\ Left = CmdLength(cmd) - byte_count /\ Owed = res_length
  /\ phase = "RESULT" => Mode = "result" /\ Left = res_length - byte_count /\ Owed = 0
  /\ phase \in {"EXEC", "DEAD"} => Mode = "exec" /\ Left = 0 /\ Owed = res_length
  BY DEF Mode, Left, Owed

LEMMA ModeOfNext ==
  /\ phase' = "CMD" /\ byte_count' = 0 => Mode' = "idle" /\ Left' = 0 /\ Owed' = 0
  /\ phase' = "CMD" /\ byte_count' # 0 =>
       Mode' = "params" /\ Left' = CmdLength(cmd') - byte_count' /\ Owed' = res_length'
  /\ phase' = "RESULT" =>
       Mode' = "result" /\ Left' = res_length' - byte_count' /\ Owed' = 0
  /\ phase' \in {"EXEC", "DEAD"} => Mode' = "exec" /\ Left' = 0 /\ Owed' = res_length'
  BY DEF Mode, Left, Owed, CmdLength

LEMMA SevenResults == cmd \in Transfers => ResLength(cmd) = 7
  BY DEF ResLength, Transfers, CpuToFdc, ReadTrk, WriteCommands, Write, WriteDel,
       ReadCommands, Read, ReadDel, WriteID, ScanCommands, ScanEqual, ScanLow, ScanHigh,
       Specify, Recalib, Seek, DrvStat, IntStat

LEMMA CommandsNotNone == NoCommand \notin Commands
  BY DEF NoCommand, Commands, Transfers, CpuToFdc, ReadTrk, WriteCommands, Write, WriteDel,
       ReadCommands, Read, ReadDel, WriteID, ScanCommands, ScanEqual, ScanLow, ScanHigh,
       Specify, Recalib, Seek, DrvStat, IntStat, ReadID

\* A byte of a transfer leaves it going or ends it with seven result bytes.
LEMMA ByteProtocol ==
  ASSUME IInv, phase = "EXEC", phase' \in {"EXEC", "RESULT", "DEAD"},
         UNCHANGED <<byte_count, cmd, res_length>>
  PROVE  [Protocol!Next]_(Protocol!state)
<1>1. byte_count = 0 /\ res_length = 7
  BY SevenResults DEF IInv, ControlInv, ProtocolInv
<1>2. Mode = "exec" /\ Left = 0 /\ Owed = 7
  BY <1>1, ModeOf
<1>0. Fresh' = Fresh
  BY DEF Fresh
<1>3. CASE phase' = "RESULT"
  <2>1. Mode' = "result" /\ Left' = 7 /\ Owed' = 0
    BY <1>1, <1>3, ModeOfNext
  <2> QED
    BY <1>0, <1>2, <2>1 DEF Protocol!Next, Protocol!EndExec, Protocol!Answer, Protocol!Become
<1>4. CASE phase' \in {"EXEC", "DEAD"}
  <2>1. Mode' = "exec" /\ Left' = 0 /\ Owed' = 7
    BY <1>1, <1>4, ModeOfNext
  <2> QED
    BY <1>0, <1>2, <2>1 DEF Protocol!state
<1> QED
  BY <1>3, <1>4

LEMMA TransferByteProtocol == IInv /\ TransferByte => [Protocol!Next]_(Protocol!state)
<1> SUFFICES ASSUME IInv, TransferByte PROVE [Protocol!Next]_(Protocol!state)
  OBVIOUS
<1>1. IsWork(Transfer) /\ Transfer.phase = "EXEC"
  BY TransferWork DEF IInv, TransferByte, Transfer
<1>2. PICK y \in Byte(Transfer, Comparisons \cup {"ignored"}, FormatIds) : Store(y)
  BY DEF TransferByte
<1>3. cmd \in Transfers /\ phase = "EXEC" /\ UNCHANGED <<byte_count, cmd, res_length>>
  BY DEF TransferByte, IInv, ControlInv, ProtocolInv
<1>4. phase' \in {"EXEC", "RESULT", "DEAD"}
  BY <1>1, <1>2, <1>3, ByteLeads DEF LeadsByte, Store
<1> QED
  BY <1>3, <1>4, ByteProtocol

LEMMA TickProtocol == IInv /\ Tick => [Protocol!Next]_(Protocol!state)
<1> SUFFICES ASSUME IInv, Tick PROVE [Protocol!Next]_(Protocol!state)
  OBVIOUS
<1> DEFINE x    == [Transfer EXCEPT !.timeout = @ - 1]
           late == [x EXCEPT !.flags = @ \cup {"OVERRUN"}]
<1>1. cmd \in Transfers /\ phase = "EXEC" /\ UNCHANGED <<byte_count, cmd, res_length>>
  BY DEF Tick, IInv, ControlInv, ProtocolInv
<1>2. IsWork(x) /\ x.phase = "EXEC"
  BY TransferWork, <1>1 DEF IInv, Transfer, IsWork
<1>3. CASE x.timeout > 0
  <2>1. Store(x)
    BY <1>3 DEF Tick
  <2> QED
    BY <1>1, <1>2, <2>1, ByteProtocol DEF Store
<1>4. CASE ~(x.timeout > 0)
  <2>1. PICK y \in TimerByte(late) : Store(y)
    BY <1>4 DEF Tick
  <2> HIDE DEF x
  <2>2. IsWork(late) /\ late.phase = "EXEC"
    BY <1>2 DEF IsWork
  <2> HIDE DEF late
  <2>3. phase' \in {"EXEC", "RESULT", "DEAD"}
    BY <1>1, <2>1, <2>2, ByteLeads DEF TimerByte, LeadsByte, Store
  <2> QED
    BY <1>1, <2>3, ByteProtocol
<1> QED
  BY <1>3, <1>4

LEMMA CommandProtocol ==
  ASSUME NEW val, IInv, ReceiveCommand(val) PROVE [Protocol!Next]_(Protocol!state)
<1> DEFINE code == IF Bit(val, 32) THEN val - 32 ELSE val
<1>1. phase = "CMD" /\ byte_count = 0 /\ Mode = "idle" /\ Left = 0 /\ Owed = 0
  BY ModeOf DEF ReceiveCommand
<1> USE DEF Protocol!Next, Protocol!Answer, Protocol!Become, Protocol!Reject
<1>2. CASE /\ code \in Commands \ {IntStat} /\ byte_count' = 1 /\ cmd' = code
           /\ res_length' = ResLength(code) /\ phase' = phase
  <2>1. CmdLength(code) - 1 # 0 /\ <<CmdLength(code) - 1, ResLength(code)>> \in Shapes
    BY <1>2 DEF Shapes, CmdLength, Commands, Transfers, CpuToFdc, ReadTrk, WriteCommands,
         Write, WriteDel, ReadCommands, Read, ReadDel, WriteID, ScanCommands, ScanEqual,
         ScanLow, ScanHigh, Specify, Recalib, Seek, DrvStat, IntStat, ReadID, NoCommand
  <2>2. Mode' = "params" /\ Left' = CmdLength(code) - 1 /\ Owed' = ResLength(code)
    BY <1>1, <1>2, ModeOfNext
  <2>3. Fresh' = FALSE
    BY <1>2, CommandsNotNone DEF Fresh
  <2> QED
    BY <1>1, <2>1, <2>2, <2>3 DEF Protocol!Accept
<1>3. CASE code = IntStat /\ cmd' = code /\ fdc_intstat /\ UNCHANGED byte_count
  <2>1. phase' = "RESULT" /\ res_length' \in {1, 2} /\ byte_count' = 0
    BY <1>1, <1>3, IntStatResult
  <2>2. Mode' = "result" /\ Left' \in {1, 2} /\ Owed' = 0
    BY <2>1, ModeOfNext
  <2>3. <<0, 2>> \in Shapes
    <3>1. CmdLength(IntStat) - 1 = 0 /\ ResLength(IntStat) = 2 /\ IntStat \in Commands
      BY DEF CmdLength, ResLength, Commands, Specify, Recalib, Seek, DrvStat, IntStat, ReadID,
         NoCommand, WriteID
    <3> QED
      BY <3>1 DEF Shapes
  <2>4. Fresh' = FALSE
    BY <1>3 DEF Fresh, IntStat, NoCommand
  <2> QED
    BY <1>1, <2>2, <2>3, <2>4 DEF Protocol!Accept
<1>4. CASE phase' = "RESULT" /\ res_length' = InvalidLength /\ UNCHANGED <<byte_count, cmd>>
  <2>1. Mode' = "result" /\ Left' = 1 /\ Owed' = 0
    BY <1>1, <1>4, ModeOfNext DEF InvalidLength
  <2>2. Fresh' = Fresh
    BY <1>4 DEF Fresh
  <2> QED
    BY <1>1, <2>1, <2>2
<1> QED
  BY <1>2, <1>3, <1>4 DEF ReceiveCommand

LEMMA ParameterProtocol ==
  ASSUME NEW val, IInv, ReceiveParameter(val) PROVE [Protocol!Next]_(Protocol!state)
<1> DEFINE c == [command EXCEPT ![byte_count] = val]
<1>1. /\ phase = "CMD" /\ byte_count > 0 /\ byte_count < CmdLength(cmd)
      /\ res_length = ResLength(cmd) /\ UNCHANGED <<cmd, res_length>>
  BY DEF ReceiveParameter, IInv, ControlInv, ProtocolInv
<1>2. CmdLength(cmd) \in Nat /\ byte_count \in Nat
  BY DEF CmdLength, IInv, ControlInv
<1>3. Mode = "params" /\ Left = CmdLength(cmd) - byte_count /\ Owed = res_length
  BY <1>1, ModeOf
<1>0. Fresh' = Fresh
  BY <1>1 DEF Fresh
<1> USE <1>0 DEF Protocol!Next, Protocol!Answer, Protocol!Become, Protocol!Idle, Protocol!Param
<1>4. CASE ~LastParameter
  <2>1. byte_count' = byte_count + 1 /\ phase' = phase
    BY <1>4 DEF ReceiveParameter
  <2>2. Mode' = "params" /\ Left' = Left - 1 /\ Owed' = Owed
    BY <1>1, <1>2, <1>3, <2>1, ModeOfNext
  <2>3. Left > 1
    BY <1>1, <1>2, <1>3, <1>4 DEF LastParameter
  <2> QED
    BY <1>3, <2>2, <2>3
<1>5. CASE LastParameter
  <2>1. byte_count' = 0 /\ Left = 1
    BY <1>1, <1>2, <1>3, <1>5 DEF ReceiveParameter, LastParameter
  <2>2. CASE Execute(c)
    <3>1. res_length = 7
      BY <1>1, <2>2 DEF Execute, ResLength, Transfers, CpuToFdc, ReadTrk, WriteCommands, Write,
         WriteDel, ReadCommands, Read, ReadDel, WriteID, ScanCommands, ScanEqual, ScanLow,
         ScanHigh, Specify, Recalib, Seek, DrvStat, IntStat, ReadID
    <3>2. led' /\ IInv'
      BY <2>2, ParameterKeeps DEF Execute
    <3>3. phase' \in {"EXEC", "DEAD", "RESULT"}
      BY <3>2 DEF IInv, ControlInv, ProtocolInv
    <3>4. CASE phase' = "RESULT"
      <4>1. Mode' = "result" /\ Left' = 7 /\ Owed' = 0
        BY <1>1, <2>1, <3>1, <3>4, ModeOfNext
      <4> QED
        BY <1>3, <2>1, <3>1, <4>1
    <3>5. CASE phase' \in {"EXEC", "DEAD"}
      <4>1. Mode' = "exec" /\ Left' = 0 /\ Owed' = 7
        BY <1>1, <3>1, <3>5, ModeOfNext
      <4> QED
        BY <1>3, <2>1, <3>1, <4>1
    <3> QED
      BY <3>3, <3>4, <3>5
  <2>3. CASE fdc_specify(c) \/ fdc_seek(c)
    <3>1. phase' = "CMD" /\ cmd \in {Specify, Seek, Recalib}
      BY <2>3 DEF fdc_specify, fdc_seek
    <3>2. res_length = 0
      BY <1>1, <3>1 DEF ResLength, DrvStat, IntStat, Specify, Recalib, Seek
    <3>3. Mode' = "idle" /\ Left' = 0 /\ Owed' = 0
      BY <2>1, <3>1, ModeOfNext
    <3> QED
      BY <1>3, <2>1, <3>2, <3>3
  <2>4. CASE fdc_drvstat(c)
    <3>1. phase' = "RESULT" /\ cmd = DrvStat
      BY <2>4 DEF fdc_drvstat
    <3>2. res_length = 1
      BY <1>1, <3>1 DEF ResLength, DrvStat, IntStat, Specify, Recalib, Seek
    <3>0. res_length' = 1
      BY <1>1, <3>2
    <3>3. Mode' = "result" /\ Left' = 1 /\ Owed' = 0
      BY <2>1, <3>0, <3>1, ModeOfNext
    <3> QED
      BY <1>3, <2>1, <3>2, <3>3
  <2> QED
    BY <1>5, <2>2, <2>3, <2>4 DEF ReceiveParameter
<1> QED
  BY <1>4, <1>5

LEMMA OthersProtocol ==
  ASSUME IInv, fdc_read_status \/ ReadResult \/ SwitchMotor \/ emulator_reset
               \/ (\E d \in Images \cup {NoDisk} : ChangeDisk(d)) \/ UNCHANGED vars
  PROVE  [Protocol!Next]_(Protocol!state)
<1> USE DEF Protocol!Next, Protocol!Answer, Protocol!Become, Protocol!Idle, Protocol!Result,
            Protocol!Reset
<1>1. CASE UNCHANGED control
  BY <1>1 DEF control, Protocol!state, Mode, Left, Owed, Fresh, CmdLength
<1>2. CASE fdc_read_status \/ SwitchMotor \/ (\E d \in Images \cup {NoDisk} : ChangeDisk(d))
           \/ UNCHANGED vars
  BY <1>1, <1>2 DEF fdc_read_status, SwitchMotor, ChangeDisk, vars
<1>3. CASE ReadResult
  <2>1. phase = "RESULT" /\ UNCHANGED res_length /\ byte_count \in Nat /\ res_length \in Nat
        /\ byte_count < res_length
    BY <1>3 DEF ReadResult, IInv, ControlInv, ProtocolInv
  <2>2. Mode = "result" /\ Left = res_length - byte_count
    BY <2>1, ModeOf
  <2>0. Fresh' = Fresh
    BY <1>3 DEF ReadResult, Fresh
  <2>3. CASE LastResult
    <3>1. Mode' = "idle" /\ Left' = 0 /\ Owed' = 0
      BY <1>3, <2>3, ModeOfNext DEF ReadResult
    <3> QED
      BY <2>0, <2>1, <2>2, <2>3, <3>1 DEF LastResult
  <2>4. CASE ~LastResult
    <3>1. Mode' = "result" /\ Left' = Left - 1 /\ Owed' = 0
      BY <1>3, <2>1, <2>2, <2>4, ModeOfNext DEF ReadResult
    <3> QED
      BY <2>0, <2>1, <2>2, <2>4, <3>1 DEF LastResult
  <2> QED
    BY <2>3, <2>4
<1>4. CASE emulator_reset
  <2>1. Mode' = "idle" /\ Left' = 0 /\ Owed' = 0
    BY <1>4, ModeOfNext DEF emulator_reset
  <2>2. Fresh' = TRUE
    BY <1>4 DEF emulator_reset, Fresh
  <2> QED
    BY <2>1, <2>2
<1> QED
  BY <1>2, <1>3, <1>4

(***************************************************************************)
(* The controller implements the protocol a program relies on, for every   *)
(* disk, every command byte and every interleaving of CPU, timer and host. *)
(***************************************************************************)
THEOREM Implementation == Spec => ImplementsProtocol
<1>1. Init => Protocol!Init
  BY ModeOf DEF Init, InitWith, Fresh, Protocol!Init
<1>2. IInv /\ [Next]_vars => [Protocol!Next]_(Protocol!state)
  <2> SUFFICES ASSUME IInv, [Next]_vars PROVE [Protocol!Next]_(Protocol!state)
    OBVIOUS
  <2>1. CASE \E val \in Opcodes : ReceiveCommand(val)
    BY <2>1, CommandProtocol
  <2>2. CASE byte_count \in 1 .. 8 /\ \E val \in Args[byte_count] : ReceiveParameter(val)
    BY <2>2, ParameterProtocol
  <2>3. CASE TransferByte
    BY <2>3, TransferByteProtocol
  <2>4. CASE Tick
    BY <2>4, TickProtocol
  <2>5. CASE fdc_read_status \/ ReadResult \/ SwitchMotor \/ emulator_reset
             \/ (\E d \in Images \cup {NoDisk} : ChangeDisk(d)) \/ UNCHANGED vars
    BY <2>5, OthersProtocol
  <2> QED
    BY <2>1, <2>2, <2>3, <2>4, <2>5 DEF Next, CPU, Host
<1> QED
  BY <1>1, <1>2, Invariance, PTL DEF Spec, ImplementsProtocol, Protocol!Spec

(***************************************************************************)
(* The types of the data.  A command at work is a record of Work; a        *)
(* handler leaves one of Going, in which the timer of a transfer runs.     *)
(***************************************************************************)
Registers == [st0 : SUBSET ST0Bits, st1 : SUBSET ST1Bits, st2 : SUBSET ST2Bits,
              id : IDs, pcn : Cylinder]
Buffers == [count : Int, ptr : Int, end : Int, mem : {"none", "gp", "track", "freed"}]
Flags == {"SKIP", "OVERRUN", "SCAN", "SCANFAILED"}
Work == [phase : {"CMD", "EXEC", "RESULT", "DEAD"}, command : [1 .. 8 -> Byte256],
         res : Registers, flags : SUBSET Flags, at : Cylinder \X {0, 1}, sec : Nat,
         trk : TrackType, altered : BOOLEAN, dirty : BOOLEAN, differs : BOOLEAN,
         buf : Buffers, gp : Seq(IDs), timeout : 0 .. InitialTimeout, delay : {0, 1}]

\* What a record of Work consists of.
LEMMA WorkFields ==
  ASSUME NEW x \in Work
  PROVE  /\ x.command \in [1 .. 8 -> Byte256] /\ \A i \in 1 .. 8 : x.command[i] \in Byte256 \cap Nat
         /\ x.res \in Registers /\ x.trk \in TrackType /\ x.buf \in Buffers /\ x.sec \in Nat
         /\ x.flags \subseteq Flags /\ x.gp \in Seq(IDs)
<1>1. x.command \in [1 .. 8 -> Byte256]
  BY DEF Work
<1>2. Byte256 \subseteq Nat
  BY SizeAssumption DEF Byte256
<1>3. \A i \in 1 .. 8 : x.command[i] \in Byte256 \cap Nat
  BY <1>1, <1>2
<1> QED BY <1>1, <1>3 DEF Work

LEMMA SetFields ==
  ASSUME NEW x \in Work
  PROVE  /\ \A r \in Registers : [x EXCEPT !.res = r] \in Work
         /\ \A c \in [1 .. 8 -> Byte256] : [x EXCEPT !.command = c] \in Work
         /\ \A n \in Nat : [x EXCEPT !.sec = n] \in Work
BY DEF Work

LEMMA WantedType == ASSUME NEW c \in [1 .. 8 -> Byte256] PROVE Wanted(c) \in IDs
BY DEF Wanted, IDs

\* What a handler leaves: in the execution phase the timer runs.
Going == {x \in Work : x.phase = "EXEC" => x.timeout > 0}

LEMMA FinishType == ASSUME NEW x \in Work PROVE Finish(x) \in Going
BY WantedType DEF Finish, Going, Work, Registers

LEMMA FailType == ASSUME NEW x \in Work, NEW bit \in ST1Bits PROVE Fail(x, bit) \in Going
<1>1. [x EXCEPT !.res.st0 = @ \cup {"AT"}, !.res.st1 = @ \cup {bit}] \in Work
  BY DEF Work, Registers, ST0Bits
<1> QED BY <1>1, FinishType DEF Fail

LEMMA DoneType == ASSUME NEW x \in Work PROVE Done(x) \in Going
<1>1. LoadStatus(x.res) \in Registers
  BY DEF LoadStatus, Work, Registers, ST0Bits, ST1Bits
<1>2. [x EXCEPT !.res = LoadStatus(@)] \in Work
  BY <1>1 DEF Work
<1> QED BY <1>2, FinishType DEF Done

LEMMA EntryType == ASSUME NEW t \in TrackType, NEW i PROVE Entry(t, i) \in SectorType
<1>1. BlankSector \in SectorType
  BY SizeAssumption DEF BlankSector, SectorType, IDs, Byte256, Nowhere
<1> QED BY <1>1 DEF Entry, TrackType

LEMMA UpdateType ==
  ASSUME NEW x \in Work, NEW e \in SectorType PROVE Update(x, e) \in Work
BY DEF Update, Work, TrackType

LEMMA StartType ==
  ASSUME NEW x \in Work, NEW b \in Buffers PROVE Start(x, b) \in Going
<1>1. InitialTimeout \in 0 .. InitialTimeout /\ InitialTimeout > 0
  BY TimeoutAssumption DEF InitialTimeout
<1> QED BY <1>1 DEF Start, Going, Work

LEMMA LengthType ==
  ASSUME NEW c \in [1 .. 8 -> Byte256] PROVE DataLength(c) \in Int /\ Unit * 2^c[5] \in Int
BY SizeAssumption DEF DataLength, Byte256

LEMMA Induction == ASSUME NEW S, 0 \in S, \A n \in Nat : n \in S => n + 1 \in S
                   PROVE  Nat \subseteq S
<1> SUFFICES ASSUME Nat \ S # {}
             PROVE  FALSE
  OBVIOUS
<1>1. PICK n \in Nat \ S : \A m \in Nat \ S : <<m, n>> \notin OpToRel(<, Nat)
  BY NatLessThanWellFounded, WFMin
<1>2. n - 1 \in Nat /\ n - 1 < n
  OBVIOUS
<1>3. <<n - 1, n>> \in OpToRel(<, Nat)
  BY <1>2 DEF OpToRel
<1>4. n - 1 \in S
  BY <1>1, <1>2, <1>3
<1> QED
  BY <1>2, <1>4

LEMMA StartReadType ==
  ASSUME NEW x \in Work, NEW count \in Int PROVE StartRead(x, count) \in Going
<1> DEFINE e   == Current(x)
           ver == (e.ver + 1) % e.weak
           u   == Update(x, [e EXCEPT !.ver = ver])
           b   == Track(u, count, e.off + ver * e.size)
<1>1. e \in SectorType
  BY EntryType DEF Current, Work
<1>2. CASE e.weak = 0
  BY <1>2 DEF StartRead, Dead, Going, Work
<1>3. CASE e.weak # 0
  <2>1. e.weak \in Nat \ {0} /\ e.ver \in Nat /\ e.size \in Nat /\ e.off \in Int
    BY <1>1, <1>3 DEF SectorType
  <2>2. ver \in Nat
    BY <2>1, SMT
  <2>3. [e EXCEPT !.ver = ver] \in SectorType
    BY <1>1, <2>2 DEF SectorType
  <2>4. u \in Work
    BY <2>3, UpdateType
  <2>5. e.off + ver * e.size \in Int
    BY <2>1, <2>2, SMT
  <2> HIDE DEF e, ver, u
  <2>6. b \in Buffers
    BY <2>4, <2>5 DEF Track, Buffers, Work, TrackType
  <2>7. Start(u, b) \in Going
    BY <2>4, <2>6, StartType
  <2>8. StartRead(x, count) = Start(u, Track(x, count, e.off + ver * e.size))
    BY <1>3 DEF StartRead, e, ver, u
  <2>9. u.trk.size = x.trk.size
    BY DEF u, Update, Work, TrackType
  <2> QED BY <2>7, <2>8, <2>9 DEF Track
<1> QED BY <1>2, <1>3

LEMMA LooksNat == ASSUME NEW x \in Work PROVE Looks(x) \subseteq Nat
<1>1. x.sec \in Nat /\ x.trk.sectors \in Nat
  BY DEF Work, TrackType
<1> QED BY <1>1 DEF Looks, FirstPass

\* The positions that a search looks at.
LEMMA LookType ==
  ASSUME NEW x \in Work, NEW k \in Looks(x)
  PROVE  Look(x, k) \in Nat
<1>1. x.sec \in Nat /\ x.trk.sectors \in Nat
  BY DEF Work, TrackType
<1>2. FirstPass(x) \in Nat
  BY <1>1 DEF FirstPass
<1>3. k \in Nat
  BY <1>1, <1>2 DEF Looks
<1> QED BY <1>1, <1>2, <1>3 DEF Look

\* A set of natural numbers that is not empty has a least element.
LEMMA MinOf ==
  ASSUME NEW S \in SUBSET Nat, S # {}
  PROVE  Min(S) \in S /\ \A y \in S : Min(S) <= y
<1>1. PICK n \in S : \A m \in S : <<m, n>> \notin OpToRel(<, Nat)
  BY NatLessThanWellFounded, WFMin
<1>2. \A m \in S : n <= m
  <2> TAKE m \in S
  <2>1. m \in Nat /\ n \in Nat
    OBVIOUS
  <2>2. ~(m < n)
    BY <1>1, <2>1 DEF OpToRel
  <2> QED BY <2>1, <2>2
<1> QED BY <1>2 DEF Min

LEMMA FindType == ASSUME NEW x \in Work PROVE find_sector(x) \in Work
<1>1. CASE Found(x)
  <2>1. Hits(x) \subseteq Looks(x) /\ Hits(x) # {}
    BY <1>1 DEF Found, Hits
  <2>2. Min(Hits(x)) \in Looks(x)
    BY <2>1, LooksNat, MinOf
  <2>3. Look(x, Min(Hits(x))) \in Nat
    BY <2>2, LookType
  <2> QED BY <1>1, <2>3 DEF find_sector, Work, Registers, ST2Bits
<1>2. CASE ~Found(x)
  <2> DEFINE st2 == find_sector(x).res.st2
  <2>1. find_sector(x) = [x EXCEPT !.sec = 0, !.res.st2 = st2]
    BY <1>2 DEF find_sector, NotFoundIndex, Work, Registers
  <2>2. st2 \in SUBSET ST2Bits
    BY <1>2 DEF find_sector, NotFoundIndex, Work, Registers, ST2Bits
  <2> HIDE DEF st2
  <2>3. [x EXCEPT !.sec = 0, !.res.st2 = st2] \in Work
    BY <2>2 DEF Work, Registers
  <2> QED BY <2>1, <2>3
<1> QED BY <1>1, <1>2

LEMMA CmdWriteType == ASSUME NEW x \in Work PROVE cmd_write(x) \in Going
<1> DEFINE f == find_sector(x)
           e == [Current(f) EXCEPT !.st1 = {}, !.st2 = IF cmd = Write THEN {} ELSE {"CM"}]
           u == Update(f, e)
           b == Track(f, DataLength(x.command), e.off)
<1>1. f \in Work
  BY FindType
<1> HIDE DEF f
<1>2. Current(f) \in SectorType
  BY <1>1, EntryType DEF Current, Work
<1>3. e \in SectorType
  BY <1>2 DEF SectorType, Stored2
<1> HIDE DEF e
<1>4. u \in Work
  BY <1>1, <1>3, UpdateType
<1>5. b \in Buffers
  BY <1>1, <1>3, LengthType DEF Track, Buffers, Work, SectorType, TrackType
<1>6. Start(u, b) \in Going
  BY <1>4, <1>5, StartType
<1>7. Fail(f, "ND") \in Going
  BY <1>1, FailType DEF ST1Bits
<1> QED BY <1>6, <1>7 DEF cmd_write, f, e

LEMMA LoadType == ASSUME NEW x \in Work PROVE LoadSector(x) \in Work
<1> DEFINE f == find_sector(x)
<1>1. f \in Work
  BY FindType
<1> HIDE DEF f
<1>2. Current(f) \in SectorType
  BY <1>1, EntryType DEF Current, Work
<1>3. LoadBits(f) \in Work
  BY <1>1, <1>2 DEF LoadBits, Work, Registers, SectorType, ST1Bits, ST2Bits, Stored1
<1> QED BY <1>1, <1>3 DEF LoadSector, f

LEMMA NextRType ==
  ASSUME NEW x \in Work, NEW step \in Nat PROVE NextR(x, step) \in Work
<1>1. x.command[4] \in Nat
  BY SizeAssumption DEF Work, Byte256
<1>2. (x.command[4] + step) % ByteMod \in Byte256
  BY <1>1, SizeAssumption DEF Byte256
<1> QED BY <1>2 DEF NextR, Work

LEMMA SkipOnType ==
  ASSUME NEW f \in Work, NEW step \in Nat PROVE SkipOn(f, step) \in Work
BY LoadType, NextRType DEF SkipOn

(***************************************************************************)
(* The search is a recursive function: it exists, and what holds of a      *)
(* sector found first and is kept by going on holds at its end.            *)
(***************************************************************************)
LEMMA SearchesDef ==
  ASSUME NEW x, NEW step
  PROVE  /\ Searches(x, step)[0] = LoadSector(x)
         /\ \A n \in 1 .. ByteMod :
              Searches(x, step)[n] = SkipOn(Searches(x, step)[n - 1], step)
<1> DEFINE Goes(g, m) == /\ g[0] = LoadSector(x)
                         /\ \A n \in 1 .. m : g[n] = SkipOn(g[n - 1], step)
           S == {m \in Nat : \E g : Goes(g, m)}
<1>1. 0 \in S
  <2>1. Goes([n \in {0} |-> LoadSector(x)], 0)
    OBVIOUS
  <2> QED BY <2>1
<1>2. \A m \in Nat : m \in S => m + 1 \in S
  <2> TAKE m \in Nat
  <2> HAVE m \in S
  <2>1. PICK g : Goes(g, m)
    OBVIOUS
  <2> DEFINE h == [n \in 0 .. m + 1 |-> IF n = m + 1 THEN SkipOn(g[m], step) ELSE g[n]]
  <2>2. h[0] = LoadSector(x)
    BY <2>1
  <2>3. ASSUME NEW n \in 1 .. m + 1
        PROVE  h[n] = SkipOn(h[n - 1], step)
    <3>1. n \in 0 .. m + 1 /\ n - 1 \in 0 .. m + 1 /\ n - 1 # m + 1
      OBVIOUS
    <3>2. h[n - 1] = g[n - 1]
      BY <3>1
    <3>3. CASE n = m + 1
      <4>1. h[n] = SkipOn(g[m], step) /\ n - 1 = m
        BY <3>1, <3>3
      <4> QED BY <3>2, <4>1
    <3>4. CASE n # m + 1
      <4>1. h[n] = g[n] /\ n \in 1 .. m
        BY <3>1, <3>4
      <4> HIDE DEF h
      <4> QED BY <2>1, <3>2, <4>1
    <3> QED BY <3>3, <3>4
  <2> HIDE DEF h
  <2>4. Goes(h, m + 1)
    BY <2>2, <2>3
  <2> QED BY <2>4
<1>3. ByteMod \in S
  <2> HIDE DEF S
  <2> QED BY <1>1, <1>2, Induction, SizeAssumption
<1>4. PICK g : Goes(g, ByteMod)
  BY <1>3
<1> DEFINE IsAt(a) == a = [n \in 0 .. ByteMod |-> IF n = 0 THEN LoadSector(x)
                                                  ELSE SkipOn(a[n - 1], step)]
           a0 == [n \in 0 .. ByteMod |-> g[n]]
<1>5. IsAt(a0)
  <2>1. ASSUME NEW n \in 0 .. ByteMod
        PROVE  g[n] = IF n = 0 THEN LoadSector(x) ELSE SkipOn(a0[n - 1], step)
    <3>1. CASE n = 0
      BY <1>4, <3>1
    <3>2. CASE n # 0
      <4>1. n \in 1 .. ByteMod /\ n - 1 \in 0 .. ByteMod
        BY <3>2, SizeAssumption
      <4>2. a0[n - 1] = g[n - 1]
        BY <4>1
      <4> HIDE DEF a0
      <4> QED BY <1>4, <3>2, <4>1, <4>2
    <3> QED BY <3>1, <3>2
  <2> QED BY <2>1
<1>6. Searches(x, step) = CHOOSE a : IsAt(a)
  BY DEF Searches
<1>7. IsAt(Searches(x, step))
  <2> HIDE DEF IsAt
  <2> QED BY <1>5, <1>6
<1>8. 0 \in 0 .. ByteMod /\ \A n \in 1 .. ByteMod : n \in 0 .. ByteMod /\ n # 0
  BY SizeAssumption
<1> QED BY <1>7, <1>8

\* What holds of what is loaded first and is kept by going on holds at the end of a search.
LEMMA SearchKeeps ==
  ASSUME NEW x, NEW step, NEW T, LoadSector(x) \in T, \A f \in T : SkipOn(f, step) \in T
  PROVE  Searches(x, step)[ByteMod] \in T
<1> DEFINE S == {n \in Nat : n <= ByteMod => Searches(x, step)[n] \in T}
<1>1. 0 \in S
  BY SearchesDef
<1>2. \A n \in Nat : n \in S => n + 1 \in S
  <2> TAKE n \in Nat
  <2> HAVE n \in S
  <2>1. ASSUME n + 1 <= ByteMod
        PROVE  Searches(x, step)[n + 1] \in T
    <3>1. n <= ByteMod /\ n + 1 \in 1 .. ByteMod /\ (n + 1) - 1 = n
      BY <2>1, SizeAssumption
    <3>2. Searches(x, step)[n + 1] = SkipOn(Searches(x, step)[(n + 1) - 1], step)
      BY <3>1, SearchesDef
    <3> QED BY <3>1, <3>2
  <2> QED BY <2>1
<1>3. ByteMod \in S
  <2> HIDE DEF S
  <2> QED BY <1>1, <1>2, Induction, SizeAssumption
<1> QED BY <1>3, SizeAssumption

LEMMA SearchType ==
  ASSUME NEW x \in Work, NEW step \in Nat PROVE Search(x, step) \in Work
<1>1. Searches(x, step)[ByteMod] \in Work
  BY SearchKeeps, LoadType, SkipOnType
<1> DEFINE f == Searches(x, step)[ByteMod]
           c == [x.command EXCEPT ![4] = f.command[4]]
           r == [x.res EXCEPT !.st1 = f.res.st1, !.st2 = f.res.st2]
<1> HIDE DEF f
<1>2. c \in [1 .. 8 -> Byte256]
  BY <1>1, WorkFields DEF f
<1>3. r \in Registers
  <2>1. f.res \in Registers /\ x.res \in Registers
    BY <1>1, WorkFields DEF f
  <2> QED BY <2>1 DEF Registers
<1>4. f.sec \in Nat
  BY <1>1, WorkFields DEF f
<1>5. Search(x, step) = [x EXCEPT !.command = c, !.sec = f.sec, !.res = r]
  BY DEF Search, Arrived, f, Work, Registers
<1> HIDE DEF c, r
<1> QED BY <1>2, <1>3, <1>4, <1>5 DEF Work

LEMMA StartFoundType ==
  ASSUME NEW f \in Work, NEW count \in Int PROVE StartFound(f, count) \in Going
<1>1. LastIfMarked(f) \in Work
  <2>1. f.command[4] \in Byte256
    BY WorkFields
  <2> QED BY <2>1 DEF LastIfMarked, Work
<1>2. Fail(f, "ND") \in Going /\ Done(f) \in Going /\ StartRead(LastIfMarked(f), count) \in Going
  BY <1>1, FailType, DoneType, StartReadType DEF ST1Bits
<1>3. Dead(f) \in Going
  BY DEF Dead, Going, Work
<1>4. \/ ~Found(f)
      \/ Skipped(f) /\ AtEot(f)
      \/ Skipped(f) /\ ~AtEot(f)
      \/ Found(f) /\ ~Skipped(f)
  OBVIOUS
<1>5. StartFound(f, count) \in {Fail(f, "ND"), Done(f), Dead(f), StartRead(LastIfMarked(f), count)}
  BY <1>4 DEF StartFound
<1> QED BY <1>2, <1>3, <1>5

LEMMA CmdReadType == ASSUME NEW x \in Work PROVE cmd_read(x) \in Going
<1>1. DataLength(x.command) \in Int
  BY LengthType DEF Work
<1> QED BY <1>1, SearchType, StartFoundType DEF cmd_read, SearchAndStart

LEMMA CmdScanType == ASSUME NEW x \in Work PROVE cmd_scan(x) \in Going
<1> DEFINE s == SearchAndStart(x, x.command[8], Unit * 2^x.command[5])
<1>1. Unit * 2^x.command[5] \in Int /\ x.command[8] \in Nat
  BY LengthType, WorkFields
<1>2. s \in Going
  BY <1>1, SearchType, StartFoundType DEF SearchAndStart
<1> HIDE DEF s
<1>3. StartScan(s) \in Going
  <2> DEFINE r == [s.res EXCEPT !.st2 = @ \cup {"SH"}]
             t == [s EXCEPT !.flags = @ \ {"SCANFAILED"}, !.res = r, !.differs = FALSE]
  <2>1. s.res \in Registers /\ s \in Work
    BY <1>2, WorkFields DEF Going
  <2>2. r \in Registers
    BY <2>1 DEF Registers, ST2Bits
  <2> HIDE DEF r
  <2>3. t \in Work /\ t.phase = s.phase /\ t.timeout = s.timeout
    BY <2>1, <2>2 DEF Work
  <2>4. StartScan(s) \in {s, t}
    BY DEF StartScan, r
  <2> QED BY <1>2, <2>3, <2>4 DEF Going
<1> QED BY <1>3 DEF cmd_scan, s

LEMMA CmdReadtrkType == ASSUME NEW x \in Work PROVE cmd_readtrk(x) \in Going
<1> DEFINE e == Current(x)
           other == IF e.id = Wanted(x.command) THEN {} ELSE {"ND"}
           r == [x EXCEPT !.res.st1 = @ \cup other \cup e.st1,
                          !.res.st2 = (@ \ {"CM"}) \cup e.st2]
<1>1. e \in SectorType
  BY EntryType DEF Current, Work
<1>2. e.st1 \subseteq ST1Bits /\ e.st2 \subseteq ST2Bits
  BY <1>1 DEF SectorType, Stored1, Stored2, ST1Bits, ST2Bits
<1>3. other \subseteq ST1Bits
  BY DEF ST1Bits
<1> HIDE DEF e, other
<1>4. r \in Work
  BY <1>2, <1>3 DEF Work, Registers
<1>5. DataLength(x.command) \in Int
  BY LengthType DEF Work
<1> HIDE DEF r
<1>6. StartRead(r, DataLength(x.command)) \in Going
  BY <1>4, <1>5, StartReadType
<1> QED BY <1>6 DEF cmd_readtrk, r, e, other

(***************************************************************************)
(* The types of the execution phase.                                       *)
(***************************************************************************)
LEMMA AdvanceType ==
  ASSUME NEW x \in Work, NEW past
  PROVE  /\ Advance(x, past) \in Going
         /\ Advance(x, past).command = x.command /\ Advance(x, past).gp = x.gp
         /\ Advance(x, past).buf.count = IF x.buf.count > 0 THEN x.buf.count - 1 ELSE -1
<1> DEFINE b == [x.buf EXCEPT !.count = IF @ > 0 THEN @ - 1 ELSE -1, !.ptr = @ + 1]
           r == IF past THEN Rewound(x, b) ELSE b
<1>1. b \in Buffers /\ b.count = IF x.buf.count > 0 THEN x.buf.count - 1 ELSE -1
  <2>1. x.buf \in Buffers
    BY WorkFields
  <2>2. x.buf.count \in Int /\ x.buf.ptr \in Int
    BY <2>1 DEF Buffers
  <2>3. (IF x.buf.count > 0 THEN x.buf.count - 1 ELSE -1) \in Int /\ x.buf.ptr + 1 \in Int
    BY <2>2
  <2> QED BY <2>1, <2>3 DEF Buffers
<1> HIDE DEF b
<1>2. r \in Buffers /\ r.count = b.count
  <2> DEFINE m == IF x.trk.own = "live" THEN "track" ELSE "freed"
  <2>0. m \in {"track", "freed"} /\ b \in Buffers
    BY <1>1
  <2> HIDE DEF m
  <2>1. /\ [b EXCEPT !.ptr = 0, !.mem = m] \in Buffers
        /\ [b EXCEPT !.ptr = 0, !.mem = m].count = b.count
    <3>1. [b EXCEPT !.ptr = 0] \in Buffers /\ [b EXCEPT !.ptr = 0].count = b.count
      BY <2>0 DEF Buffers
    <3>2. \A a \in Buffers : [a EXCEPT !.mem = m] \in Buffers /\ [a EXCEPT !.mem = m].count = a.count
      BY <2>0 DEF Buffers
    <3> QED BY <3>1, <3>2
  <2>2. Rewound(x, b) = [b EXCEPT !.ptr = 0, !.mem = m]
    BY DEF Rewound, m
  <2> QED BY <1>1, <2>1, <2>2
<1>3. OverrunTimeout \in 0 .. InitialTimeout /\ OverrunTimeout > 0
  BY TimeoutAssumption DEF InitialTimeout
<1> HIDE DEF r
<1>4. [x EXCEPT !.buf = r, !.timeout = OverrunTimeout] \in Going
  BY <1>2, <1>3 DEF Going, Work
<1>5. Advance(x, past) = [x EXCEPT !.buf = r, !.timeout = OverrunTimeout]
  BY DEF Advance, r, b
<1> QED BY <1>1, <1>2, <1>4, <1>5 DEF Work

LEMMA WriteByteType == ASSUME NEW x \in Work PROVE write_byte(x) \in Going
<1> DEFINE y == [WrapWrite(x) EXCEPT !.dirty = @ \/ x.buf.mem = "track"]
           z == [y EXCEPT !.altered = TRUE, !.res.st0 = @ \cup {"AT"}, !.res.st1 = @ \cup {"EN"}]
<1>1. WrapWrite(x) \in Going
  BY AdvanceType DEF WrapWrite
<1>2. y \in Going
  BY <1>1 DEF Going, Work
<1> HIDE DEF y
<1>3. y \in Work /\ NextR(y, 1) \in Work
  BY <1>2, NextRType DEF Going
<1>4. z \in Work
  BY <1>3 DEF Work, Registers, ST0Bits, ST1Bits
<1> HIDE DEF z
<1>5. cmd_write(NextR(y, 1)) \in Going /\ Finish(z) \in Going
  BY <1>3, <1>4, CmdWriteType, FinishType
<1> QED BY <1>2, <1>5 DEF write_byte, y, z

LEMMA ScanByteType == ASSUME NEW x \in Work, NEW cmp PROVE scan_byte(x, cmp) \in Going
<1> DEFINE code    == cmd % 32
           unequal == cmp \in {"below", "above"}
           failed  == \/ code = ScanEqual /\ unequal
                      \/ code = ScanLow   /\ cmp = "above"
                      \/ code = ScanHigh  /\ cmp = "below"
           w == WrapWrite(x)
           y == [w EXCEPT
                   !.res.st2 = IF code \in ScanCommands /\ unequal THEN @ \ {"SH"} ELSE @,
                   !.flags   = IF failed THEN @ \cup {"SCANFAILED"} ELSE @,
                   !.differs = @ \/ unequal]
           z == [y EXCEPT !.res.st2 = @ \cup {"SN"}]
<1>1. w \in Going
  BY AdvanceType DEF WrapWrite
<1> HIDE DEF w, code, unequal, failed
<1>2. y \in Going
  <2> DEFINE r == [w.res EXCEPT !.st2 = IF code \in ScanCommands /\ unequal THEN @ \ {"SH"} ELSE @]
             fl == IF failed THEN w.flags \cup {"SCANFAILED"} ELSE w.flags
             d == w.differs \/ unequal
  <2>1. w \in Work /\ w.res \in Registers /\ w.flags \subseteq Flags
    BY <1>1, WorkFields DEF Going
  <2>2. r \in Registers
    BY <2>1 DEF Registers
  <2>3. fl \subseteq Flags
    BY <2>1 DEF Flags
  <2>4. d \in BOOLEAN
    OBVIOUS
  <2>5. y = [w EXCEPT !.res = r, !.flags = fl, !.differs = d]
    OBVIOUS
  <2> HIDE DEF r, fl, d, y
  <2>6. [w EXCEPT !.res = r, !.flags = fl, !.differs = d] \in Going
    BY <1>1, <2>2, <2>3, <2>4 DEF Going, Work
  <2> QED BY <2>5, <2>6
<1> HIDE DEF y
<1>3. y \in Work /\ y.command[8] \in Nat
  BY <1>2, WorkFields DEF Going
<1>4. z \in Work
  BY <1>3 DEF Work, Registers, ST2Bits
<1> HIDE DEF z
<1>5. Finish(y) \in Going /\ Finish(z) \in Going /\ cmd_scan(NextR(y, y.command[8])) \in Going
  BY <1>3, <1>4, NextRType, CmdScanType, FinishType
<1> QED BY <1>2, <1>5 DEF scan_byte, z, y, w, code, unequal, failed

\* Write ID has as many IDs as it has counted down, unless it was told to take none.
Collecting(x) == \/ x.buf.count = -1
                 \/ /\ x.buf.count \in Nat
                    /\ Len(x.gp) = x.command[3] - x.buf.count

LEMMA ReformatType ==
  ASSUME NEW x \in Work, Len(x.gp) = x.command[3]
  PROVE  Reformat(x) \in TrackType
<1> DEFINE n    == x.command[3]
           size == Unit * 2^x.command[2]
           keep == [x.trk EXCEPT !.tab = [i \in DOMAIN @ |-> [@[i] EXCEPT !.off = Nowhere]]]
           old  == IF x.trk.sectors # 0 THEN keep ELSE x.trk
           tab  == [i \in DOMAIN old.tab |-> IF i >= n THEN old.tab[i]
                      ELSE [old.tab[i] EXCEPT !.id = x.gp[i + 1], !.st1 = {}, !.st2 = {},
                                              !.off = i * size]]
           big  == [old EXCEPT !.sectors = 0,
                      !.own = IF @ = "live" /\ x.trk.sectors # 0 THEN "freed" ELSE @]
           new  == [old EXCEPT !.sectors = n, !.own = "live", !.room = size * n, !.tab = tab]
<1>1. x.trk \in TrackType /\ n \in Nat /\ size \in Int
  <2>1. x.command[2] \in Nat /\ x.command[3] \in Nat /\ x.trk \in TrackType
    BY WorkFields
  <2> QED BY <2>1, SizeAssumption
<1>2. keep \in TrackType
  <2> DEFINE kept == [i \in DOMAIN x.trk.tab |-> [x.trk.tab[i] EXCEPT !.off = Nowhere]]
  <2>1. kept \in [0 .. SectorMax - 1 -> SectorType]
    <3>1. x.trk.tab \in [0 .. SectorMax - 1 -> SectorType]
      BY <1>1 DEF TrackType
    <3>2. \A e \in SectorType : [e EXCEPT !.off = Nowhere] \in SectorType
      BY DEF SectorType, Nowhere
    <3> QED BY <3>1, <3>2
  <2>2. keep = [x.trk EXCEPT !.tab = kept]
    OBVIOUS
  <2> HIDE DEF kept, keep
  <2> QED BY <1>1, <2>1, <2>2 DEF TrackType
<1> HIDE DEF keep
<1>3. old \in TrackType
  BY <1>1, <1>2
<1> HIDE DEF old, size, n
<1>4. big \in TrackType
  BY <1>3 DEF TrackType
<1>5. tab \in [0 .. SectorMax - 1 -> SectorType]
  <2>1. DOMAIN old.tab = 0 .. SectorMax - 1
    BY <1>3 DEF TrackType
  <2>2. ASSUME NEW i \in 0 .. SectorMax - 1
        PROVE  tab[i] \in SectorType
    <3>1. old.tab[i] \in SectorType
      BY <1>3 DEF TrackType
    <3>2. CASE i >= n
      BY <2>1, <3>1, <3>2
    <3>3. CASE ~(i >= n)
      <4>1. i + 1 \in 1 .. Len(x.gp)
        BY <1>1, <3>3, SizeAssumption DEF n
      <4>2. x.gp[i + 1] \in IDs
        BY <4>1, WorkFields
      <4>3. i * size \in Int
        BY <1>1, SizeAssumption
      <4>4. [old.tab[i] EXCEPT !.id = x.gp[i + 1], !.st1 = {}, !.st2 = {}, !.off = i * size]
              \in SectorType
        BY <3>1, <4>2, <4>3 DEF SectorType
      <4> QED BY <2>1, <3>3, <4>4
    <3> QED BY <3>2, <3>3
  <2> QED BY <2>1, <2>2
<1> HIDE DEF tab
<1>6. new \in TrackType
  <2>1. size * n \in Int
    BY <1>1
  <2> QED BY <1>1, <1>3, <1>5, <2>1 DEF TrackType
<1>7. Reformat(x) \in {big, new}
  BY DEF Reformat, old, keep, tab, size, n
<1> QED BY <1>4, <1>6, <1>7

LEMMA FormatIdType ==
  ASSUME NEW x \in Work, Collecting(x), NEW id \in IDs
  PROVE  format_id(x, id) \in Going /\ (format_id(x, id).phase = "EXEC" => Collecting(format_id(x, id)))
<1> DEFINE w == WrapWrite(x)
           g == IF x.buf.count > 0 THEN Append(w.gp, id) ELSE w.gp
           y == [w EXCEPT !.gp = g]
           last == y.gp[y.command[3]]
           z == [y EXCEPT !.trk = Reformat(y), !.altered = TRUE, !.dirty = TRUE, !.gp = <<>>,
                    !.res.id = [last EXCEPT ![4] = y.command[2]], !.phase = "RESULT"]
<1>1. /\ w \in Going /\ w.command = x.command /\ w.gp = x.gp
      /\ w.buf.count = IF x.buf.count > 0 THEN x.buf.count - 1 ELSE -1
  BY AdvanceType DEF WrapWrite
<1> HIDE DEF w
<1>2. g \in Seq(IDs)
  BY <1>1, WorkFields
<1>3. y \in Going /\ y.command = x.command /\ y.gp = g /\ y.buf = w.buf
  <2> HIDE DEF g
  <2> QED BY <1>1, <1>2 DEF Going, Work
<1>4. Collecting(y)
  <2>1. x.buf.count \in Int /\ x.command[3] \in Nat /\ x.gp \in Seq(IDs)
    BY WorkFields DEF Buffers
  <2>2. CASE x.buf.count > 0
    <3>1. Len(g) = Len(x.gp) + 1
      BY <1>1, <2>1, <2>2
    <3>2. Len(x.gp) = x.command[3] - x.buf.count /\ Len(x.gp) \in Nat
      BY <2>1, <2>2 DEF Collecting
    <3>3. w.buf.count = x.buf.count - 1
      BY <1>1, <2>2
    <3> HIDE DEF g, y
    <3>4. y.buf.count = x.buf.count - 1 /\ Len(y.gp) = Len(x.gp) + 1 /\ y.command[3] = x.command[3]
      BY <1>3, <3>1, <3>3
    <3>5. y.buf.count \in Nat /\ Len(y.gp) = y.command[3] - y.buf.count
      BY <2>1, <2>2, <3>2, <3>4
    <3> QED BY <3>5 DEF Collecting
  <2>3. CASE ~(x.buf.count > 0)
    <3>1. w.buf.count = -1
      BY <1>1, <2>3
    <3> HIDE DEF y
    <3>2. y.buf.count = -1
      BY <1>3, <3>1
    <3> QED BY <3>2 DEF Collecting
  <2> QED BY <2>2, <2>3
<1>5. CASE y.buf.count # 0
  <2>1. format_id(x, id) = y
    BY <1>5 DEF format_id, w
  <2> QED BY <1>3, <1>4, <2>1
<1>6. CASE y.buf.count = 0
  <2>1. Len(y.gp) = y.command[3] /\ y \in Work /\ y.command[3] \in Nat
    <3>1. y \in Work
      BY <1>3 DEF Going
    <3> HIDE DEF y
    <3>2. y.command[3] \in Nat
      BY <3>1, WorkFields
    <3> QED BY <1>4, <1>6, <3>1, <3>2 DEF Collecting
  <2>2. Reformat(y) \in TrackType
    BY <2>1, ReformatType
  <2>3. last \in IDs /\ y.command[2] \in Byte256
    <3>1. x.buf.count = 1
      <4>1. x.buf.count \in Int
        BY WorkFields DEF Buffers
      <4> HIDE DEF y
      <4> QED BY <1>1, <1>3, <1>6, <4>1
    <3>2. Len(g) = Len(x.gp) + 1 /\ x.gp \in Seq(IDs)
      BY <1>1, <3>1, WorkFields
    <3>3. y.command[3] \in 1 .. Len(y.gp)
      <4> HIDE DEF g, y
      <4> QED BY <1>3, <2>1, <3>2
    <3>4. y.gp \in Seq(IDs)
      <4> HIDE DEF y
      <4> QED BY <2>1, WorkFields
    <3>5. last \in IDs
      <4> HIDE DEF y
      <4> QED BY <3>3, <3>4
    <3> HIDE DEF y
    <3> QED BY <2>1, <3>5, WorkFields
  <2> DEFINE r == [y.res EXCEPT !.id = [last EXCEPT ![4] = y.command[2]]]
             t == Reformat(y)
  <2>4. z = [y EXCEPT !.trk = t, !.altered = TRUE, !.dirty = TRUE, !.gp = <<>>,
                      !.res = r, !.phase = "RESULT"]
    OBVIOUS
  <2>5. format_id(x, id) = z
    BY <1>6 DEF format_id, w
  <2> HIDE DEF y, last
  <2>6. [last EXCEPT ![4] = y.command[2]] \in IDs
    BY <2>3 DEF IDs
  <2>7. r \in Registers
    BY <2>1, <2>6, WorkFields DEF Registers
  <2> HIDE DEF r, t, z
  <2>8. [y EXCEPT !.trk = t, !.altered = TRUE, !.dirty = TRUE, !.gp = <<>>,
                  !.res = r, !.phase = "RESULT"] \in Going
    <3>1. [y EXCEPT !.trk = t, !.altered = TRUE, !.dirty = TRUE] \in Work
      BY <2>1, <2>2 DEF Work, t
    <3>2. \A u \in Work : [u EXCEPT !.gp = <<>>] \in Work
      <4>1. <<>> \in Seq(IDs)
        OBVIOUS
      <4>2. \A u \in Work, e \in Seq(IDs) : [u EXCEPT !.gp = e] \in Work
        BY DEF Work
      <4> QED BY <4>1, <4>2
    <3>3. \A u \in Work : [u EXCEPT !.res = r, !.phase = "RESULT"] \in Going
      BY <2>7 DEF Going, Work
    <3> QED BY <3>1, <3>2, <3>3
  <2>9. z \in Going /\ z.phase = "RESULT"
    BY <2>1, <2>4, <2>8 DEF Work
  <2> QED BY <2>5, <2>9
<1> QED BY <1>5, <1>6

LEMMA SectorReadType ==
  ASSUME NEW n \in Work, n.sec \in Nat PROVE SectorRead(n) \in Going
<1>1. Finish([n EXCEPT !.flags = @ \ {"OVERRUN"}, !.res.st0 = @ \cup {"AT"},
                       !.res.st1 = @ \cup {"OR"}]) \in Going
  <2> DEFINE r == [n.res EXCEPT !.st0 = @ \cup {"AT"}, !.st1 = @ \cup {"OR"}]
             m == [n EXCEPT !.flags = @ \ {"OVERRUN"}, !.res = r]
  <2>1. r \in Registers
    BY WorkFields DEF Registers, ST0Bits, ST1Bits
  <2>2. m \in Work
    BY <2>1 DEF Work
  <2>3. m = [n EXCEPT !.flags = @ \ {"OVERRUN"}, !.res.st0 = @ \cup {"AT"},
                      !.res.st1 = @ \cup {"OR"}]
    BY WorkFields DEF Work, Registers
  <2> HIDE DEF m
  <2> QED BY <2>2, <2>3, FinishType
<1>2. Done(n) \in Going /\ cmd_read(NextR(n, 1)) \in Going
  BY DoneType, NextRType, CmdReadType
<1>3. TrackSectorRead([n EXCEPT !.command[6] = PrevByte(@)]) \in Going
  <2> DEFINE m == [n EXCEPT !.command[6] = PrevByte(@)]
             k == [m EXCEPT !.sec = IF @ >= m.trk.sectors THEN 0 ELSE @]
  <2>1. PrevByte(n.command[6]) \in Byte256
    <3>1. n.command[6] \in Nat
      BY WorkFields
    <3> QED BY <3>1, SizeAssumption DEF PrevByte, Byte256
  <2>2. m \in Work
    BY <2>1 DEF Work
  <2> HIDE DEF m
  <2>3. k \in Work
    BY <2>2 DEF Work
  <2> HIDE DEF k
  <2>4. Done(m) \in Going /\ cmd_readtrk(NextR(k, 1)) \in Going
    BY <2>2, <2>3, DoneType, NextRType, CmdReadtrkType
  <2> QED BY <2>4 DEF TrackSectorRead, m, k
<1> QED BY <1>1, <1>2, <1>3 DEF SectorRead

LEMMA ReadByteType == ASSUME NEW x \in Work PROVE read_byte(x) \in Going
<1>1. WrapRead(x) \in Going
  BY AdvanceType DEF WrapRead
<1>2. [WrapRead(x) EXCEPT !.sec = @ + 1] \in Work
  <2> DEFINE w == WrapRead(x)
  <2>1. w \in Work
    BY <1>1 DEF Going
  <2> HIDE DEF w
  <2>2. w.sec + 1 \in Nat
    BY <2>1, WorkFields
  <2>3. [w EXCEPT !.sec = @ + 1] \in Work
    BY <2>1, <2>2, SetFields
  <2> QED BY <2>3 DEF w
<1> QED BY <1>1, <1>2, SectorReadType, WorkFields DEF read_byte

(***************************************************************************)
(* The types of the command phase.                                         *)
(***************************************************************************)
Typed ==
  /\ command \in [1 .. 8 -> Byte256] /\ res \in Registers /\ flags \subseteq Flags
  /\ atrk \in Cylinder \X {0, 1} /\ sec \in Nat /\ disk \in DiskType
  /\ dirty \in BOOLEAN /\ differs \in BOOLEAN /\ timedOut \in BOOLEAN
  /\ buf \in Buffers /\ gp \in Seq(IDs) /\ timeout \in 0 .. InitialTimeout /\ delay \in {0, 1}
  /\ head \in [Drive -> Cylinder] /\ seekDone \subseteq Drive /\ statusChanged \subseteq Drive
Counted == phase = "EXEC" /\ cmd = WriteID => Collecting(Transfer)
DataInv == Typed /\ (phase = "EXEC" => timeout > 0) /\ Counted

LEMMA NoResultType == NoResult \in Registers
<1>1. 0 \in Byte256 /\ 0 \in Cylinder
  BY SizeAssumption DEF Byte256, Cylinder
<1> QED BY <1>1 DEF NoResult, Registers, IDs

LEMMA StatusType == ASSUME NEW c PROVE InitStatus(c) \in Registers
BY NoResultType DEF InitStatus, Registers, UnitBits, ST0Bits

LEMMA NoDiskType == NoDisk \in DiskType
<1>1. BlankSector \in SectorType
  BY SizeAssumption DEF BlankSector, SectorType, IDs, Byte256, Nowhere
<1>2. BlankTrack \in TrackType
  BY <1>1 DEF BlankTrack, TrackType
<1>3. 0 \in 0 .. TrackMax
  BY SizeAssumption
<1> QED BY <1>2, <1>3 DEF NoDisk, DiskType

\* The record of a command at work.
LEMMA TransferType ==
  ASSUME Typed, phase \in {"CMD", "EXEC", "RESULT", "DEAD"} PROVE Transfer \in Work
<1>1. disk.altered \in BOOLEAN /\ disk.track \in [Cylinder -> [{0, 1} -> TrackType]]
  BY DEF Typed, DiskType
<1>2. disk.track[atrk[1]][atrk[2]] \in TrackType
  <2>1. atrk[1] \in Cylinder /\ atrk[2] \in {0, 1}
    BY DEF Typed
  <2> QED BY <1>1, <2>1
<1> QED BY <1>1, <1>2 DEF Transfer, Work, Typed

LEMMA AccessType ==
  ASSUME Typed, phase \in {"CMD", "EXEC", "RESULT", "DEAD"}, NEW c \in [1 .. 8 -> Byte256]
  PROVE  Access(c) \in Work /\ Access(c).command = c
<1>1. Reach(c) \in Cylinder \X {0, 1}
  BY DEF Reach, Typed, DriveA, Drive
<1>2. disk.track[Reach(c)[1]][Reach(c)[2]] \in TrackType
  <2>1. Reach(c)[1] \in Cylinder /\ Reach(c)[2] \in {0, 1}
    BY <1>1
  <2> QED BY <2>1 DEF Typed, DiskType
<1> DEFINE at == IF Ready(UnitOf(c)) THEN Reach(c) ELSE Transfer.at
           trk == IF Ready(UnitOf(c)) THEN disk.track[Reach(c)[1]][Reach(c)[2]] ELSE Transfer.trk
<1>3. Transfer \in Work
  BY TransferType
<1>4. at \in Cylinder \X {0, 1} /\ trk \in TrackType
  BY <1>1, <1>2, <1>3 DEF Work
<1>5. Access(c) = [Transfer EXCEPT !.phase = "EXEC", !.command = c, !.res = InitStatus(c),
                                   !.at = at, !.trk = trk]
  BY DEF Access
<1> HIDE DEF at, trk
<1>6. InitStatus(c) \in Registers
  BY StatusType
<1> DEFINE t == Transfer
           i == InitStatus(c)
<1> HIDE DEF t, i
<1>7. [t EXCEPT !.phase = "EXEC", !.command = c, !.res = i, !.at = at, !.trk = trk] \in Work
  BY <1>3, <1>4, <1>6 DEF Work, t, i
<1>8. [t EXCEPT !.phase = "EXEC", !.command = c, !.res = i, !.at = at, !.trk = trk].command = c
  BY <1>3 DEF Work, t
<1> QED BY <1>5, <1>7, <1>8 DEF t, i

\* A command that is carried out by fdc_writeID has no ID yet.
LEMMA HandleType ==
  ASSUME NEW x \in Work, cmd \in Transfers \cup {ReadID}
  PROVE  /\ Handle(x) \in Going
         /\ cmd = WriteID => Collecting(Handle(x))
<1> DEFINE s == [x EXCEPT !.command[8] = IF @ > 2 THEN 2 ELSE @, !.flags = @ \cup {"SCAN"}]
           t == [x EXCEPT !.command[4] = 1, !.sec = 0]
           idx == IF x.sec < x.trk.sectors THEN x.sec ELSE 0
           i == [x EXCEPT !.phase = "RESULT", !.res.id = Entry(x.trk, idx).id, !.sec = idx + 1]
           v == [x EXCEPT !.gp = <<>>]
           w == [count |-> x.command[3], ptr |-> 0, end |-> x.command[3], mem |-> "gp"]
<1>1. Handle(x) \in CASE cmd = ReadTrk         -> {cmd_readtrk(t), Fail(x, "MA")}
                      [] cmd \in WriteCommands -> {cmd_write(x), Fail(x, "MA")}
                      [] cmd \in ReadCommands  -> {cmd_read(x), Fail(x, "MA")}
                      [] cmd = ReadID          -> {i, Fail(x, "MA")}
                      [] cmd = WriteID         -> {Start(v, w)}
                      [] cmd \in ScanCommands  -> {cmd_scan(s), Fail(x, "MA")}
  <2> HIDE DEF s, t, i, v, w
  <2> QED
    BY DEF Handle, Formatted, fdc_readtrk, fdc_write, fdc_read, fdc_readID, fdc_writeID,
         fdc_scan, Transfers, CpuToFdc, ReadCommands, WriteCommands, ScanCommands, s, t, i, v, w
<1>2. Fail(x, "MA") \in Going /\ cmd_write(x) \in Going /\ cmd_read(x) \in Going
  BY FailType, CmdWriteType, CmdReadType DEF ST1Bits
<1>3. cmd_readtrk(t) \in Going
  <2>1. 1 \in Byte256 /\ 0 \in Nat
    BY SizeAssumption DEF Byte256
  <2>2. t \in Work
    BY <2>1 DEF Work
  <2> QED BY <2>2, CmdReadtrkType
<1>4. cmd_scan(s) \in Going
  <2>1. x.command[8] \in Byte256 \cap Nat
    BY WorkFields
  <2>2. (IF x.command[8] > 2 THEN 2 ELSE x.command[8]) \in Byte256
    BY <2>1, SizeAssumption DEF Byte256
  <2>3. s \in Work
    BY <2>2 DEF Work, Flags
  <2> QED BY <2>3, CmdScanType
<1>5. i \in Going
  <2>1. Entry(x.trk, idx).id \in IDs
    <3>1. x.trk \in TrackType
      BY WorkFields
    <3> QED BY <3>1, EntryType DEF SectorType
  <2>2. idx + 1 \in Nat
    BY WorkFields
  <2> DEFINE r == [x.res EXCEPT !.id = Entry(x.trk, idx).id]
  <2>3. r \in Registers
    BY <2>1, WorkFields DEF Registers
  <2>4. i = [x EXCEPT !.phase = "RESULT", !.res = r, !.sec = idx + 1]
    OBVIOUS
  <2> HIDE DEF r, idx
  <2>5. [x EXCEPT !.phase = "RESULT", !.res = r, !.sec = idx + 1] \in Going
    BY <2>2, <2>3 DEF Work, Going
  <2> QED BY <2>4, <2>5
<1>6. v \in Work /\ w \in Buffers /\ x.command[3] \in Nat
  <2>1. <<>> \in Seq(IDs)
    OBVIOUS
  <2>2. v \in Work
    BY <2>1 DEF Work
  <2>3. x.command[3] \in Nat
    BY WorkFields
  <2> QED BY <2>2, <2>3 DEF Buffers
<1>7. Start(v, w) \in Going
  BY <1>6, StartType
<1>8. Collecting(Start(v, w))
  <2>1. Start(v, w).buf = w /\ Start(v, w).gp = <<>> /\ Start(v, w).command = x.command
    BY DEF Start, Work
  <2> HIDE DEF v
  <2>2. Start(v, w).buf.count = x.command[3] /\ Len(Start(v, w).gp) = 0
    BY <2>1
  <2> QED BY <1>6, <2>1, <2>2 DEF Collecting
<1> HIDE DEF s, t, i, v, w
<1>9. CASE cmd = WriteID
  <2>1. Handle(x) = Start(v, w)
    BY <1>1, <1>9 DEF ReadTrk, WriteCommands, Write, WriteDel, ReadCommands, Read, ReadDel,
       ReadID, WriteID, ScanCommands, ScanEqual, ScanLow, ScanHigh
  <2> QED BY <1>7, <1>8, <2>1
<1>10. CASE cmd # WriteID
  <2>1. cmd \in {ReadTrk, ReadID} \cup WriteCommands \cup ReadCommands \cup ScanCommands
    BY <1>10 DEF Transfers, CpuToFdc
  <2>2. Handle(x) \in {cmd_readtrk(t), Fail(x, "MA"), cmd_write(x), cmd_read(x), i, cmd_scan(s)}
    BY <1>1, <2>1, <1>10 DEF ReadTrk, WriteCommands, Write, WriteDel, ReadCommands, Read, ReadDel,
       ReadID, WriteID, ScanCommands, ScanEqual, ScanLow, ScanHigh
  <2> QED BY <1>2, <1>3, <1>4, <1>5, <1>10, <2>2
<1> QED BY <1>9, <1>10

\* A byte of a transfer.
LEMMA ByteType ==
  ASSUME NEW x \in Work, cmd \in Transfers, cmd = WriteID => Collecting(x),
         NEW cmps, NEW ids \in SUBSET IDs, NEW y \in Byte(x, cmps, ids)
  PROVE  y \in Going /\ (cmd = WriteID /\ y.phase = "EXEC" => Collecting(y))
<1> USE DEF Byte, ReadTrk, WriteCommands, Write, WriteDel, ReadCommands, Read, ReadDel,
            WriteID, ScanCommands, ScanEqual, ScanLow, ScanHigh
<1>1. CASE cmd \in ReadCommands \cup {ReadTrk}
  BY <1>1, ReadByteType
<1>2. CASE cmd \in WriteCommands
  BY <1>2, WriteByteType
<1>3. CASE cmd \in ScanCommands
  <2>1. PICK cmp \in cmps : y = scan_byte(x, cmp)
    BY <1>3
  <2> QED BY <1>3, <2>1, ScanByteType
<1>4. CASE cmd = WriteID
  <2>1. PICK id \in ids : y = format_id(x, id)
    BY <1>4
  <2> QED BY <1>4, <2>1, FormatIdType
<1> QED BY <1>1, <1>2, <1>3, <1>4 DEF Transfers, CpuToFdc

\* Making a command at work the next state keeps the types.
LEMMA StoreType ==
  ASSUME NEW x \in Going, Store(x), disk \in DiskType
  PROVE  /\ command' \in [1 .. 8 -> Byte256] /\ res' \in Registers /\ flags' \subseteq Flags
         /\ atrk' \in Cylinder \X {0, 1} /\ sec' \in Nat /\ disk' \in DiskType
         /\ dirty' \in BOOLEAN /\ differs' \in BOOLEAN
         /\ buf' \in Buffers /\ gp' \in Seq(IDs) /\ timeout' \in 0 .. InitialTimeout
         /\ delay' \in {0, 1} /\ phase' = x.phase
         /\ phase' = "EXEC" => timeout' > 0
         /\ Collecting(x) => Collecting(Transfer)'
<1>1. x \in Work /\ (x.phase = "EXEC" => x.timeout > 0)
  BY DEF Going
<1>2. disk' \in DiskType
  <2> DEFINE c == x.at[1]
             s == x.at[2]
             all == [disk.track EXCEPT ![c][s] = x.trk]
  <2>1. c \in Cylinder /\ s \in {0, 1} /\ x.trk \in TrackType /\ x.altered \in BOOLEAN
    BY <1>1 DEF Work
  <2>2. disk' = [disk EXCEPT !.track = all, !.altered = x.altered]
    BY DEF Store, DiskType
  <2> HIDE DEF c, s
  <2>3. all \in [Cylinder -> [{0, 1} -> TrackType]]
    BY <2>1 DEF DiskType
  <2> HIDE DEF all
  <2>4. [disk EXCEPT !.track = all, !.altered = x.altered] \in DiskType
    BY <2>1, <2>3 DEF DiskType
  <2> QED BY <2>2, <2>4
<1>3. Collecting(x) => Collecting(Transfer)'
  BY DEF Collecting, Transfer, Store
<1> QED BY <1>1, <1>2, <1>3 DEF Store, Work

LEMMA InitData == Init => DataInv
<1> SUFFICES ASSUME Init PROVE DataInv
  OBVIOUS
<1>1. 0 \in Byte256 /\ 0 \in Cylinder /\ 0 \in 0 .. InitialTimeout
  BY SizeAssumption, TimeoutAssumption DEF Byte256, Cylinder, InitialTimeout
<1>2. res \in Registers /\ disk \in DiskType
  BY NoResultType, NoDiskType DEF Init, InitWith
<1>3. gp \in Seq(IDs)
  BY DEF Init, InitWith
<1>4. buf \in Buffers /\ command \in [1 .. 8 -> Byte256] /\ head \in [Drive -> Cylinder]
  BY <1>1 DEF Init, InitWith, NoBuffer, Buffers
<1>5. atrk \in Cylinder \X {0, 1} /\ timeout \in 0 .. InitialTimeout /\ sec \in Nat
  BY <1>1 DEF Init, InitWith
<1>6. Typed
  BY <1>2, <1>3, <1>4, <1>5 DEF Init, InitWith, Typed
<1> QED BY <1>6 DEF Init, InitWith, DataInv, Counted

LEMMA TransferByteTypes == DataInv /\ TransferByte /\ cmd \in Transfers => DataInv'
<1> SUFFICES ASSUME DataInv, TransferByte, cmd \in Transfers PROVE DataInv'
  OBVIOUS
<1>1. phase = "EXEC" /\ UNCHANGED <<cmd, seekDone, statusChanged, head, timedOut>>
  BY DEF TransferByte
<1>2. Transfer \in Work /\ disk \in DiskType
  BY <1>1, TransferType DEF DataInv, Typed
<1>3. PICK y \in Byte(Transfer, Comparisons \cup {"ignored"}, FormatIds) : Store(y)
  BY DEF TransferByte
<1>4. y \in Going /\ (cmd = WriteID /\ y.phase = "EXEC" => Collecting(y))
  BY <1>1, <1>2, <1>3, ByteType, DiskAssumption DEF DataInv, Counted
<1>5. Typed'
  BY <1>1, <1>2, <1>3, <1>4, StoreType DEF DataInv, Typed
<1>6. Counted' /\ (phase' = "EXEC" => timeout' > 0)
  BY <1>1, <1>2, <1>3, <1>4, StoreType DEF Counted
<1> QED BY <1>5, <1>6 DEF DataInv

LEMMA TickTypes == DataInv /\ Tick /\ cmd \in Transfers => DataInv'
<1> SUFFICES ASSUME DataInv, Tick, cmd \in Transfers PROVE DataInv'
  OBVIOUS
<1> DEFINE x    == [Transfer EXCEPT !.timeout = @ - 1]
           late == [x EXCEPT !.flags = @ \cup {"OVERRUN"}]
<1>1. phase = "EXEC" /\ UNCHANGED <<cmd, seekDone, statusChanged, head>>
  BY DEF Tick
<1>2. Transfer \in Work /\ disk \in DiskType
  BY <1>1, TransferType DEF DataInv, Typed
<1>3. timeout - 1 \in 0 .. InitialTimeout
  BY <1>1, TimeoutAssumption DEF DataInv, Typed, InitialTimeout
<1>4. x \in Work /\ late \in Work /\ (Collecting(Transfer) => Collecting(x) /\ Collecting(late))
  <2>1. x = [Transfer EXCEPT !.timeout = timeout - 1]
    BY DEF Transfer
  <2>2. x \in Work
    BY <1>2, <1>3, <2>1 DEF Work
  <2>3. late \in Work
    <3> HIDE DEF x
    <3> QED BY <2>2 DEF Work, Flags
  <2>4. Collecting(Transfer) => Collecting(x) /\ Collecting(late)
    BY <1>2 DEF Collecting, Work
  <2> QED BY <2>2, <2>3, <2>4
<1> HIDE DEF late
<1>5. CASE x.timeout > 0
  <2>1. Store(x) /\ UNCHANGED timedOut
    BY <1>5 DEF Tick
  <2> HIDE DEF x
  <2>2. x \in Going
    BY <1>4, <1>5 DEF Going
  <2>3. Typed'
    BY <1>1, <1>2, <2>1, <2>2, StoreType DEF DataInv, Typed
  <2>4. Counted' /\ (phase' = "EXEC" => timeout' > 0)
    BY <1>1, <1>2, <1>4, <2>1, <2>2, StoreType DEF Counted, DataInv
  <2> QED BY <2>3, <2>4 DEF DataInv
<1>6. CASE ~(x.timeout > 0)
  <2>1. PICK y \in TimerByte(late) : Store(y)
    BY <1>6 DEF Tick, late
  <2>2. timedOut' = TRUE
    BY <1>6 DEF Tick
  <2> HIDE DEF x
  <2>3. {<<FF, FF, FF, FF>>} \in SUBSET IDs
    BY SizeAssumption DEF FF, IDs, Byte256
  <2>4. y \in Going /\ (cmd = WriteID /\ y.phase = "EXEC" => Collecting(y))
    BY <1>1, <1>4, <2>1, <2>3, ByteType DEF TimerByte, DataInv, Counted
  <2>5. Typed'
    BY <1>1, <1>2, <2>1, <2>2, <2>4, StoreType DEF DataInv, Typed
  <2>6. Counted' /\ (phase' = "EXEC" => timeout' > 0)
    BY <1>1, <1>2, <2>1, <2>4, StoreType DEF Counted
  <2> QED BY <2>5, <2>6 DEF DataInv
<1> QED BY <1>5, <1>6

LEMMA IntStatTypes ==
  ASSUME Typed, fdc_intstat
  PROVE  res' \in Registers /\ seekDone' \subseteq Drive /\ statusChanged' \subseteq Drive
         /\ phase' = "RESULT"
<1>1. CASE SenseDrive = {}
  <2>1. /\ res' = [res EXCEPT !.st0 = {"IC"}] /\ UNCHANGED <<seekDone, statusChanged>>
        /\ phase' = "RESULT"
    BY <1>1 DEF fdc_intstat
  <2>2. res' \in Registers
    BY <2>1 DEF Typed, Registers, ST0Bits
  <2> QED BY <2>1, <2>2 DEF Typed
<1>2. CASE SenseDrive # {}
  <2>1. SenseDrive \subseteq Drive
    <3>1. ASSUME NEW S \in SUBSET Drive, S # {} PROVE Min(S) \in Drive
      <4>1. S \in SUBSET Nat
        BY DEF Drive
      <4> QED BY <3>1, <4>1, MinOf
    <3> QED BY <3>1 DEF SenseDrive, Typed
  <2>2. PICK d \in SenseDrive :
          /\ res' = [res EXCEPT !.st1 = {}, !.pcn = head[d],
               !.st0 = IF d \in seekDone
                       THEN (@ \ {"HD", "US1", "US0"}) \cup {"SE"} \cup UnitOf0(d)
                       ELSE {"IC", "AT"} \cup UnitOf0(d) \cup
                            (IF Ready(d) THEN {} ELSE {"NR"})]
          /\ seekDone' = seekDone \ {d} /\ statusChanged' = statusChanged \ {d}
    BY <1>2, Zenon DEF fdc_intstat
  <2>3. head[d] \in Cylinder
    BY <2>1 DEF Typed
  <2>4. UnitOf0(d) \subseteq ST0Bits
    BY DEF UnitOf0, ST0Bits
  <2>5. res' \in Registers
    <3> DEFINE st == IF d \in seekDone
                     THEN (res.st0 \ {"HD", "US1", "US0"}) \cup {"SE"} \cup UnitOf0(d)
                     ELSE {"IC", "AT"} \cup UnitOf0(d) \cup
                          (IF Ready(d) THEN {} ELSE {"NR"})
    <3>1. st \subseteq ST0Bits
      BY <2>4 DEF Typed, Registers, ST0Bits
    <3>2. res' = [res EXCEPT !.st1 = {}, !.pcn = head[d], !.st0 = st]
      BY <2>2
    <3> HIDE DEF st
    <3> QED BY <2>3, <3>1, <3>2 DEF Typed, Registers
  <2> QED BY <2>2, <2>5 DEF Typed, fdc_intstat
<1> QED BY <1>1, <1>2

LEMMA CommandTypes == ASSUME NEW val, DataInv, ReceiveCommand(val) PROVE DataInv'
<1> DEFINE code == IF Bit(val, 32) THEN val - 32 ELSE val
<1>1. /\ UNCHANGED <<command, timeout, delay, buf, gp, drives, timedOut, differs>>
      /\ flags' \subseteq Flags /\ phase = "CMD"
  BY DEF ReceiveCommand, DataInv, Typed, Flags
<1>2. /\ res' \in Registers /\ seekDone' \subseteq Drive /\ statusChanged' \subseteq Drive
      /\ phase' # "EXEC"
  <2>1. CASE UNCHANGED <<phase, res, seekDone, statusChanged>>
    BY <1>1, <2>1 DEF DataInv, Typed
  <2>2. CASE fdc_intstat
    BY <2>2, IntStatTypes DEF DataInv
  <2>3. CASE phase' = "RESULT" /\ res' = [res EXCEPT !.st0 = {"IC"}]
             /\ UNCHANGED <<seekDone, statusChanged>>
    BY <2>3 DEF DataInv, Typed, Registers, ST0Bits
  <2> QED BY <2>1, <2>2, <2>3 DEF ReceiveCommand
<1> QED BY <1>1, <1>2 DEF DataInv, Typed, Counted, drives

LEMMA SeekTypes ==
  ASSUME Typed, NEW c \in [1 .. 8 -> Byte256], fdc_seek(c)
  PROVE  /\ command' \in [1 .. 8 -> Byte256] /\ res' \in Registers
         /\ head' \in [Drive -> Cylinder] /\ seekDone' \subseteq Drive
<1> DEFINE to == IF cmd = Recalib THEN [c EXCEPT ![2] = 0] ELSE c
<1>1. to \in [1 .. 8 -> Byte256]
  BY SizeAssumption DEF Byte256
<1>2. UnitOf(c) \in Drive
  <2>1. c[1] \in Nat
    BY SizeAssumption DEF Byte256
  <2> QED BY <2>1 DEF UnitOf, Drive
<1>3. Limited(to[2]) \in Cylinder
  <2>1. to[2] \in Nat /\ TrackMax - 1 \in Nat
    BY <1>1, SizeAssumption DEF Byte256
  <2> HIDE DEF to
  <2> DEFINE S == {to[2], TrackMax - 1}
  <2>2. Min(S) \in S /\ \A y \in S : Min(S) <= y
    BY <2>1, MinOf
  <2>3. Limited(to[2]) = Min(S)
    BY DEF Limited
  <2>4. Limited(to[2]) \in {to[2], TrackMax - 1} /\ Limited(to[2]) <= TrackMax - 1
    BY <2>2, <2>3
  <2>5. Limited(to[2]) \in Nat
    BY <2>1, <2>4
  <2> QED BY <2>1, <2>4, <2>5 DEF Cylinder
<1>4. command' = to /\ res' = InitStatus(c) /\ seekDone' = seekDone \cup {UnitOf(c)}
      /\ head' = IF Ready(UnitOf(c)) THEN [head EXCEPT ![UnitOf(c)] = Limited(to[2])] ELSE head
  BY DEF fdc_seek
<1> HIDE DEF to
<1> QED BY <1>1, <1>2, <1>3, <1>4, StatusType DEF Typed

LEMMA ExecuteTypes ==
  ASSUME DataInv, phase = "CMD", NEW c \in [1 .. 8 -> Byte256], Execute(c),
         UNCHANGED <<cmd, statusChanged>>
  PROVE  DataInv'
<1> DEFINE x == Access(c)
           y == IF Ready(UnitOf(c)) THEN Handle(x)
                ELSE IF cmd = ReadID THEN [x EXCEPT !.phase = "RESULT"] ELSE Finish(x)
<1>1. /\ cmd \in Transfers \cup {ReadID} /\ Store(y) /\ timedOut' = FALSE
      /\ UNCHANGED <<seekDone, head>>
  BY DEF Execute
<1>2. x \in Work /\ disk \in DiskType
  BY AccessType DEF DataInv, Typed
<1> HIDE DEF x
<1>3. y \in Going /\ (cmd = WriteID /\ y.phase = "EXEC" => Collecting(y))
  <2>1. Handle(x) \in Going /\ (cmd = WriteID => Collecting(Handle(x)))
    BY <1>1, <1>2, HandleType
  <2>2. Finish(x) \in Going /\ Finish(x).phase = "RESULT"
    BY <1>2, FinishType DEF Finish, Work
  <2>3. [x EXCEPT !.phase = "RESULT"] \in Going /\ [x EXCEPT !.phase = "RESULT"].phase = "RESULT"
    BY <1>2 DEF Going, Work
  <2> QED BY <2>1, <2>2, <2>3
<1> HIDE DEF y
<1>4. Typed'
  BY <1>1, <1>2, <1>3, StoreType DEF DataInv, Typed
<1>5. Counted' /\ (phase' = "EXEC" => timeout' > 0)
  BY <1>1, <1>2, <1>3, StoreType DEF Counted
<1> QED BY <1>4, <1>5 DEF DataInv

LEMMA ParameterTypes ==
  ASSUME DataInv, byte_count \in 1 .. 8, NEW val \in Args[byte_count], ReceiveParameter(val)
  PROVE  DataInv'
<1> DEFINE c == [command EXCEPT ![byte_count] = val]
<1>1. c \in [1 .. 8 -> Byte256]
  <2>1. val \in Byte256
    BY GuestAssumption DEF Byte256
  <2> QED BY <2>1 DEF DataInv, Typed
<1>2. phase = "CMD" /\ UNCHANGED <<cmd, statusChanged>>
  BY DEF ReceiveParameter
<1>3. \/ command' = c /\ UNCHANGED <<phase, res, flags, seekDone, led, timeout, delay, buf, gp,
                            head, sec, atrk, disk, dirty, timedOut, differs>>
      \/ Execute(c) \/ fdc_specify(c) \/ fdc_drvstat(c) \/ fdc_seek(c)
  BY DEF ReceiveParameter
<1> HIDE DEF c
<1>4. CASE command' = c /\ UNCHANGED <<phase, res, flags, seekDone, led, timeout, delay, buf, gp,
                            head, sec, atrk, disk, dirty, timedOut, differs>>
  BY <1>1, <1>2, <1>4 DEF DataInv, Typed, Counted
<1>5. CASE Execute(c)
  BY <1>1, <1>2, <1>5, ExecuteTypes
<1>6. CASE fdc_specify(c)
  BY <1>1, <1>2, <1>6 DEF DataInv, Typed, Counted, fdc_specify, drives
<1>7. CASE fdc_drvstat(c)
  <2> DEFINE st == UnitBits(c[1])
        \cup (IF LoadedIn(UnitOf(c)) THEN {} ELSE {"AT", "NR"})
        \cup (IF Ready(UnitOf(c)) THEN {"SE"} ELSE {})
        \cup (IF head[UnitOf(c)] = 0 THEN {"EC"} ELSE {})
  <2>1. st \subseteq ST0Bits
    BY DEF UnitBits, ST0Bits
  <2>2. res' = [res EXCEPT !.st0 = st] /\ phase' = "RESULT" /\ command' = c
        /\ UNCHANGED <<flags, seekDone, led, timeout, delay, buf, gp, drives, timedOut, differs>>
    BY <1>7 DEF fdc_drvstat
  <2> HIDE DEF st
  <2>3. res' \in Registers
    BY <2>1, <2>2 DEF DataInv, Typed, Registers
  <2> QED BY <1>1, <1>2, <2>2, <2>3 DEF DataInv, Typed, Counted, drives
<1>8. CASE fdc_seek(c)
  <2>1. phase' = "CMD" /\ UNCHANGED <<flags, led, timeout, delay, buf, gp, sec, atrk, disk, dirty,
                                      timedOut, differs>>
    BY <1>8 DEF fdc_seek
  <2> QED BY <1>1, <1>2, <1>8, <2>1, SeekTypes DEF DataInv, Typed, Counted
<1> QED BY <1>3, <1>4, <1>5, <1>6, <1>7, <1>8

LEMMA OthersTypes ==
  ASSUME DataInv, fdc_read_status \/ ReadResult \/ SwitchMotor \/ emulator_reset
               \/ (\E d \in Images \cup {NoDisk} : ChangeDisk(d)) \/ UNCHANGED vars
  PROVE  DataInv'
<1>1. CASE fdc_read_status
  BY <1>1 DEF fdc_read_status, DataInv, Typed, Counted, Collecting, Transfer, control, drives
<1>2. CASE ReadResult
  BY <1>2 DEF ReadResult, DataInv, Typed, Counted, Collecting, Transfer, drives, Finished
<1>3. CASE SwitchMotor
  BY <1>3 DEF SwitchMotor, DataInv, Typed, Counted, Collecting, Transfer, control, drives
<1>4. CASE emulator_reset
  <2>1. 0 \in Byte256 /\ 0 \in 0 .. InitialTimeout
    BY SizeAssumption, TimeoutAssumption DEF Byte256, InitialTimeout
  <2>2. command' \in [1 .. 8 -> Byte256] /\ buf' \in Buffers /\ res' \in Registers
    BY <1>4, <2>1, NoResultType DEF emulator_reset, NoBuffer, Buffers
  <2> QED BY <1>4, <2>1, <2>2 DEF emulator_reset, DataInv, Typed, Counted, drives
<1>5. CASE \E d \in Images \cup {NoDisk} : ChangeDisk(d)
  <2>1. PICK d \in Images \cup {NoDisk} : ChangeDisk(d)
    BY <1>5
  <2>2. disk' \in DiskType
    BY <2>1, DiskAssumption, NoDiskType DEF ChangeDisk
  <2>3. buf' \in Buffers /\ buf'.count = buf.count
    BY <2>1 DEF ChangeDisk, DataInv, Typed, Buffers
  <2>4. Counted'
    BY <2>1, <2>3 DEF ChangeDisk, DataInv, Counted, Collecting, Transfer, control
  <2> QED BY <2>1, <2>2, <2>3, <2>4 DEF ChangeDisk, DataInv, Typed, control
<1>6. CASE UNCHANGED vars
  BY <1>6 DEF vars, DataInv, Typed, Counted, Collecting, Transfer, control, drives
<1> QED BY <1>1, <1>2, <1>3, <1>4, <1>5, <1>6

LEMMA DataKeeps ==
  ASSUME DataInv, ProtocolInv, [Next]_vars PROVE DataInv'
<1>0. phase = "EXEC" => cmd \in Transfers
  BY DEF ProtocolInv
<1>1. CASE \E val \in Opcodes : ReceiveCommand(val)
  BY <1>1, CommandTypes
<1>2. CASE byte_count \in 1 .. 8 /\ \E val \in Args[byte_count] : ReceiveParameter(val)
  BY <1>2, ParameterTypes
<1>3. CASE TransferByte
  BY <1>0, <1>3, TransferByteTypes DEF TransferByte
<1>4. CASE Tick
  BY <1>0, <1>4, TickTypes DEF Tick
<1>5. CASE fdc_read_status \/ ReadResult \/ SwitchMotor \/ emulator_reset
           \/ (\E d \in Images \cup {NoDisk} : ChangeDisk(d)) \/ UNCHANGED vars
  BY <1>5, OthersTypes
<1> QED
  BY <1>1, <1>2, <1>3, <1>4, <1>5 DEF Next, CPU, Host

LEMMA TypedOK == ControlTypeOK /\ DataInv => TypeOK
<1> SUFFICES ASSUME ControlTypeOK, DataInv PROVE TypeOK
  OBVIOUS
<1>1. buf.mem \in {"none", "gp", "track", "freed"} /\ buf.count \in Int
  BY DEF DataInv, Typed, Buffers
<1>2. disk.altered \in BOOLEAN
  BY DEF DataInv, Typed, DiskType
<1> QED BY <1>1, <1>2 DEF TypeOK, DataInv, Typed, Registers, Flags

LEMMA DataTypes == Spec => []DataInv
<1>1. IInv => ProtocolInv
  BY DEF IInv, ControlInv
<1> QED
  BY <1>1, InitData, DataKeeps, Invariance, PTL DEF Spec

(***************************************************************************)
(* Every variable of the controller keeps its type, for every set of disks *)
(* of the declared shape and every command and sector ID the CPU sends:    *)
(* in particular the heads stay within the drive, the timer within its     *)
(* range, and write ID has received an ID for every entry of the sector    *)
(* table that it fills.                                                    *)
(***************************************************************************)
THEOREM TypeCorrect == Spec => []TypeOK
  BY ControlTypes, DataTypes, TypedOK, PTL

(***************************************************************************)
(* End of Cylinder.  A read or a write at work has not set it; the one     *)
(* that ends with it has got as far as its last sector.                    *)
(***************************************************************************)
Going1 == {x \in Work : x.phase = "EXEC"}
Clear == {x \in Going1 : "EN" \notin x.res.st1 /\ (cmd \in WriteCommands => x.res.st1 = {})}
EndsWell(y) == /\ y.phase = "EXEC" => y \in Clear
               /\ y.phase = "RESULT" /\ "EN" \in y.res.st1
                    => y.res.id[3] = y.command[6] /\ y.res.st1 = {"EN"}

LEMMA FinishFields ==
  ASSUME NEW x \in Work
  PROVE  /\ Finish(x).phase = "RESULT" /\ Finish(x).command = x.command
         /\ Finish(x).sec = x.sec /\ Finish(x).trk = x.trk
         /\ Finish(x).res.st1 = x.res.st1 /\ Finish(x).res.st2 = x.res.st2
         /\ Finish(x).res.id[3] = x.command[4]
<1>1. Wanted(x.command)[3] = x.command[4]
  BY DEF Wanted
<1> QED BY <1>1 DEF Finish, Work, Registers

LEMMA FailFields ==
  ASSUME NEW x \in Work, NEW bit \in ST1Bits
  PROVE  /\ Fail(x, bit).phase = "RESULT" /\ Fail(x, bit).command = x.command
         /\ Fail(x, bit).sec = x.sec /\ Fail(x, bit).trk = x.trk
         /\ Fail(x, bit).res.st1 = x.res.st1 \cup {bit}
         /\ Fail(x, bit).res.st2 = x.res.st2
<1> DEFINE r == [x.res EXCEPT !.st0 = @ \cup {"AT"}, !.st1 = @ \cup {bit}]
           y == [x EXCEPT !.res = r]
<1>1. r \in Registers /\ r.st1 = x.res.st1 \cup {bit} /\ r.st2 = x.res.st2
  BY WorkFields DEF Registers, ST0Bits
<1> HIDE DEF r
<1>2. y \in Work /\ y.res = r /\ y.command = x.command /\ y.sec = x.sec /\ y.trk = x.trk
  BY <1>1 DEF Work
<1>3. Fail(x, bit) = Finish(y)
  BY DEF Fail, r, Work, Registers
<1> HIDE DEF y
<1> QED BY <1>1, <1>2, <1>3, FinishFields

LEMMA DoneFields ==
  ASSUME NEW x \in Work
  PROVE  /\ Done(x).phase = "RESULT" /\ Done(x).command = x.command
         /\ Done(x).sec = x.sec /\ Done(x).trk = x.trk
         /\ Done(x).res.st1 = LoadStatus(x.res).st1
         /\ Done(x).res.id[3] = x.command[4]
<1> DEFINE y == [x EXCEPT !.res = LoadStatus(@)]
<1>1. LoadStatus(x.res) \in Registers
  BY WorkFields DEF LoadStatus, Registers, ST0Bits, ST1Bits
<1>2. y \in Work /\ y.res = LoadStatus(x.res) /\ y.command = x.command /\ y.sec = x.sec
      /\ y.trk = x.trk
  BY <1>1 DEF Work
<1>3. Done(x) = Finish(y)
  BY DEF Done
<1> HIDE DEF y
<1> QED BY <1>2, <1>3, FinishFields

LEMMA FailEnds ==
  ASSUME NEW x \in Clear, NEW bit \in ST1Bits \ {"EN"} PROVE EndsWell(Fail(x, bit))
BY FailFields DEF Clear, Going1, EndsWell

\* Whatever ends without an error ends at the last sector.
Errors(x) == (x.res.st1 \ {"EN"}) \cup x.res.st2
LEMMA DoneEnds ==
  ASSUME NEW x \in Work, cmd # ReadTrk, Errors(x) = {} => AtEot(x)
  PROVE  EndsWell(Done(x))
<1>1. CASE Errors(x) = {}
  <2>1. LoadStatus(x.res).st1 = x.res.st1 \cup {"EN"} /\ x.res.st1 \subseteq {"EN"}
    BY <1>1, WorkFields DEF Errors, LoadStatus, Registers
  <2> QED BY <1>1, <2>1, DoneFields DEF EndsWell, AtEot
<1>2. CASE Errors(x) # {}
  <2>1. LoadStatus(x.res).st1 = x.res.st1 \ {"EN"}
    BY <1>2, WorkFields DEF Errors, LoadStatus, Registers
  <2> QED BY <2>1, DoneFields DEF EndsWell
<1> QED BY <1>1, <1>2

\* find_sector touches the sector index and ST2.
LEMMA FindFields ==
  ASSUME NEW x \in Work
  PROVE  /\ find_sector(x).phase = x.phase /\ find_sector(x).command = x.command
         /\ find_sector(x).trk = x.trk /\ find_sector(x).res.st1 = x.res.st1
         /\ find_sector(x).flags = x.flags
BY DEF find_sector, Work, Registers

LEMMA LoadBitsFields ==
  ASSUME NEW f \in Work
  PROVE  /\ LoadBits(f).phase = f.phase /\ LoadBits(f).command = f.command
         /\ LoadBits(f).trk = f.trk /\ LoadBits(f).sec = f.sec /\ LoadBits(f).flags = f.flags
         /\ LoadBits(f).res.st1 = Current(f).st1
BY DEF LoadBits, Work, Registers

LEMMA CurrentType == ASSUME NEW x \in Work PROVE Current(x) \in SectorType
BY EntryType DEF Current, Work

LEMMA LoadClear ==
  ASSUME cmd \in ReadCommands, NEW x \in Clear PROVE LoadSector(x) \in Clear
<1> DEFINE f == find_sector(x)
<1>1. f \in Work /\ LoadSector(x) \in Work /\ x \in Work
  BY FindType, LoadType DEF Clear, Going1
<1>2. f.phase = "EXEC" /\ f.res.st1 = x.res.st1
  BY <1>1, FindFields DEF Clear, Going1
<1>3. "EN" \notin x.res.st1 /\ cmd \notin WriteCommands
  BY DEF Clear, ReadCommands, WriteCommands, Read, ReadDel, Write, WriteDel
<1>4. LoadSector(x) \in {f, LoadBits(f)}
  BY DEF LoadSector
<1> HIDE DEF f
<1>5. LoadBits(f).phase = "EXEC" /\ "EN" \notin LoadBits(f).res.st1
  BY <1>1, <1>2, LoadBitsFields, CurrentType DEF SectorType, Stored1
<1> QED BY <1>1, <1>2, <1>3, <1>4, <1>5 DEF Clear, Going1

LEMMA NextRFields ==
  ASSUME NEW x \in Work, NEW step
  PROVE  /\ NextR(x, step).phase = x.phase /\ NextR(x, step).res = x.res
         /\ NextR(x, step).trk = x.trk /\ NextR(x, step).sec = x.sec
         /\ NextR(x, step).command[6] = x.command[6]
BY DEF NextR, Work

LEMMA SearchFields ==
  ASSUME NEW x \in Work, NEW step, Searches(x, step)[ByteMod] \in Work
  PROVE  /\ Search(x, step).phase = x.phase /\ Search(x, step).trk = x.trk
         /\ Search(x, step).sec = Searches(x, step)[ByteMod].sec
         /\ Search(x, step).res.st1 = Searches(x, step)[ByteMod].res.st1
         /\ Search(x, step).res.st2 = Searches(x, step)[ByteMod].res.st2
         /\ Search(x, step).command[4] = Searches(x, step)[ByteMod].command[4]
<1> DEFINE f == Searches(x, step)[ByteMod]
           c == [x.command EXCEPT ![4] = f.command[4]]
           r == [x.res EXCEPT !.st1 = f.res.st1, !.st2 = f.res.st2]
<1>1. c[4] = f.command[4]
  BY WorkFields
<1>2. r.st1 = f.res.st1 /\ r.st2 = f.res.st2
  BY WorkFields DEF Registers
<1>3. Search(x, step) = [x EXCEPT !.command = c, !.sec = f.sec, !.res = r]
  BY DEF Search, Arrived, f, Work, Registers
<1> HIDE DEF c, r, f
<1>4. LET s == [x EXCEPT !.command = c, !.sec = f.sec, !.res = r]
      IN  s.phase = x.phase /\ s.trk = x.trk /\ s.sec = f.sec /\ s.res = r /\ s.command = c
  BY DEF Work
<1> QED BY <1>1, <1>2, <1>3, <1>4 DEF f

LEMMA SearchClear ==
  ASSUME cmd \in ReadCommands, NEW x \in Clear, NEW step \in Nat PROVE Search(x, step) \in Clear
<1>1. LoadSector(x) \in Clear
  BY LoadClear
<1>2. \A f \in Clear : SkipOn(f, step) \in Clear
  <2> TAKE f \in Clear
  <2>1. f \in Work
    BY DEF Clear, Going1
  <2>2. NextR(f, step) \in Clear
    BY <2>1, NextRType, NextRFields DEF Clear, Going1
  <2> QED BY <2>2, LoadClear DEF SkipOn
<1>3. Searches(x, step)[ByteMod] \in Clear
  <2> DEFINE T == Clear
  <2> HIDE DEF T
  <2>1. LoadSector(x) \in T /\ \A f \in T : SkipOn(f, step) \in T
    BY <1>1, <1>2 DEF T
  <2>2. Searches(x, step)[ByteMod] \in T
    BY <2>1, SearchKeeps
  <2> QED BY <2>2 DEF T
<1>4. x \in Work /\ Searches(x, step)[ByteMod] \in Work
  BY <1>3 DEF Clear, Going1
<1> QED BY <1>3, <1>4, SearchType, SearchFields DEF Clear, Going1

\* What starting to read leaves of a command at work.
LEMMA StartReadFields ==
  ASSUME NEW x \in Work, NEW count \in Int
  PROVE  /\ StartRead(x, count).phase \in {x.phase, "DEAD"}
         /\ StartRead(x, count).res = x.res
BY DEF StartRead, Dead, Start, Update, Work

LEMMA StartFoundEnds ==
  ASSUME cmd \in ReadCommands, NEW f \in Clear, NEW count \in Int
  PROVE  EndsWell(StartFound(f, count))
<1> DEFINE l == LastIfMarked(f)
<1>0. f \in Work
  BY DEF Clear, Going1
<1>1. EndsWell(Fail(f, "ND"))
  BY FailEnds DEF ST1Bits
<1>2. EndsWell(Dead(f))
  BY <1>0 DEF Dead, EndsWell, Work
<1>3. l \in Clear /\ l \in Work
  <2>1. f.command[4] \in Byte256
    BY <1>0, WorkFields
  <2>3. l \in Work
    BY <1>0, <2>1 DEF LastIfMarked, Work
  <2>4. l.res = f.res /\ l.phase = f.phase
    BY <1>0 DEF LastIfMarked, Work
  <2> QED BY <2>3, <2>4 DEF Clear, Going1
<1>4. EndsWell(StartRead(l, count))
  <2>1. StartRead(l, count) \in Work
    BY <1>3, StartReadType DEF Going
  <2> QED BY <1>3, <2>1, StartReadFields DEF EndsWell, Clear, Going1
<1>5. Skipped(f) /\ AtEot(f) => EndsWell(Done(f))
  <2>1. cmd # ReadTrk
    BY DEF ReadTrk, ReadCommands, Read, ReadDel
  <2> QED BY <1>0, <2>1, DoneEnds
<1>6. \/ ~Found(f)
      \/ Skipped(f) /\ AtEot(f)
      \/ Skipped(f) /\ ~AtEot(f)
      \/ Found(f) /\ ~Skipped(f)
  OBVIOUS
<1>7. \/ StartFound(f, count) \in {Fail(f, "ND"), Dead(f), StartRead(l, count)}
      \/ Skipped(f) /\ AtEot(f) /\ StartFound(f, count) = Done(f)
  BY <1>6 DEF StartFound
<1> QED BY <1>1, <1>2, <1>4, <1>5, <1>7

LEMMA CmdReadEnds ==
  ASSUME cmd \in ReadCommands, NEW x \in Clear PROVE EndsWell(cmd_read(x))
<1>1. DataLength(x.command) \in Int
  BY LengthType DEF Clear, Going1, Work
<1> QED BY <1>1, SearchClear, StartFoundEnds DEF cmd_read, SearchAndStart

LEMMA CmdWriteEnds ==
  ASSUME cmd \in WriteCommands, NEW x \in Clear PROVE EndsWell(cmd_write(x))
<1> DEFINE f == find_sector(x)
           e == [Current(f) EXCEPT !.st1 = {}, !.st2 = IF cmd = Write THEN {} ELSE {"CM"}]
           s == Start(Update(f, e), Track(f, DataLength(x.command), e.off))
<1>1. x \in Work /\ cmd_write(x) \in Work
  BY CmdWriteType DEF Clear, Going1, Going
<1>2. f \in Clear
  BY <1>1, FindType, FindFields DEF Clear, Going1
<1>3. EndsWell(Fail(f, "ND"))
  BY <1>2, FailEnds DEF ST1Bits
<1> HIDE DEF f, e
<1>4. s.phase = f.phase /\ s.res = f.res
  BY <1>2 DEF Start, Update, Clear, Going1, Work
<1>5. cmd_write(x) \in {Fail(f, "ND"), s}
  BY DEF cmd_write, f, e
<1> HIDE DEF s
<1>6. s \in Work => EndsWell(s)
  BY <1>2, <1>4 DEF EndsWell, Clear, Going1
<1> QED BY <1>1, <1>3, <1>5, <1>6

LEMMA AdvanceFields ==
  ASSUME NEW x \in Work, NEW past
  PROVE  /\ Advance(x, past).phase = x.phase /\ Advance(x, past).res = x.res
         /\ Advance(x, past).trk = x.trk /\ Advance(x, past).sec = x.sec
         /\ Advance(x, past).flags = x.flags
BY DEF Advance, Work

LEMMA AdvanceClear == ASSUME NEW x \in Clear, NEW past PROVE Advance(x, past) \in Clear
<1>1. x \in Work
  BY DEF Clear, Going1
<1>2. Advance(x, past) \in Work
  BY <1>1, AdvanceType DEF Going
<1> QED BY <1>1, <1>2, AdvanceFields DEF Clear, Going1

LEMMA WriteByteEnds ==
  ASSUME cmd \in WriteCommands, NEW x \in Clear PROVE EndsWell(write_byte(x))
<1> DEFINE w == WrapWrite(x)
           y == [w EXCEPT !.dirty = @ \/ x.buf.mem = "track"]
           z == [y EXCEPT !.altered = TRUE, !.res.st0 = @ \cup {"AT"}, !.res.st1 = @ \cup {"EN"}]
<1>1. w \in Clear
  BY AdvanceClear DEF WrapWrite
<1> HIDE DEF w
<1>2. y \in Clear /\ y \in Work
  BY <1>1 DEF Clear, Going1, Work
<1> HIDE DEF y
<1>3. NextR(y, 1) \in Clear
  BY <1>2, NextRType, NextRFields DEF Clear, Going1
<1>4. ASSUME AtEot(y) PROVE EndsWell(Finish(z))
  <2> DEFINE r == [y.res EXCEPT !.st0 = @ \cup {"AT"}, !.st1 = @ \cup {"EN"}]
  <2>1. r \in Registers /\ r.st1 = {"EN"}
    BY <1>2, WorkFields DEF Clear, Registers, ST0Bits, ST1Bits
  <2>2. z = [y EXCEPT !.altered = TRUE, !.res = r]
    BY <1>2, WorkFields DEF Work, Registers
  <2> HIDE DEF r, z
  <2>3. z \in Work /\ z.res = r /\ z.command = y.command
    <3>1. [y EXCEPT !.altered = TRUE] \in Work /\ [y EXCEPT !.altered = TRUE].command = y.command
      BY <1>2 DEF Work
    <3>2. \A u \in Work : /\ [u EXCEPT !.res = r] \in Work /\ [u EXCEPT !.res = r].res = r
                          /\ [u EXCEPT !.res = r].command = u.command
      BY <2>1 DEF Work
    <3>3. z = [[y EXCEPT !.altered = TRUE] EXCEPT !.res = r]
      BY <1>2, <2>2 DEF Work
    <3> QED BY <3>1, <3>2, <3>3
  <2> QED BY <1>4, <2>1, <2>3, FinishFields DEF EndsWell, AtEot
<1> HIDE DEF z
<1>5. \/ write_byte(x) = y
      \/ write_byte(x) = cmd_write(NextR(y, 1))
      \/ AtEot(y) /\ write_byte(x) = Finish(z)
  BY DEF write_byte, w, y, z
<1>6. EndsWell(y)
  BY <1>2 DEF EndsWell, Clear, Going1
<1> QED BY <1>3, <1>4, <1>5, <1>6, CmdWriteEnds

LEMMA SectorReadEnds ==
  ASSUME cmd \in ReadCommands, NEW n \in Clear PROVE EndsWell(SectorRead(n))
<1> DEFINE o == [n EXCEPT !.flags = @ \ {"OVERRUN"}, !.res.st0 = @ \cup {"AT"},
                          !.res.st1 = @ \cup {"OR"}]
           errors == (n.res.st1 \cap {"DE", "OR", "MA"}) \cup (n.res.st2 \cap {"DD", "MD"})
<1>1. n \in Work /\ cmd # ReadTrk /\ "EN" \notin n.res.st1
  BY DEF Clear, Going1, ReadTrk, ReadCommands, Read, ReadDel
<1>2. EndsWell(Finish(o))
  <2> DEFINE r == [n.res EXCEPT !.st0 = @ \cup {"AT"}, !.st1 = @ \cup {"OR"}]
             m == [n EXCEPT !.flags = @ \ {"OVERRUN"}, !.res = r]
  <2>1. r \in Registers /\ r.st1 = n.res.st1 \cup {"OR"}
    BY <1>1, WorkFields DEF Registers, ST0Bits, ST1Bits
  <2> HIDE DEF r
  <2>2. m \in Work /\ m.res = r
    BY <1>1, <2>1 DEF Work
  <2>3. m = o
    BY <1>1, WorkFields DEF Work, Registers, r
  <2> HIDE DEF m
  <2>4. EndsWell(Finish(m))
    BY <1>1, <2>1, <2>2, FinishFields DEF EndsWell
  <2> QED BY <2>3, <2>4
<1>3. EndsWell(cmd_read(NextR(n, 1)))
  <2>1. NextR(n, 1) \in Clear
    BY <1>1, NextRType, NextRFields DEF Clear, Going1
  <2> QED BY <2>1, CmdReadEnds
<1>4. ~(errors = {} /\ ~AtEot(n)) => EndsWell(Done(n))
  <2>1. ~(errors = {} /\ ~AtEot(n)) => (Errors(n) = {} => AtEot(n))
    BY DEF Errors
  <2> QED BY <1>1, <2>1, DoneEnds
<1> QED BY <1>1, <1>2, <1>3, <1>4 DEF SectorRead

LEMMA ReadByteEnds ==
  ASSUME cmd \in ReadCommands, NEW x \in Clear PROVE EndsWell(read_byte(x))
<1> DEFINE w == WrapRead(x)
           n == [w EXCEPT !.sec = @ + 1]
<1>1. w \in Clear
  BY AdvanceClear DEF WrapRead
<1> HIDE DEF w
<1>2. n \in Clear
  <2>1. w \in Work /\ w.sec + 1 \in Nat
    BY <1>1, WorkFields DEF Clear, Going1
  <2>2. n \in Work
    BY <2>1, SetFields
  <2> QED BY <1>1, <2>1, <2>2 DEF Clear, Going1, Work
<1> HIDE DEF n
<1>3. read_byte(x) \in {w, SectorRead(n)}
  BY DEF read_byte, w, n
<1>4. EndsWell(w)
  BY <1>1 DEF EndsWell, Clear, Going1
<1> QED BY <1>2, <1>3, <1>4, SectorReadEnds

LEMMA HandleEnds ==
  ASSUME NEW x \in Going1, x.res.st1 = {}, cmd \in ReadCommands \cup WriteCommands
  PROVE  EndsWell(Handle(x))
<1>1. x \in Clear
  BY DEF Clear
<1>2. EndsWell(Fail(x, "MA"))
  BY <1>1, FailEnds DEF ST1Bits
<1>3. CASE cmd \in ReadCommands
  <2>1. Handle(x) \in {cmd_read(x), Fail(x, "MA")}
    BY <1>3 DEF Handle, Formatted, fdc_read, ReadTrk, WriteCommands, Write, WriteDel,
       ReadCommands, Read, ReadDel, ReadID, WriteID, ScanCommands, ScanEqual, ScanLow, ScanHigh
  <2> QED BY <1>1, <1>2, <1>3, <2>1, CmdReadEnds
<1>4. CASE cmd \in WriteCommands
  <2>1. Handle(x) \in {cmd_write(x), Fail(x, "MA")}
    BY <1>4 DEF Handle, Formatted, fdc_write, ReadTrk, WriteCommands, Write, WriteDel,
       ReadCommands, Read, ReadDel, ReadID, WriteID, ScanCommands, ScanEqual, ScanLow, ScanHigh
  <2> QED BY <1>1, <1>2, <1>4, <2>1, CmdWriteEnds
<1> QED BY <1>3, <1>4

LEMMA ByteEnds ==
  ASSUME cmd \in ReadCommands \cup WriteCommands, NEW x \in Clear, NEW cmps, NEW ids,
         NEW y \in Byte(x, cmps, ids)
  PROVE  EndsWell(y)
BY ReadByteEnds, WriteByteEnds DEF Byte, ReadTrk, WriteCommands, Write, WriteDel, ReadCommands,
   Read, ReadDel, WriteID, ScanCommands, ScanEqual, ScanLow, ScanHigh

\* What holds of a read or a write between two steps.
EndInv == cmd \in ReadCommands \cup WriteCommands =>
  /\ phase = "EXEC" => "EN" \notin res.st1 /\ (cmd \in WriteCommands => res.st1 = {})
  /\ phase = "RESULT" /\ res_length = 7 /\ "EN" \in res.st1
       => res.id[3] = command[6] /\ res.st1 = {"EN"}

LEMMA StoreEnds ==
  ASSUME NEW x \in Work, EndsWell(x), Store(x), cmd' = cmd PROVE EndInv'
BY DEF EndInv, EndsWell, Store, Clear, Going1

LEMMA EndByteKeeps ==
  ASSUME DataInv, EndInv, phase = "EXEC", TransferByte \/ Tick PROVE EndInv'
<1>0. cmd' = cmd
  BY DEF TransferByte, Tick
<1> SUFFICES ASSUME cmd \in ReadCommands \cup WriteCommands PROVE EndInv'
  BY <1>0 DEF EndInv
<1>1. Transfer \in Work
  BY TransferType DEF DataInv
<1>2. Transfer \in Clear
  BY <1>1 DEF EndInv, Clear, Going1, Transfer
<1> DEFINE t    == timeout - 1
           x    == [Transfer EXCEPT !.timeout = t]
           late == [x EXCEPT !.flags = @ \cup {"OVERRUN"}]
<1>3. x \in Clear /\ late \in Clear
  <2>1. t \in 0 .. InitialTimeout
    BY TimeoutAssumption DEF DataInv, Typed, InitialTimeout
  <2> HIDE DEF t
  <2>2. x \in Clear
    BY <1>2, <2>1 DEF Clear, Going1, Work
  <2> HIDE DEF x
  <2>3. late \in Clear
    BY <2>2 DEF Clear, Going1, Work, Flags
  <2> QED BY <2>2, <2>3
<1>4. cmd \in Transfers
  BY DEF Transfers, CpuToFdc
<1>5. \/ \E y \in Byte(Transfer, Comparisons \cup {"ignored"}, FormatIds) : Store(y)
      \/ Store(x)
      \/ \E y \in TimerByte(late) : Store(y)
  BY DEF TransferByte, Tick, Transfer
<1> HIDE DEF x, late
<1>6. CASE Store(x)
  <2>1. x \in Work /\ EndsWell(x)
    BY <1>3 DEF EndsWell, Clear, Going1
  <2> QED BY <1>0, <1>6, <2>1, StoreEnds
<1>7. ASSUME NEW w \in Clear, NEW cmps, NEW ids \in SUBSET IDs, NEW y \in Byte(w, cmps, ids), Store(y)
      PROVE  EndInv'
  <2>1. w \in Work /\ cmd # WriteID
    BY DEF Clear, Going1, WriteCommands, Write, WriteDel, ReadCommands, Read, ReadDel, WriteID
  <2>2. y \in Work
    BY <1>4, <1>7, <2>1, ByteType DEF Going
  <2>3. EndsWell(y)
    BY <1>7, ByteEnds
  <2> QED BY <1>0, <1>7, <2>2, <2>3, StoreEnds
<1>8. {<<FF, FF, FF, FF>>} \in SUBSET IDs /\ FormatIds \in SUBSET IDs
  BY SizeAssumption, DiskAssumption DEF FF, IDs, Byte256
<1> QED BY <1>2, <1>3, <1>5, <1>6, <1>7, <1>8 DEF TimerByte

LEMMA EndExecuteKeeps ==
  ASSUME DataInv, phase = "CMD", NEW c \in [1 .. 8 -> Byte256], Execute(c), cmd' = cmd
  PROVE  EndInv'
<1> SUFFICES ASSUME cmd \in ReadCommands \cup WriteCommands PROVE EndInv'
  BY DEF EndInv
<1> DEFINE x == Access(c)
           y == IF Ready(UnitOf(c)) THEN Handle(x)
                ELSE IF cmd = ReadID THEN [x EXCEPT !.phase = "RESULT"] ELSE Finish(x)
<1>1. Store(y) /\ cmd # ReadID /\ cmd \in Transfers \cup {ReadID} /\ cmd # WriteID
  BY DEF Execute, WriteCommands, Write, WriteDel, ReadCommands, Read, ReadDel, ReadID, WriteID
<1>2. x \in Going1 /\ x.res.st1 = {}
  <2>1. x \in Work
    BY AccessType DEF DataInv
  <2>2. InitStatus(c).st1 = {}
    BY DEF InitStatus, NoResult
  <2>3. x.phase = "EXEC" /\ x.res = InitStatus(c)
    BY DEF Access, Transfer
  <2> QED BY <2>1, <2>2, <2>3 DEF Going1
<1> HIDE DEF x
<1>3. x \in Work
  BY <1>2 DEF Going1
<1>4. CASE Ready(UnitOf(c))
  <2>1. Handle(x) \in Work /\ EndsWell(Handle(x))
    BY <1>1, <1>2, <1>3, HandleType, HandleEnds DEF Going
  <2> QED BY <1>1, <1>4, <2>1, StoreEnds
<1>5. CASE ~Ready(UnitOf(c))
  <2>1. Finish(x) \in Work /\ EndsWell(Finish(x))
    BY <1>2, <1>3, FinishType, FinishFields DEF Going, EndsWell
  <2> QED BY <1>1, <1>5, <2>1, StoreEnds
<1> QED BY <1>4, <1>5

LEMMA EndKeeps == ASSUME DataInv, EndInv, [Next]_vars PROVE EndInv'
<1>1. CASE \E val \in Opcodes : ReceiveCommand(val)
  <2>1. PICK val \in Opcodes : ReceiveCommand(val)
    BY <1>1
  <2> DEFINE code == IF Bit(val, 32) THEN val - 32 ELSE val
  <2>2. phase = "CMD" /\ UNCHANGED command
    BY <2>1 DEF ReceiveCommand
  <2>3. \/ phase' = phase
        \/ cmd' = IntStat
        \/ res_length' = InvalidLength
    BY <2>1 DEF ReceiveCommand
  <2>4. IntStat \notin ReadCommands \cup WriteCommands /\ InvalidLength # 7
    BY DEF InvalidLength, IntStat, WriteCommands, Write, WriteDel, ReadCommands, Read, ReadDel
  <2>5. phase' \in {"CMD", "RESULT"}
    BY <2>1, <2>2 DEF ReceiveCommand, fdc_intstat
  <2> HIDE DEF code
  <2> QED BY <2>2, <2>3, <2>4, <2>5 DEF EndInv
<1>2. CASE byte_count \in 1 .. 8 /\ \E val \in Args[byte_count] : ReceiveParameter(val)
  <2>1. PICK val \in Args[byte_count] : ReceiveParameter(val)
    BY <1>2
  <2> DEFINE c == [command EXCEPT ![byte_count] = val]
  <2>2. c \in [1 .. 8 -> Byte256]
    <3>1. val \in Byte256
      BY <1>2, <2>1, GuestAssumption DEF Byte256
    <3> QED BY <3>1 DEF DataInv, Typed
  <2>3. phase = "CMD" /\ cmd' = cmd
    BY <2>1 DEF ReceiveParameter
  <2>4. phase' = phase \/ Execute(c) \/ fdc_specify(c) \/ fdc_drvstat(c) \/ fdc_seek(c)
    BY <2>1 DEF ReceiveParameter
  <2> HIDE DEF c
  <2>5. CASE Execute(c)
    BY <2>2, <2>3, <2>5, EndExecuteKeeps
  <2>6. CASE phase' = phase \/ fdc_specify(c) \/ fdc_drvstat(c) \/ fdc_seek(c)
    BY <2>3, <2>6 DEF fdc_specify, fdc_drvstat, fdc_seek, EndInv, DrvStat, WriteCommands, Write,
       WriteDel, ReadCommands, Read, ReadDel
  <2> QED BY <2>4, <2>5, <2>6
<1>3. CASE TransferByte \/ Tick
  BY <1>3, EndByteKeeps DEF TransferByte, Tick
<1>4. CASE ReadResult
  BY <1>4 DEF ReadResult, EndInv
<1>5. CASE emulator_reset
  BY <1>5 DEF emulator_reset, EndInv
<1>6. CASE fdc_read_status \/ SwitchMotor \/ (\E d \in Images \cup {NoDisk} : ChangeDisk(d))
           \/ UNCHANGED vars
  BY <1>6 DEF fdc_read_status, SwitchMotor, ChangeDisk, control, vars, EndInv
<1> QED BY <1>1, <1>2, <1>3, <1>4, <1>5, <1>6 DEF Next, CPU, Host

LEMMA EndOK == EndInv => EndReached
BY DEF EndInv, EndReached, Completed

LEMMA InitEnd == Init => EndInv
BY DEF Init, InitWith, EndInv

(***************************************************************************)
(* A read or a write that ends with End of Cylinder has transferred the    *)
(* sector that EOT names, and reports nothing else in ST1: whatever errors *)
(* the sectors are stored with, and whatever the CPU, the timer and the    *)
(* host do in between.                                                     *)
(***************************************************************************)
THEOREM EndSafe == Spec => []EndReached
  BY InitEnd, EndKeeps, EndOK, DataTypes, PTL DEF Spec

(***************************************************************************)
(* A sector that is not found.  A sector may itself be stored with No      *)
(* Data; on disks with none of those, No Data in a result means that the   *)
(* search has failed.                                                      *)
(***************************************************************************)
Plain(t)     == \A i \in DOMAIN t.tab : "ND" \notin t.tab[i].st1
PlainDisk(d) == \A c \in Cylinder, s \in {0, 1} : Plain(d.track[c][s])
PlainImages  == \A d \in Images : PlainDisk(d)

SearchCommands == ReadCommands \cup WriteCommands \cup ScanCommands
Kept == {x \in Work : Plain(x.trk)}
Seen == {x \in Kept : x.phase = "EXEC" /\ "ND" \notin x.res.st1}
Rewinds(x) == x.sec = 0 /\ ~({"BC", "NC"} \subseteq x.res.st2)
Finds(y) == /\ y \in Kept
            /\ y.phase = "EXEC" => "ND" \notin y.res.st1
            /\ y.phase = "RESULT" /\ "ND" \in y.res.st1 => Rewinds(y)

LEMMA FinishFinds == ASSUME NEW x \in Seen PROVE Finds(Finish(x))
<1>1. x \in Work
  BY DEF Seen, Kept
<1> QED BY <1>1, FinishType, FinishFields DEF Seen, Kept, Finds, Going

LEMMA FailFinds ==
  ASSUME NEW x \in Seen, NEW bit \in ST1Bits, bit = "ND" => Rewinds(x) PROVE Finds(Fail(x, bit))
<1>1. x \in Work
  BY DEF Seen, Kept
<1> QED BY <1>1, FailType, FailFields DEF Seen, Kept, Finds, Going, Rewinds

LEMMA DoneFinds == ASSUME NEW x \in Seen PROVE Finds(Done(x))
<1>1. x \in Work
  BY DEF Seen, Kept
<1>2. "ND" \notin LoadStatus(x.res).st1
  BY <1>1, WorkFields DEF LoadStatus, Seen, Registers
<1> QED BY <1>1, <1>2, DoneType, DoneFields DEF Seen, Kept, Finds, Going

LEMMA FindRewinds == ASSUME NEW x \in Work, ~Found(x) PROVE Rewinds(find_sector(x))
BY DEF find_sector, NotFoundIndex, Rewinds, Work, Registers

LEMMA FindSeen == ASSUME NEW x \in Seen PROVE find_sector(x) \in Seen
<1>1. x \in Work
  BY DEF Seen, Kept
<1> QED BY <1>1, FindType, FindFields DEF Seen, Kept

\* A sector that has been found is found again.
LEMMA FoundStays == ASSUME NEW x \in Work, Found(x) PROVE Found(find_sector(x))
<1> DEFINE f == find_sector(x)
           k == Min(Hits(x))
<1>1. Hits(x) \subseteq Looks(x) /\ Hits(x) # {}
  BY DEF Found, Hits
<1>2. k \in Hits(x) /\ k \in Looks(x)
  BY <1>1, LooksNat, MinOf
<1>3. Entry(x.trk, Look(x, k)).id = Wanted(x.command)
  BY <1>2 DEF Hits
<1>4. f \in Work /\ f.trk = x.trk /\ f.command = x.command /\ f.sec = Look(x, k)
  BY FindType, FindFields DEF find_sector, Work, Registers
<1> HIDE DEF f, k
<1>5. f.sec \in Nat /\ f.trk.sectors \in Nat
  BY <1>4, WorkFields DEF TrackType
<1>6. FirstPass(f) \in Nat /\ FirstPass(f) > 0
  BY <1>5 DEF FirstPass
<1>7. 0 \in Looks(f) /\ Look(f, 0) = f.sec
  BY <1>5, <1>6 DEF Looks, Look
<1>8. 0 \in Hits(f)
  BY <1>3, <1>4, <1>7 DEF Hits
<1> QED BY <1>8 DEF Found, f

LEMMA EntryPlain == ASSUME NEW t, Plain(t), NEW i PROVE "ND" \notin Entry(t, i).st1
BY DEF Entry, Plain, BlankSector

\* What a search has found, or where it has stopped.
Stops == {f \in Seen : ~Found(f) => Rewinds(f)}

LEMMA LoadStops == ASSUME NEW x \in Seen PROVE LoadSector(x) \in Stops
<1>1. x \in Work
  BY DEF Seen, Kept
<1> DEFINE f == find_sector(x)
<1>2. f \in Seen /\ f \in Work
  BY <1>1, FindSeen, FindType
<1>3. CASE ~Found(x)
  BY <1>1, <1>2, <1>3, FindRewinds DEF LoadSector, Stops
<1>4. CASE Found(x)
  <2>1. Found(f)
    BY <1>1, <1>4, FoundStays
  <2>2. LoadSector(x) = LoadBits(f) /\ LoadBits(f) \in Work
    BY <1>1, <1>4, LoadType DEF LoadSector
  <2> HIDE DEF f
  <2>3. "ND" \notin Current(f).st1
    BY <1>2, EntryPlain DEF Current, Seen, Kept
  <2>4. LoadBits(f) \in Seen
    BY <1>2, <2>2, <2>3, LoadBitsFields DEF Seen, Kept
  <2>5. Found(LoadBits(f))
    <3> DEFINE g == LoadBits(f)
    <3>1. g.trk = f.trk /\ g.sec = f.sec /\ g.command = f.command
      BY <1>2, LoadBitsFields
    <3> HIDE DEF g
    <3>2. FirstPass(g) = FirstPass(f)
      BY <3>1 DEF FirstPass
    <3>3. Hits(g) = Hits(f)
      BY <3>1, <3>2 DEF Hits, Looks, Look
    <3> QED BY <2>1, <3>3 DEF Found, g
  <2> QED BY <2>2, <2>4, <2>5 DEF Stops
<1> QED BY <1>3, <1>4

Same(x, f) == f.trk = x.trk /\ f.command = [x.command EXCEPT ![4] = f.command[4]]

LEMMA LoadSame == ASSUME NEW x \in Work PROVE LoadSector(x).trk = x.trk
                                             /\ LoadSector(x).command = x.command
BY FindFields, FindType, LoadBitsFields DEF LoadSector

LEMMA SearchStops ==
  ASSUME NEW x \in Seen, NEW step \in Nat PROVE Search(x, step) \in Stops
<1> DEFINE g == Searches(x, step)[ByteMod]
           s == Search(x, step)
           T == {f \in Stops : Same(x, f)}
<1>0. x \in Work
  BY DEF Seen, Kept
<1>1. LoadSector(x) \in T
  <2>1. x.command = [x.command EXCEPT ![4] = x.command[4]]
    BY <1>0, WorkFields
  <2> QED BY <1>0, <2>1, LoadStops, LoadSame DEF Same
<1>2. \A f \in T : SkipOn(f, step) \in T
  <2> TAKE f \in T
  <2>1. f \in Work /\ f \in Seen /\ Same(x, f)
    BY DEF Stops, Seen, Kept
  <2> DEFINE n == NextR(f, step)
             v == (f.command[4] + step) % ByteMod
  <2>2. n \in Work /\ n \in Seen
    BY <2>1, NextRType, NextRFields DEF Seen, Kept
  <2>3. Same(x, n)
    <3>1. n.trk = f.trk /\ n.command = [f.command EXCEPT ![4] = v]
      BY <2>1 DEF NextR, Work
    <3>2. f.command \in [1 .. 8 -> Byte256] /\ x.command \in [1 .. 8 -> Byte256]
      BY <1>0, <2>1, WorkFields
    <3> HIDE DEF n, v
    <3> QED BY <2>1, <3>1, <3>2 DEF Same
  <2> HIDE DEF n
  <2>4. LoadSector(n) \in Stops /\ Same(x, LoadSector(n))
    BY <2>2, <2>3, LoadStops, LoadSame DEF Same
  <2> QED BY <2>4 DEF SkipOn, n
<1>3. g \in T
  <2> HIDE DEF T, g
  <2> QED BY <1>1, <1>2, SearchKeeps DEF g
<1>4. g \in Work /\ s \in Work /\ Same(x, g) /\ g \in Stops
  BY <1>0, <1>3, SearchType DEF Stops, Seen, Kept
<1>5. /\ s.phase = x.phase /\ s.trk = x.trk /\ s.sec = g.sec
      /\ s.res.st1 = g.res.st1 /\ s.res.st2 = g.res.st2
  BY <1>0, <1>4, SearchFields
<1>6. s.command = g.command
  BY <1>0, <1>4 DEF Search, Arrived, Work, Same
<1> HIDE DEF g, s, T
<1>7. s \in Seen
  BY <1>4, <1>5 DEF Stops, Seen, Kept
<1>8. Found(s) <=> Found(g)
  <2>1. s.trk = g.trk
    BY <1>4, <1>5 DEF Same
  <2>2. FirstPass(s) = FirstPass(g)
    BY <1>5, <2>1 DEF FirstPass
  <2>3. Hits(s) = Hits(g)
    BY <1>5, <1>6, <2>1, <2>2 DEF Hits, Looks, Look
  <2> QED BY <2>3 DEF Found
<1> QED BY <1>4, <1>5, <1>7, <1>8 DEF Stops, Rewinds, s

LEMMA UpdateKept ==
  ASSUME NEW x \in Kept, NEW e \in SectorType, "ND" \notin e.st1
  PROVE  Update(x, e) \in Kept
<1>1. x \in Work
  BY DEF Kept
<1>2. Update(x, e) \in Work
  BY <1>1, UpdateType
<1>3. Plain(Update(x, e).trk)
  BY <1>1 DEF Plain, Update, Kept, Work, TrackType
<1> QED BY <1>2, <1>3 DEF Kept

LEMMA StartReadKept ==
  ASSUME NEW x \in Kept, NEW count \in Int PROVE StartRead(x, count) \in Kept
<1> DEFINE e   == Current(x)
           ver == (e.ver + 1) % e.weak
           n   == [e EXCEPT !.ver = ver]
           u   == Update(x, n)
<1>1. x \in Work /\ StartRead(x, count) \in Work /\ e \in SectorType
  BY StartReadType, CurrentType DEF Kept, Going
<1>2. "ND" \notin e.st1
  BY EntryPlain DEF Current, Kept
<1>3. CASE e.weak = 0
  BY <1>1, <1>3 DEF StartRead, Dead, Kept, Work
<1>4. CASE e.weak # 0
  <2>1. e.weak \in Nat \ {0} /\ e.ver \in Nat
    BY <1>1, <1>4 DEF SectorType
  <2>2. ver \in Nat
    BY <2>1, SMT
  <2> HIDE DEF ver, e
  <2>3. n \in SectorType /\ n.st1 = e.st1
    BY <1>1, <2>2 DEF SectorType
  <2> HIDE DEF n
  <2>4. u \in Kept
    BY <1>2, <2>3, UpdateKept
  <2>5. StartRead(x, count) = Start(u, Track(x, count, e.off + ver * e.size))
    BY <1>4 DEF StartRead, e, ver, n
  <2> HIDE DEF u
  <2>6. StartRead(x, count).trk = u.trk
    BY <2>4, <2>5 DEF Start, Kept, Work
  <2> QED BY <1>1, <2>4, <2>6 DEF Kept
<1> QED BY <1>3, <1>4

LEMMA StartFoundFinds ==
  ASSUME NEW f \in Stops, NEW count \in Int PROVE Finds(StartFound(f, count))
<1> DEFINE l == LastIfMarked(f)
<1>0. f \in Work /\ f \in Seen /\ f \in Kept
  BY DEF Stops, Seen, Kept
<1>1. ~Found(f) => Finds(Fail(f, "ND"))
  BY <1>0, FailFinds DEF ST1Bits, Stops
<1>2. Finds(Dead(f))
  BY <1>0 DEF Dead, Finds, Kept, Work
<1>3. l \in Seen /\ l \in Kept
  <2>1. f.command[4] \in Byte256
    BY <1>0, WorkFields
  <2>2. l \in Work /\ l.res = f.res /\ l.phase = f.phase /\ l.trk = f.trk
    BY <1>0, <2>1 DEF LastIfMarked, Work
  <2> QED BY <1>0, <2>2 DEF Seen, Kept
<1> HIDE DEF l
<1>4. Finds(StartRead(l, count))
  <2>1. StartRead(l, count) \in Kept
    BY <1>3, StartReadKept
  <2>2. l \in Work
    BY <1>3 DEF Kept
  <2> QED BY <1>3, <2>1, <2>2, StartReadFields DEF Finds, Seen
<1>5. Finds(Done(f))
  BY <1>0, DoneFinds
<1>6. \/ ~Found(f)
      \/ Skipped(f) /\ AtEot(f)
      \/ Skipped(f) /\ ~AtEot(f)
      \/ Found(f) /\ ~Skipped(f)
  OBVIOUS
<1>7. \/ StartFound(f, count) \in {Dead(f), StartRead(l, count), Done(f)}
      \/ ~Found(f) /\ StartFound(f, count) = Fail(f, "ND")
  BY <1>6 DEF StartFound, l
<1> QED BY <1>1, <1>2, <1>4, <1>5, <1>7

LEMMA CmdReadFinds == ASSUME NEW x \in Seen PROVE Finds(cmd_read(x))
<1>1. DataLength(x.command) \in Int
  BY LengthType DEF Seen, Kept, Work
<1> QED BY <1>1, SearchStops, StartFoundFinds DEF cmd_read, SearchAndStart

LEMMA CmdScanFinds == ASSUME NEW x \in Seen PROVE Finds(cmd_scan(x))
<1> DEFINE s == SearchAndStart(x, x.command[8], Unit * 2^x.command[5])
           r == [s.res EXCEPT !.st2 = @ \cup {"SH"}]
           t == [s EXCEPT !.flags = @ \ {"SCANFAILED"}, !.res = r, !.differs = FALSE]
<1>0. x \in Work
  BY DEF Seen, Kept
<1>1. Unit * 2^x.command[5] \in Int /\ x.command[8] \in Nat
  BY <1>0, LengthType, WorkFields
<1>2. Finds(s)
  BY <1>1, SearchStops, StartFoundFinds DEF SearchAndStart
<1> HIDE DEF s
<1>3. s.phase # "EXEC" => cmd_scan(x) = s
  BY DEF cmd_scan, StartScan, s
<1>4. s.phase = "EXEC" => cmd_scan(x) = t
  BY DEF cmd_scan, StartScan, s
<1>5. ASSUME s.phase = "EXEC" PROVE Finds(t)
  <2>1. s \in Work /\ s.res \in Registers
    BY <1>2, WorkFields DEF Finds, Kept
  <2>2. r \in Registers /\ r.st1 = s.res.st1
    BY <2>1 DEF Registers, ST2Bits
  <2> HIDE DEF r
  <2>3. t \in Work /\ t.phase = s.phase /\ t.trk = s.trk /\ t.res = r
    BY <2>1, <2>2 DEF Work
  <2> HIDE DEF t
  <2> QED BY <1>2, <1>5, <2>2, <2>3 DEF Finds, Kept
<1> QED BY <1>2, <1>3, <1>4, <1>5

LEMMA CmdWriteFinds == ASSUME NEW x \in Seen PROVE Finds(cmd_write(x))
<1> DEFINE f == find_sector(x)
           e == [Current(f) EXCEPT !.st1 = {}, !.st2 = IF cmd = Write THEN {} ELSE {"CM"}]
           u == Update(f, e)
           s == Start(u, Track(f, DataLength(x.command), e.off))
<1>1. x \in Work /\ cmd_write(x) \in Work
  BY CmdWriteType DEF Seen, Kept, Going
<1>2. f \in Seen /\ f \in Work /\ f \in Kept
  BY <1>1, FindType, FindSeen DEF Seen
<1>3. ~Found(x) => Finds(Fail(f, "ND"))
  BY <1>1, <1>2, FindRewinds, FailFinds DEF ST1Bits
<1>4. e \in SectorType /\ e.st1 = {}
  <2>1. Current(f) \in SectorType
    BY <1>2, CurrentType
  <2> QED BY <2>1 DEF SectorType, Stored2
<1>5. \/ ~Found(x) /\ cmd_write(x) = Fail(f, "ND")
      \/ cmd_write(x) = s
  BY DEF cmd_write
<1> HIDE DEF f, e
<1>6. u \in Kept /\ u.phase = f.phase /\ u.res = f.res
  BY <1>2, <1>4, UpdateKept DEF Update, Work
<1> HIDE DEF u
<1>7. s.phase = u.phase /\ s.res = u.res /\ s.trk = u.trk
  BY <1>6 DEF Start, Kept, Work
<1> HIDE DEF s
<1>8. s \in Work => Finds(s)
  BY <1>2, <1>6, <1>7 DEF Finds, Kept, Seen
<1> QED BY <1>1, <1>3, <1>5, <1>8

LEMMA AdvanceSeen ==
  ASSUME NEW past
  PROVE  /\ \A x \in Kept : Advance(x, past) \in Kept
         /\ \A x \in Seen : Advance(x, past) \in Seen
<1>1. ASSUME NEW x \in Work PROVE /\ Advance(x, past) \in Work /\ Advance(x, past).phase = x.phase
                                 /\ Advance(x, past).res = x.res /\ Advance(x, past).trk = x.trk
  BY AdvanceType, AdvanceFields DEF Going
<1> QED BY <1>1 DEF Seen, Kept

LEMMA NextRSeen == ASSUME NEW x \in Seen, NEW step \in Nat PROVE NextR(x, step) \in Seen
BY NextRType, NextRFields DEF Seen, Kept

LEMMA WriteByteFinds == ASSUME NEW x \in Seen PROVE Finds(write_byte(x))
<1> DEFINE w == WrapWrite(x)
           y == [w EXCEPT !.dirty = @ \/ x.buf.mem = "track"]
           z == [y EXCEPT !.altered = TRUE, !.res.st0 = @ \cup {"AT"}, !.res.st1 = @ \cup {"EN"}]
<1>1. w \in Seen
  BY AdvanceSeen DEF WrapWrite
<1> HIDE DEF w
<1>2. y \in Seen /\ y \in Work
  BY <1>1 DEF Seen, Kept, Work
<1> HIDE DEF y
<1>3. z \in Seen
  <2> DEFINE r == [y.res EXCEPT !.st0 = @ \cup {"AT"}, !.st1 = @ \cup {"EN"}]
             a == [y EXCEPT !.altered = TRUE]
  <2>1. r \in Registers /\ r.st1 = y.res.st1 \cup {"EN"}
    BY <1>2, WorkFields DEF Registers, ST0Bits, ST1Bits
  <2> HIDE DEF r
  <2>2. a \in Work /\ a.trk = y.trk /\ a.phase = y.phase
    BY <1>2 DEF Work
  <2>3. \A u \in Work : /\ [u EXCEPT !.res = r] \in Work /\ [u EXCEPT !.res = r].res = r
                        /\ [u EXCEPT !.res = r].trk = u.trk /\ [u EXCEPT !.res = r].phase = u.phase
    BY <2>1 DEF Work
  <2>4. z = [a EXCEPT !.res = r]
    BY <1>2, WorkFields DEF Work, Registers, r
  <2> HIDE DEF a, z
  <2>5. z \in Work /\ z.res = r /\ z.trk = y.trk /\ z.phase = y.phase
    BY <2>2, <2>3, <2>4
  <2> QED BY <1>2, <2>1, <2>5 DEF Seen, Kept
<1> HIDE DEF z
<1>4. write_byte(x) \in {y, cmd_write(NextR(y, 1)), Finish(z)}
  BY DEF write_byte, w, y, z
<1>5. Finds(y)
  BY <1>2 DEF Finds, Seen
<1> QED BY <1>2, <1>3, <1>4, <1>5, NextRSeen, CmdWriteFinds, FinishFinds

LEMMA ScanByteFinds == ASSUME NEW x \in Seen, NEW cmp PROVE Finds(scan_byte(x, cmp))
<1> DEFINE code    == cmd % 32
           unequal == cmp \in {"below", "above"}
           failed  == \/ code = ScanEqual /\ unequal
                      \/ code = ScanLow   /\ cmp = "above"
                      \/ code = ScanHigh  /\ cmp = "below"
           w == WrapWrite(x)
           y == [w EXCEPT
                   !.res.st2 = IF code \in ScanCommands /\ unequal THEN @ \ {"SH"} ELSE @,
                   !.flags   = IF failed THEN @ \cup {"SCANFAILED"} ELSE @,
                   !.differs = @ \/ unequal]
           z == [y EXCEPT !.res.st2 = @ \cup {"SN"}]
<1>1. w \in Seen /\ w \in Work
  BY AdvanceSeen DEF WrapWrite, Seen, Kept
<1> HIDE DEF w, code, unequal, failed
<1>2. y \in Seen
  <2> DEFINE r == [w.res EXCEPT !.st2 = IF code \in ScanCommands /\ unequal THEN @ \ {"SH"} ELSE @]
             fl == IF failed THEN w.flags \cup {"SCANFAILED"} ELSE w.flags
             d == w.differs \/ unequal
  <2>1. w.res \in Registers /\ w.flags \subseteq Flags
    BY <1>1, WorkFields
  <2>2. r \in Registers /\ r.st1 = w.res.st1
    BY <2>1 DEF Registers
  <2>3. fl \subseteq Flags
    BY <2>1 DEF Flags
  <2>4. d \in BOOLEAN
    OBVIOUS
  <2>5. y = [w EXCEPT !.res = r, !.flags = fl, !.differs = d]
    OBVIOUS
  <2> HIDE DEF r, fl, d, y
  <2>6. LET v == [w EXCEPT !.res = r, !.flags = fl, !.differs = d]
        IN  v \in Work /\ v.phase = w.phase /\ v.trk = w.trk /\ v.res = r
    BY <1>1, <2>2, <2>3, <2>4 DEF Work
  <2> QED BY <1>1, <2>2, <2>5, <2>6 DEF Seen, Kept
<1>3. scan_byte(x, cmp) \in {y, Finish(y), cmd_scan(NextR(y, y.command[8])), Finish(z)}
  BY DEF scan_byte, z, y, w, code, unequal, failed
<1> HIDE DEF y
<1>4. y \in Work /\ y.command[8] \in Nat
  BY <1>2, WorkFields DEF Seen, Kept
<1>5. z \in Seen
  <2>1. z \in Work
    BY <1>4 DEF Work, Registers, ST2Bits
  <2>2. z.phase = y.phase /\ z.trk = y.trk /\ z.res.st1 = y.res.st1
    BY <1>4 DEF Work, Registers
  <2> QED BY <1>2, <2>1, <2>2 DEF Seen, Kept
<1> HIDE DEF z
<1>6. Finds(y)
  BY <1>2 DEF Finds, Seen
<1> QED BY <1>2, <1>3, <1>4, <1>5, <1>6, NextRSeen, CmdScanFinds, FinishFinds

LEMMA SectorReadFinds ==
  ASSUME cmd \in ReadCommands, NEW n \in Seen PROVE Finds(SectorRead(n))
<1> DEFINE o == [n EXCEPT !.flags = @ \ {"OVERRUN"}, !.res.st0 = @ \cup {"AT"},
                          !.res.st1 = @ \cup {"OR"}]
<1>1. n \in Work /\ cmd # ReadTrk
  BY DEF Seen, Kept, ReadTrk, ReadCommands, Read, ReadDel
<1>2. Finds(Finish(o))
  <2> DEFINE r == [n.res EXCEPT !.st0 = @ \cup {"AT"}, !.st1 = @ \cup {"OR"}]
             m == [n EXCEPT !.flags = @ \ {"OVERRUN"}, !.res = r]
  <2>1. r \in Registers /\ r.st1 = n.res.st1 \cup {"OR"}
    BY <1>1, WorkFields DEF Registers, ST0Bits, ST1Bits
  <2>2. m = o
    BY <1>1, WorkFields DEF Work, Registers
  <2> HIDE DEF r
  <2>3. m \in Work /\ m.res = r /\ m.trk = n.trk /\ m.phase = n.phase
    BY <1>1, <2>1 DEF Work
  <2> HIDE DEF m
  <2>4. m \in Seen
    BY <2>1, <2>3 DEF Seen, Kept
  <2> QED BY <2>2, <2>4, FinishFinds
<1>3. Finds(cmd_read(NextR(n, 1)))
  BY NextRSeen, CmdReadFinds
<1>4. Finds(Done(n))
  BY DoneFinds
<1> QED BY <1>1, <1>2, <1>3, <1>4 DEF SectorRead

LEMMA ReadByteFinds ==
  ASSUME cmd \in ReadCommands, NEW x \in Seen PROVE Finds(read_byte(x))
<1> DEFINE w == WrapRead(x)
           n == [w EXCEPT !.sec = @ + 1]
<1>1. w \in Seen
  BY AdvanceSeen DEF WrapRead
<1> HIDE DEF w
<1>2. n \in Seen
  <2>1. w \in Work /\ w.sec + 1 \in Nat
    BY <1>1, WorkFields DEF Seen, Kept
  <2>2. n \in Work
    BY <2>1, SetFields
  <2> QED BY <1>1, <2>1, <2>2 DEF Seen, Kept, Work
<1> HIDE DEF n
<1>3. read_byte(x) \in {w, SectorRead(n)}
  BY DEF read_byte, w, n
<1>4. Finds(w)
  BY <1>1 DEF Finds, Seen
<1> QED BY <1>2, <1>3, <1>4, SectorReadFinds

(***************************************************************************)
(* The commands that never search keep the disk free of No Data too.       *)
(***************************************************************************)
LEMMA EndKept ==
  ASSUME NEW x \in Kept
  PROVE  /\ Finish(x) \in Kept /\ Done(x) \in Kept
         /\ \A bit \in ST1Bits : Fail(x, bit) \in Kept
<1>1. x \in Work
  BY DEF Kept
<1>2. Finish(x) \in Work /\ Finish(x).trk = x.trk /\ Done(x) \in Work /\ Done(x).trk = x.trk
  BY <1>1, FinishType, FinishFields, DoneType, DoneFields DEF Going
<1>3. \A bit \in ST1Bits : Fail(x, bit) \in Work /\ Fail(x, bit).trk = x.trk
  BY <1>1, FailType, FailFields DEF Going
<1> QED BY <1>2, <1>3 DEF Kept

LEMMA CmdReadtrkKept == ASSUME NEW x \in Kept PROVE cmd_readtrk(x) \in Kept
<1> DEFINE e == Current(x)
           other == IF e.id = Wanted(x.command) THEN {} ELSE {"ND"}
           r == [x EXCEPT !.res.st1 = @ \cup other \cup e.st1,
                          !.res.st2 = (@ \ {"CM"}) \cup e.st2]
<1>0. x \in Work
  BY DEF Kept
<1>1. e \in SectorType
  BY <1>0, CurrentType
<1>2. e.st1 \subseteq ST1Bits /\ e.st2 \subseteq ST2Bits /\ other \subseteq ST1Bits
  BY <1>1 DEF SectorType, Stored1, Stored2, ST1Bits, ST2Bits
<1> HIDE DEF e, other
<1>3. r \in Work
  BY <1>0, <1>2 DEF Work, Registers
<1>4. r.trk = x.trk
  BY <1>0 DEF Work
<1>5. DataLength(x.command) \in Int
  BY <1>0, LengthType DEF Work
<1> HIDE DEF r
<1>6. StartRead(r, DataLength(x.command)) \in Kept
  BY <1>3, <1>4, <1>5, StartReadKept DEF Kept
<1> QED BY <1>6 DEF cmd_readtrk, r, e, other

LEMMA TrackReadKept ==
  ASSUME cmd = ReadTrk, NEW x \in Kept PROVE read_byte(x) \in Kept
<1> DEFINE w == WrapRead(x)
           n == [w EXCEPT !.sec = @ + 1]
           o == [n EXCEPT !.flags = @ \ {"OVERRUN"}, !.res.st0 = @ \cup {"AT"},
                          !.res.st1 = @ \cup {"OR"}]
           m == [n EXCEPT !.command[6] = PrevByte(@)]
           k == [m EXCEPT !.sec = IF @ >= m.trk.sectors THEN 0 ELSE @]
<1>1. w \in Kept
  BY AdvanceSeen DEF WrapRead
<1>2. read_byte(x) \in {w, Finish(o), Done(m), cmd_readtrk(NextR(k, 1))}
  BY DEF read_byte, SectorRead, TrackSectorRead
<1> HIDE DEF w
<1>3. n \in Kept /\ n \in Work
  <2>1. w \in Work /\ w.sec + 1 \in Nat
    BY <1>1, WorkFields DEF Kept
  <2>2. n \in Work
    BY <2>1, SetFields
  <2> QED BY <1>1, <2>1, <2>2 DEF Kept, Work
<1> HIDE DEF n
<1>4. o \in Kept
  <2> DEFINE r == [n.res EXCEPT !.st0 = @ \cup {"AT"}, !.st1 = @ \cup {"OR"}]
             p == [n EXCEPT !.flags = @ \ {"OVERRUN"}, !.res = r]
  <2>1. r \in Registers
    BY <1>3, WorkFields DEF Registers, ST0Bits, ST1Bits
  <2>2. p = o
    BY <1>3, WorkFields DEF Work, Registers
  <2> HIDE DEF r
  <2>3. p \in Work /\ p.trk = n.trk
    BY <1>3, <2>1 DEF Work
  <2> QED BY <1>3, <2>2, <2>3 DEF Kept
<1>5. m \in Kept /\ m \in Work
  <2>1. n.command[6] \in Nat
    BY <1>3, WorkFields
  <2>2. PrevByte(n.command[6]) \in Byte256
    BY <2>1, SizeAssumption DEF PrevByte, Byte256
  <2>3. m \in Work /\ m.trk = n.trk
    BY <1>3, <2>2 DEF Work
  <2> QED BY <1>3, <2>3 DEF Kept
<1> HIDE DEF m, o
<1>6. k \in Kept /\ k \in Work
  BY <1>5 DEF Kept, Work
<1> HIDE DEF k
<1>7. NextR(k, 1) \in Kept
  BY <1>6, NextRType, NextRFields DEF Kept
<1> QED BY <1>1, <1>2, <1>4, <1>5, <1>7, EndKept, CmdReadtrkKept

LEMMA ReformatPlain ==
  ASSUME NEW x \in Work, Plain(x.trk) PROVE Plain(Reformat(x))
<1> DEFINE n    == x.command[3]
           size == Unit * 2^x.command[2]
           kept == [i \in DOMAIN x.trk.tab |-> [x.trk.tab[i] EXCEPT !.off = Nowhere]]
           keep == [x.trk EXCEPT !.tab = kept]
           old  == IF x.trk.sectors # 0 THEN keep ELSE x.trk
           tab  == [i \in DOMAIN old.tab |-> IF i >= n THEN old.tab[i]
                      ELSE [old.tab[i] EXCEPT !.id = x.gp[i + 1], !.st1 = {}, !.st2 = {},
                                              !.off = i * size]]
           big  == [old EXCEPT !.sectors = 0,
                      !.own = IF @ = "live" /\ x.trk.sectors # 0 THEN "freed" ELSE @]
           new  == [old EXCEPT !.sectors = n, !.own = "live", !.room = size * n, !.tab = tab]
           Whole(t) == /\ DOMAIN t = {"sectors", "size", "room", "own", "tab"}
                       /\ DOMAIN t.tab = 0 .. SectorMax - 1
                       /\ \A i \in 0 .. SectorMax - 1 :
                            /\ DOMAIN t.tab[i] = {"id", "st1", "st2", "off", "size", "weak", "ver"}
                            /\ "ND" \notin t.tab[i].st1
<1>1. Whole(x.trk)
  BY DEF Work, TrackType, SectorType, Plain
<1>2. Whole(keep)
  <2>1. DOMAIN kept = 0 .. SectorMax - 1
    BY <1>1
  <2>2. \A i \in 0 .. SectorMax - 1 :
          /\ DOMAIN kept[i] = {"id", "st1", "st2", "off", "size", "weak", "ver"}
          /\ kept[i].st1 = x.trk.tab[i].st1
    BY <1>1
  <2> HIDE DEF kept
  <2> QED BY <1>1, <2>1, <2>2
<1> HIDE DEF keep, kept
<1>3. Whole(old)
  BY <1>1, <1>2
<1> HIDE DEF old, n, size
<1>4. Plain(big)
  BY <1>3 DEF Plain
<1>5. Plain(new)
  <2>1. DOMAIN tab = 0 .. SectorMax - 1
    BY <1>3
  <2>2. \A i \in 0 .. SectorMax - 1 : "ND" \notin tab[i].st1
    BY <1>3
  <2>3. new.tab = tab
    BY <1>3
  <2> HIDE DEF tab, new
  <2> QED BY <2>1, <2>2, <2>3 DEF Plain
<1>6. Reformat(x) \in {big, new}
  BY DEF Reformat, old, keep, kept, tab, n, size
<1> QED BY <1>4, <1>5, <1>6

LEMMA FormatIdKept ==
  ASSUME NEW x \in Kept, Collecting(x), NEW id \in IDs PROVE format_id(x, id) \in Kept
<1> DEFINE w == WrapWrite(x)
           g == IF x.buf.count > 0 THEN Append(w.gp, id) ELSE w.gp
           y == [w EXCEPT !.gp = g]
           last == y.gp[y.command[3]]
           z == [y EXCEPT !.trk = Reformat(y), !.altered = TRUE, !.dirty = TRUE, !.gp = <<>>,
                    !.res.id = [last EXCEPT ![4] = y.command[2]], !.phase = "RESULT"]
<1>1. x \in Work /\ format_id(x, id) \in Work
  BY FormatIdType DEF Kept, Going
<1>2. w \in Kept /\ w \in Work /\ w.gp = x.gp
  BY <1>1, AdvanceSeen, AdvanceType DEF WrapWrite, Kept
<1> HIDE DEF w
<1>3. g \in Seq(IDs)
  BY <1>1, <1>2, WorkFields
<1> HIDE DEF g
<1>4. y \in Work /\ Plain(y.trk)
  BY <1>2, <1>3 DEF Kept, Work
<1>5. format_id(x, id) \in {y, z}
  BY DEF format_id, w, g
<1> HIDE DEF y, last
<1>6. Plain(z.trk)
  <2>1. z.trk = Reformat(y)
    BY <1>4 DEF Work, Registers
  <2> QED BY <1>4, <2>1, ReformatPlain
<1> HIDE DEF z
<1> QED BY <1>1, <1>4, <1>5, <1>6 DEF Kept

LEMMA HandleFinds ==
  ASSUME NEW x \in Seen, cmd \in Transfers \cup {ReadID}
  PROVE  Handle(x) \in Kept /\ (cmd \in SearchCommands => Finds(Handle(x)))
<1> DEFINE s == [x EXCEPT !.command[8] = IF @ > 2 THEN 2 ELSE @, !.flags = @ \cup {"SCAN"}]
           t == [x EXCEPT !.command[4] = 1, !.sec = 0]
           idx == IF x.sec < x.trk.sectors THEN x.sec ELSE 0
           i == [x EXCEPT !.phase = "RESULT", !.res.id = Entry(x.trk, idx).id, !.sec = idx + 1]
           v == [x EXCEPT !.gp = <<>>]
           w == [count |-> x.command[3], ptr |-> 0, end |-> x.command[3], mem |-> "gp"]
<1>0. x \in Work /\ x \in Kept /\ Handle(x) \in Work
  BY HandleType DEF Seen, Kept, Going
<1>1. Handle(x) \in CASE cmd = ReadTrk         -> {cmd_readtrk(t), Fail(x, "MA")}
                      [] cmd \in WriteCommands -> {cmd_write(x), Fail(x, "MA")}
                      [] cmd \in ReadCommands  -> {cmd_read(x), Fail(x, "MA")}
                      [] cmd = ReadID          -> {i, Fail(x, "MA")}
                      [] cmd = WriteID         -> {Start(v, w)}
                      [] cmd \in ScanCommands  -> {cmd_scan(s), Fail(x, "MA")}
  <2> HIDE DEF s, t, i, v, w
  <2> QED
    BY DEF Handle, Formatted, fdc_readtrk, fdc_write, fdc_read, fdc_readID, fdc_writeID,
         fdc_scan, Transfers, CpuToFdc, ReadCommands, WriteCommands, ScanCommands, s, t, i, v, w
<1>2. Finds(Fail(x, "MA")) /\ Finds(cmd_write(x)) /\ Finds(cmd_read(x))
  BY FailFinds, CmdWriteFinds, CmdReadFinds DEF ST1Bits
<1>3. cmd_readtrk(t) \in Kept
  <2>1. 1 \in Byte256 /\ 0 \in Nat
    BY SizeAssumption DEF Byte256
  <2>2. t \in Work /\ t.trk = x.trk
    BY <1>0, <2>1 DEF Work
  <2> QED BY <1>0, <2>2, CmdReadtrkKept DEF Kept
<1>4. Finds(cmd_scan(s))
  <2>1. x.command[8] \in Byte256 \cap Nat
    BY <1>0, WorkFields
  <2>2. (IF x.command[8] > 2 THEN 2 ELSE x.command[8]) \in Byte256
    BY <2>1, SizeAssumption DEF Byte256
  <2>3. s \in Work /\ s.trk = x.trk /\ s.phase = x.phase /\ s.res = x.res
    BY <1>0, <2>2 DEF Work, Flags
  <2>4. s \in Seen
    BY <2>3 DEF Seen, Kept
  <2> QED BY <2>4, CmdScanFinds
<1>5. i.trk = x.trk /\ Start(v, w).trk = x.trk
  BY <1>0 DEF Work, Start
<1> HIDE DEF s, t, i, v, w
<1>6. CASE cmd \in SearchCommands
  <2>1. Handle(x) \in {cmd_write(x), Fail(x, "MA"), cmd_read(x), cmd_scan(s)}
    BY <1>1, <1>6 DEF SearchCommands, ReadTrk, WriteCommands, Write, WriteDel, ReadCommands,
       Read, ReadDel, ReadID, WriteID, ScanCommands, ScanEqual, ScanLow, ScanHigh
  <2> QED BY <1>2, <1>4, <2>1 DEF Finds
<1>7. CASE cmd \notin SearchCommands
  <2>1. cmd \in {ReadTrk, ReadID, WriteID}
    BY <1>7 DEF Transfers, CpuToFdc, SearchCommands
  <2>2. Handle(x) \in {cmd_readtrk(t), Fail(x, "MA"), i, Start(v, w)}
    BY <1>1, <2>1 DEF ReadTrk, WriteCommands, Write, WriteDel, ReadCommands, Read, ReadDel,
       ReadID, WriteID, ScanCommands, ScanEqual, ScanLow, ScanHigh
  <2>3. Handle(x) \in {i, Start(v, w)} => Handle(x) \in Kept
    BY <1>0, <1>5 DEF Kept
  <2> QED BY <1>2, <1>3, <1>7, <2>2, <2>3 DEF Finds
<1> QED BY <1>6, <1>7

LEMMA ByteFinds ==
  ASSUME NEW x \in Kept, x.phase = "EXEC", cmd \in Transfers, cmd = WriteID => Collecting(x),
         cmd \in SearchCommands => "ND" \notin x.res.st1,
         NEW cmps, NEW ids \in SUBSET IDs, NEW y \in Byte(x, cmps, ids)
  PROVE  y \in Kept /\ (cmd \in SearchCommands => Finds(y))
<1> USE DEF Byte, ReadTrk, WriteCommands, Write, WriteDel, ReadCommands, Read, ReadDel,
            WriteID, ScanCommands, ScanEqual, ScanLow, ScanHigh, SearchCommands
<1>0. cmd \in SearchCommands => x \in Seen
  BY DEF Seen
<1>1. CASE cmd \in ReadCommands
  BY <1>0, <1>1, ReadByteFinds DEF Finds
<1>2. CASE cmd \in WriteCommands
  BY <1>0, <1>2, WriteByteFinds DEF Finds
<1>3. CASE cmd \in ScanCommands
  <2>1. PICK cmp \in cmps : y = scan_byte(x, cmp)
    BY <1>3
  <2> QED BY <1>0, <1>3, <2>1, ScanByteFinds DEF Finds
<1>4. CASE cmd = WriteID
  <2>1. PICK id \in ids : y = format_id(x, id)
    BY <1>4
  <2> QED BY <1>4, <2>1, FormatIdKept
<1>5. CASE cmd = ReadTrk
  BY <1>5, TrackReadKept
<1> QED BY <1>1, <1>2, <1>3, <1>4, <1>5 DEF Transfers, CpuToFdc

\* What holds between two steps when no sector of an image is stored with No Data.
FindInv ==
  /\ PlainDisk(disk)
  /\ cmd \in SearchCommands =>
       /\ phase = "EXEC" => "ND" \notin res.st1
       /\ phase = "RESULT" /\ res_length = 7 /\ "ND" \in res.st1
            => sec = 0 /\ ~({"BC", "NC"} \subseteq res.st2)

LEMMA StoreFinds ==
  ASSUME NEW x \in Kept, cmd \in SearchCommands => Finds(x), Store(x), cmd' = cmd,
         disk \in DiskType, PlainDisk(disk)
  PROVE  FindInv'
<1>1. PlainDisk(disk')
  <2>1. /\ x.at[1] \in Cylinder /\ x.at[2] \in {0, 1} /\ Plain(x.trk)
        /\ disk' = [disk EXCEPT !.track[x.at[1]][x.at[2]] = x.trk, !.altered = x.altered]
    BY DEF Kept, Work, Store
  <2>2. ASSUME NEW c \in Cylinder, NEW s \in {0, 1}
        PROVE  disk'.track[c][s] \in {x.trk, disk.track[c][s]}
    BY <2>1 DEF DiskType
  <2>3. ASSUME NEW c \in Cylinder, NEW s \in {0, 1}
        PROVE  Plain(disk'.track[c][s])
    BY <2>1, <2>2 DEF PlainDisk
  <2> QED BY <2>3 DEF PlainDisk
<1>2. phase' = x.phase /\ res' = x.res /\ sec' = x.sec
  BY DEF Store
<1> QED BY <1>1, <1>2 DEF FindInv, Finds, Rewinds, PlainDisk

LEMMA FindByteKeeps ==
  ASSUME DataInv, FindInv, phase = "EXEC", cmd \in Transfers, TransferByte \/ Tick
  PROVE  FindInv'
<1>0. cmd' = cmd /\ disk \in DiskType /\ PlainDisk(disk)
  BY DEF TransferByte, Tick, DataInv, Typed, FindInv
<1>1. Transfer \in Work
  BY TransferType DEF DataInv
<1>2. Transfer \in Kept /\ Transfer.phase = "EXEC"
      /\ (cmd \in SearchCommands => "ND" \notin Transfer.res.st1)
  <2>1. atrk[1] \in Cylinder /\ atrk[2] \in {0, 1}
    BY DEF DataInv, Typed
  <2>2. Plain(disk.track[atrk[1]][atrk[2]])
    BY <1>0, <2>1 DEF PlainDisk
  <2> QED BY <1>1, <2>2 DEF Kept, Transfer, FindInv
<1> DEFINE t    == timeout - 1
           x    == [Transfer EXCEPT !.timeout = t]
           late == [x EXCEPT !.flags = @ \cup {"OVERRUN"}]
           Fits(w) == /\ w \in Kept /\ w.phase = "EXEC"
                      /\ cmd = WriteID => Collecting(w)
                      /\ cmd \in SearchCommands => "ND" \notin w.res.st1
<1>3. Fits(Transfer) /\ Fits(x) /\ Fits(late)
  <2>1. t \in 0 .. InitialTimeout
    BY TimeoutAssumption DEF DataInv, Typed, InitialTimeout
  <2>2. cmd = WriteID => Collecting(Transfer)
    BY DEF DataInv, Counted
  <2> HIDE DEF t
  <2>3. /\ x \in Work /\ x.phase = Transfer.phase /\ x.trk = Transfer.trk /\ x.res = Transfer.res
        /\ x.buf = Transfer.buf /\ x.gp = Transfer.gp /\ x.command = Transfer.command
    BY <1>1, <2>1 DEF Work
  <2> HIDE DEF x
  <2>4. /\ late \in Work /\ late.phase = x.phase /\ late.trk = x.trk /\ late.res = x.res
        /\ late.buf = x.buf /\ late.gp = x.gp /\ late.command = x.command
    BY <2>3 DEF Work, Flags
  <2> HIDE DEF late
  <2> QED BY <1>2, <2>2, <2>3, <2>4 DEF Kept, Collecting
<1>5. \/ \E y \in Byte(Transfer, Comparisons \cup {"ignored"}, FormatIds) : Store(y)
      \/ Store(x)
      \/ \E y \in TimerByte(late) : Store(y)
  BY DEF TransferByte, Tick, Transfer
<1> HIDE DEF x, late
<1>6. CASE Store(x)
  <2>1. x \in Kept /\ (cmd \in SearchCommands => Finds(x))
    BY <1>3 DEF Finds
  <2> QED BY <1>0, <1>6, <2>1, StoreFinds
<1>7. ASSUME NEW w, Fits(w), NEW cmps, NEW ids \in SUBSET IDs, NEW y \in Byte(w, cmps, ids), Store(y)
      PROVE  FindInv'
  <2>1. y \in Kept /\ (cmd \in SearchCommands => Finds(y))
    BY <1>7, ByteFinds
  <2> QED BY <1>0, <1>7, <2>1, StoreFinds
<1>8. {<<FF, FF, FF, FF>>} \in SUBSET IDs /\ FormatIds \in SUBSET IDs
  BY SizeAssumption, DiskAssumption DEF FF, IDs, Byte256
<1> HIDE DEF Fits
<1> QED BY <1>3, <1>5, <1>6, <1>7, <1>8 DEF TimerByte

LEMMA FindExecuteKeeps ==
  ASSUME DataInv, FindInv, phase = "CMD", NEW c \in [1 .. 8 -> Byte256], Execute(c), cmd' = cmd
  PROVE  FindInv'
<1> DEFINE x == Access(c)
           y == IF Ready(UnitOf(c)) THEN Handle(x)
                ELSE IF cmd = ReadID THEN [x EXCEPT !.phase = "RESULT"] ELSE Finish(x)
<1>0. Typed /\ disk \in DiskType /\ PlainDisk(disk)
  BY DEF DataInv, Typed, FindInv
<1>1. Store(y) /\ cmd \in Transfers \cup {ReadID}
  BY DEF Execute
<1>2. x \in Seen
  <2>1. x \in Work
    BY AccessType DEF DataInv
  <2>2. "ND" \notin InitStatus(c).st1
    BY DEF InitStatus, NoResult
  <2>3. x.phase = "EXEC" /\ x.res = InitStatus(c)
    BY DEF Access, Transfer
  <2>4. x.trk \in {disk.track[Reach(c)[1]][Reach(c)[2]], disk.track[atrk[1]][atrk[2]]}
    BY DEF Access, Transfer
  <2>5. Reach(c)[1] \in Cylinder /\ Reach(c)[2] \in {0, 1}
    BY <1>0 DEF Reach, Typed, DriveA, Drive
  <2>6. atrk[1] \in Cylinder /\ atrk[2] \in {0, 1}
    BY <1>0 DEF Typed
  <2>7. Plain(x.trk)
    BY <1>0, <2>4, <2>5, <2>6 DEF PlainDisk
  <2> QED BY <2>1, <2>2, <2>3, <2>7 DEF Seen, Kept
<1> HIDE DEF x
<1>3. x \in Work /\ x \in Kept
  BY <1>2 DEF Seen, Kept
<1>4. CASE Ready(UnitOf(c))
  <2>1. y \in Kept /\ (cmd \in SearchCommands => Finds(y))
    BY <1>1, <1>2, <1>4, HandleFinds
  <2> QED BY <1>0, <1>1, <2>1, StoreFinds
<1>5. CASE ~Ready(UnitOf(c)) /\ cmd # ReadID
  <2>1. y = Finish(x) /\ Finish(x) \in Kept /\ Finds(Finish(x))
    BY <1>2, <1>3, <1>5, EndKept, FinishFinds
  <2> QED BY <1>0, <1>1, <2>1, StoreFinds
<1>6. CASE ~Ready(UnitOf(c)) /\ cmd = ReadID
  <2>1. y = [x EXCEPT !.phase = "RESULT"] /\ [x EXCEPT !.phase = "RESULT"] \in Kept
    BY <1>3, <1>6 DEF Kept, Work
  <2>2. cmd \notin SearchCommands
    BY <1>6 DEF SearchCommands, ReadID, WriteCommands, Write, WriteDel, ReadCommands, Read,
       ReadDel, ScanCommands, ScanEqual, ScanLow, ScanHigh
  <2> QED BY <1>0, <1>1, <2>1, <2>2, StoreFinds
<1> QED BY <1>4, <1>5, <1>6

LEMMA NoDiskPlain == PlainDisk(NoDisk)
BY DEF PlainDisk, Plain, NoDisk, BlankTrack, BlankSector

LEMMA FindKeeps ==
  ASSUME PlainImages, DataInv, ProtocolInv, FindInv, [Next]_vars PROVE FindInv'
<1>0. phase = "EXEC" => cmd \in Transfers
  BY DEF ProtocolInv
<1>1. CASE \E val \in Opcodes : ReceiveCommand(val)
  <2>1. PICK val \in Opcodes : ReceiveCommand(val)
    BY <1>1
  <2>2. phase = "CMD" /\ UNCHANGED <<disk, sec>>
    BY <2>1 DEF ReceiveCommand, drives
  <2>3. phase' = phase \/ cmd' = IntStat \/ res_length' = InvalidLength
    BY <2>1 DEF ReceiveCommand
  <2>4. IntStat \notin SearchCommands /\ InvalidLength # 7
    BY DEF InvalidLength, IntStat, WriteCommands, Write, WriteDel, ReadCommands, Read, ReadDel,
       SearchCommands, ScanCommands, ScanEqual, ScanLow, ScanHigh
  <2>5. phase' \in {"CMD", "RESULT"}
    BY <2>1, <2>2 DEF ReceiveCommand, fdc_intstat
  <2> QED BY <2>2, <2>3, <2>4, <2>5 DEF FindInv, PlainDisk
<1>2. CASE byte_count \in 1 .. 8 /\ \E val \in Args[byte_count] : ReceiveParameter(val)
  <2>1. PICK val \in Args[byte_count] : ReceiveParameter(val)
    BY <1>2
  <2> DEFINE c == [command EXCEPT ![byte_count] = val]
  <2>2. c \in [1 .. 8 -> Byte256]
    <3>1. val \in Byte256
      BY <1>2, <2>1, GuestAssumption DEF Byte256
    <3> QED BY <3>1 DEF DataInv, Typed
  <2>3. phase = "CMD" /\ cmd' = cmd
    BY <2>1 DEF ReceiveParameter
  <2>4. (phase' = phase /\ disk' = disk) \/ Execute(c) \/ fdc_specify(c) \/ fdc_drvstat(c)
        \/ fdc_seek(c)
    BY <2>1 DEF ReceiveParameter
  <2> HIDE DEF c
  <2>5. CASE Execute(c)
    BY <2>2, <2>3, <2>5, FindExecuteKeeps
  <2>6. CASE (phase' = phase /\ disk' = disk) \/ fdc_specify(c) \/ fdc_drvstat(c) \/ fdc_seek(c)
    <3>1. disk' = disk /\ (phase' = "CMD" \/ cmd' = DrvStat)
      BY <2>3, <2>6 DEF fdc_specify, fdc_drvstat, fdc_seek, drives
    <3>2. DrvStat \notin SearchCommands
      BY DEF DrvStat, WriteCommands, Write, WriteDel, ReadCommands, Read, ReadDel,
         SearchCommands, ScanCommands, ScanEqual, ScanLow, ScanHigh
    <3> QED BY <3>1, <3>2 DEF FindInv, PlainDisk
  <2> QED BY <2>4, <2>5, <2>6
<1>3. CASE TransferByte \/ Tick
  BY <1>0, <1>3, FindByteKeeps DEF TransferByte, Tick
<1>4. CASE ReadResult
  BY <1>4 DEF ReadResult, FindInv, PlainDisk, drives
<1>5. CASE emulator_reset
  BY <1>5 DEF emulator_reset, FindInv, PlainDisk, drives
<1>6. CASE fdc_read_status \/ SwitchMotor \/ UNCHANGED vars
  BY <1>6 DEF fdc_read_status, SwitchMotor, control, vars, FindInv, PlainDisk, drives
<1>7. CASE \E d \in Images \cup {NoDisk} : ChangeDisk(d)
  <2>1. PICK d \in Images \cup {NoDisk} : ChangeDisk(d)
    BY <1>7
  <2>2. PlainDisk(d)
    BY NoDiskPlain DEF PlainImages
  <2> QED BY <2>1, <2>2 DEF ChangeDisk, FindInv, PlainDisk, control
<1> QED BY <1>1, <1>2, <1>3, <1>4, <1>5, <1>6, <1>7 DEF Next, CPU, Host

LEMMA InitFind == Init => FindInv
BY NoDiskPlain DEF Init, InitWith, FindInv, PlainDisk

LEMMA FindOK == FindInv => NotFoundRewinds
BY DEF FindInv, NotFoundRewinds, Completed, SearchCommands

(***************************************************************************)
(* When a sector is missing, be it the first of a command or a later one,  *)
(* the table index ends at 0 and Bad Cylinder excludes No Cylinder, for    *)
(* all disks none of whose sectors is stored with No Data.                 *)
(***************************************************************************)
THEOREM NotFoundSafe == ASSUME PlainImages PROVE Spec => []NotFoundRewinds
<1>1. IInv => ProtocolInv
  BY DEF IInv, ControlInv
<1>2. ProtocolInv /\ DataInv /\ FindInv /\ [Next]_vars => FindInv'
  BY FindKeeps
<1> QED
  BY <1>1, <1>2, InitFind, FindOK, Invariance, DataTypes, PTL DEF Spec

(***************************************************************************)
(* Bytes of a transfer stay inside the track's data, and those written     *)
(* inside the sector, for the images and commands for which the code needs *)
(* no check: a formatted track owns the data it points to; each of its     *)
(* sectors, in all its versions, lies in that data, is as long as its N    *)
(* says and has a number that counting on by one or two does not wrap; the *)
(* rest of the table is blank; and the program formats nothing and asks    *)
(* for no sector 0 and no length 0.                                        *)
(***************************************************************************)
LaidSector(t, e) ==
  /\ e.id[3] \in 1 .. FF - 2
  /\ Unit * 2^e.id[4] \in 1 .. e.size
  /\ \A v \in {0} \cup (0 .. e.weak - 1) :
       0 <= e.off + v * e.size /\ e.off + v * e.size + e.size <= t.size
LaidTrack(t) ==
  /\ t.sectors <= SectorMax
  /\ t.sectors # 0 => t.own = "live" /\ t.size <= t.room
  /\ \A i \in 0 .. SectorMax - 1 :
       IF i < t.sectors THEN LaidSector(t, t.tab[i]) ELSE t.tab[i].id[3] = 0
LaidDisk(d) == \A c \in Cylinder, s \in {0, 1} : LaidTrack(d.track[c][s])
LaidImages  == \A d \in Images : LaidDisk(d)
Modest      == /\ {WriteID, WriteID + 32} \cap Opcodes = {} /\ 0 \notin Args[4]
               /\ 0 \in Args[5] => 0 \notin Args[8]

\* A command at work on a formatted track, and one that has found its sector.
Asks(c)  == /\ c[4] # 0
            /\ cmd \in WriteCommands => c[5] # 0 \/ c[8] # 0
            /\ cmd \in ScanCommands => c[8] <= 2
Asking   == {x \in Work : /\ LaidTrack(x.trk) /\ x.trk.sectors # 0 /\ x.phase = "EXEC"
                          /\ Asks(x.command)}
At(x)    == LaidSector(x.trk, Current(x)) /\ Current(x).id = Wanted(x.command)
Reached  == {x \in Asking : Found(x) => At(x)}

LEMMA EntryLaid ==
  ASSUME NEW t \in TrackType, LaidTrack(t), NEW i, Entry(t, i).id[3] # 0
  PROVE  i \in 0 .. SectorMax - 1 /\ i < t.sectors /\ LaidSector(t, Entry(t, i))
<1>1. i \in DOMAIN t.tab
  BY DEF Entry, BlankSector
<1>2. i \in 0 .. SectorMax - 1 /\ Entry(t, i) = t.tab[i]
  BY <1>1 DEF TrackType, Entry
<1> QED BY <1>2 DEF LaidTrack

LEMMA WantedFields ==
  ASSUME NEW c \in [1 .. 8 -> Byte256]
  PROVE  Wanted(c) = <<c[2], c[3], c[4], c[5]>> /\ Wanted(c)[3] = c[4] /\ Wanted(c)[4] = c[5]
BY DEF Wanted

\* A sector that has been found lies in its track; its number can be counted on.
LEMMA FindAt ==
  ASSUME NEW x \in Asking, Found(x)
  PROVE  At(find_sector(x))
<1> DEFINE f == find_sector(x)
           k == Min(Hits(x))
<1>0. x \in Work /\ LaidTrack(x.trk) /\ x.command[4] # 0 /\ x.trk \in TrackType
  BY WorkFields DEF Asking, Asks
<1>1. Hits(x) \subseteq Looks(x) /\ Hits(x) # {}
  BY DEF Found, Hits
<1>2. k \in Hits(x)
  BY <1>0, <1>1, LooksNat, MinOf
<1>3. Entry(x.trk, Look(x, k)).id = Wanted(x.command)
  BY <1>2 DEF Hits
<1>4. f \in Work /\ f.trk = x.trk /\ f.command = x.command /\ f.sec = Look(x, k)
  BY <1>0, FindType, FindFields DEF find_sector, Work, Registers
<1>5. Wanted(x.command)[3] # 0
  BY <1>0, WorkFields, WantedFields
<1> HIDE DEF k, f
<1>6. LaidSector(x.trk, Entry(x.trk, Look(x, k)))
  BY <1>0, <1>3, <1>5, EntryLaid
<1> QED BY <1>3, <1>4, <1>6 DEF At, Current, f

\* A sector that has not been found is not found again from the table's start.
LEMMA NotFoundStays ==
  ASSUME NEW x \in Work, x.trk.sectors # 0, ~Found(x) PROVE ~Found(find_sector(x))
<1> DEFINE f == find_sector(x)
           n == x.trk.sectors
           p == FirstPass(x)
<1>1. f \in Work /\ f.trk = x.trk /\ f.command = x.command /\ f.sec = 0
  BY FindType, FindFields, FindRewinds DEF Rewinds
<1> HIDE DEF f
<1>2. n \in Nat /\ n > 0 /\ x.sec \in Nat
  BY WorkFields DEF TrackType
<1>3. p \in Nat
  BY <1>2 DEF FirstPass
<1>4. Looks(x) = 0 .. p + n - 1 /\ (\A k : Look(x, k) = IF k < p THEN x.sec + k ELSE k - p)
  BY <1>2 DEF Looks, Look
<1>5. FirstPass(f) = n
  BY <1>1, <1>2 DEF FirstPass
<1>6. Looks(f) = 0 .. n + n - 1 /\ (\A k : Look(f, k) = IF k < n THEN 0 + k ELSE k - n)
  BY <1>1, <1>2, <1>5 DEF Looks, Look
<1> HIDE DEF n, p
<1>7. ASSUME NEW k \in Hits(f) PROVE FALSE
  <2>1. k \in Looks(f) /\ Entry(x.trk, Look(f, k)).id = Wanted(x.command)
    BY <1>1 DEF Hits
  <2>2. Look(f, k) \in 0 .. n - 1
    BY <1>2, <1>6, <2>1
  <2> DEFINE j == Look(f, k)
  <2> HIDE DEF j
  <2>3. p + j \in Looks(x) /\ Look(x, p + j) = j
    BY <1>2, <1>3, <1>4, <2>2 DEF j
  <2>4. p + j \in Hits(x)
    BY <2>1, <2>3 DEF Hits, j
  <2> QED BY <2>4 DEF Found
<1> QED BY <1>7 DEF Found, f

LEMMA LoadReached == ASSUME NEW x \in Asking PROVE LoadSector(x) \in Reached
<1> DEFINE f == find_sector(x)
<1>0. x \in Work /\ x.trk.sectors # 0
  BY DEF Asking
<1>1. f \in Work /\ f \in Asking /\ f.trk = x.trk
  BY <1>0, FindType, FindFields DEF Asking
<1>2. CASE ~Found(x)
  BY <1>0, <1>1, <1>2, NotFoundStays DEF LoadSector, Reached
<1>3. CASE Found(x)
  <2> DEFINE g == LoadBits(f)
  <2>1. LoadSector(x) = g /\ g \in Work
    BY <1>0, <1>3, LoadType DEF LoadSector
  <2>2. At(f)
    BY <1>3, FindAt
  <2> HIDE DEF f
  <2>3. g.trk = f.trk /\ g.sec = f.sec /\ g.command = f.command /\ g.phase = f.phase
    BY <1>1, LoadBitsFields
  <2> HIDE DEF g
  <2> QED BY <1>1, <2>1, <2>2, <2>3 DEF Reached, Asking, At, Current
<1> QED BY <1>2, <1>3

\* Counting on from a sector that was found.
LEMMA NextAsks ==
  ASSUME NEW x \in Work, LaidTrack(x.trk), x.trk.sectors # 0, x.phase = "EXEC", Asks(x.command),
         x.command[4] \in 1 .. FF - 2, NEW step \in 0 .. 2
  PROVE  NextR(x, step) \in Asking
<1> DEFINE n == NextR(x, step)
           v == (x.command[4] + step) % ByteMod
<1>1. n \in Work /\ n.trk = x.trk /\ n.phase = x.phase
  <2>1. step \in Nat
    OBVIOUS
  <2> QED BY <2>1, NextRType, NextRFields
<1>2. v # 0
  <2> DEFINE a == x.command[4] + step
  <2>1. a \in 1 .. ByteMod - 1 /\ ByteMod \in Nat
    BY SizeAssumption DEF FF
  <2> HIDE DEF a
  <2>2. a % ByteMod = a
    BY <2>1
  <2> QED BY <2>1, <2>2 DEF a
<1>3. n.command = [x.command EXCEPT ![4] = v]
  BY DEF NextR, Work
<1> HIDE DEF n, v
<1>4. Asks(n.command)
  BY <1>2, <1>3, WorkFields DEF Asks
<1> QED BY <1>1, <1>4 DEF Asking, n

LEMMA AtNumber ==
  ASSUME NEW x \in Work, At(x) PROVE x.command[4] \in 1 .. FF - 2
BY WorkFields, WantedFields DEF At, LaidSector

LEMMA SearchReached ==
  ASSUME NEW x \in Asking, NEW step \in 0 .. 2 PROVE Search(x, step) \in Reached
<1> DEFINE g == Searches(x, step)[ByteMod]
           s == Search(x, step)
           T == {f \in Reached : Same(x, f)}
<1>0. x \in Work
  BY DEF Asking
<1>1. LoadSector(x) \in T
  <2>1. x.command = [x.command EXCEPT ![4] = x.command[4]]
    BY <1>0, WorkFields
  <2> QED BY <1>0, <2>1, LoadReached, LoadSame DEF Same
<1>2. \A f \in T : SkipOn(f, step) \in T
  <2> TAKE f \in T
  <2>1. f \in Work /\ f \in Asking /\ Same(x, f) /\ f \in Reached
    BY DEF Reached, Asking
  <2> DEFINE n == NextR(f, step)
             v == (f.command[4] + step) % ByteMod
  <2>2. CASE ~Skipped(f)
    BY <2>2 DEF SkipOn
  <2>3. CASE Skipped(f)
    <3>1. f.command[4] \in 1 .. FF - 2
      BY <2>1, <2>3, AtNumber DEF Skipped, Reached
    <3>2. n \in Asking /\ n \in Work
      BY <2>1, <3>1, NextAsks DEF Asking
    <3>3. n.trk = f.trk /\ n.command = [f.command EXCEPT ![4] = v]
      BY <2>1 DEF NextR, Work
    <3>4. f.command \in [1 .. 8 -> Byte256] /\ x.command \in [1 .. 8 -> Byte256]
      BY <1>0, <2>1, WorkFields
    <3> HIDE DEF n, v
    <3>5. Same(x, n)
      BY <2>1, <3>3, <3>4 DEF Same
    <3>6. LoadSector(n) \in Reached /\ Same(x, LoadSector(n))
      BY <3>2, <3>5, LoadReached, LoadSame DEF Same
    <3> QED BY <3>6 DEF SkipOn, n
  <2> QED BY <2>2, <2>3
<1>3. g \in T
  <2> HIDE DEF T, g
  <2> QED BY <1>1, <1>2, SearchKeeps DEF g
<1>4. g \in Work /\ s \in Work /\ Same(x, g) /\ g \in Reached /\ g \in Asking
  BY <1>0, <1>3, SearchType DEF Reached, Asking
<1>5. s.phase = x.phase /\ s.trk = x.trk /\ s.sec = g.sec
  BY <1>0, <1>4, SearchFields
<1>6. s.command = g.command
  BY <1>0, <1>4 DEF Search, Arrived, Work, Same
<1> HIDE DEF g, s, T
<1>7. s.trk = g.trk
  BY <1>4, <1>5 DEF Same
<1>8. s \in Asking
  BY <1>4, <1>5, <1>6, <1>7 DEF Asking
<1>9. Found(s) <=> Found(g)
  <2>1. FirstPass(s) = FirstPass(g)
    BY <1>5, <1>7 DEF FirstPass
  <2>2. Hits(s) = Hits(g)
    BY <1>5, <1>6, <1>7, <2>1 DEF Hits, Looks, Look
  <2> QED BY <2>2 DEF Found
<1>10. At(g) => At(s)
  BY <1>5, <1>6, <1>7 DEF At, Current
<1> QED BY <1>4, <1>8, <1>9, <1>10 DEF Reached, s

(***************************************************************************)
(* What a command leaves: if it goes on, its next byte lies in the data of *)
(* the track; the bytes that the CPU gives end before that data does, and  *)
(* those written end before the sector does.                               *)
(***************************************************************************)
InSector(x) ==
  /\ Current(x).id = Wanted(x.command)
  /\ Current(x).off <= x.buf.ptr
  /\ x.buf.ptr + x.buf.count <= Current(x).off + Current(x).size
InTransfer(x) ==
  /\ x.trk.sectors # 0 /\ x.buf.mem = "track" /\ x.buf.end = x.trk.size
  /\ 0 <= x.buf.ptr /\ x.buf.ptr < x.buf.end
  /\ cmd \in WriteCommands \cup ScanCommands =>
       x.buf.count > 0 /\ x.buf.ptr + x.buf.count <= x.buf.end
  /\ cmd \in WriteCommands => InSector(x)
  /\ cmd \in SearchCommands => Asks(x.command) /\ x.command[4] \in 1 .. FF - 2
Inside(x) == x \in Work /\ LaidTrack(x.trk) /\ (x.phase = "EXEC" => InTransfer(x))

\* A change to what is stored with a sector moves nothing.
LEMMA UpdateLaid ==
  ASSUME NEW x \in Work, LaidTrack(x.trk), NEW e \in SectorType, e.id = Current(x).id,
         e.off = Current(x).off, e.size = Current(x).size, e.weak = Current(x).weak
  PROVE  /\ Update(x, e) \in Work /\ LaidTrack(Update(x, e).trk)
         /\ Update(x, e).trk.sectors = x.trk.sectors /\ Update(x, e).trk.size = x.trk.size
         /\ Update(x, e).command = x.command /\ Update(x, e).phase = x.phase
         /\ Update(x, e).sec = x.sec
         /\ Current(Update(x, e)).id = e.id /\ Current(Update(x, e)).off = e.off
         /\ Current(Update(x, e)).size = e.size
<1> DEFINE u == Update(x, e)
           t == [x.trk.tab EXCEPT ![x.sec] = e]
<1>1. u \in Work
  BY UpdateType
<1>2. x.trk \in TrackType /\ x.trk.tab \in [0 .. SectorMax - 1 -> SectorType]
  BY WorkFields DEF TrackType
<1>3. /\ u.trk.tab = t /\ u.trk.sectors = x.trk.sectors /\ u.trk.size = x.trk.size
      /\ u.trk.own = x.trk.own /\ u.trk.room = x.trk.room
      /\ u.command = x.command /\ u.phase = x.phase /\ u.sec = x.sec
  BY <1>2 DEF Update, Work, TrackType
<1>4. ASSUME NEW i \in 0 .. SectorMax - 1
      PROVE  /\ t[i].id = x.trk.tab[i].id /\ t[i].off = x.trk.tab[i].off
             /\ t[i].size = x.trk.tab[i].size /\ t[i].weak = x.trk.tab[i].weak
  BY <1>2 DEF Current, Entry
<1>5. DOMAIN t = DOMAIN x.trk.tab /\ DOMAIN t = 0 .. SectorMax - 1
  BY <1>2
<1> HIDE DEF u, t
<1>6. LaidTrack(u.trk)
  <2>1. ASSUME NEW i \in 0 .. SectorMax - 1, LaidSector(x.trk, x.trk.tab[i])
        PROVE  LaidSector(u.trk, u.trk.tab[i])
    BY <1>3, <1>4, <2>1 DEF LaidSector
  <2> QED BY <1>3, <1>4, <2>1 DEF LaidTrack
<1>7. Current(u).id = e.id /\ Current(u).off = e.off /\ Current(u).size = e.size
  <2>1. CASE x.sec \in 0 .. SectorMax - 1
    BY <1>3, <1>4, <1>5, <2>1 DEF Current, Entry
  <2>2. CASE x.sec \notin 0 .. SectorMax - 1
    BY <1>3, <1>5, <2>2 DEF Current, Entry
  <2> QED BY <2>1, <2>2
<1> QED BY <1>1, <1>3, <1>6, <1>7 DEF u

\* What Start sets up.
LEMMA StartFields ==
  ASSUME NEW x \in Work, NEW b \in Buffers
  PROVE  /\ Start(x, b) \in Work /\ Start(x, b).buf = b /\ Start(x, b).trk = x.trk
         /\ Start(x, b).sec = x.sec /\ Start(x, b).command = x.command
         /\ Start(x, b).phase = x.phase
<1>1. Start(x, b) \in Work
  BY StartType DEF Going
<1> QED BY <1>1 DEF Start, Work

\* The sector that is read lies in the track, whichever version it is.
Reads(x, e, y, count) ==
  /\ y \in Work /\ LaidTrack(y.trk) /\ y.trk.sectors # 0
  /\ y.command = x.command /\ y.phase = x.phase
  /\ y.buf.mem = "track" /\ y.buf.end = y.trk.size /\ y.buf.count = count
  /\ 0 <= y.buf.ptr /\ y.buf.ptr + e.size <= y.buf.end
LEMMA StartReadLaid ==
  ASSUME NEW x \in Work, LaidTrack(x.trk), x.trk.sectors # 0, LaidSector(x.trk, Current(x)),
         NEW count \in Int
  PROVE  \/ Inside(StartRead(x, count)) /\ StartRead(x, count).phase = "DEAD"
         \/ Reads(x, Current(x), StartRead(x, count), count)
<1> DEFINE e   == Current(x)
           ver == (e.ver + 1) % e.weak
           n   == [e EXCEPT !.ver = ver]
           u   == Update(x, n)
           ptr == e.off + ver * e.size
           b   == Track(u, count, ptr)
<1>1. e \in SectorType
  BY CurrentType
<1>2. CASE e.weak = 0
  BY <1>2 DEF StartRead, Dead, Inside, Work
<1>3. CASE e.weak # 0
  <2>1. e.weak \in Nat \ {0} /\ e.ver \in Nat /\ e.size \in Nat /\ e.off \in Int
    BY <1>1, <1>3 DEF SectorType
  <2>2. ver \in Nat /\ ver \in 0 .. e.weak - 1
    BY <2>1, SMT
  <2>3. 0 <= ptr /\ ptr + e.size <= x.trk.size
    BY <2>2 DEF LaidSector
  <2>4. ptr \in Int
    BY <2>1, <2>2, SMT
  <2> HIDE DEF ver, ptr, e
  <2>5. n \in SectorType /\ n.id = e.id /\ n.off = e.off /\ n.size = e.size /\ n.weak = e.weak
    BY <1>1, <2>2 DEF SectorType
  <2> HIDE DEF n
  <2>6. /\ u \in Work /\ LaidTrack(u.trk) /\ u.trk.sectors = x.trk.sectors
        /\ u.trk.size = x.trk.size /\ u.command = x.command /\ u.phase = x.phase
    BY <2>5, UpdateLaid DEF e
  <2>7. StartRead(x, count) = Start(u, Track(x, count, ptr))
    BY <1>3 DEF StartRead, e, ver, n, ptr
  <2> HIDE DEF u
  <2>8. /\ b \in Buffers /\ b = Track(x, count, ptr) /\ b.ptr = ptr /\ b.end = u.trk.size
        /\ b.mem = "track" /\ b.count = count
    BY <2>4, <2>6, WorkFields DEF Track, Buffers, TrackType
  <2> HIDE DEF b
  <2>9. Reads(x, e, Start(u, b), count)
    BY <2>3, <2>6, <2>8, StartFields DEF Reads
  <2> QED BY <2>7, <2>8, <2>9 DEF e
<1> QED BY <1>2, <1>3

\* The bytes of a transfer fit into a sector that is as long as its N says.
LEMMA LengthLaid ==
  ASSUME NEW c \in [1 .. 8 -> Byte256], NEW size \in Nat, Unit * 2^c[5] \in 1 .. size
  PROVE  /\ DataLength(c) \in Int
         /\ c[5] # 0 \/ c[8] # 0 => DataLength(c) \in 1 .. size
<1>1. c[5] \in Nat /\ c[8] \in Nat
  BY SizeAssumption DEF Byte256
<1>2. 2^0 = 1
  OBVIOUS
<1>3. CASE c[5] = 0
  <2>1. Unit * 2^c[5] = Unit
    BY <1>2, <1>3, SizeAssumption
  <2> QED BY <1>1, <1>3, <2>1, LengthType, SizeAssumption DEF DataLength
<1>4. CASE c[5] # 0
  BY <1>4, LengthType DEF DataLength
<1> QED BY <1>3, <1>4

LEMMA EndInside ==
  ASSUME NEW x \in Work, LaidTrack(x.trk)
  PROVE  /\ Inside(Finish(x)) /\ Inside(Done(x))
         /\ \A bit \in ST1Bits : Inside(Fail(x, bit))
<1>1. Finish(x) \in Work /\ Done(x) \in Work /\ \A bit \in ST1Bits : Fail(x, bit) \in Work
  BY FinishType, DoneType, FailType DEF Going
<1> QED BY <1>1, FinishFields, DoneFields, FailFields DEF Inside

\* The commands differ.
LEMMA Differ ==
  /\ WriteCommands \cap (ReadCommands \cup ScanCommands \cup {ReadTrk, WriteID, ReadID}) = {}
  /\ ScanCommands \cap (ReadCommands \cup {ReadTrk, WriteID, ReadID}) = {}
  /\ ReadCommands \cap {ReadTrk, WriteID, ReadID} = {}
  /\ ReadTrk \notin {WriteID, ReadID} /\ ReadID # WriteID
BY DEF ReadTrk, WriteCommands, Write, WriteDel, ReadCommands, Read, ReadDel, WriteID, ReadID,
   ScanCommands, ScanEqual, ScanLow, ScanHigh

LEMMA StartFoundInside ==
  ASSUME NEW f \in Reached, cmd \in ReadCommands \cup ScanCommands, NEW count \in Int,
         cmd \in ScanCommands => count = Unit * 2^f.command[5]
  PROVE  Inside(StartFound(f, count))
<1> DEFINE l == LastIfMarked(f)
           e == Current(f)
           y == StartRead(l, count)
<1>0. f \in Work /\ f \in Asking /\ LaidTrack(f.trk) /\ f.trk.sectors # 0
  BY DEF Reached, Asking
<1>1. Inside(Fail(f, "ND")) /\ Inside(Done(f))
  BY <1>0, EndInside DEF ST1Bits
<1>2. Inside(Dead(f))
  BY <1>0 DEF Dead, Inside, Work
<1>3. ASSUME Found(f) PROVE Inside(y)
  <2>1. At(f) /\ Asks(f.command) /\ f.phase = "EXEC"
    BY <1>3 DEF Reached, Asking
  <2>2. e.id[4] = f.command[5] /\ f.command[4] \in 1 .. FF - 2
    BY <1>0, <2>1, WorkFields, WantedFields, AtNumber DEF At
  <2>3. /\ l \in Work /\ l.trk = f.trk /\ l.sec = f.sec /\ l.phase = f.phase
        /\ \A i \in {4, 5, 8} : l.command[i] = f.command[i]
    <3>1. f.command[4] \in Byte256
      BY <1>0, WorkFields
    <3> DEFINE m == [f EXCEPT !.command[6] = f.command[4]]
    <3>2. /\ m \in Work /\ m.trk = f.trk /\ m.sec = f.sec /\ m.phase = f.phase
          /\ m.command = [f.command EXCEPT ![6] = f.command[4]]
      BY <1>0, <3>1 DEF Work
    <3>3. l \in {m, f}
      BY DEF LastIfMarked
    <3> HIDE DEF m, l
    <3>4. \A i \in {4, 5, 8} : m.command[i] = f.command[i]
      <4>1. f.command \in [1 .. 8 -> Byte256]
        BY <1>0, WorkFields
      <4> QED BY <3>2, <4>1
    <3> QED BY <1>0, <3>2, <3>3, <3>4
  <2> HIDE DEF l
  <2>4. Current(l) = e
    BY <2>3 DEF Current
  <2>5. e.size \in Nat /\ Unit * 2^f.command[5] \in 1 .. e.size
    BY <1>0, <2>1, <2>2, CurrentType DEF At, LaidSector, SectorType
  <2>6. \/ Inside(y) /\ y.phase = "DEAD"
        \/ Reads(l, e, y, count)
    BY <1>0, <2>1, <2>3, <2>4, StartReadLaid DEF At
  <2> HIDE DEF y, e
  <2>7. ASSUME Reads(l, e, y, count) PROVE Inside(y)
    <3>1. y \in Work /\ LaidTrack(y.trk) /\ y.trk.sectors # 0 /\ y.command = l.command
      BY <2>7 DEF Reads
    <3>2. y.buf \in Buffers
      BY <3>1, WorkFields
    <3>3. y.buf.ptr \in Int /\ y.buf.count = count /\ y.buf.end \in Int
      BY <2>7, <3>2 DEF Reads, Buffers
    <3>4. 0 <= y.buf.ptr /\ y.buf.ptr < y.buf.end
      BY <2>5, <2>7, <3>3 DEF Reads
    <3>5. cmd \in ScanCommands => y.buf.count > 0 /\ y.buf.ptr + y.buf.count <= y.buf.end
      BY <2>5, <2>7, <3>3 DEF Reads
    <3>6. Asks(y.command) /\ y.command[4] \in 1 .. FF - 2
      BY <2>1, <2>2, <2>3, <3>1 DEF Asks
    <3>7. cmd \notin WriteCommands
      BY Differ
    <3> QED BY <2>7, <3>1, <3>4, <3>5, <3>6, <3>7 DEF Reads, Inside, InTransfer
  <2> QED BY <2>6, <2>7
<1>4. \/ ~Found(f)
      \/ Skipped(f) /\ AtEot(f)
      \/ Skipped(f) /\ ~AtEot(f)
      \/ Found(f) /\ ~Skipped(f)
  OBVIOUS
<1>5. \/ StartFound(f, count) \in {Dead(f), Done(f), Fail(f, "ND")}
      \/ Found(f) /\ StartFound(f, count) = y
  BY <1>4 DEF StartFound, Skipped
<1> QED BY <1>1, <1>2, <1>3, <1>5

LEMMA SearchCommand ==
  ASSUME NEW x \in Asking, NEW step \in 0 .. 2
  PROVE  Search(x, step).command[5] = x.command[5]
<1>1. x \in Work
  BY DEF Asking
<1> QED BY <1>1 DEF Search, Arrived, Work

LEMMA CmdReadInside ==
  ASSUME NEW x \in Asking, cmd \in ReadCommands PROVE Inside(cmd_read(x))
<1>1. DataLength(x.command) \in Int /\ cmd \notin ScanCommands /\ 1 \in 0 .. 2
  BY LengthType, Differ DEF Asking, Work
<1>2. Search(x, 1) \in Reached
  BY <1>1, SearchReached
<1> QED BY <1>1, <1>2, StartFoundInside DEF cmd_read, SearchAndStart

LEMMA CmdScanInside ==
  ASSUME NEW x \in Asking, cmd \in ScanCommands PROVE Inside(cmd_scan(x))
<1> DEFINE s == SearchAndStart(x, x.command[8], Unit * 2^x.command[5])
           r == [s.res EXCEPT !.st2 = @ \cup {"SH"}]
           t == [s EXCEPT !.flags = @ \ {"SCANFAILED"}, !.res = r, !.differs = FALSE]
<1>0. x \in Work /\ x.command[8] \in 0 .. 2
  <2>1. x \in Work /\ Asks(x.command)
    BY DEF Asking
  <2>2. 8 \in 1 .. 8 /\ x.command[8] <= 2
    BY <2>1 DEF Asks
  <2>3. x.command[8] \in Nat
    BY <2>1, <2>2, WorkFields
  <2> QED BY <2>1, <2>2, <2>3
<1>1. Unit * 2^x.command[5] \in Int
  BY <1>0, LengthType, WorkFields
<1>2. Search(x, x.command[8]) \in Reached
      /\ Search(x, x.command[8]).command[5] = x.command[5]
  BY <1>0, SearchReached, SearchCommand
<1>3. Inside(s)
  BY <1>1, <1>2, StartFoundInside DEF SearchAndStart
<1> HIDE DEF s
<1>4. \/ cmd_scan(x) = s
      \/ s.phase = "EXEC" /\ cmd_scan(x) = t
  BY DEF cmd_scan, StartScan, s
<1>5. Inside(t)
  <2>1. s \in Work /\ s.res \in Registers
    BY <1>3, WorkFields DEF Inside
  <2>2. r \in Registers
    BY <2>1 DEF Registers, ST2Bits
  <2> HIDE DEF r
  <2>3. t \in Work /\ t.phase = s.phase /\ t.trk = s.trk /\ t.buf = s.buf
        /\ t.command = s.command /\ t.sec = s.sec
    BY <2>1, <2>2 DEF Work
  <2> HIDE DEF t
  <2> QED BY <1>3, <2>3 DEF Inside, InTransfer, InSector, Current
<1> QED BY <1>3, <1>4, <1>5

LEMMA CmdWriteInside ==
  ASSUME NEW x \in Asking, cmd \in WriteCommands PROVE Inside(cmd_write(x))
<1> DEFINE f == find_sector(x)
           e == [Current(f) EXCEPT !.st1 = {}, !.st2 = IF cmd = Write THEN {} ELSE {"CM"}]
           n == DataLength(x.command)
           u == Update(f, e)
           b == Track(f, n, e.off)
           s == Start(u, b)
<1>0. x \in Work /\ Asks(x.command) /\ LaidTrack(x.trk) /\ x.trk.sectors # 0 /\ x.phase = "EXEC"
  BY DEF Asking
<1>1. f \in Work /\ f.trk = x.trk /\ f.command = x.command /\ f.phase = x.phase
  BY <1>0, FindType, FindFields
<1>2. Inside(Fail(f, "ND"))
  BY <1>0, <1>1, EndInside DEF ST1Bits
<1>3. \/ cmd_write(x) = Fail(f, "ND")
      \/ Found(x) /\ cmd_write(x) = s
  BY DEF cmd_write
<1>4. ASSUME Found(x) PROVE Inside(s)
  <2>1. At(f)
    BY <1>4, FindAt
  <2> HIDE DEF f
  <2>2. Current(f) \in SectorType
    BY <1>1, CurrentType
  <2>3. /\ e \in SectorType /\ e.id = Current(f).id /\ e.off = Current(f).off
        /\ e.size = Current(f).size /\ e.weak = Current(f).weak
    BY <2>2 DEF SectorType, Stored2
  <2> HIDE DEF e
  <2>4. e.size \in Nat /\ e.off \in Int /\ e.id = Wanted(x.command)
    BY <1>1, <2>1, <2>3 DEF SectorType, At
  <2>5. x.command \in [1 .. 8 -> Byte256]
    BY <1>0, WorkFields
  <2>6. Unit * 2^x.command[5] \in 1 .. e.size /\ x.command[4] \in 1 .. FF - 2
    BY <2>1, <2>3, <2>4, <2>5, WantedFields DEF At, LaidSector
  <2>7. n \in 1 .. e.size
    BY <1>0, <2>4, <2>5, <2>6, LengthLaid DEF Asks
  <2>8. 0 <= e.off /\ e.off + e.size <= f.trk.size
    <3>1. 0 \in {0} \cup (0 .. Current(f).weak - 1)
      OBVIOUS
    <3>2. 0 <= e.off + 0 * e.size /\ e.off + 0 * e.size + e.size <= f.trk.size
      BY <2>1, <2>3, <3>1 DEF At, LaidSector
    <3> QED BY <2>4, <3>2
  <2>9. /\ u \in Work /\ LaidTrack(u.trk) /\ u.trk.sectors = f.trk.sectors
        /\ u.trk.size = f.trk.size /\ u.command = f.command /\ u.phase = f.phase
        /\ u.sec = f.sec /\ Current(u).id = e.id /\ Current(u).off = e.off /\ Current(u).size = e.size
    BY <1>0, <1>1, <2>3, UpdateLaid
  <2> HIDE DEF u, n
  <2>10. b \in Buffers /\ b.count = n /\ b.ptr = e.off /\ b.end = f.trk.size /\ b.mem = "track"
    BY <1>1, <2>4, <2>7, WorkFields DEF Track, Buffers, TrackType
  <2> HIDE DEF b
  <2>11. /\ s \in Work /\ s.buf = b /\ s.trk = u.trk /\ s.sec = u.sec /\ s.command = u.command
         /\ s.phase = u.phase
    BY <2>9, <2>10, StartFields
  <2> HIDE DEF s
  <2>12. Current(s) = Current(u)
    BY <2>11 DEF Current
  <2>13. InSector(s)
    BY <1>1, <2>4, <2>7, <2>9, <2>10, <2>11, <2>12 DEF InSector
  <2>14. f.trk.size \in Nat
    BY <1>1, WorkFields DEF TrackType
  <2>15. 0 <= b.ptr /\ b.ptr < b.end /\ b.count > 0 /\ b.ptr + b.count <= b.end
    BY <2>4, <2>7, <2>8, <2>10, <2>14
  <2>16. InTransfer(s)
    BY <1>0, <1>1, <2>6, <2>9, <2>10, <2>11, <2>13, <2>15 DEF InTransfer
  <2> QED BY <2>9, <2>11, <2>16 DEF Inside
<1> QED BY <1>2, <1>3, <1>4

\* Reading a track starts with a sector of its table.
LEMMA CmdReadtrkInside ==
  ASSUME NEW x \in Work, LaidTrack(x.trk), x.trk.sectors # 0, x.sec < x.trk.sectors, cmd = ReadTrk
  PROVE  Inside(cmd_readtrk(x))
<1> DEFINE e == Current(x)
           other == IF e.id = Wanted(x.command) THEN {} ELSE {"ND"}
           r == [x EXCEPT !.res.st1 = @ \cup other \cup e.st1,
                          !.res.st2 = (@ \ {"CM"}) \cup e.st2]
           n == DataLength(x.command)
           y == StartRead(r, n)
<1>1. e \in SectorType
  BY CurrentType
<1>2. e.st1 \subseteq ST1Bits /\ e.st2 \subseteq ST2Bits /\ other \subseteq ST1Bits
  BY <1>1 DEF SectorType, Stored1, Stored2, ST1Bits, ST2Bits
<1>3. LaidSector(x.trk, e) /\ e.size \in Nat /\ e.size > 0
  <2>1. x.sec \in 0 .. SectorMax - 1 /\ x.trk.tab \in [0 .. SectorMax - 1 -> SectorType]
    BY SizeAssumption, WorkFields DEF TrackType, LaidTrack
  <2>2. e = x.trk.tab[x.sec]
    BY <2>1 DEF Current, Entry
  <2>3. LaidSector(x.trk, e)
    BY <2>1, <2>2 DEF LaidTrack
  <2> QED BY <1>1, <2>3 DEF LaidSector, SectorType
<1> HIDE DEF e, other
<1>4. r \in Work /\ r.trk = x.trk /\ r.sec = x.sec
  BY <1>2 DEF Work, Registers
<1>5. n \in Int
  BY LengthType DEF Work
<1> HIDE DEF r, n
<1>6. Current(r) = e
  BY <1>4 DEF Current, e
<1>7. \/ Inside(y) /\ y.phase = "DEAD"
      \/ Reads(r, e, y, n)
  BY <1>3, <1>4, <1>5, <1>6, StartReadLaid
<1>8. cmd_readtrk(x) = y
  BY DEF cmd_readtrk, r, n, e, other
<1> HIDE DEF y
<1>9. ASSUME Reads(r, e, y, n) PROVE Inside(y)
  <2>1. y.buf \in Buffers
    BY <1>9, WorkFields DEF Reads
  <2>2. 0 <= y.buf.ptr /\ y.buf.ptr < y.buf.end
    BY <1>3, <1>9, <2>1 DEF Reads, Buffers
  <2>3. cmd \notin SearchCommands
    BY Differ DEF SearchCommands
  <2> QED BY <1>9, <2>2, <2>3 DEF Reads, Inside, InTransfer, SearchCommands
<1> QED BY <1>7, <1>8, <1>9

(***************************************************************************)
(* One byte of a transfer.                                                 *)
(***************************************************************************)
Transferring == {x \in Work : LaidTrack(x.trk) /\ x.phase = "EXEC" /\ InTransfer(x)}

\* The buffer after a byte: it is rewound, or counts one byte on.
LEMMA AdvanceBuffer ==
  ASSUME NEW x \in Work, NEW past
  PROVE  /\ Advance(x, past) \in Work
         /\ Advance(x, past).buf.end = x.buf.end
         /\ Advance(x, past).buf.count = IF x.buf.count > 0 THEN x.buf.count - 1 ELSE -1
         /\ Advance(x, past).buf.ptr = IF past THEN 0 ELSE x.buf.ptr + 1
         /\ Advance(x, past).buf.mem = IF ~past THEN x.buf.mem
                                       ELSE IF x.trk.own = "live" THEN "track" ELSE "freed"
<1> DEFINE b == [x.buf EXCEPT !.count = IF @ > 0 THEN @ - 1 ELSE -1, !.ptr = @ + 1]
           r == IF past THEN Rewound(x, b) ELSE b
<1>1. Advance(x, past) \in Work
  BY AdvanceType DEF Going
<1>2. x.buf \in Buffers
  BY WorkFields
<1>3. /\ b.count = IF x.buf.count > 0 THEN x.buf.count - 1 ELSE -1
      /\ b.ptr = x.buf.ptr + 1 /\ b.end = x.buf.end /\ b.mem = x.buf.mem
      /\ DOMAIN b = {"count", "ptr", "end", "mem"}
  BY <1>2 DEF Buffers
<1> HIDE DEF b
<1>4. /\ r.end = b.end /\ r.count = b.count /\ r.ptr = IF past THEN 0 ELSE b.ptr
      /\ r.mem = IF ~past THEN b.mem ELSE IF x.trk.own = "live" THEN "track" ELSE "freed"
  BY <1>3 DEF Rewound
<1> HIDE DEF r
<1>5. Advance(x, past).buf = r
  BY DEF Advance, Work, r, b
<1> QED BY <1>1, <1>3, <1>4, <1>5

\* Counting keeps the command.
LEMMA AdvanceCommand ==
  ASSUME NEW x \in Work, NEW past
  PROVE  Advance(x, past).command = x.command /\ Current(Advance(x, past)) = Current(x)
BY AdvanceType, AdvanceFields DEF Current

\* A byte that the CPU gives never gets to the end of the track's data before
\* the last byte of its sector.
LEMMA WrapWriteInside ==
  ASSUME NEW x \in Transferring, cmd \in WriteCommands \cup ScanCommands
  PROVE  /\ WrapWrite(x) \in Work /\ LaidTrack(WrapWrite(x).trk) /\ WrapWrite(x).trk.sectors # 0
         /\ WrapWrite(x).phase = "EXEC" /\ WrapWrite(x).command = x.command
         /\ WrapWrite(x).buf.count # 0 => WrapWrite(x) \in Transferring
<1> DEFINE past == x.buf.ptr + 1 > x.buf.end
           w == Advance(x, past)
           b == x.buf
<1>0. x \in Work /\ LaidTrack(x.trk) /\ x.phase = "EXEC" /\ InTransfer(x)
  BY DEF Transferring
<1>1. b \in Buffers /\ b.ptr \in Int /\ b.count \in Int /\ b.end \in Int
  BY <1>0, WorkFields DEF Buffers
<1>2. b.count > 0 /\ b.ptr + b.count <= b.end /\ 0 <= b.ptr
  BY <1>0 DEF InTransfer
<1>3. ~past
  BY <1>1, <1>2
<1> HIDE DEF past
<1>4. /\ w.buf.count = b.count - 1 /\ w.buf.ptr = b.ptr + 1 /\ w.buf.end = b.end
      /\ w.buf.mem = b.mem /\ w \in Work
  BY <1>0, <1>1, <1>2, <1>3, AdvanceBuffer
<1>5. /\ w.phase = x.phase /\ w.trk = x.trk /\ w.command = x.command
      /\ Current(w) = Current(x)
  BY <1>0, AdvanceFields, AdvanceCommand
<1> HIDE DEF w
<1>6. ASSUME w.buf.count # 0 PROVE InTransfer(w)
  <2>1. w.buf.count > 0 /\ w.buf.ptr + w.buf.count <= w.buf.end
        /\ 0 <= w.buf.ptr /\ w.buf.ptr < w.buf.end
    BY <1>1, <1>2, <1>4, <1>6
  <2>2. w.buf.ptr + w.buf.count = b.ptr + b.count
    BY <1>1, <1>4
  <2>3. cmd \in WriteCommands => InSector(w)
    <3>1. CASE cmd \in WriteCommands
      <4>1. InSector(x)
        BY <1>0, <3>1 DEF InTransfer
      <4>2. Current(x).off \in Int
        BY <1>0, CurrentType DEF SectorType
      <4> QED BY <1>1, <1>4, <1>5, <2>2, <4>1, <4>2 DEF InSector
    <3> QED BY <3>1
  <2> QED BY <1>0, <1>4, <1>5, <2>1, <2>3 DEF InTransfer
<1>7. w = WrapWrite(x)
  BY DEF w, past, WrapWrite
<1>8. w.trk.sectors # 0
  BY <1>0, <1>5 DEF InTransfer
<1> QED BY <1>0, <1>4, <1>5, <1>6, <1>7, <1>8 DEF Transferring

\* A byte that the CPU takes is the last before the end of the track's data at most.
LEMMA WrapReadInside ==
  ASSUME NEW x \in Transferring, cmd \in ReadCommands \cup {ReadTrk}
  PROVE  WrapRead(x) \in Transferring /\ WrapRead(x).command = x.command
<1> DEFINE past == x.buf.ptr + 1 >= x.buf.end
           w == Advance(x, past)
           b == x.buf
<1>0. x \in Work /\ LaidTrack(x.trk) /\ x.phase = "EXEC" /\ InTransfer(x)
  BY DEF Transferring
<1>1. b \in Buffers /\ b.ptr \in Int /\ b.count \in Int /\ b.end \in Int
  BY <1>0, WorkFields DEF Buffers
<1>2. b.ptr < b.end /\ 0 <= b.ptr /\ b.mem = "track" /\ x.trk.sectors # 0 /\ b.end = x.trk.size
  BY <1>0 DEF InTransfer
<1>3. x.trk.own = "live"
  BY <1>0, <1>2 DEF LaidTrack
<1>4. past \in BOOLEAN /\ (past <=> b.ptr + 1 >= b.end)
  OBVIOUS
<1> HIDE DEF past
<1>5. /\ w.buf.ptr = (IF past THEN 0 ELSE b.ptr + 1) /\ w.buf.end = b.end
      /\ w.buf.mem = "track" /\ w \in Work
  BY <1>0, <1>2, <1>3, <1>4, AdvanceBuffer
<1>6. /\ w.phase = x.phase /\ w.trk = x.trk /\ w.command = x.command
  BY <1>0, AdvanceFields, AdvanceCommand
<1> HIDE DEF w
<1>7. 0 <= w.buf.ptr /\ w.buf.ptr < w.buf.end
  BY <1>1, <1>2, <1>4, <1>5
<1>8. cmd \notin WriteCommands \cup ScanCommands
  BY Differ
<1>9. InTransfer(w)
  BY <1>0, <1>2, <1>5, <1>6, <1>7, <1>8 DEF InTransfer
<1>10. w = WrapRead(x)
  BY DEF w, past, WrapRead
<1> QED BY <1>0, <1>5, <1>6, <1>9, <1>10 DEF Transferring

\* The next sector of a command that has come to the end of one.
LEMMA NextSector ==
  ASSUME NEW x \in Work, LaidTrack(x.trk), x.trk.sectors # 0, x.phase = "EXEC", Asks(x.command),
         x.command[4] \in 1 .. FF - 2
  PROVE  /\ NextR(x, 1) \in Asking
         /\ cmd \in ScanCommands => NextR(x, x.command[8]) \in Asking
<1>1. 1 \in 0 .. 2
  OBVIOUS
<1>2. cmd \in ScanCommands => x.command[8] \in 0 .. 2
  <2>1. 8 \in 1 .. 8
    OBVIOUS
  <2>2. x.command[8] \in Nat
    BY <2>1, WorkFields
  <2> QED BY <2>2 DEF Asks
<1> QED BY <1>1, <1>2, NextAsks

LEMMA WriteByteInside ==
  ASSUME NEW x \in Transferring, cmd \in WriteCommands PROVE Inside(write_byte(x))
<1> DEFINE w == WrapWrite(x)
           y == [w EXCEPT !.dirty = @ \/ x.buf.mem = "track"]
           z == [y EXCEPT !.altered = TRUE, !.res.st0 = @ \cup {"AT"}, !.res.st1 = @ \cup {"EN"}]
<1>0. Asks(x.command) /\ x.command[4] \in 1 .. FF - 2
  BY DEF Transferring, InTransfer, SearchCommands
<1>1. /\ w \in Work /\ LaidTrack(w.trk) /\ w.trk.sectors # 0 /\ w.phase = "EXEC"
      /\ w.command = x.command /\ (w.buf.count # 0 => w \in Transferring)
  BY WrapWriteInside
<1> HIDE DEF w
<1>2. /\ y \in Work /\ y.trk = w.trk /\ y.phase = w.phase /\ y.command = w.command
      /\ y.buf = w.buf /\ y.sec = w.sec
  BY <1>1 DEF Work
<1>3. \/ y.buf.count # 0 /\ write_byte(x) = y
      \/ write_byte(x) = cmd_write(NextR(y, 1))
      \/ write_byte(x) = Finish(z)
  BY DEF write_byte, w, y, z
<1> HIDE DEF y
<1>4. z \in Work /\ z.trk = y.trk
  <2>1. z \in Work
    BY <1>2 DEF Work, Registers, ST0Bits, ST1Bits
  <2>2. z.trk = y.trk
    BY <1>2 DEF Work
  <2> QED BY <2>1, <2>2
<1> HIDE DEF z
<1>5. y.buf.count # 0 => Inside(y)
  BY <1>1, <1>2 DEF Transferring, Inside, InTransfer, InSector, Current
<1>6. NextR(y, 1) \in Asking
  BY <1>0, <1>1, <1>2, NextSector
<1>7. Inside(Finish(z))
  BY <1>1, <1>2, <1>4, EndInside
<1> QED BY <1>3, <1>5, <1>6, <1>7, CmdWriteInside

LEMMA ScanByteInside ==
  ASSUME NEW x \in Transferring, cmd \in ScanCommands, NEW cmp PROVE Inside(scan_byte(x, cmp))
<1> DEFINE code    == cmd % 32
           unequal == cmp \in {"below", "above"}
           failed  == \/ code = ScanEqual /\ unequal
                      \/ code = ScanLow   /\ cmp = "above"
                      \/ code = ScanHigh  /\ cmp = "below"
           w == WrapWrite(x)
           y == [w EXCEPT
                   !.res.st2 = IF code \in ScanCommands /\ unequal THEN @ \ {"SH"} ELSE @,
                   !.flags   = IF failed THEN @ \cup {"SCANFAILED"} ELSE @,
                   !.differs = @ \/ unequal]
           z == [y EXCEPT !.res.st2 = @ \cup {"SN"}]
<1>0. Asks(x.command) /\ x.command[4] \in 1 .. FF - 2
  BY DEF Transferring, InTransfer, SearchCommands
<1>1. /\ w \in Work /\ LaidTrack(w.trk) /\ w.trk.sectors # 0 /\ w.phase = "EXEC"
      /\ w.command = x.command /\ (w.buf.count # 0 => w \in Transferring)
  BY WrapWriteInside
<1>2. \/ y.buf.count # 0 /\ scan_byte(x, cmp) = y
      \/ scan_byte(x, cmp) \in {Finish(y), Finish(z)}
      \/ scan_byte(x, cmp) = cmd_scan(NextR(y, y.command[8]))
  BY DEF scan_byte, z, y, w, code, unequal, failed
<1> HIDE DEF w, code, unequal, failed
<1>3. /\ y \in Work /\ y.trk = w.trk /\ y.phase = w.phase /\ y.command = w.command
      /\ y.buf = w.buf /\ y.sec = w.sec
  <2> DEFINE r == [w.res EXCEPT !.st2 = IF code \in ScanCommands /\ unequal THEN @ \ {"SH"} ELSE @]
             fl == IF failed THEN w.flags \cup {"SCANFAILED"} ELSE w.flags
             d == w.differs \/ unequal
  <2>1. w.res \in Registers /\ w.flags \subseteq Flags
    BY <1>1, WorkFields
  <2>2. r \in Registers
    BY <2>1 DEF Registers
  <2>3. fl \subseteq Flags
    BY <2>1 DEF Flags
  <2>4. d \in BOOLEAN
    OBVIOUS
  <2>5. y = [w EXCEPT !.res = r, !.flags = fl, !.differs = d]
    OBVIOUS
  <2> HIDE DEF r, fl, d, y
  <2>6. LET v == [w EXCEPT !.res = r, !.flags = fl, !.differs = d]
        IN  v \in Work /\ v.phase = w.phase /\ v.trk = w.trk /\ v.command = w.command
            /\ v.buf = w.buf /\ v.sec = w.sec
    BY <1>1, <2>2, <2>3, <2>4 DEF Work
  <2> QED BY <2>5, <2>6
<1> HIDE DEF y
<1>4. z \in Work /\ z.trk = y.trk
  <2>1. z \in Work
    BY <1>3 DEF Work, Registers, ST2Bits
  <2>2. z.trk = y.trk
    BY <1>3 DEF Work
  <2> QED BY <2>1, <2>2
<1> HIDE DEF z
<1>5. y.buf.count # 0 => Inside(y)
  BY <1>1, <1>3 DEF Transferring, Inside, InTransfer, InSector, Current
<1>6. NextR(y, y.command[8]) \in Asking
  BY <1>0, <1>1, <1>3, NextSector
<1>7. Inside(Finish(y)) /\ Inside(Finish(z))
  BY <1>1, <1>3, <1>4, EndInside
<1> QED BY <1>2, <1>5, <1>6, <1>7, CmdScanInside

LEMMA ReadByteInside ==
  ASSUME NEW x \in Transferring, cmd \in ReadCommands \cup {ReadTrk} PROVE Inside(read_byte(x))
<1> DEFINE w == WrapRead(x)
           n == [w EXCEPT !.sec = @ + 1]
           o == [n EXCEPT !.flags = @ \ {"OVERRUN"}, !.res.st0 = @ \cup {"AT"},
                          !.res.st1 = @ \cup {"OR"}]
           m == [n EXCEPT !.command[6] = PrevByte(@)]
           k == [m EXCEPT !.sec = IF @ >= m.trk.sectors THEN 0 ELSE @]
<1>1. w \in Transferring /\ w \in Work /\ w.command = x.command
  BY WrapReadInside DEF Transferring
<1>2. \/ read_byte(x) \in {w, Finish(o)}
      \/ cmd = ReadTrk /\ read_byte(x) \in {Done(m), cmd_readtrk(NextR(k, 1))}
      \/ cmd \in ReadCommands /\ read_byte(x) \in {Done(n), cmd_read(NextR(n, 1))}
  BY DEF read_byte, SectorRead, TrackSectorRead
<1> HIDE DEF w
<1>3. n \in Work /\ n.trk = w.trk /\ n.phase = w.phase /\ n.command = w.command
  <2>1. w.sec + 1 \in Nat
    BY <1>1, WorkFields
  <2>2. n \in Work
    BY <1>1, <2>1, SetFields
  <2> QED BY <1>1, <2>1, <2>2 DEF Work
<1> HIDE DEF n
<1>4. o \in Work /\ o.trk = n.trk
  <2> DEFINE r == [n.res EXCEPT !.st0 = @ \cup {"AT"}, !.st1 = @ \cup {"OR"}]
             p == [n EXCEPT !.flags = @ \ {"OVERRUN"}, !.res = r]
  <2>1. r \in Registers
    BY <1>3, WorkFields DEF Registers, ST0Bits, ST1Bits
  <2>2. p = o
    BY <1>3, WorkFields DEF Work, Registers
  <2> HIDE DEF r
  <2>3. p \in Work /\ p.trk = n.trk
    BY <1>3, <2>1 DEF Work
  <2> QED BY <2>2, <2>3
<1>5. m \in Work /\ m.trk = n.trk
  <2>1. n.command[6] \in Nat
    BY <1>3, WorkFields
  <2>2. PrevByte(n.command[6]) \in Byte256
    BY <2>1, SizeAssumption DEF PrevByte, Byte256
  <2> QED BY <1>3, <2>2 DEF Work
<1> HIDE DEF m, o
<1>6. LaidTrack(w.trk) /\ w.trk.sectors # 0 /\ w.phase = "EXEC" /\ InTransfer(w) /\ Inside(w)
  BY <1>1 DEF Transferring, InTransfer, Inside
<1>7. Inside(Finish(o)) /\ Inside(Done(m)) /\ Inside(Done(n))
  BY <1>3, <1>4, <1>5, <1>6, EndInside
<1>8. ASSUME cmd \in ReadCommands PROVE Inside(cmd_read(NextR(n, 1)))
  <2>1. Asks(n.command) /\ n.command[4] \in 1 .. FF - 2
    BY <1>3, <1>6, <1>8 DEF InTransfer, SearchCommands
  <2>2. NextR(n, 1) \in Asking
    BY <1>3, <1>6, <2>1, NextSector
  <2> QED BY <1>8, <2>2, CmdReadInside
<1>9. ASSUME cmd = ReadTrk PROVE Inside(cmd_readtrk(NextR(k, 1)))
  <2>1. m.trk.sectors \in Nat /\ m.trk.sectors # 0 /\ m.sec \in Nat /\ LaidTrack(m.trk)
    BY <1>3, <1>5, <1>6, WorkFields DEF TrackType
  <2> DEFINE j == IF m.sec >= m.trk.sectors THEN 0 ELSE m.sec
  <2>2. j \in Nat /\ j < m.trk.sectors
    BY <2>1
  <2>3. k = [m EXCEPT !.sec = j]
    OBVIOUS
  <2> HIDE DEF j, k
  <2>6. LET s == [m EXCEPT !.sec = j]
        IN  s \in Work /\ s.trk = m.trk /\ s.sec = j
    BY <1>5, <2>2 DEF Work
  <2>4. k \in Work /\ k.trk = m.trk /\ k.sec < m.trk.sectors
    BY <2>2, <2>3, <2>6
  <2>5. NextR(k, 1) \in Work /\ NextR(k, 1).trk = k.trk /\ NextR(k, 1).sec = k.sec
    BY <2>4, NextRType, NextRFields
  <2> QED BY <1>9, <2>1, <2>4, <2>5, CmdReadtrkInside
<1> QED BY <1>2, <1>6, <1>7, <1>8, <1>9

\* A command that begins on a track of the disk.
LEMMA HandleInside ==
  ASSUME NEW x \in Work, LaidTrack(x.trk), x.phase = "EXEC",
         cmd \in (Transfers \cup {ReadID}) \ {WriteID},
         cmd \in SearchCommands => /\ x.command[4] # 0
                                   /\ x.command[5] # 0 \/ x.command[8] # 0
  PROVE  Inside(Handle(x))
<1> DEFINE s == [x EXCEPT !.command[8] = IF @ > 2 THEN 2 ELSE @, !.flags = @ \cup {"SCAN"}]
           t == [x EXCEPT !.command[4] = 1, !.sec = 0]
           idx == IF x.sec < x.trk.sectors THEN x.sec ELSE 0
           i == [x EXCEPT !.phase = "RESULT", !.res.id = Entry(x.trk, idx).id, !.sec = idx + 1]
           v == [x EXCEPT !.gp = <<>>]
           w == [count |-> x.command[3], ptr |-> 0, end |-> x.command[3], mem |-> "gp"]
           begins == x.trk.sectors # 0
<1>0. begins \in BOOLEAN /\ cmd # WriteID /\ x.trk.sectors \in Nat
  BY WorkFields DEF TrackType
<1>1. Handle(x) = CASE cmd = ReadTrk         -> IF begins THEN cmd_readtrk(t) ELSE Fail(x, "MA")
                    [] cmd \in WriteCommands -> IF begins THEN cmd_write(x) ELSE Fail(x, "MA")
                    [] cmd \in ReadCommands  -> IF begins THEN cmd_read(x) ELSE Fail(x, "MA")
                    [] cmd = ReadID          -> IF begins THEN i ELSE Fail(x, "MA")
                    [] cmd = WriteID         -> Start(v, w)
                    [] cmd \in ScanCommands  -> IF begins THEN cmd_scan(s) ELSE Fail(x, "MA")
  BY DEF Handle, Formatted, fdc_readtrk, fdc_write, fdc_read, fdc_readID, fdc_writeID,
         fdc_scan
<1>2. Inside(Fail(x, "MA")) /\ Handle(x) \in Work
  BY EndInside, HandleType DEF ST1Bits, Going
<1> HIDE DEF s, t, i, v, w, begins
<1>3. CASE begins /\ cmd \in WriteCommands
  <2>1. x \in Asking
    BY <1>3, Differ DEF Asking, Asks, SearchCommands, begins
  <2>2. Handle(x) = cmd_write(x)
    BY <1>1, <1>3, Differ
  <2> QED BY <1>3, <2>1, <2>2, CmdWriteInside
<1>4. CASE begins /\ cmd \in ReadCommands
  <2>1. x \in Asking
    BY <1>4, Differ DEF Asking, Asks, SearchCommands, begins
  <2>2. Handle(x) = cmd_read(x)
    BY <1>1, <1>4, Differ
  <2> QED BY <1>4, <2>1, <2>2, CmdReadInside
<1>5. CASE begins /\ cmd \in ScanCommands
  <2> DEFINE a == IF x.command[8] > 2 THEN 2 ELSE x.command[8]
             c == [x.command EXCEPT ![8] = a]
  <2>1. x.command[8] \in Byte256 \cap Nat
    BY WorkFields
  <2>2. a \in Byte256 /\ a <= 2
    BY <2>1, SizeAssumption DEF Byte256
  <2>3. s = [x EXCEPT !.command = c, !.flags = @ \cup {"SCAN"}]
    BY DEF s
  <2>4. c \in [1 .. 8 -> Byte256] /\ c[4] = x.command[4] /\ c[8] = a
    <3>1. x.command \in [1 .. 8 -> Byte256]
      BY WorkFields
    <3>2. {4, 8} \subseteq 1 .. 8
      OBVIOUS
    <3> HIDE DEF a
    <3> QED BY <2>2, <3>1, <3>2
  <2> HIDE DEF a, c
  <2>5. s \in Work /\ s.trk = x.trk /\ s.phase = x.phase /\ s.command = c
    BY <2>3, <2>4 DEF Work, Flags
  <2>6. s \in Asking
    BY <1>5, <2>2, <2>4, <2>5, Differ DEF Asking, Asks, SearchCommands, begins
  <2>7. Handle(x) = cmd_scan(s)
    BY <1>1, <1>5, Differ
  <2> QED BY <1>5, <2>6, <2>7, CmdScanInside
<1>6. CASE begins /\ cmd = ReadTrk
  <2>1. 1 \in Byte256 /\ 0 \in Nat
    BY SizeAssumption DEF Byte256
  <2>2. t \in Work /\ t.trk = x.trk /\ t.sec = 0
    BY <2>1 DEF Work, t
  <2>3. Handle(x) = cmd_readtrk(t)
    BY <1>1, <1>6, Differ
  <2> QED BY <1>0, <1>6, <2>2, <2>3, CmdReadtrkInside DEF begins
<1>7. CASE begins /\ cmd = ReadID
  <2>1. Handle(x) = i
    BY <1>1, <1>7, Differ
  <2>2. i.phase = "RESULT" /\ i.trk = x.trk
    BY DEF Work, i
  <2> QED BY <1>2, <2>1, <2>2 DEF Inside
<1>8. CASE ~begins
  <2>1. Handle(x) = Fail(x, "MA")
    BY <1>0, <1>1, <1>8, Differ DEF Transfers, CpuToFdc
  <2> QED BY <1>2, <2>1
<1>9. cmd \in {ReadTrk, ReadID} \cup WriteCommands \cup ReadCommands \cup ScanCommands
  BY DEF Transfers, CpuToFdc
<1> QED BY <1>0, <1>3, <1>4, <1>5, <1>6, <1>7, <1>8, <1>9

LEMMA ByteInside ==
  ASSUME NEW x \in Transferring, cmd \in Transfers \ {WriteID},
         NEW cmps, NEW ids, NEW y \in Byte(x, cmps, ids)
  PROVE  Inside(y)
<1>1. CASE cmd \in ReadCommands \cup {ReadTrk}
  BY <1>1, Differ, ReadByteInside DEF Byte
<1>2. CASE cmd \in WriteCommands
  BY <1>2, Differ, WriteByteInside DEF Byte
<1>3. CASE cmd \in ScanCommands
  <2>1. PICK cmp \in cmps : y = scan_byte(x, cmp)
    BY <1>3, Differ DEF Byte
  <2> QED BY <1>3, <2>1, ScanByteInside
<1> QED BY <1>1, <1>2, <1>3 DEF Transfers, CpuToFdc

(***************************************************************************)
(* What holds between two steps: the disk is laid out well, the command is *)
(* one the program sends, and a command at work is inside its track.       *)
(***************************************************************************)
InsideInv ==
  /\ LaidDisk(disk) /\ cmd # WriteID
  /\ phase = "CMD" => /\ byte_count > 4 => command[4] \in Args[4]
                      /\ byte_count > 5 => command[5] \in Args[5]
  /\ phase = "EXEC" => InTransfer(Transfer)

LEMMA StoreInside ==
  ASSUME NEW x, Inside(x), Store(x), cmd' = cmd, cmd # WriteID, byte_count' = 0,
         disk \in DiskType, LaidDisk(disk)
  PROVE  InsideInv'
<1>0. x \in Work /\ LaidTrack(x.trk)
  BY DEF Inside
<1>1. /\ x.at[1] \in Cylinder /\ x.at[2] \in {0, 1}
      /\ disk' = [disk EXCEPT !.track[x.at[1]][x.at[2]] = x.trk, !.altered = x.altered]
  BY <1>0 DEF Work, Store
<1>2. ASSUME NEW c \in Cylinder, NEW s \in {0, 1}
      PROVE  disk'.track[c][s] \in {x.trk, disk.track[c][s]}
  BY <1>1 DEF DiskType
<1>3. \A c \in Cylinder, s \in {0, 1} : LaidTrack(disk'.track[c][s])
  BY <1>0, <1>2 DEF LaidDisk
<1>4. LaidDisk(disk)'
  BY <1>3 DEF LaidDisk, LaidTrack, LaidSector
<1>5. disk'.track[x.at[1]][x.at[2]] = x.trk
  BY <1>1 DEF DiskType
<1>6. phase' = x.phase
  BY DEF Store
<1>7. ASSUME x.phase = "EXEC" PROVE InTransfer(Transfer)'
  <2>1. Transfer'.trk = x.trk /\ Transfer'.buf = x.buf /\ Transfer'.sec = x.sec
        /\ Transfer'.command = x.command
    BY <1>5 DEF Store, Transfer
  <2>2. InTransfer(x)
    BY <1>7 DEF Inside
  <2> QED BY <2>1, <2>2 DEF InTransfer, InSector, Current, Entry, Wanted, Asks
<1> QED BY <1>4, <1>6, <1>7 DEF InsideInv

LEMMA InsideByteKeeps ==
  ASSUME DataInv, InsideInv, ProtocolInv, phase = "EXEC", TransferByte \/ Tick
  PROVE  InsideInv'
<1>0. /\ cmd' = cmd /\ cmd \in Transfers \ {WriteID} /\ byte_count' = 0
      /\ disk \in DiskType /\ LaidDisk(disk)
  BY DEF TransferByte, Tick, DataInv, Typed, InsideInv, ProtocolInv
<1>1. Transfer \in Transferring
  <2>1. Transfer \in Work
    BY TransferType DEF DataInv
  <2>2. atrk[1] \in Cylinder /\ atrk[2] \in {0, 1}
    BY DEF DataInv, Typed
  <2>3. LaidTrack(disk.track[atrk[1]][atrk[2]])
    BY <1>0, <2>2 DEF LaidDisk
  <2>4. Transfer.trk = disk.track[atrk[1]][atrk[2]] /\ Transfer.phase = "EXEC"
    BY DEF Transfer
  <2> QED BY <2>1, <2>3, <2>4 DEF Transferring, InsideInv
<1> DEFINE t    == timeout - 1
           x    == [Transfer EXCEPT !.timeout = t]
           late == [x EXCEPT !.flags = @ \cup {"OVERRUN"}]
<1>2. x \in Transferring /\ late \in Transferring
  <2>1. t \in 0 .. InitialTimeout
    BY TimeoutAssumption DEF DataInv, Typed, InitialTimeout
  <2> HIDE DEF t
  <2>2. /\ x \in Work /\ x.phase = Transfer.phase /\ x.trk = Transfer.trk
        /\ x.buf = Transfer.buf /\ x.sec = Transfer.sec /\ x.command = Transfer.command
    BY <1>1, <2>1 DEF Transferring, Work
  <2> HIDE DEF x
  <2>3. /\ late \in Work /\ late.phase = x.phase /\ late.trk = x.trk
        /\ late.buf = x.buf /\ late.sec = x.sec /\ late.command = x.command
    BY <2>2 DEF Work, Flags
  <2> HIDE DEF late
  <2> QED BY <1>1, <2>2, <2>3 DEF Transferring, InTransfer, InSector, Current
<1>3. \/ \E y \in Byte(Transfer, Comparisons \cup {"ignored"}, FormatIds) : Store(y)
      \/ Store(x)
      \/ \E y \in TimerByte(late) : Store(y)
  BY DEF TransferByte, Tick, Transfer
<1> HIDE DEF x, late
<1>4. CASE Store(x)
  <2>1. Inside(x)
    BY <1>2 DEF Inside, Transferring
  <2> QED BY <1>0, <1>4, <2>1, StoreInside
<1>5. ASSUME NEW w \in Transferring, NEW cmps, NEW ids, NEW y \in Byte(w, cmps, ids), Store(y)
      PROVE  InsideInv'
  <2>1. Inside(y)
    BY <1>0, ByteInside
  <2> QED BY <1>0, <1>5, <2>1, StoreInside
<1> QED BY <1>1, <1>2, <1>3, <1>4, <1>5 DEF TimerByte

LEMMA InsideExecuteKeeps ==
  ASSUME DataInv, InsideInv, phase = "CMD", NEW c \in [1 .. 8 -> Byte256], Execute(c), cmd' = cmd,
         byte_count' = 0,
         cmd \in SearchCommands => c[4] # 0 /\ (c[5] # 0 \/ c[8] # 0)
  PROVE  InsideInv'
<1> DEFINE x == Access(c)
           y == IF Ready(UnitOf(c)) THEN Handle(x)
                ELSE IF cmd = ReadID THEN [x EXCEPT !.phase = "RESULT"] ELSE Finish(x)
<1>0. Typed /\ disk \in DiskType /\ LaidDisk(disk) /\ cmd # WriteID
  BY DEF DataInv, Typed, InsideInv
<1>1. Store(y) /\ cmd \in (Transfers \cup {ReadID}) \ {WriteID}
  BY <1>0 DEF Execute
<1>2. x \in Work /\ LaidTrack(x.trk) /\ x.phase = "EXEC" /\ x.command = c
  <2>1. x \in Work
    BY AccessType DEF DataInv
  <2>2. x.phase = "EXEC" /\ x.command = c
    BY DEF Access, Transfer
  <2>3. x.trk \in {disk.track[Reach(c)[1]][Reach(c)[2]], disk.track[atrk[1]][atrk[2]]}
    BY DEF Access, Transfer
  <2>4. Reach(c)[1] \in Cylinder /\ Reach(c)[2] \in {0, 1}
    BY <1>0 DEF Reach, Typed, DriveA, Drive
  <2>5. atrk[1] \in Cylinder /\ atrk[2] \in {0, 1}
    BY <1>0 DEF Typed
  <2>6. LaidTrack(x.trk)
    BY <1>0, <2>3, <2>4, <2>5 DEF LaidDisk
  <2> QED BY <2>1, <2>2, <2>6
<1> HIDE DEF x
<1>3. Inside(Handle(x))
  BY <1>1, <1>2, HandleInside
<1>4. Inside(Finish(x))
  BY <1>2, EndInside
<1>5. Inside([x EXCEPT !.phase = "RESULT"])
  <2> DEFINE r == [x EXCEPT !.phase = "RESULT"]
  <2>1. r \in Work /\ r.trk = x.trk /\ r.phase = "RESULT"
    BY <1>2 DEF Work
  <2> HIDE DEF r
  <2>2. Inside(r)
    BY <1>2, <2>1 DEF Inside
  <2> QED BY <2>2 DEF r
<1>6. Inside(y)
  BY <1>3, <1>4, <1>5
<1> HIDE DEF y
<1> QED BY <1>0, <1>1, <1>6, StoreInside

LEMMA NoDiskLaid == LaidDisk(NoDisk)
<1>1. LaidTrack(BlankTrack)
  BY SizeAssumption DEF LaidTrack, BlankTrack, BlankSector
<1> QED BY <1>1 DEF LaidDisk, NoDisk

LEMMA SearchLength == ASSUME cmd \in SearchCommands PROVE CmdLength(cmd) = 9
BY DEF CmdLength, IntStat, DrvStat, Recalib, ReadID, Specify, Seek, WriteID, NoCommand,
   SearchCommands, ReadCommands, WriteCommands, ScanCommands, Read, ReadDel, Write, WriteDel,
   ScanEqual, ScanLow, ScanHigh

LEMMA LaidNext == ASSUME NEW d, LaidDisk(d), disk' = d PROVE LaidDisk(disk)'
<1>1. \A c \in Cylinder, s \in {0, 1} : LaidTrack(disk'.track[c][s])
  BY DEF LaidDisk
<1> QED BY <1>1 DEF LaidDisk, LaidTrack, LaidSector

LEMMA InsideParameterKeeps ==
  ASSUME Modest, DataInv, InsideInv, ProtocolInv, byte_count \in 1 .. 8,
         NEW val \in Args[byte_count], ReceiveParameter(val)
  PROVE  InsideInv'
<1> DEFINE c == [command EXCEPT ![byte_count] = val]
<1>0. /\ phase = "CMD" /\ cmd' = cmd /\ byte_count \in Nat /\ LaidDisk(disk) /\ cmd # WriteID
      /\ command \in [1 .. 8 -> Byte256]
  BY DEF ReceiveParameter, InsideInv, DataInv, Typed
<1>1. c \in [1 .. 8 -> Byte256]
  <2>1. val \in Byte256
    BY GuestAssumption DEF Byte256
  <2> QED BY <1>0, <2>1
<1>2. \A i \in 1 .. 8 : c[i] = IF i = byte_count THEN val ELSE command[i]
  BY <1>0
<1> HIDE DEF c
<1>3. \/ ~LastParameter /\ byte_count' = byte_count + 1 /\ command' = c /\ phase' = phase
         /\ disk' = disk
      \/ LastParameter /\ byte_count' = 0 /\ Execute(c)
      \/ byte_count' = 0 /\ disk' = disk /\ phase' \in {"CMD", "RESULT"}
  BY DEF ReceiveParameter, fdc_specify, fdc_drvstat, fdc_seek, drives, c
<1>4. CASE ~LastParameter /\ byte_count' = byte_count + 1 /\ command' = c /\ phase' = phase
           /\ disk' = disk
  <2>1. byte_count' > 4 => command'[4] \in Args[4]
    <3>1. 4 \in 1 .. 8 /\ (byte_count + 1 > 4 => byte_count = 4 \/ byte_count > 4)
      BY <1>0
    <3> QED BY <1>0, <1>2, <1>4, <3>1 DEF InsideInv
  <2>2. byte_count' > 5 => command'[5] \in Args[5]
    <3>1. 5 \in 1 .. 8 /\ (byte_count + 1 > 5 => byte_count = 5 \/ byte_count > 5)
      BY <1>0
    <3> QED BY <1>0, <1>2, <1>4, <3>1 DEF InsideInv
  <2>3. phase' = "CMD" /\ LaidDisk(disk') /\ cmd' # WriteID
    BY <1>0, <1>4
  <2> QED BY <2>1, <2>2, <2>3, LaidNext DEF InsideInv
<1>5. CASE LastParameter /\ byte_count' = 0 /\ Execute(c)
  <2>1. ASSUME cmd \in SearchCommands PROVE c[4] # 0 /\ (c[5] # 0 \/ c[8] # 0)
    <3>1. byte_count = 8
      BY <1>0, <1>5, <2>1, SearchLength DEF LastParameter
    <3>2. command[4] \in Args[4] /\ command[5] \in Args[5]
      BY <1>0, <3>1 DEF InsideInv
    <3>3. c[4] = command[4] /\ c[5] = command[5] /\ c[8] = val
      <4>1. {4, 5, 8} \subseteq 1 .. 8
        OBVIOUS
      <4> QED BY <1>2, <3>1, <4>1
    <3> QED BY <3>1, <3>2, <3>3 DEF Modest
  <2> QED BY <1>0, <1>1, <1>5, <2>1, InsideExecuteKeeps
<1>6. CASE byte_count' = 0 /\ disk' = disk /\ phase' \in {"CMD", "RESULT"}
  BY <1>0, <1>6, LaidNext DEF InsideInv
<1> QED BY <1>3, <1>4, <1>5, <1>6

LEMMA InsideKeeps ==
  ASSUME LaidImages, Modest, DataInv, ProtocolInv, InsideInv, [Guest \/ PatientHost]_vars
  PROVE  InsideInv'
<1>1. CASE \E val \in Opcodes : ReceiveCommand(val)
  <2>1. PICK val \in Opcodes : ReceiveCommand(val)
    BY <1>1
  <2>2. disk' = disk /\ phase = "CMD" /\ byte_count = 0
    BY <2>1 DEF ReceiveCommand, drives
  <2>3. byte_count' \in {0, 1} /\ phase' \in {"CMD", "RESULT"}
    BY <2>1, <2>2 DEF ReceiveCommand, fdc_intstat
  <2>4. cmd' # WriteID
    <3> DEFINE code == IF Bit(val, 32) THEN val - 32 ELSE val
    <3>1. cmd' \in {cmd, code}
      BY <2>1 DEF ReceiveCommand
    <3>2. code # WriteID
      <4>1. val \in Nat /\ val # WriteID /\ val # WriteID + 32
        BY GuestAssumption DEF Modest
      <4> QED BY <4>1 DEF WriteID
    <3> HIDE DEF code
    <3> QED BY <3>1, <3>2 DEF InsideInv
  <2> QED BY <2>2, <2>3, <2>4, LaidNext DEF InsideInv
<1>2. CASE byte_count \in 1 .. 8 /\ \E val \in Args[byte_count] : ReceiveParameter(val)
  BY <1>2, InsideParameterKeeps
<1>3. CASE TransferByte \/ Tick
  BY <1>3, InsideByteKeeps DEF TransferByte, Tick
<1>4. CASE ReadResult
  <2>1. phase = "RESULT" /\ cmd' = cmd /\ disk' = disk
        /\ ((phase' = "CMD" /\ byte_count' = 0) \/ phase' = phase)
    BY <1>4 DEF ReadResult, drives
  <2> QED BY <2>1, LaidNext DEF InsideInv
<1>5. CASE emulator_reset
  <2>1. phase' = "CMD" /\ byte_count' = 0 /\ cmd' = NoCommand /\ disk' = disk
    BY <1>5 DEF emulator_reset, drives
  <2>2. NoCommand # WriteID
    BY DEF NoCommand, WriteID
  <2> QED BY <2>1, <2>2, LaidNext DEF InsideInv
<1>6. CASE fdc_read_status \/ SwitchMotor \/ UNCHANGED vars
  <2>1. UNCHANGED <<phase, byte_count, cmd, command, disk, buf, sec, atrk>>
    BY <1>6 DEF fdc_read_status, SwitchMotor, control, vars, drives
  <2>2. ASSUME InTransfer(Transfer) PROVE InTransfer(Transfer)'
    <3>1. Transfer'.trk = Transfer.trk /\ Transfer'.buf = Transfer.buf
          /\ Transfer'.sec = Transfer.sec /\ Transfer'.command = Transfer.command
      BY <2>1 DEF Transfer
    <3> QED BY <2>1, <2>2, <3>1 DEF InTransfer, InSector, Current, Entry, Wanted, Asks
  <2> QED BY <2>1, <2>2, LaidNext DEF InsideInv
<1>7. CASE phase # "EXEC" /\ \E d \in Images \cup {NoDisk} : ChangeDisk(d)
  <2>1. PICK d \in Images \cup {NoDisk} : ChangeDisk(d)
    BY <1>7
  <2>2. disk' = d /\ UNCHANGED <<phase, byte_count, cmd, command>>
    BY <2>1 DEF ChangeDisk, control
  <2>3. LaidDisk(d)
    BY NoDiskLaid DEF LaidImages
  <2> QED BY <1>7, <2>2, <2>3, LaidNext DEF InsideInv
<1> QED BY <1>1, <1>2, <1>3, <1>4, <1>5, <1>6, <1>7 DEF Guest, CPU, PatientHost

\* A disk that is in the drive from the start changes none of the other variables.
LEMMA LoadedInv == Loaded => IInv
BY DEF Loaded, InitWith, IInv, ControlInv, OverrunInv, ProtocolInv, OverrunReported,
   Completed, NoResult, NoCommand

LEMMA LoadedData == Loaded => DataInv
<1> SUFFICES ASSUME NEW d \in Images, InitWith(d) PROVE DataInv
  BY DEF Loaded
<1>1. 0 \in Byte256 /\ 0 \in Cylinder /\ 0 \in 0 .. InitialTimeout
  BY SizeAssumption, TimeoutAssumption DEF Byte256, Cylinder, InitialTimeout
<1>2. res \in Registers /\ disk \in DiskType
  BY NoResultType, DiskAssumption DEF InitWith
<1>3. gp \in Seq(IDs)
  BY DEF InitWith
<1>4. buf \in Buffers /\ command \in [1 .. 8 -> Byte256] /\ head \in [Drive -> Cylinder]
  BY <1>1 DEF InitWith, NoBuffer, Buffers
<1>5. atrk \in Cylinder \X {0, 1} /\ timeout \in 0 .. InitialTimeout /\ sec \in Nat
  BY <1>1 DEF InitWith
<1>6. Typed
  BY <1>2, <1>3, <1>4, <1>5 DEF InitWith, Typed
<1> QED BY <1>6 DEF InitWith, DataInv, Counted

LEMMA InitInside == LaidImages /\ Modest /\ (Init \/ Loaded) => InsideInv
<1> SUFFICES ASSUME LaidImages, NEW d \in Images \cup {NoDisk}, InitWith(d) PROVE InsideInv
  BY DEF Init, Loaded
<1>1. LaidDisk(d)
  BY NoDiskLaid DEF LaidImages
<1>2. NoCommand # WriteID
  BY DEF NoCommand, WriteID
<1> QED BY <1>1, <1>2 DEF InitWith, InsideInv

LEMMA PatientNext == [Guest \/ PatientHost]_vars => [Next]_vars
BY DEF Guest, PatientHost, Next, Host

\* What the invariant says of the next byte.
LEMMA InsideOK ==
  ASSUME DataInv, InsideInv
  PROVE  InTrack /\ WriteStaysInSector /\ (ProtocolInv => BufferLive)
<1> SUFFICES ASSUME phase = "EXEC"
             PROVE  InTrack /\ WriteStaysInSector /\ BufferLive
  BY DEF InTrack, WriteStaysInSector, BufferLive
<1>1. InTransfer(Transfer) /\ Transfer \in Work
  BY TransferType DEF InsideInv, DataInv
<1>2. Transfer.trk = Active /\ Transfer.buf = buf /\ Transfer.sec = sec /\ Transfer.command = command
  BY DEF Transfer, Active
<1>3. Active \in TrackType /\ LaidTrack(Active) /\ buf \in Buffers
  <2>1. atrk[1] \in Cylinder /\ atrk[2] \in {0, 1}
    BY DEF DataInv, Typed
  <2> QED BY <1>1, <1>2, <2>1, WorkFields DEF InsideInv, LaidDisk, Active
<1>4. Active.size <= Active.room /\ Active.size \in Nat /\ Active.room \in Int
  BY <1>1, <1>2, <1>3 DEF InTransfer, LaidTrack, TrackType
<1>5. buf.ptr \in Int /\ buf.count \in Int /\ buf.end \in Int
  BY <1>3 DEF Buffers
<1>6. 0 <= buf.ptr /\ buf.ptr < buf.end /\ buf.end = Active.size /\ buf.mem = "track"
  BY <1>1, <1>2 DEF InTransfer
<1>7. InTrack /\ BufferLive
  BY <1>4, <1>5, <1>6 DEF InTrack, BufferLive
<1>8. CASE cmd \in WriteCommands
  <2> DEFINE e == Entry(Active, sec)
  <2>1. e = Current(Transfer) /\ e \in SectorType
    BY <1>1, <1>2, CurrentType DEF Current
  <2>2. InSector(Transfer) /\ buf.count > 0
    BY <1>1, <1>2, <1>8 DEF InTransfer
  <2>3. e.off \in Int /\ e.size \in Nat
    BY <2>1 DEF SectorType
  <2>4. e.id = Wanted(command) /\ e.off <= buf.ptr /\ buf.ptr + buf.count <= e.off + e.size
    BY <1>2, <2>1, <2>2 DEF InSector
  <2> HIDE DEF e
  <2>5. buf.ptr \in e.off .. e.off + e.size - 1
    BY <1>5, <2>2, <2>3, <2>4
  <2> QED BY <1>7, <2>4, <2>5 DEF WriteStaysInSector, Wr, e
<1> QED BY <1>7, <1>8 DEF WriteStaysInSector

LEMMA PatientInvariance ==
  ASSUME LaidImages, Modest PROVE PatientSpec => [](IInv /\ DataInv /\ InsideInv)
<1> DEFINE J == IInv /\ DataInv /\ InsideInv
<1>1. Init \/ Loaded => J
  BY InitInv, LoadedInv, InitData, LoadedData, InitInside
<1>2. J /\ [Guest \/ PatientHost]_vars => J'
  <2> SUFFICES ASSUME J, [Guest \/ PatientHost]_vars PROVE J'
    OBVIOUS
  <2>1. [Next]_vars /\ ProtocolInv
    BY PatientNext DEF IInv, ControlInv
  <2>2. IInv'
    BY <2>1, NextKeeps
  <2>3. DataInv'
    BY <2>1, DataKeeps
  <2>4. InsideInv'
    BY <2>1, InsideKeeps
  <2> QED BY <2>2, <2>3, <2>4
<1> HIDE DEF J
<1>3. PatientSpec => []J
  BY <1>1, <1>2, PTL DEF PatientSpec
<1> QED BY <1>3 DEF J

(***************************************************************************)
(* The byte that a transfer moves next lies in the data of the active      *)
(* track, for every well laid image, every modest program and a host that  *)
(* resets whenever it likes but changes the disk between two transfers     *)
(* only: the buffer pointer of fdc.c is never compared with the end of the *)
(* data before it is used, so this rests on where the pointer starts, on   *)
(* the count that stops a transfer and on the wrap at the end.             *)
(***************************************************************************)
THEOREM InTrackSafe == ASSUME LaidImages, Modest PROVE PatientSpec => []InTrack
BY PatientInvariance, InsideOK, PTL

(***************************************************************************)
(* Under the same hypotheses a byte that Write Data or Write Deleted Data  *)
(* stores lies in the sector that the command names, through every later   *)
(* sector of the command: the index that find_sector left, the ID, R as it *)
(* is counted on, the offset and the count agree at every byte.            *)
(***************************************************************************)
THEOREM WriteSafe == ASSUME LaidImages, Modest PROVE PatientSpec => []WriteStaysInSector
BY PatientInvariance, InsideOK, PTL

(***************************************************************************)
(* Under the same hypotheses a transfer never reads or writes through a    *)
(* pointer to a track that has been freed.  A disk change in the middle of *)
(* a transfer, which Spec allows and the code does not refuse, is what     *)
(* makes BufferLive false of Spec.                                         *)
(***************************************************************************)
THEOREM BufferSafe == ASSUME LaidImages, Modest PROVE PatientSpec => []BufferLive
<1>1. IInv => ProtocolInv
  BY DEF IInv, ControlInv
<1> QED BY <1>1, PatientInvariance, InsideOK, PTL

\* The machine whose disk stays in the drive is one with a patient host.
LEMMA GuestIsPatient == GuestSpec => PatientSpec
<1>1. [Guest]_vars => [Guest \/ PatientHost]_vars
  OBVIOUS
<1> QED BY <1>1, PTL DEF GuestSpec, PatientSpec
=============================================================================
