---------------------------- MODULE Memory_proofs ----------------------------
(***************************************************************************)
(* Proofs about Memory for all values of its constants.                    *)
(***************************************************************************)
EXTENDS Memory, TLAPS

(***************************************************************************)
(* The banks of the machine: the table in use is the one the registers     *)
(* ask for, and its rows are the rule of the banking chip.                 *)
(***************************************************************************)
BankOK(s) == /\ s.table = s.RAM_bank
             /\ IF s.ram = 1 THEN s.RAM_bank = 0 /\ s.RAM_config = 0
                             ELSE s.RAM_bank = WantedBank(s)

LEMMA RowsTyped == \A c \in 0 .. 7, a \in Slots : Rows[c + 1][a + 1] \in 0 .. 7
<1> SUFFICES ASSUME NEW c \in 0 .. 7, NEW a \in Slots PROVE Rows[c + 1][a + 1] \in 0 .. 7
  OBVIOUS
<1>1. c \in {0, 1, 2, 3, 4, 5, 6, 7} /\ a \in {0, 1, 2, 3}
  BY DEF Slots
<1> QED
  BY <1>1 DEF Rows

LEMMA RowsAre ==
  ASSUME NEW c \in 0 .. 7, NEW a \in Slots
  PROVE  Rows[c + 1][a + 1] = IF c = 2 \/ (a = 3 /\ c \in {1, 3}) THEN 4 + a
                              ELSE IF a = 1 /\ c >= 4 THEN c
                              ELSE IF a = 1 /\ c = 3 THEN 3 ELSE a
<1>1. c \in {0, 1, 2, 3, 4, 5, 6, 7} /\ a \in {0, 1, 2, 3}
  BY DEF Slots
<1> QED
  BY <1>1 DEF Rows

LEMMA TableIsHardware ==
  ASSUME NEW s, s \in Machine, BankOK(s)
  PROVE  \A a \in Slots : ga_init_banking(s.table)[s.RAM_config % 8][a] = HardwareRam(s, a)
<1> DEFINE c == s.RAM_config % 8
<1>1. s.ram \in Nat /\ s.RAM_config \in Nat /\ s.table \in 0 .. 7
  BY DEF Machine
<1>2. c \in 0 .. 7
  BY <1>1
<1>3. s.ram = 1 => c = 0 /\ s.table = 0
  BY <1>1 DEF BankOK
<1>4. s.ram # 1 => s.table = WantedBank(s)
  BY DEF BankOK
<1> SUFFICES ASSUME NEW a \in Slots
             PROVE  ga_init_banking(s.table)[c][a] = HardwareRam(s, a)
  OBVIOUS
<1>5. a \in {0, 1, 2, 3}
  BY DEF Slots
<1> HIDE DEF c
<1>6. ga_init_banking(s.table)[c][a] =
        LET r == Rows[c + 1][a + 1] IN Ram(IF r < 4 THEN r ELSE 4 * (s.table + 1) + r - 4)
  BY <1>2 DEF ga_init_banking
<1>7. CASE s.ram = 1
  BY <1>2, <1>3, <1>5, <1>6, <1>7, RowsAre DEF HardwareRam
<1>8. CASE s.ram # 1
  <2> DEFINE bank == IF ((s.RAM_config \div 8) % 8) + 2 > s.ram THEN 0 ELSE (s.RAM_config \div 8) % 8
  <2>1. s.table = bank
    BY <1>4, <1>8 DEF WantedBank
  <2>2. HardwareRam(s, a) =
          IF c = 2 \/ (a = 3 /\ c \in {1, 3}) THEN Ram(4 + 4 * bank + a)
          ELSE IF a = 1 /\ c >= 4 THEN Ram(4 + 4 * bank + c - 4)
          ELSE IF a = 1 /\ c = 3 THEN Ram(3) ELSE Ram(a)
    BY <1>8 DEF HardwareRam, c
  <2>3. bank \in 0 .. 7
    BY <1>1, <2>1
  <2> HIDE DEF bank
  <2> QED
    BY <1>2, <1>5, <1>6, <2>1, <2>2, <2>3, RowsAre
<1> QED
  BY <1>7, <1>8

(***************************************************************************)
(* What is paged in over the RAM, for given ROMs; and the inductive        *)
(* invariant of one machine: the pointers and flags are functions of the   *)
(* registers, the map of both.                                             *)
(***************************************************************************)
Written(s) ==
  [a \in Slots |-> IF a = 1 /\ s.registerPageOn THEN Registers ELSE HardwareRam(s, a)]
Shown(s, lower, upper) ==
  [a \in Slots |-> IF a = 3 /\ UpperOn(s) THEN upper
                   ELSE IF a = 1 /\ s.registerPageOn THEN Registers
                   ELSE IF a = s.lower_ROM_bank /\ LowerOn(s) THEN lower
                   ELSE HardwareRam(s, a)]

PagesOK(s) == /\ s.registerPageOn <=> RegisterPage(s)
              /\ s.lower_ROM_bank = LowerSlot(s)
              /\ s.model # Plus => s.rmr2 = 0 /\ s.locked
RomsOK(s) == ~s.mixed => /\ s.lo = LowerPage(s)
                         /\ s.amsdos <=> (s.model \in {1, 2})
                         /\ s.selected => s.exp = RomPage(s, s.upper_ROM)
\* A reset shows BASIC, whatever the pointer to the upper ROM; a change of the model moves the
\* pointer to the lower ROM only.
MapOK(s) == /\ s.write = Written(s)
            /\ \E lower, upper \in Roms :
                 /\ s.read = Shown(s, lower, upper)
                 /\ ~s.mixed => lower = s.lo
                 /\ ~s.mixed /\ s.selected => upper = s.exp
LockOK(s) == \A k \in 1 .. LockSize - 1 : k <= s.pos => k \in s.heard

Safe(s) == s \in Machine /\ BankOK(s) /\ PagesOK(s) /\ RomsOK(s) /\ MapOK(s) /\ LockOK(s)

LEMMA PagesTyped ==
  /\ {OS, BASIC, AMSDOS} \subseteq Roms
  /\ \A n \in 0 .. 31 : Cartridge(n) \in Roms
  /\ Roms \subseteq Pages /\ Registers \in Pages
  /\ \A n \in 0 .. 35 : Ram(n) \in Pages
  BY DEF Roms, Pages, Cartridge, Ram

LEMMA TableTyped == ASSUME NEW bank \in 0 .. 7
                    PROVE  ga_init_banking(bank) \in [0 .. 7 -> Map]
<1> SUFFICES ASSUME NEW c \in 0 .. 7, NEW a \in Slots
             PROVE  Ram(IF Rows[c + 1][a + 1] < 4 THEN Rows[c + 1][a + 1]
                        ELSE 4 * (bank + 1) + Rows[c + 1][a + 1] - 4) \in Pages
  BY DEF ga_init_banking, Map
<1>1. Rows[c + 1][a + 1] \in 0 .. 7
  BY RowsTyped
<1> QED
  BY <1>1, PagesTyped

\* The fields no paging handler but its own caller changes.
Same(s, t) ==
  /\ t.model = s.model /\ t.ram = s.ram /\ t.ROM_config = s.ROM_config
  /\ t.upper_ROM = s.upper_ROM /\ t.lower_ROM_bank = s.lower_ROM_bank
  /\ t.registerPageOn = s.registerPageOn /\ t.lo = s.lo /\ t.exp = s.exp
  /\ t.amsdos = s.amsdos /\ t.locked = s.locked /\ t.pos = s.pos /\ t.prev = s.prev
  /\ t.heard = s.heard /\ t.rmr2 = s.rmr2 /\ t.selected = s.selected /\ t.mixed = s.mixed

LEMMA RebankOK ==
  ASSUME NEW s \in Machine, s.table = s.RAM_bank,
         NEW bank \in 0 .. 7
  PROVE  LET t == Rebank(s, bank)
         IN /\ t \in Machine /\ Same(s, t) /\ t.table = t.RAM_bank /\ t.RAM_bank = bank
            /\ t.RAM_config = s.RAM_config
  BY DEF Machine, Rebank, Same

LEMMA RemapOK ==
  ASSUME NEW s \in Machine, BankOK(s), PagesOK(s)
  PROVE  LET t == Remap(s)
         IN /\ t \in Machine /\ Same(s, t) /\ BankOK(t) /\ MapOK(t)
            /\ t.RAM_config = s.RAM_config
<1> DEFINE ram == ga_init_banking(s.table)[s.RAM_config % 8]
           lower == IF LowerOn(s) THEN [ram EXCEPT ![s.lower_ROM_bank] = s.lo] ELSE ram
           registers == IF s.registerPageOn THEN [lower EXCEPT ![1] = Registers] ELSE lower
           read == IF UpperOn(s) THEN [registers EXCEPT ![3] = s.exp] ELSE registers
           write == IF s.registerPageOn THEN [ram EXCEPT ![1] = Registers] ELSE ram
<1>1. s.registerPageOn => s.model = Plus
  <2>1. s.rmr2 = 0 => ~RegisterPage(s)
    BY DEF RegisterPage
  <2> QED
    BY <2>1 DEF PagesOK
<1>2. Remap(s) = [s EXCEPT !.write = write, !.read = read]
  BY <1>1 DEF Remap, Machine
<1>3. ram \in Map
  <2>1. s.RAM_config % 8 \in 0 .. 7 /\ s.table \in 0 .. 7
    BY DEF Machine
  <2> QED
    BY <2>1, TableTyped
<1>4. \A a \in Slots : ram[a] = HardwareRam(s, a)
  BY TableIsHardware
<1> HIDE DEF ram
<1>5. s.lo \in Roms /\ s.exp \in Roms /\ s.lower_ROM_bank \in 0 .. 2 /\ s.registerPageOn \in BOOLEAN
  BY DEF Machine
<1>6. write \in Map /\ write = Written(s)
  BY <1>3, <1>4, <1>5, PagesTyped DEF Written, Map, Slots
<1>7. read \in Map /\ read = Shown(s, s.lo, s.exp)
  BY <1>3, <1>4, <1>5, PagesTyped DEF Shown, Map, Slots
<1> HIDE DEF read, write
<1> DEFINE t == Remap(s)
<1>8. t \in Machine /\ Same(s, t) /\ t.RAM_config = s.RAM_config /\ t.table = s.table
      /\ t.RAM_bank = s.RAM_bank /\ t.write = write /\ t.read = read
  BY <1>2, <1>6, <1>7 DEF Machine, Same
<1> HIDE DEF t
<1>9. BankOK(t)
  BY <1>8 DEF BankOK, WantedBank, Same
<1>10. \A a : HardwareRam(t, a) = HardwareRam(s, a)
  BY <1>8 DEF HardwareRam, Same
<1>11. Written(t) = Written(s) /\ Shown(t, t.lo, t.exp) = Shown(s, s.lo, s.exp)
  BY <1>8, <1>10 DEF Written, Shown, Same, UpperOn, LowerOn
<1>12. MapOK(t)
  BY <1>5, <1>6, <1>7, <1>8, <1>11 DEF MapOK, Same
<1> QED
  BY <1>8, <1>9, <1>12 DEF t

LEMMA SameKeeps ==
  ASSUME NEW s \in Machine, NEW t \in Machine, Same(s, t)
  PROVE  /\ PagesOK(s) => PagesOK(t)
         /\ RomsOK(s) => RomsOK(t)
         /\ LockOK(s) => LockOK(t)
<1>1. PagesOK(s) => PagesOK(t)
  BY DEF Same, PagesOK, RegisterPage, LowerSlot
<1>2. LowerPage(t) = LowerPage(s)
  BY DEF Same, LowerPage
<1>3. RomPage(t, t.upper_ROM) = RomPage(s, s.upper_ROM)
  BY DEF Same, RomPage
<1>4. RomsOK(s) => RomsOK(t)
  BY <1>2, <1>3 DEF Same, RomsOK
<1>5. LockOK(s) => LockOK(t)
  BY DEF Same, LockOK
<1> QED
  BY <1>1, <1>4, <1>5

LEMMA ManagerOK ==
  ASSUME NEW s \in Machine, s.table = s.RAM_bank, PagesOK(s)
  PROVE  LET t == ga_memory_manager(s)
         IN /\ t \in Machine /\ Same(s, t) /\ BankOK(t) /\ MapOK(t)
            /\ t.RAM_config = IF s.ram = 1 THEN 0 ELSE s.RAM_config
<1> DEFINE u == IF s.ram = 1 THEN [s EXCEPT !.RAM_config = 0] ELSE s
           bank == IF s.ram = 1 THEN 0 ELSE WantedBank(u)
           v == Rebank(u, bank)
<1>1. u \in Machine /\ Same(s, u) /\ u.table = u.RAM_bank
      /\ u.RAM_config = IF s.ram = 1 THEN 0 ELSE s.RAM_config
  BY DEF Machine, Same
<1> HIDE DEF u
<1>2. bank \in 0 .. 7
  <2>1. u.RAM_config \in Nat /\ u.ram \in Nat
    BY <1>1 DEF Machine
  <2> QED
    BY <2>1 DEF WantedBank
<1>3. /\ v \in Machine /\ Same(u, v) /\ v.table = v.RAM_bank /\ v.RAM_bank = bank
      /\ v.RAM_config = u.RAM_config
  BY <1>1, <1>2, RebankOK
<1>4. BankOK(v)
  BY <1>1, <1>3 DEF BankOK, WantedBank, Same
<1>5. PagesOK(v)
  BY <1>1, <1>3, SameKeeps
<1> HIDE DEF v
<1>6. LET t == Remap(v)
      IN /\ t \in Machine /\ Same(v, t) /\ BankOK(t) /\ MapOK(t)
         /\ t.RAM_config = v.RAM_config
  BY <1>3, <1>4, <1>5, RemapOK
<1>7. ga_memory_manager(s) = Remap(v)
  BY DEF ga_memory_manager, u, v
<1> HIDE DEF bank
<1>8. Same(s, Remap(v))
  BY <1>1, <1>3, <1>6 DEF Same
<1> QED
  BY <1>1, <1>3, <1>6, <1>7, <1>8

(***************************************************************************)
(* The ports keep the invariant.                                           *)
(***************************************************************************)
LEMMA ModePortSafe ==
  ASSUME NEW s, Safe(s), NEW val \in Nat
  PROVE  LET t == ModePort(s, val)
         IN /\ Safe(t) /\ t.model = s.model /\ t.ram = s.ram /\ t.locked = s.locked
            /\ t.pos = s.pos /\ t.heard = s.heard /\ t.upper_ROM = s.upper_ROM
            /\ t.selected = s.selected /\ t.mixed = s.mixed
            /\ s.locked => t.ROM_config = val /\ t.rmr2 = s.rmr2
<1> DEFINE t == ModePort(s, val)
<1>1. CASE ~s.locked /\ Bit(val, 32)
  <2> DEFINE bank == (val \div 8) % 4
             u == [s EXCEPT !.rmr2 = val, !.registerPageOn = bank = 3,
                     !.lower_ROM_bank = IF bank = 3 THEN 0 ELSE bank, !.lo = Cartridge(val % 8)]
  <2>1. bank \in 0 .. 3 /\ val % 8 \in 0 .. 31
    OBVIOUS
  <2>2. bank = (val \div 8) % 4
    OBVIOUS
  <2>3. Cartridge(val % 8) \in Roms
    BY <2>1, PagesTyped
  <2>4. t = ga_memory_manager(u)
    BY <1>1 DEF ModePort
  <2> HIDE DEF bank
  <2>5. u \in Machine
    <3>1. (IF bank = 3 THEN 0 ELSE bank) \in 0 .. 2 /\ (bank = 3) \in BOOLEAN
      BY <2>1
    <3>2. s \in Machine
      BY DEF Safe
    <3> QED
      BY <2>3, <3>1, <3>2 DEF Machine
  <2>6. s.model = Plus
    BY <1>1 DEF Safe, PagesOK
  <2>7. /\ u.model = s.model /\ u.ram = s.ram /\ u.locked = s.locked /\ u.pos = s.pos
        /\ u.heard = s.heard /\ u.selected = s.selected /\ u.mixed = s.mixed
        /\ u.rmr2 = val /\ u.registerPageOn = (bank = 3)
        /\ u.lower_ROM_bank = (IF bank = 3 THEN 0 ELSE bank)
        /\ u.lo = Cartridge(val % 8) /\ u.table = s.table /\ u.RAM_bank = s.RAM_bank
        /\ u.amsdos = s.amsdos /\ u.exp = s.exp /\ u.upper_ROM = s.upper_ROM
    BY DEF Safe, Machine
  <2> HIDE DEF u
  <2>8. PagesOK(u)
    BY <2>2, <2>6, <2>7 DEF PagesOK, RegisterPage, LowerSlot
  <2>9. RomPage(u, u.upper_ROM) = RomPage(s, s.upper_ROM)
    BY <2>7 DEF RomPage
  <2>10. RomsOK(u) /\ LockOK(u) /\ u.table = u.RAM_bank
    BY <2>6, <2>7, <2>9 DEF Safe, RomsOK, LowerPage, LockOK, BankOK
  <2>11. t \in Machine /\ Same(u, t) /\ BankOK(t) /\ MapOK(t)
    BY <2>4, <2>5, <2>8, <2>10, ManagerOK
  <2> HIDE DEF t
  <2>12. PagesOK(t) /\ RomsOK(t) /\ LockOK(t)
    BY <2>5, <2>8, <2>10, <2>11, SameKeeps
  <2> QED
    BY <1>1, <2>7, <2>11, <2>12 DEF Safe, Same, t
<1>2. CASE ~(~s.locked /\ Bit(val, 32))
  <2> DEFINE u == [s EXCEPT !.ROM_config = val]
  <2>1. t = ga_memory_manager(u)
    BY <1>2 DEF ModePort
  <2>2. /\ u \in Machine /\ u.ROM_config = val /\ Same([s EXCEPT !.ROM_config = val], u)
        /\ u.model = s.model /\ u.ram = s.ram /\ u.locked = s.locked /\ u.pos = s.pos
        /\ u.heard = s.heard /\ u.selected = s.selected /\ u.mixed = s.mixed
        /\ u.rmr2 = s.rmr2 /\ u.registerPageOn = s.registerPageOn
        /\ u.lower_ROM_bank = s.lower_ROM_bank /\ u.lo = s.lo
        /\ u.table = s.table /\ u.RAM_bank = s.RAM_bank
        /\ u.amsdos = s.amsdos /\ u.exp = s.exp /\ u.upper_ROM = s.upper_ROM
    BY DEF Safe, Machine, Same
  <2> HIDE DEF u
  <2>3. PagesOK(u)
    BY <2>2 DEF Safe, PagesOK, RegisterPage, LowerSlot
  <2>4. RomPage(u, u.upper_ROM) = RomPage(s, s.upper_ROM) /\ LowerPage(u) = LowerPage(s)
    BY <2>2 DEF RomPage, LowerPage
  <2>5. RomsOK(u) /\ LockOK(u) /\ u.table = u.RAM_bank
    BY <2>2, <2>4 DEF Safe, RomsOK, LockOK, BankOK
  <2>6. t \in Machine /\ Same(u, t) /\ BankOK(t) /\ MapOK(t)
    BY <2>1, <2>2, <2>3, <2>5, ManagerOK
  <2> HIDE DEF t
  <2>7. PagesOK(t) /\ RomsOK(t) /\ LockOK(t)
    BY <2>2, <2>3, <2>5, <2>6, SameKeeps
  <2> QED
    BY <2>2, <2>6, <2>7 DEF Safe, Same, t
<1> QED
  BY <1>1, <1>2

LEMMA RamPortSafe ==
  ASSUME NEW s, Safe(s), NEW val \in Nat
  PROVE  LET t == RamPort(s, val)
         IN /\ Safe(t) /\ Same(s, t)
            /\ t.RAM_config = IF s.ram = 1 THEN 0 ELSE val
<1> DEFINE u == [s EXCEPT !.RAM_config = val]
           t == RamPort(s, val)
<1>1. u \in Machine /\ Same(s, u) /\ u.table = u.RAM_bank /\ u.RAM_config = val
  BY DEF Safe, Machine, BankOK, Same
<1>2. t = ga_memory_manager(u)
  BY DEF RamPort
<1> HIDE DEF u
<1>3. PagesOK(u) /\ RomsOK(u) /\ LockOK(u)
  BY <1>1, SameKeeps DEF Safe
<1>4. /\ t \in Machine /\ Same(u, t) /\ BankOK(t) /\ MapOK(t)
      /\ t.RAM_config = IF u.ram = 1 THEN 0 ELSE u.RAM_config
  BY <1>1, <1>2, <1>3, ManagerOK
<1> HIDE DEF t
<1>5. PagesOK(t) /\ RomsOK(t) /\ LockOK(t)
  BY <1>1, <1>3, <1>4, SameKeeps
<1>6. Same(s, t)
  BY <1>1, <1>4 DEF Same
<1> QED
  BY <1>1, <1>4, <1>5, <1>6 DEF Safe, Same, t

LEMMA RomNumberTyped ==
  ASSUME NEW s \in Machine, NEW val \in Nat
  PROVE  RomNumber(s, val) \in Nat /\ RomPage(s, RomNumber(s, val)) \in Roms
<1>1. val % 32 \in 0 .. 31
  OBVIOUS
<1>2. CASE s.model = Plus
  BY <1>1, <1>2, PagesTyped DEF RomNumber, RomPage
<1>3. CASE s.model # Plus
  BY <1>3, PagesTyped DEF RomNumber, RomPage
<1> QED
  BY <1>2, <1>3

LEMMA RomPortSafe ==
  ASSUME NEW s, Safe(s), NEW val \in Nat
  PROVE  LET t == RomPort(s, val)
         IN /\ Safe(t) /\ t.selected /\ t.upper_ROM = RomNumber(s, val)
            /\ t.model = s.model /\ t.ram = s.ram /\ t.ROM_config = s.ROM_config
            /\ t.RAM_config = s.RAM_config /\ t.locked = s.locked /\ t.pos = s.pos
            /\ t.heard = s.heard /\ t.mixed = s.mixed /\ t.rmr2 = s.rmr2
<1> DEFINE n == RomNumber(s, val)
           page == RomPage(s, n)
           t == RomPort(s, val)
<1>1. s \in Machine
  BY DEF Safe
<1>2. n \in Nat /\ page \in Roms
  BY <1>1, RomNumberTyped
<1>3. t = [s EXCEPT !.upper_ROM = n, !.exp = page, !.selected = TRUE,
                    !.read[3] = IF UpperOn(s) THEN page ELSE @]
  BY DEF RomPort
<1> HIDE DEF n, page, t
<1>4. /\ t.model = s.model /\ t.ram = s.ram /\ t.ROM_config = s.ROM_config
      /\ t.RAM_config = s.RAM_config /\ t.locked = s.locked /\ t.pos = s.pos
      /\ t.heard = s.heard /\ t.mixed = s.mixed /\ t.RAM_bank = s.RAM_bank
      /\ t.table = s.table /\ t.rmr2 = s.rmr2 /\ t.registerPageOn = s.registerPageOn
      /\ t.lower_ROM_bank = s.lower_ROM_bank /\ t.lo = s.lo /\ t.amsdos = s.amsdos
      /\ t.write = s.write /\ t.selected = TRUE /\ t.exp = page /\ t.upper_ROM = n
      /\ t.prev = s.prev
  BY <1>1, <1>3 DEF Machine
<1>5. t.read = [s.read EXCEPT ![3] = IF UpperOn(s) THEN page ELSE @]
  BY <1>1, <1>3 DEF Machine
<1>6. s.read \in Map
  BY <1>1 DEF Machine
<1>7. t.read \in Map
  BY <1>2, <1>5, <1>6, PagesTyped DEF Map, Slots
<1>8. t \in Machine
  BY <1>1, <1>2, <1>3, <1>5, <1>7 DEF Machine
<1>9. \A a : HardwareRam(t, a) = HardwareRam(s, a)
  BY <1>4 DEF HardwareRam
<1>10. UpperOn(t) = UpperOn(s) /\ LowerOn(t) = LowerOn(s)
  BY <1>4 DEF UpperOn, LowerOn
<1>11. PICK lower \in Roms, upper \in Roms :
          s.read = Shown(s, lower, upper) /\ (~s.mixed => lower = s.lo)
  BY DEF Safe, MapOK
<1>17. t.read = Shown(t, lower, t.exp)
  <2> SUFFICES ASSUME NEW a \in Slots PROVE t.read[a] = Shown(t, lower, t.exp)[a]
    BY <1>7 DEF Map, Shown
  <2>2. CASE a = 3 /\ UpperOn(s)
    BY <1>4, <1>5, <1>6, <1>10, <2>2 DEF Shown, Map, Slots
  <2>3. CASE ~(a = 3 /\ UpperOn(s))
    <3>1. t.read[a] = s.read[a]
      BY <1>5, <1>6, <2>3 DEF Map, Slots
    <3>2. Shown(t, lower, t.exp)[a] = Shown(s, lower, upper)[a]
      BY <1>4, <1>9, <1>10, <2>3 DEF Shown
    <3> QED
      BY <1>11, <3>1, <3>2
  <2> QED
    BY <2>2, <2>3
<1>12. t.write = Written(t)
  BY <1>4, <1>9 DEF Safe, MapOK, Written
<1>13. RomPage(t, t.upper_ROM) = page
  BY <1>4 DEF RomPage, page
<1>14. BankOK(t) /\ PagesOK(t) /\ LockOK(t)
  BY <1>4 DEF Safe, BankOK, WantedBank, PagesOK, RegisterPage, LowerSlot, LockOK
<1>15. LowerPage(t) = LowerPage(s)
  BY <1>4 DEF LowerPage
<1>16. RomsOK(t)
  BY <1>4, <1>13, <1>15 DEF Safe, RomsOK
<1>18. MapOK(t)
  BY <1>2, <1>4, <1>11, <1>12, <1>17 DEF MapOK
<1> QED
  BY <1>4, <1>8, <1>14, <1>16, <1>18 DEF Safe, t, n

\* The fields the lock does not touch.
Unlocked(s, t) ==
  /\ t.model = s.model /\ t.ram = s.ram /\ t.ROM_config = s.ROM_config
  /\ t.RAM_config = s.RAM_config /\ t.RAM_bank = s.RAM_bank /\ t.table = s.table
  /\ t.upper_ROM = s.upper_ROM /\ t.lower_ROM_bank = s.lower_ROM_bank
  /\ t.registerPageOn = s.registerPageOn /\ t.lo = s.lo /\ t.exp = s.exp
  /\ t.amsdos = s.amsdos /\ t.rmr2 = s.rmr2 /\ t.read = s.read /\ t.write = s.write
  /\ t.selected = s.selected /\ t.mixed = s.mixed

LEMMA UnlockedKeeps ==
  ASSUME NEW s, Safe(s), NEW t \in Machine, Unlocked(s, t), t.locked \/ s.model = Plus
  PROVE  BankOK(t) /\ PagesOK(t) /\ RomsOK(t) /\ MapOK(t)
<1>1. BankOK(t) /\ PagesOK(t)
  BY DEF Safe, Unlocked, BankOK, WantedBank, PagesOK, RegisterPage, LowerSlot
<1>2. LowerPage(t) = LowerPage(s) /\ RomPage(t, t.upper_ROM) = RomPage(s, s.upper_ROM)
  BY DEF Unlocked, LowerPage, RomPage
<1>3. RomsOK(t)
  BY <1>2 DEF Safe, Unlocked, RomsOK
<1>4. \A a : HardwareRam(t, a) = HardwareRam(s, a)
  BY DEF Unlocked, HardwareRam
<1>5. Written(t) = Written(s)
  BY <1>4 DEF Unlocked, Written
<1>6. \A lower, upper : Shown(t, lower, upper) = Shown(s, lower, upper)
  BY <1>4 DEF Unlocked, Shown, UpperOn, LowerOn
<1>7. MapOK(t)
  BY <1>5, <1>6 DEF Safe, MapOK, Unlocked
<1> QED
  BY <1>1, <1>3, <1>7

\* An unlocking step has heard every byte before the last.
Earned(s, t) == s.locked /\ ~t.locked => 1 .. (LockSize - 1) \subseteq t.heard

LEMMA PokeSafe ==
  ASSUME NEW s, Safe(s), s.model = Plus, NEW val \in Nat, NEW beyond \in BOOLEAN
  PROVE  LET t == asic_poke_lock_sequence(s, val, beyond)
         IN Safe(t) /\ Unlocked(s, t) /\ Earned(s, t) /\ (s.pos = 0 /\ s.locked => t.locked)
<1> USE LockAssumption
<1> DEFINE key == 1 .. LockSize - 1
           last == LockSize - 1
           u == Synchronised(s, val)
           v == [u EXCEPT !.prev = val, !.heard = @ \cup ({val} \cap key)]
           t == asic_poke_lock_sequence(s, val, beyond)
<1>1. s \in Machine /\ LockOK(s)
  BY DEF Safe
<1>2. u \in Machine /\ Unlocked(s, u) /\ LockOK(u) /\ u.locked = s.locked
      /\ (s.pos = 0 => u.pos = 0)
  <2>1. CASE val = 0 /\ s.prev # 0
    <3>1. u = [s EXCEPT !.pos = 0, !.heard = {}]
      BY <2>1 DEF Synchronised
    <3> HIDE DEF u
    <3>2. 0 \in 0 .. LockSize /\ {} \in SUBSET key
      OBVIOUS
    <3>3. u \in Machine /\ Unlocked(s, u) /\ u.pos = 0 /\ u.locked = s.locked
      BY <1>1, <3>1, <3>2 DEF Machine, Unlocked
    <3> QED
      BY <3>3 DEF LockOK
  <2>2. CASE ~(val = 0 /\ s.prev # 0)
    BY <1>1, <2>2 DEF Synchronised, Unlocked
  <2> QED
    BY <2>1, <2>2
<1> HIDE DEF u
<1>3. u.heard \cup ({val} \cap key) \in SUBSET key
  BY <1>2 DEF Machine
<1>4. v \in Machine /\ Unlocked(s, v) /\ v.locked = s.locked /\ v.pos = u.pos
      /\ v.heard = u.heard \cup ({val} \cap key)
  BY <1>2, <1>3 DEF Machine, Unlocked
<1>5. LockOK(v)
  BY <1>2, <1>4 DEF LockOK
<1>6. val \in key => val \in v.heard
  BY <1>4
<1> HIDE DEF v
<1>7. v.pos \in 0 .. LockSize /\ v.locked \in BOOLEAN
  BY <1>4 DEF Machine
<1>8. t = CASE v.pos >= LockSize -> IF beyond THEN [v EXCEPT !.locked = FALSE] ELSE v
            [] v.pos = last -> [v EXCEPT !.pos = LockSize, !.locked = FALSE]
            [] v.pos < last /\ val = v.pos + 1 ->
                 [v EXCEPT !.pos = @ + 1, !.locked = @ \/ v.pos + 1 = last]
            [] OTHER -> v
  BY DEF asic_poke_lock_sequence, v, u
<1> HIDE DEF t
<1>9. t \in Machine /\ Unlocked(s, t) /\ LockOK(t) /\ Earned(s, t)
      /\ (s.pos = 0 /\ s.locked => t.locked)
  <2>1. CASE v.pos >= LockSize /\ beyond
    <3>1. t = [v EXCEPT !.locked = FALSE]
      BY <1>7, <1>8, <2>1
    <3>2. t \in Machine /\ Unlocked(v, t) /\ t.pos = v.pos /\ t.heard = v.heard
      BY <1>4, <3>1 DEF Machine, Unlocked
    <3>3. key \subseteq v.heard
      BY <1>5, <1>7, <2>1 DEF LockOK
    <3>4. s.pos # 0
      BY <1>2, <1>4, <2>1
    <3> QED
      BY <1>4, <1>5, <3>2, <3>3, <3>4 DEF Unlocked, LockOK, Earned
  <2>2. CASE v.pos = last
    <3>1. t = [v EXCEPT !.pos = LockSize, !.locked = FALSE]
      BY <1>7, <1>8, <2>2
    <3>5. LockSize \in 0 .. LockSize
      OBVIOUS
    <3>2. t \in Machine /\ Unlocked(v, t) /\ t.pos = LockSize /\ t.heard = v.heard
      BY <1>4, <3>1, <3>5 DEF Machine, Unlocked
    <3>3. key \subseteq v.heard
      BY <1>5, <2>2 DEF LockOK
    <3>4. s.pos # 0
      BY <1>2, <1>4, <2>2
    <3> QED
      BY <1>4, <3>2, <3>3, <3>4 DEF Unlocked, LockOK, Earned
  <2>3. CASE v.pos < last /\ val = v.pos + 1
    <3>1. t = [v EXCEPT !.pos = @ + 1, !.locked = @ \/ v.pos + 1 = last]
      BY <1>7, <1>8, <2>3
    <3> DEFINE locked == v.locked \/ v.pos + 1 = last
               pos == v.pos + 1
    <3>2. locked \in BOOLEAN /\ pos \in 0 .. LockSize /\ (v.locked => locked)
      BY <1>7, <2>3
    <3>3. t = [v EXCEPT !.pos = pos, !.locked = locked]
      BY <1>4, <3>1 DEF Machine
    <3> HIDE DEF locked
    <3>6. t \in Machine /\ Unlocked(v, t) /\ t.pos = v.pos + 1 /\ t.heard = v.heard
          /\ (v.locked => t.locked)
      <4> HIDE DEF pos
      <4>1. t \in Machine /\ Unlocked(v, t) /\ t.pos = pos /\ t.heard = v.heard /\ t.locked = locked
        BY <1>4, <3>2, <3>3 DEF Machine, Unlocked
      <4> QED
        BY <3>2, <4>1 DEF pos
    <3>4. v.pos + 1 \in v.heard
      BY <1>6, <1>7, <2>3
    <3>5. LockOK(t)
      BY <1>5, <1>7, <3>4, <3>6 DEF LockOK
    <3> QED
      BY <1>4, <3>5, <3>6 DEF Unlocked, Earned
  <2>4. CASE /\ ~(v.pos >= LockSize /\ beyond) /\ v.pos # last
             /\ ~(v.pos < last /\ val = v.pos + 1)
    <3>1. t = v
      BY <1>7, <1>8, <2>4
    <3> QED
      BY <1>4, <1>5, <3>1 DEF Earned
  <2> QED
    BY <2>1, <2>2, <2>3, <2>4
<1>10. BankOK(t) /\ PagesOK(t) /\ RomsOK(t) /\ MapOK(t)
  BY <1>9, UnlockedKeeps
<1> QED
  BY <1>9, <1>10 DEF Safe, t

LEMMA RegisterPortSafe ==
  ASSUME NEW s, Safe(s), NEW val \in Nat, NEW beyond \in BOOLEAN
  PROVE  LET t == RegisterPort(s, val, beyond)
         IN Safe(t) /\ Unlocked(s, t) /\ Earned(s, t) /\ (s.pos = 0 /\ s.locked => t.locked)
<1>1. CASE s.model = Plus
  BY <1>1, PokeSafe DEF RegisterPort
<1>2. CASE s.model # Plus
  BY <1>2 DEF RegisterPort, Unlocked, Earned
<1> QED
  BY <1>1, <1>2

(***************************************************************************)
(* A reset makes any machine safe whose ROMs fit its model; so does every  *)
(* way to build or replace one.                                            *)
(***************************************************************************)
RomsFit(s) == ~s.mixed => /\ s.amsdos <=> (s.model \in {1, 2})
                          /\ s.model # Plus => s.lo = OS

LEMMA ResetSafe ==
  ASSUME NEW s \in Machine, RomsFit(s)
  PROVE  LET t == emulator_reset(s)
         IN Safe(t) /\ t.locked /\ t.pos = 0 /\ t.model = s.model /\ t.ram = s.ram
            /\ t.mixed = s.mixed /\ t.rmr2 = 0
<1> USE LockAssumption
<1> DEFINE lo == IF s.model = Plus THEN Cartridge(0) ELSE s.lo
           ram == ga_init_banking(0)[0]
           read == [ram EXCEPT ![0] = lo, ![3] = BASIC]
           t == emulator_reset(s)
<1>1. lo \in Roms
  <2>1. s.lo \in Roms /\ Cartridge(0) \in Roms
    BY PagesTyped DEF Machine
  <2> QED
    BY <2>1
<1>2. ram \in Map
  BY TableTyped
<1>3. t = [s EXCEPT !.lo = lo, !.locked = TRUE, !.pos = 0, !.prev = 0, !.heard = {}, !.rmr2 = 0,
             !.ROM_config = 0, !.RAM_config = 0, !.RAM_bank = 0, !.upper_ROM = 0,
             !.lower_ROM_bank = 0, !.registerPageOn = FALSE, !.table = 0,
             !.write = ram, !.read = read, !.selected = FALSE]
  BY DEF emulator_reset
<1>4. /\ lo = (IF s.model = Plus THEN Cartridge(0) ELSE s.lo)
      /\ ram = ga_init_banking(0)[0]
      /\ read = [ram EXCEPT ![0] = lo, ![3] = BASIC]
  OBVIOUS
<1> HIDE DEF lo, ram
<1>5. read \in Map
  BY <1>1, <1>2, PagesTyped DEF Map, Slots
<1> HIDE DEF read, t
<1>6. 0 \in 0 .. LockSize /\ {} \in SUBSET (1 .. LockSize - 1)
  OBVIOUS
<1>19. t \in Machine
  <2> DEFINE u == [s EXCEPT !.lo = lo, !.locked = TRUE, !.pos = 0, !.prev = 0, !.heard = {},
                            !.rmr2 = 0, !.ROM_config = 0, !.RAM_config = 0]
  <2>1. u \in Machine
    BY <1>1, <1>6 DEF Machine
  <2> DEFINE v == [u EXCEPT !.RAM_bank = 0, !.upper_ROM = 0, !.lower_ROM_bank = 0,
                            !.registerPageOn = FALSE, !.table = 0, !.selected = FALSE]
  <2>2. t = [v EXCEPT !.write = ram, !.read = read]
    BY <1>3 DEF Machine
  <2> HIDE DEF u
  <2>3. v \in Machine
    <3>1. 0 \in 0 .. 7 /\ 0 \in 0 .. 2 /\ 0 \in Nat /\ FALSE \in BOOLEAN
      OBVIOUS
    <3> QED
      BY <2>1, <3>1, Zenon DEF Machine
  <2> HIDE DEF v
  <2> QED
    BY <1>2, <1>5, <2>2, <2>3 DEF Machine
<1>7. /\ t.model = s.model /\ t.ram = s.ram /\ t.mixed = s.mixed
      /\ t.lo = lo /\ t.locked = TRUE /\ t.pos = 0 /\ t.heard = {} /\ t.rmr2 = 0
      /\ t.ROM_config = 0 /\ t.RAM_config = 0 /\ t.RAM_bank = 0 /\ t.upper_ROM = 0
      /\ t.lower_ROM_bank = 0 /\ t.registerPageOn = FALSE /\ t.table = 0 /\ t.write = ram
      /\ t.read = read /\ t.selected = FALSE /\ t.amsdos = s.amsdos
  BY <1>3 DEF Machine
<1>8. BankOK(t)
  BY <1>7 DEF BankOK, WantedBank
<1>9. PagesOK(t)
  BY <1>7 DEF PagesOK, RegisterPage, LowerSlot
<1>10. t.rmr2 % 8 = 0
  BY <1>7
<1>11. ~t.mixed => t.lo = LowerPage(t)
  BY <1>4, <1>7, <1>10 DEF LowerPage, RomsFit
<1>12. RomsOK(t)
  BY <1>7, <1>11 DEF RomsOK, RomsFit
<1>13. \A a \in Slots : ram[a] = HardwareRam(t, a)
  BY <1>4, <1>7, <1>8, <1>19, TableIsHardware
<1>14. UpperOn(t) /\ LowerOn(t)
  BY <1>7 DEF UpperOn, LowerOn, Bit
<1>15. t.write = Written(t)
  BY <1>2, <1>7, <1>13 DEF Written, Map
<1>16. t.read = Shown(t, lo, BASIC)
  BY <1>2, <1>4, <1>5, <1>7, <1>13, <1>14 DEF Shown, Map, Slots
<1>17. LockOK(t)
  BY <1>7 DEF LockOK
<1>18. MapOK(t)
  BY <1>1, <1>7, <1>15, <1>16, PagesTyped DEF MapOK
<1> QED
  BY <1>7, <1>8, <1>9, <1>12, <1>17, <1>18, <1>19 DEF Safe, t

LEMMA SafeFits == ASSUME NEW s, Safe(s) PROVE RomsFit(s)
  BY DEF Safe, RomsOK, RomsFit, LowerPage

LEMMA BuildSafe ==
  ASSUME NEW m \in 0 .. Plus, NEW r \in Nat \ {0}
  PROVE  Safe(Build(m, r)) /\ Build(m, r).locked
<1> USE LockAssumption
<1> DEFINE ram == ga_init_banking(0)[0]
           size == IF m >= 2 /\ r < 2 THEN 2 ELSE r
           s == [model |-> m, ram |-> size, ROM_config |-> 0, RAM_config |-> 0,
                 RAM_bank |-> 0, upper_ROM |-> 0, lower_ROM_bank |-> 0, registerPageOn |-> FALSE,
                 table |-> 0, lo |-> OS, exp |-> BASIC, amsdos |-> FALSE, locked |-> TRUE,
                 pos |-> 0, prev |-> 0, heard |-> {}, rmr2 |-> 0, read |-> ram, write |-> ram,
                 selected |-> FALSE, mixed |-> FALSE]
           u == emulator_select_ROM(s)
<1>1. ram \in Map
  BY TableTyped
<1>2. size \in Nat \ {0}
  OBVIOUS
<1>3. Build(m, r) = emulator_reset(u)
  BY DEF Build
<1> HIDE DEF ram, size
<1>4. 0 \in 0 .. LockSize /\ {} \in SUBSET (1 .. LockSize - 1)
  OBVIOUS
<1>5. s \in Machine
  BY <1>1, <1>2, <1>4, PagesTyped DEF Machine
<1>6. s.amsdos = FALSE /\ s.mixed = FALSE /\ s.lo = OS /\ s.model = m
  OBVIOUS
<1> HIDE DEF s
<1> DEFINE amsdos == s.amsdos \/ s.model \in {1, 2}
           lo == IF s.model = Plus /\ SystemCartridge THEN Cartridge(0) ELSE s.lo
<1>7. u = [s EXCEPT !.amsdos = amsdos, !.lo = lo]
  BY <1>5 DEF emulator_select_ROM, Machine
<1>8. amsdos \in BOOLEAN /\ (amsdos <=> m \in {1, 2}) /\ lo \in Roms /\ (m # Plus => lo = OS)
  BY <1>6, PagesTyped
<1> HIDE DEF u, amsdos, lo
<1>9. u \in Machine /\ u.model = m /\ u.amsdos = amsdos /\ u.lo = lo
  BY <1>5, <1>6, <1>7, <1>8 DEF Machine
<1>10. RomsFit(u)
  BY <1>8, <1>9 DEF RomsFit
<1> QED
  BY <1>3, <1>9, <1>10, ResetSafe

LEMMA RestoreSafe ==
  ASSUME NEW s, Safe(s), NEW h \in Snapshot, NEW val \in Nat
  PROVE  LET t == Restore(s, h, val)
         IN /\ Safe(t)
            /\ h.model = s.model =>
                 /\ t.selected /\ t.model = s.model /\ t.ram = h.ram /\ t.mixed = s.mixed
                 /\ t.ROM_config = h.ROM_config
                 /\ t.RAM_config = IF h.ram = 1 THEN 0 ELSE h.RAM_config
                 /\ t.upper_ROM = RomNumber(s, h.upper_ROM)
            /\ t.locked
<1> DEFINE u == [s EXCEPT !.ram = h.ram]
           r == emulator_reset(u)
           a == ModePort(r, h.ROM_config)
           b == RamPort(a, h.RAM_config)
           c == RegisterPort(b, val, FALSE)
           d == RomPort(c, h.upper_ROM)
           t == Restore(s, h, val)
<1>1. h.ram \in Nat \ {0} /\ h.ROM_config \in Nat /\ h.RAM_config \in Nat /\ h.upper_ROM \in Nat
      /\ h.model \in 0 .. Plus
  BY DEF Snapshot
<1>2. u \in Machine /\ u.model = s.model /\ u.ram = h.ram /\ u.mixed = s.mixed
      /\ u.amsdos = s.amsdos /\ u.lo = s.lo
  BY <1>1 DEF Safe, Machine
<1> HIDE DEF u
<1>3. RomsFit(u)
  BY <1>2, SafeFits DEF RomsFit
<1>4. Safe(r) /\ r.locked /\ r.pos = 0 /\ r.model = s.model /\ r.ram = h.ram /\ r.mixed = s.mixed
      /\ r.rmr2 = 0
  BY <1>2, <1>3, ResetSafe
<1> HIDE DEF r
<1>5. /\ Safe(a) /\ a.locked /\ a.pos = 0 /\ a.model = s.model /\ a.ram = h.ram
      /\ a.rmr2 = 0 /\ a.mixed = s.mixed /\ a.ROM_config = h.ROM_config
  <2>1. \A n \in Nat : LET u1 == ModePort(r, n)
                       IN /\ Safe(u1) /\ u1.model = r.model /\ u1.ram = r.ram
                          /\ u1.locked = r.locked /\ u1.pos = r.pos /\ u1.mixed = r.mixed
                          /\ r.locked => u1.ROM_config = n /\ u1.rmr2 = r.rmr2
    BY <1>4, ModePortSafe
  <2>2. /\ Safe(a) /\ a.locked = r.locked /\ a.pos = r.pos /\ a.model = r.model
        /\ a.ram = r.ram /\ a.mixed = r.mixed
        /\ r.locked => a.ROM_config = h.ROM_config /\ a.rmr2 = r.rmr2
    BY <1>1, <2>1
  <2> HIDE DEF a
  <2> QED
    BY <1>4, <2>2
<1> HIDE DEF a
<1>6. /\ Safe(b) /\ b.locked /\ b.pos = 0 /\ b.model = s.model /\ b.ram = h.ram
      /\ b.rmr2 = 0 /\ b.mixed = s.mixed /\ b.ROM_config = h.ROM_config
      /\ b.RAM_config = IF h.ram = 1 THEN 0 ELSE h.RAM_config
  <2>1. /\ Safe(b) /\ Same(a, b)
        /\ b.RAM_config = IF a.ram = 1 THEN 0 ELSE h.RAM_config
    BY <1>1, <1>5, RamPortSafe
  <2> HIDE DEF b
  <2> QED
    BY <1>5, <2>1 DEF Same
<1> HIDE DEF b
<1>7. /\ Safe(c) /\ c.locked /\ c.model = s.model /\ c.ram = h.ram
      /\ c.rmr2 = 0 /\ c.mixed = s.mixed /\ c.ROM_config = h.ROM_config
      /\ c.RAM_config = IF h.ram = 1 THEN 0 ELSE h.RAM_config
  <2>1. Safe(c) /\ Unlocked(b, c) /\ (b.pos = 0 /\ b.locked => c.locked)
    BY <1>6, RegisterPortSafe
  <2> HIDE DEF c
  <2> QED
    BY <1>6, <2>1 DEF Unlocked
<1> HIDE DEF c
<1>8. RomNumber(c, h.upper_ROM) = RomNumber(s, h.upper_ROM)
  BY <1>7 DEF RomNumber
<1>9. /\ Safe(d) /\ d.locked /\ d.model = s.model /\ d.ram = h.ram /\ d.selected
      /\ d.rmr2 = 0 /\ d.mixed = s.mixed /\ d.ROM_config = h.ROM_config
      /\ d.RAM_config = IF h.ram = 1 THEN 0 ELSE h.RAM_config
      /\ d.upper_ROM = RomNumber(s, h.upper_ROM)
  BY <1>1, <1>7, <1>8, RomPortSafe
<1>10. t = IF h.model = s.model THEN d
           ELSE emulator_select_ROM([d EXCEPT !.model = h.model, !.mixed = TRUE])
  BY DEF Restore, Replay, a, b, c, d, r, u
<1> HIDE DEF d, t
<1>11. CASE h.model = s.model
  BY <1>9, <1>10, <1>11 DEF t
<1>12. CASE h.model # s.model
  <2> DEFINE e == [d EXCEPT !.model = h.model, !.mixed = TRUE]
             lo == IF h.model = Plus /\ SystemCartridge THEN Cartridge(0) ELSE d.lo
             amsdos == d.amsdos \/ h.model \in {1, 2}
  <2>1. d \in Machine
    BY <1>9 DEF Safe
  <2>2. e \in Machine /\ e.model = h.model /\ e.mixed = TRUE /\ e.lo = d.lo /\ e.amsdos = d.amsdos
    BY <1>1, <2>1 DEF Machine
  <2>3. t = [e EXCEPT !.amsdos = amsdos, !.lo = lo]
    BY <1>10, <1>12, <2>2 DEF emulator_select_ROM, Machine
  <2>4. amsdos \in BOOLEAN /\ lo \in Roms
    BY <2>1, PagesTyped DEF Machine
  <2> HIDE DEF lo, amsdos
  <2>5. t = [d EXCEPT !.model = h.model, !.mixed = TRUE, !.amsdos = amsdos, !.lo = lo]
    BY <2>1, <2>3 DEF Machine
  <2>6. t \in Machine /\ t.model = h.model /\ t.mixed = TRUE /\ t.locked = d.locked
        /\ t.ram = d.ram /\ t.RAM_config = d.RAM_config /\ t.ROM_config = d.ROM_config
        /\ t.table = d.table /\ t.RAM_bank = d.RAM_bank /\ t.rmr2 = d.rmr2
        /\ t.registerPageOn = d.registerPageOn /\ t.lower_ROM_bank = d.lower_ROM_bank
        /\ t.write = d.write /\ t.read = d.read /\ t.pos = d.pos /\ t.heard = d.heard
    BY <1>1, <2>1, <2>4, <2>5 DEF Machine
  <2>8. BankOK(t) /\ PagesOK(t) /\ RomsOK(t) /\ LockOK(t)
    BY <1>9, <2>6 DEF Safe, BankOK, WantedBank, PagesOK, RegisterPage, LowerSlot, RomsOK, LockOK
  <2>9. \A slot : HardwareRam(t, slot) = HardwareRam(d, slot)
    BY <2>6 DEF HardwareRam
  <2>10. Written(t) = Written(d)
         /\ \A lower, upper : Shown(t, lower, upper) = Shown(d, lower, upper)
    BY <2>6, <2>9 DEF Written, Shown, UpperOn, LowerOn
  <2>11. MapOK(t)
    BY <1>9, <2>6, <2>10 DEF Safe, MapOK
  <2> QED
    BY <1>9, <1>12, <2>6, <2>8, <2>11 DEF Safe, t
<1> QED
  BY <1>11, <1>12

(***************************************************************************)
(* The inductive invariant: a safe machine, and a snapshot whose map is    *)
(* the one its registers stand for.                                        *)
(***************************************************************************)
CpcRead(h) ==
  [a \in Slots |-> IF a = 3 /\ UpperOn(h)
                     THEN (IF h.upper_ROM = 7 /\ h.model \in {1, 2} THEN AMSDOS ELSE BASIC)
                   ELSE IF a = 0 /\ LowerOn(h) THEN OS ELSE HardwareRam(h, a)]
CpcWrite(h) == [a \in Slots |-> HardwareRam(h, a)]

SnapOK == /\ snap \in {NoSnapshot} \cup Snapshot
          /\ snap.taken => /\ snap.ram = 1 => snap.RAM_config = 0
                           /\ snap.map # <<>> => /\ snap.model # Plus
                                                 /\ snap.map = <<CpcRead(snap), CpcWrite(snap)>>
IInv == Safe(cpc) /\ SnapOK

LEMMA CpcMap ==
  ASSUME NEW s, Safe(s), s.selected, ~s.mixed, s.model # Plus
  PROVE  s.read = CpcRead(s) /\ s.write = CpcWrite(s)
<1>1. s.rmr2 = 0
  BY DEF Safe, PagesOK
<1>2. ~RegisterPage(s) /\ LowerSlot(s) = 0
  BY <1>1 DEF RegisterPage, LowerSlot
<1>3. ~s.registerPageOn /\ s.lower_ROM_bank = 0
  BY <1>2 DEF Safe, PagesOK
<1>4. s.lo = OS /\ s.exp = (IF s.upper_ROM = 7 /\ s.model \in {1, 2} THEN AMSDOS ELSE BASIC)
  BY DEF Safe, RomsOK, LowerPage, RomPage
<1>5. s.write = Written(s) /\ s.read = Shown(s, s.lo, s.exp)
  BY DEF Safe, MapOK
<1> QED
  BY <1>3, <1>4, <1>5 DEF Written, Shown, CpcRead, CpcWrite

LEMMA SnapTaken == SnapOK /\ snap.taken => snap \in Snapshot
  BY DEF SnapOK, NoSnapshot

LEMMA InitIInv == Init => IInv
<1> SUFFICES ASSUME Init PROVE IInv
  OBVIOUS
<1>1. PICK m \in Models, r \in RamSizes : cpc = Build(m, r)
  BY DEF Init
<1>2. m \in 0 .. Plus /\ r \in Nat \ {0}
  BY ModelAssumption, RamAssumption
<1>3. Safe(cpc)
  BY <1>1, <1>2, BuildSafe
<1>4. SnapOK
  BY DEF Init, SnapOK, NoSnapshot
<1> QED
  BY <1>3, <1>4 DEF IInv

LEMMA SaveOK ==
  ASSUME IInv, Save PROVE SnapOK'
<1> DEFINE map == IF cpc.selected /\ ~cpc.mixed /\ cpc.model # Plus THEN <<cpc.read, cpc.write>> ELSE <<>>
<1>1. snap' = [taken |-> TRUE, model |-> cpc.model, ram |-> cpc.ram, ROM_config |-> cpc.ROM_config,
               RAM_config |-> cpc.RAM_config, upper_ROM |-> cpc.upper_ROM, map |-> map]
  BY DEF Save, snapshot_save_mem
<1>2. Safe(cpc) /\ cpc \in Machine
  BY DEF IInv, Safe
<1>3. map \in {<<>>} \cup (Map \X Map)
  BY <1>2 DEF Machine
<1>4. map # <<>> => cpc.model # Plus /\ map = <<CpcRead(cpc), CpcWrite(cpc)>>
  BY <1>2, CpcMap
<1> HIDE DEF map
<1>5. snap' \in Snapshot
  BY <1>1, <1>2, <1>3 DEF Machine, Snapshot
<1>6. \A a : HardwareRam(snap', a) = HardwareRam(cpc, a)
  BY <1>1 DEF HardwareRam
<1>7. CpcRead(snap') = CpcRead(cpc) /\ CpcWrite(snap') = CpcWrite(cpc)
  BY <1>1, <1>6 DEF CpcRead, CpcWrite, UpperOn, LowerOn
<1>8. cpc.ram = 1 => cpc.RAM_config = 0
  BY <1>2 DEF Safe, BankOK
<1> QED
  BY <1>1, <1>4, <1>5, <1>7, <1>8 DEF SnapOK

\* What a step does to the machine: it stays safe, and unlocks only what was earned.
LEMMA StepSafe ==
  ASSUME IInv, Next PROVE Safe(cpc') /\ Earned(cpc, cpc')
<1> USE ByteAssumption
<1>1. Safe(cpc) /\ SnapOK
  BY DEF IInv
<1>2. CASE WriteMode
  <2>1. PICK val \in ModeBytes : cpc' = ModePort(cpc, val)
    BY <1>2 DEF WriteMode
  <2> QED
    BY <1>1, <2>1, ModePortSafe DEF Earned
<1>3. CASE WriteRam
  <2>1. PICK val \in RamBytes : cpc' = RamPort(cpc, val)
    BY <1>3 DEF WriteRam
  <2>2. Safe(cpc') /\ Same(cpc, cpc')
    BY <1>1, <2>1, RamPortSafe
  <2> QED
    BY <2>2 DEF Same, Earned
<1>4. CASE SelectRom
  <2>1. PICK val \in RomBytes : cpc' = RomPort(cpc, val)
    BY <1>4 DEF SelectRom
  <2> QED
    BY <1>1, <2>1, RomPortSafe DEF Earned
<1>5. CASE SelectRegister
  <2>1. PICK val \in LockBytes, beyond \in BOOLEAN : cpc' = RegisterPort(cpc, val, beyond)
    BY <1>5 DEF SelectRegister
  <2> QED
    BY <1>1, <2>1, RegisterPortSafe
<1>6. CASE Reset
  BY <1>1, <1>6, SafeFits, ResetSafe DEF Reset, Earned, Safe
<1>7. CASE Reconfigure
  <2>1. PICK m \in Models, r \in RamSizes : cpc' = Build(m, r)
    BY <1>7 DEF Reconfigure
  <2>2. m \in 0 .. Plus /\ r \in Nat \ {0}
    BY ModelAssumption, RamAssumption
  <2> QED
    BY <2>1, <2>2, BuildSafe DEF Earned
<1>8. CASE Save
  BY <1>1, <1>8 DEF Save, Earned
<1>9. CASE Load
  <2>1. PICK val \in LockBytes \cup {0} : cpc' = Restore(cpc, snap, val)
    BY <1>9 DEF Load
  <2>2. snap \in Snapshot
    BY <1>1, <1>9, SnapTaken DEF Load
  <2> QED
    BY <1>1, <2>1, <2>2, RestoreSafe DEF Earned
<1>10. CASE LoadTruncated
  <2>1. PICK r \in {cpc.ram, snap.ram} : cpc' = emulator_reset([cpc EXCEPT !.ram = r])
    BY <1>10 DEF LoadTruncated
  <2>2. snap \in Snapshot
    BY <1>1, <1>10, SnapTaken DEF LoadTruncated
  <2>3. r \in Nat \ {0}
    BY <1>1, <2>1, <2>2 DEF Safe, Machine, Snapshot
  <2> DEFINE s == [cpc EXCEPT !.ram = r]
  <2>4. s \in Machine /\ s.mixed = cpc.mixed /\ s.amsdos = cpc.amsdos /\ s.model = cpc.model
        /\ s.lo = cpc.lo
    BY <1>1, <2>3 DEF Safe, Machine
  <2> HIDE DEF s
  <2>5. RomsFit(s)
    BY <1>1, <2>4, SafeFits DEF RomsFit
  <2> QED
    BY <2>1, <2>4, <2>5, ResetSafe DEF s, Earned
<1>11. CASE LoadUnknown
  <2> DEFINE h == [snap EXCEPT !.model = cpc.model]
             s == Restore(cpc, h, 0)
  <2>1. snap \in Snapshot /\ cpc.model \in 0 .. Plus
    BY <1>1, <1>11, SnapTaken DEF LoadUnknown, Safe, Machine
  <2>2. h \in Snapshot
    BY <2>1 DEF Snapshot
  <2> HIDE DEF h
  <2>3. Safe(s)
    BY <1>1, <2>2, RestoreSafe
  <2>4. s \in Machine
    BY <2>3 DEF Safe
  <2>5. cpc' = emulator_reset(s)
    BY <1>11 DEF LoadUnknown, h
  <2> HIDE DEF s
  <2> QED
    BY <2>3, <2>4, <2>5, SafeFits, ResetSafe DEF Earned
<1> QED
  BY <1>2, <1>3, <1>4, <1>5, <1>6, <1>7, <1>8, <1>9, <1>10, <1>11 DEF Next

LEMMA NextIInv == IInv /\ [Next]_vars => IInv'
<1> SUFFICES ASSUME IInv, [Next]_vars PROVE IInv'
  OBVIOUS
<1>1. CASE UNCHANGED vars
  BY <1>1 DEF vars, IInv, SnapOK
<1>2. CASE Next
  <2>1. Safe(cpc')
    BY <1>2, StepSafe
  <2>2. CASE Save
    BY <2>1, <2>2, SaveOK DEF IInv
  <2>3. CASE ~Save
    <3>1. snap' = snap
      BY <1>2, <2>3 DEF Next, WriteMode, WriteRam, SelectRom, SelectRegister, Reset, Reconfigure,
                        Load, LoadTruncated, LoadUnknown
    <3> QED
      BY <2>1, <3>1 DEF IInv, SnapOK
  <2> QED
    BY <2>2, <2>3
<1> QED
  BY <1>1, <1>2

LEMMA Invariance == Spec => []IInv
<1> QED
  BY InitIInv, NextIInv, PTL DEF Spec

(***************************************************************************)
(* Theorems                                                                *)
(***************************************************************************)
LEMMA HardwareTyped ==
  ASSUME NEW s, Safe(s), NEW a \in Slots
  PROVE  \E n \in 0 .. 35 : HardwareRam(s, a) = Ram(n) /\ n < 4 * s.ram
<1> DEFINE c == s.RAM_config % 8
           b == (s.RAM_config \div 8) % 8
           bank == IF b + 2 > s.ram THEN 0 ELSE b
           n == IF s.ram = 1 THEN a
                ELSE IF c = 2 \/ (a = 3 /\ c \in {1, 3}) THEN 4 + 4 * bank + a
                ELSE IF a = 1 /\ c >= 4 THEN 4 + 4 * bank + c - 4
                ELSE IF a = 1 /\ c = 3 THEN 3 ELSE a
<1>1. s.ram \in Nat \ {0} /\ s.RAM_config \in Nat
  BY DEF Safe, Machine
<1>2. a \in 0 .. 3
  BY DEF Slots
<1>3. HardwareRam(s, a) = Ram(n)
  BY DEF HardwareRam
<1>4. c \in 0 .. 7 /\ b \in 0 .. 7
  BY <1>1
<1> HIDE DEF c, b
<1>5. bank \in 0 .. 7 /\ (s.ram # 1 => bank + 2 <= s.ram)
  BY <1>1, <1>4
<1> HIDE DEF bank
<1>6. n \in 0 .. 35 /\ n < 4 * s.ram
  BY <1>1, <1>2, <1>4, <1>5
<1> QED
  BY <1>3, <1>6

\* No page of RAM is a ROM or the register page.
LEMMA PagesApart ==
  /\ \A page \in Roms : page # Registers /\ page[1] # "ram"
  /\ \A n \in Nat : Ram(n) # Registers /\ Ram(n)[1] = "ram" /\ Ram(n)[2] = n
  /\ Registers[1] # "ram"
  BY DEF Roms, Ram, Registers, OS, BASIC, AMSDOS

(***************************************************************************)
(* Every variable keeps its type for every set of models, RAM sizes and    *)
(* bytes: no handler leaves the table of banks, the ROM numbers of the     *)
(* Plus or the position in the lock sequence out of range.                 *)
(***************************************************************************)
THEOREM TypeCorrect == Spec => []TypeOK
<1>1. IInv => TypeOK
  BY DEF IInv, Safe, SnapOK, TypeOK
<1> QED
  BY <1>1, Invariance, PTL

(***************************************************************************)
(* A write always reaches the page the hardware would have written to.     *)
(***************************************************************************)
THEOREM WritesGoWhereTheyShould == Spec => []WriteMapAgrees
<1>1. IInv => WriteMapAgrees
  BY DEF IInv, Safe, MapOK, PagesOK, Written, WriteMapAgrees
<1> QED
  BY <1>1, Invariance, PTL

(***************************************************************************)
(* A read always shows the page the hardware would have shown, once the    *)
(* program has selected an upper ROM.                                      *)
(***************************************************************************)
THEOREM ReadsShowWhatTheyShould == Spec => []ReadMapAgrees
<1>1. IInv => ReadMapAgrees
  <2> SUFFICES ASSUME IInv, cpc.selected, ~cpc.mixed, NEW a \in Slots
               PROVE  cpc.read[a] = IF a = 3 /\ UpperOn(cpc) THEN RomPage(cpc, cpc.upper_ROM)
                                    ELSE IF a = 1 /\ RegisterPage(cpc) THEN Registers
                                    ELSE IF a = LowerSlot(cpc) /\ LowerOn(cpc) THEN LowerPage(cpc)
                                    ELSE HardwareRam(cpc, a)
    BY DEF ReadMapAgrees
  <2>1. cpc.lo = LowerPage(cpc) /\ cpc.exp = RomPage(cpc, cpc.upper_ROM)
    BY DEF IInv, Safe, RomsOK
  <2>2. cpc.read = Shown(cpc, cpc.lo, cpc.exp)
    BY DEF IInv, Safe, MapOK
  <2>3. (cpc.registerPageOn <=> RegisterPage(cpc)) /\ cpc.lower_ROM_bank = LowerSlot(cpc)
    BY DEF IInv, Safe, PagesOK
  <2> QED
    BY <2>1, <2>2, <2>3 DEF Shown
<1> QED
  BY <1>1, Invariance, PTL

(***************************************************************************)
(* No page of the map lies past the RAM of the machine, however it shrank. *)
(***************************************************************************)
THEOREM MapInsideRam == Spec => []RamInMachine
<1>1. ASSUME IInv, NEW a \in Slots, NEW page, page[1] = "ram",
             \/ page \in Roms \cup {Registers}
             \/ page = HardwareRam(cpc, a)
      PROVE  page[2] < 4 * cpc.ram
  <2>1. page = HardwareRam(cpc, a)
    BY <1>1, PagesApart
  <2>2. PICK n \in 0 .. 35 : HardwareRam(cpc, a) = Ram(n) /\ n < 4 * cpc.ram
    BY <1>1, HardwareTyped DEF IInv
  <2> QED
    BY <2>1, <2>2, PagesApart
<1>2. IInv => RamInMachine
  <2> SUFFICES ASSUME IInv, NEW a \in Slots, NEW map \in {cpc.read, cpc.write}, map[a][1] = "ram"
               PROVE  map[a][2] < 4 * cpc.ram
    BY DEF RamInMachine
  <2>1. PICK lower, upper \in Roms : cpc.read = Shown(cpc, lower, upper)
    BY DEF IInv, Safe, MapOK
  <2>2. cpc.write = Written(cpc)
    BY DEF IInv, Safe, MapOK
  <2>3. map[a] \in Roms \cup {Registers} \/ map[a] = HardwareRam(cpc, a)
    BY <2>1, <2>2 DEF Shown, Written
  <2> QED
    BY <1>1, <2>3
<1> QED
  BY <1>2, Invariance, PTL

(***************************************************************************)
(* No machine before the Plus is ever unlocked or shows the registers.     *)
(***************************************************************************)
THEOREM CpcStaysLocked == Spec => []OnlyPlusUnlocks
<1>1. IInv => OnlyPlusUnlocks
  <2> SUFFICES ASSUME IInv, cpc.model # Plus
               PROVE  cpc.locked /\ Registers \notin {cpc.read[1], cpc.write[1]}
    BY DEF OnlyPlusUnlocks
  <2>1. cpc.rmr2 = 0 /\ cpc.locked /\ (cpc.registerPageOn <=> RegisterPage(cpc))
    BY DEF IInv, Safe, PagesOK
  <2>2. ~cpc.registerPageOn
    BY <2>1 DEF RegisterPage
  <2>3. PICK lower, upper \in Roms : cpc.read = Shown(cpc, lower, upper)
    BY DEF IInv, Safe, MapOK
  <2>4. cpc.write = Written(cpc)
    BY DEF IInv, Safe, MapOK
  <2>5. 1 \in Slots
    BY DEF Slots
  <2>6. PICK n \in 0 .. 35 : HardwareRam(cpc, 1) = Ram(n)
    BY <2>5, HardwareTyped DEF IInv
  <2>7. cpc.write[1] = Ram(n) /\ cpc.read[1] \in Roms \cup {Ram(n)}
    BY <2>2, <2>3, <2>4, <2>5, <2>6 DEF Shown, Written
  <2> QED
    BY <2>1, <2>7, PagesApart
<1> QED
  BY <1>1, Invariance, PTL

(***************************************************************************)
(* Nothing unlocks the ASIC but the bytes of the sequence, all of them     *)
(* sent since the last synchronisation.                                    *)
(***************************************************************************)
THEOREM KeyIsNeeded == Spec => UnlockNeedsKey
<1>1. IInv /\ [Next]_vars
        => [cpc.locked /\ ~cpc'.locked => 1 .. (LockSize - 1) \subseteq cpc'.heard]_vars
  BY StepSafe DEF Earned, vars
<1> QED
  BY <1>1, Invariance, PTL DEF Spec, UnlockNeedsKey

(***************************************************************************)
(* Loading a snapshot of a CPC into a machine of the same model brings the *)
(* whole map back, whatever the machine was doing and however much RAM it  *)
(* had.                                                                    *)
(***************************************************************************)
THEOREM SnapshotsRestore == Spec => SnapshotRestoresMap
<1>1. ASSUME IInv, snap.taken, snap.map # <<>>, snap.model = cpc.model, ~cpc.mixed, Load
      PROVE  <<cpc'.read, cpc'.write>> = snap.map
  <2>1. PICK val \in LockBytes \cup {0} : cpc' = Restore(cpc, snap, val)
    BY <1>1 DEF Load
  <2>2. val \in Nat
    BY ByteAssumption
  <2>3. snap \in Snapshot /\ Safe(cpc)
    BY <1>1, SnapTaken DEF IInv
  <2>4. /\ Safe(cpc') /\ cpc'.selected /\ cpc'.model = snap.model /\ cpc'.ram = snap.ram
        /\ ~cpc'.mixed /\ cpc'.ROM_config = snap.ROM_config
        /\ cpc'.RAM_config = IF snap.ram = 1 THEN 0 ELSE snap.RAM_config
        /\ cpc'.upper_ROM = RomNumber(cpc, snap.upper_ROM)
    BY <1>1, <2>1, <2>2, <2>3, RestoreSafe
  <2>5. /\ snap.ram = 1 => snap.RAM_config = 0
        /\ snap.model # Plus /\ snap.map = <<CpcRead(snap), CpcWrite(snap)>>
    BY <1>1 DEF IInv, SnapOK
  <2>6. cpc'.RAM_config = snap.RAM_config /\ cpc'.upper_ROM = snap.upper_ROM
    BY <1>1, <2>4, <2>5 DEF RomNumber
  <2>7. \A a : HardwareRam(cpc', a) = HardwareRam(snap, a)
    BY <2>4, <2>6 DEF HardwareRam
  <2>8. CpcRead(cpc') = CpcRead(snap) /\ CpcWrite(cpc') = CpcWrite(snap)
    BY <2>4, <2>6, <2>7 DEF CpcRead, CpcWrite, UpperOn, LowerOn
  <2>9. cpc'.read = CpcRead(cpc') /\ cpc'.write = CpcWrite(cpc')
    BY <2>4, <2>5, CpcMap
  <2> QED
    BY <2>5, <2>8, <2>9
<1>2. IInv /\ [Next]_vars
        => [snap.taken /\ snap.map # <<>> /\ snap.model = cpc.model /\ ~cpc.mixed /\ Load
              => <<cpc'.read, cpc'.write>> = snap.map]_vars
  BY <1>1
<1> QED
  BY <1>2, Invariance, PTL DEF Spec, SnapshotRestoresMap

=============================================================================
