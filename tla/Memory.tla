------------------------------- MODULE Memory -------------------------------
(***************************************************************************)
(* What the Z80 reads and writes in each quarter of its address space: RAM *)
(* banking, ROM paging, the register page of the Plus machines with the    *)
(* lock in front of it, and everything that replaces the whole map at once *)
(* (reset, a new configuration, snapshots).                                *)
(*                                                                         *)
(* The record cpc holds the paging registers and pointers of cap32.c under *)
(* their names; the map is cpc.read and cpc.write (membank_read and        *)
(* membank_write).  The contents of the pages, the palette and the         *)
(* Multiface (CPC.mf2 is never set) are left out.  RAM is counted in banks *)
(* of 64 KB.  A byte written to the ASIC lock is its position in           *)
(* asic_lock_data, from 1, or 0, or any larger number for another byte.    *)
(*                                                                         *)
(* The fields selected and mixed are history: the program has selected an  *)
(* upper ROM since the reset; a snapshot has changed the model since the   *)
(* machine was built.                                                      *)
(***************************************************************************)
EXTENDS Integers, Sequences

CONSTANTS
  Models,      \* the models on offer, numbered as CPC.model is
  RamSizes,    \* RAM in banks of 64 KB
  ModeBytes, RamBytes, RomBytes, LockBytes,  \* what the program writes to the ports, without
               \* the two bits that tell the mode register and RAM from the others
  SystemCartridge,  \* no cartridge file was loaded: the built-in one is used
  LockSize     \* 15, ASIC_LOCK_SIZE

Plus == 3
ASSUME ModelAssumption == Models \subseteq 0 .. Plus
ASSUME RamAssumption == RamSizes \subseteq Nat \ {0}
ASSUME ByteAssumption == ModeBytes \cup RamBytes \cup RomBytes \cup LockBytes \subseteq Nat
ASSUME LockAssumption == LockSize \in Nat /\ LockSize >= 2 /\ SystemCartridge \in BOOLEAN

VARIABLES cpc,   \* the machine
          snap   \* the snapshot the front end holds
vars == <<cpc, snap>>

Slots == 0 .. 3
OS == <<"os", 0>>                \* pbROM, the first 16 KB
BASIC == <<"basic", 0>>          \* pbROMhi
AMSDOS == <<"amsdos", 0>>
Registers == <<"registers", 0>>  \* pbRegisterPage
Cartridge(n) == <<"cartridge", n>>
Ram(n) == <<"ram", n>>           \* 16 KB of pbRAM

Bit(v, weight) == (v \div weight) % 2 = 1

(***************************************************************************)
(* The map                                                                 *)
(***************************************************************************)
Rows == << <<0, 1, 2, 3>>, <<0, 1, 2, 7>>, <<4, 5, 6, 7>>, <<0, 3, 2, 7>>,
           <<0, 4, 2, 3>>, <<0, 5, 2, 3>>, <<0, 6, 2, 3>>, <<0, 7, 2, 3>> >>
\* membank_config; cpc.table is the bank it was last filled for.
ga_init_banking(bank) ==
  [c \in 0 .. 7 |-> [a \in Slots |->
     LET r == Rows[c + 1][a + 1] IN Ram(IF r < 4 THEN r ELSE 4 * (bank + 1) + r - 4)]]

WantedBank_Above(s) ==                                                 \* mutant
  LET bank == (s.RAM_config \div 8) % 8 IN IF bank + 1 > s.ram THEN 0 ELSE bank
WantedBank(s) ==
  LET bank == (s.RAM_config \div 8) % 8 IN IF bank + 2 > s.ram THEN 0 ELSE bank

LowerOn(s) == ~Bit(s.ROM_config, 4)
UpperOn(s) == ~Bit(s.ROM_config, 8)

\* The banks of RAM, then what is paged in over them, in the code's order.
Remap(s) ==
  LET ram == ga_init_banking(s.table)[s.RAM_config % 8]
      page == s.model = Plus /\ s.registerPageOn
      lower == IF LowerOn(s) THEN [ram EXCEPT ![s.lower_ROM_bank] = s.lo] ELSE ram
      registers == IF page THEN [lower EXCEPT ![1] = Registers] ELSE lower
  IN [s EXCEPT !.write = IF page THEN [ram EXCEPT ![1] = Registers] ELSE ram,
               !.read = IF UpperOn(s) THEN [registers EXCEPT ![3] = s.exp] ELSE registers]

Rebank_Kept(s, bank) == [s EXCEPT !.RAM_bank = bank]                   \* mutant
Rebank(s, bank) ==
  IF bank = s.RAM_bank THEN s ELSE [s EXCEPT !.RAM_bank = bank, !.table = bank]

ga_memory_manager(s) ==
  LET t == IF s.ram = 1 THEN [s EXCEPT !.RAM_config = 0] ELSE s
  IN Remap(Rebank(t, IF s.ram = 1 THEN 0 ELSE WantedBank(t)))

(***************************************************************************)
(* The ports, the machine before and after the write                       *)
(***************************************************************************)
\* The second paging register of the Plus, behind the lock, shares the port.
ModePort(s, val) ==
  IF ~s.locked /\ Bit(val, 32)
  THEN LET bank == (val \div 8) % 4
       IN ga_memory_manager([s EXCEPT !.rmr2 = val, !.registerPageOn = bank = 3,
            !.lower_ROM_bank = IF bank = 3 THEN 0 ELSE bank, !.lo = Cartridge(val % 8)])
  ELSE ga_memory_manager([s EXCEPT !.ROM_config = val])

RamPort(s, val) == ga_memory_manager([s EXCEPT !.RAM_config = val])

\* The ROM number kept, and the page it selects.
RomNumber(s, val) ==
  IF s.model # Plus THEN val ELSE IF val = 7 THEN 3 ELSE IF val >= 128 THEN val % 32 ELSE 1
RomPage(s, number) ==
  IF s.model = Plus THEN Cartridge(number) ELSE IF number = 7 /\ s.amsdos THEN AMSDOS ELSE BASIC

RomPort_Always(s, val) ==                                              \* mutant
  LET n == RomNumber(s, val)
  IN [s EXCEPT !.upper_ROM = n, !.exp = RomPage(s, n), !.selected = TRUE, !.read[3] = RomPage(s, n)]
RomPort(s, val) ==
  LET n == RomNumber(s, val)
  IN [s EXCEPT !.upper_ROM = n, !.exp = RomPage(s, n), !.selected = TRUE,
               !.read[3] = IF UpperOn(s) THEN RomPage(s, n) ELSE @]

\* One byte for the lock.  The history field heard holds the bytes of the sequence since it
\* was last synchronised.  At LockSize and beyond the code compares with what follows the
\* table: the outcome may be either, the position is not told apart.
Synchronised_Never(s, val) == [s EXCEPT !.heard = IF val = 0 /\ s.prev # 0 THEN {} ELSE @]  \* mutant
Synchronised(s, val) ==
  IF val = 0 /\ s.prev # 0 THEN [s EXCEPT !.pos = 0, !.heard = {}] ELSE s

asic_poke_lock_sequence(s, val, beyond) ==
  LET t == [Synchronised(s, val) EXCEPT !.prev = val, !.heard = @ \cup ({val} \cap 1 .. LockSize - 1)]
      last == LockSize - 1
  IN CASE t.pos >= LockSize -> IF beyond THEN [t EXCEPT !.locked = FALSE] ELSE t
       [] t.pos = last -> [t EXCEPT !.pos = LockSize, !.locked = FALSE]
       [] t.pos < last /\ val = t.pos + 1 ->
            [t EXCEPT !.pos = @ + 1, !.locked = @ \/ t.pos + 1 = last]
       [] OTHER -> t

RegisterPort_AnyModel(s, val, beyond) == asic_poke_lock_sequence(s, val, beyond)  \* mutant
RegisterPort(s, val, beyond) ==
  IF s.model = Plus THEN asic_poke_lock_sequence(s, val, beyond) ELSE s

(***************************************************************************)
(* Reset, configuration and snapshots                                      *)
(***************************************************************************)
emulator_reset(s) ==
  LET lo == IF s.model = Plus THEN Cartridge(0) ELSE s.lo
      ram == ga_init_banking(0)[0]
  IN [s EXCEPT !.lo = lo, !.locked = TRUE, !.pos = 0, !.prev = 0, !.heard = {}, !.rmr2 = 0,
        !.ROM_config = 0, !.RAM_config = 0, !.RAM_bank = 0, !.upper_ROM = 0,
        !.lower_ROM_bank = 0, !.registerPageOn = FALSE, !.table = 0,
        !.write = ram, !.read = [ram EXCEPT ![0] = lo, ![3] = BASIC],
        !.selected = FALSE]

emulator_select_ROM(s) ==
  [s EXCEPT !.amsdos = @ \/ s.model \in {1, 2},
            !.lo = IF s.model = Plus /\ SystemCartridge THEN Cartridge(0) ELSE @]

\* The machine of a front end that picks a model and a RAM size: at least 128 KB from the
\* 6128 on.
Build(m, r) ==
  LET ram == ga_init_banking(0)[0]
  IN emulator_reset(emulator_select_ROM(
       [model |-> m, ram |-> IF m >= 2 /\ r < 2 THEN 2 ELSE r, ROM_config |-> 0, RAM_config |-> 0,
        RAM_bank |-> 0, upper_ROM |-> 0, lower_ROM_bank |-> 0, registerPageOn |-> FALSE,
        table |-> 0, lo |-> OS, exp |-> BASIC, amsdos |-> FALSE, locked |-> TRUE, pos |-> 0,
        prev |-> 0, heard |-> {}, rmr2 |-> 0, read |-> ram, write |-> ram,
        selected |-> FALSE, mixed |-> FALSE]))

\* What snapshot_save_mem keeps of the paging; as history, the map of a CPC whose ROMs are
\* the ones its registers name.
NoSnapshot == [taken |-> FALSE]
snapshot_save_mem(s) ==
  [taken |-> TRUE, model |-> s.model, ram |-> s.ram, ROM_config |-> s.ROM_config,
   RAM_config |-> s.RAM_config, upper_ROM |-> s.upper_ROM,
   map |-> IF s.selected /\ ~s.mixed /\ s.model # Plus THEN <<s.read, s.write>> ELSE <<>>]

\* The ports are replayed on the machine as it is, its lock just reset; only then the model
\* changes.
Replay_NoROM(s, h, val) ==                                     \* mutant
  RegisterPort(RamPort(ModePort(s, h.ROM_config), h.RAM_config), val, FALSE)
Replay(s, h, val) ==
  RomPort(RegisterPort(RamPort(ModePort(s, h.ROM_config), h.RAM_config), val, FALSE),
          h.upper_ROM)
Restore(s, h, val) ==
  LET t == Replay(emulator_reset([s EXCEPT !.ram = h.ram]), h, val)
  IN IF h.model = s.model THEN t
     ELSE emulator_select_ROM([t EXCEPT !.model = h.model, !.mixed = TRUE])

(***************************************************************************)
(* The specification                                                       *)
(***************************************************************************)
Init == /\ \E m \in Models, r \in RamSizes : cpc = Build(m, r)
        /\ snap = NoSnapshot

WriteMode == /\ \E val \in ModeBytes : cpc' = ModePort(cpc, val)
             /\ UNCHANGED snap
WriteRam == /\ \E val \in RamBytes : cpc' = RamPort(cpc, val)
            /\ UNCHANGED snap
SelectRom == /\ \E val \in RomBytes : cpc' = RomPort(cpc, val)
             /\ UNCHANGED snap
SelectRegister == /\ \E val \in LockBytes, beyond \in BOOLEAN :
                       /\ beyond => cpc.pos = LockSize
                       /\ cpc' = RegisterPort(cpc, val, beyond)
                  /\ UNCHANGED snap

Reset == cpc' = emulator_reset(cpc) /\ UNCHANGED snap
Reconfigure == /\ \E m \in Models, r \in RamSizes : cpc' = Build(m, r)
               /\ UNCHANGED snap

Save == snap' = snapshot_save_mem(cpc) /\ UNCHANGED cpc
\* The selected CRTC register is any byte.
Load == /\ snap.taken
        /\ \E val \in (IF cpc.model = Plus THEN LockBytes ELSE {0}) : cpc' = Restore(cpc, snap, val)
        /\ UNCHANGED snap
\* The file is too short for its memory dump; the RAM size is changed already, unless not
\* even its bytes are as many as the RAM has kilobytes.
LoadTruncated == /\ snap.taken
                 /\ \E r \in {cpc.ram, snap.ram} : cpc' = emulator_reset([cpc EXCEPT !.ram = r])
                 /\ UNCHANGED snap
\* The file names a model the emulator does not know.
LoadUnknown ==
  /\ snap.taken
  /\ cpc' = emulator_reset(Restore(cpc, [snap EXCEPT !.model = cpc.model], 0))
  /\ UNCHANGED snap

Next == \/ WriteMode \/ WriteRam \/ SelectRom \/ SelectRegister
        \/ Reset \/ Reconfigure \/ Save \/ Load \/ LoadTruncated \/ LoadUnknown
Spec == Init /\ [][Next]_vars

(***************************************************************************)
(* Properties                                                              *)
(***************************************************************************)
Roms == {OS, BASIC, AMSDOS} \cup ({"cartridge"} \X (0 .. 31))
Pages == Roms \cup {Registers} \cup ({"ram"} \X (0 .. 35))
Map == [Slots -> Pages]

Machine ==
  [model : 0 .. Plus, ram : Nat \ {0}, ROM_config : Nat, RAM_config : Nat, RAM_bank : 0 .. 7,
   upper_ROM : Nat, lower_ROM_bank : 0 .. 2, registerPageOn : BOOLEAN, table : 0 .. 7, lo : Roms,
   exp : Roms, amsdos : BOOLEAN, locked : BOOLEAN, pos : 0 .. LockSize, prev : Nat,
   heard : SUBSET (1 .. LockSize - 1), rmr2 : Nat, read : Map, write : Map,
   selected : BOOLEAN, mixed : BOOLEAN]
Snapshot ==
  [taken : {TRUE}, model : 0 .. Plus, ram : Nat \ {0}, ROM_config : Nat, RAM_config : Nat,
   upper_ROM : Nat, map : {<<>>} \cup (Map \X Map)]
TypeOK == cpc \in Machine /\ snap \in {NoSnapshot} \cup Snapshot

(***************************************************************************)
(* What the hardware maps, from what the program wrote: expansion RAM by   *)
(* the rule of the banking chip, and ROMs by their numbers.                *)
(***************************************************************************)
HardwareRam(s, a) ==
  LET c == s.RAM_config % 8
      bank == (s.RAM_config \div 8) % 8
      expansion == 4 + 4 * (IF bank + 2 > s.ram THEN 0 ELSE bank)
  IN IF s.ram = 1 THEN Ram(a)
     ELSE IF c = 2 \/ (a = 3 /\ c \in {1, 3}) THEN Ram(expansion + a)
     ELSE IF a = 1 /\ c >= 4 THEN Ram(expansion + c - 4)
     ELSE IF a = 1 /\ c = 3 THEN Ram(3)
     ELSE Ram(a)
RegisterPage(s) == (s.rmr2 \div 8) % 4 = 3
LowerSlot(s) == IF RegisterPage(s) THEN 0 ELSE (s.rmr2 \div 8) % 4
LowerPage(s) == IF s.model = Plus THEN Cartridge(s.rmr2 % 8) ELSE OS

(***************************************************************************)
(* Every write reaches the bank of RAM the hardware would have written to, *)
(* or the register page, whatever resets, failed loads and changes of the  *)
(* RAM size came before: the table of banks and the map, which are rebuilt *)
(* only by some of the handlers, are never behind the registers.           *)
(***************************************************************************)
WriteMapAgrees ==
  \A a \in Slots :
    cpc.write[a] = IF a = 1 /\ RegisterPage(cpc) THEN Registers ELSE HardwareRam(cpc, a)

(***************************************************************************)
(* Every read goes where the hardware's would: the upper ROM hides the     *)
(* register page, it hides the lower ROM, and that the RAM; and the ROMs   *)
(* are those the program named, though the code keeps pointers to them.    *)
(* Not claimed while no ROM is selected (a reset forgets the number, not   *)
(* the pointer), nor on a machine whose model a snapshot has changed.      *)
(***************************************************************************)
ReadMapAgrees ==
  cpc.selected /\ ~cpc.mixed =>
    \A a \in Slots :
      cpc.read[a] = IF a = 3 /\ UpperOn(cpc) THEN RomPage(cpc, cpc.upper_ROM)
                    ELSE IF a = 1 /\ RegisterPage(cpc) THEN Registers
                    ELSE IF a = LowerSlot(cpc) /\ LowerOn(cpc) THEN LowerPage(cpc)
                    ELSE HardwareRam(cpc, a)

(***************************************************************************)
(* No quarter of the map is past the RAM of the machine, also while the    *)
(* RAM shrinks under a mapped bank (ga_memory_manager's test of the size). *)
(***************************************************************************)
RamInMachine ==
  \A a \in Slots : \A map \in {cpc.read, cpc.write} :
    map[a][1] = "ram" => map[a][2] < 4 * cpc.ram

(***************************************************************************)
(* The machines before the Plus never leave the locked state, whatever     *)
(* they write and whichever machine was emulated before.                   *)
(***************************************************************************)
OnlyPlusUnlocks == cpc.model # Plus => cpc.locked /\ Registers \notin {cpc.read[1], cpc.write[1]}

(***************************************************************************)
(* The ASIC unlocks only for a program that has sent every byte of the     *)
(* sequence but the last since it last synchronised, with the locking, the *)
(* resets and the reads past the end of the table that come between        *)
(* (asic_poke_lock_sequence).                                              *)
(***************************************************************************)
UnlockNeedsKey ==
  [][cpc.locked /\ ~cpc'.locked => 1 .. (LockSize - 1) \subseteq cpc'.heard]_vars

(***************************************************************************)
(* A snapshot of a CPC, loaded into the same machine, brings the whole map *)
(* back, though only the registers are saved and the load replays them     *)
(* through the ports.  (The Plus is RomSurvives.)                          *)
(***************************************************************************)
SnapshotRestoresMap ==
  [][snap.taken /\ snap.map # <<>> /\ snap.model = cpc.model /\ ~cpc.mixed /\ Load
       => <<cpc'.read, cpc'.write>> = snap.map]_vars

(***************************************************************************)
(* The "upper ROM number" of a snapshot (slots.c:203) is the ROM that is   *)
(* selected after the load (0 is also "none was selected").  The code does *)
(* not keep it on a Plus, whose number is a page that the replay selects   *)
(* anew.                                                                   *)
(***************************************************************************)
RomSurvives == [][Load /\ snap.upper_ROM # 0 => cpc'.upper_ROM = snap.upper_ROM]_vars

=============================================================================
