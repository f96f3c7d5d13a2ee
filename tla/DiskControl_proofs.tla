------------------------- MODULE DiskControl_proofs -------------------------
(***************************************************************************)
(* Proofs about DiskControl for all values of its constants.               *)
(***************************************************************************)
EXTENDS DiskControl, TLAPS

(***************************************************************************)
(* The inductive invariant.                                                *)
(***************************************************************************)
\* Nothing stays in a device when the core is unloaded.
OffOK == status = "off" => drive = NoDisk /\ tape = NULL

\* savdif_name belongs to the disk in the drive; what is altered is a disk, and it differs
\* from its file, and so does a disk whose changes have been saved.
DriveOK == /\ drive.file # NULL => savdif = drive.file
           /\ drive.altered => drive.file # NULL /\ drive.changed
           /\ drive.file \in diffs => drive.changed

\* With the tray closed the devices are empty, or the selected image is one of the list and
\* the unit names its device; the other device is empty.
ClosedOK ==
  status = "on" /\ ~eject_state /\ ~early =>
    \/ drive.file = NULL /\ tape = NULL
    \/ /\ index < count /\ files[index] # NULL
       /\ unit = "TAPE" <=> files[index] \in Tapes
       /\ IF files[index] \in Tapes THEN drive.file = NULL ELSE tape = NULL

SavedOK ==
  status \in {"on", "off"} /\ ~early =>
    \A f \in written : f \in diffs \/ (drive.file = f /\ drive.altered)

IInv == /\ TypeOK /\ OffOK /\ DriveOK
        /\ OpenIsEmpty /\ ClosedOK /\ ClosedHoldsSelection /\ SavedOK

(***************************************************************************)
(* Facts about files and lists.                                            *)
(***************************************************************************)
LEMMA NullIsNoFile == NULL \notin Disks /\ NULL \notin Tapes /\ NULL \notin Files
BY ListAssumption DEF Files

LEMMA KindsApart == ASSUME NEW f \in Files
                    PROVE  /\ f \in Disks => f \notin Tapes /\ f \notin Carts
                           /\ f \in Tapes => f \notin Carts
BY ListAssumption DEF Files

LEMMA UnitsTyped ==
  ASSUME NEW f \in Files
  PROVE  /\ FirstUnit(f) \in {"NONE", "FLOPPY", "TAPE", "MEM"}
         /\ FirstUnit(f) = "TAPE" <=> f \in Tapes
         /\ FirstUnit(f) = "MEM" => f \in Carts
         /\ f \in Disks => FirstUnit(f) = "FLOPPY"
         /\ FirstUnit(f) \in {"TAPE", "FLOPPY"} \/ f \in Carts
<1>1. CASE f \in Tapes
  BY <1>1, KindsApart DEF FirstUnit
<1>2. CASE f \in Carts
  BY <1>2, KindsApart DEF FirstUnit
<1>3. CASE f \notin Tapes /\ f \notin Carts
  BY <1>3 DEF FirstUnit
<1> QED
  BY <1>1, <1>2, <1>3

LEMMA ImageUnitTyped ==
  ASSUME NEW f
  PROVE  ImageUnit(f) \in {"FLOPPY", "TAPE"} /\ (ImageUnit(f) = "TAPE" <=> f \in Tapes)
BY DEF ImageUnit

LEMMA MinOfTwo ==
  ASSUME NEW a \in Nat, NEW b \in Nat
  PROVE  Min({a, b}) = IF a <= b THEN a ELSE b
<1> DEFINE m == IF a <= b THEN a ELSE b
<1>1. m \in {a, b} /\ \A y \in {a, b} : m <= y
  OBVIOUS
<1>2. \A x \in {a, b} : (\A y \in {a, b} : x <= y) => x = m
  OBVIOUS
<1> QED
  BY <1>1, <1>2 DEF Min

LEMMA FillTyped ==
  ASSUME NEW names \in Seq(Files) \ {<<>>}, Fill(names)
  PROVE  /\ files' \in [Slots -> Files \cup {NULL}] /\ count' \in 0 .. MaxSize /\ index' = 0
         /\ 0 \in Slots /\ 0 < count' /\ files'[0] = names[1] /\ names[1] \in Files
         /\ unit' = FirstUnit(names[1]) /\ eject_state' = FALSE
<1>1. MaxSize \in Nat /\ 0 < MaxSize /\ Len(names) \in Nat /\ 0 < Len(names)
  BY ListAssumption
<1>2. count' \in 0 .. MaxSize /\ 0 < count'
  BY <1>1, MinOfTwo DEF Fill
<1>3. \A k \in Slots : k < Len(names) => names[k + 1] \in Files
  BY <1>1 DEF Slots
<1> QED
  BY <1>1, <1>2, <1>3 DEF Fill, Slots

(***************************************************************************)
(* The devices.                                                            *)
(***************************************************************************)
LEMMA Attached ==
  ASSUME TypeOK, NEW f \in Files, retro_attach_disk(f)
  PROVE  /\ drive' \in [file : Disks \cup {NULL}, changed : BOOLEAN, altered : BOOLEAN]
         /\ savdif' \in Files \cup {NULL} /\ tape' = tape /\ diffs' = diffs
         /\ drive'.altered = FALSE
         /\ drive'.file = IF f \in Disks \ Damaged THEN f ELSE NULL
         /\ DriveOK'
<1>1. CASE f \in Disks \ Damaged
  <2>1. drive' = [file |-> f, changed |-> f \in diffs, altered |-> FALSE]
    BY <1>1 DEF retro_attach_disk
  <2>2. drive'.file = f /\ drive'.altered = FALSE /\ drive'.changed = (f \in diffs)
    BY <2>1
  <2>3. drive' \in [file : Disks \cup {NULL}, changed : BOOLEAN, altered : BOOLEAN]
    <3>1. (f \in diffs) \in BOOLEAN
      OBVIOUS
    <3> QED
      BY <1>1, <2>1, <3>1
  <2>4. savdif' = f /\ tape' = tape /\ diffs' = diffs
    BY DEF retro_attach_disk
  <2> QED
    BY <1>1, <2>2, <2>3, <2>4 DEF DriveOK
<1>2. CASE f \notin Disks \ Damaged
  BY <1>2, NullIsNoFile DEF retro_attach_disk, DriveOK, NoDisk, TypeOK
<1> QED
  BY <1>1, <1>2

LEMMA Taped ==
  ASSUME NEW f, tape_insert(f)
  PROVE  /\ tape' \in Tapes \cup {NULL}
         /\ f \in Tapes \ Damaged => tape' = f
         /\ drive' = drive /\ savdif' = savdif /\ diffs' = diffs
BY DEF tape_insert

(***************************************************************************)
(* Loading content into an empty core.                                     *)
(***************************************************************************)
LEMMA LoadListOK ==
  ASSUME IInv, NEW names \in Seq(Files) \ {<<>>}, NEW f \in Files, f = names[1],
         status = "off", status' = "on", Fill(names), UNCHANGED <<written, early>>,
         \/ FirstUnit(f) = "TAPE" /\ tape_insert(f)
         \/ FirstUnit(f) = "FLOPPY" /\ retro_attach_disk(f)
         \/ FirstUnit(f) \notin {"TAPE", "FLOPPY"} /\ UNCHANGED devices
  PROVE  IInv'
<1> USE DEF IInv
<1>1. /\ files' \in [Slots -> Files \cup {NULL}] /\ count' \in 0 .. MaxSize /\ index' = 0
      /\ 0 \in Slots /\ 0 < count' /\ files'[0] = f
      /\ unit' = FirstUnit(f) /\ eject_state' = FALSE
  BY FillTyped
<1>2. drive = NoDisk /\ tape = NULL /\ drive.file = NULL /\ drive.altered = FALSE
  BY DEF OffOK, NoDisk
<1>3. f # NULL
  BY NullIsNoFile
<1>4. CASE FirstUnit(f) = "TAPE" /\ tape_insert(f)
  <2>1. /\ tape' \in Tapes \cup {NULL} /\ (f \in Tapes \ Damaged => tape' = f)
        /\ drive' = drive /\ savdif' = savdif /\ diffs' = diffs
    BY <1>4, Taped
  <2>2. f \in Tapes /\ f \notin Disks
    BY <1>4, UnitsTyped, KindsApart
  <2>3. TypeOK'
    BY <1>1, <1>4, <2>1, UnitsTyped DEF TypeOK
  <2>4. DriveOK' /\ OffOK' /\ OpenIsEmpty'
    BY <1>1, <2>1 DEF DriveOK, OffOK, OpenIsEmpty
  <2>5. ClosedOK'
    BY <1>1, <1>2, <1>3, <1>4, <2>1, <2>2 DEF ClosedOK
  <2>6. ClosedHoldsSelection'
    BY <1>1, <1>2, <2>1, <2>2 DEF ClosedHoldsSelection, Holds
  <2>7. SavedOK'
    BY <1>2, <2>1 DEF SavedOK
  <2> QED
    BY <2>3, <2>4, <2>5, <2>6, <2>7
<1>5. CASE FirstUnit(f) = "FLOPPY" /\ retro_attach_disk(f)
  <2>1. /\ drive' \in [file : Disks \cup {NULL}, changed : BOOLEAN, altered : BOOLEAN]
        /\ savdif' \in Files \cup {NULL} /\ tape' = tape /\ diffs' = diffs
        /\ drive'.file = IF f \in Disks \ Damaged THEN f ELSE NULL
        /\ DriveOK'
    BY <1>5, Attached
  <2>2. f \notin Tapes
    BY <1>5, UnitsTyped
  <2>3. TypeOK'
    BY <1>1, <1>5, <2>1 DEF TypeOK
  <2>4. OffOK' /\ OpenIsEmpty'
    BY <1>1 DEF OffOK, OpenIsEmpty
  <2>5. ClosedOK'
    BY <1>1, <1>2, <1>3, <1>5, <2>1, <2>2 DEF ClosedOK
  <2>6. ClosedHoldsSelection'
    BY <1>1, <1>2, <2>1, <2>2 DEF ClosedHoldsSelection, Holds
  <2>7. SavedOK'
    BY <1>2, <2>1 DEF SavedOK
  <2> QED
    BY <2>1, <2>3, <2>4, <2>5, <2>6, <2>7
<1>6. CASE FirstUnit(f) \notin {"TAPE", "FLOPPY"} /\ UNCHANGED devices
  <2>1. f \in Carts /\ f \notin Tapes /\ f \notin Disks
    BY <1>6, UnitsTyped, KindsApart
  <2>2. drive' = drive /\ savdif' = savdif /\ tape' = tape /\ diffs' = diffs
    BY <1>6 DEF devices
  <2>3. TypeOK'
    BY <1>1, <2>2, UnitsTyped DEF TypeOK
  <2>4. DriveOK' /\ OffOK' /\ OpenIsEmpty' /\ ClosedOK'
    BY <1>1, <1>2, <2>2 DEF DriveOK, OffOK, OpenIsEmpty, ClosedOK
  <2>5. ClosedHoldsSelection'
    BY <1>1, <2>1 DEF ClosedHoldsSelection, Holds
  <2>6. SavedOK'
    BY <1>2, <2>2 DEF SavedOK
  <2> QED
    BY <2>3, <2>4, <2>5, <2>6
<1> QED
  BY <1>4, <1>5, <1>6

LEMMA LoadOK == IInv /\ Load => IInv'
<1> SUFFICES ASSUME IInv, Load PROVE IInv'
  OBVIOUS
<1>1. ASSUME NEW names \in Playlists, LoadPlaylist(names) PROVE IInv'
  <2>1. names \in Seq(Files) \ {<<>>}
    BY ListAssumption
  <2>2. names[1] \in Files
    BY <1>1, <2>1, FillTyped DEF LoadPlaylist
  <2>3. \/ FirstUnit(names[1]) = "TAPE" /\ tape_insert(names[1])
        \/ FirstUnit(names[1]) = "FLOPPY" /\ retro_attach_disk(names[1])
        \/ FirstUnit(names[1]) \notin {"TAPE", "FLOPPY"} /\ UNCHANGED devices
    <3>1. CASE FirstUnit(names[1]) = "TAPE"
      BY <1>1, <3>1 DEF LoadPlaylist
    <3>2. CASE FirstUnit(names[1]) = "FLOPPY"
      BY <1>1, <3>2 DEF LoadPlaylist
    <3>3. CASE FirstUnit(names[1]) \notin {"TAPE", "FLOPPY"}
      BY <1>1, <3>3 DEF LoadPlaylist
    <3> QED
      BY <3>1, <3>2, <3>3
  <2> QED
    BY <1>1, <2>1, <2>2, <2>3, LoadListOK DEF LoadPlaylist
<1>2. ASSUME NEW f \in Disks, LoadDisk(f) PROVE IInv'
  <2>1. f \in Files /\ FirstUnit(f) = "FLOPPY"
    BY UnitsTyped DEF Files
  <2>2. <<f>> \in Seq(Files) \ {<<>>} /\ <<f>>[1] = f
    BY <2>1
  <2> QED
    BY <1>2, <2>1, <2>2, LoadListOK DEF LoadDisk
<1>3. ASSUME NEW f \in Tapes, LoadTape(f) PROVE IInv'
  <2>1. /\ status = "off" /\ status' = "on" /\ early' = TRUE /\ written' = written
        /\ files' = files /\ count' = count /\ index' = index /\ unit' = unit
        /\ eject_state' = eject_state
    BY <1>3 DEF LoadTape, list
  <2>2. /\ tape' \in Tapes \cup {NULL}
        /\ drive' = drive /\ savdif' = savdif /\ diffs' = diffs
    BY <1>3, Taped DEF LoadTape
  <2>3. TypeOK'
    BY <2>1, <2>2 DEF IInv, TypeOK
  <2> QED
    BY <2>1, <2>2, <2>3
       DEF IInv, OffOK, DriveOK, OpenIsEmpty, ClosedOK, ClosedHoldsSelection, SavedOK
<1> QED
  BY <1>1, <1>2, <1>3 DEF Load

LEMMA UnloadOK == IInv /\ Unload => IInv'
<1> SUFFICES ASSUME IInv, Unload PROVE IInv'
  OBVIOUS
<1>1. /\ status = "on" /\ status' = "off" /\ files' = [k \in Slots |-> NULL] /\ count' = 0
      /\ index' = 0 /\ unit' = "NONE" /\ eject_state' = TRUE
      /\ diffs' = (IF drive.altered THEN diffs \cup {savdif} ELSE diffs)
      /\ drive' = NoDisk /\ tape' = NULL /\ savdif' = savdif /\ written' = written
      /\ early' = early
  BY DEF Unload, dc_reset
<1>2. drive'.file = NULL /\ drive'.altered = FALSE
      /\ drive' \in [file : Disks \cup {NULL}, changed : BOOLEAN, altered : BOOLEAN]
  BY <1>1 DEF NoDisk
<1>3. drive.altered => savdif = drive.file /\ savdif \in Disks
  BY DEF IInv, DriveOK, TypeOK
<1>4. diffs' \subseteq Disks
  BY <1>1, <1>3 DEF IInv, TypeOK
<1>5. TypeOK'
  BY <1>1, <1>2, <1>4, ListAssumption DEF IInv, TypeOK, Slots
<1>6. DriveOK'
  BY <1>2, <1>4, NullIsNoFile DEF DriveOK
<1>7. SavedOK'
  BY <1>1, <1>3 DEF IInv, SavedOK
<1> QED
  BY <1>1, <1>5, <1>6, <1>7
     DEF IInv, OffOK, OpenIsEmpty, ClosedOK, ClosedHoldsSelection

(***************************************************************************)
(* The calls of the interface.                                             *)
(***************************************************************************)
DevicesTyped ==
  /\ drive \in [file : Disks \cup {NULL}, changed : BOOLEAN, altered : BOOLEAN]
  /\ savdif \in Files \cup {NULL} /\ tape \in Tapes \cup {NULL} /\ diffs \subseteq Disks

LEMMA UnitTyped ==
  ASSUME TypeOK
  PROVE  /\ NewUnit \in {"NONE", "FLOPPY", "TAPE", "MEM"}
         /\ index < count => NewUnit = ImageUnit(files[index])
BY ImageUnitTyped DEF TypeOK, NewUnit

LEMMA InsertOK ==
  ASSUME TypeOK, DriveOK, NEW u, NEW f \in Files \cup {NULL}, retro_insert_image(u, f)
  PROVE  DevicesTyped' /\ DriveOK' /\ status' \in {status, "crashed"}
<1>1. CASE tape_insert(f) /\ UNCHANGED status
  BY <1>1, Taped DEF DevicesTyped, DriveOK, TypeOK
<1>2. CASE f # NULL /\ retro_attach_disk(f) /\ UNCHANGED status
  <2>1. f \in Files
    BY <1>2
  <2>2. /\ drive' \in [file : Disks \cup {NULL}, changed : BOOLEAN, altered : BOOLEAN]
        /\ savdif' \in Files \cup {NULL} /\ tape' = tape /\ diffs' = diffs /\ DriveOK'
    BY <1>2, <2>1, Attached
  <2> QED
    BY <1>2, <2>2 DEF DevicesTyped, TypeOK
<1>3. CASE UNCHANGED devices /\ status' \in {status, "crashed"}
  BY <1>3 DEF devices, DevicesTyped, DriveOK, TypeOK
<1> QED
  BY <1>1, <1>2, <1>3 DEF retro_insert_image

\* With the tray open there is nothing to say but that the devices stay empty.
LEMMA OpenStep ==
  ASSUME IInv, TypeOK', DriveOK', status = "on", status' # "off",
         eject_state = TRUE, eject_state' = TRUE, written' = written,
         ~early' => ~early /\ UNCHANGED devices
  PROVE  IInv'
<1>1. OffOK' /\ ClosedOK' /\ ClosedHoldsSelection'
  BY DEF OffOK, ClosedOK, ClosedHoldsSelection
<1>2. OpenIsEmpty' /\ SavedOK'
  BY DEF IInv, devices, OpenIsEmpty, SavedOK
<1> QED
  BY <1>1, <1>2 DEF IInv

LEMMA OpenOK ==
  ASSUME IInv, status = "on", retro_set_eject_state(TRUE), eject_state = FALSE
  PROVE  IInv'
<1>1. /\ unit' = NewUnit /\ eject_state' = TRUE /\ OpenTray /\ status' = status
      /\ files' = files /\ count' = count /\ index' = index
      /\ written' = written /\ early' = early
  BY DEF retro_set_eject_state
<1> DEFINE there == index <= count /\ files[index] # NULL
<1>2. CASE there /\ OldUnit = "TAPE"
  <2>1. tape' = NULL /\ drive' = drive /\ savdif' = savdif /\ diffs' = diffs
    BY <1>1, <1>2 DEF OpenTray, EjectsTape, tape_eject
  <2>2. index < count /\ unit = "TAPE"
    BY <1>2 DEF OldUnit
  <2>3. ~early => drive.file = NULL
    BY <2>2 DEF IInv, ClosedOK
  <2>4. TypeOK'
    BY <1>1, <2>1, UnitTyped DEF IInv, TypeOK
  <2> QED
    BY <1>1, <2>1, <2>3, <2>4
       DEF IInv, OffOK, DriveOK, OpenIsEmpty, ClosedOK, ClosedHoldsSelection, SavedOK
<1>3. CASE there /\ OldUnit # "TAPE"
  <2>1. /\ diffs' = (IF drive.altered THEN diffs \cup {savdif} ELSE diffs)
        /\ drive' = NoDisk /\ savdif' = savdif /\ tape' = tape
    BY <1>1, <1>3 DEF OpenTray, EjectsTape, detach_disk
  <2>2. index < count => unit # "TAPE"
    BY <1>3 DEF OldUnit
  <2>3. ~early => tape = NULL
    BY <2>2 DEF IInv, ClosedOK
  <2>4. drive'.file = NULL /\ drive'.altered = FALSE
        /\ drive' \in [file : Disks \cup {NULL}, changed : BOOLEAN, altered : BOOLEAN]
    BY <2>1 DEF NoDisk
  <2>5. drive.altered => savdif = drive.file /\ savdif \in Disks
    BY DEF IInv, DriveOK, TypeOK
  <2>6. diffs' \subseteq Disks
    BY <2>1, <2>5 DEF IInv, TypeOK
  <2>7. TypeOK'
    BY <1>1, <2>1, <2>4, <2>6, UnitTyped DEF IInv, TypeOK
  <2>8. DriveOK'
    BY <2>4, <2>6, NullIsNoFile DEF DriveOK
  <2>9. SavedOK'
    BY <1>1, <2>1, <2>5 DEF IInv, SavedOK
  <2>10. OpenIsEmpty'
    BY <1>1, <2>1, <2>3, <2>4 DEF OpenIsEmpty
  <2> QED
    BY <1>1, <2>7, <2>8, <2>9, <2>10 DEF IInv, OffOK, ClosedOK, ClosedHoldsSelection
<1>4. CASE ~there
  <2>1. drive' = drive /\ savdif' = savdif /\ tape' = tape /\ diffs' = diffs
    BY <1>1, <1>4 DEF OpenTray, devices
  <2>2. ~early => drive.file = NULL /\ tape = NULL
    BY <1>4 DEF IInv, ClosedOK, TypeOK, Slots
  <2>3. TypeOK'
    BY <1>1, <2>1, UnitTyped DEF IInv, TypeOK
  <2> QED
    BY <1>1, <2>1, <2>2, <2>3
       DEF IInv, OffOK, DriveOK, OpenIsEmpty, ClosedOK, ClosedHoldsSelection, SavedOK
<1> QED
  BY <1>2, <1>3, <1>4

LEMMA CloseOK ==
  ASSUME IInv, status = "on", retro_set_eject_state(FALSE), eject_state = TRUE
  PROVE  IInv'
<1> DEFINE f == files[index]
<1>1. /\ unit' = NewUnit /\ eject_state' = FALSE /\ CloseTray
      /\ files' = files /\ count' = count /\ index' = index
      /\ written' = written /\ early' = early
  BY DEF retro_set_eject_state
<1>2. ~early => drive.file = NULL /\ tape = NULL
  BY DEF IInv, OpenIsEmpty
<1>3. drive.file = NULL => drive.altered = FALSE
  BY DEF IInv, DriveOK, TypeOK
<1>4. CASE index < count /\ f # NULL
  <2>1. f \in Files
    BY <1>4 DEF IInv, TypeOK
  <2>2. NewUnit = ImageUnit(f) /\ retro_insert_image(NewUnit, f)
    BY <1>1, <1>4, UnitTyped DEF IInv, CloseTray, InsertUnit
  <2>3. DevicesTyped' /\ DriveOK' /\ status' \in {status, "crashed"}
    BY <2>1, <2>2, InsertOK DEF IInv
  <2>4. TypeOK'
    BY <1>1, <2>3, UnitTyped DEF IInv, TypeOK, DevicesTyped
  <2>5. OffOK' /\ OpenIsEmpty'
    BY <1>1, <2>3 DEF OffOK, OpenIsEmpty
  <2>6. CASE f \in Tapes
    <3>1. tape_insert(f)
      BY <2>2, <2>6, ImageUnitTyped DEF retro_insert_image
    <3>2. /\ (f \in Tapes \ Damaged => tape' = f)
          /\ drive' = drive /\ savdif' = savdif /\ diffs' = diffs
      BY <3>1, Taped
    <3>3. unit' = "TAPE" /\ f \notin Disks
      BY <1>1, <2>1, <2>2, <2>6, ImageUnitTyped, KindsApart
    <3>4. ClosedOK'
      BY <1>1, <1>2, <1>4, <2>1, <2>6, <3>2, <3>3 DEF ClosedOK
    <3>5. ClosedHoldsSelection'
      BY <1>1, <1>2, <2>1, <3>2, <3>3 DEF ClosedHoldsSelection, Holds
    <3>6. SavedOK'
      BY <1>1, <3>2 DEF IInv, SavedOK
    <3> QED
      BY <2>3, <2>4, <2>5, <3>4, <3>5, <3>6 DEF IInv
  <2>7. CASE f \notin Tapes
    <3>1. unit' = "FLOPPY" /\ retro_attach_disk(f)
      BY <1>1, <1>4, <2>2, <2>7, ImageUnitTyped DEF retro_insert_image
    <3>2. /\ tape' = tape /\ diffs' = diffs
          /\ drive'.file = IF f \in Disks \ Damaged THEN f ELSE NULL
      BY <2>1, <3>1, Attached DEF IInv
    <3>3. ClosedOK'
      BY <1>1, <1>2, <1>4, <2>1, <2>7, <3>1, <3>2 DEF ClosedOK
    <3>4. ClosedHoldsSelection'
      BY <1>1, <1>2, <2>1, <2>7, <3>2 DEF ClosedHoldsSelection, Holds
    <3>5. SavedOK'
      BY <1>1, <1>2, <1>3, <2>1, <3>2 DEF IInv, SavedOK
    <3> QED
      BY <2>3, <2>4, <2>5, <3>3, <3>4, <3>5 DEF IInv
  <2> QED
    BY <2>6, <2>7
<1>5. CASE ~(index < count /\ f # NULL)
  <2>1. /\ status' = status /\ drive' = drive /\ savdif' = savdif /\ tape' = tape
        /\ diffs' = diffs
    BY <1>1, <1>5 DEF CloseTray, devices
  <2>2. TypeOK'
    BY <1>1, <2>1, UnitTyped DEF IInv, TypeOK
  <2>3. ~early => drive.file = NULL /\ tape = NULL
    BY DEF IInv, OpenIsEmpty
  <2>4. ClosedHoldsSelection'
    BY <1>1, <1>5, NullIsNoFile DEF ClosedHoldsSelection, Holds
  <2> QED
    BY <1>1, <2>1, <2>2, <2>3, <2>4 DEF IInv, OffOK, DriveOK, OpenIsEmpty, ClosedOK, SavedOK
<1> QED
  BY <1>4, <1>5

LEMMA SetEjectOK ==
  ASSUME IInv, NEW ejected \in BOOLEAN, retro_set_eject_state(ejected)
  PROVE  IInv'
<1>1. status = "on" /\ eject_state \in BOOLEAN
  BY DEF retro_set_eject_state, IInv, TypeOK
<1>2. CASE ejected = eject_state
  <2>1. /\ status' = status /\ files' = files /\ count' = count /\ index' = index
        /\ unit' = NewUnit /\ eject_state' = eject_state /\ written' = written /\ early' = early
        /\ drive' = drive /\ savdif' = savdif /\ tape' = tape /\ diffs' = diffs
    BY <1>1, <1>2 DEF retro_set_eject_state, devices
  <2>2. TypeOK'
    BY <2>1, UnitTyped DEF IInv, TypeOK
  <2>3. index < count => (unit' = "TAPE" <=> files[index] \in Tapes)
    BY <2>1, UnitTyped, ImageUnitTyped DEF IInv
  <2>4. ClosedOK'
    BY <2>1, <2>3 DEF IInv, ClosedOK
  <2> QED
    BY <2>1, <2>2, <2>4
       DEF IInv, OffOK, DriveOK, OpenIsEmpty, ClosedHoldsSelection, Holds, SavedOK
<1>3. CASE ejected = TRUE /\ eject_state = FALSE
  BY <1>1, <1>3, OpenOK
<1>4. CASE ejected = FALSE /\ eject_state = TRUE
  BY <1>1, <1>4, CloseOK
<1> QED
  BY <1>1, <1>2, <1>3, <1>4

LEMMA SetIndexOK == ASSUME IInv, NEW i \in Slots, retro_set_image_index(i)
                    PROVE  IInv'
<1>1. /\ status = "on" /\ status' = status /\ eject_state = TRUE /\ eject_state' = TRUE
      /\ index' = i /\ unit' = ImageUnit(files[i]) /\ files' = files /\ count' = count
      /\ drive' = drive /\ savdif' = savdif /\ tape' = tape /\ diffs' = diffs
      /\ written' = written /\ early' = early
  BY DEF retro_set_image_index, devices, IInv, TypeOK
<1>2. TypeOK' /\ DriveOK'
  BY <1>1, ImageUnitTyped DEF IInv, TypeOK, DriveOK
<1> QED
  BY <1>1, <1>2, OpenStep DEF devices

LEMMA AddOK == ASSUME IInv, retro_add_image_index
               PROVE  IInv'
<1>1. /\ status = "on" /\ index' = index /\ unit' = unit /\ eject_state' = eject_state
      /\ drive' = drive /\ savdif' = savdif /\ tape' = tape /\ diffs' = diffs
      /\ written' = written /\ early' = early
  BY DEF retro_add_image_index, devices
<1>2. CASE Full /\ status' = "overflow" /\ UNCHANGED <<files, count>>
  BY <1>1, <1>2
     DEF IInv, TypeOK, OffOK, DriveOK, OpenIsEmpty, ClosedOK, ClosedHoldsSelection, SavedOK
<1>3. CASE /\ ~Full /\ status' = status
           /\ files' = [files EXCEPT ![count] = NULL] /\ count' = count + 1
  <2>1. count \in 0 .. MaxSize - 1 /\ MaxSize \in Nat
    BY <1>3, ListAssumption DEF Full, IInv, TypeOK
  <2>2. files' \in [Slots -> Files \cup {NULL}] /\ count' \in 0 .. MaxSize
    <3>1. files' \in [Slots -> Files \cup {NULL}]
      BY <1>3 DEF IInv, TypeOK
    <3>2. count' \in 0 .. MaxSize
      BY <1>3, <2>1
    <3> QED
      BY <3>1, <3>2
  <2>3. /\ index < count => index < count' /\ files'[index] = files[index]
        /\ index < count' /\ ~(index < count) => files'[index] = NULL
    BY <1>3, <2>1 DEF IInv, TypeOK, Slots
  <2>4. TypeOK'
    BY <1>1, <1>3, <2>2 DEF IInv, TypeOK
  <2>5. ClosedOK'
    BY <1>1, <1>3, <2>3 DEF IInv, ClosedOK
  <2>6. ClosedHoldsSelection'
    BY <1>1, <1>3, <2>3, NullIsNoFile DEF IInv, ClosedHoldsSelection, Holds
  <2> QED
    BY <1>1, <1>3, <2>4, <2>5, <2>6 DEF IInv, OffOK, DriveOK, OpenIsEmpty, SavedOK
<1> QED
  BY <1>2, <1>3 DEF retro_add_image_index

LEMMA Removed ==
  ASSUME TypeOK, NEW i \in Slots, i < count
  PROVE  Without(i) \in [Slots -> Files \cup {NULL}] /\ count - 1 \in 0 .. MaxSize
<1>1. MaxSize \in Nat /\ count \in 1 .. MaxSize
  BY ListAssumption DEF TypeOK, Slots
<1>2. \A k \in Slots : k \in i .. count - 2 => k + 1 \in Slots
  BY <1>1 DEF Slots
<1> QED
  BY <1>1, <1>2 DEF Without, TypeOK

LEMMA RemoveOK == ASSUME IInv, NEW i \in Slots, RemoveImage(i)
                  PROVE  IInv'
<1>1. /\ status = "on" /\ status' = status /\ eject_state = TRUE /\ eject_state' = TRUE
      /\ i < count /\ files' = Without(i) /\ count' = count - 1
      /\ unit' = (IF count = 1 THEN "NONE" ELSE unit) /\ index' = index
      /\ drive' = drive /\ savdif' = savdif /\ tape' = tape /\ diffs' = diffs
      /\ written' = written /\ early' = early
  BY DEF RemoveImage, dc_remove_file, devices, IInv, TypeOK
<1>2. TypeOK' /\ DriveOK'
  BY <1>1, Removed DEF IInv, TypeOK, DriveOK
<1> QED
  BY <1>1, <1>2, OpenStep DEF devices

LEMMA ReinsertOK ==
  ASSUME TypeOK, DriveOK, NEW i, NEW u, NEW f \in Files \cup {NULL}, Reinsert(i, u, f)
  PROVE  /\ DevicesTyped' /\ DriveOK' /\ status' \in {status, "crashed"}
         /\ early' \in BOOLEAN /\ (~early' => ~early /\ UNCHANGED devices)
<1>1. CASE i = index
  <2>1. retro_insert_image(u, f) /\ early' = (early \/ devices' # devices)
    BY <1>1 DEF Reinsert
  <2>2. early' \in BOOLEAN /\ (~early' => ~early /\ UNCHANGED devices)
    BY <2>1 DEF TypeOK
  <2> QED
    BY <2>1, <2>2, InsertOK
<1>2. CASE i # index
  BY <1>2 DEF Reinsert, devices, DevicesTyped, DriveOK, TypeOK
<1> QED
  BY <1>1, <1>2

LEMMA ReplaceOK == ASSUME IInv, NEW i \in Slots, NEW f \in Files, retro_replace_image_index(i, f)
                   PROVE  IInv'
<1>1. /\ status = "on" /\ eject_state = TRUE /\ eject_state' = TRUE /\ i < count
      /\ index' = index /\ written' = written
  BY DEF retro_replace_image_index, IInv, TypeOK
<1>2. SUFFICES /\ DevicesTyped' /\ DriveOK' /\ status' \in {"on", "crashed"}
               /\ early' \in BOOLEAN /\ (~early' => ~early /\ UNCHANGED devices)
               /\ files' \in [Slots -> Files \cup {NULL}] /\ count' \in 0 .. MaxSize
               /\ unit' \in {"NONE", "FLOPPY", "TAPE", "MEM"}
  BY <1>1, OpenStep DEF IInv, TypeOK, DevicesTyped
<1>3. CASE /\ files' = [files EXCEPT ![i] = NULL]
           /\ UNCHANGED <<status, count, unit, devices, early>>
  BY <1>1, <1>3 DEF IInv, TypeOK, DevicesTyped, DriveOK, devices
<1>4. CASE /\ files' = [files EXCEPT ![i] = f] /\ Reinsert(i, unit, f)
           /\ UNCHANGED <<count, unit>>
  BY <1>1, <1>4, ReinsertOK DEF IInv, TypeOK
<1>5. CASE dc_remove_file(i) /\ Reinsert(i, unit, Without(i)[i])
  <2>1. Without(i) \in [Slots -> Files \cup {NULL}] /\ count - 1 \in 0 .. MaxSize
    BY <1>1, Removed DEF IInv
  <2>2. Without(i)[i] \in Files \cup {NULL}
    BY <2>1
  <2> QED
    BY <1>1, <1>5, <2>1, <2>2, ReinsertOK DEF IInv, TypeOK, dc_remove_file
<1>6. CASE status' = "crashed" /\ UNCHANGED <<files, count, unit, devices, early>>
  BY <1>1, <1>6 DEF IInv, TypeOK, DevicesTyped, DriveOK, devices
<1> QED
  BY <1>3, <1>4, <1>5, <1>6 DEF retro_replace_image_index

LEMMA WriteOK == IInv /\ WriteDisk => IInv'
<1> SUFFICES ASSUME IInv, WriteDisk PROVE IInv'
  OBVIOUS
<1>1. /\ status = "on" /\ status' = status /\ files' = files /\ count' = count /\ index' = index
      /\ unit' = unit /\ eject_state' = eject_state /\ savdif' = savdif /\ tape' = tape
      /\ diffs' = diffs /\ early' = early /\ written' = written \cup {drive.file}
      /\ drive.file # NULL /\ drive' = [drive EXCEPT !.changed = TRUE, !.altered = TRUE]
  BY DEF WriteDisk, list
<1>2. drive'.file = drive.file /\ drive'.changed = TRUE /\ drive'.altered = TRUE
      /\ drive' \in [file : Disks \cup {NULL}, changed : BOOLEAN, altered : BOOLEAN]
  BY <1>1 DEF IInv, TypeOK
<1>3. TypeOK'
  BY <1>1, <1>2 DEF IInv, TypeOK
<1>4. OffOK' /\ DriveOK' /\ OpenIsEmpty' /\ ClosedOK'
  BY <1>1, <1>2 DEF IInv, OffOK, DriveOK, OpenIsEmpty, ClosedOK
<1>5. ClosedHoldsSelection'
  BY <1>1, <1>2 DEF IInv, ClosedHoldsSelection, Holds
<1>6. SavedOK'
  BY <1>1, <1>2 DEF IInv, SavedOK
<1> QED
  BY <1>3, <1>4, <1>5, <1>6 DEF IInv

(***************************************************************************)
(* The invariant, and what follows from it.                                *)
(***************************************************************************)
LEMMA InitOK == Init => IInv
<1> SUFFICES ASSUME Init PROVE IInv
  OBVIOUS
<1>1. drive.file = NULL /\ drive.altered = FALSE /\ status = "off"
      /\ drive \in [file : Disks \cup {NULL}, changed : BOOLEAN, altered : BOOLEAN]
  BY DEF Init, NoDisk
<1>2. TypeOK
  BY <1>1, ListAssumption DEF Init, TypeOK, Slots
<1> QED
  BY <1>1, <1>2
     DEF Init, IInv, OffOK, DriveOK, OpenIsEmpty, ClosedOK, ClosedHoldsSelection, SavedOK

LEMMA NextOK == IInv /\ [Next]_vars => IInv'
<1> SUFFICES ASSUME IInv, [Next]_vars PROVE IInv'
  OBVIOUS
<1>1. CASE Load
  BY <1>1, LoadOK
<1>2. CASE Unload
  BY <1>2, UnloadOK
<1>3. CASE Frontend
  BY <1>3, SetEjectOK, SetIndexOK, RemoveOK, ReplaceOK, AddOK DEF Frontend
<1>4. CASE WriteDisk
  BY <1>4, WriteOK
<1>5. CASE UNCHANGED vars
  BY <1>5 DEF vars, list, devices, IInv, TypeOK, OffOK, DriveOK, OpenIsEmpty, ClosedOK,
              ClosedHoldsSelection, Holds, SavedOK
<1> QED
  BY <1>1, <1>2, <1>3, <1>4, <1>5 DEF Next

LEMMA Invariance == Spec => []IInv
BY InitOK, NextOK, PTL DEF Spec

(***************************************************************************)
(* The list, the tray and the devices keep their types; the count and the  *)
(* index stay within the arrays of dc_storage.                             *)
(***************************************************************************)
THEOREM ListTypes == Spec => []TypeOK
<1>1. IInv => TypeOK
  BY DEF IInv
<1> QED
  BY <1>1, Invariance, PTL

(***************************************************************************)
(* An open tray leaves nothing in either device (retro_set_eject_state),   *)
(* for lists of any length and any order of calls.                         *)
(***************************************************************************)
THEOREM TrayEmpties == Spec => []OpenIsEmpty
<1>1. IInv => OpenIsEmpty
  BY DEF IInv
<1> QED
  BY <1>1, Invariance, PTL

(***************************************************************************)
(* A closed tray has the selected image in the device of its kind.         *)
(***************************************************************************)
THEOREM TrayHolds == Spec => []ClosedHoldsSelection
<1>1. IInv => ClosedHoldsSelection
  BY DEF IInv
<1> QED
  BY <1>1, Invariance, PTL

(***************************************************************************)
(* What was written to a disk is in the drive and will be saved, or has    *)
(* been saved and comes back (detach_disk, dsk_load), for any number of    *)
(* disks and sessions.                                                     *)
(***************************************************************************)
THEOREM NoWriteLost == Spec => []WritesKept
<1>1. IInv => WritesKept
  <2> SUFFICES ASSUME IInv, status \in {"on", "off"}, ~early, NEW f \in written
               PROVE  /\ f \in diffs \/ (drive.file = f /\ drive.altered /\ savdif = f)
                      /\ drive.file = f => drive.changed
    BY DEF WritesKept
  <2>1. f \in diffs \/ (drive.file = f /\ drive.altered)
    BY DEF IInv, SavedOK
  <2>2. f # NULL
    BY NullIsNoFile DEF IInv, TypeOK
  <2> QED
    BY <2>1, <2>2 DEF IInv, DriveOK
<1> QED
  BY <1>1, Invariance, PTL
=============================================================================
