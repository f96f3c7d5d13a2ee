---------------------------- MODULE DiskControl ----------------------------
(***************************************************************************)
(* The disk control interface of libretro/retro_disk_control.c: a list of  *)
(* images, the one that is selected, and a tray.  The frontend calls it    *)
(* between two frames; the emulated machine writes to the disk in drive A  *)
(* while it runs.  The files of the list go into two devices, drive A and  *)
(* the tape recorder, and the changes made to a disk are kept in a file of *)
(* their own when the disk is detached.                                    *)
(*                                                                         *)
(* The frontend obeys libretro.h: it selects, replaces and removes images  *)
(* with the tray open only.                                                *)
(*                                                                         *)
(* Left out: names and the recorded types of the images, which nothing     *)
(* reads but to display them; dc->replace, which nothing sets; autorun.    *)
(* The file of changes is named after the image's base name: images of the *)
(* same name in different directories are taken not to occur.              *)
(***************************************************************************)
EXTENDS Naturals, Sequences, FiniteSetsExt

CONSTANTS
  MaxSize,    \* DC_MAX_SIZE
  Disks,      \* files that end in dsk
  Tapes,      \* files that end in cdt
  Carts,      \* files that end in cpr
  Archives,   \* files that end in m3u, zip or 7z
  Damaged,    \* disks and tapes that cannot be loaded
  Playlists,  \* lists of images an m3u file can name
  NULL        \* no file

Files == Disks \cup Tapes \cup Carts \cup Archives
Slots == 0 .. MaxSize - 1

ASSUME ListAssumption ==
  /\ MaxSize \in Nat \ {0}
  /\ Playlists \subseteq Seq(Files) \ {<<>>}
  /\ NULL \notin Files
  /\ Damaged \subseteq Disks \cup Tapes
  /\ Disks \cap Tapes = {} /\ Carts \cap (Disks \cup Tapes) = {}
  /\ Archives \cap (Disks \cup Tapes \cup Carts) = {}

VARIABLES
  status,       \* "off" before the content is loaded, "on", "crashed" when a null
                \* pointer was used, "overflow" when the list was written beyond its end
  files,        \* dc->files
  count,        \* dc->count
  index,        \* dc->index
  unit,         \* dc->unit
  eject_state,  \* dc->eject_state: the tray is open
  drive,        \* driveA: its disk, whether it differs from its file, driveA.altered
  savdif,       \* savdif_name, as the disk whose changes it is to hold
  tape,         \* the tape in memory
  diffs,        \* disks whose changes have been saved
  written,      \* history: disks the machine has written to
  early         \* history: an image was inserted while the tray was open

list    == <<files, count, index, unit, eject_state>>
devices == <<drive, savdif, tape, diffs>>
vars    == <<status, list, devices, written, early>>

NoDisk == [file |-> NULL, changed |-> FALSE, altered |-> FALSE]

dc_reset == /\ files' = [k \in Slots |-> NULL] /\ count' = 0 /\ index' = 0
            /\ unit' = "NONE" /\ eject_state' = TRUE

Init == /\ status = "off"
        /\ files = [k \in Slots |-> NULL] /\ count = 0 /\ index = 0
        /\ unit = "NONE" /\ eject_state = TRUE
        /\ drive = NoDisk /\ savdif = NULL /\ tape = NULL
        /\ diffs = {} /\ written = {} /\ early = FALSE

(***************************************************************************)
(* The devices.                                                            *)
(***************************************************************************)
\* dc_get_image_type, as the unit of the first image of a list ...
FirstUnit(f)   == CASE f \in Tapes -> "TAPE" [] f \in Carts -> "MEM" [] OTHER -> "FLOPPY"
\* ... and as the unit of the selected one.
ImageUnit(f)   == IF f \in Tapes THEN "TAPE" ELSE "FLOPPY"

\* dsk_load ejects what the drive held, saved or not, and leaves nothing in the
\* drive when it fails; dsk_diff_load applies the changes that were saved.
retro_attach_disk(f) ==
  /\ savdif' = f
  /\ drive' = IF f \in Disks \ Damaged
              THEN [file |-> f, changed |-> f \in diffs, altered |-> FALSE] ELSE NoDisk
  /\ UNCHANGED <<tape, diffs>>

detach_disk_Discard ==                                                 \* mutant
  /\ drive' = NoDisk /\ UNCHANGED <<savdif, tape, diffs>>
\* The difference to the image file, which is taken to be still there.
detach_disk ==
  /\ diffs' = IF drive.altered THEN diffs \cup {savdif} ELSE diffs
  /\ drive' = NoDisk
  /\ UNCHANGED <<savdif, tape>>

\* A tape that is damaged may stay in memory all the same.
tape_insert(f) ==
  /\ tape' \in IF f \notin Tapes THEN {NULL} ELSE IF f \in Damaged THEN {NULL, f} ELSE {f}
  /\ UNCHANGED <<drive, savdif, diffs>>
tape_eject == tape' = NULL /\ UNCHANGED <<drive, savdif, diffs>>

\* retro_insert_image with dc->unit = u; attaching a null pointer as a disk crashes.
retro_insert_image(u, f) ==
  \/ u = "TAPE" /\ tape_insert(f) /\ UNCHANGED status
  \/ u = "FLOPPY" /\ f # NULL /\ retro_attach_disk(f) /\ UNCHANGED status
  \/ u = "FLOPPY" /\ f = NULL /\ status' = "crashed" /\ UNCHANGED devices
  \/ u \in {"NONE", "MEM"} /\ UNCHANGED <<status, devices>>

(***************************************************************************)
(* The core loads its content: a playlist, a disk or a tape.  A playlist   *)
(* longer than the list is cut off.  A tape does not enter the list.       *)
(***************************************************************************)
Fill(names) ==
  /\ count' = Min({Len(names), MaxSize})
  /\ files' = [k \in Slots |-> IF k < Len(names) THEN names[k + 1] ELSE NULL]
  /\ index' = 0 /\ unit' = FirstUnit(names[1]) /\ eject_state' = FALSE

LoadPlaylist(names) ==
  /\ status = "off" /\ status' = "on" /\ Fill(names)
  /\ CASE FirstUnit(names[1]) = "TAPE"   -> tape_insert(names[1])
       [] FirstUnit(names[1]) = "FLOPPY" -> retro_attach_disk(names[1])
       [] OTHER                          -> UNCHANGED devices
  /\ UNCHANGED <<written, early>>

LoadDisk(f) ==
  /\ status = "off" /\ status' = "on" /\ Fill(<<f>>) /\ retro_attach_disk(f)
  /\ UNCHANGED <<written, early>>

LoadTape(f) ==
  /\ status = "off" /\ status' = "on" /\ tape_insert(f)
  /\ early' = TRUE
  /\ UNCHANGED <<list, written>>

\* retro_deinit; retro_init makes the next list.
Unload ==
  /\ status = "on" /\ status' = "off" /\ dc_reset
  /\ diffs' = IF drive.altered THEN diffs \cup {savdif} ELSE diffs
  /\ drive' = NoDisk /\ tape' = NULL
  /\ UNCHANGED <<savdif, written, early>>

(***************************************************************************)
(* The calls of the interface.                                             *)
(***************************************************************************)
\* get_image_unit returns the unit before it changes.
NewUnit == IF index < count THEN ImageUnit(files[index]) ELSE unit
OldUnit == IF index < count THEN unit ELSE "FLOPPY"
InsertUnit_Old == OldUnit                                              \* mutant
InsertUnit == NewUnit
EjectsTape_Never == FALSE                                              \* mutant
EjectsTape == OldUnit = "TAPE"

OpenTray ==
  IF index <= count /\ files[index] # NULL
  THEN IF EjectsTape THEN tape_eject ELSE detach_disk
  ELSE UNCHANGED devices
CloseTray ==
  IF index < count /\ files[index] # NULL THEN retro_insert_image(InsertUnit, files[index])
  ELSE UNCHANGED <<status, devices>>

retro_set_eject_state(ejected) ==
  /\ status = "on" /\ unit' = NewUnit /\ eject_state' = ejected
  /\ \/ ejected = eject_state /\ UNCHANGED <<status, devices>>
     \/ ejected /\ ~eject_state /\ OpenTray /\ UNCHANGED status
     \/ ~ejected /\ eject_state /\ CloseTray
  /\ UNCHANGED <<files, count, index, written, early>>

retro_set_image_index(i) ==
  /\ status = "on" /\ eject_state
  /\ i # index /\ i < count /\ files[i] # NULL
  /\ index' = i /\ unit' = ImageUnit(files[i])
  /\ UNCHANGED <<status, files, count, eject_state, devices, written, early>>

\* The size is checked with <=, and the entry beyond the list is written.
Full_Late == count > MaxSize                                           \* mutant
Full == count = MaxSize
retro_add_image_index ==
  /\ status = "on"
  /\ \/ Full /\ status' = "overflow" /\ UNCHANGED <<files, count>>
     \/ ~Full /\ UNCHANGED status
        /\ files' = [files EXCEPT ![count] = NULL] /\ count' = count + 1
  /\ UNCHANGED <<index, unit, eject_state, devices, written, early>>

\* dc_remove_file.  The entries behind move up; the last of them keeps its pointer.
Without(i) == [k \in Slots |-> IF k \in i .. count - 2 THEN files[k + 1]
                               ELSE IF k = i THEN NULL ELSE files[k]]
dc_remove_file(i) ==
  /\ files' = Without(i) /\ count' = count - 1
  /\ unit' = IF count = 1 THEN "NONE" ELSE unit

RemoveImage(i) ==
  /\ status = "on" /\ eject_state /\ i < count
  /\ dc_remove_file(i)
  /\ UNCHANGED <<status, index, eject_state, devices, written, early>>

\* The images dc_replace_file compares a new one with, up to the first equal
\* one or null pointer; the entry to replace is already null.
Compared(i, f) ==
  {k \in Slots : k + 1 < count /\ (k = i \/ files[k] \in {f, NULL})}
Duplicate(i, f) == LET k == Min(Compared(i, f)) IN k # i /\ files[k] = f

\* The new selected image is inserted whether the tray is open or not.
Reinsert(i, u, f) ==
  IF i = index
  THEN /\ retro_insert_image(u, f)
       /\ early' = (early \/ devices' # devices)
  ELSE UNCHANGED <<status, devices, early>>

retro_replace_image_index(i, f) ==
  /\ status = "on" /\ eject_state /\ i < count
  /\ \/ /\ f \in Archives
        /\ files' = [files EXCEPT ![i] = NULL]
        /\ UNCHANGED <<status, count, unit, devices, early>>
     \/ /\ f \notin Archives /\ Compared(i, f) = {}
        /\ files' = [files EXCEPT ![i] = f] /\ Reinsert(i, unit, f)
        /\ UNCHANGED <<count, unit>>
     \/ /\ f \notin Archives /\ Compared(i, f) # {} /\ Duplicate(i, f)
        /\ dc_remove_file(i) /\ Reinsert(i, unit, Without(i)[i])
     \/ /\ f \notin Archives /\ Compared(i, f) # {} /\ ~Duplicate(i, f)
        /\ status' = "crashed"
        /\ UNCHANGED <<files, count, unit, devices, early>>
  /\ UNCHANGED <<index, eject_state, written>>

\* The machine writes to its disk and the write completes (write_byte of FDC).
WriteDisk ==
  /\ status = "on" /\ drive.file # NULL
  /\ drive' = [drive EXCEPT !.changed = TRUE, !.altered = TRUE]
  /\ written' = written \cup {drive.file}
  /\ UNCHANGED <<status, list, savdif, tape, diffs, early>>

Load == \/ \E names \in Playlists : LoadPlaylist(names)
        \/ \E f \in Disks : LoadDisk(f)
        \/ \E f \in Tapes : LoadTape(f)
Frontend ==
  \/ \E ejected \in BOOLEAN : retro_set_eject_state(ejected)
  \/ \E i \in Slots : retro_set_image_index(i) \/ RemoveImage(i)
  \/ \E i \in Slots, f \in Files : retro_replace_image_index(i, f)
  \/ retro_add_image_index

Next == Load \/ Unload \/ Frontend \/ WriteDisk

Spec == Init /\ [][Next]_vars

(***************************************************************************)
(* Properties.                                                             *)
(***************************************************************************)
\* The list, the tray and the devices keep their types; above all, the count and
\* the index stay within the arrays of dc_storage.
TypeOK ==
  /\ status \in {"off", "on", "crashed", "overflow"}
  /\ files \in [Slots -> Files \cup {NULL}] /\ count \in 0 .. MaxSize /\ index \in Slots
  /\ unit \in {"NONE", "FLOPPY", "TAPE", "MEM"} /\ eject_state \in BOOLEAN
  /\ drive \in [file : Disks \cup {NULL}, changed : BOOLEAN, altered : BOOLEAN]
  /\ savdif \in Files \cup {NULL} /\ tape \in Tapes \cup {NULL}
  /\ diffs \subseteq Disks /\ written \subseteq Disks /\ early \in BOOLEAN

\* With the tray open nothing is left in a device, whichever device the image was
\* put in, and however the list was changed since; unless an image was inserted
\* behind the tray's back.
OpenIsEmpty ==
  status = "on" /\ eject_state /\ ~early => drive.file = NULL /\ tape = NULL

\* With the tray closed the selected image is in the device of its kind, and
\* nothing is in the other, also after images were added, replaced, removed and
\* selected in any order.
Holds(f) == /\ f \in Disks \ Damaged => drive.file = f /\ tape = NULL
            /\ f \in Tapes \ Damaged => tape = f /\ drive.file = NULL
ClosedHoldsSelection ==
  status = "on" /\ ~eject_state /\ ~early /\ index < count => Holds(files[index])

\* What the machine wrote to a disk is not lost by any sequence of changes: it
\* is on the disk in the drive, and it will be saved when that disk goes, or it
\* has been saved and comes back with the disk.
WritesKept ==
  status \in {"on", "off"} /\ ~early =>
    \A f \in written :
      /\ f \in diffs \/ (drive.file = f /\ drive.altered /\ savdif = f)
      /\ drive.file = f => drive.changed

(***************************************************************************)
(* What libretro.h says of the interface, and the code does not do.        *)
(***************************************************************************)
\* libretro.h:2873: when an image before the selected one is removed, the index of
\* the selected image goes down by one.
RemovalKeepsSelection ==
  [][\A i \in Slots : RemoveImage(i) /\ i < index /\ index < count => index' = index - 1]_vars
=============================================================================
