------------------------------ MODULE DiskDiff ------------------------------
(***************************************************************************)
(* How the changes to a disk in drive A survive: detach_disk compares the  *)
(* disk with its image file and writes the tracks that differ to a file of *)
(* their own (dsk_diff), which attach_disk applies to the image it has     *)
(* loaded (dsk_diff_load).  Writing may fail or be cut short at any point, *)
(* and the program may die with the disk in the drive.                     *)
(*                                                                         *)
(* A track is the number of its sectors, what their IDs and flags say      *)
(* (info), the size they are read with (real) and their data; the sectors  *)
(* of a track have one size.  Its length never changes, write ID forgets   *)
(* to set it.  Left out: write ID that leaves a track without sectors or   *)
(* with less data than its length, after which the program reads memory it *)
(* has freed or never had; and an image file that is gone.                 *)
(***************************************************************************)
EXTENDS Naturals

CONSTANTS
  Sides, Tracks,         \* sides of the disk, tracks of a side
  Size,                  \* lengths of the tracks in units of 128 bytes, 0 if not formatted, in
                         \* the order of the file
  Image,                 \* the tracks of the image file
  Stale,                 \* the size of the sectors of its last formatted track
  RandomDEs,             \* it asks for random data errors
  Contents, Counts,      \* [data, info] a program may write, sectors it may format
  NoDisk, Torn           \* an empty drive; data of which a part is old and a part new

Places == 0 .. Tracks * Sides - 1
Written == Contents \cup {Image[p] : p \in Places}
Track == [sectors : Counts \cup {Image[p].sectors : p \in Places},
          info    : {w.info : w \in Written},
          real    : {Image[p].real : p \in Places} \cup {Stale},
          data    : {w.data : w \in Written} \cup {Torn}]

ASSUME GeometryAssumption ==
  /\ Sides \in {1, 2} /\ Tracks \in Nat \ {0} /\ RandomDEs \in BOOLEAN
  /\ Size \in [Places -> Nat]
ASSUME ImageAssumption ==
  /\ Image \in [Places -> Track] /\ NoDisk \notin [Places -> Track]
  /\ \A p \in Places : Size[p] > 0 /\ (\A q \in Places : q > p => Size[q] = 0)
                       => Stale = Image[p].real
  /\ \A c \in Contents : DOMAIN c = {"data", "info"} /\ c.data # Torn

VARIABLES
  drive,    \* the tracks of driveA
  altered,  \* driveA.altered
  diff      \* the file of changes

vars == <<drive, altered, diff>>

(***************************************************************************)
(* The file has a header with the lengths of all tracks and then, in their *)
(* order, the tracks that differ, with their headers; cut says that the    *)
(* data of a track end early.  A file without tracks is as good as none.   *)
(* Lengths in the header are in units of 256 bytes.                        *)
(***************************************************************************)
Formatted(p) == Size[p] # 0
dsk_diff_track(t, org) == t.sectors # org.sectors \/ t.data # org.data
Table == [p \in Places |-> IF Formatted(p) THEN (Size[p] + 2) \div 2 ELSE 0]

NoFile == [p \in {} |-> NoDisk]
File(disk, places) == [p \in places |-> [track |-> disk[p], cut |-> FALSE]]
dsk_diff_All(disk) ==                                                  \* mutant
  File(disk, {p \in Places : dsk_diff_track(disk[p], Image[p])})
dsk_diff(disk) ==
  File(disk, {p \in Places : Formatted(p) /\ dsk_diff_track(disk[p], Image[p])})
\* A failure may leave no header, or the tracks before p, or a part of p as well.
Before(file, p) == [q \in {q \in DOMAIN file : q < p} |-> file[q]]
UpTo(file, p) == [q \in {q \in DOMAIN file : q <= p} |-> [file[q] EXCEPT !.cut = (q = p)]]
Cuts(file) == {NoFile} \cup UNION {{Before(file, p), UpTo(file, p)} : p \in DOMAIN file}

(***************************************************************************)
(* Reading stops for good at a track of another length, as the header has  *)
(* it for side 0, or with another number of sectors; the IDs of a track    *)
(* that is cut are not read.  The real size of the sectors comes from what *)
(* dsk_load has left in the buffer.                                        *)
(***************************************************************************)
SideZero(p) == (p \div Sides) * Sides
Fits(p, e, t) == 2 * Table[SideZero(p)] = Size[p] + 2 /\ e.track.sectors = t.sectors
Reached(file, disk, p) ==
  /\ p \in DOMAIN file /\ Fits(p, file[p], disk[p])
  /\ \A q \in DOMAIN file : q < p => Fits(q, file[q], disk[q]) /\ ~file[q].cut
Apply_KeepIDs(t, e) == [t EXCEPT !.data = IF e.cut THEN Torn ELSE e.track.data]  \* mutant
Apply(t, e) == IF e.cut THEN [t EXCEPT !.data = Torn] ELSE [e.track EXCEPT !.real = Stale]
\* The number of sides in the header includes the request for random errors.
dsk_diff_load(file, disk) ==
  [p \in Places |-> IF ~RandomDEs /\ Reached(file, disk, p) THEN Apply(disk[p], file[p])
                    ELSE disk[p]]

(***************************************************************************)
(* The specification                                                       *)
(***************************************************************************)
Init == drive = NoDisk /\ altered = FALSE /\ diff = NoFile

attach_disk ==
  /\ drive = NoDisk
  /\ drive' = dsk_diff_load(diff, Image) /\ altered' = FALSE
  /\ UNCHANGED diff

\* The program writes sectors of a track or formats it; a command that is cut short does not
\* set altered.
Write ==
  /\ drive # NoDisk
  /\ \E p \in Places, c \in Contents :
       /\ drive[p].sectors > 0
       /\ drive' = [drive EXCEPT ![p].data = c.data, ![p].info = c.info]
  /\ altered' \in {TRUE, altered}
  /\ UNCHANGED diff
Format ==
  /\ drive # NoDisk
  /\ \E p \in Places, c \in Contents, n \in Counts :
       drive' = [drive EXCEPT ![p].sectors = n, ![p].data = c.data, ![p].info = c.info]
  /\ altered' = TRUE
  /\ UNCHANGED diff

Ejected == drive # NoDisk /\ drive' = NoDisk /\ altered' = FALSE
detach_disk == Ejected /\ diff' = IF altered THEN dsk_diff(drive) ELSE diff
\* The file cannot be opened, or writing it fails, which goes unnoticed, or the program dies.
SaveFails == Ejected /\ altered /\ diff' \in {diff} \cup Cuts(dsk_diff(drive))
\* The program dies, or another disk is attached to the drive.
Lose == Ejected /\ UNCHANGED diff

Next == attach_disk \/ Write \/ Format \/ detach_disk \/ SaveFails \/ Lose
Spec == Init /\ [][Next]_vars

(***************************************************************************)
(* Properties                                                              *)
(***************************************************************************)
\* Disk and file have tracks of their types; the file holds only tracks that are formatted, and
\* none after a track that is cut.
TypeOK ==
  /\ drive \in [Places -> Track] \cup {NoDisk} /\ altered \in BOOLEAN
  /\ DOMAIN diff \subseteq {p \in Places : Formatted(p)}
  /\ diff \in [DOMAIN diff -> [track : Track, cut : BOOLEAN]]
  /\ \A p, q \in DOMAIN diff : diff[p].cut => q <= p

(***************************************************************************)
(* What of a disk is kept: not the formats of tracks that had none; not    *)
(* the IDs and flags of a track whose data are those of the image; nothing *)
(* from the first track on that was formatted with another number of       *)
(* sectors, or that differs and is not a multiple of 256 bytes long or not *)
(* as long as the track on side 0; and nothing at all of a disk with       *)
(* random data errors.  The sectors of a track that is kept are read with  *)
(* the size of those of the last track.                                    *)
(***************************************************************************)
Saved(disk) ==
  LET differs(p) == Formatted(p) /\ dsk_diff_track(disk[p], Image[p])
      lost(p) == \/ disk[p].sectors # Image[p].sectors
                 \/ Size[p] % 2 # 0
                 \/ Size[SideZero(p)] \notin {Size[p], Size[p] + 1}
  IN [p \in Places |-> IF RandomDEs \/ ~differs(p) \/ \E q \in 0 .. p : differs(q) /\ lost(q)
                       THEN Image[p] ELSE [disk[p] EXCEPT !.real = Stale]]

(***************************************************************************)
(* Apart from these, a disk that is taken out and inserted again has       *)
(* everything the program wrote on it; a save that fails keeps the tracks  *)
(* before the failure and tears one at most; nothing else changes what     *)
(* will be inserted (dsk_diff, dsk_diff_load).                             *)
(***************************************************************************)
Store == INSTANCE DiskStore WITH kept <- dsk_diff_load(diff, Image)
ImplementsStore == Store!Spec

(***************************************************************************)
(* The sectors of a disk that was inserted again are read with the sizes   *)
(* they have in the image ("real size", slots.c:732).  The code does not   *)
(* do this for an image whose last track has sectors of another size.      *)
(***************************************************************************)
SizesKept == drive # NoDisk => \A p \in Places : drive[p].real = Image[p].real
=============================================================================
