-------------------------- MODULE DiskDiff_proofs --------------------------
(***************************************************************************)
(* Proofs about DiskDiff: its types, and that it implements DiskStore for  *)
(* every disk and every place at which the writing of the file may end.    *)
(***************************************************************************)
EXTENDS DiskDiff, TLAPS

(***************************************************************************)
(* Places and tracks.                                                      *)
(***************************************************************************)
\* The first place is on every disk.
LEMMA ZeroPlace == 0 \in Places /\ Places \subseteq Nat
BY GeometryAssumption, SMT DEF Places

\* The track of the same cylinder on side 0 is a track of the disk.
LEMMA SideZeroPlace ==
  ASSUME NEW p \in Places
  PROVE  SideZero(p) \in Places /\ SideZero(p) <= p
<1>1. CASE Sides = 1
  BY <1>1, GeometryAssumption, SMT DEF Places, SideZero
<1>2. CASE Sides = 2
  BY <1>2, GeometryAssumption, SMT DEF Places, SideZero
<1> QED BY <1>1, <1>2, GeometryAssumption

\* A track that differs fits when its length is a multiple of 256 bytes and the one the header
\* has for side 0, and its sectors are as many as before.
LEMMA FitsWhen ==
  ASSUME NEW p \in Places, Formatted(p), NEW e, NEW t
  PROVE  Fits(p, e, t) <=> /\ e.track.sectors = t.sectors
                           /\ Size[p] % 2 = 0
                           /\ Size[SideZero(p)] \in {Size[p], Size[p] + 1}
<1> DEFINE a == Size[p]
           b == Size[SideZero(p)]
<1>1. a \in Nat /\ b \in Nat /\ a # 0
  BY SideZeroPlace, GeometryAssumption DEF Formatted
<1>2. Table[SideZero(p)] = IF b # 0 THEN (b + 2) \div 2 ELSE 0
  BY SideZeroPlace DEF Table, Formatted
<1>3. (2 * Table[SideZero(p)] = a + 2) <=> (a % 2 = 0 /\ b \in {a, a + 1})
  <2> HIDE DEF a, b
  <2> QED BY <1>1, <1>2, SMT
<1> QED BY <1>3 DEF Fits

(***************************************************************************)
(* What is inserted after a save: all that Saved names, and after a save   *)
(* that ended at place p, the tracks before p.                             *)
(***************************************************************************)
Kept(file) == dsk_diff_load(file, Image)

\* No file, and a file without tracks, leave the disk as the image has it.
LEMMA KeptNothing == Kept(NoFile) = Image
BY ImageAssumption DEF Kept, dsk_diff_load, Reached, NoFile

\* The tracks of the file of a disk, and what they are.
LEMMA FileOf ==
  ASSUME NEW disk
  PROVE  /\ DOMAIN dsk_diff(disk)
              = {p \in Places : Formatted(p) /\ dsk_diff_track(disk[p], Image[p])}
         /\ \A p \in DOMAIN dsk_diff(disk) :
              /\ dsk_diff(disk)[p] = [track |-> disk[p], cut |-> FALSE]
              /\ dsk_diff(disk)[p].track = disk[p] /\ ~dsk_diff(disk)[p].cut
BY DEF dsk_diff, File

\* Reading the file of a disk gives what is Saved of it.
LEMMA SavedAtPlace ==
  ASSUME NEW disk \in [Places -> Track], NEW p \in Places
  PROVE  Saved(disk)[p] = IF ~RandomDEs /\ Reached(dsk_diff(disk), Image, p)
                          THEN [disk[p] EXCEPT !.real = Stale] ELSE Image[p]
<1> DEFINE differs(q) == Formatted(q) /\ dsk_diff_track(disk[q], Image[q])
           lost(q) == \/ disk[q].sectors # Image[q].sectors
                      \/ Size[q] % 2 # 0
                      \/ Size[SideZero(q)] \notin {Size[q], Size[q] + 1}
           file == dsk_diff(disk)
<1>1. \A q \in Places : q \in DOMAIN file <=> differs(q)
  BY FileOf
<1>2. \A q \in Places : differs(q) => (Fits(q, file[q], Image[q]) <=> ~lost(q))
  <2> TAKE q \in Places
  <2> HAVE differs(q)
  <2>1. file[q].track = disk[q]
    BY <1>1, FileOf
  <2> QED BY <2>1, FitsWhen
<1>3. \A q \in DOMAIN file : ~file[q].cut /\ q \in Places
  BY FileOf
<1>4. Reached(file, Image, p) <=> differs(p) /\ ~\E q \in 0 .. p : differs(q) /\ lost(q)
  <2>1. \A q \in Places : q <= p <=> q \in 0 .. p
    BY GeometryAssumption, SMT DEF Places
  <2>2. 0 .. p \subseteq Places /\ p \in Nat
    BY GeometryAssumption, SMT DEF Places
  <2>3. \A q \in Places : q <= p <=> (q < p \/ q = p)
    BY GeometryAssumption, SMT DEF Places
  <2> HIDE DEF differs, lost, file
  <2> QED BY <1>1, <1>2, <1>3, <2>1, <2>2, <2>3 DEF Reached
<1>5. Saved(disk)[p] = IF RandomDEs \/ ~differs(p) \/ \E q \in 0 .. p : differs(q) /\ lost(q)
                       THEN Image[p] ELSE [disk[p] EXCEPT !.real = Stale]
  BY DEF Saved
<1> QED BY <1>4, <1>5

\* What is inserted after a save that succeeded.
LEMMA KeptSaved ==
  ASSUME NEW disk \in [Places -> Track]
  PROVE  Kept(dsk_diff(disk)) = Saved(disk)
<1>1. \A p \in Places : Kept(dsk_diff(disk))[p] = Saved(disk)[p]
  <2> TAKE p \in Places
  <2>1. CASE ~RandomDEs /\ Reached(dsk_diff(disk), Image, p)
    <3>1. p \in DOMAIN dsk_diff(disk)
      BY <2>1 DEF Reached
    <3>2. Kept(dsk_diff(disk))[p] = Apply(Image[p], dsk_diff(disk)[p])
      BY <2>1 DEF Kept, dsk_diff_load
    <3>3. dsk_diff(disk)[p].track = disk[p] /\ ~dsk_diff(disk)[p].cut
      BY <3>1, FileOf
    <3>4. Kept(dsk_diff(disk))[p] = [disk[p] EXCEPT !.real = Stale]
      BY <3>2, <3>3 DEF Apply
    <3> QED BY <2>1, <3>4, SavedAtPlace
  <2>2. CASE ~(~RandomDEs /\ Reached(dsk_diff(disk), Image, p))
    BY <2>2, SavedAtPlace DEF Kept, dsk_diff_load
  <2> QED BY <2>1, <2>2
<1> QED BY <1>1 DEF Kept, dsk_diff_load, Saved

\* A file that ends before place p, or within the track at p, has before p what the file has.
LEMMA PartOf ==
  ASSUME NEW disk, NEW p \in DOMAIN dsk_diff(disk), NEW q \in Places
  PROVE  /\ p \in Places
         /\ q \in DOMAIN Before(dsk_diff(disk), p) <=> q \in DOMAIN dsk_diff(disk) /\ q < p
         /\ q \in DOMAIN UpTo(dsk_diff(disk), p) <=> q \in DOMAIN dsk_diff(disk) /\ q <= p
         /\ q \in DOMAIN dsk_diff(disk) /\ q < p =>
              Before(dsk_diff(disk), p)[q] = dsk_diff(disk)[q]
         /\ q \in DOMAIN dsk_diff(disk) /\ q <= p =>
              /\ UpTo(dsk_diff(disk), p)[q].track = disk[q]
              /\ UpTo(dsk_diff(disk), p)[q].cut = (q = p)
<1>1. \A r \in DOMAIN dsk_diff(disk) : dsk_diff(disk)[r] = [track |-> disk[r], cut |-> FALSE]
  BY FileOf
<1>2. q \in DOMAIN dsk_diff(disk) /\ q <= p =>
        UpTo(dsk_diff(disk), p)[q] = [dsk_diff(disk)[q] EXCEPT !.cut = (q = p)]
  BY DEF UpTo
<1>3. p \in Places
  BY FileOf
<1>4. q \in DOMAIN dsk_diff(disk) /\ q <= p =>
         UpTo(dsk_diff(disk), p)[q] = [track |-> disk[q], cut |-> (q = p)]
  BY <1>1, <1>2
<1> QED BY <1>3, <1>4 DEF Before, UpTo

\* What is inserted after a save that ended before the track at p: the tracks before it.
LEMMA KeptBefore ==
  ASSUME NEW disk \in [Places -> Track], NEW p \in DOMAIN dsk_diff(disk)
  PROVE  Kept(Before(dsk_diff(disk), p))
           = [q \in Places |-> IF q < p THEN Saved(disk)[q] ELSE Image[q]]
<1> DEFINE file == dsk_diff(disk)
           part == Before(file, p)
<1>1. \A q \in Places : q >= p => ~Reached(part, Image, q)
  <2> TAKE q \in Places
  <2> HAVE q >= p
  <2>1. ~(q < p)
    BY PartOf, GeometryAssumption, SMT DEF Places
  <2> QED BY <2>1, PartOf DEF Reached
<1>2. ASSUME NEW q \in Places, q < p
      PROVE  Reached(part, Image, q) <=> Reached(file, Image, q)
  <2>1. \A r \in Places : r < q => r < p
    BY <1>2, PartOf, GeometryAssumption, SMT DEF Places
  <2>2. DOMAIN part \subseteq Places /\ DOMAIN file \subseteq Places
    BY FileOf DEF Before
  <2>3. \A r \in Places : r < p => /\ r \in DOMAIN part <=> r \in DOMAIN file
                                   /\ r \in DOMAIN file => part[r] = file[r]
    BY PartOf
  <2> HIDE DEF file, part
  <2> QED BY <1>2, <2>1, <2>2, <2>3 DEF Reached
<1>3. ASSUME NEW q \in Places, q < p, ~RandomDEs, Reached(part, Image, q)
      PROVE  Apply(Image[q], part[q]) = [disk[q] EXCEPT !.real = Stale]
  <2>1. q \in DOMAIN file /\ part[q] = file[q]
    BY <1>3, PartOf DEF Reached
  <2>2. part[q].track = disk[q] /\ ~part[q].cut
    BY <2>1, FileOf
  <2> QED BY <2>2 DEF Apply
<1>4. \A q \in Places : Kept(part)[q] = IF q < p THEN Saved(disk)[q] ELSE Image[q]
  <2> TAKE q \in Places
  <2>1. CASE q < p /\ ~RandomDEs /\ Reached(part, Image, q)
    BY <2>1, <1>2, <1>3, SavedAtPlace DEF Kept, dsk_diff_load
  <2>2. CASE q < p /\ ~(~RandomDEs /\ Reached(part, Image, q))
    BY <2>2, <1>2, SavedAtPlace DEF Kept, dsk_diff_load
  <2>3. CASE ~(q < p)
    <3>1. q >= p
      BY <2>3, PartOf, GeometryAssumption, SMT DEF Places
    <3> QED BY <2>3, <3>1, <1>1 DEF Kept, dsk_diff_load
  <2> QED BY <2>1, <2>2, <2>3
<1> QED BY <1>4 DEF Kept, dsk_diff_load

\* What is inserted after a save that ended within the track at p: the tracks before it, and a
\* track that is torn if reading got as far as that.
LEMMA KeptUpTo ==
  ASSUME NEW disk \in [Places -> Track], NEW p \in DOMAIN dsk_diff(disk)
  PROVE  \E t \in {Image[p], [Image[p] EXCEPT !.data = Torn]} :
           Kept(UpTo(dsk_diff(disk), p))
             = [q \in Places |-> IF q < p THEN Saved(disk)[q]
                                 ELSE IF q = p THEN t ELSE Image[q]]
<1> DEFINE file == dsk_diff(disk)
           part == UpTo(file, p)
           t    == Kept(part)[p]
<1>1. p \in Places
  BY FileOf
<1>2. \A q \in Places : q > p => ~Reached(part, Image, q)
  <2> TAKE q \in Places
  <2> HAVE q > p
  <2>1. ~(q <= p)
    BY <1>1, GeometryAssumption, SMT DEF Places
  <2> QED BY <2>1, PartOf DEF Reached
<1>3. ASSUME NEW q \in Places, q < p
      PROVE  Reached(part, Image, q) <=> Reached(file, Image, q)
  <2>1. \A r \in Places : r < p => r <= p /\ r # p
    BY <1>1, GeometryAssumption, SMT DEF Places
  <2>2. \A r \in Places : r < q => r < p
    BY <1>1, <1>3, GeometryAssumption, SMT DEF Places
  <2>3. DOMAIN part \subseteq Places /\ DOMAIN file \subseteq Places
    BY FileOf DEF UpTo
  <2>4. \A r \in Places : r < p => /\ r \in DOMAIN part <=> r \in DOMAIN file
                                   /\ r \in DOMAIN file => /\ part[r].track = file[r].track
                                                           /\ ~part[r].cut /\ ~file[r].cut
    <3> TAKE r \in Places
    <3> HAVE r < p
    <3>1. r \in DOMAIN part <=> r \in DOMAIN file
      BY <2>1, PartOf
    <3>2. ASSUME r \in DOMAIN file
          PROVE  /\ part[r].track = file[r].track
                 /\ ~part[r].cut /\ ~file[r].cut
      <4>1. file[r].track = disk[r] /\ ~file[r].cut
        BY <3>2, FileOf
      <4>2. part[r].track = disk[r] /\ part[r].cut = (r = p)
        BY <3>2, <2>1, PartOf
      <4>3. ~part[r].cut
        BY <4>2, <2>1
      <4> QED BY <4>1, <4>2, <4>3
    <3> QED BY <3>1, <3>2
  <2> HIDE DEF file, part
  <2> QED BY <1>3, <2>2, <2>3, <2>4 DEF Reached, Fits
<1>4. ASSUME NEW q \in Places, q < p, ~RandomDEs, Reached(part, Image, q)
      PROVE  Apply(Image[q], part[q]) = [disk[q] EXCEPT !.real = Stale]
  <2>1. q <= p /\ q # p
    BY <1>1, <1>4, GeometryAssumption, SMT DEF Places
  <2>2. q \in DOMAIN file
    BY <1>4, PartOf DEF Reached
  <2>3. part[q].track = disk[q] /\ part[q].cut = (q = p)
    BY <2>1, <2>2, PartOf
  <2>4. ~part[q].cut
    BY <2>1, <2>3
  <2> QED BY <2>3, <2>4 DEF Apply
<1>5. t \in {Image[p], [Image[p] EXCEPT !.data = Torn]}
  <2>1. p \in DOMAIN file /\ p <= p
    BY <1>1, ZeroPlace, SMT
  <2>2. part[p].cut
    BY <1>1, <2>1, PartOf
  <2> QED BY <1>1, <2>2 DEF Kept, dsk_diff_load, Apply
<1>6. \A q \in Places : Kept(part)[q] = IF q < p THEN Saved(disk)[q]
                                         ELSE IF q = p THEN t ELSE Image[q]
  <2> TAKE q \in Places
  <2>1. CASE q < p /\ ~RandomDEs /\ Reached(part, Image, q)
    BY <2>1, <1>3, <1>4, SavedAtPlace DEF Kept, dsk_diff_load
  <2>2. CASE q < p /\ ~(~RandomDEs /\ Reached(part, Image, q))
    BY <2>2, <1>3, SavedAtPlace DEF Kept, dsk_diff_load
  <2>3. CASE ~(q < p) /\ q # p
    <3>1. q > p
      BY <2>3, <1>1, GeometryAssumption, SMT DEF Places
    <3> QED BY <2>3, <3>1, <1>2 DEF Kept, dsk_diff_load
  <2>4. CASE q = p
    <3>1. ~(p < p)
      BY <1>1, ZeroPlace, SMT
    <3> QED BY <2>4, <3>1
  <2> QED BY <2>1, <2>2, <2>3, <2>4
<1>7. Kept(part) = [q \in Places |-> IF q < p THEN Saved(disk)[q]
                                     ELSE IF q = p THEN t ELSE Image[q]]
  <2>1. Kept(part) = [q \in Places |-> Kept(part)[q]]
    BY DEF Kept, dsk_diff_load
  <2> HIDE DEF part, t
  <2> QED BY <1>6, <2>1
<1> QED BY <1>5, <1>7
(***************************************************************************)
(* Types.                                                                  *)
(***************************************************************************)
FileOK(file) ==
  /\ DOMAIN file \subseteq {p \in Places : Formatted(p)}
  /\ file \in [DOMAIN file -> [track : Track, cut : BOOLEAN]]
  /\ \A p, q \in DOMAIN file : file[p].cut => q <= p

\* What is inserted is a disk, whatever the file holds.
LEMMA KeptType ==
  ASSUME NEW file, FileOK(file)
  PROVE  Kept(file) \in [Places -> Track]
<1>1. ASSUME NEW p \in Places, p \in DOMAIN file
      PROVE  Apply(Image[p], file[p]) \in Track
  <2>1. file[p].track \in Track /\ Image[p] \in Track
    BY <1>1, ImageAssumption DEF FileOK
  <2>2. [Image[p] EXCEPT !.data = Torn] \in Track
    BY <2>1 DEF Track
  <2>3. [file[p].track EXCEPT !.real = Stale] \in Track
    BY <2>1 DEF Track
  <2> QED BY <2>2, <2>3 DEF Apply
<1>2. \A p \in Places : Reached(file, Image, p) => p \in DOMAIN file
  BY DEF Reached
<1> QED BY <1>1, <1>2, ImageAssumption DEF Kept, dsk_diff_load

\* The file of a disk is well formed, and so is what a save that ends early leaves of it.
LEMMA FileType ==
  ASSUME NEW disk \in [Places -> Track]
  PROVE  FileOK(dsk_diff(disk))
<1>1. DOMAIN dsk_diff(disk) \subseteq {p \in Places : Formatted(p)}
  BY FileOf
<1>2. ASSUME NEW p \in DOMAIN dsk_diff(disk)
      PROVE  dsk_diff(disk)[p] \in [track : Track, cut : BOOLEAN]
  <2>1. dsk_diff(disk)[p] = [track |-> disk[p], cut |-> FALSE] /\ p \in Places
    BY FileOf
  <2> QED BY <2>1
<1>3. dsk_diff(disk) = [p \in DOMAIN dsk_diff(disk) |-> dsk_diff(disk)[p]]
  BY DEF dsk_diff, File
<1>4. dsk_diff(disk) \in [DOMAIN dsk_diff(disk) -> [track : Track, cut : BOOLEAN]]
  BY <1>2, <1>3
<1>5. \A p \in DOMAIN dsk_diff(disk) : ~dsk_diff(disk)[p].cut
  BY FileOf
<1> QED BY <1>1, <1>4, <1>5 DEF FileOK

LEMMA CutsType ==
  ASSUME NEW disk \in [Places -> Track], NEW part \in Cuts(dsk_diff(disk))
  PROVE  FileOK(part)
<1> DEFINE file == dsk_diff(disk)
<1>1. FileOK(file) /\ \A q \in DOMAIN file : ~file[q].cut
  BY FileType, FileOf
<1> HIDE DEF file
<1>2. CASE part = NoFile
  BY <1>2 DEF NoFile, FileOK
<1>3. ASSUME NEW p \in DOMAIN file, part = Before(file, p)
      PROVE  FileOK(part)
  BY <1>1, <1>3 DEF Before, FileOK
<1>4. ASSUME NEW p \in DOMAIN file, part = UpTo(file, p)
      PROVE  FileOK(part)
  <2>1. DOMAIN part = {q \in DOMAIN file : q <= p}
    BY <1>4 DEF UpTo
  <2>2. \A q \in DOMAIN part : part[q] \in [track : Track, cut : BOOLEAN] /\ part[q].cut = (q = p)
    <3> TAKE q \in DOMAIN part
    <3>1. part[q] = [file[q] EXCEPT !.cut = (q = p)]
      BY <1>4, <2>1 DEF UpTo
    <3>2. file[q] \in [track : Track, cut : BOOLEAN]
      BY <1>1, <2>1 DEF FileOK
    <3> QED BY <3>1, <3>2
  <2>3. part = [q \in DOMAIN part |-> part[q]]
    BY <1>4 DEF UpTo
  <2>4. part \in [DOMAIN part -> [track : Track, cut : BOOLEAN]]
    BY <2>2, <2>3
  <2>5. \A q, r \in DOMAIN part : part[q].cut => r <= q
    BY <2>1, <2>2
  <2> QED BY <1>1, <2>1, <2>4, <2>5 DEF FileOK
<1> QED BY <1>2, <1>3, <1>4 DEF Cuts, file

LEMMA TypeInit == Init => TypeOK
BY DEF Init, TypeOK, NoFile

\* A disk stays a disk when fields of a track get values of their types.
LEMMA WrittenTrack ==
  ASSUME NEW disk \in [Places -> Track], NEW p \in Places, NEW c \in Contents,
         NEW new, new = [disk EXCEPT ![p].data = c.data, ![p].info = c.info]
  PROVE  new \in [Places -> Track] /\ new = [disk EXCEPT ![p] = new[p]]
<1>1. c.data \in {w.data : w \in Written} \cup {Torn} /\ c.info \in {w.info : w \in Written}
  BY DEF Written
<1>2. [disk[p] EXCEPT !.data = c.data, !.info = c.info] \in Track
  BY <1>1 DEF Track
<1> QED BY <1>2

LEMMA FormattedTrack ==
  ASSUME NEW disk \in [Places -> Track], NEW p \in Places, NEW c \in Contents, NEW n \in Counts,
         NEW new, new = [disk EXCEPT ![p].sectors = n, ![p].data = c.data, ![p].info = c.info]
  PROVE  new \in [Places -> Track] /\ new = [disk EXCEPT ![p] = new[p]]
<1>1. c.data \in {w.data : w \in Written} \cup {Torn} /\ c.info \in {w.info : w \in Written}
  BY DEF Written
<1>2. [disk[p] EXCEPT !.sectors = n, !.data = c.data, !.info = c.info] \in Track
  BY <1>1 DEF Track
<1> QED BY <1>2

LEMMA TypeNext == TypeOK /\ [Next]_vars => TypeOK'
<1> SUFFICES ASSUME TypeOK, [Next]_vars PROVE TypeOK'
  OBVIOUS
<1> USE DEF TypeOK
<1>0. FileOK(diff)
  BY DEF FileOK
<1>1. CASE attach_disk
  <2>1. Kept(diff) \in [Places -> Track]
    BY <1>0, KeptType
  <2> QED BY <1>1, <2>1 DEF attach_disk, Kept
<1>2. CASE Write
  <2>1. PICK p \in Places, c \in Contents :
          drive' = [drive EXCEPT ![p].data = c.data, ![p].info = c.info]
    BY <1>2 DEF Write
  <2>2. drive \in [Places -> Track]
    BY <1>2 DEF Write
  <2> HIDE DEF TypeOK
  <2>3. drive' \in [Places -> Track]
    BY <2>1, <2>2, WrittenTrack
  <2> QED BY <1>2, <2>3 DEF Write, TypeOK
<1>3. CASE Format
  <2>1. PICK p \in Places, c \in Contents, n \in Counts :
          drive' = [drive EXCEPT ![p].sectors = n, ![p].data = c.data, ![p].info = c.info]
    BY <1>3 DEF Format
  <2>2. drive \in [Places -> Track]
    BY <1>3 DEF Format
  <2> HIDE DEF TypeOK
  <2>3. drive' \in [Places -> Track]
    BY <2>1, <2>2, FormattedTrack
  <2> QED BY <1>3, <2>3 DEF Format, TypeOK
<1>4. CASE detach_disk
  <2>1. FileOK(diff')
    BY <1>0, <1>4, FileType DEF detach_disk, Ejected
  <2> QED BY <1>4, <2>1 DEF detach_disk, Ejected, FileOK
<1>5. CASE SaveFails
  <2>1. FileOK(diff')
    BY <1>0, <1>5, CutsType DEF SaveFails, Ejected
  <2> QED BY <1>5, <2>1 DEF SaveFails, Ejected, FileOK
<1>6. CASE Lose
  BY <1>6 DEF Lose, Ejected
<1>7. CASE UNCHANGED vars
  BY <1>7 DEF vars
<1> QED BY <1>1, <1>2, <1>3, <1>4, <1>5, <1>6, <1>7 DEF Next

\* Disk and file keep their types, whatever is written and wherever a save ends: the file never
\* has a track that is not formatted, nor one after a track that is cut (dsk_diff).
THEOREM TypeCorrect == Spec => []TypeOK
<1>1. TypeOK /\ UNCHANGED vars => TypeOK'
  BY TypeNext
<1> QED BY TypeInit, TypeNext, PTL DEF Spec

(***************************************************************************)
(* The refinement, step by step.                                           *)
(***************************************************************************)
LEMMA StoreInit == Init => Store!Init
BY KeptNothing DEF Init, Store!Init, Kept

LEMMA StoreNext == TypeOK /\ [Next]_vars => [Store!Next]_Store!vars
<1> SUFFICES ASSUME TypeOK, [Next]_vars PROVE [Store!Next]_Store!vars
  OBVIOUS
<1> DEFINE kept == dsk_diff_load(diff, Image)
<1>0. drive # NoDisk => drive \in [Places -> Track] /\ drive # NoDisk
  BY DEF TypeOK
<1>1. CASE attach_disk
  BY <1>1 DEF attach_disk, Store!Next, Store!Attach
<1>2. CASE Write
  <2>1. PICK p \in Places, c \in Contents :
          drive' = [drive EXCEPT ![p].data = c.data, ![p].info = c.info]
    BY <1>2 DEF Write
  <2> drive \in [Places -> Track]
    BY <1>0, <1>2 DEF Write
  <2>2. drive' \in [Places -> Track]
    BY <2>1, WrittenTrack
  <2>3. drive' # NoDisk
    BY <2>2, ImageAssumption
  <2>4. drive' = [drive EXCEPT ![p] = drive'[p]]
    BY <2>1, WrittenTrack
  <2> QED BY <1>2, <2>3, <2>4 DEF Write, Store!Next, Store!Change, TypeOK
<1>3. CASE Format
  <2>1. PICK p \in Places, c \in Contents, n \in Counts :
          drive' = [drive EXCEPT ![p].sectors = n, ![p].data = c.data, ![p].info = c.info]
    BY <1>3 DEF Format
  <2> drive \in [Places -> Track]
    BY <1>0, <1>3 DEF Format
  <2>2. drive' \in [Places -> Track]
    BY <2>1, FormattedTrack
  <2>3. drive' # NoDisk
    BY <2>2, ImageAssumption
  <2>4. drive' = [drive EXCEPT ![p] = drive'[p]]
    BY <2>1, FormattedTrack
  <2> QED BY <1>3, <2>3, <2>4 DEF Format, Store!Next, Store!Change
<1>4. CASE detach_disk
  <2>1. altered => kept' = Saved(drive)
    BY <1>0, <1>4, KeptSaved DEF detach_disk, Ejected, Kept
  <2>2. ~altered => kept' = kept
    BY <1>4 DEF detach_disk
  <2> QED BY <1>4, <2>1, <2>2 DEF detach_disk, Ejected, Store!Next, Store!Detach, Store!Empty
<1>5. CASE SaveFails
  <2>1. Store!Empty /\ altered
    BY <1>5 DEF SaveFails, Ejected, Store!Empty
  <2>2. CASE diff' = diff
    BY <2>1, <2>2 DEF Store!Next, Store!Fail
  <2>3. CASE diff' = NoFile
    <3>1. kept' = Image
      BY <2>3, KeptNothing DEF Kept
    <3>2. \A q \in Places : ~(q < 0)
      BY ZeroPlace, SMT
    <3>3. Image = [q \in Places |-> IF q < 0 THEN Saved(drive)[q]
                                    ELSE IF q = 0 THEN Image[0] ELSE Image[q]]
      BY <3>2, ImageAssumption
    <3> QED BY <2>1, <3>1, <3>3, ZeroPlace DEF Store!Next, Store!Fail
  <2>4. ASSUME NEW p \in DOMAIN dsk_diff(drive), diff' = Before(dsk_diff(drive), p)
        PROVE  Store!Fail
    <3>1. p \in Places
      BY FileOf
    <3>2. kept' = [q \in Places |-> IF q < p THEN Saved(drive)[q] ELSE Image[q]]
      BY <1>0, <2>1, <2>4, KeptBefore DEF Kept, Store!Empty
    <3>3. kept' = [q \in Places |-> IF q < p THEN Saved(drive)[q]
                                    ELSE IF q = p THEN Image[p] ELSE Image[q]]
      BY <3>2
    <3> QED BY <2>1, <3>1, <3>3 DEF Store!Fail
  <2>5. ASSUME NEW p \in DOMAIN dsk_diff(drive), diff' = UpTo(dsk_diff(drive), p)
        PROVE  Store!Fail
    <3>1. p \in Places
      BY FileOf
    <3>2. \E t \in {Image[p], [Image[p] EXCEPT !.data = Torn]} :
            kept' = [q \in Places |-> IF q < p THEN Saved(drive)[q]
                                      ELSE IF q = p THEN t ELSE Image[q]]
      BY <1>0, <2>1, <2>5, KeptUpTo DEF Kept, Store!Empty
    <3> QED BY <2>1, <3>1, <3>2 DEF Store!Fail
  <2> QED BY <1>5, <2>2, <2>3, <2>4, <2>5 DEF SaveFails, Cuts, Store!Next
<1>6. CASE Lose
  BY <1>6 DEF Lose, Ejected, Store!Next, Store!Fail, Store!Empty
<1>7. CASE UNCHANGED vars
  BY <1>7 DEF vars, Store!vars
<1> QED BY <1>1, <1>2, <1>3, <1>4, <1>5, <1>6, <1>7 DEF Next

\* Changes to a disk survive as DiskStore promises, for every disk: what is inserted again is what
\* was taken out but for the tracks that Saved names; a save that fails anywhere keeps the tracks
\* before the failure and tears one at most; nothing else changes what will be inserted.
THEOREM Refinement == Spec => ImplementsStore
<1>1. Init /\ [][Next]_vars /\ []TypeOK => Store!Init /\ [][Store!Next]_Store!vars
  BY StoreInit, StoreNext, PTL
<1> QED BY <1>1, TypeCorrect, PTL DEF Spec, ImplementsStore, Store!Spec

(***************************************************************************)
(* The sizes of sectors.                                                   *)
(***************************************************************************)
\* The formatted tracks of the image have sectors of one size.
OneSize == \A p \in Places : Formatted(p) => Image[p].real = Stale

LEMMA SizesNext ==
  ASSUME OneSize, TypeOK, SizesKept, [Next]_vars PROVE SizesKept'
<1>0. drive # NoDisk => drive \in [Places -> Track] /\ drive # NoDisk
  BY DEF TypeOK
<1>1. CASE attach_disk
  <2>1. ASSUME NEW p \in Places
        PROVE  dsk_diff_load(diff, Image)[p].real = Image[p].real
    <3>1. Image[p] \in Track
      BY ImageAssumption
    <3>2. CASE ~RandomDEs /\ Reached(diff, Image, p)
      <4>1. p \in DOMAIN diff /\ Formatted(p) /\ diff[p].track \in Track
        BY <3>2 DEF Reached, TypeOK
      <4>2. [Image[p] EXCEPT !.data = Torn].real = Image[p].real
        BY <3>1 DEF Track
      <4>3. [diff[p].track EXCEPT !.real = Stale].real = Image[p].real
        BY <4>1 DEF Track, OneSize
      <4> QED BY <3>2, <4>2, <4>3 DEF dsk_diff_load, Apply
    <3>3. CASE ~(~RandomDEs /\ Reached(diff, Image, p))
      BY <3>3 DEF dsk_diff_load
    <3> QED BY <3>2, <3>3
  <2> QED BY <1>1, <2>1 DEF attach_disk, SizesKept
<1>2. CASE Write
  BY <1>0, <1>2 DEF Write, SizesKept, Track
<1>3. CASE Format
  BY <1>0, <1>3 DEF Format, SizesKept, Track
<1>4. CASE detach_disk \/ SaveFails \/ Lose
  BY <1>4 DEF detach_disk, SaveFails, Lose, Ejected, SizesKept
<1>5. CASE UNCHANGED vars
  BY <1>5 DEF vars, SizesKept
<1> QED BY <1>1, <1>2, <1>3, <1>4, <1>5 DEF Next

\* For an image with sectors of one size the changes never alter the size that a sector is read
\* with, although it is taken from what another track has left in the buffer (slots.c:732).
THEOREM SizesOfOneSize == OneSize /\ Spec => []SizesKept
<1> SUFFICES ASSUME OneSize PROVE Spec => []SizesKept
  OBVIOUS
<1>1. Init => SizesKept
  BY DEF Init, SizesKept
<1>2. TypeOK /\ SizesKept /\ [Next]_vars => SizesKept'
  BY SizesNext
<1> QED BY <1>1, <1>2, TypeCorrect, PTL DEF Spec

=============================================================================
