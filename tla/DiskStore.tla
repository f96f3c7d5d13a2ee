------------------------------ MODULE DiskStore ------------------------------
(***************************************************************************)
(* What is promised of the changes a program makes to a disk: the image    *)
(* file stays as it is, and the disk that is inserted again is the disk    *)
(* that was taken out, but for the tracks of which less is kept (Saved).   *)
(***************************************************************************)
EXTENDS Naturals

CONSTANTS Places,        \* the tracks of both sides, 0 .. n, in the order of the file
          Image,         \* the tracks of the image file
          NoDisk, Torn,  \* an empty drive; data of which a part is old and a part new
          Saved(_)       \* what is kept of the tracks of a disk

VARIABLES drive, altered, kept

vars == <<drive, altered, kept>>

Init == drive = NoDisk /\ altered = FALSE /\ kept = Image

Attach == drive = NoDisk /\ drive' = kept /\ altered' = FALSE /\ UNCHANGED kept
\* A command that was cut short changes the disk and may not mark it as altered.
Change == /\ drive # NoDisk /\ drive' # NoDisk
          /\ \E p \in Places : \E t \in {drive'[p]} : drive' = [drive EXCEPT ![p] = t]
          /\ altered => altered'
          /\ UNCHANGED kept
Empty == drive # NoDisk /\ drive' = NoDisk /\ altered' = FALSE
Detach == Empty /\ kept' = IF altered THEN Saved(drive) ELSE kept
\* The tracks before the failure are kept, the ones after it are those of the image.
Fail == /\ Empty
        /\ \/ UNCHANGED kept
           \/ /\ altered
              /\ \E p \in Places : \E t \in {Image[p], [Image[p] EXCEPT !.data = Torn]} :
                   kept' = [q \in Places |-> IF q < p THEN Saved(drive)[q]
                                             ELSE IF q = p THEN t ELSE Image[q]]

Next == Attach \/ Change \/ Detach \/ Fail
Spec == Init /\ [][Next]_vars
=============================================================================
