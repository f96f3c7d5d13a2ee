--------------------------- MODULE MC_DiskControl ---------------------------
(***************************************************************************)
(* An instance of DiskControl for TLC.                                     *)
(***************************************************************************)
EXTENDS DiskControl, TLC

CONSTANTS d1, d2, bad, t1, cart, zip

TwoDisks  == {d1, d2, bad}
OneTape   == {t1}
OneCart   == {cart}
OneZip    == {zip}
BadDisk   == {bad}

\* Mixed lists, some that do not fit, and some that start with a cartridge.
SomePlaylists ==
  UNION {{<<d, t1>>, <<t1, d>>, <<cart, d>>} \cup {<<d, e, t1, d>> : e \in {d1, d2} \ {d}}
           : d \in {d1, d2}}

\* The two disks are interchangeable.
Symmetry == Permutations({d1, d2})
=============================================================================
