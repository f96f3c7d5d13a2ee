------------------------------- MODULE MC_FDC -------------------------------
(***************************************************************************)
(* Instances of FDC for TLC: small disks, and what the CPU and the host do *)
(* with them.                                                              *)
(***************************************************************************)
EXTENDS FDC

SectorWith(id, off, size, st2) ==
  [BlankSector EXCEPT !.id = id, !.off = off, !.size = size, !.st2 = st2, !.weak = 1]

TrackOf(entries, bytes) ==
  [BlankTrack EXCEPT !.sectors = Len(entries), !.size = bytes, !.room = bytes,
     !.own = "live",
     !.tab = [i \in 0 .. SectorMax - 1 |->
                IF i < Len(entries) THEN entries[i + 1] ELSE BlankSector]]

DiskOf(t) == [NoDisk EXCEPT !.tracks = 1, !.track[0][0] = t]

\* Two sectors of one byte each on cylinder 0; cylinder 1 is not formatted.
Plain == DiskOf(TrackOf(<<SectorWith(<<0, 0, 1, 0>>, 0, 1, {}),
                          SectorWith(<<0, 0, 2, 0>>, 1, 1, {})>>, 2))
\* A weak sector in two versions, a sector with a control mark, one whose ID has
\* cylinder &FF and one on another cylinder.
Mixed == DiskOf(TrackOf(<<[SectorWith(<<0, 0, 1, 0>>, 0, 1, {}) EXCEPT !.weak = 2],
                          SectorWith(<<0, 0, 2, 0>>, 2, 1, {"CM"}),
                          SectorWith(<<FF, 0, 1, 0>>, 3, 1, {}),
                          SectorWith(<<1, 0, 1, 0>>, 4, 1, {})>>, 5))
\* Two sectors whose IDs have head 1.
Headed == DiskOf(TrackOf(<<SectorWith(<<0, 1, 1, 0>>, 0, 1, {}),
                           SectorWith(<<0, 1, 2, 0>>, 1, 1, {})>>, 2))

OnlyPlain == {Plain}
OnlyMixed == {Mixed}
OnlyHeaded == {Headed}

\* Command bytes: unit and head, C, H, R, N, EOT, GPL, DTL or STP.
Params(u, c, h, r, n, eot, dtl) ==
  <<u, c, h, r, n, eot, {0}, dtl>>
Narrow   == Params({0},       {0},    {0}, {1}, {0},    {1, 2}, {1})
Moves    == Params({0},       {0},    {1}, {1}, {0},    {0, 2}, {1})
Wide     == Params({0, 1, 4}, {0, 3}, {0}, {1}, {0},    {1},    {1})
Sectors  == Params({0},       {0},    {0}, {1}, {0, 1}, {1, 3, 4}, {1})
Beyond   == Params({0},       {0},    {0}, {1}, {0},    {3},    {1})

OneId   == {<<0, 0, 1, 0>>}
HeadedId == {<<0, 1, 1, 0>>}

Skip(c) == c + 32
ControlCommands  == {Specify, DrvStat, Recalib, IntStat, Seek, ReadID, 31}
TransferCommands == {Read, Write, ReadTrk, WriteID, ScanEqual}
ReadAndWrite == {Read, Skip(Read), ReadDel, ReadTrk, Write}
JustWrite   == {Write}
JustRead    == {Read}
JustScan    == {ScanEqual}
=============================================================================
