---------------------------- MODULE MC_DiskDiff ----------------------------
EXTENDS DiskDiff, TLC

\* Two tracks of two sides: one is longer than that on side 0, one not formatted.
McTrack(n, real) == [sectors |-> n, info |-> "id", real |-> real, data |-> "old"]
McSize == (0 :> 4) @@ (1 :> 6) @@ (2 :> 4) @@ (3 :> 0)
McImage == (0 :> McTrack(1, 2)) @@ (1 :> McTrack(1, 2)) @@ (2 :> McTrack(1, 2)) @@ (3 :> McTrack(0, 0))
\* A track is written, or what it already has is written with another flag.
McContents == {[data |-> "new", info |-> "other"], [data |-> "old", info |-> "other"]}
\* The last track has sectors of another size.
MixedImage == [McImage EXCEPT ![2] = McTrack(1, 1)]
=============================================================================
