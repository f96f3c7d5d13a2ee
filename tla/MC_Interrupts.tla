---------------------------- MODULE MC_Interrupts ----------------------------
\* Instances of Interrupts.
EXTENDS Interrupts, TLC

File(r0, r4, r5, r7, r9) ==
  0 :> r0 @@ 2 :> 1 @@ 3 :> [hsw |-> 1, vsw |-> 2] @@ 4 :> r4 @@ 5 :> r5 @@ 7 :> r7 @@ 9 :> r9
\* Lines of four characters, frames of ten lines, two of them an adjustment; VSYNC may be
\* switched off.
SmallFile == File(3, 1, 2, 1, 3)
SmallWrites == {<<7, 3>>}
\* Lines twice as long as the monitor's.
LongLines == {<<0, 7>>, <<7, 3>>}
=============================================================================
