------------------------------- MODULE MC_Memory -------------------------------
\* Instances of Memory.
EXTENDS Memory
=============================================================================
