--------------------------- MODULE MultiWriterMC ---------------------------
(* Instances of MultiWriter for TLC: the writers NewMultiWriter is given.   *)
EXTENDS MultiWriter

CONSTANTS s1, s2

Pair == <<s1, s2>>
=============================================================================
