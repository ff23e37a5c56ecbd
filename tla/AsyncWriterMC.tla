--------------------------- MODULE AsyncWriterMC ---------------------------
(* Model values and the symmetry of the calls for TLC's runs of AsyncWriter. *)
EXTENDS AsyncWriter, TLC

\* Two Writes (two Flushes) are told apart only by when they run.  Sound for
\* invariants; the runs that check liveness do not use it.
CallSymmetry == Permutations(Writes) \cup Permutations(Flushes)
=============================================================================
