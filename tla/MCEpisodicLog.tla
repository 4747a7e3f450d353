--------------------------- MODULE MCEpisodicLog ---------------------------
(***************************************************************************)
(* Small instances of EpisodicLog.  Threads are interchangeable, which the *)
(* run with a temporal property may not use.                               *)
(***************************************************************************)
EXTENDS EpisodicLog

Symmetry == Permutations(Thread)
=============================================================================
