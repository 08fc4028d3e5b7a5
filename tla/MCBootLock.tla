----------------------------- MODULE MCBootLock -----------------------------
(***************************************************************************)
(* Instances of BootLock for TLC.  One tick stands for 2.5 s in the run    *)
(* with TTL = 12 and HB = 4, for 10 s in those with TTL = 3 and HB = 1.    *)
(***************************************************************************)
EXTENDS BootLock, TLC

Symmetry == Permutations(Procs)
=============================================================================
