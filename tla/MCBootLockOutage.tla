-------------------------- MODULE MCBootLockOutage --------------------------
EXTENDS BootLockOutage, TLC

Symmetry == Permutations(Procs)
=============================================================================
