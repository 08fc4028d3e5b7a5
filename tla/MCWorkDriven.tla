---------------------------- MODULE MCWorkDriven ----------------------------
(***************************************************************************)
(* Instances of WorkDriven for TLC: a window of two ticks (15 s each).     *)
(***************************************************************************)
EXTENDS WorkDriven
=============================================================================
