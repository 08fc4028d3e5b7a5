----------------------------- MODULE MCIocIndex -----------------------------
(* Small instances of IocIndex for TLC. *)
EXTENDS IocIndex
=============================================================================
