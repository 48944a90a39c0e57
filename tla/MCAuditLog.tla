------------------------------ MODULE MCAuditLog -------------------------------
(***************************************************************************)
(* Instances of AuditLog for TLC.                                          *)
(***************************************************************************)
EXTENDS AuditLog, TLC

Interchangeable == Permutations(Appenders)
================================================================================
