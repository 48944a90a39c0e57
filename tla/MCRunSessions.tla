----------------------------- MODULE MCRunSessions -----------------------------
(***************************************************************************)
(* Instances of RunSessions for TLC: which endpoints are called, and the   *)
(* symmetry of the requests.                                               *)
(***************************************************************************)
EXTENDS RunSessions, TLC

AllOps == LockingOps \cup ReadingOps

Interchangeable == Permutations(Sessions)

================================================================================
