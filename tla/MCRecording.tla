------------------------------ MODULE MCRecording ------------------------------
(***************************************************************************)
(* The extension and the other clients share no state in the backend but   *)
(* the bound on faults: a client without a key never looks at the cache.   *)
(* One instance therefore explores each of them alone.                     *)
(***************************************************************************)
EXTENDS Recording

\* Either the person records or other clients call.
Apart == Recordings = {} \/ Calls = {}
================================================================================
