-------------------------------- MODULE WorkItems --------------------------------
(***************************************************************************)
(* What the recruiter automation promises of a piece of work it has        *)
(* queued: it comes to one end, once.  Either a run of it completes and    *)
(* the pipeline advances on it, or its failure is put before the recruiter.*)
(***************************************************************************)
CONSTANT Works              \* the pieces of work

VARIABLE outcome            \* [Works -> how the work ended]

Outcomes == {"pending", "advanced", "surfaced"}

Init == outcome = [w \in Works |-> "pending"]

Settle(w) ==
    /\ outcome[w] = "pending"
    /\ \E o \in Outcomes \ {"pending"} : outcome' = [outcome EXCEPT ![w] = o]

Next == \E w \in Works : Settle(w)

Spec == Init /\ [][Next]_outcome

================================================================================
