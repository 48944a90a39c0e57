---------------------------- MODULE RunStateMachine ----------------------------
(***************************************************************************)
(* What core/state_machine.py promises about the status of one run: the    *)
(* table of allowed transitions, and nothing else.  It is the abstract     *)
(* specification that the modules handling the row of a run implement.     *)
(***************************************************************************)
EXTENDS FiniteSets

VARIABLE status

RunStatus == {"idle", "recording", "validated", "queued", "running",
              "waiting_for_user", "recovering", "failed", "completed", "canceled"}

\* _TRANSITIONS, one field per source status.
Transitions ==
    [idle             |-> {"recording", "queued", "canceled"},
     recording        |-> {"validated", "canceled"},
     validated        |-> {"queued", "idle"},
     queued           |-> {"running", "canceled", "failed"},
     running          |-> {"waiting_for_user", "recovering", "failed",
                           "completed", "canceled"},
     waiting_for_user |-> {"running", "recovering", "canceled", "failed"},
     recovering       |-> {"running", "waiting_for_user", "failed", "canceled"},
     failed           |-> {},
     completed        |-> {},
     canceled         |-> {}]

CanTransition(current, target) == target \in Transitions[current]

Terminal == {"failed", "completed", "canceled"}

\* The states in which a browser tab is attached to the run.
Active == {"running", "recovering", "waiting_for_user"}

--------------------------------------------------------------------------------
\* A run is created QUEUED (create_run, rerun, relaunch and the webhook all do).
Init == status = "queued"

Next == \E target \in RunStatus :
            /\ CanTransition(status, target)
            /\ status' = target

Spec == Init /\ [][Next]_status

================================================================================
