------------------------------ MODULE RunSessions ------------------------------
(***************************************************************************)
(* The row of one interactive run in execution_runs, and the HTTP requests *)
(* that change it concurrently (api/v1/runs.py on top of ExecutionService  *)
(* and HealingService).                                                    *)
(*                                                                         *)
(* Every request has its own SQLAlchemy session.  A session keeps the run  *)
(* object it loaded first (the identity map) and a later SELECT ... FOR    *)
(* UPDATE of the same row takes the row lock but does not refresh that     *)
(* object, so an operation that starts with get_run decides on a view that *)
(* may be older than the row.  An UPDATE writes the changed columns only,  *)
(* and becomes visible to the other sessions at commit, when the lock is   *)
(* released.  get_db commits after the handler also when the handler has   *)
(* turned a StateTransitionError into a 409 response: what a rejected      *)
(* request had written by then is kept.                                    *)
(***************************************************************************)
EXTENDS Naturals, FiniteSets

CONSTANTS Sessions,     \* concurrent requests, one database session each
          NoSession,    \* the row lock is free
          NSteps,       \* total_steps of the run
          Ops           \* the endpoints clients may call

VARIABLES row,          \* the committed row of the run
          lock,         \* the session holding the row lock, or NoSession
          pc,           \* [Sessions -> phase of the request]
          op,           \* [Sessions -> endpoint called]
          arg,          \* [Sessions -> step_index in the request]
          view,         \* [Sessions -> the session's copy of the row]
          dirty,        \* [Sessions -> columns flushed, not yet committed]
          result,       \* [Sessions -> what the response will say]
          claims,       \* history: /start answered 200 by taking a queued run
          accepted      \* history: [step -> times it was accepted as done]

vars == <<row, lock, pc, op, arg, view, dirty, result, claims, accepted>>

SM == INSTANCE RunStateMachine WITH status <- row.status

--------------------------------------------------------------------------------
\* Endpoints whose first access to the row is SELECT ... FOR UPDATE.
LockingOps == {"start", "pause", "resume", "cancel", "complete",
               "advance", "step_ok", "step_fail"}

\* Endpoints that load the run with get_run and lock it later.
ReadingOps == {"fail", "tab_closed", "recover", "heal_ok", "heal_fail"}

StepOps == {"step_ok", "step_fail"}

ASSUME SessionsAssumption == NoSession \notin Sessions
ASSUME NStepsAssumption == NSteps \in Nat \ {0}
ASSUME OpsAssumption == Ops \subseteq LockingOps \cup ReadingOps

\* MaxCursor bounds the cursor of a run that was revived after completing.
MaxCursor == NSteps + 1

Reasons == {"none", "user", "tab_closed", "error"}
Columns == {"status", "cursor", "reason", "ended", "error"}
Results == {"none", "ok", "claimed", "stepped", "rejected"}
Row == [status : SM!RunStatus, cursor : 0..MaxCursor, reason : Reasons,
        ended : BOOLEAN, error : BOOLEAN]

NewRow == [status |-> "queued", cursor |-> 0, reason |-> "none",
           ended |-> FALSE, error |-> FALSE]

TypeOK ==
    /\ row \in Row
    /\ lock \in Sessions \cup {NoSession}
    /\ pc \in [Sessions -> {"idle", "begun", "loaded", "pending"}]
    /\ op \in [Sessions -> LockingOps \cup ReadingOps]
    /\ arg \in [Sessions -> 0..NSteps]
    /\ view \in [Sessions -> Row]
    /\ dirty \in [Sessions -> SUBSET Columns]
    /\ result \in [Sessions -> Results]
    /\ claims \in Nat
    /\ accepted \in [0..MaxCursor -> Nat]

\* No request is being served; no step has been accepted yet.
InitSessions ==
    /\ lock = NoSession
    /\ pc = [s \in Sessions |-> "idle"]
    /\ op = [s \in Sessions |-> "start"]
    /\ arg = [s \in Sessions |-> 0]
    /\ view = [s \in Sessions |-> NewRow]
    /\ dirty = [s \in Sessions |-> {}]
    /\ result = [s \in Sessions |-> "none"]
    /\ accepted = [i \in 0..MaxCursor |-> 0]

\* create_run leaves the run queued, before its first step.
Init ==
    /\ row = NewRow
    /\ claims = 0
    /\ InitSessions

--------------------------------------------------------------------------------
(* The session: what its UPDATE statements write, and when.                *)

\* The columns a flush writes when the object has gone from old to new.
Changed(old, new) ==
    (IF old.status # new.status THEN {"status"} ELSE {})
    \cup (IF old.cursor # new.cursor THEN {"cursor"} ELSE {})
    \cup (IF old.reason # new.reason THEN {"reason"} ELSE {})
    \cup (IF old.ended # new.ended THEN {"ended"} ELSE {})
    \cup (IF old.error # new.error THEN {"error"} ELSE {})

MergedWhole(r, v, d) == v           \* mutant: UPDATE of every column

\* The row after the columns d of the view v have been written over it.
Merged(r, v, d) ==
    [status |-> IF "status" \in d THEN v.status ELSE r.status,
     cursor |-> IF "cursor" \in d THEN v.cursor ELSE r.cursor,
     reason |-> IF "reason" \in d THEN v.reason ELSE r.reason,
     ended  |-> IF "ended" \in d THEN v.ended ELSE r.ended,
     error  |-> IF "error" \in d THEN v.error ELSE r.error]

\* Mutants: an endpoint that looks at the run before it locks it.
ReadsFirstStart(o) == o \in ReadingOps \cup {"start"}
ReadsFirstCancel(o) == o \in ReadingOps \cup {"cancel"}
ReadsFirst(o) == o \in ReadingOps

\* Assigning run.status, as ExecutionService.transition does: ended_at is set
\* with a terminal status.
Move(r, target) ==
    [r EXCEPT !.status = target,
              !.ended = @ \/ target \in SM!Terminal]

\* The session takes the row lock and flushes: its object is now new, the
\* columns in cols are written, the response is decided.
Flush(s, new, cols, res) ==
    /\ lock = NoSession
    /\ lock' = s
    /\ pc' = [pc EXCEPT ![s] = "pending"]
    /\ view' = [view EXCEPT ![s] = new]
    /\ dirty' = [dirty EXCEPT ![s] = cols]
    /\ result' = [result EXCEPT ![s] = res]
    /\ UNCHANGED <<row, op, arg, claims, accepted>>

\* The object on which the session decides once it holds the lock: the one it
\* loaded before, or the row as the locking SELECT returns it.
Seen(s) == IF pc[s] = "loaded" THEN view[s] ELSE row

\* The session forgets the request, its objects, its writes and its answer.
Reset(s) ==
    /\ pc' = [pc EXCEPT ![s] = "idle"]
    /\ view' = [view EXCEPT ![s] = NewRow]
    /\ dirty' = [dirty EXCEPT ![s] = {}]
    /\ result' = [result EXCEPT ![s] = "none"]
    /\ op' = [op EXCEPT ![s] = "start"]
    /\ arg' = [arg EXCEPT ![s] = 0]

\* s serves endpoint o and has reached its locking statement.
AtLock(s, o) ==
    /\ op[s] = o
    /\ pc[s] = IF ReadsFirst(o) THEN "loaded" ELSE "begun"

\* Mutant: the transition does not look at the table.
TransitionUnchecked(s, target, new, res, kept) ==
    Flush(s, new, Changed(Seen(s), new), res)

\* A transition to target together with the other assignments in new, or the
\* 409 response that keeps what was written before it (kept).
TransitionOr(s, target, new, res, kept) ==
    IF SM!CanTransition(Seen(s).status, target)
    THEN Flush(s, new, Changed(Seen(s), new), res)
    ELSE Flush(s, kept, Changed(Seen(s), kept), "rejected")

--------------------------------------------------------------------------------
(* Requests that lock first.                                               *)

\* POST /start: transition to running, whatever the run was before.
Start(s) ==
    /\ AtLock(s, "start")
    /\ TransitionOr(s, "running", Move(Seen(s), "running"),
                    IF Seen(s).status = "queued" THEN "claimed" ELSE "ok", Seen(s))

Pause(s) ==
    /\ AtLock(s, "pause")
    /\ TransitionOr(s, "waiting_for_user",
                    [Move(Seen(s), "waiting_for_user") EXCEPT !.reason = "user"],
                    "ok", Seen(s))

\* resume refuses a run whose tab was closed; it leaves pause_reason alone.
Resume(s) ==
    /\ AtLock(s, "resume")
    /\ \/ /\ Seen(s).reason = "tab_closed"
          /\ Flush(s, Seen(s), {}, "rejected")
       \/ /\ Seen(s).reason # "tab_closed"
          /\ TransitionOr(s, "running", Move(Seen(s), "running"), "ok", Seen(s))

Cancel(s) ==
    /\ AtLock(s, "cancel")
    /\ TransitionOr(s, "canceled", Move(Seen(s), "canceled"), "ok", Seen(s))

Complete(s) ==
    /\ AtLock(s, "complete")
    /\ TransitionOr(s, "completed", Move(Seen(s), "completed"), "ok", Seen(s))

AdvancedLate(r) ==      \* mutant: > for >=
    LET next == [r EXCEPT !.cursor = @ + 1]
    IN  IF next.cursor > NSteps THEN Move(next, "completed") ELSE next

\* advance_step moves the cursor and completes the run after its last step.
Advanced(r) ==
    LET next == [r EXCEPT !.cursor = @ + 1]
    IN  IF next.cursor >= NSteps THEN Move(next, "completed") ELSE next

\* POST /advance_step names no step: it skips the one the cursor is at.
AdvanceStep(s) ==
    /\ AtLock(s, "advance")
    /\ \/ /\ Seen(s).status = "running"
          /\ Seen(s).cursor < MaxCursor
          /\ Flush(s, Advanced(Seen(s)), Changed(Seen(s), Advanced(Seen(s))), "stepped")
       \/ /\ Seen(s).status # "running"
          /\ Flush(s, Seen(s), {}, "rejected")

ReportApplies(s) ==
    /\ Seen(s).status \in {"running", "recovering"}
    /\ arg[s] = Seen(s).cursor

\* POST /step-result, success: error_summary is cleared before advance_step
\* turns out to need a running run.
StepSucceeded(s) ==
    /\ AtLock(s, "step_ok")
    /\ LET cleared == [Seen(s) EXCEPT !.error = FALSE]
       IN  \/ /\ ReportApplies(s)
              /\ Seen(s).status = "running"
              /\ Flush(s, Advanced(cleared), Changed(Seen(s), Advanced(cleared)), "stepped")
           \/ /\ ReportApplies(s)
              /\ Seen(s).status = "recovering"
              /\ Flush(s, cleared, Changed(Seen(s), cleared), "rejected")
           \/ /\ ~ReportApplies(s)
              /\ Flush(s, Seen(s), {}, "rejected")

Failed(r) == [Move(r, "failed") EXCEPT !.error = TRUE]

\* POST /step-result, failure: the run fails.
StepFailed(s) ==
    /\ AtLock(s, "step_fail")
    /\ \/ /\ ReportApplies(s)
          /\ Flush(s, Failed(Seen(s)), Changed(Seen(s), Failed(Seen(s))), "ok")
       \/ /\ ~ReportApplies(s)
          /\ Flush(s, Seen(s), {}, "rejected")

--------------------------------------------------------------------------------
(* Requests that load the run first.                                       *)

\* tab_closed leaves alone a run without an active tab, and one whose closed
\* tab is already recorded.
TabClosedIgnored(r) == r.status \notin SM!Active \/ r.reason = "tab_closed"

\* get_run: the session keeps the row as it is committed now.
ReadRun(s) ==
    /\ pc[s] = "begun"
    /\ ReadsFirst(op[s])
    /\ \/ /\ op[s] = "tab_closed" /\ TabClosedIgnored(row)
          /\ Reset(s)
       \/ /\ op[s] # "tab_closed" \/ ~TabClosedIgnored(row)
          /\ pc' = [pc EXCEPT ![s] = "loaded"]
          /\ view' = [view EXCEPT ![s] = row]
          /\ UNCHANGED <<op, arg, dirty, result>>
    /\ UNCHANGED <<row, lock, claims, accepted>>

\* POST /fail writes error_summary before it asks for the transition.
Fail(s) ==
    /\ AtLock(s, "fail")
    /\ TransitionOr(s, "failed", Failed(Seen(s)), "ok", [Seen(s) EXCEPT !.error = TRUE])

\* POST /tab-closed stamps a run that already waits, else makes it wait.
TabClosed(s) ==
    /\ AtLock(s, "tab_closed")
    /\ LET stamped == [Seen(s) EXCEPT !.reason = "tab_closed"]
       IN  \/ /\ Seen(s).status = "waiting_for_user"
              /\ Flush(s, stamped, Changed(Seen(s), stamped), "ok")
           \/ /\ Seen(s).status # "waiting_for_user"
              /\ TransitionOr(s, "waiting_for_user", Move(stamped, "waiting_for_user"),
                              "ok", Seen(s))

\* The two ends of a healing attempt.
Healed(r) == Move(r, "running")
NotHealed(r) == [Move(r, "waiting_for_user") EXCEPT !.reason = "error"]

\* POST /recover: recovering is flushed, then the answer of the model decides,
\* under the same lock.  Both UPDATEs write the status column.
Recover(s) ==
    /\ AtLock(s, "recover")
    /\ \/ /\ SM!CanTransition(Seen(s).status, "recovering")
          /\ \E new \in {Healed(Seen(s)), NotHealed(Seen(s))} :
                Flush(s, new, {"status"} \cup Changed(Seen(s), new), "ok")
       \/ /\ ~SM!CanTransition(Seen(s).status, "recovering")
          /\ Flush(s, Seen(s), {}, "rejected")

\* POST /heal-result.
HealSucceeded(s) ==
    /\ AtLock(s, "heal_ok")
    /\ TransitionOr(s, "running", Healed(Seen(s)), "ok", Seen(s))

HealFailed(s) ==
    /\ AtLock(s, "heal_fail")
    /\ TransitionOr(s, "waiting_for_user", NotHealed(Seen(s)), "ok", Seen(s))

--------------------------------------------------------------------------------
(* The life of a request.                                                  *)

\* A client calls an endpoint; only step reports name a step.
Begin(s) ==
    /\ pc[s] = "idle"
    /\ \E o \in Ops, i \in 0..NSteps :
          /\ o \notin StepOps => i = 0
          /\ op' = [op EXCEPT ![s] = o]
          /\ arg' = [arg EXCEPT ![s] = i]
    /\ pc' = [pc EXCEPT ![s] = "begun"]
    /\ UNCHANGED <<row, lock, view, dirty, result, claims, accepted>>

LeakLock(s) == UNCHANGED lock      \* mutant: a transaction left open
ReleaseLock(s) == lock' = IF lock = s THEN NoSession ELSE lock

\* The step a request reported, or skipped.
StepDone(s) == IF op[s] = "step_ok" THEN arg[s] ELSE view[s].cursor - 1

\* get_db commits and the response leaves.
Commit(s) ==
    /\ pc[s] = "pending"
    /\ row' = Merged(row, view[s], dirty[s])
    /\ claims' = IF result[s] = "claimed" THEN claims + 1 ELSE claims
    /\ accepted' = IF result[s] = "stepped"
                   THEN [accepted EXCEPT ![StepDone(s)] = @ + 1]
                   ELSE accepted
    /\ ReleaseLock(s)
    /\ Reset(s)

\* The request dies (an exception, a lost connection, a restart of the backend)
\* and the database rolls its transaction back.
Crash(s) ==
    /\ pc[s] # "idle"
    /\ ReleaseLock(s)
    /\ Reset(s)
    /\ UNCHANGED <<row, claims, accepted>>

LockAndDecide(s) ==
    \/ Start(s) \/ Pause(s) \/ Resume(s) \/ Cancel(s) \/ Complete(s)
    \/ AdvanceStep(s) \/ StepSucceeded(s) \/ StepFailed(s)
    \/ Fail(s) \/ TabClosed(s) \/ Recover(s) \/ HealSucceeded(s) \/ HealFailed(s)

Next == \E s \in Sessions :
            Begin(s) \/ ReadRun(s) \/ LockAndDecide(s) \/ Commit(s) \/ Crash(s)

Spec == Init /\ [][Next]_vars

\* The event loop runs every handler that can go on, and PostgreSQL grants a
\* contended row lock in arrival order.  Clients need not call, nothing crashes
\* for ever.
Fairness == \A s \in Sessions :
                /\ WF_vars(ReadRun(s))
                /\ WF_vars(Commit(s))
                /\ SF_vars(LockAndDecide(s))

FairSpec == Spec /\ Fairness

--------------------------------------------------------------------------------
(* Properties.                                                             *)

\* "If two competitors race only one wins": a queued run is claimed at most
\* once, whatever else happens to it and however /start requests interleave.
OneClaim == claims <= 1

\* Every step below the cursor was accepted exactly once, by a report naming it
\* or by a skip, and none above it: concurrent and repeated reports of a step
\* never lose one another, skip a step or count twice.
ExactlyOnceSteps ==
    \A i \in 0..MaxCursor : accepted[i] = IF i < row.cursor THEN 1 ELSE 0

\* The cursor passes the last step only together with completion: nobody can
\* read a run that is still running with no step left to drive.
LastStepCompletes == row.cursor >= NSteps => row.status = "completed"

\* ended_at is there exactly for a run that has ended: no request takes a run
\* back out of a terminal status, or ends it without saying when.
EndedIsTerminal == row.ended <=> row.status \in SM!Terminal

\* What readers of the row see moves along the table of core/state_machine.py,
\* out of every interleaving of transactions: a terminal status is final.
ImplementsStateMachine == SM!Spec

\* Only a view taken before a run ended can move the run after it has ended: a
\* request that looks at the row under its lock leaves a terminal status alone, and
\* so does one that has loaded the run ended.
OnlyOldViewsReopen ==
    [][\A s \in Sessions :
          (/\ pc[s] # "pending" /\ pc'[s] = "pending"
           /\ row.status \in SM!Terminal /\ "status" \in dirty'[s])
             => pc[s] = "loaded" /\ view[s].status \notin SM!Terminal]_vars

\* Every request gets its answer: the row lock is always handed on.
EveryRequestEnds == \A s \in Sessions : pc[s] # "idle" ~> pc[s] = "idle"

================================================================================
