------------------------------ MODULE AgentLoop ------------------------------
(***************************************************************************)
(* The loop that replays one run under the eyes of an AI: the extension    *)
(* polls the backend with its step index, the backend answers with a       *)
(* decision (AgentService.poll), the extension acts and reports            *)
(* (AgentService.report_result).  The budgets of SAFETY_LIMITS live in the *)
(* memory of the backend, the cursor and the plan in the row of the run,   *)
(* a second index in the extension.                                        *)
(*                                                                         *)
(* A poll awaits the AI once in stage "ai" and once per recovery cycle in  *)
(* stage "recovery"; everything else may happen in between.  The rest of a *)
(* handler is one step here: RunSessions models its reads and its lock.    *)
(* The answer of the AI and what the page shows are arbitrary.             *)
(***************************************************************************)
EXTENDS PlanUpdates, FiniteSets

CONSTANTS Recorded,        \* the plan the run starts with
          Inventable,      \* steps that an edit of the plan can bring in
          Proposals,       \* edits of the plan that the AI can come up with
          Checkpoints,     \* steps with the checkpoint flag
          Unconsulted,     \* scroll steps without selectors: never put to the AI
          WithAI,          \* a provider is configured and deterministic_only is off
          HasUrl,          \* a restart or checkpoint URL can always be resolved
          MaxStepWaits, MaxTotalWaits, MaxRestarts, MaxRollbacks,
          MaxUnusable, MaxNoTarget,   \* SAFETY_LIMITS
          Window,          \* ticks of the recovery window of a step
          PauseRePolls,    \* polls that the extension spends on a paused run
          MaxTrouble,      \* bound: batches of plan edits and disturbances
          Disturbances     \* subset of {"person", "tab", "supervisor", "restart"}

VARIABLES run,      \* status, cursor, closed (pause_reason is tab_closed), last (step of the last event)
          plan,     \* the steps of the snapshot
          mem,      \* the dictionaries at the top of agent_service.py, for this run
          poll,     \* the poll that is being handled
          client,   \* the loop of the extension
          seen      \* history: steps that ran, edits, whether a restart went astray, troubles,
                    \* whether the run goes on without the loop having said so (loose)

vars == <<run, plan, mem, poll, client, seen>>

SM == INSTANCE RunStateMachine WITH status <- run.status

None == -1
Nothing == "nothing"
Steps == {Recorded[i] : i \in DOMAIN Recorded} \cup Inventable
MaxLen == Len(Recorded) + 2 * MaxTrouble
Positions == 0..MaxLen

ASSUME AgentAssumption ==
    /\ Recorded \in Seq(Steps) /\ Recorded # <<>>
    /\ Nothing \notin Steps
    /\ Proposals \subseteq [op : {"INSERT", "MODIFY", "REMOVE", "REORDER"},
                            at : Int, new : Inventable, with : Int]
    /\ {WithAI, HasUrl} \subseteq BOOLEAN
    /\ {MaxStepWaits, MaxTotalWaits, MaxRestarts, MaxRollbacks, MaxUnusable,
        MaxNoTarget, Window, PauseRePolls, MaxTrouble} \subseteq Nat

\* The edits that an answer of the AI may carry, besides none.
NewEdits == {<<>>} \cup IF seen.edits + seen.trouble < MaxTrouble THEN {<<e>> : e \in Proposals} ELSE {}

--------------------------------------------------------------------------------
\* Nothing is known of the run: a new process, or _clear_recovery_state.
Forgotten == [active |-> None, age |-> 0, waits |-> 0, total |-> 0, restarts |-> 0,
              rollbacks |-> 0, unusable |-> 0, noTarget |-> [i \in Positions |-> 0]]

Idle == [stage |-> "none", step |-> 0, trigger |-> "none", base |-> <<>>,
         real |-> TRUE, dirty |-> FALSE]

Init ==
    /\ run = [status |-> "queued", cursor |-> 0, closed |-> FALSE, last |-> None]
    /\ plan = Recorded
    /\ mem = Forgotten
    /\ poll = Idle
    /\ client = [phase |-> "ready", index |-> 0, len |-> Len(Recorded), pauses |-> 0,
                 task |-> Nothing]
    /\ seen = [ran |-> {}, edits |-> 0, strayed |-> FALSE, goal |-> FALSE, trouble |-> 0,
               loose |-> FALSE]

Ended == run.status \in SM!Terminal

\* A transition whose refusal the caller suppresses.
To(r, target) ==
    IF SM!CanTransition(r.status, target) THEN [r EXCEPT !.status = target] ELSE r

\* A pause leaves a run_paused event, which names no step.
Paused(r) ==
    IF SM!CanTransition(r.status, "waiting_for_user")
    THEN [r EXCEPT !.status = "waiting_for_user", !.last = None, !.closed = FALSE]
    ELSE r

\* _transition_to_running, for a run that is not owned by the daemon.
Resumed(r) ==
    IF r.status \in {"queued", "recovering", "waiting_for_user"} THEN To(r, "running") ELSE r

\* MUTANT: every poll opens the window of its step anew.
TouchedAnew(i) == [Forgotten EXCEPT !.active = i]
\* Another step is in hand: every budget starts anew, its window too.
Touched(i) == IF mem.active = i THEN mem ELSE [Forgotten EXCEPT !.active = i]

Expired(m) == m.active # None /\ m.age >= Window

\* The reply d of the backend as the extension takes it.
Heard(d, next, edits, task) ==
    LET c == MirrorEdits([index |-> client.index, len |-> client.len], edits)
    IN  [client EXCEPT
           !.index = CASE d = "RESTART" -> 0
                       [] d \in {"ROLLBACK", "SKIP"} -> next
                       [] OTHER -> c.index,
           !.len = c.len,
           !.pauses = IF d = "PAUSE" THEN @ + 1 ELSE 0,
           !.task = task,
           !.phase = CASE d = "COMPLETED" -> "completing"
                       [] d \in {"EXECUTE", "ADAPT"} -> "acting"
                       [] d = "PAUSE" /\ client.pauses + 1 >= PauseRePolls -> "stopped"
                       [] OTHER -> "ready"]

Replies(d, next, edits, task) ==
    /\ client' = Heard(d, next, edits, task)
    /\ poll' = Idle

--------------------------------------------------------------------------------
\* The poll up to the AI.  A client index beyond the plan is taken for drift.
StepIndex == IF client.index >= Len(plan) /\ run.cursor < Len(plan)
             THEN run.cursor ELSE client.index

Polls == client.phase = "ready" /\ poll.stage = "none"

\* _should_consult_ai, unless the deployment or the dashboard has switched it off.
Consulted(step) == WithAI /\ step \notin Unconsulted

\* The extension ends its loop with a pause: the page shows a challenge, an
\* answer was lost, or anything else was thrown.
ClientPauses ==
    /\ Polls \/ client.phase = "acting"
    /\ run' = Paused(run)
    /\ client' = [client EXCEPT !.phase = "stopped"]
    /\ UNCHANGED <<plan, mem, poll, seen>>

\* The tab is gone, or the script of the command cannot be parsed.
ClientFails ==
    /\ Polls \/ client.phase = "acting"
    /\ run' = IF SM!CanTransition(run.status, "failed") THEN To(run, "failed")
              ELSE Paused(run)
    /\ client' = [client EXCEPT !.phase = "stopped"]
    /\ UNCHANGED <<plan, mem, poll, seen>>

PollEnded ==
    /\ Polls
    /\ Ended \/ StepIndex >= Len(plan)
    /\ Replies("COMPLETED", 0, <<>>, Nothing)
    /\ mem' = Forgotten
    /\ UNCHANGED <<run, plan, seen>>

\* _goal_predicate_satisfied: the page shows that the goal is reached.
PollGoal ==
    /\ Polls /\ ~Ended /\ StepIndex < Len(plan)
    /\ run' = To(run, "completed")
    /\ seen' = [seen EXCEPT !.goal = TRUE]
    /\ Replies("COMPLETED", 0, <<>>, Nothing)
    /\ mem' = Forgotten
    /\ UNCHANGED plan

\* _fail_on_step_recovery_timeout, before any decision.
PollExpired ==
    /\ Polls /\ ~Ended /\ StepIndex < Len(plan)
    /\ Expired(Touched(StepIndex))
    /\ run' = To(run, "failed")
    /\ mem' = Forgotten
    /\ Replies("PAUSE", 0, <<>>, Nothing)
    /\ UNCHANGED <<plan, seen>>

\* MUTANT: the status is not looked at before the quick path.
PollPlainEnded ==
    /\ Polls /\ StepIndex < Len(plan)
    /\ ~Expired(Touched(StepIndex))
    /\ ~Consulted(plan[StepIndex + 1])
    /\ mem' = [Touched(StepIndex) EXCEPT !.waits = 0]
    /\ run' = Resumed(run)
    /\ Replies("EXECUTE", 0, <<>>, plan[StepIndex + 1])
    /\ UNCHANGED <<plan, seen>>

\* Without AI the step is executed, whatever became of the attempts before.
PollPlain ==
    /\ Polls /\ ~Ended /\ StepIndex < Len(plan)
    /\ ~Expired(Touched(StepIndex))
    /\ ~Consulted(plan[StepIndex + 1])
    /\ mem' = [Touched(StepIndex) EXCEPT !.waits = 0]
    /\ run' = Resumed(run)
    /\ Replies("EXECUTE", 0, <<>>, plan[StepIndex + 1])
    /\ UNCHANGED <<plan, seen>>

\* What the AI is asked, _consult_ai_for_step: about the step, with the plan as it is.
Question == [stage |-> "ai", step |-> StepIndex, trigger |-> "none", base |-> plan,
             real |-> TRUE, dirty |-> FALSE]

PollConsults ==
    /\ Polls /\ ~Ended /\ StepIndex < Len(plan)
    /\ ~Expired(Touched(StepIndex))
    /\ Consulted(plan[StepIndex + 1])
    /\ mem' = Touched(StepIndex)
    /\ poll' = Question
    /\ client' = [client EXCEPT !.phase = "waiting"]
    /\ UNCHANGED <<run, plan, seen>>

--------------------------------------------------------------------------------
\* What an answer of the AI leads to.  A world w holds the four variables that
\* the handler writes: run, plan, mem, seen.
Becomes(w) == run' = w.run /\ plan' = w.plan /\ mem' = w.mem /\ seen' = w.seen

StepOf(w) == IF poll.step < Len(w.plan) THEN w.plan[poll.step + 1] ELSE Nothing

\* A batch of edits is applied to the snapshot read when the handler last
\* loaded the run.
Edited(edits) == IF edits = <<>> THEN plan ELSE ApplyPlanUpdate(poll.base, edits)

World(edits, p) ==
    [run |-> run, plan |-> p, mem |-> mem,
     seen |-> IF edits = <<>> THEN seen ELSE [seen EXCEPT !.edits = @ + 1]]

\* Edits that come with a decision are applied by _consult_ai_for_step and,
\* in the main branch of poll, a second time.
OnceEdited(edits) == World(edits, Edited(edits))
TwiceEdited(edits) == World(edits, ApplyPlanUpdate(Edited(edits), edits))

\* _autonomous_recovery_cycle: refresh, count the cycle, ask the AI once more.
\* It may be entered with an empty step.
Recovers(w, real, trigger) ==
    /\ Becomes(w)
    /\ poll' = [poll EXCEPT !.stage = "recovery", !.trigger = trigger, !.real = real,
                            !.base = w.plan,
                            !.dirty = @ \/ w.run # run \/ w.plan # plan]
    /\ UNCHANGED client

\* _handle_wait_decision.
WaitsOrRecovers(w) ==
    IF w.mem.waits >= MaxStepWaits \/ w.mem.total >= MaxTotalWaits
    THEN Recovers(w, StepOf(w) # Nothing, "wait_limit_reached")
    ELSE /\ Becomes([w EXCEPT !.mem.waits = @ + 1, !.mem.total = @ + 1])
         /\ Replies("WAIT", 0, <<>>, Nothing)

\* _fallback_after_ai_failure: a command built without the AI if the step is
\* known and of a fitting kind; a wait if the page is in transition; recovery.
FallsBack(w, real) ==
    \/ real /\ Becomes(w) /\ Replies("EXECUTE", 0, <<>>, StepOf(w))
    \/ WaitsOrRecovers(w)
    \/ Recovers(w, real, "ai_unusable_output")

\* MUTANT: the cursor of the run stays where it was.
RestartsHalf(w) ==
    IF w.mem.restarts >= MaxRestarts THEN FallsBack(w, FALSE)
    ELSE /\ Becomes([w EXCEPT !.mem.restarts = @ + 1, !.plan = Recorded])
         /\ Replies("RESTART", 0, <<>>, Nothing)

\* The run is to begin again, with the steps it was created with.
ResetToStart(w) == [w EXCEPT !.mem.restarts = @ + 1, !.run.cursor = 0, !.plan = Recorded]

\* _handle_restart_decision: the reset comes before the URL is looked for.
Restarts(w) ==
    IF w.mem.restarts >= MaxRestarts THEN FallsBack(w, FALSE)
    ELSE LET reset == ResetToStart(w)
         IN  \/ Becomes(reset) /\ Replies("RESTART", 0, <<>>, Nothing)
             \/ ~HasUrl /\ FallsBack([reset EXCEPT !.seen.strayed = TRUE], FALSE)

MayRollBack(w, target) ==
    /\ w.mem.rollbacks < MaxRollbacks
    /\ target < poll.step /\ target < Len(w.plan)
    /\ w.plan[target + 1] \in Checkpoints

\* _handle_rollback_decision.
RollsBack(w, target) ==
    \/ /\ MayRollBack(w, target)
       /\ Becomes([w EXCEPT !.mem.rollbacks = @ + 1, !.run.cursor = target])
       /\ Replies("ROLLBACK", target, <<>>, Nothing)
    \/ ~MayRollBack(w, target) /\ FallsBack(w, FALSE)
    \/ MayRollBack(w, target) /\ ~HasUrl /\ FallsBack(w, FALSE)

--------------------------------------------------------------------------------
\* MUTANT: the status is not read again after the AI has answered.
AnsweredLate(edits) ==
    /\ poll.stage = "ai"
    /\ edits \in NewEdits
    /\ poll.step < Len(TwiceEdited(edits).plan)

\* The AI answers the first question of a poll.
Answered(edits) ==
    /\ poll.stage = "ai" /\ ~Ended
    /\ edits \in NewEdits
    /\ poll.step < Len(TwiceEdited(edits).plan)

\* A turn of the AI that only edits the plan: applied, and asked again.  The
\* extension is never told of these edits.
PlanOnly(edits) ==
    /\ poll.stage # "none" /\ edits \in NewEdits \ {<<>>}
    /\ Becomes(OnceEdited(edits))
    /\ poll' = [poll EXCEPT !.base = Edited(edits), !.dirty = TRUE]
    /\ UNCHANGED client

\* _terminal_response_if_needed, after the edits were written.
AnswerEnded(edits) ==
    /\ poll.stage = "ai" /\ Ended /\ edits \in NewEdits
    /\ Becomes([TwiceEdited(edits) EXCEPT !.mem = Forgotten])
    /\ Replies("COMPLETED", 0, <<>>, Nothing)

AnswerPastPlan(edits) ==
    /\ poll.stage = "ai" /\ ~Ended /\ edits \in NewEdits
    /\ poll.step >= Len(TwiceEdited(edits).plan)
    /\ Becomes(TwiceEdited(edits))
    /\ Replies("COMPLETED", 0, <<>>, Nothing)

AnswerWait(edits) == Answered(edits) /\ WaitsOrRecovers(TwiceEdited(edits))

AnswerAdapt(edits) ==
    LET w == TwiceEdited(edits)
    IN  /\ Answered(edits)
        /\ Becomes([w EXCEPT !.mem.waits = 0, !.run = Resumed(@)])
        /\ Replies("ADAPT", 0, edits, StepOf(w))

\* The quick end of poll.  mark_complete has no branch of its own and ends here.
AnswerExecute(edits) ==
    LET w == TwiceEdited(edits)
    IN  /\ Answered(edits)
        /\ Becomes([w EXCEPT !.mem.waits = 0, !.run = Resumed(@)])
        /\ Replies("EXECUTE", 0, <<>>, StepOf(w))

\* MUTANT: the last step but one completes the run.
AdvancedShort(r, p) ==
    IF r.cursor + 2 >= Len(p) THEN To([r EXCEPT !.cursor = @ + 1], "completed")
    ELSE [r EXCEPT !.cursor = @ + 1]

\* advance_step: the last step completes the run.
Advanced(r, p) ==
    IF r.cursor + 1 >= Len(p) THEN To([r EXCEPT !.cursor = @ + 1], "completed")
    ELSE [r EXCEPT !.cursor = @ + 1]

\* The cursor advances from where it is, not from the step that is skipped.
AnswerSkip(edits) ==
    LET w == TwiceEdited(edits)
    IN  /\ Answered(edits) /\ run.status = "running"
        /\ Becomes([w EXCEPT !.mem = Forgotten, !.run = Advanced(@, w.plan),
                             !.seen.ran = @ \cup {StepOf(w)}])
        /\ Replies("SKIP", poll.step + 1, edits, Nothing)

\* advance_step refuses: the poll answers 500, which ends the loop of the
\* extension; what was flushed before is committed all the same.
AnswerSkipRefused(edits) ==
    /\ Answered(edits) /\ run.status # "running"
    /\ Becomes([TwiceEdited(edits) EXCEPT !.run = Paused(@)])
    /\ client' = [client EXCEPT !.phase = "stopped"]
    /\ poll' = Idle

AnswerRestart(edits) == Answered(edits) /\ Restarts(TwiceEdited(edits))
AnswerRollback(edits) ==
    \E target \in 0..Len(plan) : Answered(edits) /\ RollsBack(TwiceEdited(edits), target)
AnswerPause(edits) ==
    Answered(edits) /\ Recovers(TwiceEdited(edits), TRUE, "ai_pause_non_blocking")

\* No answer: the provider failed.
AnswerUnusable ==
    poll.stage = "ai" /\ ~Ended /\ FallsBack(OnceEdited(<<>>), TRUE)

Answers ==
    \/ \E edits \in NewEdits :
         \/ PlanOnly(edits) \/ AnswerEnded(edits) \/ AnswerPastPlan(edits)
         \/ AnswerWait(edits) \/ AnswerAdapt(edits) \/ AnswerExecute(edits)
         \/ AnswerSkip(edits) \/ AnswerSkipRefused(edits)
         \/ AnswerRestart(edits) \/ AnswerRollback(edits) \/ AnswerPause(edits)
    \/ AnswerUnusable

--------------------------------------------------------------------------------
\* The AI answers in a recovery cycle.  A command is handed out without a look
\* at the status, and edits are not passed on to the extension.
RecoveryCommand(edits, d) ==
    LET w == OnceEdited(edits)
    IN  /\ poll.stage = "recovery" /\ edits \in NewEdits
        /\ Becomes([w EXCEPT !.mem.unusable = 0])
        /\ Replies(d, 0, <<>>, IF d = "ADAPT" \/ poll.real THEN StepOf(w) ELSE Nothing)

RecoveryGoesBack(edits) ==
    LET w == [OnceEdited(edits) EXCEPT !.mem.unusable = 0]
    IN  /\ poll.stage = "recovery" /\ edits \in NewEdits /\ ~Ended
        /\ Restarts(w) \/ \E target \in 0..Len(plan) : RollsBack(w, target)

RecoveryGoesBackEnded(edits) ==
    /\ poll.stage = "recovery" /\ edits \in NewEdits /\ Ended
    /\ Becomes([OnceEdited(edits) EXCEPT !.mem = Forgotten])
    /\ Replies("COMPLETED", 0, <<>>, Nothing)

\* Any other answer, or none.  Only the trigger "ai_unusable_output" counts.
Stalled(w) == IF poll.trigger = "ai_unusable_output" THEN w.mem.unusable + 1 ELSE 0

RecoveryGivesUp(edits) ==
    LET w == OnceEdited(edits)
    IN  /\ poll.stage = "recovery" /\ edits \in NewEdits
        /\ poll.trigger = "ai_unusable_output" /\ Stalled(w) >= MaxUnusable
        /\ Becomes([w EXCEPT !.mem.unusable = MaxUnusable, !.run = Paused(@)])
        /\ Replies("PAUSE", 0, <<>>, Nothing)

RecoveryWaits(edits) ==
    LET w == OnceEdited(edits)
    IN  /\ poll.stage = "recovery" /\ edits \in NewEdits
        /\ poll.trigger # "ai_unusable_output" \/ Stalled(w) < MaxUnusable
        /\ ~Expired(mem)
        /\ Becomes([w EXCEPT !.mem.unusable = Stalled(w)])
        /\ Replies("WAIT", 0, <<>>, Nothing)

\* MUTANT: the pause is told although the run was not failed.
RecoveryExpiresOnly(edits) ==
    LET w == OnceEdited(edits)
    IN  /\ poll.stage = "recovery" /\ edits \in NewEdits
        /\ poll.trigger # "ai_unusable_output" \/ Stalled(w) < MaxUnusable
        /\ Expired(mem)
        /\ Becomes([w EXCEPT !.mem = Forgotten])
        /\ Replies("PAUSE", 0, <<>>, Nothing)

\* _fail_on_step_recovery_timeout, at the end of the cycle.
RecoveryExpires(edits) ==
    LET w == OnceEdited(edits)
    IN  /\ poll.stage = "recovery" /\ edits \in NewEdits
        /\ poll.trigger # "ai_unusable_output" \/ Stalled(w) < MaxUnusable
        /\ Expired(mem)
        /\ Becomes([w EXCEPT !.mem = Forgotten, !.run = To(@, "failed")])
        /\ IF Ended THEN Replies("COMPLETED", 0, <<>>, Nothing)
           ELSE Replies("PAUSE", 0, <<>>, Nothing)

RecoveryAnswers ==
    \E edits \in NewEdits :
        \/ RecoveryCommand(edits, "ADAPT") \/ RecoveryCommand(edits, "EXECUTE")
        \/ RecoveryGoesBack(edits) \/ RecoveryGoesBackEnded(edits)
        \/ RecoveryGivesUp(edits) \/ RecoveryWaits(edits) \/ RecoveryExpires(edits)
--------------------------------------------------------------------------------
\* The extension has run its command and reports (report_result).
Acting == client.phase = "acting" /\ poll.stage = "none"

\* Not accepted: the run has ended, or the cursor is elsewhere.  The extension
\* moves on from a step that succeeded even if its report was refused (here up
\* to MaxLen: every index past the plan is polled alike).
ReportRefused(ok) ==
    /\ Acting
    /\ ok => client.task # Nothing
    /\ Ended \/ client.index # run.cursor
    /\ mem' = IF Ended THEN Forgotten ELSE mem
    /\ client' = [client EXCEPT !.phase = IF Ended THEN "stopped" ELSE "ready",
                                !.task = Nothing,
                                !.index = IF ok /\ ~Ended /\ @ < MaxLen THEN @ + 1 ELSE @]
    /\ UNCHANGED <<run, plan, poll, seen>>

\* Accepted; the page may then show that the goal is reached.
ReportSuccess(goal) ==
    LET accepted == [Resumed(run) EXCEPT !.closed = FALSE, !.last = run.cursor]
        advanced == Advanced(accepted, plan)
    IN  /\ Acting /\ ~Ended /\ client.index = run.cursor
        /\ client.task # Nothing
        /\ mem' = Forgotten
        /\ run' = IF goal THEN To(advanced, "completed") ELSE advanced
        /\ client' = [client EXCEPT !.index = @ + 1, !.task = Nothing,
                                    !.phase = IF run'.status = "completed" THEN "stopped"
                                              ELSE "ready"]
        /\ seen' = [seen EXCEPT !.ran = @ \cup {client.task}, !.goal = @ \/ goal]
        /\ UNCHANGED <<plan, poll>>

\* The categories of _classify_script_failure; a timeout is treated as what threw.
Failures == {"fatal", "no-target", "threw"}

\* The step failed, with a failure of this kind.
ReportFailure(kind) ==
    LET failures == mem.noTarget[run.cursor] + 1
        tried == [Resumed(run) EXCEPT !.last = run.cursor]
    IN  /\ Acting /\ ~Ended /\ client.index = run.cursor
        /\ CASE kind = "fatal" ->
                    run' = To(tried, "failed") /\ mem' = Forgotten
             [] kind = "no-target" ->
                    /\ mem' = [mem EXCEPT !.noTarget[run.cursor] =
                                  IF @ < MaxNoTarget THEN @ + 1 ELSE @]
                    /\ run' = IF failures >= MaxNoTarget THEN Paused(tried) ELSE tried
             [] OTHER -> run' = tried /\ mem' = mem
        /\ client' = [client EXCEPT !.phase = "ready", !.task = Nothing]
        /\ UNCHANGED <<plan, poll, seen>>

\* COMPLETED: the extension completes the run; if that is refused its loop ends
\* with an attempt to pause.
ClientCompletes ==
    /\ client.phase = "completing"
    /\ run' = IF SM!CanTransition(run.status, "completed") THEN To(run, "completed")
              ELSE Paused(run)
    /\ client' = [client EXCEPT !.phase = "stopped"]
    /\ UNCHANGED <<plan, mem, poll, seen>>

Reports ==
    \/ \E ok \in BOOLEAN : ReportRefused(ok)
    \/ \E goal \in BOOLEAN : ReportSuccess(goal)
    \/ \E kind \in Failures : ReportFailure(kind)

--------------------------------------------------------------------------------
\* A tick of the recovery window of the step in hand.
Tick ==
    /\ mem.active # None /\ mem.age < Window /\ client.phase # "stopped"
    /\ mem' = [mem EXCEPT !.age = @ + 1]
    /\ UNCHANGED <<run, plan, poll, client, seen>>

Disturbed(kind, edits, loose) ==
    /\ kind \in Disturbances /\ seen.edits + seen.trouble < MaxTrouble
    /\ seen' = [seen EXCEPT !.trouble = @ + 1 - edits, !.edits = @ + edits,
                            !.loose = @ \/ loose]

\* A person works on the run; they wait while a poll holds the row.
PersonActs ==
    /\ ~poll.dirty /\ ~Ended
    /\ run' \in {Paused(run), To(run, "canceled")}
                \cup (IF run.status = "waiting_for_user" /\ ~run.closed
                      THEN {To(run, "running")} ELSE {})
    /\ Disturbed("person", 0, run'.status = "running")
    /\ UNCHANGED <<plan, mem, poll, client>>

\* The page that watches the run is unloaded (tab_closed).
TabCloses ==
    /\ Disturbed("tab", 0, FALSE) /\ ~poll.dirty /\ run.status \in SM!Active
    /\ run' = [run EXCEPT !.status = "waiting_for_user", !.closed = TRUE]
    /\ UNCHANGED <<plan, mem, poll, client>>

\* RecoverySupervisor.attempt_resume: the step of the last event, or the
\* current one, is removed or rewritten, and the run goes on.
SupervisorResumes ==
    /\ Disturbed("supervisor", 1, TRUE) /\ ~poll.dirty
    /\ run.status \in SM!Active /\ ~run.closed /\ run.cursor < Len(plan)
    /\ \E op \in {"REMOVE", "MODIFY"}, new \in Inventable :
          plan' = EditPlan(plan, [op |-> op, new |-> new, with |-> 0,
                                  at |-> IF run.last = None THEN run.cursor ELSE run.last])
    /\ run' = To(run, "running")
    /\ UNCHANGED <<mem, poll, client>>

\* A restart of the backend forgets the budgets; a poll that is under way is
\* lost, and with it the loop of the extension.
BackendRestarts ==
    /\ Disturbed("restart", 0, client.phase = "waiting") /\ ~poll.dirty
    /\ mem' = Forgotten
    /\ poll' = Idle
    /\ client' = [client EXCEPT !.phase = IF @ = "waiting" THEN "stopped" ELSE @]
    /\ UNCHANGED <<run, plan>>

\* One loop, whose steps follow one another: the extension polls, acts and
\* reports until it ends, and the provider answers or times out.
LoopStep ==
    \/ PollEnded \/ PollGoal \/ PollExpired \/ PollPlain \/ PollConsults
    \/ Answers \/ RecoveryAnswers \/ Reports
    \/ ClientCompletes \/ ClientPauses \/ ClientFails

Next ==
    \/ LoopStep \/ Tick
    \/ PersonActs \/ TabCloses \/ SupervisorResumes \/ BackendRestarts

\* The loop goes on and time passes; nothing else has to happen.
Fairness == WF_vars(LoopStep) /\ WF_vars(Tick)

Spec == Init /\ [][Next]_vars /\ Fairness

--------------------------------------------------------------------------------
TypeOK ==
    /\ run \in [status : SM!RunStatus, cursor : Positions, closed : BOOLEAN,
                last : Positions \cup {None}]
    /\ plan \in Seq(Steps) /\ Len(plan) <= MaxLen
    /\ mem.active \in Positions \cup {None} /\ mem.age \in 0..Window
    /\ mem.waits \in 0..MaxStepWaits /\ mem.total \in 0..MaxTotalWaits
    /\ mem.restarts \in 0..MaxRestarts /\ mem.rollbacks \in 0..MaxRollbacks
    /\ mem.unusable \in 0..MaxUnusable
    /\ mem.noTarget \in [Positions -> 0..MaxNoTarget]
    /\ poll.stage \in {"none", "ai", "recovery"} /\ poll.step \in Positions
    /\ client.phase \in {"ready", "waiting", "acting", "completing", "stopped"}
    /\ client.index \in Nat /\ client.len \in Nat /\ client.pauses \in 0..PauseRePolls
    /\ client.task \in Steps \cup {Nothing}
    /\ seen.ran \subseteq Steps \cup {Nothing}

\* Nothing has moved the steps of the plan under the loop.
Unmoved == seen.edits = 0 /\ ~seen.strayed

\* The two cursors agree: while nobody edits the plan and every restart found
\* its URL, the extension works on the step that the backend will accept,
\* through waits, skips, rollbacks, pauses, lost budgets and crashes.
InStep ==
    Unmoved /\ ~Ended /\ client.phase \in {"ready", "acting"} => client.index = run.cursor

\* A run that ends as completed without its goal having been seen on the page
\* has had every step of its plan run with success, or skipped by the AI.
CompletedCoversPlan ==
    Unmoved /\ run.status = "completed" /\ ~seen.goal =>
        {plan[i] : i \in DOMAIN plan} \subseteq seen.ran

\* A run that has ended keeps its status and its cursor, though a poll that
\* began before goes on: the restart, the rollback and the skip of a decision
\* that comes late are dropped.
EndedStaysEnded ==
    [][Ended => run'.status = run.status /\ run'.cursor = run.cursor]_vars

\* Once a run has ended the extension is given nothing more to do on the page,
\* except by a recovery cycle, which does not look at the status again.
CommandsToLiveRuns ==
    [][Ended /\ client'.phase = "acting" /\ client.phase # "acting"
          => poll.stage = "recovery"]_vars

\* While the extension takes the run for paused, the run does not go on: from a
\* told PAUSE through the polls that repeat it, whatever the AI is asked and answers
\* in them, until the extension is told something else; and once its loop is over,
\* by a pause that lasted, an error or the end of the plan, no run is left running
\* with nobody to drive it.  Only a person, the supervisor or a restart that takes
\* the loop away from a poll sets it going.
PauseIsHeld ==
    (client.pauses > 0 \/ client.phase = "stopped") /\ ~seen.loose => run.status # "running"

\* The loop ends, however long a step fails and whatever the AI says, unless the
\* AI asks to go back again and again: a restart makes another step current and
\* so refills every budget, its own among them, and one that is over its budget
\* leads to a further recovery cycle inside the same poll.
GoesBack ==
    \E edits \in NewEdits :
        AnswerRestart(edits) \/ AnswerRollback(edits) \/ RecoveryGoesBack(edits)
LoopEnds == <>(client.phase = "stopped") \/ []<><<GoesBack>>_vars
================================================================================
