----------------------------- MODULE AgentLoopProofs -----------------------------
(***************************************************************************)
(* For every plan, every answer of the AI, every limit and disturbance: a  *)
(* run that has ended stays as it is; the cursors of the backend and of    *)
(* the extension agree, and a completed run has left out no step, as long  *)
(* as nobody edits the plan; and what the backend says of a run is true.   *)
(***************************************************************************)
EXTENDS AgentLoop, TLAPS

IsRun(r) ==
    /\ DOMAIN r = {"status", "cursor", "closed", "last"}
    /\ r.status \in SM!RunStatus

\* What a step may make of the run: another run, and of one that ended the same.
Kept(r) == IsRun(r) /\ (Ended => r.status = run.status /\ r.cursor = run.cursor)

\* The table leads out of no terminal status, and only to statuses.
LEMMA TableFacts ==
    ASSUME NEW s \in SM!RunStatus, NEW t, SM!CanTransition(s, t)
    PROVE  s \notin SM!Terminal /\ t \in SM!RunStatus
BY DEF SM!CanTransition, SM!Transitions, SM!RunStatus, SM!Terminal

LEMMA ToIsRun ==
    ASSUME NEW r, IsRun(r), NEW t
    PROVE  /\ IsRun(To(r, t)) /\ To(r, t).cursor = r.cursor
           /\ r.status \in SM!Terminal => To(r, t) = r
BY TableFacts DEF IsRun, To

LEMMA PausedIsRun ==
    ASSUME NEW r, IsRun(r)
    PROVE  /\ IsRun(Paused(r)) /\ Paused(r).cursor = r.cursor
           /\ r.status \in SM!Terminal => Paused(r) = r
BY TableFacts DEF IsRun, Paused

LEMMA ResumedIsRun ==
    ASSUME NEW r, IsRun(r)
    PROVE  /\ IsRun(Resumed(r)) /\ Resumed(r).cursor = r.cursor
           /\ r.status \in SM!Terminal => Resumed(r) = r
BY ToIsRun DEF Resumed

LEMMA AdvancedIsRun ==
    ASSUME NEW r, IsRun(r), NEW p
    PROVE  IsRun(Advanced(r, p))
<1>1. IsRun([r EXCEPT !.cursor = r.cursor + 1])
  BY DEF IsRun
<1>2. QED
  BY <1>1, ToIsRun DEF Advanced

\* What the run may become without a look at its status.
LEMMA SafeMoves ==
    ASSUME IsRun(run)
    PROVE  /\ Kept(run) /\ Kept(Paused(run)) /\ Kept(Resumed(run))
           /\ \A t : Kept(To(run, t))
BY ToIsRun, PausedIsRun, ResumedIsRun DEF Kept, Ended

--------------------------------------------------------------------------------
\* A world of the handlers, about run r.
IsWorld(w, r) == DOMAIN w = {"run", "plan", "mem", "seen"} /\ w.run = r

LEMMA Worlds ==
    ASSUME NEW edits
    PROVE  IsWorld(OnceEdited(edits), run) /\ IsWorld(TwiceEdited(edits), run)
BY DEF OnceEdited, TwiceEdited, World, IsWorld

LEMMA Waits ==
    ASSUME NEW w, IsWorld(w, w.run), WaitsOrRecovers(w)
    PROVE  run' = w.run
<1>1. CASE Becomes(w)
  BY <1>1 DEF Becomes
<1>2. CASE Becomes([w EXCEPT !.mem.waits = @ + 1, !.mem.total = @ + 1])
  BY <1>2 DEF Becomes, IsWorld
<1>3. QED
  BY <1>1, <1>2 DEF WaitsOrRecovers, Recovers

LEMMA Falls ==
    ASSUME NEW w, IsWorld(w, w.run), NEW real, FallsBack(w, real)
    PROVE  run' = w.run
BY Waits DEF FallsBack, Recovers, Becomes

\* A run that has not ended may go back.
LEMMA GoesBackFacts ==
    ASSUME IsRun(run), NEW w, IsWorld(w, run),
           Restarts(w) \/ \E target \in 0..Len(plan) : RollsBack(w, target)
    PROVE  IsRun(run')
<1>1. ASSUME NEW n PROVE IsRun([run EXCEPT !.cursor = n])
  BY DEF IsRun
<1>2. CASE Restarts(w)
  <2> DEFINE reset == [w EXCEPT !.mem.restarts = @ + 1, !.run.cursor = 0, !.plan = Recorded]
             strayed == [reset EXCEPT !.seen.strayed = TRUE]
  <2>1. reset.run = [run EXCEPT !.cursor = 0] /\ IsWorld(reset, reset.run)
    BY DEF IsWorld
  <2>2. strayed.run = [run EXCEPT !.cursor = 0] /\ IsWorld(strayed, strayed.run)
    <3> HIDE DEF reset
    <3>1. QED
      BY <2>1 DEF IsWorld
  <2>3. \/ FallsBack(w, FALSE) \/ Becomes(reset) \/ FallsBack(strayed, FALSE)
    BY <1>2 DEF Restarts, ResetToStart
  <2>4. IsWorld(w, w.run) /\ w.run = run
    BY DEF IsWorld
  <2> HIDE DEF reset, strayed
  <2>5. CASE FallsBack(w, FALSE)
    BY <2>4, <2>5, Falls
  <2>6. CASE Becomes(reset)
    BY <1>1, <2>1, <2>6 DEF Becomes
  <2>7. CASE FallsBack(strayed, FALSE)
    <3>1. run' = strayed.run
      BY <2>2, <2>7, Falls
    <3>2. QED
      BY <1>1, <2>2, <3>1
  <2>8. QED
    BY <2>3, <2>5, <2>6, <2>7
<1>3. ASSUME NEW target \in 0..Len(plan), RollsBack(w, target) PROVE IsRun(run')
  <2> DEFINE back == [w EXCEPT !.mem.rollbacks = @ + 1, !.run.cursor = target]
  <2>1. back.run = [run EXCEPT !.cursor = target]
    BY DEF IsWorld
  <2>2. FallsBack(w, FALSE) \/ Becomes(back)
    BY <1>3 DEF RollsBack
  <2>3. IsWorld(w, w.run) /\ w.run = run
    BY DEF IsWorld
  <2> HIDE DEF back
  <2>4. QED
    BY <1>1, <2>1, <2>2, <2>3, Falls DEF Becomes
<1>4. QED
  BY <1>2, <1>3

--------------------------------------------------------------------------------
\* The steps of the extension and of a poll up to the AI.
LEMMA ClientSteps ==
    ASSUME IsRun(run),
           \/ PollEnded \/ PollGoal \/ PollExpired \/ PollPlain \/ PollConsults
           \/ ClientCompletes \/ ClientPauses \/ ClientFails
    PROVE  Kept(run')
BY SafeMoves DEF PollEnded, PollGoal, PollExpired, PollPlain, PollConsults, Consulted, Question,
                 ClientCompletes, ClientPauses, ClientFails

\* The answers of the AI to the first question.
LEMMA AnswerSteps ==
    ASSUME IsRun(run), Answers
    PROVE  Kept(run')
<1>1. ASSUME NEW edits, PlanOnly(edits) PROVE Kept(run')
  BY <1>1, SafeMoves, Worlds DEF PlanOnly, Becomes, IsWorld
<1>2. ASSUME NEW edits, AnswerEnded(edits) PROVE Kept(run')
  <2> DEFINE w == TwiceEdited(edits)
             v == [w EXCEPT !.mem = Forgotten]
  <2>1. IsWorld(w, run)
    BY Worlds
  <2> HIDE DEF w
  <2>2. v.run = run
    BY <2>1 DEF IsWorld
  <2>3. run' = v.run
    BY <1>2 DEF AnswerEnded, Becomes, w
  <2>4. QED
    BY <2>2, <2>3, SafeMoves
<1>3. ASSUME NEW edits, AnswerPastPlan(edits) PROVE Kept(run')
  BY <1>3, SafeMoves, Worlds DEF AnswerPastPlan, Becomes, IsWorld
<1>4. ASSUME NEW edits, AnswerWait(edits) PROVE Kept(run')
  <2>1. IsWorld(TwiceEdited(edits), run)
    BY Worlds
  <2>2. run' = TwiceEdited(edits).run
    BY <1>4, <2>1, Waits DEF AnswerWait, IsWorld
  <2>3. QED
    BY <2>1, <2>2, SafeMoves DEF IsWorld
<1>5. ASSUME NEW edits, AnswerAdapt(edits) \/ AnswerExecute(edits) PROVE Kept(run')
  <2> DEFINE w == TwiceEdited(edits)
             v == [w EXCEPT !.mem.waits = 0, !.run = Resumed(@)]
  <2>1. IsWorld(w, run)
    BY Worlds
  <2> HIDE DEF w
  <2>2. v.run = Resumed(run)
    BY <2>1 DEF IsWorld
  <2>3. run' = v.run
    BY <1>5 DEF AnswerAdapt, AnswerExecute, Becomes, w
  <2>4. QED
    BY <2>2, <2>3, SafeMoves
<1>6. ASSUME NEW edits, AnswerSkip(edits) PROVE Kept(run')
  <2> DEFINE w == TwiceEdited(edits)
             v == [w EXCEPT !.mem = Forgotten, !.run = Advanced(@, w.plan),
                            !.seen.ran = @ \cup {StepOf(w)}]
  <2>1. IsWorld(w, run)
    BY Worlds
  <2> HIDE DEF w
  <2>2. v.run = Advanced(run, w.plan)
    BY <2>1 DEF IsWorld
  <2>3. run' = v.run /\ ~Ended
    BY <1>6 DEF AnswerSkip, Answered, Becomes, w
  <2>4. QED
    BY <2>2, <2>3, AdvancedIsRun DEF Kept
<1>7. ASSUME NEW edits, AnswerSkipRefused(edits) PROVE Kept(run')
  <2> DEFINE w == TwiceEdited(edits)
             v == [w EXCEPT !.run = Paused(@)]
  <2>1. IsWorld(w, run)
    BY Worlds
  <2> HIDE DEF w
  <2>2. v.run = Paused(run)
    BY <2>1 DEF IsWorld
  <2>3. run' = v.run
    BY <1>7 DEF AnswerSkipRefused, Becomes, w
  <2>4. QED
    BY <2>2, <2>3, SafeMoves
<1>8. ASSUME NEW edits, AnswerRestart(edits) \/ AnswerRollback(edits) PROVE Kept(run')
  <2>1. ~Ended
    BY <1>8 DEF AnswerRestart, AnswerRollback, Answered
  <2>2. \/ Restarts(TwiceEdited(edits))
        \/ \E target \in 0..Len(plan) : RollsBack(TwiceEdited(edits), target)
    BY <1>8 DEF AnswerRestart, AnswerRollback
  <2>3. IsRun(run')
    BY <2>2, Worlds, GoesBackFacts
  <2>4. QED
    BY <2>1, <2>3 DEF Kept
<1>9. ASSUME NEW edits, AnswerPause(edits) PROVE Kept(run')
  BY <1>9, SafeMoves, Worlds DEF AnswerPause, Recovers, Becomes, IsWorld
<1>10. CASE AnswerUnusable
  <2>1. IsWorld(OnceEdited(<<>>), run)
    BY Worlds
  <2>2. run' = OnceEdited(<<>>).run
    BY <1>10, <2>1, Falls DEF AnswerUnusable, IsWorld
  <2>3. QED
    BY <2>1, <2>2, SafeMoves DEF IsWorld
<1>11. QED
  BY <1>1, <1>2, <1>3, <1>4, <1>5, <1>6, <1>7, <1>8, <1>9, <1>10 DEF Answers

\* The answers of the AI in a recovery cycle, which looks at the status only
\* before it goes back.
LEMMA RecoverySteps ==
    ASSUME IsRun(run), RecoveryAnswers
    PROVE  Kept(run')
<1>1. PICK edits \in NewEdits :
        \/ RecoveryCommand(edits, "ADAPT") \/ RecoveryCommand(edits, "EXECUTE")
        \/ RecoveryGoesBack(edits) \/ RecoveryGoesBackEnded(edits)
        \/ RecoveryGivesUp(edits) \/ RecoveryWaits(edits) \/ RecoveryExpires(edits)
  BY DEF RecoveryAnswers
<1> DEFINE w == OnceEdited(edits)
<1>2. IsWorld(w, run)
  BY Worlds
<1>3. ASSUME NEW n PROVE IsWorld([w EXCEPT !.mem.unusable = n], run)
  <2> HIDE DEF w
  <2>1. QED
    BY <1>2 DEF IsWorld
<1>4. CASE \/ RecoveryCommand(edits, "ADAPT") \/ RecoveryCommand(edits, "EXECUTE")
          \/ RecoveryWaits(edits)
  <2>1. \E n : run' = [w EXCEPT !.mem.unusable = n].run
    BY <1>4 DEF RecoveryCommand, RecoveryWaits, Becomes
  <2>2. QED
    BY <1>3, <2>1, SafeMoves DEF IsWorld
<1>5. CASE RecoveryGoesBack(edits)
  <2> DEFINE v == [w EXCEPT !.mem.unusable = 0]
  <2>1. ~Ended /\ (Restarts(v) \/ \E target \in 0..Len(plan) : RollsBack(v, target))
    BY <1>5 DEF RecoveryGoesBack
  <2>2. IsWorld(v, run)
    BY <1>3
  <2> HIDE DEF v
  <2>3. IsRun(run')
    BY <2>1, <2>2, GoesBackFacts
  <2>4. QED
    BY <2>1, <2>3 DEF Kept
<1>6. CASE RecoveryGoesBackEnded(edits)
  <2>1. run' = [w EXCEPT !.mem = Forgotten].run
    BY <1>6 DEF RecoveryGoesBackEnded, Becomes
  <2> HIDE DEF w
  <2>2. run' = run
    BY <1>2, <2>1 DEF IsWorld
  <2>3. QED
    BY <2>2, SafeMoves
<1>7. CASE RecoveryGivesUp(edits)
  <2>1. run' = [w EXCEPT !.mem.unusable = MaxUnusable, !.run = Paused(@)].run
    BY <1>7 DEF RecoveryGivesUp, Becomes
  <2> HIDE DEF w
  <2>2. run' = Paused(run)
    BY <1>2, <2>1 DEF IsWorld
  <2>3. QED
    BY <2>2, SafeMoves
<1>8. CASE RecoveryExpires(edits)
  <2>1. run' = [w EXCEPT !.mem = Forgotten, !.run = To(@, "failed")].run
    BY <1>8 DEF RecoveryExpires, Becomes
  <2> HIDE DEF w
  <2>2. run' = To(run, "failed")
    BY <1>2, <2>1 DEF IsWorld
  <2>3. QED
    BY <2>2, SafeMoves
<1>9. QED
  BY <1>1, <1>4, <1>5, <1>6, <1>7, <1>8

--------------------------------------------------------------------------------
LEMMA ReportSteps ==
    ASSUME IsRun(run), Reports
    PROVE  Kept(run')
<1>1. ASSUME NEW ok \in BOOLEAN, ReportRefused(ok) PROVE Kept(run')
  BY <1>1, SafeMoves DEF ReportRefused
<1>2. ASSUME NEW goal \in BOOLEAN, ReportSuccess(goal) PROVE Kept(run')
  <2> DEFINE accepted == [Resumed(run) EXCEPT !.closed = FALSE, !.last = run.cursor]
  <2>1. IsRun(accepted)
    BY ResumedIsRun DEF IsRun
  <2>2. \/ run' = Advanced(accepted, plan)
        \/ run' = To(Advanced(accepted, plan), "completed")
    BY <1>2 DEF ReportSuccess
  <2>3. ~Ended
    BY <1>2 DEF ReportSuccess
  <2> HIDE DEF accepted
  <2>4. IsRun(run')
    BY <2>1, <2>2, AdvancedIsRun, ToIsRun
  <2>5. QED
    BY <2>3, <2>4 DEF Kept
<1>3. ASSUME NEW kind, ReportFailure(kind) PROVE Kept(run')
  <2> DEFINE tried == [Resumed(run) EXCEPT !.last = run.cursor]
  <2>1. IsRun(tried)
    BY ResumedIsRun DEF IsRun
  <2>2. \/ run' = To(tried, "failed")
        \/ run' = Paused(tried)
        \/ run' = tried
    BY <1>3 DEF ReportFailure
  <2>3. ~Ended
    BY <1>3 DEF ReportFailure
  <2> HIDE DEF tried
  <2>4. IsRun(run')
    BY <2>1, <2>2, PausedIsRun, ToIsRun
  <2>5. QED
    BY <2>3, <2>4 DEF Kept
<1>4. QED
  BY <1>1, <1>2, <1>3 DEF Reports, Failures

\* What comes from outside of the loop, and time.
LEMMA OutsideSteps ==
    ASSUME IsRun(run), Tick \/ PersonActs \/ TabCloses \/ SupervisorResumes \/ BackendRestarts
    PROVE  Kept(run')
<1>1. CASE Tick \/ BackendRestarts
  BY <1>1, SafeMoves DEF Tick, BackendRestarts
<1>2. CASE PersonActs
  BY <1>2, SafeMoves DEF PersonActs
<1>3. CASE TabCloses
  <2>1. IsRun([run EXCEPT !.status = "waiting_for_user", !.closed = TRUE])
    BY DEF IsRun, SM!RunStatus
  <2>2. ~Ended
    BY <1>3 DEF TabCloses, Ended, SM!Active, SM!Terminal
  <2>3. QED
    BY <1>3, <2>1, <2>2 DEF TabCloses, Kept
<1>4. CASE SupervisorResumes
  BY <1>4, SafeMoves DEF SupervisorResumes
<1>5. QED
  BY <1>1, <1>2, <1>3, <1>4

--------------------------------------------------------------------------------
\* A step moves nothing of a run that has ended.
LEMMA NextKeeps ==
    ASSUME IsRun(run), Next
    PROVE  Kept(run')
BY ClientSteps, AnswerSteps, RecoverySteps, ReportSteps, OutsideSteps DEF Next, LoopStep

IsSeen(s) == DOMAIN s = {"ran", "edits", "strayed", "goal", "trouble", "loose"} /\ s.edits \in Nat

Still(s) == s.edits = 0 /\ ~s.strayed

\* A run r with plan p and history s: what lies behind the cursor has run.
GoodRun(r, p, s) ==
    /\ IsRun(r) /\ r.cursor \in Nat /\ IsSeen(s)
    /\ Still(s) =>
         /\ p = Recorded
         /\ \A i \in DOMAIN p : i <= r.cursor => p[i] \in s.ran
         /\ r.status = "completed" /\ ~s.goal => r.cursor >= Len(p)

\* Where the extension stands: at the cursor, asking or acting on its step.
Stands ==
    /\ client.phase \in {"ready", "waiting", "acting"} => client.index = run.cursor
    /\ client.phase = "waiting" => poll.step = run.cursor
    /\ client.phase = "acting" /\ client.task # Nothing =>
         run.cursor < Len(plan) /\ client.task = plan[run.cursor + 1]
    /\ client.phase = "completing" => run.cursor >= Len(plan) \/ seen.goal

\* A pause lasts, and the extension that acts or ends its loop was told of none.
Held ==
    /\ client.phase \in {"acting", "completing"} => client.pauses = 0
    /\ PauseIsHeld

IInv ==
    /\ GoodRun(run, plan, seen)
    /\ DOMAIN client = {"phase", "index", "len", "pauses", "task"} /\ client.pauses \in Nat
    /\ DOMAIN poll = {"stage", "step", "trigger", "base", "real", "dirty"}
    /\ poll.stage # "none" <=> client.phase = "waiting"
    /\ ~Ended /\ Unmoved => Stands
    /\ Held

\* What the action property says of one step.
NothingToDo == Ended /\ client'.phase = "acting" /\ client.phase # "acting"
                   => poll.stage = "recovery"
Fine == IInv' /\ NothingToDo

\* While nothing has moved the steps, the step in hand is the one at the cursor.
LEMMA AtCursor ==
    ASSUME IInv, poll.stage # "none", Unmoved, ~Ended
    PROVE  poll.step = run.cursor /\ client.index = run.cursor
BY DEF IInv, Stands

LEMMA PlanLength ==
    ASSUME IInv, Unmoved
    PROVE  plan = Recorded /\ Len(plan) \in Nat /\ DOMAIN plan = 1..Len(plan)
BY AgentAssumption DEF IInv, GoodRun, Still, Unmoved

\* A reply of the backend, from what it says and what became of the run.
LEMMA ReplyIsFine ==
    ASSUME IInv, Kept(run'), GoodRun(run', plan', seen'),
           NEW d, NEW next, NEW edits, NEW task, Replies(d, next, edits, task),
           Unmoved' => Unmoved /\ edits = <<>>,
           d = "PAUSE" => run'.status # "running",
           d \in {"EXECUTE", "ADAPT"} /\ Ended => poll.stage = "recovery",
           Unmoved' /\ ~Ended' /\ d \in {"EXECUTE", "ADAPT"} /\ task # Nothing =>
               run'.cursor < Len(plan') /\ task = plan'[run'.cursor + 1],
           Unmoved' /\ ~Ended' =>
               /\ d = "RESTART" => run'.cursor = 0
               /\ d \in {"ROLLBACK", "SKIP"} => run'.cursor = next
               /\ d \in {"EXECUTE", "ADAPT", "WAIT", "PAUSE"} => run'.cursor = client.index
               /\ d = "COMPLETED" => run'.cursor >= Len(plan') \/ seen'.goal,
           d \in {"EXECUTE", "ADAPT", "WAIT", "PAUSE", "RESTART", "ROLLBACK", "SKIP", "COMPLETED"}
    PROVE  Fine
<1>1. /\ client' = Heard(d, next, edits, task) /\ poll' = Idle
  BY DEF Replies
<1> DEFINE c == MirrorEdits([index |-> client.index, len |-> client.len], edits)
           index == CASE d = "RESTART" -> 0
                      [] d \in {"ROLLBACK", "SKIP"} -> next
                      [] OTHER -> c.index
           pauses == IF d = "PAUSE" THEN client.pauses + 1 ELSE 0
           phase == CASE d = "COMPLETED" -> "completing"
                      [] d \in {"EXECUTE", "ADAPT"} -> "acting"
                      [] d = "PAUSE" /\ client.pauses + 1 >= PauseRePolls -> "stopped"
                      [] OTHER -> "ready"
<1>2. client' = [client EXCEPT !.index = index, !.len = c.len, !.pauses = pauses,
                               !.task = task, !.phase = phase]
  BY <1>1 DEF Heard
<1>3. edits = <<>> => c.index = client.index
  BY DEF MirrorEdits
<1>4. /\ d = "COMPLETED" => phase = "completing"
      /\ d \in {"EXECUTE", "ADAPT"} => phase = "acting"
      /\ d = "PAUSE" => phase \in {"stopped", "ready"}
      /\ d \in {"RESTART", "ROLLBACK", "SKIP", "WAIT"} => phase = "ready"
  OBVIOUS
<1>5. /\ d = "RESTART" => index = 0
      /\ d \in {"ROLLBACK", "SKIP"} => index = next
      /\ d \in {"EXECUTE", "ADAPT", "WAIT", "PAUSE"} => index = c.index
  OBVIOUS
<1>6. client.pauses \in Nat /\ DOMAIN client = {"phase", "index", "len", "pauses", "task"}
  BY DEF IInv
<1>7. pauses \in Nat /\ (d # "PAUSE" => pauses = 0)
  BY <1>6
<1> HIDE DEF c, index, pauses, phase
<1>8. /\ DOMAIN client' = {"phase", "index", "len", "pauses", "task"}
      /\ client'.index = index /\ client'.pauses = pauses /\ client'.task = task
      /\ client'.phase = phase
  BY <1>2, <1>6
<1>9. Held'
  BY <1>4, <1>7, <1>8 DEF Held, PauseIsHeld
<1>10. NothingToDo
  BY <1>4, <1>8 DEF NothingToDo
<1>11. phase # "waiting" /\ poll'.stage = "none" /\
       DOMAIN poll' = {"stage", "step", "trigger", "base", "real", "dirty"}
  BY <1>1, <1>4 DEF Idle
<1>12. ~Ended' /\ Unmoved' => Stands'
  BY <1>3, <1>4, <1>5, <1>8, <1>11 DEF Stands
<1>13. IInv'
  BY <1>7, <1>8, <1>9, <1>11, <1>12 DEF IInv
<1>14. QED
  BY <1>10, <1>13 DEF Fine

--------------------------------------------------------------------------------
\* A world whose steps are those of the state it came from, unless edits or a
\* restart that went astray are on record.
Steady(w) ==
    /\ DOMAIN w = {"run", "plan", "mem", "seen"}
    /\ GoodRun(w.run, w.plan, w.seen)
    /\ w.run.status = run.status /\ w.seen.loose = seen.loose
    /\ Still(w.seen) => Unmoved /\ w.run = run /\ w.plan = plan

LEMMA Written ==
    ASSUME NEW w, Becomes(w)
    PROVE  run' = w.run /\ plan' = w.plan /\ seen' = w.seen /\ (Unmoved' <=> Still(w.seen))
BY DEF Becomes, Unmoved, Still

LEMMA SteadyMem ==
    ASSUME NEW w, Steady(w), NEW m
    PROVE  Steady([w EXCEPT !.mem = m]) /\ [w EXCEPT !.mem = m].run = w.run
BY DEF Steady

\* The worlds that handlers start with.
LEMMA EditedIsSteady ==
    ASSUME IInv, NEW edits
    PROVE  /\ Steady(OnceEdited(edits)) /\ Steady(TwiceEdited(edits))
           /\ OnceEdited(edits).run = run /\ TwiceEdited(edits).run = run
           /\ Still(OnceEdited(edits).seen) => edits = <<>>
           /\ Still(TwiceEdited(edits).seen) => edits = <<>>
<1>1. ASSUME NEW p, edits = <<>> => p = plan
      PROVE  Steady(World(edits, p)) /\ World(edits, p).run = run
             /\ (Still(World(edits, p).seen) => edits = <<>>)
  <2>1. CASE edits = <<>>
    BY <1>1, <2>1 DEF World, Steady, IInv, Unmoved, Still
  <2>2. CASE edits # <<>>
    <3> DEFINE s == [seen EXCEPT !.edits = @ + 1]
    <3>1. IsSeen(seen) /\ seen.edits \in Nat
      BY DEF IInv, GoodRun, IsSeen
    <3>2. IsSeen(s) /\ ~Still(s) /\ s.loose = seen.loose
      BY <3>1 DEF IsSeen, Still
    <3>3. World(edits, p) = [run |-> run, plan |-> p, mem |-> mem, seen |-> s]
      BY <2>2 DEF World
    <3> HIDE DEF s
    <3>4. GoodRun(run, p, s)
      BY <3>2 DEF IInv, GoodRun
    <3>5. QED
      BY <3>2, <3>3, <3>4 DEF Steady
  <2>3. QED
    BY <2>1, <2>2
<1>2. edits = <<>> => Edited(edits) = plan
  BY DEF Edited
<1>3. edits = <<>> => ApplyPlanUpdate(Edited(edits), edits) = plan
  BY <1>2 DEF ApplyPlanUpdate
<1>4. QED
  BY <1>1, <1>2, <1>3 DEF OnceEdited, TwiceEdited

\* The step of such a world is the one at the cursor.
LEMMA StepAtCursor ==
    ASSUME IInv, poll.stage # "none", NEW w, Steady(w), Still(w.seen), ~Ended,
           StepOf(w) # Nothing
    PROVE  w.run.cursor < Len(w.plan) /\ StepOf(w) = w.plan[w.run.cursor + 1]
BY AtCursor DEF Steady, StepOf

LEMMA RecoversIsFine ==
    ASSUME IInv, poll.stage # "none", Kept(run'), NEW w, Steady(w),
           NEW real, NEW trigger, Recovers(w, real, trigger)
    PROVE  Fine
<1>1. Becomes(w) /\ client' = client
  BY DEF Recovers
<1>2. /\ GoodRun(run', plan', seen') /\ (Unmoved' => Unmoved /\ run' = run /\ plan' = plan)
      /\ run'.status = run.status /\ seen'.loose = seen.loose
  BY <1>1, Written DEF Steady
<1>3. /\ DOMAIN poll' = DOMAIN poll /\ poll'.stage = "recovery" /\ poll'.step = poll.step
  BY DEF Recovers, IInv
<1>4. ~Ended' /\ Unmoved' => ~Ended /\ Unmoved /\ run' = run /\ plan' = plan
  BY <1>2 DEF Ended
<1>5. ~Ended' /\ Unmoved' => Stands'
  BY <1>1, <1>3, <1>4 DEF IInv, Stands
<1>6. IInv'
  BY <1>1, <1>2, <1>3, <1>5 DEF IInv, Held, PauseIsHeld
<1>7. QED
  BY <1>1, <1>6 DEF Fine, Held, NothingToDo, IInv

\* A reply that leaves the step in hand where it is.
LEMMA StaysIsFine ==
    ASSUME IInv, poll.stage # "none", Kept(run'), NEW w, Steady(w), Becomes(w),
           NEW d \in {"EXECUTE", "ADAPT", "WAIT"},
           NEW task \in {Nothing, StepOf(w)}, Replies(d, 0, <<>>, task),
           d # "WAIT" /\ Ended => poll.stage = "recovery"
    PROVE  Fine
<1>1. GoodRun(run', plan', seen')
  BY Written DEF Steady
<1>2. Unmoved' => Unmoved /\ Still(w.seen) /\ run' = run
  BY Written DEF Steady
<1>3. Unmoved' /\ ~Ended' => ~Ended /\ run'.cursor = client.index
  BY <1>2, AtCursor DEF Ended
<1>4. Unmoved' /\ ~Ended' /\ task # Nothing =>
        run'.cursor < Len(plan') /\ task = plan'[run'.cursor + 1]
  BY <1>2, <1>3, StepAtCursor, Written
<1>5. QED
  BY <1>1, <1>2, <1>3, <1>4, ReplyIsFine

LEMMA WaitsIsFine ==
    ASSUME IInv, poll.stage # "none", Kept(run'), NEW w, Steady(w), WaitsOrRecovers(w)
    PROVE  Fine
<1> DEFINE v == [w EXCEPT !.mem.waits = @ + 1, !.mem.total = @ + 1]
<1>1. \/ Recovers(w, StepOf(w) # Nothing, "wait_limit_reached")
      \/ Becomes(v) /\ Replies("WAIT", 0, <<>>, Nothing)
  BY DEF WaitsOrRecovers
<1>2. Steady(v)
  BY DEF Steady
<1> HIDE DEF v
<1>3. QED
  BY <1>1, <1>2, RecoversIsFine, StaysIsFine

LEMMA FallsIsFine ==
    ASSUME IInv, poll.stage # "none", Kept(run'), NEW w, Steady(w),
           NEW real, FallsBack(w, real), Ended => poll.stage = "recovery"
    PROVE  Fine
<1>1. CASE Becomes(w) /\ Replies("EXECUTE", 0, <<>>, StepOf(w))
  BY <1>1, StaysIsFine
<1>2. CASE WaitsOrRecovers(w)
  BY <1>2, WaitsIsFine
<1>3. CASE Recovers(w, real, "ai_unusable_output")
  BY <1>3, RecoversIsFine
<1>4. QED
  BY <1>1, <1>2, <1>3 DEF FallsBack

\* Going back: the cursor and the index go to the same step, and what lies
\* behind that step has run.
LEMMA BackIsGood ==
    ASSUME IInv, ~Ended, NEW w, Steady(w), w.run = run, NEW n \in Nat, NEW p,
           Still(w.seen) => p = Recorded /\ n <= run.cursor
    PROVE  GoodRun([run EXCEPT !.cursor = n], p, w.seen)
<1> DEFINE r == [run EXCEPT !.cursor = n]
<1>1. IsRun(run) /\ run.cursor \in Nat
  BY DEF IInv, GoodRun
<1>2. IsRun(r) /\ r.cursor = n /\ r.status = run.status
  BY <1>1 DEF IsRun
<1>3. r.status # "completed"
  BY <1>2 DEF Ended, SM!Terminal
<1>4. Still(w.seen) => plan = Recorded /\ w.plan = plan
  BY PlanLength DEF Steady
<1>5. Still(w.seen) => \A i \in DOMAIN p : i <= n => p[i] \in w.seen.ran
  <2>1. SUFFICES ASSUME Still(w.seen), NEW i \in DOMAIN p, i <= n PROVE p[i] \in w.seen.ran
    OBVIOUS
  <2>2. p = w.plan /\ n <= run.cursor /\ DOMAIN p = 1..Len(p) /\ Len(p) \in Nat
    BY <1>4, <2>1, PlanLength DEF Steady
  <2>3. i <= run.cursor
    BY <1>1, <2>1, <2>2
  <2>4. QED
    BY <2>1, <2>2, <2>3 DEF Steady, GoodRun
<1> HIDE DEF r
<1>6. QED
  BY <1>2, <1>3, <1>5 DEF GoodRun, Steady, r

LEMMA RestartsIsFine ==
    ASSUME IInv, poll.stage # "none", ~Ended, Kept(run'), NEW w, Steady(w), w.run = run,
           Restarts(w)
    PROVE  Fine
<1> DEFINE reset == ResetToStart(w)
           strayed == [reset EXCEPT !.seen.strayed = TRUE]
           back == [run EXCEPT !.cursor = 0]
<1>1. \/ FallsBack(w, FALSE)
      \/ Becomes(reset) /\ Replies("RESTART", 0, <<>>, Nothing)
      \/ FallsBack(strayed, FALSE)
  BY DEF Restarts
<1>2. GoodRun(back, Recorded, w.seen)
  <2>1. run.cursor \in Nat
    BY DEF IInv, GoodRun
  <2>2. 0 <= run.cursor
    BY <2>1
  <2>3. QED
    BY <2>2, BackIsGood
<1>3. /\ DOMAIN reset = {"run", "plan", "mem", "seen"}
      /\ reset.run = back /\ reset.plan = Recorded /\ reset.seen = w.seen
  BY DEF Steady, ResetToStart
<1> HIDE DEF reset
<1>4. /\ DOMAIN strayed = {"run", "plan", "mem", "seen"}
      /\ strayed.run = back /\ strayed.plan = Recorded
      /\ strayed.seen = [w.seen EXCEPT !.strayed = TRUE]
  BY <1>3
<1> HIDE DEF strayed
<1>5. IsSeen(strayed.seen) /\ ~Still(strayed.seen)
  BY <1>2, <1>4 DEF GoodRun, IsSeen, Still
<1>6. Steady(strayed)
  BY <1>2, <1>4, <1>5 DEF Steady, GoodRun
<1>7. CASE FallsBack(w, FALSE) \/ FallsBack(strayed, FALSE)
  BY <1>6, <1>7, FallsIsFine
<1>8. CASE Becomes(reset) /\ Replies("RESTART", 0, <<>>, Nothing)
  <2>1. run' = back /\ plan' = Recorded /\ seen' = w.seen /\ (Unmoved' <=> Still(w.seen))
    BY <1>3, <1>8, Written
  <2>2. GoodRun(run', plan', seen')
    BY <1>2, <2>1
  <2>3. run'.cursor = 0
    BY <2>1 DEF IInv, GoodRun, IsRun
  <2>4. Unmoved' => Unmoved
    BY <2>1 DEF Steady
  <2>5. QED
    BY <1>8, <2>2, <2>3, <2>4, ReplyIsFine
<1>9. QED
  BY <1>1, <1>7, <1>8

LEMMA RollsBackIsFine ==
    ASSUME IInv, poll.stage # "none", ~Ended, Kept(run'), NEW w, Steady(w), w.run = run,
           NEW target \in 0..Len(plan), RollsBack(w, target)
    PROVE  Fine
<1> DEFINE back == [w EXCEPT !.mem.rollbacks = @ + 1, !.run.cursor = target]
<1>1. CASE FallsBack(w, FALSE)
  BY <1>1, FallsIsFine
<1>2. CASE MayRollBack(w, target) /\ Becomes(back) /\ Replies("ROLLBACK", target, <<>>, Nothing)
  <2>1. run.cursor \in Nat /\ IsRun(run)
    BY DEF IInv, GoodRun
  <2>2. target \in Nat
    BY <1>2, SMT
  <2>3. Still(w.seen) => w.plan = Recorded /\ target <= run.cursor
    BY <1>2, <2>1, <2>2, AtCursor, PlanLength DEF Steady, MayRollBack
  <2>4. GoodRun([run EXCEPT !.cursor = target], w.plan, w.seen)
    BY <2>2, <2>3, BackIsGood
  <2>5. back.run = [run EXCEPT !.cursor = target] /\ back.plan = w.plan /\ back.seen = w.seen
    BY DEF Steady
  <2> HIDE DEF back
  <2>6. /\ run' = [run EXCEPT !.cursor = target] /\ plan' = w.plan /\ seen' = w.seen
        /\ Unmoved' <=> Still(w.seen)
    BY <1>2, <2>5, Written
  <2>7. GoodRun(run', plan', seen')
    BY <2>4, <2>6
  <2>8. run'.cursor = target
    BY <2>1, <2>6 DEF IsRun
  <2>9. Unmoved' => Unmoved
    BY <2>6 DEF Steady
  <2>10. QED
    BY <1>2, <2>7, <2>8, <2>9, ReplyIsFine
<1>3. QED
  BY <1>1, <1>2 DEF RollsBack

--------------------------------------------------------------------------------
\* What the moves of a run do to its status.
LEMMA StatusFacts ==
    ASSUME NEW r, IsRun(r)
    PROVE  /\ \A t : To(r, t).status \in {r.status, t}
           /\ Paused(r).status \in {r.status, "waiting_for_user"}
           /\ Resumed(r).status \in {r.status, "running"}
           /\ Paused(r).status # "running" /\ To(r, "failed").status # "running"
<1>1. \A t : To(r, t).status \in {r.status, t}
  BY DEF To, IsRun
<1>2. Paused(r).status \in {r.status, "waiting_for_user"}
  BY DEF Paused, IsRun
<1>3. Resumed(r).status \in {r.status, "running"}
  BY <1>1 DEF Resumed
<1>4. SM!CanTransition("running", "waiting_for_user") /\ SM!CanTransition("running", "failed")
  BY DEF SM!CanTransition, SM!Transitions
<1>5. Paused(r).status # "running"
  <2>1. CASE r.status = "running"
    BY <1>4, <2>1 DEF Paused, IsRun
  <2>2. CASE r.status # "running"
    BY <1>2, <2>2
  <2>3. QED
    BY <2>1, <2>2
<1>6. To(r, "failed").status # "running"
  <2>1. CASE r.status = "running"
    BY <1>4, <2>1 DEF To, IsRun
  <2>2. CASE r.status # "running"
    BY <1>1, <2>2
  <2>3. QED
    BY <2>1, <2>2
<1>7. QED
  BY <1>1, <1>2, <1>3, <1>5, <1>6

LEMMA MovedIsGood ==
    ASSUME NEW r, NEW p, NEW s, GoodRun(r, p, s), NEW q, IsRun(q), q.cursor = r.cursor,
           q.status = "completed" => r.status = "completed" \/ s.goal
    PROVE  GoodRun(q, p, s)
BY DEF GoodRun

LEMMA StatusMoves ==
    ASSUME NEW r, NEW p, NEW s, GoodRun(r, p, s)
    PROVE  /\ GoodRun(Paused(r), p, s) /\ GoodRun(Resumed(r), p, s)
           /\ \A t : t # "completed" \/ s.goal => GoodRun(To(r, t), p, s)
           /\ Paused(r).cursor = r.cursor /\ Resumed(r).cursor = r.cursor
           /\ \A t : To(r, t).cursor = r.cursor
<1>1. IsRun(r)
  BY DEF GoodRun
<1>2. ASSUME NEW t, t # "completed" \/ s.goal
      PROVE  GoodRun(To(r, t), p, s)
  <2>1. To(r, t).status = "completed" => r.status = "completed" \/ s.goal
    BY <1>1, <1>2, StatusFacts
  <2>2. QED
    BY <1>1, <2>1, ToIsRun, MovedIsGood
<1>3. GoodRun(Paused(r), p, s)
  <2>1. Paused(r).status = "completed" => r.status = "completed"
    BY <1>1, StatusFacts
  <2>2. QED
    BY <1>1, <2>1, PausedIsRun, MovedIsGood
<1>4. GoodRun(Resumed(r), p, s)
  <2>1. Resumed(r).status = "completed" => r.status = "completed"
    BY <1>1, StatusFacts
  <2>2. QED
    BY <1>1, <2>1, ResumedIsRun, MovedIsGood
<1>5. QED
  BY <1>1, <1>2, <1>3, <1>4, ToIsRun, PausedIsRun, ResumedIsRun

\* The step at the cursor has run.
LEMMA AdvancedIsGood ==
    ASSUME NEW r, NEW p, NEW s, GoodRun(r, p, s), r.status # "completed",
           NEW s2, IsSeen(s2), Still(s2) => Still(s), NEW x, s2.ran = s.ran \cup {x},
           Still(s) /\ r.cursor < Len(p) => x = p[r.cursor + 1]
    PROVE  GoodRun(Advanced(r, p), p, s2) /\ Advanced(r, p).cursor = r.cursor + 1
<1> DEFINE next == [r EXCEPT !.cursor = @ + 1]
<1>1. IsRun(r) /\ r.cursor \in Nat
  BY DEF GoodRun
<1>2. IsRun(next) /\ next.cursor = r.cursor + 1 /\ next.status = r.status
  BY <1>1 DEF IsRun
<1>3. Still(s2) => \A i \in DOMAIN p : i <= r.cursor + 1 => p[i] \in s2.ran
  <2>1. SUFFICES ASSUME Still(s2), NEW i \in DOMAIN p, i <= r.cursor + 1 PROVE p[i] \in s2.ran
    OBVIOUS
  <2>2. Still(s) /\ p = Recorded /\ DOMAIN p = 1..Len(p) /\ Len(p) \in Nat
    BY <2>1, AgentAssumption DEF GoodRun
  <2>3. CASE i <= r.cursor
    BY <2>2, <2>3 DEF GoodRun
  <2>4. CASE i = r.cursor + 1
    <3>1. r.cursor < Len(p)
      BY <1>1, <2>2, <2>4
    <3>2. QED
      BY <2>2, <2>4, <3>1
  <2>5. QED
    BY <1>1, <2>1, <2>2, <2>3, <2>4
<1> HIDE DEF next
<1>4. Advanced(r, p) = IF r.cursor + 1 >= Len(p) THEN To(next, "completed") ELSE next
  BY DEF Advanced, next
<1>5. /\ IsRun(Advanced(r, p)) /\ Advanced(r, p).cursor = r.cursor + 1
      /\ Advanced(r, p).status = "completed" => r.cursor + 1 >= Len(p)
  BY <1>2, <1>4, ToIsRun
<1>6. Still(s2) => p = Recorded
  BY DEF GoodRun
<1>7. r.cursor + 1 \in Nat
  BY <1>1
<1>8. QED
  BY <1>3, <1>5, <1>6, <1>7 DEF GoodRun

--------------------------------------------------------------------------------
\* The steps of the extension, and of a poll up to the AI.
LEMMA IndexAtCursor ==
    ASSUME IInv, Polls, Unmoved, ~Ended
    PROVE  client.index = run.cursor /\ StepIndex = run.cursor
BY DEF IInv, Stands, Polls, StepIndex

LEMMA PollsAreFine ==
    ASSUME IInv, Kept(run'),
           PollEnded \/ PollGoal \/ PollExpired \/ PollPlain \/ PollConsults
    PROVE  Fine
<1>1. CASE PollEnded
  <2>1. Unmoved' /\ ~Ended' => Unmoved /\ ~Ended
    BY <1>1 DEF PollEnded, Unmoved, Ended
  <2>2. Unmoved' /\ ~Ended' => run'.cursor >= Len(plan')
    BY <1>1, <2>1, IndexAtCursor DEF PollEnded
  <2>3. GoodRun(run', plan', seen') /\ (Unmoved' => Unmoved)
    BY <1>1 DEF PollEnded, IInv, Unmoved
  <2>4. Replies("COMPLETED", 0, <<>>, Nothing)
    BY <1>1 DEF PollEnded
  <2>5. QED
    BY <2>2, <2>3, <2>4, ReplyIsFine
<1>2. CASE PollGoal
  <2>1. /\ IsSeen(seen') /\ seen'.goal /\ seen'.ran = seen.ran /\ seen'.edits = seen.edits
        /\ seen'.strayed = seen.strayed
    BY <1>2 DEF PollGoal, IInv, GoodRun, IsSeen
  <2>2. GoodRun(run, plan, seen')
    BY <2>1 DEF IInv, GoodRun, Still
  <2>3. GoodRun(run', plan', seen')
    BY <1>2, <2>1, <2>2, StatusMoves DEF PollGoal
  <2>4. Unmoved' => Unmoved
    BY <2>1 DEF Unmoved
  <2>5. Replies("COMPLETED", 0, <<>>, Nothing)
    BY <1>2 DEF PollGoal
  <2>6. QED
    BY <2>1, <2>3, <2>4, <2>5, ReplyIsFine
<1>3. CASE PollExpired
  <2>1. GoodRun(run', plan', seen') /\ run'.cursor = run.cursor /\ (Unmoved' => Unmoved)
    BY <1>3, StatusMoves DEF PollExpired, IInv, Unmoved
  <2>2. run'.status # "running"
    BY <1>3, StatusFacts DEF PollExpired, IInv, GoodRun
  <2>3. Replies("PAUSE", 0, <<>>, Nothing) /\ ~Ended /\ Polls
    BY <1>3 DEF PollExpired
  <2>4. QED
    BY <2>1, <2>2, <2>3, IndexAtCursor, ReplyIsFine
<1>4. CASE PollPlain
  <2>1. GoodRun(run', plan', seen') /\ run'.cursor = run.cursor /\ (Unmoved' => Unmoved)
    BY <1>4, StatusMoves DEF PollPlain, IInv, Unmoved
  <2>2. /\ Replies("EXECUTE", 0, <<>>, plan[StepIndex + 1]) /\ ~Ended /\ Polls
        /\ plan' = plan /\ StepIndex < Len(plan)
    BY <1>4 DEF PollPlain
  <2>3. Unmoved' => client.index = run.cursor /\ StepIndex = run.cursor
    BY <2>1, <2>2, IndexAtCursor
  <2>4. QED
    BY <2>1, <2>2, <2>3, ReplyIsFine
<1>5. CASE PollConsults
  <2>1. /\ client' = [client EXCEPT !.phase = "waiting"] /\ poll' = Question
        /\ run' = run /\ plan' = plan /\ seen' = seen /\ ~Ended /\ Polls
    BY <1>5 DEF PollConsults
  <2>2. /\ DOMAIN client' = DOMAIN client /\ client'.pauses = client.pauses
        /\ client'.index = client.index /\ client'.phase = "waiting"
    BY <2>1 DEF IInv
  <2>3. /\ DOMAIN poll' = DOMAIN poll /\ poll'.stage = "ai" /\ poll'.step = StepIndex
    BY <2>1 DEF Question, IInv
  <2>4. Unmoved' => Unmoved /\ client'.index = run'.cursor /\ poll'.step = run'.cursor
    BY <2>1, <2>2, <2>3, IndexAtCursor DEF Unmoved
  <2>5. Unmoved' => Stands'
    BY <2>2, <2>4 DEF Stands
  <2>6. IInv'
    BY <2>1, <2>2, <2>3, <2>5 DEF IInv, Held, PauseIsHeld
  <2>7. QED
    BY <2>2, <2>6 DEF Fine, Held, NothingToDo, IInv
<1>6. QED
  BY <1>1, <1>2, <1>3, <1>4, <1>5

\* The extension ends its loop.
LEMMA StopsAreFine ==
    ASSUME IInv, Kept(run'), GoodRun(run', plan', seen'), poll' \in {poll, Idle},
           client' = [client EXCEPT !.phase = "stopped"],
           poll.stage = "none" \/ poll' = Idle, run'.status # "running"
    PROVE  Fine
<1>1. /\ DOMAIN client' = DOMAIN client /\ client'.pauses = client.pauses
      /\ client'.phase = "stopped"
  BY DEF IInv
<1>2. DOMAIN poll' = DOMAIN poll /\ poll'.stage = "none"
  BY DEF IInv, Idle
<1>3. Stands'
  BY <1>1 DEF Stands
<1>4. IInv'
  BY <1>1, <1>2, <1>3 DEF IInv, Held, PauseIsHeld
<1>5. QED
  BY <1>1, <1>4 DEF Fine, Held, NothingToDo, IInv

LEMMA EndsAreFine ==
    ASSUME IInv, Kept(run'), ClientCompletes \/ ClientPauses \/ ClientFails
    PROVE  Fine
<1>1. /\ client' = [client EXCEPT !.phase = "stopped"] /\ poll' = poll
      /\ plan' = plan /\ seen' = seen
  BY DEF ClientCompletes, ClientPauses, ClientFails
<1>2. poll.stage = "none"
  BY DEF ClientCompletes, ClientPauses, ClientFails, Polls, IInv
<1>3. GoodRun(run', plan', seen')
  <2>1. CASE ClientPauses \/ ClientFails
    BY <1>1, <2>1, StatusMoves DEF ClientPauses, ClientFails, IInv
  <2>2. CASE ClientCompletes
    <3>1. GoodRun(run, plan, seen) /\ IsRun(run)
      BY DEF IInv, GoodRun
    <3>2. CASE SM!CanTransition(run.status, "completed")
      <4>1. ~Ended
        BY <3>1, <3>2, TableFacts DEF Ended, IsRun
      <4>2. Unmoved => run.cursor >= Len(plan) \/ seen.goal
        BY <2>2, <4>1 DEF ClientCompletes, IInv, Stands
      <4>3. run' = To(run, "completed")
        BY <2>2, <3>2 DEF ClientCompletes
      <4>4. IsRun(run') /\ run'.cursor = run.cursor
        BY <3>1, <4>3, ToIsRun
      <4>5. QED
        BY <1>1, <3>1, <4>2, <4>4 DEF GoodRun, Still, Unmoved
    <3>3. CASE ~SM!CanTransition(run.status, "completed")
      BY <1>1, <2>2, <3>1, <3>3, StatusMoves DEF ClientCompletes
    <3>4. QED
      BY <3>2, <3>3
  <2>3. QED
    BY <2>1, <2>2
<1>4. run'.status # "running"
  <2>1. IsRun(run)
    BY DEF IInv, GoodRun
  <2>2. SM!CanTransition(run.status, "completed") => To(run, "completed").status = "completed"
    BY <2>1 DEF To, IsRun
  <2>3. QED
    BY <2>1, <2>2, StatusFacts DEF ClientCompletes, ClientPauses, ClientFails
<1>5. QED
  BY <1>1, <1>2, <1>3, <1>4, StopsAreFine

--------------------------------------------------------------------------------
\* The answers of the AI to the first question.
LEMMA AnswersAreFine ==
    ASSUME IInv, Kept(run'), Answers
    PROVE  Fine
<1>1. GoodRun(run, plan, seen)
  BY DEF IInv
<1>2. ASSUME NEW edits, PlanOnly(edits) PROVE Fine
  <2> DEFINE w == OnceEdited(edits)
  <2>1. /\ poll.stage # "none" /\ edits # <<>> /\ Becomes(w) /\ client' = client
        /\ poll' = [poll EXCEPT !.base = Edited(edits), !.dirty = TRUE]
    BY <1>2 DEF PlanOnly
  <2>2. Steady(w) /\ ~Still(w.seen)
    BY <2>1, EditedIsSteady
  <2> HIDE DEF w
  <2>3. /\ GoodRun(run', plan', seen') /\ ~Unmoved'
        /\ run'.status = run.status /\ seen'.loose = seen.loose
    BY <2>1, <2>2, Written DEF Steady
  <2>4. DOMAIN poll' = DOMAIN poll /\ poll'.stage = poll.stage
    BY <2>1 DEF IInv
  <2>5. IInv'
    BY <2>1, <2>3, <2>4 DEF IInv, Held, PauseIsHeld
  <2>6. QED
    BY <2>1, <2>5 DEF Fine, Held, NothingToDo, IInv
<1>3. ASSUME NEW edits, AnswerEnded(edits) PROVE Fine
  <2> DEFINE w == [TwiceEdited(edits) EXCEPT !.mem = Forgotten]
  <2>1. Becomes(w) /\ Replies("COMPLETED", 0, <<>>, Nothing) /\ Ended
    BY <1>3 DEF AnswerEnded
  <2>2. Steady(w)
    BY EditedIsSteady, SteadyMem
  <2> HIDE DEF w
  <2>3. GoodRun(run', plan', seen') /\ (Unmoved' => Unmoved)
    BY <2>1, <2>2, Written DEF Steady
  <2>4. Ended'
    BY <2>1 DEF Kept, Ended
  <2>5. QED
    BY <2>1, <2>3, <2>4, ReplyIsFine
<1>4. ASSUME NEW edits, AnswerPastPlan(edits) PROVE Fine
  <2> DEFINE w == TwiceEdited(edits)
  <2>1. /\ Becomes(w) /\ Replies("COMPLETED", 0, <<>>, Nothing) /\ ~Ended
        /\ poll.stage # "none" /\ poll.step >= Len(w.plan)
    BY <1>4 DEF AnswerPastPlan
  <2>2. Steady(w) /\ w.run = run
    BY EditedIsSteady
  <2> HIDE DEF w
  <2>3. GoodRun(run', plan', seen') /\ (Unmoved' => Unmoved) /\ run' = run /\ plan' = w.plan
    BY <2>1, <2>2, Written DEF Steady
  <2>4. Unmoved' => run'.cursor >= Len(plan')
    BY <2>1, <2>3, AtCursor
  <2>5. QED
    BY <2>1, <2>3, <2>4, ReplyIsFine
<1>5. ASSUME NEW edits, AnswerWait(edits) PROVE Fine
  <2>1. poll.stage # "none" /\ WaitsOrRecovers(TwiceEdited(edits))
    BY <1>5 DEF AnswerWait, Answered
  <2>2. QED
    BY <2>1, EditedIsSteady, WaitsIsFine
<1>6. ASSUME NEW edits, AnswerAdapt(edits) \/ AnswerExecute(edits) PROVE Fine
  <2> DEFINE w == TwiceEdited(edits)
             v == [w EXCEPT !.mem.waits = 0, !.run = Resumed(@)]
  <2>1. /\ Becomes(v) /\ poll.stage # "none" /\ ~Ended
        /\ \/ Replies("ADAPT", 0, edits, StepOf(w)) \/ Replies("EXECUTE", 0, <<>>, StepOf(w))
    BY <1>6 DEF AnswerAdapt, AnswerExecute, Answered
  <2>2. Steady(w) /\ w.run = run /\ (Still(w.seen) => edits = <<>>)
    BY EditedIsSteady
  <2> HIDE DEF w
  <2>3. v.run = Resumed(run) /\ v.plan = w.plan /\ v.seen = w.seen
    BY <2>2 DEF Steady
  <2> HIDE DEF v
  <2>4. /\ run' = Resumed(run) /\ plan' = w.plan /\ (Unmoved' <=> Still(w.seen))
        /\ seen' = w.seen
    BY <2>1, <2>3, Written
  <2>5. GoodRun(run', plan', seen') /\ run'.cursor = run.cursor
    BY <2>2, <2>4, StatusMoves DEF Steady
  <2>6. Unmoved' => Unmoved /\ edits = <<>> /\ run'.cursor = client.index
    BY <2>1, <2>2, <2>4, <2>5, AtCursor DEF Steady
  <2>7. Unmoved' /\ StepOf(w) # Nothing =>
          run'.cursor < Len(plan') /\ StepOf(w) = plan'[run'.cursor + 1]
    BY <2>1, <2>2, <2>4, <2>5, StepAtCursor
  <2>8. CASE Replies("ADAPT", 0, edits, StepOf(w))
    BY <2>1, <2>5, <2>6, <2>7, <2>8, ReplyIsFine
  <2>9. CASE Replies("EXECUTE", 0, <<>>, StepOf(w))
    BY <2>1, <2>5, <2>6, <2>7, <2>9, ReplyIsFine
  <2>10. QED
    BY <2>1, <2>8, <2>9
<1>7. ASSUME NEW edits, AnswerSkip(edits) PROVE Fine
  <2> DEFINE w == TwiceEdited(edits)
             x == StepOf(w)
             v == [w EXCEPT !.mem = Forgotten, !.run = Advanced(@, w.plan),
                            !.seen.ran = @ \cup {x}]
  <2>1. /\ Becomes(v) /\ poll.stage # "none" /\ run.status = "running"
        /\ Replies("SKIP", poll.step + 1, edits, Nothing)
        /\ poll.step < Len(w.plan)
    BY <1>7 DEF AnswerSkip, Answered
  <2>2. Steady(w) /\ w.run = run /\ (Still(w.seen) => edits = <<>>)
    BY EditedIsSteady
  <2>3. ~Ended
    BY <2>1 DEF Ended, SM!Terminal
  <2>4. x = w.plan[poll.step + 1]
    BY <2>1 DEF StepOf
  <2> HIDE DEF w, x
  <2>5. /\ v.run = Advanced(run, w.plan) /\ v.plan = w.plan
        /\ v.seen = [w.seen EXCEPT !.ran = @ \cup {x}]
    BY <2>2 DEF Steady
  <2> HIDE DEF v
  <2>6. /\ run' = Advanced(run, w.plan) /\ plan' = w.plan
        /\ seen' = [w.seen EXCEPT !.ran = @ \cup {x}]
    BY <2>1, <2>5, Written
  <2>7. /\ IsSeen(seen') /\ seen'.ran = w.seen.ran \cup {x}
        /\ Still(seen') <=> Still(w.seen)
    BY <2>2, <2>6 DEF Steady, GoodRun, IsSeen, Still
  <2>8. Still(w.seen) => poll.step = run.cursor /\ Unmoved
    BY <2>1, <2>2, <2>3, AtCursor DEF Steady
  <2>9. GoodRun(run, w.plan, w.seen)
    BY <2>2 DEF Steady
  <2>10. GoodRun(run', plan', seen') /\ run'.cursor = run.cursor + 1
    <3> DEFINE p == w.plan
               s == w.seen
    <3>1. run.status # "completed" /\ GoodRun(run, p, s)
      BY <2>1, <2>9
    <3>2. Still(s) /\ run.cursor < Len(p) => x = p[run.cursor + 1]
      BY <2>4, <2>8
    <3>3. IsSeen(seen') /\ seen'.ran = s.ran \cup {x} /\ run' = Advanced(run, p) /\ plan' = p
      BY <2>6, <2>7
    <3>4. Still(seen') => Still(s)
      BY <2>7
    <3> HIDE DEF p, s
    <3>5. GoodRun(Advanced(run, p), p, seen') /\ Advanced(run, p).cursor = run.cursor + 1
      BY <3>1, <3>2, <3>3, <3>4, AdvancedIsGood
    <3>6. QED
      BY <3>3, <3>5
  <2>11. Unmoved' => Unmoved /\ edits = <<>> /\ run'.cursor = poll.step + 1
    BY <2>2, <2>7, <2>8, <2>10 DEF Still, Unmoved
  <2>12. QED
    BY <2>1, <2>10, <2>11, ReplyIsFine
<1>8. ASSUME NEW edits, AnswerSkipRefused(edits) PROVE Fine
  <2> DEFINE w == TwiceEdited(edits)
             v == [w EXCEPT !.run = Paused(@)]
  <2>1. /\ Becomes(v) /\ client' = [client EXCEPT !.phase = "stopped"] /\ poll' = Idle
    BY <1>8 DEF AnswerSkipRefused
  <2>2. Steady(w) /\ w.run = run
    BY EditedIsSteady
  <2> HIDE DEF w
  <2>3. v.run = Paused(run) /\ v.plan = w.plan /\ v.seen = w.seen
    BY <2>2 DEF Steady
  <2> HIDE DEF v
  <2>4. GoodRun(run', plan', seen')
    BY <2>1, <2>2, <2>3, Written, StatusMoves DEF Steady
  <2>5. run'.status # "running"
    BY <2>1, <2>3, Written, StatusFacts DEF IInv, GoodRun
  <2>6. QED
    BY <2>1, <2>4, <2>5, StopsAreFine
<1>9. ASSUME NEW edits, AnswerRestart(edits) PROVE Fine
  <2>1. poll.stage # "none" /\ ~Ended /\ Restarts(TwiceEdited(edits))
    BY <1>9 DEF AnswerRestart, Answered
  <2>2. QED
    BY <2>1, EditedIsSteady, RestartsIsFine
<1>10. ASSUME NEW edits, AnswerRollback(edits) PROVE Fine
  <2>1. PICK target \in 0..Len(plan) : Answered(edits) /\ RollsBack(TwiceEdited(edits), target)
    BY <1>10 DEF AnswerRollback
  <2>2. poll.stage # "none" /\ ~Ended
    BY <2>1 DEF Answered
  <2>3. QED
    BY <2>1, <2>2, EditedIsSteady, RollsBackIsFine
<1>11. ASSUME NEW edits, AnswerPause(edits) PROVE Fine
  <2>1. poll.stage # "none" /\ Recovers(TwiceEdited(edits), TRUE, "ai_pause_non_blocking")
    BY <1>11 DEF AnswerPause, Answered
  <2>2. QED
    BY <2>1, EditedIsSteady, RecoversIsFine
<1>12. CASE AnswerUnusable
  <2>1. poll.stage # "none" /\ ~Ended /\ FallsBack(OnceEdited(<<>>), TRUE)
    BY <1>12 DEF AnswerUnusable
  <2>2. QED
    BY <2>1, EditedIsSteady, FallsIsFine
<1>13. QED
  BY <1>2, <1>3, <1>4, <1>5, <1>6, <1>7, <1>8, <1>9, <1>10, <1>11, <1>12 DEF Answers

--------------------------------------------------------------------------------
\* The answers of the AI in a recovery cycle.
LEMMA RecoveriesAreFine ==
    ASSUME IInv, Kept(run'), RecoveryAnswers
    PROVE  Fine
<1>1. PICK edits \in NewEdits :
        \/ RecoveryCommand(edits, "ADAPT") \/ RecoveryCommand(edits, "EXECUTE")
        \/ RecoveryGoesBack(edits) \/ RecoveryGoesBackEnded(edits)
        \/ RecoveryGivesUp(edits) \/ RecoveryWaits(edits) \/ RecoveryExpires(edits)
  BY DEF RecoveryAnswers
<1> DEFINE w == OnceEdited(edits)
<1>2. Steady(w) /\ w.run = run
  BY EditedIsSteady
<1>3. ASSUME NEW n
      PROVE  /\ Steady([w EXCEPT !.mem.unusable = n]) /\ [w EXCEPT !.mem.unusable = n].run = run
             /\ StepOf([w EXCEPT !.mem.unusable = n]) = StepOf(w)
  <2> HIDE DEF w
  <2>1. QED
    BY <1>2 DEF Steady, StepOf
<1>4. poll.stage = "recovery" /\ poll.stage # "none"
  BY <1>1 DEF RecoveryCommand, RecoveryGoesBack, RecoveryGoesBackEnded, RecoveryGivesUp,
              RecoveryWaits, RecoveryExpires
<1>5. ASSUME NEW d \in {"ADAPT", "EXECUTE"}, RecoveryCommand(edits, d) PROVE Fine
  <2> DEFINE v == [w EXCEPT !.mem.unusable = 0]
  <2>1. Becomes(v) /\ \E task \in {Nothing, StepOf(w)} : Replies(d, 0, <<>>, task)
    BY <1>5 DEF RecoveryCommand
  <2>2. Steady(v) /\ StepOf(v) = StepOf(w)
    BY <1>3
  <2> HIDE DEF v, w
  <2>3. QED
    BY <1>4, <2>1, <2>2, StaysIsFine
<1>6. CASE RecoveryGoesBack(edits)
  <2> DEFINE v == [w EXCEPT !.mem.unusable = 0]
  <2>1. ~Ended /\ (Restarts(v) \/ \E target \in 0..Len(plan) : RollsBack(v, target))
    BY <1>6 DEF RecoveryGoesBack
  <2>2. Steady(v) /\ v.run = run
    BY <1>3
  <2> HIDE DEF v
  <2>3. QED
    BY <1>4, <2>1, <2>2, RestartsIsFine, RollsBackIsFine
<1>7. CASE RecoveryGoesBackEnded(edits)
  <2> DEFINE v == [w EXCEPT !.mem = Forgotten]
  <2>1. Becomes(v) /\ Replies("COMPLETED", 0, <<>>, Nothing) /\ Ended
    BY <1>7 DEF RecoveryGoesBackEnded
  <2>2. Steady(v)
    BY <1>2, SteadyMem
  <2> HIDE DEF v
  <2>3. GoodRun(run', plan', seen') /\ (Unmoved' => Unmoved) /\ Ended'
    BY <2>1, <2>2, Written DEF Steady, Kept, Ended
  <2>4. QED
    BY <2>1, <2>3, ReplyIsFine
<1>8. CASE RecoveryGivesUp(edits)
  <2> DEFINE v == [w EXCEPT !.mem.unusable = MaxUnusable, !.run = Paused(@)]
  <2>1. Becomes(v) /\ Replies("PAUSE", 0, <<>>, Nothing)
    BY <1>8 DEF RecoveryGivesUp
  <2> HIDE DEF w
  <2>2. v.run = Paused(run) /\ v.plan = w.plan /\ v.seen = w.seen
    BY <1>2 DEF Steady
  <2> HIDE DEF v
  <2>3. /\ run' = Paused(run) /\ plan' = w.plan /\ seen' = w.seen
        /\ Unmoved' <=> Still(w.seen)
    BY <2>1, <2>2, Written
  <2>4. /\ GoodRun(run', plan', seen') /\ run'.cursor = run.cursor
        /\ run'.status # "running"
    BY <1>2, <2>3, StatusMoves, StatusFacts DEF Steady, GoodRun
  <2>5. Unmoved' => Unmoved
    BY <1>2, <2>3 DEF Steady
  <2>6. ~Ended' /\ Unmoved' => run'.cursor = client.index
    BY <1>4, <2>4, <2>5, AtCursor DEF Kept, Ended
  <2>7. QED
    BY <2>1, <2>4, <2>5, <2>6, ReplyIsFine
<1>9. CASE RecoveryWaits(edits)
  <2>1. PICK n : Becomes([w EXCEPT !.mem.unusable = n])
    BY <1>9 DEF RecoveryWaits
  <2> DEFINE v == [w EXCEPT !.mem.unusable = n]
  <2>2. Replies("WAIT", 0, <<>>, Nothing) /\ Becomes(v)
    BY <1>9, <2>1 DEF RecoveryWaits
  <2>3. Steady(v)
    BY <1>3
  <2> HIDE DEF v
  <2>4. QED
    BY <1>4, <2>2, <2>3, StaysIsFine
<1>10. CASE RecoveryExpires(edits)
  <2> DEFINE v == [w EXCEPT !.mem = Forgotten, !.run = To(@, "failed")]
  <2>1. Becomes(v)
    BY <1>10 DEF RecoveryExpires
  <2>2. \/ Ended /\ Replies("COMPLETED", 0, <<>>, Nothing)
        \/ Replies("PAUSE", 0, <<>>, Nothing)
    BY <1>10 DEF RecoveryExpires
  <2> HIDE DEF w
  <2>3. v.run = To(run, "failed") /\ v.plan = w.plan /\ v.seen = w.seen
    BY <1>2 DEF Steady
  <2> HIDE DEF v
  <2>4. /\ run' = To(run, "failed") /\ plan' = w.plan /\ seen' = w.seen
        /\ Unmoved' <=> Still(w.seen)
    BY <2>1, <2>3, Written
  <2>5. GoodRun(run, w.plan, w.seen) /\ IsRun(run)
    BY <1>2 DEF Steady, GoodRun
  <2>6. /\ GoodRun(run', plan', seen') /\ run'.cursor = run.cursor
        /\ run'.status # "running"
    BY <2>4, <2>5, StatusMoves, StatusFacts
  <2>7. Unmoved' => Unmoved
    BY <1>2, <2>4 DEF Steady
  <2>8. ~Ended' /\ Unmoved' => run'.cursor = client.index
    BY <1>4, <2>6, <2>7, AtCursor DEF Kept, Ended
  <2>9. Ended => Ended'
    BY DEF Kept, Ended
  <2>10. CASE Ended /\ Replies("COMPLETED", 0, <<>>, Nothing)
    BY <2>6, <2>7, <2>9, <2>10, ReplyIsFine
  <2>11. CASE Replies("PAUSE", 0, <<>>, Nothing)
    BY <2>6, <2>7, <2>8, <2>11, ReplyIsFine
  <2>12. QED
    BY <2>2, <2>10, <2>11
<1>11. QED
  BY <1>1, <1>5, <1>6, <1>7, <1>8, <1>9, <1>10

--------------------------------------------------------------------------------
\* The reports of the extension.
LEMMA ReportsAreFine ==
    ASSUME IInv, Kept(run'), Reports
    PROVE  Fine
<1>1. /\ GoodRun(run, plan, seen) /\ IsRun(run)
      /\ DOMAIN client = {"phase", "index", "len", "pauses", "task"} /\ client.pauses \in Nat
  BY DEF IInv, GoodRun
<1>2. ASSUME NEW ok, ReportRefused(ok) PROVE Fine
  <2> DEFINE index == IF ok /\ ~Ended /\ client.index < MaxLen THEN client.index + 1
                      ELSE client.index
  <2>1. /\ Acting /\ run' = run /\ plan' = plan /\ poll' = poll /\ seen' = seen
        /\ Ended \/ client.index # run.cursor
        /\ client' = [client EXCEPT !.phase = IF Ended THEN "stopped" ELSE "ready",
                                    !.task = Nothing, !.index = index]
    BY <1>2 DEF ReportRefused
  <2>2. Ended \/ ~Unmoved
    BY <2>1 DEF Acting, IInv, Stands
  <2> HIDE DEF index
  <2>3. /\ DOMAIN client' = DOMAIN client /\ client'.pauses = client.pauses
        /\ client'.phase \in {"stopped", "ready"}
    BY <1>1, <2>1
  <2>4. (Ended' \/ ~Unmoved') /\ poll'.stage = "none"
    BY <2>1, <2>2 DEF Ended, Unmoved, Acting
  <2>5. Held'
    <3>1. client'.phase = "stopped" => run'.status # "running"
      BY <1>1, <2>1, <2>3 DEF Ended, SM!Terminal
    <3>2. client.pauses = 0
      BY <2>1 DEF IInv, Held, Acting
    <3>3. QED
      BY <2>3, <3>1, <3>2 DEF Held, PauseIsHeld
  <2>6. IInv'
    BY <2>1, <2>3, <2>4, <2>5 DEF IInv
  <2>7. QED
    BY <1>1, <2>3, <2>6 DEF Fine, Held, NothingToDo
<1>3. ASSUME NEW goal \in BOOLEAN, ReportSuccess(goal) PROVE Fine
  <2> DEFINE accepted == [Resumed(run) EXCEPT !.closed = FALSE, !.last = run.cursor]
             advanced == Advanced(accepted, plan)
             phase == IF run'.status = "completed" THEN "stopped" ELSE "ready"
  <2>1. /\ Acting /\ ~Ended /\ client.index = run.cursor /\ client.task # Nothing
        /\ run' = IF goal THEN To(advanced, "completed") ELSE advanced
        /\ client' = [client EXCEPT !.index = @ + 1, !.task = Nothing, !.phase = phase]
        /\ seen' = [seen EXCEPT !.ran = @ \cup {client.task}, !.goal = @ \/ goal]
        /\ plan' = plan /\ poll' = poll
    BY <1>3 DEF ReportSuccess
  <2>2. /\ IsRun(accepted) /\ accepted.cursor = run.cursor
        /\ accepted.status \in {run.status, "running"}
    BY <1>1, ResumedIsRun, StatusFacts DEF IsRun
  <2>3. accepted.status # "completed"
    BY <2>1, <2>2 DEF Ended, SM!Terminal
  <2> HIDE DEF accepted
  <2>4. GoodRun(accepted, plan, seen)
    BY <1>1, <2>2, <2>3, MovedIsGood
  <2>5. /\ IsSeen(seen') /\ seen'.ran = seen.ran \cup {client.task}
        /\ seen'.goal = (seen.goal \/ goal) /\ (Still(seen') <=> Still(seen))
    BY <1>1, <2>1 DEF GoodRun, IsSeen, Still
  <2>6. Still(seen) => client.task = plan[run.cursor + 1]
    BY <2>1 DEF Acting, IInv, Stands, Still, Unmoved
  <2>7. GoodRun(advanced, plan, seen') /\ advanced.cursor = run.cursor + 1
    <3>1. Still(seen) /\ accepted.cursor < Len(plan) => client.task = plan[accepted.cursor + 1]
      BY <2>2, <2>6
    <3>2. Still(seen') => Still(seen)
      BY <2>5
    <3>3. IsSeen(seen') /\ seen'.ran = seen.ran \cup {client.task}
      BY <2>5
    <3> DEFINE task == client.task
    <3> HIDE DEF task
    <3>4. GoodRun(advanced, plan, seen') /\ advanced.cursor = accepted.cursor + 1
      <4>1. Still(seen) /\ accepted.cursor < Len(plan) => task = plan[accepted.cursor + 1]
        BY <3>1 DEF task
      <4>2. seen'.ran = seen.ran \cup {task}
        BY <3>3 DEF task
      <4>3. QED
        BY <2>3, <2>4, <3>2, <3>3, <4>1, <4>2, AdvancedIsGood
    <3>5. QED
      BY <2>2, <3>4
  <2> HIDE DEF advanced
  <2>8. GoodRun(run', plan', seen') /\ run'.cursor = run.cursor + 1
    <3>1. CASE goal
      BY <2>1, <2>5, <2>7, <3>1, StatusMoves
    <3>2. CASE ~goal
      BY <2>1, <2>7, <3>2
    <3>3. QED
      BY <3>1, <3>2
  <2>9. phase \in {"stopped", "ready"} /\ (phase = "stopped" => run'.status = "completed")
    OBVIOUS
  <2> HIDE DEF phase
  <2>10. /\ DOMAIN client' = DOMAIN client /\ client'.pauses = client.pauses
         /\ client'.phase = phase /\ client'.index = run.cursor + 1
    BY <1>1, <2>1
  <2>11. Stands' /\ poll'.stage = "none"
    BY <2>1, <2>8, <2>9, <2>10 DEF Stands, Acting
  <2>12. IInv'
    <3>1. client.pauses = 0 /\ (phase = "stopped" => run'.status # "running")
      BY <2>1, <2>9 DEF IInv, Held, Acting
    <3>2. Held'
      BY <2>9, <2>10, <3>1 DEF Held, PauseIsHeld
    <3>3. QED
      BY <2>1, <2>8, <2>9, <2>10, <2>11, <3>2 DEF IInv
  <2>13. QED
    BY <1>1, <2>9, <2>10, <2>12 DEF Fine, Held, NothingToDo
<1>4. ASSUME NEW kind, ReportFailure(kind) PROVE Fine
  <2> DEFINE tried == [Resumed(run) EXCEPT !.last = run.cursor]
  <2>1. /\ Acting /\ client.index = run.cursor
        /\ run' \in {tried, To(tried, "failed"), Paused(tried)}
        /\ client' = [client EXCEPT !.phase = "ready", !.task = Nothing]
        /\ plan' = plan /\ poll' = poll /\ seen' = seen
    BY <1>4 DEF ReportFailure
  <2>2. /\ IsRun(tried) /\ tried.cursor = run.cursor
        /\ tried.status \in {run.status, "running"}
    BY <1>1, ResumedIsRun, StatusFacts DEF IsRun
  <2> HIDE DEF tried
  <2>3. GoodRun(tried, plan, seen)
    BY <1>1, <2>2, MovedIsGood
  <2>4. GoodRun(run', plan', seen') /\ run'.cursor = run.cursor
    BY <2>1, <2>2, <2>3, StatusMoves
  <2>5. /\ DOMAIN client' = DOMAIN client /\ client'.pauses = client.pauses
        /\ client'.phase = "ready" /\ client'.index = client.index
    BY <1>1, <2>1
  <2>6. Stands' /\ poll'.stage = "none"
    BY <2>1, <2>4, <2>5 DEF Stands, Acting
  <2>7. IInv'
    <3>1. client.pauses = 0
      BY <2>1 DEF IInv, Held, Acting
    <3>2. Held'
      BY <2>5, <3>1 DEF Held, PauseIsHeld
    <3>3. QED
      BY <2>1, <2>4, <2>5, <2>6, <3>2 DEF IInv
  <2>8. QED
    BY <1>1, <2>5, <2>7 DEF Fine, Held, NothingToDo
<1>5. QED
  BY <1>2, <1>3, <1>4 DEF Reports

\* The run is paused, canceled or goes on, and stays at its step.
LEMMA StayedIsFine ==
    ASSUME IInv, Kept(run'), GoodRun(run', plan', seen'), run'.cursor = run.cursor,
           plan' = plan, seen'.goal = seen.goal, Unmoved' => Unmoved,
           poll' = poll, client' = client,
           seen.loose => seen'.loose,
           run'.status = "running" => run.status = "running" \/ seen'.loose
    PROVE  Fine
<1>1. ~Ended' /\ Unmoved' => ~Ended /\ Unmoved
  BY DEF Kept, Ended
<1>2. ~Ended' /\ Unmoved' => Stands'
  BY <1>1 DEF IInv, Stands
<1>3. IInv'
  BY <1>2 DEF IInv, Held, PauseIsHeld
<1>4. QED
  BY <1>3 DEF IInv, Fine, Held, NothingToDo

\* What comes from outside of the loop, and time.
LEMMA OutsideIsFine ==
    ASSUME IInv, Kept(run'),
           Tick \/ PersonActs \/ TabCloses \/ SupervisorResumes \/ BackendRestarts
    PROVE  Fine
<1>1. /\ GoodRun(run, plan, seen) /\ IsRun(run) /\ seen.edits \in Nat /\ IsSeen(seen)
      /\ DOMAIN client = {"phase", "index", "len", "pauses", "task"} /\ client.pauses \in Nat
  BY DEF IInv, GoodRun, IsSeen
<1>2. ASSUME NEW kind, NEW edits \in {0, 1}, NEW loose, Disturbed(kind, edits, loose)
      PROVE  /\ IsSeen(seen') /\ seen'.ran = seen.ran /\ seen'.goal = seen.goal
             /\ seen'.edits = seen.edits + edits /\ seen'.strayed = seen.strayed
             /\ Still(seen') <=> edits = 0 /\ Still(seen)
             /\ seen.loose \/ loose => seen'.loose
  <2>1. seen' = [seen EXCEPT !.trouble = @ + 1 - edits, !.edits = @ + edits,
                             !.loose = @ \/ loose]
    BY <1>2 DEF Disturbed
  <2>2. /\ IsSeen(seen') /\ seen'.ran = seen.ran /\ seen'.goal = seen.goal
        /\ seen'.edits = seen.edits + edits /\ seen'.strayed = seen.strayed
        /\ seen'.loose = (seen.loose \/ loose)
    BY <1>1, <2>1 DEF IsSeen
  <2>3. seen.loose \/ loose => seen'.loose
    BY <2>2, Zenon
  <2>4. QED
    BY <1>1, <2>2, <2>3 DEF Still
<1>3. CASE Tick
  <2>1. /\ run' = run /\ plan' = plan /\ poll' = poll /\ client' = client /\ seen' = seen
    BY <1>3 DEF Tick
  <2>2. QED
    BY <2>1 DEF IInv, Stands, Ended, Unmoved, Fine, Held, PauseIsHeld, NothingToDo
<1>4. CASE PersonActs
  <2>1. /\ run' \in {Paused(run), To(run, "canceled"), To(run, "running")}
        /\ plan' = plan /\ poll' = poll /\ client' = client
        /\ Disturbed("person", 0, run'.status = "running")
    BY <1>4 DEF PersonActs
  <2>2. GoodRun(run', plan, seen) /\ run'.cursor = run.cursor
    BY <1>1, <2>1, StatusMoves
  <2>3. /\ IsSeen(seen') /\ seen'.ran = seen.ran /\ seen'.goal = seen.goal
        /\ Still(seen') <=> Still(seen)
        /\ (seen.loose => seen'.loose) /\ (run'.status = "running" => seen'.loose)
    BY <1>2, <2>1
  <2>4. GoodRun(run', plan', seen')
    BY <2>1, <2>2, <2>3 DEF GoodRun
  <2>5. QED
    BY <2>1, <2>2, <2>3, <2>4, StayedIsFine DEF Still, Unmoved
<1>5. CASE TabCloses
  <2>1. /\ run' = [run EXCEPT !.status = "waiting_for_user", !.closed = TRUE]
        /\ plan' = plan /\ poll' = poll /\ client' = client
        /\ Disturbed("tab", 0, FALSE)
    BY <1>5 DEF TabCloses
  <2>2. IsRun(run') /\ run'.cursor = run.cursor /\ run'.status = "waiting_for_user"
    BY <1>1, <2>1 DEF IsRun, SM!RunStatus
  <2>3. GoodRun(run', plan, seen)
    BY <1>1, <2>2, MovedIsGood
  <2>4. /\ IsSeen(seen') /\ seen'.ran = seen.ran /\ seen'.goal = seen.goal
        /\ (Still(seen') <=> Still(seen)) /\ (seen.loose => seen'.loose)
    BY <1>2, <2>1
  <2>5. GoodRun(run', plan', seen')
    BY <2>1, <2>3, <2>4 DEF GoodRun
  <2>6. QED
    BY <2>1, <2>2, <2>4, <2>5, StayedIsFine DEF Still, Unmoved
<1>6. CASE SupervisorResumes
  <2>1. /\ run' = To(run, "running") /\ poll' = poll /\ client' = client
        /\ Disturbed("supervisor", 1, TRUE)
    BY <1>6 DEF SupervisorResumes
  <2>2. IsSeen(seen') /\ ~Still(seen') /\ seen'.loose
    <3>1. IsSeen(seen') /\ seen'.loose /\ (Still(seen') => 1 = 0)
      BY <1>2, <2>1, Zenon
    <3>2. QED
      BY <3>1, SMT
  <2>3. IsRun(run') /\ run'.cursor \in Nat
    BY <1>1, <2>1, ToIsRun DEF GoodRun
  <2>4. GoodRun(run', plan', seen') /\ ~Unmoved'
    BY <2>2, <2>3 DEF GoodRun, Still, Unmoved
  <2>5. QED
    BY <1>1, <2>1, <2>2, <2>4 DEF IInv, Fine, Held, PauseIsHeld, NothingToDo
<1>7. CASE BackendRestarts
  <2> DEFINE phase == IF client.phase = "waiting" THEN "stopped" ELSE client.phase
  <2>1. /\ run' = run /\ plan' = plan /\ poll' = Idle
        /\ Disturbed("restart", 0, client.phase = "waiting")
        /\ client' = [client EXCEPT !.phase = phase]
    BY <1>7 DEF BackendRestarts
  <2>2. /\ IsSeen(seen') /\ seen'.ran = seen.ran /\ seen'.goal = seen.goal
        /\ (Still(seen') <=> Still(seen)) /\ (seen.loose \/ client.phase = "waiting" => seen'.loose)
    BY <1>2, <2>1
  <2>3. GoodRun(run', plan', seen')
    BY <1>1, <2>1, <2>2 DEF GoodRun
  <2>4. /\ phase # "waiting"
        /\ (phase # client.phase => phase = "stopped" /\ client.phase = "waiting")
    OBVIOUS
  <2> HIDE DEF phase
  <2>5. /\ DOMAIN client' = DOMAIN client /\ client'.pauses = client.pauses
        /\ client'.phase = phase /\ client'.index = client.index /\ client'.task = client.task
    BY <1>1, <2>1
  <2>6. DOMAIN poll' = DOMAIN poll /\ poll'.stage = "none"
    BY <2>1 DEF Idle, IInv
  <2>7. ~Ended' /\ Unmoved' => ~Ended /\ Unmoved
    BY <2>1, <2>2 DEF Ended, Still, Unmoved
  <2>8. ~Ended' /\ Unmoved' => Stands'
    BY <2>1, <2>2, <2>4, <2>5, <2>7 DEF IInv, Stands
  <2>9. IInv'
    BY <1>1, <2>1, <2>2, <2>3, <2>4, <2>5, <2>6, <2>8 DEF IInv, Held, PauseIsHeld
  <2>10. QED
    BY <1>1, <2>4, <2>5, <2>9 DEF Fine, Held, NothingToDo
<1>8. QED
  BY <1>3, <1>4, <1>5, <1>6, <1>7

--------------------------------------------------------------------------------
LEMMA InvInit == Init => IInv
<1> SUFFICES ASSUME Init PROVE IInv
  OBVIOUS
<1>1. /\ IsRun(run) /\ run.cursor = 0 /\ run.status # "completed"
      /\ IsSeen(seen) /\ plan = Recorded /\ DOMAIN plan = 1..Len(plan)
  BY AgentAssumption DEF Init, IsRun, IsSeen, SM!RunStatus
<1>2. GoodRun(run, plan, seen)
  BY <1>1 DEF GoodRun
<1>3. /\ DOMAIN client = {"phase", "index", "len", "pauses", "task"} /\ client.pauses = 0
      /\ client.phase = "ready" /\ client.index = 0
  BY DEF Init
<1>4. DOMAIN poll = {"stage", "step", "trigger", "base", "real", "dirty"} /\ poll.stage = "none"
  BY DEF Init, Idle
<1>5. Held
  BY <1>3 DEF Held, PauseIsHeld
<1>6. QED
  BY <1>1, <1>2, <1>3, <1>4, <1>5 DEF IInv, Stands

LEMMA StepIsFine ==
    ASSUME IInv, [Next]_vars
    PROVE  Fine
<1>1. IsRun(run)
  BY DEF IInv, GoodRun
<1>2. CASE Next
  <2>1. Kept(run')
    BY <1>1, <1>2, NextKeeps
  <2>2. CASE LoopStep
    BY <2>1, <2>2, PollsAreFine, AnswersAreFine, RecoveriesAreFine, ReportsAreFine, EndsAreFine
    DEF LoopStep
  <2>3. CASE Tick \/ PersonActs \/ TabCloses \/ SupervisorResumes \/ BackendRestarts
    BY <2>1, <2>3, OutsideIsFine
  <2>4. QED
    BY <1>2, <2>2, <2>3 DEF Next
<1>3. CASE UNCHANGED vars
  BY <1>3 DEF vars, IInv, Stands, Ended, Unmoved, Fine, Held, PauseIsHeld, NothingToDo
<1>4. QED
  BY <1>2, <1>3

LEMMA Invariant == Spec => []IInv
<1>1. IInv /\ [Next]_vars => IInv'
  BY StepIsFine DEF Fine
<1>2. QED
  BY InvInit, <1>1, PTL DEF Spec

\* The extension and the backend agree on the step in hand, for every plan and
\* every sequence of waits, skips, rollbacks, restarts, pauses and lost budgets,
\* unless the plan was edited or a restart did not find its URL: a report is then
\* never refused because of its step (report_result, executeAgentRun).
THEOREM CursorsAgree == Spec => []InStep
<1>1. IInv => InStep
  BY DEF IInv, Stands, InStep
<1>2. QED
  BY <1>1, Invariant, PTL

\* However often a run was rolled back, restarted, skipped, paused and resumed, no
\* step of its plan was left out when it completes (advance_step, poll,
\* executeAgentRun), under the same conditions and without a look at the goal.
THEOREM NoStepLeftOut == Spec => []CompletedCoversPlan
<1>1. ASSUME IInv PROVE CompletedCoversPlan
  <2>1. SUFFICES ASSUME Unmoved, run.status = "completed", ~seen.goal, NEW i \in DOMAIN plan
                 PROVE  plan[i] \in seen.ran
    BY DEF CompletedCoversPlan
  <2>2. Still(seen) /\ Len(plan) \in Nat /\ DOMAIN plan = 1..Len(plan)
    BY <1>1, <2>1, PlanLength DEF Still, Unmoved
  <2>3. run.cursor \in Nat /\ run.cursor >= Len(plan)
    BY <1>1, <2>1, <2>2 DEF IInv, GoodRun
  <2>4. i <= run.cursor
    BY <2>1, <2>2, <2>3
  <2>5. QED
    BY <1>1, <2>1, <2>2, <2>4 DEF IInv, GoodRun
<1>2. QED
  BY <1>1, Invariant, PTL

\* Of all the handlers only a recovery cycle hands out a command without looking
\* at the status again (_autonomous_recovery_cycle).
THEOREM CommandsOnlyToLiveRuns == Spec => CommandsToLiveRuns
<1>1. IInv /\ [Next]_vars
      => [Ended /\ client'.phase = "acting" /\ client.phase # "acting"
            => poll.stage = "recovery"]_vars
  BY StepIsFine DEF Fine, NothingToDo
<1>2. QED
  BY <1>1, Invariant, PTL DEF Spec, CommandsToLiveRuns

\* A run that the extension takes for paused does not go on, through all the polls that
\* repeat the pause and after the loop of the extension has ended, whatever the AI
\* answers; only a person, the supervisor or a restart that takes the loop away from a
\* poll sets it going (_fail_on_step_recovery_timeout, _autonomous_recovery_cycle,
\* executeAgentRun).
THEOREM PausesAreHeld == Spec => []PauseIsHeld
<1>1. IInv => PauseIsHeld
  BY DEF IInv, Held
<1>2. QED
  BY <1>1, Invariant, PTL

\* Whatever the AI answers and however late, a run that has ended keeps its
\* status and its cursor: the poll looks at the status again after each answer
\* that could move it (agent_service.py, _terminal_response_if_needed), and the
\* table of transitions leads nowhere from a terminal status.
THEOREM LateAnswersMoveNothing == Spec => EndedStaysEnded
<1>1. IsRun(run) /\ [Next]_vars => Kept(run')
  <2> SUFFICES ASSUME IsRun(run), [Next]_vars PROVE Kept(run')
    OBVIOUS
  <2>1. CASE Next
    BY <2>1, NextKeeps
  <2>2. CASE UNCHANGED vars
    BY <2>2, SafeMoves DEF vars
  <2>3. QED
    BY <2>1, <2>2
<1>2. IInv => IsRun(run)
  BY DEF IInv, GoodRun
<1>3. IInv /\ [Next]_vars
      => [Ended => run'.status = run.status /\ run'.cursor = run.cursor]_vars
  BY <1>1, <1>2 DEF Kept
<1>4. QED
  BY <1>3, Invariant, PTL DEF Spec, EndedStaysEnded
================================================================================
