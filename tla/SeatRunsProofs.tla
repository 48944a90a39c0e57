----------------------------- MODULE SeatRunsProofs -----------------------------
(***************************************************************************)
(* Theorems about SeatRuns, for any number of works, rows and relaunches.  *)
(*                                                                         *)
(* WorkConserved by itself is not inductive: the cancel of an orphan takes *)
(* a live run away.  RequeueInv adds that from the commit of the clone on  *)
(* the work of the orphan is accounted for without the orphan.  Both are   *)
(* instances of AccountedBut(w, x), which every action but that cancel     *)
(* keeps for all w and x (Keeps).                                          *)
(*                                                                         *)
(* That a work ends once needs the converse: that never two runs count for *)
(* one work (OnceInv), where the orphan stops counting with its clone, and *)
(* nobody else touches the orphan of an uncrossed work (Undisturbed).      *)
(***************************************************************************)
EXTENDS SeatRuns, TLAPS

Present(r) == runs[r].status # "absent"
Holds(r) == Present(r) /\ (runs[r].status \in Live \/ r \in hooks)

\* It holds its work, or is the place where the work was lost.
Held(r) == Present(r) /\ (runs[r].status \in Live \/ r \in hooks \/ r \in missed)

\* The work w is accounted for by something else than the run x.
AccountedBut(w, x) ==
    \/ advanced[w] > 0 \/ w \in surfaced
    \/ \E r \in Runs : r # x /\ runs[r].work = w /\ Held(r)

Everywhere == \A w \in Works : AccountedBut(w, NoRun)

RequeueInv ==
    /\ requeue.run # NoRun => Present(requeue.run)
    /\ requeue.cloned => /\ requeue.run # NoRun
                         /\ AccountedBut(runs[requeue.run].work, requeue.run)

IInv == TypeOK /\ Everywhere /\ RequeueInv

\* What a held run leaves behind when a step takes it away: an end of its work,
\* or a new row that carries it.
Kept(r) ==
    \/ Held(r)'
    \/ advanced'[runs[r].work] > 0
    \/ runs[r].work \in surfaced'
    \/ \E c \in Runs : ~Present(c) /\ Held(c)' /\ runs'[c].work = runs[r].work

Keeps ==
    /\ \A w \in Works : advanced[w] > 0 => advanced'[w] > 0
    /\ surfaced \subseteq surfaced'
    /\ missed \subseteq missed'
    /\ \A r \in Runs : Present(r) => Present(r)' /\ runs'[r].work = runs[r].work
    /\ \A r \in Runs : Held(r) => Kept(r)

--------------------------------------------------------------------------------
(* Rows.                                                                   *)

\* Touching a row gives a row, with the same work.
LEMMA TouchedType ==
    ASSUME NEW row \in Row, NEW st \in Status
    PROVE  /\ Touched(row, st) \in Row
           /\ Touched(row, st).work = row.work
           /\ Touched(row, st).status = st
           /\ Touched(row, st).fault = row.fault
  BY DEF Touched, Row

\* A new row is a row, and it is live.
LEMMA QueuedType ==
    ASSUME NEW w \in Works, NEW n \in 0..MaxRelaunch
    PROVE  /\ Queued(w, n) \in Row
           /\ Queued(w, n).status = "queued"
           /\ Queued(w, n).work = w
  BY DEF Queued, Row, Status

\* A run that is known to be in some status is present.
LEMMA LiveStatus == Live \subseteq Status /\ "absent" \notin Live
  BY DEF Live, Status

\* Nothing happens to the rows, and no hook is run.
LEMMA QuietKeeps ==
    ASSUME UNCHANGED <<runs, advanced, surfaced>>, hooks \subseteq hooks' \cup missed',
           missed \subseteq missed'
    PROVE  Keeps
  BY DEF Keeps, Kept, Held, Present

\* One present run changes, and stays live, is owed a hook, or has its end shown.
LEMMA ChangeKeeps ==
    ASSUME TypeOK, NEW r \in Runs, Present(r), NEW new \in Row,
           runs' = [runs EXCEPT ![r] = new],
           new.work = runs[r].work, new.status # "absent",
           \/ new.status \in Live
           \/ r \in hooks'
           \/ runs[r].work \in surfaced',
           hooks \subseteq hooks', UNCHANGED <<advanced, missed>>, surfaced \subseteq surfaced'
    PROVE  Keeps /\ runs' \in [Runs -> Row]
  <1>1. runs' \in [Runs -> Row]
    BY DEF TypeOK
  <1>2. runs'[r] = new /\ \A q \in Runs : q # r => runs'[q] = runs[q]
    BY DEF TypeOK
  <1>3. \A q \in Runs : Present(q) => Present(q)' /\ runs'[q].work = runs[q].work
    BY <1>2 DEF Present
  <1>4. ASSUME NEW q \in Runs, Held(q)
        PROVE  Kept(q)
    BY <1>2, <1>4 DEF Kept, Held, Present
  <1> QED
    BY <1>1, <1>3, <1>4 DEF Keeps

\* A clone of r carries the work of r: the hook of r may be done with it.
LEMMA CloneKeeps ==
    ASSUME TypeOK, NEW r \in Runs, NEW n \in 0..MaxRelaunch, ClonedWith(r, n),
           UNCHANGED <<advanced, surfaced, missed>>, hooks \ {r} \subseteq hooks'
    PROVE  /\ Keeps
           /\ runs' \in [Runs -> Row]
           /\ Present(r) => \E c \in Runs : c # r /\ Held(c)' /\ runs'[c].work = runs[r].work
  <1>1. PICK c \in Runs : IsFresh(c) /\ runs' = [runs EXCEPT ![c] = Queued(runs[r].work, n)]
    BY DEF ClonedWith
  <1>2. ~Present(c) /\ (Present(r) => c # r)
    BY <1>1 DEF IsFresh, Present
  <1>3. runs[r] \in Row /\ runs[r].work \in Works
    BY DEF TypeOK, Row
  <1>4. /\ runs'[c] = Queued(runs[r].work, n)
        /\ \A q \in Runs : q # c => runs'[q] = runs[q]
    BY <1>1 DEF TypeOK
  <1>5. Held(c)' /\ runs'[c].work = runs[r].work
    BY <1>3, <1>4, QueuedType DEF Held, Present, Live
  <1>6. runs' \in [Runs -> Row]
    BY <1>1, <1>3, QueuedType DEF TypeOK
  <1>7. \A q \in Runs : Present(q) => Present(q)' /\ runs'[q].work = runs[q].work
    BY <1>2, <1>4 DEF Present
  <1>8. ASSUME NEW q \in Runs, Held(q)
        PROVE  Kept(q)
    <2>1. q # c
      BY <1>2, <1>8 DEF Held
    <2>2. CASE q = r
      BY <1>2, <1>5, <2>2 DEF Kept
    <2>3. CASE q # r
      BY <1>4, <1>8, <2>1, <2>3 DEF Kept, Held, Present
    <2> QED
      BY <2>2, <2>3
  <1> QED
    BY <1>2, <1>5, <1>6, <1>7, <1>8 DEF Keeps

\* What Keeps is for.
LEMMA KeepsAccounted ==
    ASSUME TypeOK, Keeps, NEW w \in Works, NEW x, AccountedBut(w, x),
           x = NoRun \/ (x \in Runs /\ Present(x))
    PROVE  AccountedBut(w, x)'
  <1>1. CASE advanced[w] > 0 \/ w \in surfaced
    BY <1>1 DEF Keeps, AccountedBut
  <1>2. CASE \E r \in Runs : r # x /\ runs[r].work = w /\ Held(r)
    <2>1. PICK r \in Runs : r # x /\ runs[r].work = w /\ Held(r)
      BY <1>2
    <2>2. Present(r) /\ runs'[r].work = w /\ Kept(r)
      BY <2>1 DEF Keeps, Held
    <2>3. CASE Held(r)'
      BY <2>1, <2>2, <2>3 DEF AccountedBut
    <2>4. CASE advanced'[runs[r].work] > 0 \/ runs[r].work \in surfaced'
      BY <2>1, <2>4 DEF AccountedBut
    <2>5. CASE \E c \in Runs : ~Present(c) /\ Held(c)' /\ runs'[c].work = runs[r].work
      <3>1. PICK c \in Runs : ~Present(c) /\ Held(c)' /\ runs'[c].work = runs[r].work
        BY <2>5
      <3>2. c # x
        BY <3>1 DEF Runs, NoRun
      <3> QED
        BY <2>1, <3>1, <3>2 DEF AccountedBut
    <2> QED
      BY <2>2, <2>3, <2>4, <2>5 DEF Kept
  <1> QED
    BY <1>1, <1>2 DEF AccountedBut

\* A step that keeps the work and leaves the requeue alone keeps the invariant.
LEMMA KeepsInv ==
    ASSUME IInv, Keeps, TypeOK', UNCHANGED requeue
    PROVE  IInv'
  <1>1. Everywhere'
    BY KeepsAccounted DEF IInv, Everywhere
  <1>2. RequeueInv'
    <2>1. requeue.run # NoRun => requeue.run \in Runs /\ Present(requeue.run)
      BY DEF IInv, TypeOK, RequeueInv
    <2>2. requeue.run # NoRun => /\ Present(requeue.run)'
                                 /\ runs'[requeue.run].work = runs[requeue.run].work
                                 /\ runs[requeue.run].work \in Works
      BY <2>1 DEF Keeps, IInv, TypeOK, Row
    <2>3. requeue.cloned => AccountedBut(runs[requeue.run].work, requeue.run)'
      BY <2>1, <2>2, KeepsAccounted DEF IInv, RequeueInv, AccountedBut
    <2> QED
      BY <2>2, <2>3 DEF RequeueInv, AccountedBut, IInv
  <1> QED
    BY <1>1, <1>2 DEF IInv
--------------------------------------------------------------------------------
(* The steps.                                                              *)

\* A present run takes another status, and is not let go of.
LEMMA BecomesKeeps ==
    ASSUME TypeOK, NEW r \in Runs, Present(r), NEW st \in Status \ {"absent"}, Becomes(r, st),
           st \in Live \/ r \in hooks' \/ runs[r].work \in surfaced',
           hooks \subseteq hooks', UNCHANGED <<advanced, missed>>, surfaced \subseteq surfaced'
    PROVE  Keeps /\ runs' \in [Runs -> Row]
  <1> DEFINE new == Touched(runs[r], st)
  <1>1. runs[r] \in Row
    BY DEF TypeOK
  <1>2. new \in Row /\ new.work = runs[r].work /\ new.status = st
    BY <1>1, TouchedType
  <1>3. runs' = [runs EXCEPT ![r] = new]
    BY DEF Becomes
  <1> HIDE DEF new
  <1> QED
    BY <1>2, <1>3, ChangeKeeps

\* A run that fails is owed its hook.
LEMMA FailKeeps ==
    ASSUME TypeOK, NEW r \in Runs, Present(r), NEW f \in {"walled", "stage"}, FailsWith(r, f),
           UNCHANGED <<advanced, surfaced, missed>>
    PROVE  Keeps /\ runs' \in [Runs -> Row] /\ hooks' \in SUBSET Runs
  <1> DEFINE base == Touched(runs[r], "failed")
             new  == [base EXCEPT !.fault = f]
  <1>1. runs[r] \in Row /\ "failed" \in Status
    BY DEF TypeOK, Status
  <1>2. base \in Row /\ base.work = runs[r].work /\ base.status = "failed"
    BY <1>1, TouchedType
  <1>3. runs' = [runs EXCEPT ![r] = new] /\ hooks' = hooks \cup {r}
    BY DEF FailsWith
  <1> HIDE DEF base
  <1>4. new \in Row /\ new.work = runs[r].work /\ new.status = "failed"
    BY <1>2 DEF Row
  <1> HIDE DEF new
  <1>5. Keeps /\ runs' \in [Runs -> Row]
    BY <1>3, <1>4, ChangeKeeps
  <1> QED
    BY <1>3, <1>5 DEF TypeOK

\* A driven run is a present run.
LEMMA DrivenPresent ==
    ASSUME NEW r \in Runs, Driven(r)
    PROVE  Present(r)
  BY DEF Driven, Present

\* What a drive does to its run.
LEMMA DriveStep ==
    ASSUME TypeOK, Drive
    PROVE  TypeOK' /\ Keeps /\ UNCHANGED requeue
  <1> USE DEF daemonVars, backendVars, historyVars, endVars
  <1>1. CASE Extract
    <2>1. PICK r \in Runs : /\ Driven(r)
                            /\ runs' = [runs EXCEPT ![r] =
                                          [Touched(@, @.status) EXCEPT !.extracted = TRUE]]
      BY <1>1 DEF Extract
    <2> DEFINE base == Touched(runs[r], runs[r].status)
               new  == [base EXCEPT !.extracted = TRUE]
    <2>2. runs[r] \in Row /\ runs[r].status \in Status /\ runs[r].status \in Live
      BY <2>1 DEF TypeOK, Row, Driven, Live
    <2>3. base \in Row /\ base.work = runs[r].work /\ base.status \in Live
      BY <2>2, TouchedType
    <2>4. runs' = [runs EXCEPT ![r] = new]
      BY <2>1
    <2> HIDE DEF base
    <2>5. new \in Row /\ new.work = runs[r].work /\ new.status \in Live
      BY <2>3 DEF Row
    <2> HIDE DEF new
    <2>6. Keeps /\ runs' \in [Runs -> Row]
      BY <1>1, <2>1, <2>4, <2>5, ChangeKeeps, DrivenPresent, LiveStatus DEF Extract
    <2> QED
      BY <1>1, <2>6 DEF Extract, TypeOK
  <1>2. CASE Finish
    <2>1. PICK r \in Runs : Driven(r) /\ Becomes(r, "completed") /\ hooks' = hooks \cup {r}
      BY <1>2 DEF Finish
    <2>2. Keeps /\ runs' \in [Runs -> Row]
      BY <1>2, <2>1, BecomesKeeps, DrivenPresent DEF Finish, Status
    <2> QED
      BY <1>2, <2>1, <2>2 DEF Finish, TypeOK, Released
  <1>3. CASE MeetWall
    <2>1. PICK r \in Runs : Driven(r) /\ FailsWith(r, "walled")
      BY <1>3 DEF MeetWall
    <2>2. Keeps /\ runs' \in [Runs -> Row] /\ hooks' \in SUBSET Runs
      BY <1>3, <2>1, FailKeeps, DrivenPresent DEF MeetWall
    <2> QED
      BY <1>3, <2>2 DEF MeetWall, TypeOK, Released
  <1>4. CASE StageFails
    <2>1. PICK r \in Runs : Driven(r) /\ FailsWith(r, "stage")
      BY <1>4 DEF StageFails
    <2>2. Keeps /\ runs' \in [Runs -> Row] /\ hooks' \in SUBSET Runs
      BY <1>4, <2>1, FailKeeps, DrivenPresent DEF StageFails
    <2> QED
      BY <1>4, <2>2 DEF StageFails, TypeOK, Released
  <1>5. CASE PauseDrive
    <2>1. PICK r \in Runs : Driven(r) /\ Becomes(r, "waiting_for_user")
      BY <1>5 DEF PauseDrive
    <2>2. Keeps /\ runs' \in [Runs -> Row]
      BY <1>5, <2>1, BecomesKeeps, DrivenPresent DEF PauseDrive, Status, Live
    <2> QED
      BY <1>5, <2>2 DEF PauseDrive, TypeOK, Released
  <1>6. CASE LeaveRun
    BY <1>6, QuietKeeps DEF LeaveRun, TypeOK, Released
  <1> QED
    BY <1>1, <1>2, <1>3, <1>4, <1>5, <1>6 DEF Drive

\* What the daemon does.
LEMMA DaemonStep ==
    ASSUME TypeOK, Daemon
    PROVE  TypeOK' /\ Keeps /\ UNCHANGED requeue
  <1> USE DEF daemonVars, backendVars, historyVars, endVars
  <1>1. CASE Claim
    <2>1. PICK r \in Claimable :
             /\ daemon' = [daemon EXCEPT !.driving = r]
             /\ IF runs[r].status = "queued" THEN Becomes(r, "running") ELSE UNCHANGED runs
             /\ Crosses(r)
      BY <1>1 DEF Claim
    <2>2. r \in Runs /\ Present(r) /\ crossed' \in SUBSET Works
      BY <2>1 DEF Claimable, Watched, Present, Crosses, TypeOK, Row
    <2>3. Keeps /\ runs' \in [Runs -> Row]
      <3>1. CASE runs[r].status = "queued"
        BY <1>1, <2>1, <2>2, <3>1, BecomesKeeps DEF Claim, Status, Live
      <3>2. CASE runs[r].status # "queued"
        BY <1>1, <2>1, <3>2, QuietKeeps DEF Claim, TypeOK
      <3> QED
        BY <3>1, <3>2
    <2> QED
      BY <1>1, <2>1, <2>2, <2>3 DEF Claim, BeatsSent, TypeOK
  <1>2. CASE Drive
    BY <1>2, DriveStep
  <1>3. CASE Ping \/ PingFails
    BY <1>3, QuietKeeps DEF Ping, PingFails, KeepAlive, BeatsSent, TypeOK
  <1>4. CASE Heartbeat
    BY <1>4, QuietKeeps DEF Heartbeat, TypeOK
  <1>5. CASE HotReload \/ GraceLapses
    BY <1>5, QuietKeeps DEF HotReload, GraceLapses, TypeOK
  <1>6. CASE LoseReport
    BY <1>6, QuietKeeps DEF LoseReport, Released, TypeOK
  <1>7. CASE PowerOff
    BY <1>7, QuietKeeps DEF PowerOff, TypeOK
  <1>8. CASE PowerOn
    BY <1>8, QuietKeeps DEF PowerOn, TypeOK
  <1> QED
    BY <1>1, <1>2, <1>3, <1>4, <1>5, <1>6, <1>7, <1>8 DEF Daemon
\* The relaunch count of a clone stays in its range.
LEMMA AutoRelaunchCount ==
    ASSUME TypeOK, NEW r \in Runs, AutoRelaunch(r)
    PROVE  runs[r].tries + 1 \in 0..MaxRelaunch /\ ClonedWith(r, runs[r].tries + 1)
  <1>1. runs[r].tries \in 0..MaxRelaunch
    BY DEF TypeOK, Row
  <1> QED
    BY <1>1, BoundsAssumption DEF AutoRelaunch, MayRelaunch

\* A terminal hook hands the work of its run on.
LEMMA HookStep ==
    ASSUME TypeOK, NEW r \in Runs, Hook(r)
    PROVE  TypeOK' /\ Keeps /\ UNCHANGED requeue
  <1> USE DEF daemonVars, backendVars, historyVars, endVars
  <1>1. hooks' = hooks \ {r}
        /\ UNCHANGED <<requeue, resumes, beats, daemon, seat, missed, crossed>>
    BY DEF Hook
  <1>2. runs[r].work \in Works
    BY DEF TypeOK, Row
  <1>3. CASE AdvanceHook(r)
    <2>1. /\ UNCHANGED <<runs, surfaced>>
          /\ advanced' = [advanced EXCEPT ![runs[r].work] = @ + 1]
      BY <1>3 DEF AdvanceHook
    <2>2. advanced' \in [Works -> Nat]
      BY <1>2, <2>1 DEF TypeOK
    <2>3. /\ advanced'[runs[r].work] > 0
          /\ \A w \in Works : advanced[w] > 0 => advanced'[w] > 0
      BY <1>2, <2>1 DEF TypeOK
    <2>4. Keeps
      BY <1>1, <2>1, <2>3 DEF Keeps, Kept, Held, Present
    <2> QED
      BY <1>1, <2>1, <2>2, <2>4 DEF TypeOK
  <1>4. CASE WalledHook(r)
    <2>1. Keeps /\ runs' \in [Runs -> Row]
      BY <1>1, <1>4, AutoRelaunchCount, CloneKeeps DEF WalledHook
    <2> QED
      BY <1>1, <1>4, <2>1 DEF WalledHook, TypeOK
  <1>5. CASE FailureHook(r)
    <2>1. UNCHANGED <<runs, advanced>> /\ surfaced' = surfaced \cup {runs[r].work}
      BY <1>5 DEF FailureHook
    <2>2. Keeps
      BY <1>1, <2>1 DEF Keeps, Kept, Held, Present
    <2> QED
      BY <1>1, <1>2, <2>1, <2>2 DEF TypeOK
  <1> QED
    BY <1>3, <1>4, <1>5 DEF Hook

\* A hook that fails leaves its run behind as missed.
LEMMA HookFailsStep ==
    ASSUME TypeOK, NEW r \in Runs, HookFails(r)
    PROVE  TypeOK' /\ Keeps /\ UNCHANGED requeue
  <1> USE DEF daemonVars, backendVars, endVars
  <1>1. Keeps
    BY QuietKeeps DEF HookFails
  <1> QED
    BY <1>1 DEF HookFails, TypeOK

\* What a person does.
LEMMA PersonStep ==
    ASSUME TypeOK, Person
    PROVE  TypeOK' /\ Keeps /\ UNCHANGED requeue
  <1> USE DEF daemonVars, backendVars, historyVars, endVars
  <1>1. PICK r \in Runs : Relaunch(r) \/ Cancel(r) \/ ResumeByHand(r)
    BY DEF Person
  <1>2. runs[r].work \in Works /\ runs[r].tries \in 0..MaxRelaunch
    BY DEF TypeOK, Row
  <1>3. CASE Relaunch(r)
    <2>1. Keeps /\ runs' \in [Runs -> Row]
      BY <1>2, <1>3, CloneKeeps DEF Relaunch
    <2> QED
      BY <1>2, <1>3, <2>1 DEF Relaunch, TypeOK
  <1>4. CASE Cancel(r)
    <2>1. Present(r)
      BY <1>4, LiveStatus DEF Cancel, Present
    <2>2. Keeps /\ runs' \in [Runs -> Row]
      BY <1>4, <2>1, BecomesKeeps DEF Cancel, Status
    <2> QED
      BY <1>2, <1>4, <2>2 DEF Cancel, Crosses, TypeOK
  <1>5. CASE ResumeByHand(r)
    <2>1. Keeps /\ runs' \in [Runs -> Row]
      BY <1>5, BecomesKeeps DEF ResumeByHand, Status, Live, Present
    <2> QED
      BY <1>5, <2>1 DEF ResumeByHand, TypeOK
  <1> QED
    BY <1>1, <1>3, <1>4, <1>5

\* What the supervisor does to a run that is not an orphan.
LEMMA SupervisorStep ==
    ASSUME TypeOK, NEW r \in Runs,
           GoQuiet(r) \/ ResumeStuck(r) \/ PauseStalled(r) \/ CompleteEmptyRun(r)
    PROVE  TypeOK' /\ Keeps /\ UNCHANGED requeue
  <1> USE DEF daemonVars, backendVars, historyVars, endVars
  <1>1. runs[r] \in Row /\ "running" \in Status /\ "running" \in Live
    BY DEF TypeOK, Status, Live
  <1>2. Present(r)
    BY DEF GoQuiet, ResumeStuck, PauseStalled, CompleteEmptyRun, MayResume, Stuck, Present
  <1>3. CASE GoQuiet(r)
    <2> DEFINE new == [runs[r] EXCEPT !.quiet = TRUE]
    <2>1. runs[r].status \in Live
      BY <1>3 DEF GoQuiet, Live
    <2>2. new \in Row /\ new.work = runs[r].work /\ new.status \in Live
      BY <1>1, <2>1 DEF Row
    <2>3. runs' = [runs EXCEPT ![r] = new]
      BY <1>3 DEF GoQuiet
    <2> HIDE DEF new
    <2>4. Keeps /\ runs' \in [Runs -> Row]
      BY <1>2, <1>3, <2>2, <2>3, ChangeKeeps, LiveStatus DEF GoQuiet
    <2> QED
      BY <1>3, <2>4 DEF GoQuiet, TypeOK
  <1>4. CASE ResumeStuck(r)
    <2>1. PICK gone \in BOOLEAN :
            runs' = [runs EXCEPT ![r] =
                       [Touched(@, "running") EXCEPT !.patched = TRUE, !.emptied = gone]]
      BY <1>4 DEF ResumeStuck
    <2> DEFINE base == Touched(runs[r], "running")
               new  == [base EXCEPT !.patched = TRUE, !.emptied = gone]
    <2>2. base \in Row /\ base.work = runs[r].work /\ base.status \in Live
      BY <1>1, TouchedType
    <2>3. runs' = [runs EXCEPT ![r] = new]
      BY <2>1
    <2> HIDE DEF base
    <2>4. new \in Row /\ new.work = runs[r].work /\ new.status \in Live
      BY <2>2 DEF Row
    <2> HIDE DEF new
    <2>5. Keeps /\ runs' \in [Runs -> Row]
      BY <1>2, <1>4, <2>3, <2>4, ChangeKeeps, LiveStatus DEF ResumeStuck
    <2>6. resumes[r] + 1 \in 0..MaxResumes
      <3>1. resumes[r] \in 0..MaxResumes /\ resumes[r] < MaxResumes
        BY <1>4 DEF ResumeStuck, MayResume, TypeOK
      <3> QED
        BY <3>1, BoundsAssumption
    <2>7. resumes' \in [Runs -> 0..MaxResumes]
      BY <1>4, <2>6 DEF ResumeStuck, TypeOK
    <2> QED
      BY <1>4, <2>5, <2>7 DEF ResumeStuck, TypeOK
  <1>5. CASE PauseStalled(r)
    <2>1. Keeps /\ runs' \in [Runs -> Row]
      BY <1>2, <1>5, BecomesKeeps DEF PauseStalled, Status, Live
    <2> QED
      BY <1>5, <2>1 DEF PauseStalled, TypeOK
  <1>6. CASE CompleteEmptyRun(r)
    <2>1. Keeps /\ runs' \in [Runs -> Row]
      BY <1>2, <1>6, BecomesKeeps DEF CompleteEmptyRun, Status
    <2> QED
      BY <1>6, <2>1 DEF CompleteEmptyRun, TypeOK
  <1> QED
    BY <1>3, <1>4, <1>5, <1>6

\* The other steps do nothing to the rows.
LEMMA EnvironmentStep ==
    ASSUME TypeOK, SeatChanges \/ BeatsExpire \/ UNCHANGED vars
    PROVE  TypeOK' /\ Keeps /\ UNCHANGED requeue
  <1> USE DEF daemonVars, backendVars, historyVars, endVars
  <1>1. CASE SeatChanges
    BY <1>1, QuietKeeps DEF SeatChanges, TypeOK
  <1>2. CASE BeatsExpire
    BY <1>2, QuietKeeps DEF BeatsExpire, TypeOK
  <1>3. CASE UNCHANGED vars
    BY <1>3, QuietKeeps DEF vars, TypeOK
  <1> QED
    BY <1>1, <1>2, <1>3
--------------------------------------------------------------------------------
(* The supervisor's requeue.                                               *)

\* A run that the supervisor judges is present, and nothing is promised of it yet.
LEMMA JudgeStep ==
    ASSUME TypeOK, NEW r \in Runs, JudgeOrphan(r)
    PROVE  TypeOK' /\ (IInv => IInv')
  <1> USE DEF daemonVars, historyVars, endVars
  <1>1. /\ requeue' = [run |-> r, cloned |-> FALSE]
        /\ UNCHANGED <<runs, hooks, resumes, beats, daemon, seat, advanced, surfaced, missed>>
        /\ crossed' \in SUBSET Works
    BY DEF JudgeOrphan, TypeOK, Row
  <1>2. Present(r)
    BY DEF JudgeOrphan, Stuck, Present
  <1>3. TypeOK'
    BY <1>1 DEF TypeOK
  <1>4. Everywhere => Everywhere'
    BY <1>1 DEF Everywhere, AccountedBut, Held, Present
  <1>5. RequeueInv'
    BY <1>1, <1>2 DEF RequeueInv, Present
  <1> QED
    BY <1>3, <1>4, <1>5 DEF IInv

\* The clone of the orphan is another run of the same work.
LEMMA CloneStep ==
    ASSUME TypeOK, CloneOrphan
    PROVE  TypeOK' /\ (IInv => IInv')
  <1> USE DEF daemonVars, historyVars, endVars
  <1>1. PICK o \in Runs : o = requeue.run
    BY DEF CloneOrphan, TypeOK
  <1>2. /\ AutoRelaunch(o) /\ requeue' = [requeue EXCEPT !.cloned = TRUE]
        /\ UNCHANGED <<hooks, resumes, beats, daemon, seat, historyVars>>
    BY <1>1 DEF CloneOrphan
  <1>3. requeue'.run = o /\ requeue'.cloned /\ requeue' \in [run : Runs \cup {NoRun}, cloned : BOOLEAN]
    BY <1>1, <1>2 DEF TypeOK
  <1>4. /\ Keeps
        /\ runs' \in [Runs -> Row]
        /\ Present(o) => \E c \in Runs : c # o /\ Held(c)' /\ runs'[c].work = runs[o].work
    BY <1>1, <1>2, AutoRelaunchCount, CloneKeeps
  <1>5. TypeOK'
    BY <1>2, <1>3, <1>4 DEF TypeOK
  <1>6. ASSUME IInv
        PROVE  IInv'
    <2>1. Present(o)
      BY <1>1, <1>6 DEF IInv, RequeueInv, NoRun, Runs
    <2>2. Present(o)' /\ runs'[o].work = runs[o].work
      BY <1>1, <1>4, <2>1 DEF Keeps
    <2>3. PICK c \in Runs : c # o /\ Held(c)' /\ runs'[c].work = runs[o].work
      BY <1>4, <2>1
    <2>4. RequeueInv'
      BY <1>1, <1>3, <2>2, <2>3 DEF RequeueInv, AccountedBut, NoRun, Runs
    <2>5. Everywhere'
      BY <1>4, <1>6, KeepsAccounted DEF IInv, Everywhere
    <2> QED
      BY <1>5, <2>4, <2>5 DEF IInv
  <1> QED
    BY <1>5, <1>6

\* The cancel takes the orphan away from its work, which the clone accounts for.
LEMMA CancelStep ==
    ASSUME TypeOK, CancelOrphan
    PROVE  TypeOK' /\ (IInv => IInv')
  <1> USE DEF daemonVars, historyVars, endVars
  <1>1. PICK o \in Runs \cup {NoRun} : o = requeue.run
    BY DEF TypeOK
  <1> DEFINE new == Touched(runs[o], "canceled")
  <1>2. /\ requeue' = NoRequeue /\ runs' = [runs EXCEPT ![o] = new]
        /\ UNCHANGED <<hooks, resumes, beats, daemon, seat, historyVars>>
    BY <1>1 DEF CancelOrphan, Becomes
  <1>3. o \in Runs => new \in Row /\ new.work = runs[o].work
    BY TouchedType DEF TypeOK, Status
  <1> HIDE DEF new
  <1>4. runs' \in [Runs -> Row]
    <2>1. CASE o \in Runs
      BY <1>2, <1>3, <2>1 DEF TypeOK
    <2>2. CASE o \notin Runs
      BY <1>2, <2>2 DEF TypeOK
    <2> QED
      BY <2>1, <2>2
  <1>5. TypeOK'
    BY <1>2, <1>4 DEF TypeOK, NoRequeue
  <1>6. ASSUME IInv
        PROVE  IInv'
    <2>1. o \in Runs /\ Present(o) /\ AccountedBut(runs[o].work, o)
      BY <1>1, <1>6 DEF IInv, RequeueInv, CancelOrphan
    <2>2. \A r \in Runs : r # o => runs'[r] = runs[r] /\ (Held(r) => Held(r)')
      BY <1>2, <2>1 DEF TypeOK, Held, Present
    <2>3. ASSUME NEW w \in Works, AccountedBut(w, o)
          PROVE  AccountedBut(w, NoRun)'
      BY <1>2, <2>2, <2>3 DEF AccountedBut, Runs, NoRun
    <2>4. ASSUME NEW w \in Works, w # runs[o].work, AccountedBut(w, NoRun)
          PROVE  AccountedBut(w, o)
      BY <2>4 DEF AccountedBut
    <2>5. Everywhere'
      BY <1>6, <2>1, <2>3, <2>4 DEF IInv, Everywhere
    <2>6. RequeueInv'
      BY <1>2 DEF RequeueInv, NoRequeue
    <2> QED
      BY <1>5, <2>5, <2>6 DEF IInv
  <1> QED
    BY <1>5, <1>6

\* A requeue that is given up, or forgotten with everything else in memory, leaves
\* the rows as they are.
LEMMA GiveUpStep ==
    ASSUME IInv, RequeueFails \/ BackendRestart
    PROVE  IInv'
  <1> USE DEF daemonVars, endVars
  <1>1. /\ UNCHANGED <<runs, daemon, seat, advanced, surfaced>> /\ requeue' = NoRequeue
        /\ hooks' \in {{}, hooks} /\ hooks \subseteq hooks' \cup missed'
        /\ missed' \in SUBSET Runs /\ missed \subseteq missed' /\ LeavesOriginal
    BY DEF RequeueFails, BackendRestart, IInv, TypeOK
  <1>2. crossed' \in SUBSET Works
    <2>1. requeue.cloned => runs[requeue.run].work \in Works
      BY DEF IInv, TypeOK, RequeueInv, Row
    <2> QED
      BY <1>1, <2>1 DEF LeavesOriginal, IInv, TypeOK
  <1>3. resumes' \in [Runs -> 0..MaxResumes] /\ beats' \in BOOLEAN
    <2>1. 0 \in 0..MaxResumes
      BY BoundsAssumption
    <2>2. CASE RequeueFails
      BY <2>2 DEF RequeueFails, IInv, TypeOK
    <2>3. CASE BackendRestart
      BY <2>1, <2>3 DEF BackendRestart
    <2> QED
      BY <2>2, <2>3
  <1>4. TypeOK'
    BY <1>1, <1>2, <1>3 DEF IInv, TypeOK, NoRequeue
  <1>5. Keeps
    BY <1>1, QuietKeeps
  <1>6. Everywhere'
    BY <1>5, KeepsAccounted DEF IInv, Everywhere
  <1>7. RequeueInv'
    BY <1>1 DEF RequeueInv, NoRequeue
  <1> QED
    BY <1>4, <1>6, <1>7 DEF IInv

--------------------------------------------------------------------------------
(* The theorems.                                                           *)

\* The steps that change no requeue.
OrdinaryNext ==
    \/ Daemon \/ Person \/ SeatChanges \/ BeatsExpire \/ UNCHANGED vars
    \/ \E r \in Runs : \/ Hook(r) \/ HookFails(r) \/ GoQuiet(r) \/ ResumeStuck(r)
                       \/ PauseStalled(r) \/ CompleteEmptyRun(r)

\* They keep the type and the work.
LEMMA OrdinaryStep ==
    ASSUME TypeOK, OrdinaryNext
    PROVE  TypeOK' /\ Keeps /\ UNCHANGED requeue
  BY DaemonStep, PersonStep, EnvironmentStep, HookStep, HookFailsStep, SupervisorStep
  DEF OrdinaryNext

\* Every step is one of them, a step of the requeue, or a restart.
LEMMA NextSplit ==
    ASSUME [Next]_vars
    PROVE  \/ OrdinaryNext \/ CloneOrphan \/ CancelOrphan \/ RequeueFails \/ BackendRestart
           \/ \E r \in Runs : JudgeOrphan(r)
  BY DEF OrdinaryNext, Next, Supervisor

\* All works are queued at the start.
LEMMA InitInv ==
    ASSUME Init
    PROVE  IInv
  <1> DEFINE first == Queued(1, 0)
  <1>1. 1 \in Works /\ 0 \in 0..MaxRelaunch /\ 0 \in 0..MaxResumes /\ Works \subseteq Runs
    BY BoundsAssumption DEF Works, Runs
  <1>2. \A w \in Works : /\ Queued(w, 0) \in Row /\ Queued(w, 0).status = "queued"
                         /\ Queued(w, 0).work = w
    BY <1>1, QueuedType
  <1>3. first \in Row
    BY <1>1, <1>2
  <1>4. runs = [r \in Runs |-> IF r \in Works THEN Queued(r, 0)
                               ELSE [first EXCEPT !.status = "absent"]]
    BY DEF Init
  <1> HIDE DEF first
  <1>5. [first EXCEPT !.status = "absent"] \in Row
    BY <1>3 DEF Row, Status
  <1>6. runs \in [Runs -> Row]
    BY <1>2, <1>4, <1>5
  <1>7. TypeOK
    BY <1>1, <1>6 DEF Init, TypeOK, NoRequeue, NoRun
  <1>8. \A w \in Works : runs[w] = Queued(w, 0)
    BY <1>1, <1>4
  <1>9. \A w \in Works : Held(w) /\ runs[w].work = w /\ w # NoRun
    BY <1>2, <1>8 DEF Held, Present, Live, Works, NoRun
  <1>10. Everywhere
    BY <1>1, <1>9 DEF Everywhere, AccountedBut
  <1>11. RequeueInv
    BY DEF Init, RequeueInv, NoRequeue
  <1> QED
    BY <1>7, <1>10, <1>11 DEF IInv

\* The invariant of the seat's runs.
LEMMA InvHolds == Spec => []IInv
  <1>1. ASSUME IInv, [Next]_vars
        PROVE  IInv'
    <2>1. TypeOK
      BY <1>1 DEF IInv
    <2>2. CASE OrdinaryNext
      BY <1>1, <2>1, <2>2, OrdinaryStep, KeepsInv
    <2> QED
      BY <1>1, <2>1, <2>2, NextSplit, JudgeStep, CloneStep, CancelStep, GiveUpStep
  <1> QED
    BY <1>1, InitInv, PTL DEF Spec

\* Every variable keeps its type: in particular no chain of automatic relaunches
\* counts past MAX_AUTO_RELAUNCH, and no run is resumed more often than
\* MAX_AUTO_RESUMES_PER_RUN between two restarts of the backend.
THEOREM SeatTypeCorrect == Spec => []TypeOK
  <1>1. IInv => TypeOK
    BY DEF IInv
  <1> QED
    BY <1>1, InvHolds, PTL

\* Whatever the walls, the power cuts, lost heartbeats, failed requeues, restarts, the
\* supervisor and people do, a work that has dropped out has a run whose terminal hook
\* raised, or was forgotten in a restart of the backend.
THEOREM NothingLost == Spec => []WorkConserved
  <1>1. IInv => WorkConserved
    BY DEF IInv, Everywhere, AccountedBut, Held, Present, WorkConserved, Accounted, RunsOf
  <1> QED
    BY <1>1, InvHolds, PTL
--------------------------------------------------------------------------------
(* One end.                                                                *)

\* r counts for its work: an orphan no longer does once it is cloned.
Counts(r) == Holds(r) /\ ~(requeue.cloned /\ requeue.run = r)

\* Nobody else has touched the run that the supervisor requeues.
Undisturbed ==
    requeue.run # NoRun /\ runs[requeue.run].work \notin crossed =>
        runs[requeue.run].status = "running" /\ daemon.driving # requeue.run

\* One run at most counts for w, and only until w has come to its end.
OnceFor(w) ==
    /\ \A r, q \in Runs : Counts(r) /\ Counts(q) /\ runs[r].work = w /\ runs[q].work = w => r = q
    /\ \A r \in Runs : Counts(r) /\ runs[r].work = w => Outcome(w) = "pending"
    /\ Outcome(w) # "ended_again"

HooksEnded == \A r \in hooks : Present(r) /\ runs[r].status \notin Live

OnceInv == \A w \in Works \ crossed : OnceFor(w)

CrossInv == Undisturbed /\ HooksEnded /\ OnceInv

SameOutcomes == \A w \in Works : Outcome(w)' = Outcome(w)

\* What a hook, or a cancel by hand, makes of the end of a work.
Ends(w) == /\ Outcome(w) = "pending" /\ Outcome(w)' \in {"advanced", "surfaced"}
           /\ \A v \in Works : v # w => Outcome(v)' = Outcome(v)

\* A step that touches one work: it is enough to look at that one.
LEMMA OtherWorks ==
    ASSUME OnceInv, crossed \subseteq crossed', NEW w \in Works,
           \A v \in Works : v # w => Outcome(v)' = Outcome(v),
           \A r \in Runs : Counts(r)' /\ runs'[r].work # w => Counts(r) /\ runs'[r].work = runs[r].work,
           w \in crossed' \/ OnceFor(w)'
    PROVE  OnceInv'
  <1>1. ASSUME NEW v \in Works \ crossed', v # w
        PROVE  OnceFor(v)'
    <2>1. OnceFor(v) /\ Outcome(v)' = Outcome(v)
      BY <1>1 DEF OnceInv
    <2>2. \A r \in Runs : Counts(r)' /\ runs'[r].work = v => Counts(r) /\ runs[r].work = v
      BY <1>1
    <2> QED
      BY <2>1, <2>2 DEF OnceFor
  <1> QED
    BY <1>1 DEF OnceInv

\* A step after which no more runs count than before, and that ends no work.
LEMMA NoMoreCount ==
    ASSUME OnceInv, crossed \subseteq crossed', SameOutcomes,
           \A r \in Runs : Counts(r)' => Counts(r) /\ runs'[r].work = runs[r].work
    PROVE  OnceInv'
  <1>1. ASSUME NEW v \in Works \ crossed'
        PROVE  OnceFor(v)'
    <2>1. OnceFor(v) /\ Outcome(v)' = Outcome(v)
      BY <1>1 DEF OnceInv, SameOutcomes
    <2>2. \A r \in Runs : Counts(r)' /\ runs'[r].work = v => Counts(r) /\ runs[r].work = v
      BY <1>1
    <2> QED
      BY <2>1, <2>2 DEF OnceFor
  <1> QED
    BY <1>1 DEF OnceInv

\* Outcomes follow the two histories.
LEMMA OutcomesStay ==
    ASSUME UNCHANGED endVars
    PROVE  SameOutcomes
  BY DEF SameOutcomes, Outcome, endVars

\* One live run changes, and stays live, is owed its hook, or is cancelled.
LEMMA OneChange ==
    ASSUME TypeOK, HooksEnded, OnceInv, UNCHANGED <<requeue, endVars>>, crossed \subseteq crossed',
           NEW r \in Runs, runs[r].status \in Live, NEW new \in Row,
           runs' = [runs EXCEPT ![r] = new], new.work = runs[r].work,
           \/ new.status \in Live /\ hooks' = hooks
           \/ new.status \notin Live \cup {"absent"} /\ hooks' = hooks \cup {r}
    PROVE  HooksEnded' /\ OnceInv'
  <1>1. runs'[r] = new /\ \A q \in Runs : q # r => runs'[q] = runs[q]
    BY DEF TypeOK
  <1>2. Holds(r) /\ r \notin hooks
    BY LiveStatus DEF Holds, Present, HooksEnded
  <1>3. hooks \subseteq Runs /\ hooks' \subseteq hooks \cup {r}
    BY DEF TypeOK
  <1>4. \A q \in Runs : Counts(q)' => Counts(q) /\ runs'[q].work = runs[q].work
    BY <1>1, <1>2, <1>3 DEF Counts, Holds, Present
  <1>5. ASSUME NEW q \in hooks'
        PROVE  Present(q)' /\ runs'[q].status \notin Live
    <2>1. CASE q = r
      BY <1>1, <1>2, <1>5, <2>1 DEF Present
    <2>2. CASE q # r
      <3>1. q \in hooks /\ q \in Runs
        BY <1>3, <1>5, <2>2
      <3> QED
        BY <1>1, <2>2, <3>1 DEF HooksEnded, Present
    <2> QED
      BY <2>1, <2>2
  <1> QED
    BY <1>4, <1>5, NoMoreCount, OutcomesStay DEF HooksEnded

\* Nothing happens to the rows.
LEMMA OneQuiet ==
    ASSUME TypeOK, HooksEnded, OnceInv, UNCHANGED <<runs, requeue, endVars>>,
           hooks' \subseteq hooks, crossed \subseteq crossed'
    PROVE  HooksEnded' /\ OnceInv'
  <1>1. \A r \in Runs : Counts(r)' => Counts(r) /\ runs'[r].work = runs[r].work
    BY DEF Counts, Holds, Present
  <1>2. \A r \in hooks' : Present(r)' /\ runs'[r].status \notin Live
    BY DEF HooksEnded, Present
  <1> QED
    BY <1>1, <1>2, NoMoreCount, OutcomesStay DEF HooksEnded

\* A live run takes another status.
LEMMA OneBecomes ==
    ASSUME TypeOK, HooksEnded, OnceInv, UNCHANGED <<requeue, endVars>>, crossed \subseteq crossed',
           NEW r \in Runs, runs[r].status \in Live, NEW st \in Status, Becomes(r, st),
           \/ st \in Live /\ hooks' = hooks
           \/ st \notin Live \cup {"absent"} /\ hooks' = hooks \cup {r}
    PROVE  HooksEnded' /\ OnceInv'
  <1> DEFINE new == Touched(runs[r], st)
  <1>1. new \in Row /\ new.work = runs[r].work /\ new.status = st
    BY TouchedType DEF TypeOK
  <1>2. runs' = [runs EXCEPT ![r] = new]
    BY DEF Becomes
  <1> HIDE DEF new
  <1> QED
    BY <1>1, <1>2, OneChange

\* A live run fails.
LEMMA OneFails ==
    ASSUME TypeOK, HooksEnded, OnceInv, UNCHANGED <<requeue, endVars, crossed>>,
           NEW r \in Runs, runs[r].status \in Live, NEW f \in {"walled", "stage"}, FailsWith(r, f)
    PROVE  HooksEnded' /\ OnceInv'
  <1> DEFINE base == Touched(runs[r], "failed")
             new  == [base EXCEPT !.fault = f]
  <1>1. base \in Row /\ base.work = runs[r].work /\ base.status = "failed"
    BY TouchedType DEF TypeOK, Status
  <1>2. runs' = [runs EXCEPT ![r] = new] /\ hooks' = hooks \cup {r}
    BY DEF FailsWith
  <1> HIDE DEF base
  <1>3. new \in Row /\ new.work = runs[r].work /\ new.status = "failed"
    BY <1>1 DEF Row
  <1> HIDE DEF new
  <1>4. "failed" \notin Live \cup {"absent"}
    BY DEF Live
  <1> QED
    BY <1>2, <1>3, <1>4, OneChange
\* The history only grows.
LEMMA CrossedGrows ==
    ASSUME [Next]_vars
    PROVE  crossed \subseteq crossed'
  <1> USE DEF daemonVars, backendVars, historyVars, endVars
  <1>1. CASE Daemon
    BY <1>1 DEF Daemon, Claim, Crosses, Drive, Extract, Finish, MeetWall, StageFails, PauseDrive,
                LeaveRun, Ping, PingFails, KeepAlive, Heartbeat, HotReload, GraceLapses,
                LoseReport, PowerOff, PowerOn
  <1>2. CASE Supervisor
    BY <1>2 DEF Supervisor, CloneOrphan, CancelOrphan, RequeueFails, LeavesOriginal, GoQuiet,
                JudgeOrphan, ResumeStuck, PauseStalled, CompleteEmptyRun
  <1>3. CASE Person
    BY <1>3 DEF Person, Relaunch, Cancel, Crosses, ResumeByHand
  <1>4. CASE SeatChanges \/ BeatsExpire \/ BackendRestart \/ UNCHANGED vars
             \/ \E r \in Runs : Hook(r) \/ HookFails(r)
    BY <1>4 DEF SeatChanges, BeatsExpire, BackendRestart, LeavesOriginal, Hook, HookFails, vars
  <1> QED
    BY <1>1, <1>2, <1>3, <1>4 DEF Next

\* A new row is not the run o that is there already.
LEMMA CloneElsewhere ==
    ASSUME TypeOK, NEW r \in Runs, NEW n \in 0..MaxRelaunch, ClonedWith(r, n),
           NEW o \in Runs, Present(o)
    PROVE  runs'[o] = runs[o]
  <1>1. PICK c \in Runs : IsFresh(c) /\ runs' = [runs EXCEPT ![c] = Queued(runs[r].work, n)]
    BY DEF ClonedWith
  <1> QED
    BY <1>1 DEF IsFresh, Present, TypeOK

\* An ordinary step leaves the orphan of an uncrossed work alone.
LEMMA OrphanAlone ==
    ASSUME TypeOK, OrdinaryNext, NEW o \in Runs, requeue.run = o, Present(o),
           runs[o].status = "running", daemon.driving # o, runs[o].work \notin crossed'
    PROVE  runs'[o].status = "running" /\ daemon'.driving # o
  <1> USE DEF daemonVars, backendVars, historyVars, endVars
  <1>0. o # NoRun
    BY DEF Runs, NoRun
  <1>1. CASE Claim
    <2>1. PICK r \in Runs :
             /\ daemon' = [daemon EXCEPT !.driving = r]
             /\ IF runs[r].status = "queued" THEN Becomes(r, "running") ELSE UNCHANGED runs
             /\ Crosses(r)
      BY <1>1 DEF Claim, Claimable, Watched
    <2>2. r # o
      BY <2>1 DEF Crosses
    <2> QED
      BY <2>1, <2>2 DEF Becomes, TypeOK
  <1>2. CASE Drive
    <2>1. \A r \in Runs : Driven(r) => r # o
      BY DEF Driven
    <2> QED
      BY <1>0, <1>2, <2>1 DEF Drive, Extract, Finish, MeetWall, StageFails, PauseDrive, LeaveRun,
                              Becomes, FailsWith, Released, TypeOK
  <1>3. CASE Ping \/ PingFails \/ Heartbeat \/ HotReload \/ GraceLapses \/ LoseReport
               \/ PowerOff \/ PowerOn \/ SeatChanges \/ BeatsExpire \/ UNCHANGED vars
    BY <1>0, <1>3 DEF Ping, PingFails, KeepAlive, Heartbeat, HotReload, GraceLapses, LoseReport,
                      PowerOff, PowerOn, Released, SeatChanges, BeatsExpire, vars, TypeOK
  <1>4. CASE Person
    <2>1. PICK r \in Runs : Relaunch(r) \/ Cancel(r) \/ ResumeByHand(r)
      BY <1>4 DEF Person
    <2>2. CASE Relaunch(r)
      <3>1. runs[r].tries \in 0..MaxRelaunch
        BY DEF TypeOK, Row
      <3> QED
        BY <2>2, <3>1, CloneElsewhere DEF Relaunch
    <2>3. CASE Cancel(r)
      BY <2>3 DEF Cancel, Crosses, Becomes, TypeOK
    <2>4. CASE ResumeByHand(r)
      BY <2>4 DEF ResumeByHand, Becomes, TypeOK
    <2> QED
      BY <2>1, <2>2, <2>3, <2>4
  <1>5. CASE \E r \in Runs : Hook(r) \/ HookFails(r)
    <2>1. PICK r \in Runs : Hook(r) \/ HookFails(r)
      BY <1>5
    <2>2. CASE Hook(r) /\ WalledHook(r)
      BY <2>2, AutoRelaunchCount, CloneElsewhere DEF Hook, WalledHook
    <2> QED
      BY <2>1, <2>2 DEF Hook, AdvanceHook, FailureHook, HookFails
  <1>6. CASE \E r \in Runs : GoQuiet(r)
    <2>1. PICK r \in Runs : GoQuiet(r)
      BY <1>6
    <2>2. runs[r] \in Row /\ runs[o] \in Row
      BY DEF TypeOK
    <2>3. runs'[o].status = runs[o].status
      BY <2>1, <2>2 DEF GoQuiet, TypeOK, Row
    <2> QED
      BY <2>1, <2>3 DEF GoQuiet
  <1>7. \A r \in Runs : ~(ResumeStuck(r) \/ PauseStalled(r) \/ CompleteEmptyRun(r))
    BY <1>0 DEF ResumeStuck, PauseStalled, CompleteEmptyRun, MayResume, Stuck
  <1> QED
    BY <1>1, <1>2, <1>3, <1>4, <1>5, <1>6, <1>7 DEF OrdinaryNext, Daemon

LEMMA UndisturbedStep ==
    ASSUME IInv, Undisturbed, [Next]_vars
    PROVE  Undisturbed'
  <1>1. CASE OrdinaryNext
    <2> SUFFICES ASSUME requeue'.run # NoRun, runs'[requeue'.run].work \notin crossed'
                 PROVE  runs'[requeue'.run].status = "running" /\ daemon'.driving # requeue'.run
      BY DEF Undisturbed
    <2>1. TypeOK /\ Keeps /\ requeue' = requeue
      BY <1>1, OrdinaryStep DEF IInv
    <2>2. PICK o \in Runs : o = requeue.run
      BY <2>1 DEF TypeOK
    <2>3. Present(o) /\ runs'[o].work = runs[o].work
      BY <2>1, <2>2 DEF IInv, RequeueInv, Keeps
    <2>4. runs[o].work \notin crossed' /\ runs[o].work \notin crossed
      BY <2>1, <2>2, <2>3, CrossedGrows
    <2>5. runs[o].status = "running" /\ daemon.driving # o
      BY <2>1, <2>2, <2>4 DEF Undisturbed
    <2> QED
      BY <1>1, <2>1, <2>2, <2>3, <2>4, <2>5, OrphanAlone
  <1>2. CASE CancelOrphan \/ RequeueFails \/ BackendRestart
    BY <1>2 DEF CancelOrphan, RequeueFails, BackendRestart, NoRequeue, Undisturbed
  <1>3. CASE \E r \in Runs : JudgeOrphan(r)
    BY <1>3 DEF JudgeOrphan, IsOrphan, daemonVars, Undisturbed
  <1>4. CASE CloneOrphan
    <2>1. PICK o \in Runs : o = requeue.run
      BY <1>4 DEF CloneOrphan, IInv, TypeOK
    <2>2. TypeOK /\ Present(o) /\ AutoRelaunch(o)
      BY <1>4, <2>1 DEF CloneOrphan, IInv, RequeueInv
    <2>3. runs'[o] = runs[o]
      BY <2>2, AutoRelaunchCount, CloneElsewhere
    <2>4. requeue'.run = o /\ UNCHANGED <<daemon, crossed>>
      BY <1>4, <2>1 DEF CloneOrphan, daemonVars, historyVars, IInv, TypeOK
    <2> QED
      BY <2>1, <2>3, <2>4 DEF Undisturbed
  <1> QED
    BY <1>1, <1>2, <1>3, <1>4, NextSplit
--------------------------------------------------------------------------------
\* A drive moves its run along, and ends no work: that is for the hook.
LEMMA OneDrive ==
    ASSUME TypeOK, HooksEnded, OnceInv, Drive
    PROVE  HooksEnded' /\ OnceInv'
  <1> USE DEF daemonVars, backendVars, historyVars, endVars
  <1>1. \A r \in Runs : Driven(r) => runs[r].status \in Live
    BY DEF Driven, Live
  <1>2. CASE Extract
    <2>1. PICK r \in Runs : /\ Driven(r)
                            /\ runs' = [runs EXCEPT ![r] =
                                          [Touched(@, @.status) EXCEPT !.extracted = TRUE]]
      BY <1>2 DEF Extract
    <2> DEFINE base == Touched(runs[r], runs[r].status)
               new  == [base EXCEPT !.extracted = TRUE]
    <2>2. runs[r] \in Row /\ runs[r].status \in Status /\ runs[r].status \in Live
      BY <1>1, <2>1 DEF TypeOK, Row
    <2>3. base \in Row /\ base.work = runs[r].work /\ base.status \in Live
      BY <2>2, TouchedType
    <2>4. runs' = [runs EXCEPT ![r] = new]
      BY <2>1
    <2> HIDE DEF base
    <2>5. new \in Row /\ new.work = runs[r].work /\ new.status \in Live
      BY <2>3 DEF Row
    <2> HIDE DEF new
    <2> QED
      BY <1>2, <2>2, <2>4, <2>5, OneChange DEF Extract
  <1>3. CASE Finish
    BY <1>1, <1>3, OneBecomes DEF Finish, Status, Live
  <1>4. CASE MeetWall
    BY <1>1, <1>4, OneFails DEF MeetWall
  <1>5. CASE StageFails
    BY <1>1, <1>5, OneFails DEF StageFails
  <1>6. CASE PauseDrive
    BY <1>1, <1>6, OneBecomes DEF PauseDrive, Status, Live
  <1>7. CASE LeaveRun
    BY <1>7, OneQuiet DEF LeaveRun
  <1> QED
    BY <1>2, <1>3, <1>4, <1>5, <1>6, <1>7 DEF Drive

\* A claim takes a live run.
LEMMA OneClaim ==
    ASSUME TypeOK, HooksEnded, OnceInv, Claim
    PROVE  HooksEnded' /\ OnceInv'
  <1> USE DEF backendVars, endVars
  <1>1. PICK r \in Runs :
           /\ IF runs[r].status = "queued" THEN Becomes(r, "running") ELSE UNCHANGED runs
           /\ Crosses(r)
    BY DEF Claim, Claimable, Watched
  <1>2. crossed \subseteq crossed'
    BY <1>1 DEF Crosses
  <1>3. CASE runs[r].status = "queued"
    BY <1>1, <1>2, <1>3, OneBecomes DEF Claim, Status, Live
  <1>4. CASE runs[r].status # "queued"
    BY <1>1, <1>2, <1>4, OneQuiet DEF Claim
  <1> QED
    BY <1>3, <1>4

\* The supervisor's steps on runs that are no orphans.
LEMMA OneSupervised ==
    ASSUME TypeOK, HooksEnded, OnceInv, NEW r \in Runs,
           GoQuiet(r) \/ ResumeStuck(r) \/ PauseStalled(r) \/ CompleteEmptyRun(r)
    PROVE  HooksEnded' /\ OnceInv'
  <1> USE DEF daemonVars, backendVars, historyVars, endVars
  <1>1. runs[r] \in Row /\ runs[r].status \in Live /\ "running" \in Status /\ "running" \in Live
    BY DEF TypeOK, GoQuiet, ResumeStuck, PauseStalled, CompleteEmptyRun, MayResume, Stuck, Live, Status
  <1>2. CASE GoQuiet(r)
    <2> DEFINE new == [runs[r] EXCEPT !.quiet = TRUE]
    <2>1. new \in Row /\ new.work = runs[r].work /\ new.status \in Live
      BY <1>1 DEF Row
    <2>2. runs' = [runs EXCEPT ![r] = new]
      BY <1>2 DEF GoQuiet
    <2> HIDE DEF new
    <2> QED
      BY <1>1, <1>2, <2>1, <2>2, OneChange DEF GoQuiet
  <1>3. CASE ResumeStuck(r)
    <2>1. PICK gone \in BOOLEAN :
            runs' = [runs EXCEPT ![r] =
                       [Touched(@, "running") EXCEPT !.patched = TRUE, !.emptied = gone]]
      BY <1>3 DEF ResumeStuck
    <2> DEFINE base == Touched(runs[r], "running")
               new  == [base EXCEPT !.patched = TRUE, !.emptied = gone]
    <2>2. base \in Row /\ base.work = runs[r].work /\ base.status \in Live
      BY <1>1, TouchedType
    <2>3. runs' = [runs EXCEPT ![r] = new]
      BY <2>1
    <2> HIDE DEF base
    <2>4. new \in Row /\ new.work = runs[r].work /\ new.status \in Live
      BY <2>2 DEF Row
    <2> HIDE DEF new
    <2> QED
      BY <1>1, <1>3, <2>3, <2>4, OneChange DEF ResumeStuck
  <1>4. CASE PauseStalled(r)
    BY <1>1, <1>4, OneBecomes DEF PauseStalled, Status, Live
  <1>5. CASE CompleteEmptyRun(r)
    BY <1>1, <1>5, OneBecomes DEF CompleteEmptyRun, Status, Live
  <1> QED
    BY <1>2, <1>3, <1>4, <1>5

\* A clone is a new, queued row of the same work; the others stay.
LEMMA CloneFacts ==
    ASSUME TypeOK, HooksEnded, NEW r \in Runs, NEW n \in 0..MaxRelaunch, ClonedWith(r, n)
    PROVE  \E c \in Runs : /\ ~Present(c) /\ c \notin hooks
                           /\ runs'[c].work = runs[r].work /\ runs'[c].status = "queued"
                           /\ \A q \in Runs : q # c => runs'[q] = runs[q]
  <1>1. PICK c \in Runs : IsFresh(c) /\ runs' = [runs EXCEPT ![c] = Queued(runs[r].work, n)]
    BY DEF ClonedWith
  <1>2. runs[r].work \in Works
    BY DEF TypeOK, Row
  <1>3. ~Present(c) /\ c \notin hooks
    BY <1>1 DEF IsFresh, Present, HooksEnded
  <1> QED
    BY <1>1, <1>2, <1>3, QueuedType DEF TypeOK

\* A new row and unchanged hooks leave every hook's run ended.
LEMMA CloneHooks ==
    ASSUME TypeOK, HooksEnded, NEW r \in Runs, NEW n \in 0..MaxRelaunch, ClonedWith(r, n),
           hooks' \subseteq hooks
    PROVE  HooksEnded'
  <1>1. PICK c \in Runs : /\ c \notin hooks
                         /\ \A q \in Runs : q # c => runs'[q] = runs[q]
    BY CloneFacts
  <1> QED
    BY <1>1 DEF HooksEnded, Present, TypeOK

\* A hook ends the work of its run, or hands it on to one new run.
LEMMA OneHook ==
    ASSUME TypeOK, CrossInv, NEW r \in Runs, Hook(r)
    PROVE  /\ HooksEnded' /\ OnceInv'
           /\ SameOutcomes \/ Ends(runs[r].work) \/ runs[r].work \in crossed
  <1> USE DEF daemonVars, backendVars, endVars
  <1>0. PICK w \in Works : w = runs[r].work
    BY DEF TypeOK, Row
  <1> USE <1>0
  <1>1. r \in hooks /\ hooks' = hooks \ {r} /\ hooks \subseteq Runs
        /\ UNCHANGED <<requeue, crossed>>
    BY DEF Hook, TypeOK
  <1>2. w \in Works /\ runs[r].status \notin Live /\ Holds(r)
    BY <1>1 DEF TypeOK, Row, CrossInv, HooksEnded, Holds
  <1>3. ASSUME w \notin crossed
        PROVE  /\ OnceFor(w) /\ Counts(r) /\ Outcome(w) = "pending"
               /\ \A q \in Runs : Counts(q) /\ q # r => runs[q].work # w
    <2>1. OnceFor(w)
      BY <1>2, <1>3 DEF CrossInv, OnceInv
    <2>2. Counts(r)
      BY <1>2, <1>3 DEF CrossInv, Undisturbed, Counts, Live, Runs, NoRun
    <2> QED
      BY <2>1, <2>2 DEF OnceFor
  <1>4. ASSUME UNCHANGED runs, \A v \in Works : v # w => Outcome(v)' = Outcome(v),
               w \notin crossed => Outcome(w)' \in {"advanced", "surfaced"}
        PROVE  HooksEnded' /\ OnceInv' /\ (Ends(w) \/ w \in crossed)
    <2>1. ~Holds(r)' /\ \A q \in Runs : Counts(q)' => Counts(q) /\ q # r
      BY <1>1, <1>2, <1>4 DEF Counts, Holds, Present
    <2>2. w \in crossed' \/ OnceFor(w)'
      BY <1>1, <1>3, <1>4, <2>1 DEF OnceFor
    <2>3. OnceInv'
      BY <1>1, <1>2, <1>4, <2>1, <2>2, OtherWorks DEF CrossInv
    <2>4. HooksEnded'
      BY <1>1, <1>4 DEF HooksEnded, CrossInv, Present
    <2> QED
      BY <1>3, <1>4, <2>3, <2>4 DEF Ends
  <1>5. CASE AdvanceHook(r)
    <2>1. UNCHANGED <<runs, surfaced>> /\ advanced' = [advanced EXCEPT ![w] = @ + 1]
      BY <1>5 DEF AdvanceHook
    <2>2. advanced'[w] = advanced[w] + 1 /\ \A v \in Works : v # w => advanced'[v] = advanced[v]
      BY <1>2, <2>1 DEF TypeOK
    <2>3. w \notin crossed => advanced[w] = 0 /\ w \notin surfaced
      BY <1>3 DEF Outcome
    <2>4. \A v \in Works : v # w => Outcome(v)' = Outcome(v)
      BY <2>1, <2>2 DEF Outcome
    <2>5. w \notin crossed => Outcome(w)' = "advanced"
      BY <2>1, <2>2, <2>3 DEF Outcome
    <2> QED
      BY <1>4, <2>1, <2>4, <2>5
  <1>6. CASE FailureHook(r)
    <2>1. UNCHANGED <<runs, advanced>> /\ surfaced' = surfaced \cup {w}
      BY <1>6 DEF FailureHook
    <2>2. w \notin crossed => advanced[w] = 0 /\ w \notin surfaced
      BY <1>3 DEF Outcome
    <2>3. \A v \in Works : v # w => Outcome(v)' = Outcome(v)
      BY <2>1 DEF Outcome
    <2>4. w \notin crossed => Outcome(w)' = "surfaced"
      BY <2>1, <2>2 DEF Outcome
    <2> QED
      BY <1>4, <2>1, <2>3, <2>4
  <1>7. CASE WalledHook(r)
    <2>1. UNCHANGED endVars /\ ClonedWith(r, runs[r].tries + 1)
          /\ runs[r].tries + 1 \in 0..MaxRelaunch
      BY <1>7, AutoRelaunchCount DEF WalledHook
    <2>2. PICK c \in Runs : /\ ~Present(c) /\ c \notin hooks
                           /\ runs'[c].work = w /\ runs'[c].status = "queued"
                           /\ \A q \in Runs : q # c => runs'[q] = runs[q]
      BY <2>1, CloneFacts DEF CrossInv
    <2>3. c # r /\ SameOutcomes
      BY <1>2, <2>1, <2>2, OutcomesStay DEF Holds
    <2>4. \A q \in Runs : Counts(q)' /\ q # c => Counts(q) /\ q # r /\ runs'[q] = runs[q]
      BY <1>1, <1>2, <2>2 DEF Counts, Holds, Present
    <2>5. w \in crossed' \/ OnceFor(w)'
      <3>1. CASE w \notin crossed
        <4>1. \A q \in Runs : Counts(q)' /\ runs'[q].work = w => q = c
          BY <1>3, <2>4, <3>1
        <4>2. Outcome(w)' = "pending"
          BY <1>2, <1>3, <2>3, <3>1 DEF SameOutcomes
        <4> QED
          BY <4>1, <4>2 DEF OnceFor
      <3> QED
        BY <1>1, <3>1
    <2>6. OnceInv'
      BY <1>1, <1>2, <2>2, <2>3, <2>4, <2>5, OtherWorks DEF CrossInv, SameOutcomes
    <2>7. HooksEnded'
      BY <1>1, <2>1, CloneHooks DEF CrossInv
    <2> QED
      BY <2>3, <2>6, <2>7
  <1> QED
    BY <1>5, <1>6, <1>7 DEF Hook

\* A relaunch by hand crosses its work; a cancel by hand ends it, or it was crossed.
LEMMA OnePerson ==
    ASSUME IInv, CrossInv, Person
    PROVE  HooksEnded' /\ OnceInv'
  <1> USE DEF daemonVars, backendVars, endVars
  <1>0. TypeOK
    BY DEF IInv
  <1>1. PICK r \in Runs : Relaunch(r) \/ Cancel(r) \/ ResumeByHand(r)
    BY DEF Person
  <1>2. runs[r] \in Row /\ runs[r].work \in Works /\ runs[r].tries \in 0..MaxRelaunch
    BY <1>0 DEF TypeOK, Row
  <1>3. CASE Relaunch(r)
    <2>1. PICK c \in Runs : /\ ~Present(c) /\ c \notin hooks
                           /\ runs'[c].work = runs[r].work /\ runs'[c].status = "queued"
                           /\ \A q \in Runs : q # c => runs'[q] = runs[q]
      BY <1>0, <1>2, <1>3, CloneFacts DEF CrossInv, Relaunch
    <2>2. runs[r].work \in crossed' /\ crossed \subseteq crossed' /\ SameOutcomes
          /\ UNCHANGED <<hooks, requeue>>
      BY <1>3, OutcomesStay DEF Relaunch
    <2>3. \A q \in Runs : Counts(q)' /\ runs'[q].work # runs[r].work =>
                             Counts(q) /\ runs'[q].work = runs[q].work
      BY <2>1, <2>2 DEF Counts, Holds, Present
    <2>4. OnceInv'
      BY <1>2, <2>2, <2>3, OtherWorks DEF CrossInv, SameOutcomes
    <2>5. HooksEnded'
      BY <1>0, <1>2, <1>3, <2>2, CloneHooks DEF CrossInv, Relaunch
    <2> QED
      BY <2>4, <2>5
  <1>4. CASE Cancel(r)
    <2>0. PICK w \in Works : w = runs[r].work
      BY <1>2
    <2> USE <2>0
    <2>1. runs' = [runs EXCEPT ![r] = Touched(runs[r], "canceled")] /\ runs[r].status \in Live
      BY <1>4 DEF Cancel, Becomes
    <2>2. /\ runs'[r].work = w /\ runs'[r].status = "canceled"
          /\ \A q \in Runs : q # r => runs'[q] = runs[q]
      BY <1>0, <1>2, <2>1, TouchedType DEF TypeOK, Status
    <2>3. UNCHANGED <<hooks, requeue, advanced>> /\ surfaced' = surfaced \cup {w}
          /\ Crosses(r) /\ crossed \subseteq crossed'
      BY <1>4 DEF Cancel, Crosses
    <2>4. Holds(r) /\ r \notin hooks
      BY <2>1, LiveStatus DEF Holds, Present, CrossInv, HooksEnded
    <2>5. \A q \in Runs : Counts(q)' => Counts(q) /\ q # r /\ runs'[q] = runs[q]
      BY <2>2, <2>3, <2>4 DEF Counts, Holds, Present, Live
    <2>6. \A v \in Works : v # w => Outcome(v)' = Outcome(v)
      BY <2>3 DEF Outcome
    <2>7. w \in crossed' \/ OnceFor(w)'
      <3>1. ASSUME w \notin crossed'
            PROVE  OnceFor(w)'
        <4>1. requeue.run # r /\ w \notin crossed
          BY <2>3, <3>1 DEF Crosses
        <4>2. Counts(r) /\ OnceFor(w)
          BY <1>2, <2>4, <4>1 DEF Counts, CrossInv, OnceInv
        <4>3. Outcome(w)' = "surfaced"
          BY <1>2, <2>3, <4>2 DEF OnceFor, Outcome
        <4>4. \A q \in Runs : Counts(q)' => runs'[q].work # w
          BY <2>5, <4>2 DEF OnceFor
        <4> QED
          BY <4>3, <4>4 DEF OnceFor
      <3> QED
        BY <3>1
    <2>8. OnceInv'
      <3>1. OnceInv
        BY DEF CrossInv
      <3>2. \A q \in Runs : Counts(q)' /\ runs'[q].work # w => Counts(q) /\ runs'[q].work = runs[q].work
        BY <2>5
      <3> QED
        BY <1>2, <2>3, <2>6, <2>7, <3>1, <3>2, OtherWorks
    <2>9. HooksEnded'
      BY <1>0, <2>2, <2>3, <2>4 DEF CrossInv, HooksEnded, Present, TypeOK
    <2> QED
      BY <2>8, <2>9
  <1>5. CASE ResumeByHand(r)
    BY <1>0, <1>5, OneBecomes DEF ResumeByHand, historyVars, CrossInv, Status, Live
  <1> QED
    BY <1>1, <1>3, <1>4, <1>5

\* The requeue of an uncrossed work: the clone takes the place of the orphan.
LEMMA OneRequeue ==
    ASSUME IInv, CrossInv, CloneOrphan \/ CancelOrphan
    PROVE  HooksEnded' /\ OnceInv'
  <1> USE DEF daemonVars, historyVars, endVars
  <1>0. TypeOK /\ UNCHANGED <<hooks, crossed, advanced, surfaced>> /\ SameOutcomes
    BY OutcomesStay DEF IInv, CloneOrphan, CancelOrphan
  <1>1. PICK o \in Runs : o = requeue.run
    BY DEF CloneOrphan, CancelOrphan, IInv, RequeueInv, TypeOK
  <1>w. PICK w \in Works : w = runs[o].work
    BY <1>0 DEF TypeOK, Row
  <1> USE <1>w
  <1>2. o # NoRun /\ Present(o) /\ w \in Works
    BY <1>0, <1>1 DEF IInv, RequeueInv, NoRun, Runs, TypeOK, Row
  <1>3. w \notin crossed => o \notin hooks /\ runs[o].status = "running" /\ Holds(o) /\ OnceFor(w)
    BY <1>1, <1>2 DEF CrossInv, Undisturbed, HooksEnded, Holds, Live, OnceInv
  <1>4. CASE CloneOrphan
    <2>1. AutoRelaunch(o) /\ ~requeue.cloned /\ requeue'.run = o /\ requeue'.cloned
      BY <1>0, <1>1, <1>4 DEF CloneOrphan, TypeOK
    <2>2. ClonedWith(o, runs[o].tries + 1) /\ runs[o].tries + 1 \in 0..MaxRelaunch
      BY <1>0, <2>1, AutoRelaunchCount
    <2>3. PICK c \in Runs : /\ ~Present(c) /\ c \notin hooks
                           /\ runs'[c].work = w /\ runs'[c].status = "queued"
                           /\ \A q \in Runs : q # c => runs'[q] = runs[q]
      BY <1>0, <2>2, CloneFacts DEF CrossInv
    <2>4. \A q \in Runs : Counts(q)' /\ q # c => Counts(q) /\ q # o /\ runs'[q] = runs[q]
      BY <1>0, <2>1, <2>3 DEF Counts, Holds, Present
    <2>5. w \in crossed' \/ OnceFor(w)'
      <3>1. CASE w \notin crossed
        <4>1. Counts(o)
          BY <1>3, <2>1, <3>1 DEF Counts
        <4>2. \A q \in Runs : Counts(q)' /\ runs'[q].work = w => q = c
          BY <1>3, <2>4, <3>1, <4>1 DEF OnceFor
        <4>3. Outcome(w)' = "pending"
          BY <1>0, <1>2, <1>3, <3>1, <4>1 DEF OnceFor, SameOutcomes
        <4> QED
          BY <4>2, <4>3 DEF OnceFor
      <3> QED
        BY <1>0, <3>1
    <2>6. OnceInv'
      BY <1>0, <1>2, <2>3, <2>4, <2>5, OtherWorks DEF CrossInv, SameOutcomes
    <2>7. HooksEnded'
      BY <1>0, <2>2, CloneHooks DEF CrossInv
    <2> QED
      BY <2>6, <2>7
  <1>5. CASE CancelOrphan
    <2>1. runs' = [runs EXCEPT ![o] = Touched(runs[o], "canceled")] /\ requeue' = NoRequeue
          /\ requeue.cloned
      BY <1>1, <1>5 DEF CancelOrphan, Becomes
    <2>2. /\ runs'[o].work = w /\ runs'[o].status = "canceled"
          /\ \A q \in Runs : q # o => runs'[q] = runs[q]
      BY <1>0, <2>1, TouchedType DEF TypeOK, Status
    <2>3. \A q \in Runs : Counts(q)' /\ q # o => Counts(q) /\ runs'[q] = runs[q]
      BY <1>0, <1>1, <2>1, <2>2 DEF Counts, Holds, Present
    <2>4. w \notin crossed => ~Counts(o)'
      BY <1>0, <1>3, <2>2 DEF Counts, Holds, Live
    <2>5. w \in crossed' \/ OnceFor(w)'
      <3>1. CASE w \notin crossed
        <4>1. \A q \in Runs : Counts(q)' /\ runs'[q].work = w => Counts(q) /\ runs[q].work = w
          BY <2>3, <2>4, <3>1
        <4>2. Outcome(w)' = Outcome(w)
          BY <1>0, <1>2 DEF SameOutcomes
        <4> QED
          BY <1>3, <3>1, <4>1, <4>2 DEF OnceFor
      <3> QED
        BY <1>0, <3>1
    <2>6. OnceInv'
      <3>1. OnceInv
        BY DEF CrossInv
      <3>2. \A q \in Runs : Counts(q)' /\ runs'[q].work # w => Counts(q) /\ runs'[q].work = runs[q].work
        BY <2>2, <2>3
      <3>3. crossed \subseteq crossed' /\ \A v \in Works : v # w => Outcome(v)' = Outcome(v)
        BY <1>0 DEF SameOutcomes
      <3> QED
        BY <1>2, <2>5, <3>1, <3>2, <3>3, OtherWorks
    <2>7. HooksEnded'
      BY <1>0, <2>2 DEF CrossInv, HooksEnded, Present, Live, TypeOK
    <2> QED
      BY <2>6, <2>7
  <1> QED
    BY <1>4, <1>5

\* A requeue that stops halfway crosses its work; one that stops before its clone
\* has done nothing.
LEMMA OneGiveUp ==
    ASSUME IInv, CrossInv, RequeueFails \/ BackendRestart
    PROVE  HooksEnded' /\ OnceInv'
  <1>1. /\ UNCHANGED <<runs, advanced, surfaced>> /\ requeue' = NoRequeue
        /\ hooks' \subseteq hooks /\ LeavesOriginal
    BY DEF RequeueFails, BackendRestart, daemonVars, endVars
  <1>2. HooksEnded' /\ SameOutcomes
    BY <1>1, OutcomesStay DEF CrossInv, HooksEnded, Present, endVars
  <1>3. CASE ~requeue.cloned
    <2>1. \A q \in Runs : Counts(q)' => Counts(q) /\ runs'[q].work = runs[q].work
      BY <1>1, <1>3 DEF Counts, Holds, Present
    <2> QED
      BY <1>1, <1>2, <1>3, <2>1, NoMoreCount DEF LeavesOriginal, CrossInv
  <1>4. CASE requeue.cloned
    <2>1. PICK o \in Runs : o = requeue.run
      BY <1>4 DEF IInv, RequeueInv, TypeOK
    <2>2. runs[o].work \in Works /\ runs[o].work \in crossed' /\ crossed \subseteq crossed'
      BY <1>1, <1>4, <2>1 DEF LeavesOriginal, IInv, TypeOK, Row
    <2>3. \A q \in Runs : Counts(q)' /\ runs'[q].work # runs[o].work =>
                             Counts(q) /\ runs'[q].work = runs[q].work
      BY <1>1, <2>1 DEF Counts, Holds, Present
    <2> QED
      BY <1>2, <2>2, <2>3, OtherWorks DEF CrossInv, SameOutcomes
  <1> QED
    BY <1>3, <1>4

\* All steps together.
LEMMA CrossStep ==
    ASSUME IInv, CrossInv, [Next]_vars
    PROVE  CrossInv'
  <1> USE DEF daemonVars, backendVars, historyVars, endVars
  <1>0. TypeOK /\ HooksEnded /\ OnceInv /\ Undisturbed'
    BY UndisturbedStep DEF IInv, CrossInv
  <1>1. CASE Claim \/ Drive
    BY <1>0, <1>1, OneClaim, OneDrive DEF CrossInv
  <1>2. CASE Ping \/ PingFails \/ Heartbeat \/ HotReload \/ GraceLapses \/ LoseReport
               \/ PowerOff \/ PowerOn \/ SeatChanges \/ BeatsExpire
    BY <1>0, <1>2, OneQuiet DEF Ping, PingFails, KeepAlive, Heartbeat, HotReload, GraceLapses,
                                LoseReport, PowerOff, PowerOn, SeatChanges, BeatsExpire, CrossInv
  <1>3. CASE UNCHANGED vars
    BY <1>0, <1>3, OneQuiet DEF vars, CrossInv
  <1>4. CASE \E r \in Runs : Hook(r)
    BY <1>0, <1>4, OneHook DEF CrossInv
  <1>5. CASE \E r \in Runs : HookFails(r)
    BY <1>0, <1>5, OneQuiet DEF HookFails, CrossInv
  <1>6. CASE Person
    BY <1>0, <1>6, OnePerson DEF CrossInv
  <1>7. CASE \E r \in Runs : GoQuiet(r) \/ ResumeStuck(r) \/ PauseStalled(r) \/ CompleteEmptyRun(r)
    BY <1>0, <1>7, OneSupervised DEF CrossInv
  <1>8. CASE CloneOrphan \/ CancelOrphan
    BY <1>0, <1>8, OneRequeue DEF CrossInv
  <1>9. CASE RequeueFails \/ BackendRestart
    BY <1>0, <1>9, OneGiveUp DEF CrossInv
  <1>10. CASE \E r \in Runs : JudgeOrphan(r)
    <2>1. PICK r \in Runs : JudgeOrphan(r)
      BY <1>10
    <2>2. UNCHANGED <<runs, hooks, advanced, surfaced>> /\ ~requeue'.cloned
          /\ crossed \subseteq crossed' /\ requeue.run = NoRun
      BY <2>1 DEF JudgeOrphan, Stuck
    <2>3. \A q \in Runs : Counts(q)' => Counts(q) /\ runs'[q].work = runs[q].work
      BY <2>2 DEF Counts, Holds, Present, NoRun, Runs
    <2> QED
      BY <1>0, <2>2, <2>3, NoMoreCount, OutcomesStay DEF HooksEnded, Present, CrossInv
  <1> QED
    BY <1>1, <1>2, <1>3, <1>4, <1>5, <1>6, <1>7, <1>8, <1>9, <1>10 DEF Next, Daemon, Supervisor

LEMMA InitCross ==
    ASSUME Init
    PROVE  CrossInv
  <1> DEFINE first == Queued(1, 0)
  <1>1. 1 \in Works /\ 0 \in 0..MaxRelaunch /\ Works \subseteq Runs
    BY BoundsAssumption DEF Works, Runs
  <1>2. \A w \in Works : Queued(w, 0).work = w
    BY <1>1, QueuedType
  <1>3. first \in Row
    BY <1>1, QueuedType
  <1>4. runs = [r \in Runs |-> IF r \in Works THEN Queued(r, 0)
                               ELSE [first EXCEPT !.status = "absent"]]
    BY DEF Init
  <1> HIDE DEF first
  <1>5. [first EXCEPT !.status = "absent"].status = "absent"
    BY <1>3 DEF Row
  <1>6. \A r \in Runs : Counts(r) => r \in Works /\ runs[r].work = r
    BY <1>2, <1>4, <1>5 DEF Counts, Holds, Present
  <1>7. \A w \in Works : Outcome(w) = "pending"
    BY DEF Init, Outcome
  <1>8. hooks = {} /\ requeue.run = NoRun
    BY DEF Init, NoRequeue
  <1> QED
    BY <1>6, <1>7, <1>8 DEF CrossInv, Undisturbed, HooksEnded, OnceInv, OnceFor

LEMMA CrossHolds == Spec => []CrossInv
  BY InitCross, CrossStep, InvHolds, PTL DEF Spec

\* A work that ends again was crossed: a run of it was driven, claimed or cancelled
\* while the supervisor requeued it as an orphan, that requeue stopped between its
\* clone and its cancel, or a person relaunched it.  Expired heartbeats of a daemon
\* that drives, failed hooks and restarts end no other work twice.
THEOREM CrossedOrOnce == Spec => []EndsOnceUncrossed
  <1>1. CrossInv => EndsOnceUncrossed
    BY DEF CrossInv, OnceInv, OnceFor, EndsOnceUncrossed
  <1> QED
    BY <1>1, CrossHolds, PTL

\* Without a supervisor and people nothing is crossed.
Alone == requeue = NoRequeue /\ crossed = {}

LEMMA AloneStep ==
    ASSUME TypeOK, Alone, [Next]_vars,
           "supervisor" \notin Disturbances, "person" \notin Disturbances
    PROVE  Alone' /\ ~Supervisor /\ ~Person
  <1> USE DEF daemonVars, backendVars, historyVars, endVars
  <1>1. requeue.run = NoRun /\ ~requeue.cloned /\ crossed = {}
    BY DEF Alone, NoRequeue
  <1>2. ~Supervisor /\ ~Person
    BY <1>1 DEF Supervisor, CloneOrphan, CancelOrphan, RequeueFails, GoQuiet, JudgeOrphan,
           ResumeStuck, PauseStalled, CompleteEmptyRun, MayResume, Stuck,
           Person, Relaunch, Cancel, ResumeByHand
  <1>3. CASE Daemon
    <2>1. CASE Claim
      <3>1. PICK r \in Runs : Crosses(r)
        BY <2>1 DEF Claim, Claimable, Watched
      <3>2. r # requeue.run
        BY <1>1 DEF Runs, NoRun
      <3>3. requeue' = requeue
        BY <2>1 DEF Claim
      <3> QED
        BY <1>2, <3>1, <3>2, <3>3 DEF Crosses, Alone
    <2> QED
      BY ONLY Alone, <1>2, <1>3, <2>1 DEF Daemon, Drive, Extract, Finish, MeetWall, StageFails, PauseDrive,
                LeaveRun, Ping, PingFails, KeepAlive, Heartbeat, HotReload, GraceLapses,
                LoseReport, PowerOff, PowerOn, Alone,
                daemonVars, backendVars, historyVars
  <1>4. CASE SeatChanges \/ BeatsExpire \/ BackendRestart \/ UNCHANGED vars
             \/ \E r \in Runs : Hook(r) \/ HookFails(r)
    BY <1>1, <1>2, <1>4 DEF SeatChanges, BeatsExpire, BackendRestart, LeavesOriginal, Hook,
                            HookFails, vars, Alone
  <1> QED
    BY <1>2, <1>3, <1>4 DEF Next

\* Steps of the daemon and of the world end no work: that is for the hooks.
LEMMA OthersEndNothing ==
    ASSUME [Next]_vars, \A r \in Runs : ~Hook(r), ~Supervisor, ~Person
    PROVE  SameOutcomes
  <1> USE DEF daemonVars, backendVars, historyVars, endVars
  <1>1. UNCHANGED endVars
    BY DEF Next, Daemon, Claim, Drive, Extract, Finish, MeetWall, StageFails, PauseDrive,
           LeaveRun, Ping, PingFails, KeepAlive, Heartbeat, HotReload, GraceLapses,
           LoseReport, PowerOff, PowerOn, SeatChanges, BeatsExpire, BackendRestart, HookFails, vars
  <1> QED
    BY <1>1, OutcomesStay

\* Left alone by the supervisor and by people, the seat's runs do what WorkItems
\* promises: every work comes to one end, once, whatever power cuts, walls, lost
\* reports, lost heartbeats, failed hooks, hot reloads and restarts of the backend do.
THEOREM OneEndEach ==
    ASSUME "supervisor" \notin Disturbances, "person" \notin Disturbances
    PROVE  Spec => WorkEndsOnce
  <1> DEFINE outcomes == [w \in Works |-> Outcome(w)]
  <1>1. Init => Alone /\ Promised!Init
    <2> SUFFICES ASSUME Init
                 PROVE  Alone /\ Promised!Init
      OBVIOUS
    <2>1. \A w \in Works : Outcome(w) = "pending"
      BY DEF Init, Outcome
    <2> QED
      BY <2>1 DEF Promised!Init, Init, Alone
  <1>2. ASSUME TypeOK, Alone, [Next]_vars
        PROVE  Alone'
    BY <1>2, AloneStep
  <1>3. ASSUME TypeOK, CrossInv, Alone, [Next]_vars
        PROVE  [Promised!Next]_outcomes
    <2>1. SameOutcomes => UNCHANGED outcomes
      BY DEF SameOutcomes
    <2>2. ASSUME NEW w \in Works, Ends(w)
          PROVE  Promised!Next
      <3>1. outcomes[w] = "pending" /\ Outcome(w)' \in {"advanced", "surfaced"}
        BY <2>2 DEF Ends
      <3>2. outcomes' = [outcomes EXCEPT ![w] = Outcome(w)']
        BY <2>2 DEF Ends
      <3> QED
        BY <3>1, <3>2 DEF Promised!Next, Promised!Settle, Promised!Outcomes
    <2>3. CASE \A r \in Runs : ~Hook(r)
      BY <1>3, <2>1, <2>3, AloneStep, OthersEndNothing
    <2>4. CASE \E r \in Runs : Hook(r)
      <3>1. PICK r \in Runs : Hook(r)
        BY <2>4
      <3>2. runs[r].work \in Works /\ crossed = {}
        BY <1>3 DEF TypeOK, Row, Alone
      <3> QED
        BY <1>3, <2>1, <2>2, <3>1, <3>2, OneHook
    <2> QED
      BY <2>3, <2>4
  <1>4. Spec => []Alone
    BY <1>1, <1>2, SeatTypeCorrect, PTL DEF Spec
  <1> QED
    BY <1>1, <1>3, <1>4, SeatTypeCorrect, CrossHolds, PTL DEF Spec, WorkEndsOnce, Promised!Spec

================================================================================
