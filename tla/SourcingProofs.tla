----------------------------- MODULE SourcingProofs -----------------------------
(***************************************************************************)
(* No search that found people ends with nothing: NeverEmptyHanded is an   *)
(* invariant of Sourcing for every band, every range of tightness, every   *)
(* number of reruns and every boolean that the AI proposes.                *)
(*                                                                         *)
(* What makes it inductive: while a search of a chain is under way, or its *)
(* hook owed, that an earlier search found people means that the best one  *)
(* is remembered; a run whose hook is owed is not active.                  *)
(*                                                                         *)
(* And a position has one flow at a time, so that a reset wipes no fresh   *)
(* leads: OneFlow and WipesNoFresh, as long as no two decisions overlap.   *)
(***************************************************************************)
EXTENDS Sourcing, TLAPS

Fields == {"kind", "status", "hook", "project", "root", "t", "reruns", "prev",
           "best", "count", "found", "result", "final", "rounds", "send"}

Good(r) ==
    /\ DOMAIN r = Fields
    /\ r.best \in Int /\ r.count \in Int
    /\ r.hook => r.status \in {"done", "failed"}
    /\ r.found /\ (r.hook \/ r.status \in Live) => r.best > 0
    /\ r.final /\ r.result <= 0 => ~r.found

AllGood(s) == (\E S : s \in Seq(S)) /\ \A i \in DOMAIN s : Good(s[i])

IInv == AllGood(runs) /\ AllGood(draft)

\* Every new run is good.
LEMMA FreshIsGood ==
    ASSUME NEW kind, NEW project
    PROVE  /\ Good(Fresh(kind, project))
           /\ \A send : Good([Fresh(kind, project) EXCEPT !.send = send])
           /\ \A t : Good([Fresh(kind, project) EXCEPT !.t = t])
           /\ \A s, n : Good([Fresh(kind, project) EXCEPT !.send = s, !.rounds = n])
           /\ \A root : Good([Fresh(kind, project) EXCEPT !.root = root])
           /\ \A t, root : Good([Fresh(kind, project) EXCEPT !.t = t, !.root = root])
           /\ ~Fresh(kind, project).found
BY DEF Fresh, Good, Fields, None

LEMMA SpentIsGood ==
    ASSUME NEW r, Good(r), r.status \notin Live
    PROVE  Good(Spent(r))
<1>1. /\ DOMAIN Spent(r) = Fields
      /\ Spent(r).count = r.count /\ Spent(r).status = r.status
      /\ Spent(r).found = r.found /\ Spent(r).final = r.final
      /\ Spent(r).result = r.result /\ Spent(r).hook = FALSE /\ Spent(r).best = 0
  BY DEF Good, Spent, Fields
<1>2. QED
  BY <1>1 DEF Good

LEMMA FailedIsGood ==
    ASSUME NEW r, Good(r)
    PROVE  Good([Spent(r) EXCEPT !.status = "failed"])
<1>1. /\ DOMAIN Spent(r) = Fields
      /\ Spent(r).count = r.count /\ Spent(r).found = r.found /\ Spent(r).final = r.final
      /\ Spent(r).result = r.result /\ Spent(r).hook = FALSE /\ Spent(r).best = 0
  BY DEF Good, Spent, Fields
<1>2. QED
  BY <1>1 DEF Good, Fields, Live

\* A run fails on a wall, and its hook is owed.
LEMMA FailedRuns ==
    ASSUME NEW i \in DOMAIN runs
    PROVE  [runs EXCEPT ![i].status = "failed", ![i].hook = TRUE]
             = [runs EXCEPT ![i] = [@ EXCEPT !.status = "failed", !.hook = TRUE]]
OBVIOUS

LEMMA CloneIsGood ==
    ASSUME NEW r, Good(r), r.hook \/ r.status \in Live
    PROVE  Good(Clone(r))
<1>1. /\ DOMAIN Clone(r) = Fields
      /\ Clone(r).count = r.count /\ Clone(r).best = r.best
      /\ Clone(r).found = r.found /\ Clone(r).final = r.final
      /\ Clone(r).result = r.result /\ Clone(r).hook = FALSE
  BY DEF Good, Clone, Fields
<1>2. QED
  BY <1>1 DEF Good

LEMMA SetKeeps ==
    ASSUME NEW s, AllGood(s), NEW i \in DOMAIN s, NEW r, Good(r)
    PROVE  AllGood([s EXCEPT ![i] = r])
<1>1. PICK S : s \in Seq(S)
  BY DEF AllGood
<1>2. s \in Seq(S \cup {r})
  BY <1>1
<1>3. [s EXCEPT ![i] = r] \in Seq(S \cup {r})
  BY <1>2
<1>4. QED
  BY <1>3 DEF AllGood

LEMMA AppendKeeps ==
    ASSUME NEW s, AllGood(s), NEW r, Good(r)
    PROVE  AllGood(Append(s, r))
<1>1. PICK S : s \in Seq(S)
  BY DEF AllGood
<1>2. s \in Seq(S \cup {r})
  BY <1>1
<1>3. Append(s, r) \in Seq(S \cup {r})
  BY <1>2
<1>4. QED
  BY <1>2, <1>3 DEF AllGood

LEMMA ConcatKeeps ==
    ASSUME NEW s, AllGood(s), NEW t, AllGood(t)
    PROVE  AllGood(s \o t)
<1>1. PICK S : s \in Seq(S)
  BY DEF AllGood
<1>2. PICK T : t \in Seq(T)
  BY DEF AllGood
<1>3. s \in Seq(S \cup T) /\ t \in Seq(S \cup T)
  BY <1>1, <1>2
<1>4. s \o t \in Seq(S \cup T)
  BY <1>3
<1>5. ASSUME NEW i \in DOMAIN (s \o t) PROVE Good((s \o t)[i])
  <2>1. CASE i \in DOMAIN s
    BY <1>3, <2>1 DEF AllGood
  <2>2. CASE i \notin DOMAIN s
    <3>1. i - Len(s) \in DOMAIN t /\ (s \o t)[i] = t[i - Len(s)]
      BY <1>3, <1>5, <2>2
    <3>2. QED
      BY <3>1 DEF AllGood
  <2>3. QED
    BY <2>1, <2>2
<1>6. QED
  BY <1>4, <1>5 DEF AllGood

LEMMA ManyAreGood ==
    ASSUME NEW r, Good(r), NEW n \in Nat
    PROVE  AllGood([k \in 1..n |-> r])
<1> DEFINE s == [k \in 1..n |-> r]
<1>1. s \in Seq({r}) /\ \A i \in DOMAIN s : s[i] = r
  OBVIOUS
<1> HIDE DEF s
<1>2. AllGood(s)
  BY <1>1 DEF AllGood
<1>3. QED
  BY <1>2 DEF s

LEMMA OneIsGood ==
    ASSUME NEW r, Good(r)
    PROVE  AllGood(<<r>>) /\ AllGood(<<>>)
<1>1. <<r>> \in Seq({r}) /\ \A i \in DOMAIN <<r>> : <<r>>[i] = r
  OBVIOUS
<1>2. <<>> \in Seq({r}) /\ \A i \in DOMAIN <<>> : FALSE
  OBVIOUS
<1>3. AllGood(<<r>>)
  BY <1>1 DEF AllGood
<1>4. AllGood(<<>>)
  BY <1>2 DEF AllGood
<1>5. QED
  BY <1>3, <1>4

--------------------------------------------------------------------------------
LEMMA InitIInv == Init => IInv
<1> SUFFICES ASSUME Init PROVE IInv
  OBVIOUS
<1>1. CASE runs = <<>>
  BY <1>1, OneIsGood, FreshIsGood DEF Init, IInv
<1>2. CASE runs # <<>>
  <2> DEFINE r == [Fresh("save", TRUE) EXCEPT !.status = "done"]
  <2>1. Good(r)
    BY DEF Fresh, Good, Fields, None, Live
  <2>2. runs = <<r>>
    BY <1>2 DEF Init
  <2> HIDE DEF r
  <2>3. QED
    BY <2>1, <2>2, OneIsGood DEF Init, IInv
<1>3. QED
  BY <1>1, <1>2

\* A decision that is committed at once or stays a draft.
LEMMA EnqueueKeeps ==
    ASSUME NEW base, AllGood(base), AllGood(draft), NEW r, Good(r), Enqueue(base, r)
    PROVE  IInv'
BY AppendKeeps, OneIsGood DEF Enqueue, IInv

LEMMA StartKeeps ==
    ASSUME NEW base, AllGood(base), AllGood(draft), NEW mine, NEW manual \in BOOLEAN,
           Start(base, mine, manual)
    PROVE  IInv'
<1> DEFINE t == IF manual THEN None ELSE StartTightness
           r == [Fresh("create", FALSE) EXCEPT !.t = t]
<1>1. Good(r)
  BY FreshIsGood
<1>2. Enqueue(base, r)
  BY DEF Start
<1> HIDE DEF r
<1>3. QED
  BY <1>1, <1>2, EnqueueKeeps

\* The requests, and the commit of what they decided.
LEMMA RequestSteps ==
    ASSUME IInv, Requests \/ Commit
    PROVE  IInv'
<1> USE DEF IInv
<1>1. CASE Webhook
  BY <1>1, StartKeeps DEF Webhook
<1>2. CASE StartManual
  BY <1>2, StartKeeps DEF StartManual
<1>3. CASE Reconcile
  BY <1>3, <1>1 DEF Reconcile
<1>4. CASE Reset
  <2>1. Good(Fresh("reset", TRUE))
    BY FreshIsGood
  <2>2. QED
    BY <1>1, <1>4, <2>1, EnqueueKeeps DEF Reset
<1>5. CASE SaveRecommendations
  <2>1. Good(Fresh("recommend", TRUE))
    BY FreshIsGood
  <2>2. QED
    BY <1>5, <2>1, EnqueueKeeps DEF SaveRecommendations
<1>6. ASSUME NEW send \in BOOLEAN, StartDemo(send) PROVE IInv'
  <2> DEFINE r == [Fresh("demo_archive", TRUE) EXCEPT !.send = send]
  <2>1. Good(r)
    BY FreshIsGood
  <2>2. Enqueue(runs, r)
    BY <1>6 DEF StartDemo
  <2> HIDE DEF r
  <2>3. QED
    BY <2>1, <2>2, EnqueueKeeps
<1>7. CASE Commit
  BY <1>7, ConcatKeeps, OneIsGood, FreshIsGood DEF Commit
<1>8. QED
  BY <1>1, <1>2, <1>3, <1>4, <1>5, <1>6, <1>7 DEF Requests

--------------------------------------------------------------------------------
\* The steps of the daemon: a run that goes on stays good.
LEMMA DaemonSteps ==
    ASSUME IInv, Daemon
    PROVE  IInv'
<1>1. PICK i \in Ids : \/ Claim(i) \/ Perform(i) \/ Fail(i) \/ MeetWall(i)
                       \/ LetGo(i) \/ Resume(i) \/ Requeue(i)
                       \/ \E count \in Counts \cup {None} : Search(i, count)
  BY DEF Daemon
<1> DEFINE r == runs[i]
<1>2. Good(r) /\ i \in DOMAIN runs /\ AllGood(runs) /\ AllGood(draft)
  BY DEF IInv, AllGood, Ids
<1>3. ASSUME NEW x, Good(x), runs' = [runs EXCEPT ![i] = x], draft' = draft
      PROVE  IInv'
  BY <1>2, <1>3, SetKeeps DEF IInv
<1>4. CASE Claim(i)
  <2> DEFINE x == [r EXCEPT !.status = "running"]
  <2>1. Good(x)
    BY <1>2, <1>4 DEF Claim, Good, Fields, Live
  <2>2. runs' = [runs EXCEPT ![i] = x] /\ draft' = draft
    BY <1>4 DEF Claim
  <2> HIDE DEF x
  <2>3. QED
    BY <1>3, <2>1, <2>2
<1>6. CASE Perform(i)
  <2> DEFINE x == Done(r)
  <2>1. Good(x)
    BY <1>2, <1>6 DEF Perform, Done, Good, Fields, Live
  <2>2. runs' = [runs EXCEPT ![i] = x] /\ draft' = draft
    BY <1>6 DEF Perform
  <2> HIDE DEF x
  <2>3. QED
    BY <1>3, <2>1, <2>2
<1>7. CASE Fail(i)
  <2> DEFINE x == [Spent(r) EXCEPT !.status = "failed"]
  <2>2. Good(x)
    BY <1>2, FailedIsGood
  <2>3. runs' = [runs EXCEPT ![i] = x] /\ draft' = draft
    BY <1>7 DEF Fail
  <2> HIDE DEF x
  <2>4. QED
    BY <1>3, <2>2, <2>3
<1>8. ASSUME NEW count \in Counts \cup {None}, Search(i, count) PROVE IInv'
  <2> DEFINE x == Done([r EXCEPT !.count = count])
  <2>1. count \in Int
    BY SourcingAssumption DEF None
  <2>2. Good(x)
    BY <1>2, <1>8, <2>1 DEF Search, Done, Good, Fields, Live
  <2>3. runs' = [runs EXCEPT ![i] = x] /\ draft' = draft
    BY <1>8 DEF Search
  <2> HIDE DEF x
  <2>4. QED
    BY <1>3, <2>2, <2>3
<1>9. ASSUME NEW status, status \in Live \/ status = "failed", NEW hook \in BOOLEAN,
             hook => status = "failed", r.status \in Live,
             runs' = [runs EXCEPT ![i] = [@ EXCEPT !.status = status, !.hook = hook]],
             draft' = draft
      PROVE  IInv'
  <2> DEFINE x == [r EXCEPT !.status = status, !.hook = hook]
  <2>1. Good(x)
    BY <1>2, <1>9 DEF Good, Fields, Live
  <2>2. runs' = [runs EXCEPT ![i] = x]
    BY <1>9
  <2> HIDE DEF x
  <2>3. QED
    BY <1>3, <1>9, <2>1, <2>2
<1>10. CASE MeetWall(i)
  <2>1. runs' = [runs EXCEPT ![i] = [@ EXCEPT !.status = "failed", !.hook = TRUE]]
    BY <1>2, <1>10, FailedRuns DEF MeetWall
  <2>2. QED
    BY <1>9, <1>10, <2>1 DEF MeetWall, Live
<1>11. ASSUME NEW status \in {"paused", "queued"}, r.status \in {"running", "paused"},
              runs' = [runs EXCEPT ![i].status = status], draft' = draft
       PROVE  IInv'
  <2> DEFINE x == [r EXCEPT !.status = status]
  <2>1. Good(x)
    BY <1>2, <1>11 DEF Good, Fields, Live
  <2>2. runs' = [runs EXCEPT ![i] = x]
    BY <1>11
  <2> HIDE DEF x
  <2>3. QED
    BY <1>3, <1>11, <2>1, <2>2
<1>12. CASE LetGo(i) \/ Resume(i)
  BY <1>11, <1>12 DEF LetGo, Resume
<1>13. CASE Requeue(i)
  <2>1. Good(Clone(r)) /\ r.status = "running" /\ draft' = draft
    BY <1>2, <1>13, CloneIsGood DEF Requeue, Live
  <2> DEFINE x == [Spent(r) EXCEPT !.status = "failed"]
  <2>2. AllGood([runs EXCEPT ![i] = x])
    <3>1. Good(x)
      BY <1>2, FailedIsGood
    <3> HIDE DEF x
    <3>2. QED
      BY <1>2, <3>1, SetKeeps
  <2>3. \/ runs' = Append([runs EXCEPT ![i] = x], Clone(r))
        \/ runs' = Append(runs, Clone(r))
    BY <1>13 DEF Requeue
  <2> HIDE DEF x, r
  <2>4. QED
    BY <1>2, <2>1, <2>2, <2>3, AppendKeeps DEF IInv
<1>14. QED
  BY <1>1, <1>4, <1>6, <1>7, <1>8, <1>10, <1>12, <1>13

--------------------------------------------------------------------------------
\* A run whose hook is past is good, and so are the others.
LEMMA HandledKeeps ==
    ASSUME IInv, NEW i \in Ids, runs[i].hook
    PROVE  AllGood(Handled(i))
<1>1. Good(runs[i]) /\ i \in DOMAIN runs /\ AllGood(runs)
  BY DEF IInv, AllGood, Ids
<1>2. Good(Spent(runs[i]))
  <2>1. runs[i].status \notin Live
    BY <1>1 DEF Good, Live
  <2>2. QED
    BY <1>1, <2>1, SpentIsGood
<1>3. QED
  BY <1>1, <1>2, SetKeeps DEF Handled

\* The hooks that queue one more run, or none.
LEMMA OtherHooks ==
    ASSUME IInv, NEW i \in Ids,
           \/ AfterCreateProject(i) \/ AfterDemoAdd(i) \/ AfterOther(i)
           \/ Relaunch(i) \/ HookFails(i)
           \/ \E built \in BOOLEAN : AfterResetArchive(i, built)
           \/ \E more \in BOOLEAN : AfterDemoArchive(i, more)
    PROVE  IInv'
<1>1. AllGood(Handled(i))
  BY HandledKeeps DEF AfterDemoAdd, AfterOther, AfterCreateProject, AfterResetArchive,
                      AfterDemoArchive, Owed, Relaunch, HookFails
<1>2. AllGood(draft)
  BY DEF IInv
<1>3. ASSUME NEW x, Good(x), runs' = Append(Handled(i), x), draft' = draft PROVE IInv'
  BY <1>1, <1>2, <1>3, AppendKeeps DEF IInv
<1>4. CASE AfterDemoAdd(i)
  <2>1. Good(Fresh("message", TRUE))
    BY FreshIsGood
  <2>2. CASE runs' = Handled(i)
    BY <1>1, <1>2, <1>4, <2>2 DEF AfterDemoAdd, IInv
  <2>3. CASE runs' = Append(Handled(i), Fresh("message", TRUE))
    BY <1>3, <1>4, <2>1, <2>3 DEF AfterDemoAdd
  <2>4. QED
    BY <1>4, <2>2, <2>3 DEF AfterDemoAdd
<1>5. CASE AfterOther(i)
  BY <1>1, <1>2, <1>5 DEF AfterOther, IInv
<1>6. ASSUME NEW p, draft' = draft,
             runs' = Append(Handled(i), [Fresh("search", p) EXCEPT
                                !.t = runs[i].t, !.root = i])
      PROVE  IInv'
  <2> DEFINE x == [Fresh("search", p) EXCEPT !.t = runs[i].t, !.root = i]
  <2>1. Good(x)
    BY FreshIsGood
  <2>2. runs' = Append(Handled(i), x) /\ draft' = draft
    BY <1>6
  <2> HIDE DEF x
  <2>3. QED
    BY <1>3, <2>1, <2>2
<1>7. ASSUME NEW built \in BOOLEAN, AfterResetArchive(i, built) PROVE IInv'
  <2>1. CASE Start(Handled(i), {i}, FALSE)
    BY <1>1, <1>2, <2>1, StartKeeps
  <2>2. CASE runs' = Handled(i) /\ draft' = draft
    BY <1>1, <1>2, <2>2 DEF IInv
  <2>3. QED
    BY <1>7, <2>1, <2>2 DEF AfterResetArchive
<1>8. ASSUME NEW more \in BOOLEAN, AfterDemoArchive(i, more) PROVE IInv'
  <2> DEFINE again == more /\ runs[i].rounds + 1 < DemoRounds
             n == IF again THEN runs[i].rounds + 1 ELSE runs[i].rounds
             kind == IF again THEN "demo_archive" ELSE "demo_add"
             x == [Fresh(kind, runs[i].project) EXCEPT !.send = runs[i].send, !.rounds = n]
  <2>1. Good(x)
    <3> HIDE DEF n, kind
    <3>1. QED
      BY FreshIsGood
  <2>2. runs' = Append(Handled(i), x) /\ draft' = draft
    BY <1>8 DEF AfterDemoArchive
  <2> HIDE DEF x
  <2>3. QED
    BY <1>3, <2>1, <2>2
<1>9. CASE AfterCreateProject(i)
  <2>1. PICK p : runs' = Append(Handled(i), [Fresh("search", p) EXCEPT
                                    !.t = runs[i].t, !.root = i])
    BY <1>9 DEF AfterCreateProject
  <2>2. draft' = draft
    BY <1>9 DEF AfterCreateProject
  <2>3. QED
    BY <1>6, <2>1, <2>2
<1>10. CASE Relaunch(i)
  <2>1. Good(Clone(runs[i]))
    BY <1>10, CloneIsGood DEF Relaunch, IInv, AllGood, Ids
  <2>2. runs' = Append(Handled(i), Clone(runs[i])) /\ draft' = draft
    BY <1>10 DEF Relaunch
  <2>3. QED
    BY <1>3, <2>1, <2>2
<1>11. CASE HookFails(i)
  BY <1>1, <1>2, <1>11 DEF HookFails, IInv
<1>12. QED
  BY <1>4, <1>5, <1>7, <1>8, <1>9, <1>10, <1>11

\* The search that follows a search remembers the best one of the two.
LEMMA RerunIsGood ==
    ASSUME NEW r, Good(r), r.hook
    PROVE  Good(Rerun(r))
<1>1. Best(r) \in Int /\ (r.found \/ r.count > 0 => Best(r) > 0)
  BY DEF Good, Best
<1>2. /\ DOMAIN Rerun(r) = Fields
      /\ Rerun(r).best = Best(r) /\ Rerun(r).count = None
      /\ Rerun(r).hook = FALSE /\ Rerun(r).final = FALSE
  BY DEF Rerun, Fresh, Fields
<1>3. Rerun(r).found = (r.found \/ r.count > 0)
  BY DEF Rerun, Fresh
<1>4. Rerun(r).found => Rerun(r).best > 0
  BY <1>1, <1>2, <1>3
<1>5. QED
  <2>1. Rerun(r).best \in Int /\ Rerun(r).count \in Int
    BY <1>1, <1>2 DEF None
  <2>2. QED
    BY <1>2, <1>4, <2>1 DEF Good

\* Marking a run as the last search of its chain changes nothing but that run.
LEMMA FinalRuns ==
    ASSUME NEW i \in DOMAIN runs, NEW v
    PROVE  [Handled(i) EXCEPT ![i].result = v, ![i].final = TRUE]
             = [runs EXCEPT ![i] = [Spent(runs[i]) EXCEPT !.result = v, !.final = TRUE]]
<1> DEFINE x == [Spent(runs[i]) EXCEPT !.result = v, !.final = TRUE]
<1>1. ASSUME NEW f, i \in DOMAIN f
      PROVE  [f EXCEPT ![i].result = v, ![i].final = TRUE]
               = [f EXCEPT ![i] = [f[i] EXCEPT !.result = v, !.final = TRUE]]
  BY <1>1
<1>2. i \in DOMAIN Handled(i) /\ Handled(i)[i] = Spent(runs[i])
  BY DEF Handled
<1>3. [Handled(i) EXCEPT ![i].result = v, ![i].final = TRUE] = [Handled(i) EXCEPT ![i] = x]
  BY <1>1, <1>2
<1> HIDE DEF x
<1>4. [Handled(i) EXCEPT ![i] = x] = [runs EXCEPT ![i] = x]
  BY DEF Handled
<1>5. QED
  BY <1>3, <1>4 DEF x

\* What the last search settles for is people, if a search of the chain found any.
LEMMA SettledIsGood ==
    ASSUME BandMin > 0, IInv, NEW i \in Ids, runs[i].hook
    PROVE  AllGood([Handled(i) EXCEPT ![i].result = Settled(runs[i]), ![i].final = TRUE])
<1> DEFINE r == runs[i]
           x == [Spent(r) EXCEPT !.result = Settled(r), !.final = TRUE]
<1>1. Good(r) /\ i \in DOMAIN runs /\ AllGood(runs)
  BY DEF IInv, AllGood, Ids
<1>2. r.found => Settled(r) > 0
  BY <1>1, SourcingAssumption DEF Good, Settled
<1>3. /\ DOMAIN Spent(r) = Fields
      /\ Spent(r).count = r.count /\ Spent(r).status = r.status /\ r.status \notin Live
      /\ Spent(r).found = r.found /\ Spent(r).hook = FALSE /\ Spent(r).best = 0
  BY <1>1 DEF Good, Spent, Fields, Live
<1>4. Good(x)
  <2>1. r.count \in Int
    BY <1>1 DEF Good
  <2> HIDE DEF r
  <2>2. /\ DOMAIN x = Fields /\ x.count = r.count /\ x.status \notin Live
        /\ x.found = r.found /\ x.hook = FALSE /\ x.best = 0
        /\ x.result = Settled(r)
    BY <1>3 DEF Fields
  <2>3. Settled(r) <= 0 => ~r.found
    <3>1. Settled(r) \in Int
      BY <1>1, <2>1 DEF Settled, Good, r
    <3>2. QED
      BY <1>2, <3>1
  <2> HIDE DEF x
  <2>4. QED
    BY <2>1, <2>2, <2>3 DEF Good
<1>5. [Handled(i) EXCEPT ![i].result = Settled(r), ![i].final = TRUE] = [runs EXCEPT ![i] = x]
  BY <1>1, FinalRuns
<1> HIDE DEF x
<1>6. QED
  BY <1>1, <1>4, <1>5, SetKeeps

LEMMA SearchHook ==
    ASSUME BandMin > 0, IInv, NEW i \in Ids, NEW n \in Nat, NEW m \in Nat,
           AfterSearch(i, n, m)
    PROVE  IInv'
<1> DEFINE r == runs[i]
           final == [Handled(i) EXCEPT ![i].result = Settled(r), ![i].final = TRUE]
           save == [Fresh("save", r.project) EXCEPT !.root = r.root]
           sweep == Fresh("archive", TRUE)
           saves == [k \in 1..n |-> save]
           sweeps == [k \in 1..m |-> sweep]
<1>1. r.hook /\ draft' = draft /\ AllGood(draft)
  BY DEF AfterSearch, Owed, IInv
<1>2. CASE runs' = Append(Handled(i), Rerun(r))
  <2>1. Good(r)
    BY DEF IInv, AllGood, Ids
  <2>2. QED
    BY <1>1, <1>2, <2>1, RerunIsGood, HandledKeeps, AppendKeeps DEF IInv
<1>3. CASE runs' = final \o saves \o sweeps
  <2>1. AllGood(final)
    BY <1>1, SettledIsGood
  <2>2. Good(save) /\ Good(sweep)
    BY FreshIsGood
  <2>3. AllGood(saves) /\ AllGood(sweeps)
    <3> HIDE DEF save, sweep
    <3>1. QED
      BY <2>2, ManyAreGood
  <2> HIDE DEF final, saves, sweeps
  <2>4. AllGood(final \o saves)
    BY <2>1, <2>3, ConcatKeeps
  <2>5. AllGood((final \o saves) \o sweeps)
    BY <2>3, <2>4, ConcatKeeps
  <2>6. QED
    BY <1>1, <1>3, <2>5 DEF IInv
<1>4. QED
  BY <1>2, <1>3 DEF AfterSearch

LEMMA RestartStep ==
    ASSUME IInv, BackendRestart
    PROVE  IInv'
<1>1. PICK S : runs \in Seq(S)
  BY DEF IInv, AllGood
<1>2. DOMAIN runs' = DOMAIN runs /\ runs' = [j \in DOMAIN runs |-> runs'[j]]
  BY DEF BackendRestart, Ids
<1>3. \A j \in DOMAIN runs : Good(runs'[j])
  <2> SUFFICES ASSUME NEW j \in DOMAIN runs PROVE Good(runs'[j])
    OBVIOUS
  <2>1. Good(runs[j])
    BY DEF IInv, AllGood
  <2>2. CASE runs[j].hook
    <3>1. Good(Spent(runs[j]))
      <4>1. runs[j].status \notin Live
        BY <2>1, <2>2 DEF Good, Live
      <4>2. QED
        BY <2>1, <4>1, SpentIsGood
    <3>2. QED
      BY <2>2, <3>1 DEF BackendRestart, Ids
  <2>3. CASE ~runs[j].hook
    BY <2>1, <2>3 DEF BackendRestart, Ids
  <2>4. QED
    BY <2>2, <2>3
<1>4. \E T : runs' \in Seq(T)
  <2> DEFINE T == {runs'[j] : j \in DOMAIN runs}
  <2>1. DOMAIN runs = 1..Len(runs) /\ Len(runs) \in Nat
    BY <1>1
  <2>2. runs' \in [1..Len(runs) -> T]
    BY <1>2, <2>1
  <2>3. runs' \in Seq(T)
    BY <2>1, <2>2
  <2>4. QED
    BY <2>3
<1>5. AllGood(<<>>)
  BY OneIsGood, FreshIsGood
<1>6. QED
  BY <1>2, <1>3, <1>4, <1>5 DEF IInv, AllGood, BackendRestart

--------------------------------------------------------------------------------
\* A chain that ends without people never found any, for every band with a lower
\* end above zero, every number of reruns and every tightness: the best search
\* travels from run to run (_after_search, _rerun_search), through reruns,
\* restarts of the backend and decisions that overlap.
THEOREM FoundIsKept == ASSUME BandMin > 0 PROVE Spec => []NeverEmptyHanded
<1>1. Init => IInv
  BY InitIInv
<1>2. IInv /\ [Next]_vars => IInv'
  <2> SUFFICES ASSUME IInv, [Next]_vars PROVE IInv'
    OBVIOUS
  <2>1. CASE Requests \/ Commit
    BY <2>1, RequestSteps
  <2>2. CASE Daemon
    BY <2>2, DaemonSteps
  <2>3. CASE Hooks
    <3>1. PICK i \in Ids :
            \/ \/ AfterCreateProject(i) \/ AfterDemoAdd(i) \/ AfterOther(i)
               \/ Relaunch(i) \/ HookFails(i)
               \/ \E built \in BOOLEAN : AfterResetArchive(i, built)
               \/ \E more \in BOOLEAN : AfterDemoArchive(i, more)
            \/ \E saves, sweeps \in 0..MaxRuns : AfterSearch(i, saves, sweeps)
      BY <2>3 DEF Hooks
    <3>2. 0..MaxRuns \subseteq Nat
      OBVIOUS
    <3>3. QED
      BY <3>1, <3>2, OtherHooks, SearchHook
  <2>4. CASE BackendRestart
    BY <2>4, RestartStep
  <2>5. CASE UNCHANGED vars
    BY <2>5 DEF vars, IInv, AllGood
  <2>6. QED
    BY <2>1, <2>2, <2>3, <2>4, <2>5 DEF Next
<1>3. IInv => NeverEmptyHanded
  BY DEF IInv, AllGood, Good, NeverEmptyHanded, Ids
<1>4. QED
  BY <1>1, <1>2, <1>3, PTL DEF Spec

--------------------------------------------------------------------------------
(***************************************************************************)
(* One flow at a time.  What makes it inductive is the draft, which must   *)
(* be counted as a run; and for the leads, that a reset comes after every  *)
(* chain whose people are leads.                                           *)
(***************************************************************************)

FlowKinds == {"create", "search", "save", "reset"}
Flow(r) ==
    /\ r.kind \in FlowKinds
    /\ r.status \in Live \/ (r.hook /\ (r.kind = "save" => r.status = "failed"))

\* The saves of one search are under way together.
Together(r, q) == r.kind = "save" /\ q.kind = "save" /\ r.root = q.root

Shaped(r) == DOMAIN r = Fields /\ (r.hook => r.status \in {"done", "failed"})
AllShaped(s) == (\E S : s \in Seq(S)) /\ \A i \in DOMAIN s : Shaped(s[i])
Quiet(s) == \A i \in DOMAIN s : ~Flow(s[i])
Joins(x, s) == \A i \in DOMAIN s : Flow(s[i]) => Together(x, s[i])

OneOfBoth(s, d) ==
    /\ \A i, j \in DOMAIN s : Flow(s[i]) /\ Flow(s[j]) => i = j \/ Together(s[i], s[j])
    /\ \A i, j \in DOMAIN d : Flow(d[i]) /\ Flow(d[j]) => i = j
    /\ Quiet(s) \/ Quiet(d)

ResetsLater(s, found) ==
    \A i \in DOMAIN s : s[i].kind = "reset" /\ Flow(s[i]) => \A c \in found : c < i

\* The runs s, the drafts d and the leads found, where decisions overlapped or not.
Sound(s, d, found, ov) ==
    /\ AllShaped(s) /\ AllShaped(d) /\ found \subseteq DOMAIN s
    /\ \A i \in DOMAIN d : d[i].kind # "search"
    /\ \A i \in DOMAIN s : s[i].kind = "search" /\ Flow(s[i]) => s[i].root \in DOMAIN s
    /\ ~ov => OneOfBoth(s, d) /\ ResetsLater(s, found)

OneInv == Sound(runs, draft, leads, overlap)

\* Runs that leave their flow, or stay in it.
LEMMA LeaveSound ==
    ASSUME NEW s, NEW d, NEW found, NEW ov, Sound(s, d, found, ov),
           NEW t, \E T : t \in Seq(T), DOMAIN t = DOMAIN s,
           \A j \in DOMAIN s : /\ Shaped(t[j]) /\ t[j].kind = s[j].kind
                               /\ Flow(t[j]) => Flow(s[j]) /\ t[j].root = s[j].root
    PROVE  Sound(t, d, found, ov)
<1>1. AllShaped(t)
  BY DEF AllShaped
<1>2. ~ov => OneOfBoth(t, d)
  BY DEF Sound, OneOfBoth, Quiet, Together
<1>3. ~ov => ResetsLater(t, found)
  BY DEF Sound, ResetsLater
<1>4. \A j \in DOMAIN t : t[j].kind = "search" /\ Flow(t[j]) => t[j].root \in DOMAIN t
  BY DEF Sound
<1>5. QED
  BY <1>1, <1>2, <1>3, <1>4 DEF Sound

LEMMA SetSound ==
    ASSUME NEW s, NEW d, NEW found, NEW ov, Sound(s, d, found, ov), NEW i \in DOMAIN s,
           NEW x, Shaped(x), x.kind = s[i].kind, Flow(x) => Flow(s[i]) /\ x.root = s[i].root
    PROVE  /\ Sound([s EXCEPT ![i] = x], d, found, ov)
           /\ DOMAIN [s EXCEPT ![i] = x] = DOMAIN s
           /\ [s EXCEPT ![i] = x][i] = x
           /\ \A j \in DOMAIN s : j # i => [s EXCEPT ![i] = x][j] = s[j]
<1> DEFINE t == [s EXCEPT ![i] = x]
<1>1. PICK S : s \in Seq(S)
  BY DEF Sound, AllShaped
<1>2. s \in Seq(S \cup {x})
  BY <1>1
<1>3. t \in Seq(S \cup {x})
  BY <1>2
<1>4. DOMAIN t = DOMAIN s /\ t[i] = x /\ \A j \in DOMAIN s : j # i => t[j] = s[j]
  BY <1>2
<1> HIDE DEF t
<1>5. \A j \in DOMAIN s : /\ Shaped(t[j]) /\ t[j].kind = s[j].kind
                          /\ Flow(t[j]) => Flow(s[j]) /\ t[j].root = s[j].root
  BY <1>4 DEF Sound, AllShaped
<1>6. Sound(t, d, found, ov)
  BY <1>3, <1>4, <1>5, LeaveSound
<1>7. QED
  BY <1>4, <1>6 DEF t

\* One more run, of no flow or when there is no other flow, or one that it joins.
LEMMA AppendSound ==
    ASSUME NEW s, NEW d, NEW found, NEW ov, Sound(s, d, found, ov), NEW x, Shaped(x),
           Flow(x) /\ ~ov => Joins(x, s) /\ Quiet(d),
           Flow(x) /\ x.kind = "search" => x.root \in DOMAIN s
    PROVE  Sound(Append(s, x), d, found, ov)
<1> DEFINE t == Append(s, x)
           n == Len(s) + 1
<1>1. PICK S : s \in Seq(S)
  BY DEF Sound, AllShaped
<1>2. s \in Seq(S \cup {x})
  BY <1>1
<1>3. t \in Seq(S \cup {x})
  BY <1>2
<1>4. /\ DOMAIN t = DOMAIN s \cup {n} /\ t[n] = x
      /\ \A j \in DOMAIN s : t[j] = s[j] /\ j < n
  BY <1>2
<1> HIDE DEF t, n
<1>5. AllShaped(t)
  BY <1>3, <1>4 DEF Sound, AllShaped
<1>6. ~ov => OneOfBoth(t, d)
  BY <1>4 DEF Sound, OneOfBoth, Quiet, Joins, Together
<1>7. ~ov => ResetsLater(t, found)
  BY <1>4 DEF Sound, ResetsLater
<1>8. \A j \in DOMAIN t : t[j].kind = "search" /\ Flow(t[j]) => t[j].root \in DOMAIN t
  BY <1>4 DEF Sound
<1>9. found \subseteq DOMAIN t
  BY <1>4 DEF Sound
<1>10. Sound(t, d, found, ov)
  BY <1>5, <1>6, <1>7, <1>8, <1>9 DEF Sound
<1>11. QED
  BY <1>10 DEF t

LEMMA OneIsShaped ==
    ASSUME NEW x, Shaped(x)
    PROVE  /\ AllShaped(<<x>>) /\ DOMAIN <<x>> = {1} /\ <<x>>[1] = x
           /\ AllShaped(<<>>) /\ DOMAIN <<>> = {}
<1>1. <<x>> \in Seq({x}) /\ DOMAIN <<x>> = {1} /\ <<x>>[1] = x
  OBVIOUS
<1>2. <<>> \in Seq({x}) /\ DOMAIN <<>> = {}
  OBVIOUS
<1>3. QED
  BY <1>1, <1>2 DEF AllShaped

\* A decision that stays a draft.
LEMMA DraftSound ==
    ASSUME NEW s, NEW found, NEW ov, Sound(s, <<>>, found, ov), NEW x, Shaped(x),
           Flow(x) /\ ~ov => Quiet(s), x.kind # "search"
    PROVE  Sound(s, <<x>>, found, ov)
<1>1. AllShaped(<<x>>) /\ DOMAIN <<x>> = {1} /\ <<x>>[1] = x
  BY OneIsShaped
<1>2. ~ov => OneOfBoth(s, <<x>>)
  <2> HIDE <1>1
  <2>1. \A i \in DOMAIN <<x>> : <<x>>[i] = x /\ i = 1
    BY <1>1
  <2>2. ~ov => Quiet(s) \/ Quiet(<<x>>)
    BY <2>1 DEF Quiet
  <2>3. QED
    BY <2>1, <2>2 DEF Sound, OneOfBoth
<1>3. QED
  BY <1>1, <1>2 DEF Sound

\* The draft is committed, or lost.
LEMMA CommitSound ==
    ASSUME NEW s, NEW d, NEW found, NEW ov, Sound(s, d, found, ov)
    PROVE  Sound(s \o d, <<>>, found, ov) /\ Sound(s, <<>>, found, ov)
<1> DEFINE t == s \o d
<1>1. PICK S : s \in Seq(S)
  BY DEF Sound, AllShaped
<1>2. PICK D : d \in Seq(D)
  BY DEF Sound, AllShaped
<1>3. s \in Seq(S \cup D) /\ d \in Seq(S \cup D)
  BY <1>1, <1>2
<1>4. t \in Seq(S \cup D) /\ Len(s) \in Nat
  BY <1>3
<1>5. /\ DOMAIN s \subseteq DOMAIN t /\ DOMAIN s = 1..Len(s)
      /\ \A i \in DOMAIN s : t[i] = s[i]
      /\ \A i \in DOMAIN t \ DOMAIN s : i \in Nat /\ i > Len(s)
                                     /\ i - Len(s) \in DOMAIN d /\ t[i] = d[i - Len(s)]
  BY <1>3
<1> HIDE DEF t
<1>6. AllShaped(t) /\ AllShaped(<<>>) /\ DOMAIN <<>> = {}
  <2>1. AllShaped(t)
    BY <1>4, <1>5 DEF Sound, AllShaped
  <2>2. <<>> \in Seq({}) /\ DOMAIN <<>> = {}
    OBVIOUS
  <2>3. QED
    BY <2>1, <2>2 DEF AllShaped
<1>7. \A j \in DOMAIN t : t[j].kind = "search" /\ Flow(t[j]) => t[j].root \in DOMAIN t
  BY <1>5 DEF Sound
<1>8. ~ov => OneOfBoth(t, <<>>)
  <2> SUFFICES ASSUME ~ov, NEW i \in DOMAIN t, NEW j \in DOMAIN t, Flow(t[i]), Flow(t[j])
               PROVE  i = j \/ Together(t[i], t[j])
    BY <1>6 DEF OneOfBoth, Quiet
  <2>1. OneOfBoth(s, d)
    BY DEF Sound
  <2>2. CASE i \in DOMAIN s /\ j \in DOMAIN s
    BY <1>5, <2>1, <2>2 DEF OneOfBoth
  <2>3. CASE i \notin DOMAIN s /\ j \notin DOMAIN s
    <3>1. i - Len(s) = j - Len(s)
      BY <1>5, <2>1, <2>3 DEF OneOfBoth
    <3>2. QED
      BY <1>4, <1>5, <2>3, <3>1
  <2>4. CASE (i \in DOMAIN s) # (j \in DOMAIN s)
    BY <1>5, <2>1, <2>4 DEF OneOfBoth, Quiet
  <2>5. QED
    BY <2>2, <2>3, <2>4
<1>9. ~ov => ResetsLater(t, found)
  <2> SUFFICES ASSUME ~ov, NEW i \in DOMAIN t, t[i].kind = "reset", Flow(t[i]), NEW c \in found
               PROVE  c < i
    BY DEF ResetsLater
  <2>1. c \in 1..Len(s)
    BY <1>5 DEF Sound
  <2>2. CASE i \in DOMAIN s
    BY <1>5, <2>2 DEF Sound, ResetsLater
  <2>3. CASE i \notin DOMAIN s
    BY <1>4, <1>5, <2>1, <2>3
  <2>4. QED
    BY <2>2, <2>3
<1>10. Sound(t, <<>>, found, ov)
  BY <1>5, <1>6, <1>7, <1>8, <1>9 DEF Sound
<1>11. Sound(s, <<>>, found, ov)
  BY <1>6 DEF Sound, OneOfBoth, Quiet
<1>12. QED
  BY <1>10, <1>11 DEF t

\* Overlaps only weaken it, and so does the loss of leads.
LEMMA WeakerSound ==
    ASSUME NEW s, NEW d, NEW found, NEW ov, Sound(s, d, found, ov),
           NEW less, less \subseteq found, NEW more, ov => more
    PROVE  Sound(s, d, less, more)
BY DEF Sound, ResetsLater

\* The people of a chain become leads, while no reset is under way.
LEMMA LeadSound ==
    ASSUME NEW s, NEW d, NEW found, NEW ov, Sound(s, d, found, ov), NEW c \in DOMAIN s,
           ~ov => Quiet(s)
    PROVE  Sound(s, d, found \cup {c}, ov)
BY DEF Sound, ResetsLater, Quiet

\* The runs that are made, as far as flows go.
LEMMA FreshIsShaped ==
    ASSUME NEW kind, NEW project
    PROVE  Shaped(Fresh(kind, project)) /\ Fresh(kind, project).kind = kind
BY DEF Fresh, Shaped, Fields

LEMMA SaveIsShaped ==
    ASSUME NEW project, NEW root
    PROVE  /\ Shaped([Fresh("save", project) EXCEPT !.root = root])
           /\ [Fresh("save", project) EXCEPT !.root = root].kind = "save"
BY DEF Fresh, Shaped, Fields

LEMMA RerunIsShaped ==
    ASSUME NEW r
    PROVE  Shaped(Rerun(r)) /\ Rerun(r).kind = "search" /\ Rerun(r).root = r.root
BY DEF Rerun, Fresh, Shaped, Fields

LEMMA SpentIsShaped ==
    ASSUME NEW r, Shaped(r), r.hook
    PROVE  /\ Shaped(Spent(r)) /\ Spent(r).kind = r.kind
           /\ Spent(r).hook = FALSE /\ ~Flow(Spent(r))
<1>1. /\ DOMAIN Spent(r) = Fields /\ Spent(r).hook = FALSE
      /\ Spent(r).kind = r.kind /\ Spent(r).status = r.status
  BY DEF Shaped, Spent, Fields
<1>2. QED
  BY <1>1 DEF Shaped, Flow, Live

\* A run that has ended without a hook.
LEMMA FailedIsShaped ==
    ASSUME NEW r, Shaped(r)
    PROVE  /\ Shaped([Spent(r) EXCEPT !.status = "failed"])
           /\ [Spent(r) EXCEPT !.status = "failed"].kind = r.kind
           /\ ~Flow([Spent(r) EXCEPT !.status = "failed"])
<1> DEFINE x == [Spent(r) EXCEPT !.status = "failed"]
<1>1. DOMAIN x = Fields /\ x.kind = r.kind /\ x.status = "failed" /\ x.hook = FALSE
  BY DEF Shaped, Spent, Fields
<1> HIDE DEF x
<1>2. Shaped(x) /\ x.kind = r.kind /\ ~Flow(x)
  BY <1>1 DEF Shaped, Flow, Live
<1>3. QED
  BY <1>2 DEF x

LEMMA CloneIsShaped ==
    ASSUME NEW r, Shaped(r)
    PROVE  Shaped(Clone(r)) /\ Clone(r).kind = r.kind /\ Clone(r).root = r.root
BY DEF Clone, Shaped, Fields

\* A run that is in no flow any more leaves room for the next of its flow.
LEMMA Ends ==
    ASSUME OneInv, NEW i \in Ids, NEW x, Shaped(x), x.kind = runs[i].kind, ~Flow(x)
    PROVE  /\ Sound([runs EXCEPT ![i] = x], draft, leads, overlap)
           /\ DOMAIN [runs EXCEPT ![i] = x] = DOMAIN runs
           /\ [runs EXCEPT ![i] = x][i] = x
           /\ \A j \in DOMAIN runs : j # i => [runs EXCEPT ![i] = x][j] = runs[j]
           /\ Flow(runs[i]) /\ ~overlap
                => /\ Joins(runs[i], [runs EXCEPT ![i] = x]) /\ Quiet(draft)
                   /\ runs[i].kind # "save" => Quiet([runs EXCEPT ![i] = x])
<1> DEFINE t == [runs EXCEPT ![i] = x]
<1>1. i \in DOMAIN runs /\ Sound(runs, draft, leads, overlap)
  BY DEF Ids, OneInv
<1>2. /\ Sound(t, draft, leads, overlap) /\ DOMAIN t = DOMAIN runs /\ t[i] = x
      /\ \A j \in DOMAIN runs : j # i => t[j] = runs[j]
  BY <1>1, SetSound
<1> HIDE DEF t
<1>3. ASSUME Flow(runs[i]), ~overlap
      PROVE  /\ Joins(runs[i], t) /\ Quiet(draft)
             /\ runs[i].kind # "save" => Quiet(t)
  <2>1. OneOfBoth(runs, draft)
    BY <1>1, <1>3 DEF Sound
  <2>2. Quiet(draft)
    BY <1>1, <1>3, <2>1 DEF OneOfBoth, Quiet
  <2>3. Joins(runs[i], t)
    BY <1>1, <1>2, <1>3, <2>1 DEF OneOfBoth, Joins
  <2>4. runs[i].kind # "save" => Quiet(t)
    BY <2>3 DEF Joins, Together, Quiet
  <2>5. QED
    BY <2>2, <2>3, <2>4
<1>4. QED
  BY <1>2, <1>3 DEF t

LEMMA HandledSound ==
    ASSUME OneInv, NEW i \in Ids, runs[i].hook
    PROVE  /\ Sound(Handled(i), draft, leads, overlap)
           /\ DOMAIN Handled(i) = DOMAIN runs /\ ~Flow(Handled(i)[i])
           /\ \A j \in DOMAIN runs : j # i => Handled(i)[j] = runs[j]
           /\ Flow(runs[i]) /\ ~overlap
                => /\ Joins(runs[i], Handled(i)) /\ Quiet(draft)
                   /\ runs[i].kind # "save" => Quiet(Handled(i))
<1>1. Shaped(runs[i])
  BY DEF OneInv, Sound, AllShaped, Ids
<1>2. Shaped(Spent(runs[i])) /\ Spent(runs[i]).kind = runs[i].kind /\ ~Flow(Spent(runs[i]))
  BY <1>1, SpentIsShaped
<1>3. QED
  BY <1>2, Ends DEF Handled

\* A decision of a kind that is no flow.
LEMMA AsideSound ==
    ASSUME OneInv, NEW x, Shaped(x), x.kind \notin FlowKinds, Enqueue(runs, x),
           UNCHANGED <<leads, overlap>>
    PROVE  OneInv'
<1>1. ~Flow(x) /\ x.kind # "search" /\ Sound(runs, draft, leads, overlap)
  BY DEF Flow, FlowKinds, OneInv
<1>2. CASE runs' = Append(runs, x) /\ UNCHANGED draft
  BY <1>1, <1>2, AppendSound DEF OneInv
<1>3. CASE draft = <<>> /\ draft' = <<x>> /\ runs' = runs
  BY <1>1, <1>3, DraftSound DEF OneInv
<1>4. QED
  BY <1>2, <1>3 DEF Enqueue

\* A decision that begins a flow.
LEMMA BeginSound ==
    ASSUME NEW base, NEW mine, NEW x, NEW found, Sound(base, draft, found, overlap),
           Shaped(x), x.kind # "search", Enqueue(base, x),
           overlap' = (overlap \/ Overlaps(mine)), ~Overlaps(mine) => Quiet(base)
    PROVE  Sound(runs', draft', found, overlap')
<1>1. Sound(base, draft, found, overlap')
  <2>1. found \subseteq found /\ (overlap => overlap')
    OBVIOUS
  <2>2. QED
    BY <2>1, WeakerSound
<1>2. ~overlap' => Quiet(base) /\ draft = <<>>
  BY DEF Overlaps
<1>3. DOMAIN <<>> = {}
  OBVIOUS
<1>4. ~overlap' => Quiet(base) /\ Joins(x, base) /\ Quiet(draft)
  BY <1>2, <1>3 DEF Quiet, Joins
<1>5. CASE runs' = Append(base, x) /\ UNCHANGED draft
  BY <1>1, <1>4, <1>5, AppendSound
<1>6. CASE draft = <<>> /\ draft' = <<x>> /\ runs' = base
  BY <1>1, <1>4, <1>6, DraftSound
<1>7. QED
  BY <1>5, <1>6 DEF Enqueue

\* Where nothing is active and no hook is owed, no flow is under way.
LEMMA MayStartQuiet ==
    ASSUME MayStart, ~Overlaps({})
    PROVE  Quiet(runs)
BY DEF MayStart, SomeActive, Active, Overlaps, Quiet, Flow, FlowKinds, Kinds, Ids

LEMMA SoundRequests ==
    ASSUME OneInv, Requests \/ Commit
    PROVE  OneInv'
<1>1. Sound(runs, draft, leads, overlap)
  BY DEF OneInv
<1>2. ASSUME NEW manual \in BOOLEAN, Start(runs, {}, manual), UNCHANGED leads PROVE OneInv'
  <2> DEFINE u == IF manual THEN None ELSE StartTightness
             x == [Fresh("create", FALSE) EXCEPT !.t = u]
  <2>1. Shaped(x) /\ x.kind # "search"
    BY DEF Fresh, Shaped, Fields
  <2>2. Enqueue(runs, x) /\ overlap' = (overlap \/ Overlaps({})) /\ MayStart
    BY <1>2 DEF Start
  <2> HIDE DEF x
  <2>3. QED
    BY <1>1, <1>2, <2>1, <2>2, MayStartQuiet, BeginSound DEF OneInv
<1>3. CASE Webhook
  BY <1>2, <1>3 DEF Webhook
<1>4. CASE StartManual
  BY <1>2, <1>4 DEF StartManual
<1>5. CASE Reconcile
  BY <1>3, <1>5 DEF Reconcile
<1>6. CASE Reset
  <2> DEFINE x == Fresh("reset", TRUE)
  <2>1. Shaped(x) /\ x.kind # "search"
    BY DEF Fresh, Shaped, Fields
  <2>2. CASE Webhook
    BY <1>3, <2>2
  <2>3. CASE ~Webhook
    <3>1. /\ Enqueue(runs, x) /\ overlap' = (overlap \/ Overlaps({})) /\ MayStart
          /\ UNCHANGED leads
      BY <1>6, <2>3 DEF Reset
    <3> HIDE DEF x
    <3>2. QED
      BY <1>1, <2>1, <3>1, MayStartQuiet, BeginSound DEF OneInv
  <2>4. QED
    BY <2>2, <2>3
<1>7. CASE SaveRecommendations
  <2> DEFINE x == Fresh("recommend", TRUE)
  <2>1. Shaped(x) /\ x.kind \notin FlowKinds
    BY DEF Fresh, Shaped, Fields, FlowKinds
  <2>2. Enqueue(runs, x) /\ UNCHANGED <<leads, overlap>>
    BY <1>7 DEF SaveRecommendations
  <2> HIDE DEF x
  <2>3. QED
    BY <2>1, <2>2, AsideSound
<1>8. ASSUME NEW send \in BOOLEAN, StartDemo(send) PROVE OneInv'
  <2> DEFINE x == [Fresh("demo_archive", TRUE) EXCEPT !.send = send]
  <2>1. Shaped(x) /\ x.kind \notin FlowKinds
    BY DEF Fresh, Shaped, Fields, FlowKinds
  <2>2. Enqueue(runs, x) /\ UNCHANGED <<leads, overlap>>
    BY <1>8 DEF StartDemo
  <2> HIDE DEF x
  <2>3. QED
    BY <2>1, <2>2, AsideSound
<1>9. CASE Commit
  BY <1>1, <1>9, CommitSound DEF Commit, OneInv
<1>10. QED
  BY <1>3, <1>4, <1>5, <1>6, <1>7, <1>8, <1>9 DEF Requests

\* The daemon takes a run further in its flow, or out of it.
LEMMA SoundDaemon ==
    ASSUME OneInv, Daemon
    PROVE  OneInv'
<1>1. PICK i \in Ids : \/ Claim(i) \/ Perform(i) \/ Fail(i) \/ MeetWall(i)
                       \/ LetGo(i) \/ Resume(i) \/ Requeue(i)
                       \/ \E count \in Counts \cup {None} : Search(i, count)
  BY DEF Daemon
<1> DEFINE r == runs[i]
<1>2. Shaped(r) /\ i \in DOMAIN runs /\ Sound(runs, draft, leads, overlap)
  BY DEF OneInv, Sound, AllShaped, Ids
<1>3. ASSUME NEW x, Shaped(x), x.kind = r.kind, Flow(x) => Flow(r) /\ x.root = r.root,
             runs' = [runs EXCEPT ![i] = x], UNCHANGED <<draft, leads, overlap>>
      PROVE  OneInv'
  BY <1>2, <1>3, SetSound DEF OneInv
<1>4. CASE Claim(i)
  <2> DEFINE x == [r EXCEPT !.status = "running"]
  <2>1. r.status = "queued" /\ ~r.hook
    BY <1>2, <1>4 DEF Claim, Shaped
  <2>2. /\ DOMAIN x = Fields /\ x.kind = r.kind /\ x.root = r.root
        /\ x.status = "running" /\ x.hook = r.hook
    BY <1>2 DEF Shaped, Fields
  <2>3. runs' = [runs EXCEPT ![i] = x] /\ UNCHANGED <<draft, leads, overlap>>
    BY <1>4 DEF Claim
  <2> HIDE DEF x
  <2>4. Shaped(x) /\ (Flow(x) => Flow(r))
    BY <2>1, <2>2 DEF Shaped, Flow, Live
  <2>5. QED
    BY <1>3, <2>2, <2>3, <2>4
<1>5. ASSUME r.status = "running", NEW y, DOMAIN y = Fields, y.kind = r.kind, y.root = r.root,
             runs' = [runs EXCEPT ![i] = Done(y)], UNCHANGED <<draft, leads, overlap>>
      PROVE  OneInv'
  <2> DEFINE x == Done(y)
  <2>1. /\ DOMAIN x = Fields /\ x.kind = r.kind /\ x.root = r.root
        /\ x.status = "done"
    BY <1>5 DEF Done, Fields
  <2> HIDE DEF x
  <2>2. Shaped(x) /\ (Flow(x) => Flow(r))
    BY <1>5, <2>1 DEF Shaped, Flow, Live
  <2>3. QED
    BY <1>3, <1>5, <2>1, <2>2 DEF x
<1>7. CASE Perform(i)
  <2>1. /\ runs' = [runs EXCEPT ![i] = Done(r)] /\ UNCHANGED <<draft, leads, overlap>>
        /\ r.status = "running"
    BY <1>7 DEF Perform
  <2>2. QED
    BY <1>2, <1>5, <2>1 DEF Shaped
<1>8. ASSUME NEW count \in Counts \cup {None}, Search(i, count) PROVE OneInv'
  <2> DEFINE y == [r EXCEPT !.count = count]
  <2>1. DOMAIN y = Fields /\ y.kind = r.kind /\ y.root = r.root
    BY <1>2 DEF Shaped, Fields
  <2>2. /\ runs' = [runs EXCEPT ![i] = Done(y)] /\ UNCHANGED <<draft, leads, overlap>>
        /\ r.status = "running"
    BY <1>8 DEF Search
  <2> HIDE DEF y
  <2>3. QED
    BY <1>5, <2>1, <2>2
<1>9. CASE Fail(i)
  <2> DEFINE x == [Spent(r) EXCEPT !.status = "failed"]
  <2>1. runs' = [runs EXCEPT ![i] = x] /\ UNCHANGED <<draft, leads, overlap>>
    BY <1>9 DEF Fail
  <2>2. Shaped(x) /\ x.kind = r.kind /\ ~Flow(x)
    BY <1>2, FailedIsShaped
  <2> HIDE DEF x
  <2>3. QED
    BY <1>3, <2>1, <2>2
<1>10. CASE MeetWall(i)
  <2> DEFINE x == [r EXCEPT !.status = "failed", !.hook = TRUE]
  <2>1. Shaped(x) /\ x.kind = r.kind /\ x.root = r.root
    BY <1>2 DEF Shaped, Fields
  <2>2. Flow(x) => Flow(r)
    BY <1>2, <1>10, <2>1 DEF MeetWall, Flow, Live
  <2>3. runs' = [runs EXCEPT ![i] = x] /\ UNCHANGED <<draft, leads, overlap>>
    BY <1>2, <1>10, FailedRuns DEF MeetWall
  <2> HIDE DEF x
  <2>4. QED
    BY <1>3, <2>1, <2>2, <2>3
<1>11. ASSUME NEW status \in {"paused", "queued"}, r.status \in {"running", "paused"},
              runs' = [runs EXCEPT ![i].status = status], UNCHANGED <<draft, leads, overlap>>
       PROVE  OneInv'
  <2> DEFINE x == [r EXCEPT !.status = status]
  <2>1. /\ DOMAIN x = Fields /\ x.kind = r.kind /\ x.root = r.root
        /\ x.status = status /\ x.hook = r.hook
    BY <1>2 DEF Shaped, Fields
  <2>2. runs' = [runs EXCEPT ![i] = x]
    BY <1>11
  <2> HIDE DEF x
  <2>3. Shaped(x) /\ (Flow(x) => Flow(r))
    BY <1>2, <1>11, <2>1 DEF Shaped, Flow, Live
  <2>4. QED
    BY <1>3, <1>11, <2>1, <2>2, <2>3
<1>12. CASE LetGo(i) \/ Resume(i)
  BY <1>11, <1>12 DEF LetGo, Resume
<1>13. CASE Requeue(i)
  <2> DEFINE x == [Spent(r) EXCEPT !.status = "failed"]
             y == Clone(r)
  <2>1. /\ Shaped(y) /\ y.kind = r.kind /\ y.root = r.root
        /\ Shaped(x) /\ x.kind = r.kind /\ ~Flow(x)
    BY <1>2, FailedIsShaped, CloneIsShaped
  <2>2. /\ \/ runs' = Append([runs EXCEPT ![i] = x], y) /\ UNCHANGED overlap
           \/ runs' = Append(runs, y) /\ overlap' = TRUE
        /\ r.status = "running" /\ UNCHANGED <<draft, leads>>
    BY <1>13 DEF Requeue
  <2> HIDE DEF x, y
  <2>3. Flow(y) => Flow(r)
    BY <2>1, <2>2 DEF Flow, Live
  <2>4. y.kind = "search" /\ Flow(y) => y.root \in DOMAIN runs
    BY <1>2, <2>1, <2>3 DEF Sound
  <2>5. CASE runs' = Append([runs EXCEPT ![i] = x], y) /\ UNCHANGED overlap
    <3> DEFINE t == [runs EXCEPT ![i] = x]
    <3>1. /\ Sound(t, draft, leads, overlap) /\ DOMAIN t = DOMAIN runs
          /\ Flow(r) /\ ~overlap => Joins(r, t) /\ Quiet(draft)
      BY <2>1, Ends
    <3> HIDE DEF t, r
    <3>2. Flow(y) /\ ~overlap => Joins(y, t) /\ Quiet(draft)
      BY <2>1, <2>3, <3>1 DEF Joins, Together
    <3>3. Sound(Append(t, y), draft, leads, overlap)
      BY <2>1, <2>4, <3>1, <3>2, AppendSound
    <3>4. QED
      BY <2>2, <2>5, <3>3 DEF OneInv, t
  <2>6. CASE runs' = Append(runs, y) /\ overlap' = TRUE
    <3>1. leads \subseteq leads /\ (overlap => TRUE)
      OBVIOUS
    <3>2. Sound(runs, draft, leads, TRUE)
      BY <1>2, <3>1, WeakerSound
    <3>3. Sound(Append(runs, y), draft, leads, TRUE)
      BY <2>1, <2>4, <3>2, AppendSound
    <3>4. QED
      BY <2>2, <2>6, <3>3 DEF OneInv
  <2>7. QED
    BY <2>2, <2>5, <2>6
<1>14. QED
  BY <1>1, <1>4, <1>7, <1>8, <1>9, <1>10, <1>12, <1>13

\* Runs of one save, or of no flow, that are made at once.
LEMMA ManySound ==
    ASSUME NEW s, NEW d, NEW found, NEW ov, Sound(s, d, found, ov), NEW x, Shaped(x),
           NEW n \in Nat, Flow(x) => x.kind = "save", Flow(x) /\ ~ov => Joins(x, s) /\ Quiet(d)
    PROVE  Sound(s \o [k \in 1..n |-> x], d, found, ov)
<1> DEFINE t == s \o [k \in 1..n |-> x]
<1>1. PICK S : s \in Seq(S)
  BY DEF Sound, AllShaped
<1>2. s \in Seq(S \cup {x}) /\ [k \in 1..n |-> x] \in Seq({x}) /\ Len([k \in 1..n |-> x]) = n
  BY <1>1
<1>3. [k \in 1..n |-> x] \in Seq(S \cup {x})
  BY <1>2
<1>4. t \in Seq(S \cup {x}) /\ Len(s) \in Nat
  BY <1>2, <1>3
<1>5. /\ DOMAIN s \subseteq DOMAIN t /\ DOMAIN s = 1..Len(s)
      /\ \A i \in DOMAIN s : t[i] = s[i]
      /\ \A i \in DOMAIN t \ DOMAIN s : i \in Nat /\ i > Len(s) /\ t[i] = x
  BY <1>2, <1>3
<1> HIDE DEF t
<1>6. AllShaped(t)
  BY <1>4, <1>5 DEF Sound, AllShaped
<1>7. ~ov => OneOfBoth(t, d)
  BY <1>5 DEF Sound, OneOfBoth, Quiet, Joins, Together
<1>8. ~ov => ResetsLater(t, found)
  BY <1>5 DEF Sound, ResetsLater
<1>9. \A j \in DOMAIN t : t[j].kind = "search" /\ Flow(t[j]) => t[j].root \in DOMAIN t
  BY <1>5 DEF Sound
<1>10. Sound(t, d, found, ov)
  BY <1>5, <1>6, <1>7, <1>8, <1>9 DEF Sound
<1>11. QED
  BY <1>10 DEF t

\* The hooks that queue one run after their own, or none.
LEMMA SoundHooks ==
    ASSUME OneInv, NEW i \in Ids,
           \/ AfterCreateProject(i) \/ AfterDemoAdd(i) \/ AfterOther(i) \/ Relaunch(i)
           \/ \E more \in BOOLEAN : AfterDemoArchive(i, more)
    PROVE  OneInv'
<1>1. runs[i].hook /\ UNCHANGED <<draft, leads, overlap>>
  BY DEF AfterDemoAdd, AfterOther, AfterCreateProject, AfterDemoArchive, Relaunch, Owed
<1>2. /\ Sound(Handled(i), draft, leads, overlap) /\ DOMAIN Handled(i) = DOMAIN runs
      /\ Flow(runs[i]) /\ ~overlap
           => /\ Joins(runs[i], Handled(i)) /\ Quiet(draft)
              /\ runs[i].kind # "save" => Quiet(Handled(i))
  BY <1>1, HandledSound
<1>3. ASSUME NEW x, Shaped(x), runs' = Append(Handled(i), x),
             Flow(x) => Flow(runs[i]) /\ (runs[i].kind # "save" \/ Together(runs[i], x)),
             x.kind = "search" /\ Flow(x) => x.root \in DOMAIN runs
      PROVE  OneInv'
  <2>1. Sound(Append(Handled(i), x), draft, leads, overlap)
    <3>1. Flow(x) /\ ~overlap => Joins(x, Handled(i)) /\ Quiet(draft)
      BY <1>2, <1>3 DEF Joins, Quiet, Together
    <3>2. QED
      BY <1>2, <1>3, <3>1, AppendSound
  <2>2. QED
    BY <1>1, <1>3, <2>1 DEF OneInv
<1>4. CASE runs' = Handled(i)
  BY <1>1, <1>2, <1>4 DEF OneInv
<1>5. CASE AfterDemoAdd(i) /\ runs' # Handled(i)
  <2> DEFINE x == Fresh("message", TRUE)
  <2>1. Shaped(x) /\ ~Flow(x) /\ x.kind # "search"
    BY DEF Fresh, Shaped, Fields, Flow, FlowKinds
  <2>2. runs' = Append(Handled(i), x)
    BY <1>5 DEF AfterDemoAdd
  <2> HIDE DEF x
  <2>3. QED
    BY <1>3, <2>1, <2>2
<1>6. CASE AfterOther(i)
  BY <1>4, <1>6 DEF AfterOther
<1>7. ASSUME AfterCreateProject(i), NEW p,
             runs' = Append(Handled(i), [Fresh("search", p) EXCEPT
                                !.t = runs[i].t, !.root = i])
      PROVE  OneInv'
  <2> DEFINE x == [Fresh("search", p) EXCEPT !.t = runs[i].t, !.root = i]
  <2>1. Shaped(x) /\ x.root = i
    BY DEF Fresh, Shaped, Fields
  <2>2. runs' = Append(Handled(i), x)
    BY <1>7
  <2>3. Flow(runs[i]) /\ runs[i].kind # "save"
    BY <1>1, <1>7 DEF AfterCreateProject, Owed, Flow, FlowKinds
  <2> HIDE DEF x
  <2>4. QED
    BY <1>3, <2>1, <2>2, <2>3 DEF Ids
<1>8. ASSUME NEW more \in BOOLEAN, AfterDemoArchive(i, more) PROVE OneInv'
  <2> DEFINE again == more /\ runs[i].rounds + 1 < DemoRounds
             n == IF again THEN runs[i].rounds + 1 ELSE runs[i].rounds
             kind == IF again THEN "demo_archive" ELSE "demo_add"
             x == [Fresh(kind, runs[i].project) EXCEPT !.send = runs[i].send, !.rounds = n]
  <2>1. Shaped(x) /\ x.kind = kind
    <3> HIDE DEF n, kind
    <3>1. QED
      BY DEF Fresh, Shaped, Fields
  <2>2. runs' = Append(Handled(i), x)
    BY <1>8 DEF AfterDemoArchive
  <2>3. kind \in {"demo_archive", "demo_add"}
    OBVIOUS
  <2> HIDE DEF x, kind
  <2>4. ~Flow(x) /\ x.kind # "search"
    BY <2>1, <2>3 DEF Flow, FlowKinds
  <2>5. QED
    BY <1>3, <2>1, <2>2, <2>4
<1>9. CASE AfterCreateProject(i)
  <2>1. PICK p : runs' = Append(Handled(i), [Fresh("search", p) EXCEPT
                                    !.t = runs[i].t, !.root = i])
    BY <1>9 DEF AfterCreateProject
  <2>2. QED
    BY <1>7, <1>9, <2>1
<1>10. CASE Relaunch(i)
  <2> DEFINE x == Clone(runs[i])
  <2>1. Shaped(runs[i]) /\ i \in DOMAIN runs
    BY DEF OneInv, Sound, AllShaped, Ids
  <2>2. Shaped(x) /\ x.kind = runs[i].kind /\ x.root = runs[i].root
    BY <2>1, CloneIsShaped
  <2>3. runs' = Append(Handled(i), x) /\ runs[i].hook /\ runs[i].status = "failed"
    BY <1>10 DEF Relaunch
  <2> HIDE DEF x
  <2>4. Flow(x) => Flow(runs[i])
    BY <2>2, <2>3 DEF Flow
  <2>5. runs[i].kind # "save" \/ Together(runs[i], x)
    BY <2>2 DEF Together
  <2>6. x.kind = "search" /\ Flow(x) => x.root \in DOMAIN runs
    BY <2>1, <2>2, <2>4 DEF OneInv, Sound
  <2>7. QED
    BY <1>3, <2>2, <2>3, <2>4, <2>5, <2>6
<1>11. QED
  BY <1>4, <1>5, <1>6, <1>8, <1>9, <1>10

\* A hook that raises leaves its flow, wherever it got.
LEMMA SoundHookFails ==
    ASSUME OneInv, NEW i \in Ids, HookFails(i)
    PROVE  OneInv'
<1> DEFINE r == runs[i]
<1>1. r.hook /\ UNCHANGED <<draft, overlap>> /\ runs' = Handled(i) /\ i \in DOMAIN runs
  BY DEF HookFails, Ids
<1>2. /\ Sound(Handled(i), draft, leads, overlap) /\ DOMAIN Handled(i) = DOMAIN runs
      /\ Flow(r) /\ ~overlap /\ r.kind # "save" => Quiet(Handled(i))
  BY <1>1, HandledSound
<1>3. CASE Owed(i, "search") /\ leads' = leads \cup {r.root}
  <2>1. Flow(r) /\ r.kind = "search"
    BY <1>3 DEF Owed, Flow, FlowKinds
  <2>2. r.root \in DOMAIN Handled(i)
    BY <1>1, <1>2, <2>1 DEF OneInv, Sound
  <2>3. Sound(Handled(i), draft, leads \cup {r.root}, overlap)
    BY <1>2, <2>1, <2>2, LeadSound
  <2>4. QED
    BY <1>1, <1>3, <2>3 DEF OneInv
<1>4. CASE leads' \subseteq leads
  <2>1. overlap => overlap
    OBVIOUS
  <2>2. Sound(Handled(i), draft, leads', overlap)
    BY <1>2, <1>4, <2>1, WeakerSound
  <2>3. QED
    BY <1>1, <2>2 DEF OneInv
<1>5. QED
  BY <1>3, <1>4 DEF HookFails, PushRecruiterLeads, PushResetLeads

\* Searching again goes on with the chain; settling ends it and saves, at most.
LEMMA SoundSearchHook ==
    ASSUME OneInv, NEW i \in Ids, NEW n \in Nat, NEW m \in Nat, AfterSearch(i, n, m)
    PROVE  OneInv'
<1> DEFINE r == runs[i]
           y == [Spent(r) EXCEPT !.result = Settled(r), !.final = TRUE]
           final == [runs EXCEPT ![i] = y]
           save == [Fresh("save", r.project) EXCEPT !.root = r.root]
           sweep == Fresh("archive", TRUE)
           saves == [k \in 1..n |-> save]
           sweeps == [k \in 1..m |-> sweep]
<1>1. /\ r.hook /\ r.kind = "search" /\ Flow(r) /\ UNCHANGED <<draft, overlap>>
      /\ i \in DOMAIN runs
  BY DEF AfterSearch, Owed, Flow, FlowKinds, Ids
<1>2. Shaped(r) /\ r.root \in DOMAIN runs
  BY <1>1 DEF OneInv, Sound, AllShaped
<1>3. CASE runs' = Append(Handled(i), Rerun(r)) /\ UNCHANGED leads
  <2>1. /\ Sound(Handled(i), draft, leads, overlap) /\ DOMAIN Handled(i) = DOMAIN runs
        /\ ~overlap => Quiet(Handled(i)) /\ Quiet(draft)
    BY <1>1, HandledSound
  <2>2. Shaped(Rerun(r)) /\ Rerun(r).root \in DOMAIN runs
    BY <1>2, RerunIsShaped
  <2>3. Sound(Append(Handled(i), Rerun(r)), draft, leads, overlap)
    <3>1. ~overlap => Joins(Rerun(r), Handled(i))
      BY <2>1 DEF Quiet, Joins
    <3>2. QED
      BY <2>1, <2>2, <3>1, AppendSound
  <2>4. QED
    BY <1>1, <1>3, <2>3 DEF OneInv
<1>4. CASE runs' = final \o saves \o sweeps /\ leads' \in {leads, leads \cup {r.root}}
  <2>1. Shaped(y) /\ y.kind = r.kind /\ ~Flow(y)
    <3>1. DOMAIN Spent(r) = Fields /\ Spent(r).hook = FALSE /\ Spent(r).kind = r.kind
          /\ Spent(r).status = "done"
      BY <1>1, <1>2 DEF AfterSearch, Owed, Shaped, Spent, Fields
    <3>2. DOMAIN y = Fields /\ y.hook = FALSE /\ y.kind = r.kind /\ y.status = "done"
      <4> HIDE DEF r
      <4>1. QED
        BY <3>1 DEF Fields
    <3> HIDE DEF y
    <3>3. QED
      BY <3>2 DEF Shaped, Flow, Live
  <2> HIDE DEF y
  <2>2. /\ Sound(final, draft, leads, overlap) /\ DOMAIN final = DOMAIN runs
        /\ ~overlap => Quiet(final) /\ Quiet(draft)
    BY <1>1, <2>1, Ends
  <2> HIDE DEF final
  <2>3. Sound(final, draft, leads \cup {r.root}, overlap)
    BY <1>2, <2>2, LeadSound
  <2>4. Sound(final, draft, leads', overlap)
    BY <1>4, <2>2, <2>3
  <2>5. /\ Shaped(save) /\ save.kind = "save"
        /\ Shaped(sweep) /\ sweep.kind = "archive"
    BY FreshIsShaped, SaveIsShaped
  <2> HIDE DEF save, sweep
  <2>6. ~Flow(sweep)
    BY <2>5 DEF Flow, FlowKinds
  <2>7. Sound(final \o saves, draft, leads', overlap)
    <3>1. ~overlap => Joins(save, final) /\ Quiet(draft)
      BY <2>2 DEF Joins, Quiet
    <3>2. QED
      BY <2>4, <2>5, <3>1, ManySound
  <2> HIDE DEF saves
  <2>8. Sound((final \o saves) \o sweeps, draft, leads', overlap)
    BY <2>5, <2>6, <2>7, ManySound
  <2>9. QED
    BY <1>1, <1>4, <2>8 DEF OneInv
<1>5. [Handled(i) EXCEPT ![i].result = Settled(r), ![i].final = TRUE] = final
  BY <1>1, FinalRuns
<1>6. QED
  <2>1. \/ runs' = Append(Handled(i), Rerun(r)) /\ UNCHANGED leads
        \/ /\ runs' = [Handled(i) EXCEPT ![i].result = Settled(r), ![i].final = TRUE]
                        \o saves \o sweeps
           /\ leads' \in {leads, leads \cup {r.root}}
    BY DEF AfterSearch, PushRecruiterLeads
  <2> HIDE DEF final, saves, sweeps
  <2>2. QED
    BY <1>3, <1>4, <1>5, <2>1

\* A reset wipes what may be wiped, and begins the next chain in its own place.
LEMMA SoundResetHook ==
    ASSUME OneInv, NEW i \in Ids, NEW built \in BOOLEAN, AfterResetArchive(i, built)
    PROVE  OneInv'
<1> DEFINE x == [Fresh("create", FALSE) EXCEPT !.t = StartTightness]
<1>1. runs[i].hook /\ leads' \subseteq leads
  BY DEF AfterResetArchive, PushResetLeads, Owed
<1>2. /\ Sound(Handled(i), draft, leads, overlap)
      /\ DOMAIN Handled(i) = DOMAIN runs /\ ~Flow(Handled(i)[i])
      /\ \A j \in DOMAIN runs : j # i => Handled(i)[j] = runs[j]
  BY <1>1, HandledSound
<1>3. Sound(Handled(i), draft, leads', overlap)
  <2>1. overlap => overlap
    OBVIOUS
  <2>2. QED
    BY <1>1, <1>2, <2>1, WeakerSound
<1>4. CASE Start(Handled(i), {i}, FALSE)
  <2>1. Shaped(x) /\ x.kind # "search"
    BY DEF Fresh, Shaped, Fields
  <2>2. /\ Enqueue(Handled(i), x) /\ overlap' = (overlap \/ Overlaps({i})) /\ MayStart
    BY <1>4 DEF Start
  <2> HIDE DEF x
  <2>3. ~Overlaps({i}) => Quiet(Handled(i))
    <3> SUFFICES ASSUME ~Overlaps({i}), NEW j \in DOMAIN Handled(i) PROVE ~Flow(Handled(i)[j])
      BY DEF Quiet
    <3>1. CASE j = i
      BY <1>2, <3>1
    <3>2. CASE j # i
      <4>1. Handled(i)[j] = runs[j] /\ j \in Ids
        BY <1>2, <3>2 DEF Ids
      <4>2. ~runs[j].hook /\ ~(Active(j) /\ runs[j].kind \in Kinds)
        BY <2>2, <3>2, <4>1 DEF Overlaps, MayStart, SomeActive
      <4>3. QED
        BY <4>1, <4>2 DEF Flow, FlowKinds, Kinds, Active
    <3>3. QED
      BY <3>1, <3>2
  <2>4. Sound(runs', draft', leads', overlap')
    BY <1>3, <2>1, <2>2, <2>3, BeginSound
  <2>5. QED
    BY <2>4 DEF OneInv
<1>5. CASE runs' = Handled(i) /\ UNCHANGED <<draft, overlap>>
  BY <1>3, <1>5 DEF OneInv
<1>6. QED
  BY <1>4, <1>5 DEF AfterResetArchive

LEMMA SoundRestart ==
    ASSUME OneInv, BackendRestart
    PROVE  OneInv'
<1>1. Sound(runs, draft, leads, overlap)
  BY DEF OneInv
<1>2. DOMAIN runs' = DOMAIN runs /\ runs' = [j \in DOMAIN runs |-> runs'[j]]
  BY DEF BackendRestart, Ids
<1>3. PICK S : runs \in Seq(S)
  BY <1>1 DEF Sound, AllShaped
<1>4. \E T : runs' \in Seq(T)
  <2> DEFINE T == {runs'[j] : j \in DOMAIN runs}
  <2>1. DOMAIN runs = 1..Len(runs) /\ Len(runs) \in Nat
    BY <1>3
  <2>2. runs' \in [1..Len(runs) -> T]
    BY <1>2, <2>1
  <2>3. runs' \in Seq(T)
    BY <2>1, <2>2
  <2>4. QED
    BY <2>3
<1>5. ASSUME NEW j \in DOMAIN runs
      PROVE  /\ Shaped(runs'[j]) /\ runs'[j].kind = runs[j].kind
             /\ Flow(runs'[j]) => Flow(runs[j]) /\ runs'[j].root = runs[j].root
  <2>1. Shaped(runs[j])
    BY <1>1 DEF Sound, AllShaped
  <2>2. CASE runs[j].hook
    <3>1. runs'[j] = Spent(runs[j])
      BY <2>2 DEF BackendRestart, Ids
    <3>2. QED
      BY <2>1, <2>2, <3>1, SpentIsShaped
  <2>3. CASE ~runs[j].hook
    BY <2>1, <2>3 DEF BackendRestart, Ids
  <2>4. QED
    BY <2>2, <2>3
<1>6. Sound(runs', draft, leads, overlap)
  BY <1>1, <1>2, <1>4, <1>5, LeaveSound
<1>7. Sound(runs', <<>>, leads, overlap)
  BY <1>6, CommitSound
<1>8. QED
  BY <1>7 DEF OneInv, BackendRestart

LEMMA SoundInit == Init => OneInv
<1> SUFFICES ASSUME Init PROVE OneInv
  OBVIOUS
<1> DEFINE x == [Fresh("save", TRUE) EXCEPT !.status = "done"]
<1>1. runs \in {<<>>, <<x>>} /\ leads = DOMAIN runs /\ draft = <<>>
  BY DEF Init
<1>2. Shaped(x) /\ ~Flow(x) /\ x.kind = "save"
  BY DEF Fresh, Shaped, Fields, Flow, Live
<1> HIDE DEF x
<1>3. runs \in Seq({x}) /\ \A i \in DOMAIN runs : runs[i] = x
  <2>1. CASE runs = <<>>
    BY <2>1
  <2>2. CASE runs = <<x>>
    <3>1. runs \in Seq({x}) /\ DOMAIN runs = {1}
      BY <2>2
    <3>2. QED
      BY <2>2, <3>1
  <2>3. QED
    BY <1>1, <2>1, <2>2
<1>4. AllShaped(runs)
  BY <1>2, <1>3 DEF AllShaped
<1>5. AllShaped(draft) /\ DOMAIN draft = {}
  BY <1>1, <1>2, OneIsShaped
<1>6. OneOfBoth(runs, draft) /\ ResetsLater(runs, leads)
  BY <1>2, <1>3, <1>5 DEF OneOfBoth, ResetsLater, Quiet
<1>7. QED
  BY <1>1, <1>2, <1>3, <1>4, <1>5, <1>6 DEF OneInv, Sound

LEMMA SoundStep == OneInv /\ [Next]_vars => OneInv'
<1> SUFFICES ASSUME OneInv, [Next]_vars PROVE OneInv'
  OBVIOUS
<1>1. CASE Requests \/ Commit
  BY <1>1, SoundRequests
<1>2. CASE Daemon
  BY <1>2, SoundDaemon
<1>3. CASE Hooks
  <2>1. PICK i \in Ids :
          \/ \/ AfterCreateProject(i) \/ AfterDemoAdd(i) \/ AfterOther(i) \/ Relaunch(i)
             \/ \E more \in BOOLEAN : AfterDemoArchive(i, more)
          \/ HookFails(i)
          \/ \E built \in BOOLEAN : AfterResetArchive(i, built)
          \/ \E saves, sweeps \in 0..MaxRuns : AfterSearch(i, saves, sweeps)
    BY <1>3 DEF Hooks
  <2>2. 0..MaxRuns \subseteq Nat
    OBVIOUS
  <2>3. QED
    BY <2>1, <2>2, SoundHooks, SoundHookFails, SoundResetHook, SoundSearchHook
<1>4. CASE BackendRestart
  BY <1>4, SoundRestart
<1>5. CASE UNCHANGED vars
  BY <1>5 DEF vars, OneInv
<1>6. QED
  BY <1>1, <1>2, <1>3, <1>4, <1>5 DEF Next

--------------------------------------------------------------------------------
\* As long as no two decisions overlap, a position has one flow at a time: the
\* check of start (_no_active_pipeline) and the order of the terminal hooks
\* (advance) keep chains and resets apart, through failed runs and restarts of
\* the backend.
THEOREM OneFlowAtATime == Spec => []OneFlow
<1>1. Init => OneInv
  BY SoundInit
<1>2. OneInv /\ [Next]_vars => OneInv'
  BY SoundStep
<1>3. OneInv => OneFlow
  <2> SUFFICES ASSUME OneInv, ~overlap, NEW i \in Ids, NEW j \in Ids,
                      \A k \in {i, j} :
                          /\ runs[k].kind \in FlowKinds
                          /\ \/ Active(k)
                             \/ runs[k].hook /\ (runs[k].kind = "save" => runs[k].status = "failed")
               PROVE  i = j \/ Together(runs[i], runs[j])
    BY DEF OneFlow, FlowKinds, Together
  <2>1. Flow(runs[i]) /\ Flow(runs[j])
    BY DEF Flow, Active
  <2>2. QED
    BY <2>1 DEF OneInv, Sound, OneOfBoth, Ids
<1>4. QED
  BY <1>1, <1>2, <1>3, PTL DEF Spec

\* Only the archive of a reset wipes leads.
LEMMA OnlyResetsWipe ==
    ASSUME OneInv, Next, leads' = {}, NEW c \in leads
    PROVE  \E i \in Ids : Owed(i, "reset")
<1>1. leads' # leads
  OBVIOUS
<1>2. CASE Requests
  BY <1>1, <1>2 DEF Requests, Webhook, StartManual, Reconcile, Reset, SaveRecommendations,
                    StartDemo
<1>3. CASE Commit \/ BackendRestart
  BY <1>1, <1>3 DEF Commit, BackendRestart
<1>4. CASE Daemon
  BY <1>1, <1>4 DEF Daemon, Claim, Perform, Fail, MeetWall, LetGo, Resume, Requeue, Search
<1>5. CASE Hooks
  <2>1. PICK i \in Ids :
          \/ AfterCreateProject(i) \/ AfterDemoAdd(i) \/ AfterOther(i) \/ Relaunch(i)
          \/ HookFails(i)
          \/ \E built \in BOOLEAN : AfterResetArchive(i, built)
          \/ \E more \in BOOLEAN : AfterDemoArchive(i, more)
          \/ \E saves, sweeps \in 0..MaxRuns : AfterSearch(i, saves, sweeps)
    BY <1>5 DEF Hooks
  <2>2. ASSUME NEW saves, NEW sweeps
        PROVE  ~AfterSearch(i, saves, sweeps)
    BY <1>1 DEF AfterSearch, PushRecruiterLeads
  <2>3. ~AfterCreateProject(i) /\ ~AfterDemoAdd(i) /\ ~AfterOther(i) /\ ~Relaunch(i)
    BY <1>1 DEF AfterCreateProject, AfterDemoAdd, AfterOther, Relaunch
  <2>4. ASSUME NEW more \in BOOLEAN
        PROVE  ~AfterDemoArchive(i, more)
    BY <1>1 DEF AfterDemoArchive
  <2>5. CASE HookFails(i)
    BY <1>1, <2>5 DEF HookFails, PushRecruiterLeads
  <2>6. CASE \E built \in BOOLEAN : AfterResetArchive(i, built)
    BY <2>6 DEF AfterResetArchive
  <2>7. QED
    BY <2>1, <2>2, <2>3, <2>4, <2>5, <2>6
<1>6. QED
  BY <1>2, <1>3, <1>4, <1>5 DEF Next

\* What a reset wipes was found by chains that began before it: while the reset
\* is under way no chain is, and none of a later chain's people are leads
\* (the docstring of _after_reset_archive).
THEOREM FreshLeadsStay == Spec => WipesNoFresh
<1>1. Init => OneInv
  BY SoundInit
<1>2. OneInv /\ [Next]_vars => OneInv'
  BY SoundStep
<1>3. OneInv /\ [Next]_vars
        => [~overlap /\ leads' = {} =>
              \A c \in leads : \E i \in Ids : Owed(i, "reset") /\ c < i]_vars
  <2> SUFFICES ASSUME OneInv, Next, ~overlap, leads' = {}, NEW c \in leads
               PROVE  \E i \in Ids : Owed(i, "reset") /\ c < i
    OBVIOUS
  <2>1. PICK i \in Ids : Owed(i, "reset")
    BY OnlyResetsWipe
  <2>2. runs[i].kind = "reset" /\ Flow(runs[i]) /\ i \in DOMAIN runs
    BY <2>1 DEF Owed, Flow, FlowKinds, Ids
  <2>3. c < i
    BY <2>2 DEF OneInv, Sound, ResetsLater
  <2>4. QED
    BY <2>1, <2>3
<1>4. QED
  BY <1>1, <1>2, <1>3, PTL DEF Spec, WipesNoFresh
================================================================================
