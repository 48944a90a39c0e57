-------------------------------- MODULE Sourcing --------------------------------
(***************************************************************************)
(* The sourcing of one position.  A webhook, the reconcile pass, a person  *)
(* or a reset starts a chain of runs on the seat: create the LinkedIn      *)
(* project, search (again, tighter or broader, until the number of people  *)
(* is usable), save the people.  The terminal hooks of                     *)
(* RecruiterPipelineService queue each next run.  Recommendations, a demo  *)
(* and archives of blocked people come in between.  A run that met a wall, *)
(* or was orphaned, is cloned without a look at what else is active.       *)
(*                                                                         *)
(* A request checks what is active, asks Odoo and the AI, and commits its  *)
(* run later: draft is such a decision, one at a time (bound).             *)
(*                                                                         *)
(* queued: the daemon may take the run up (also one that is running, or    *)
(* recovering, and that nobody drives); running: it drives the run;        *)
(* paused: waiting_for_user.                                               *)
(***************************************************************************)
EXTENDS Integers, Sequences, FiniteSets

CONSTANTS Counts,           \* how many people a search may find
          BandMin,          \* recruiter_count_band_min
          AcceptableMax,    \* recruiter_count_acceptable_max
          MinConvergence,   \* recruiter_count_min_convergence, in percent
          StartTightness,   \* recruiter_search_start_tightness
          MaxTightness,     \* of the position's boolean
          MaxReruns,        \* recruiter_max_search_reruns
          DemoRounds,       \* recruiter_demo_archive_rounds
          MaxRuns           \* bound: runs of the position

ASSUME SourcingAssumption ==
    /\ Counts \subseteq Nat /\ StartTightness \in 0..MaxTightness
    /\ {BandMin, AcceptableMax, MinConvergence, MaxTightness, MaxReruns,
        DemoRounds, MaxRuns} \subseteq Nat

\* A count that the page did not show; the tightness of a manual boolean.
None == -1

VARIABLES runs,     \* the runs of the position, in the order of created_at
          draft,    \* a run that a slow request has decided on, or <<>>
          leads,    \* Odoo: the chains (their first runs) whose people are leads
          overlap   \* history: a run was decided on, or cloned, beside another flow

vars == <<runs, draft, leads, overlap>>

Ids == DOMAIN runs
Live == {"queued", "running", "paused"}
Active(i) == runs[i].status \in Live
SomeActive(kinds) == \E i \in Ids : Active(i) /\ runs[i].kind \in kinds

Kinds == {"create", "search", "save", "recommend", "archive", "message",
          "demo_archive", "demo_add", "reset"}
\* A run of the position.  project: its context names a project_url; root: the
\* first run of its chain; found: an earlier search of the chain found people;
\* result: what the last one settled for.
Fresh(kind, project) ==
    [kind |-> kind, status |-> "queued", hook |-> FALSE, project |-> project,
     root |-> 0, t |-> None, reruns |-> 0, prev |-> None, best |-> 0,
     count |-> None, found |-> FALSE, result |-> None, final |-> FALSE,
     rounds |-> 0, send |-> FALSE]

\* A run whose hook is past keeps what is still read of it.
Spent(r) == [r EXCEPT !.hook = FALSE, !.root = 0, !.t = None, !.reruns = 0,
                      !.prev = None, !.best = 0, !.rounds = 0, !.send = FALSE]

\* relaunch: the same plan and origin, queued.
Clone(r) == [r EXCEPT !.status = "queued", !.hook = FALSE]

\* A new position, or one that was sourced before: its last run was a save.
Init ==
    /\ runs \in {<<>>, <<[Fresh("save", TRUE) EXCEPT !.status = "done"]>>}
    /\ leads = DOMAIN runs /\ overlap = FALSE
    /\ draft = <<>>

HasRoom(n) == Len(runs) + Len(draft) + n <= MaxRuns

\* The decision is committed at once, or it stays a draft for a while.
Enqueue(base, r) ==
    \/ runs' = Append(base, r) /\ UNCHANGED draft
    \/ draft = <<>> /\ draft' = <<r>> /\ runs' = base

Commit ==
    /\ draft # <<>>
    /\ runs' = runs \o draft /\ draft' = <<>>
    /\ UNCHANGED <<leads, overlap>>

\* _gather_job_context: a run of the position names the project.
Context == \E i \in Ids : runs[i].project

\* A decision overlaps when another one, or the hook of another run, is under way.
Overlaps(mine) == draft # <<>> \/ \E i \in Ids \ mine : runs[i].hook
--------------------------------------------------------------------------------
\* Mutant: a save, or what else is under way, does not hold a start back.
MayStartSaving == ~SomeActive({"create", "search", "reset"})

\* Mutant: a reset does not hold a start back.
MayStartReset == ~SomeActive(Kinds \ {"reset"})

\* The guard of start: no run of the position is active, whatever its kind.
MayStart == ~SomeActive(Kinds)

\* start, with a boolean of the AI or of a person (no tightness to calibrate).
\* An AI that is out of quota starts nothing.
Start(base, mine, manual) ==
    /\ MayStart /\ HasRoom(1)
    /\ Enqueue(base, [Fresh("create", FALSE) EXCEPT !.t = IF manual THEN None ELSE StartTightness])
    /\ overlap' = (overlap \/ Overlaps(mine))

Webhook == Start(runs, {}, FALSE) /\ UNCHANGED leads

StartManual == Start(runs, {}, TRUE) /\ UNCHANGED leads

\* A pass over the open positions starts the one that no run carries.
Reconcile == runs = <<>> /\ Webhook

\* reset_and_research: archive the known project, or start over.
Reset ==
    \/ ~Context /\ Webhook
    \/ /\ Context /\ MayStart /\ HasRoom(1)
       /\ Enqueue(runs, Fresh("reset", TRUE))
       /\ overlap' = (overlap \/ Overlaps({}))
       /\ UNCHANGED leads

SaveRecommendations ==
    /\ Context /\ HasRoom(1) /\ ~SomeActive({"recommend"})
    /\ Enqueue(runs, Fresh("recommend", TRUE))
    /\ UNCHANGED <<leads, overlap>>

\* start_demo asks nothing of the other runs.
StartDemo(send) ==
    /\ Context /\ HasRoom(1)
    /\ Enqueue(runs, [Fresh("demo_archive", TRUE) EXCEPT !.send = send])
    /\ UNCHANGED <<leads, overlap>>

Requests ==
    \/ Webhook \/ StartManual \/ Reconcile \/ Reset \/ SaveRecommendations
    \/ \E send \in BOOLEAN : StartDemo(send)
--------------------------------------------------------------------------------
\* The daemon on the seat.  Archives of blocked people come last.
Before(i, j) ==
    \/ runs[i].kind # "archive" /\ runs[j].kind = "archive"
    \/ (runs[i].kind = "archive" <=> runs[j].kind = "archive") /\ i < j

Claim(i) ==
    /\ \A j \in Ids : runs[j].status # "running"
    /\ runs[i].status = "queued"
    /\ \A j \in Ids : runs[j].status = "queued" => ~Before(j, i)
    /\ runs' = [runs EXCEPT ![i].status = "running"]
    /\ UNCHANGED <<draft, leads, overlap>>

Done(r) == [r EXCEPT !.status = "done", !.hook = TRUE]

Search(i, count) ==
    /\ runs[i].status = "running" /\ runs[i].kind = "search"
    /\ runs' = [runs EXCEPT ![i] = Done([@ EXCEPT !.count = count])]
    /\ UNCHANGED <<draft, leads, overlap>>

\* Projects, saves, archives, additions and messages leave no trace that is
\* read here.
Perform(i) ==
    /\ runs[i].status = "running" /\ runs[i].kind # "search"
    /\ runs' = [runs EXCEPT ![i] = Done(@)]
    /\ UNCHANGED <<draft, leads, overlap>>

\* A stage's verdict, the watchdog, a cancellation, the end of a resumed run.
Fail(i) ==
    /\ Active(i)
    /\ runs' = [runs EXCEPT ![i] = [Spent(@) EXCEPT !.status = "failed"]]
    /\ UNCHANGED <<draft, leads, overlap>>

\* The run met a wall: a hook is to clone it.
MeetWall(i) ==
    /\ runs[i].status = "running"
    /\ runs' = [runs EXCEPT ![i].status = "failed", ![i].hook = TRUE]
    /\ UNCHANGED <<draft, leads, overlap>>

\* The run waits for a person, or the daemon is cut off and will attach again.
LetGo(i) ==
    /\ runs[i].status = "running"
    /\ \E status \in {"paused", "queued"} : runs' = [runs EXCEPT ![i].status = status]
    /\ UNCHANGED <<draft, leads, overlap>>

Resume(i) ==
    /\ runs[i].status = "paused"
    /\ runs' = [runs EXCEPT ![i].status = "queued"]
    /\ UNCHANGED <<draft, leads, overlap>>

\* The supervisor clones the run of a seat that fell silent, and cancels it: or
\* that fails, or comes after the daemon's return, and both are active.
Requeue(i) ==
    /\ runs[i].status = "running" /\ HasRoom(1)
    /\ \/ /\ runs' = Append([runs EXCEPT ![i] = [Spent(@) EXCEPT !.status = "failed"]],
                             Clone(runs[i]))
          /\ UNCHANGED overlap
       \/ runs' = Append(runs, Clone(runs[i])) /\ overlap' = TRUE
    /\ UNCHANGED <<draft, leads>>

Daemon ==
    \E i \in Ids :
        \/ Claim(i) \/ Perform(i) \/ Fail(i) \/ MeetWall(i)
        \/ LetGo(i) \/ Resume(i) \/ Requeue(i)
        \/ \E count \in Counts \cup {None} : Search(i, count)
--------------------------------------------------------------------------------
\* The terminal hooks (advance), each after the commit of its run.
Owed(i, kind) == runs[i].hook /\ runs[i].status = "done" /\ runs[i].kind = kind
Handled(i) == [runs EXCEPT ![i] = Spent(@)]

\* Odoo may be out of reach: then no address is known, no lead is made or wiped.
PushProjectLink == BOOLEAN
PushRecruiterLeads(chain) == {leads, leads \cup {chain}}
PushResetLeads == {leads, {}}

\* The search run inherits the project's address if Odoo could be told of it.
AfterCreateProject(i) ==
    LET r == runs[i]
        Searching(project) ==
            [Fresh("search", project) EXCEPT !.t = r.t, !.root = i]
    IN  /\ Owed(i, "create") /\ HasRoom(1)
        /\ \E project \in PushProjectLink :
               runs' = Append(Handled(i), Searching(project))
        /\ UNCHANGED <<draft, leads, overlap>>

Converging(r) ==
    r.prev <= 0 \/ 100 * (r.prev - r.count) >= MinConvergence * r.prev

\* The tightness to try next: that of the run itself if it should not try again.
NextTightness(r) ==
    LET t == IF r.count > AcceptableMax /\ Converging(r) THEN r.t + 1
             ELSE IF r.count < BandMin THEN r.t - 1 ELSE r.t
    IN  IF r.t = None \/ r.count = None \/ r.reruns >= MaxReruns
           \/ t \notin 0..MaxTightness THEN r.t ELSE t

\* Mutant: only a count within the band is remembered.
BestInBand(r) == IF r.count \in BandMin..AcceptableMax THEN r.count ELSE r.best

\* best_search: the latest search of the chain that found people.
Best(r) == IF r.count > 0 THEN r.count ELSE r.best

Rerun(r) ==
    [Fresh("search", r.project) EXCEPT
        !.t = NextTightness(r), !.reruns = r.reruns + 1, !.prev = r.count,
        !.best = Best(r), !.root = r.root,
        !.found = r.found \/ r.count > 0]

\* An unusable count falls back to the best search before it.
Settled(r) == IF r.best > 0 /\ r.count < BandMin THEN r.best ELSE r.count

\* The people found become leads.  They are saved by one run, in bulk, or by one
\* run for each; blocked people that a bulk save takes along are archived after.
AfterSearch(i, saves, sweeps) ==
    LET r == runs[i]
        final == [Handled(i) EXCEPT ![i].result = Settled(r), ![i].final = TRUE]
        save == [Fresh("save", r.project) EXCEPT !.root = r.root]
    IN  /\ Owed(i, "search")
        /\ IF NextTightness(r) # r.t
           THEN /\ HasRoom(1) /\ saves = 0 /\ sweeps = 0
                /\ runs' = Append(Handled(i), Rerun(r)) /\ UNCHANGED leads
           ELSE /\ saves > 0 => Settled(r) # 0
                /\ sweeps > 0 => saves = 1 /\ (r.project \/ Context)
                /\ HasRoom(saves + sweeps)
                /\ runs' = final \o [k \in 1..saves |-> save]
                                 \o [k \in 1..sweeps |-> Fresh("archive", TRUE)]
                /\ leads' \in IF Settled(r) # 0 THEN PushRecruiterLeads(r.root) ELSE {leads}
        /\ UNCHANGED <<draft, overlap>>

\* The leads are wiped, then the chain starts again: unless a run is active or
\* the AI is out of quota.
AfterResetArchive(i, built) ==
    /\ Owed(i, "reset")
    /\ leads' \in PushResetLeads
    /\ IF MayStart /\ built
       THEN Start(Handled(i), {i}, FALSE)
       ELSE runs' = Handled(i) /\ UNCHANGED <<draft, overlap>>

\* Archive again while people are left and rounds too, then add the demo profile.
AfterDemoArchive(i, more) ==
    LET r == runs[i]
        again == more /\ r.rounds + 1 < DemoRounds
        next == [Fresh(IF again THEN "demo_archive" ELSE "demo_add", r.project) EXCEPT
                    !.send = r.send, !.rounds = IF again THEN r.rounds + 1 ELSE r.rounds]
    IN  /\ Owed(i, "demo_archive") /\ HasRoom(1)
        /\ runs' = Append(Handled(i), next)
        /\ UNCHANGED <<draft, leads, overlap>>

\* The demo's message is a send like any other: deferred or collapsed.
AfterDemoAdd(i) ==
    LET sends == runs[i].send /\ Context /\ ~SomeActive({"archive", "message"})
    IN  /\ Owed(i, "demo_add")
        /\ IF sends THEN HasRoom(1) /\ runs' = Append(Handled(i), Fresh("message", TRUE))
           ELSE runs' = Handled(i)
        /\ UNCHANGED <<draft, leads, overlap>>

\* The recommended people become leads (their chain is the context's); no run
\* follows a save, and those of messages and archives are another module's.
AfterOther(i) ==
    /\ \E kind \in {"save", "recommend", "archive", "message"} : Owed(i, kind)
    /\ runs' = Handled(i)
    /\ UNCHANGED <<draft, leads, overlap>>

\* A walled run is cloned, whatever else is active.
Relaunch(i) ==
    /\ runs[i].hook /\ runs[i].status = "failed" /\ HasRoom(1)
    /\ runs' = Append(Handled(i), Clone(runs[i]))
    /\ UNCHANGED <<draft, leads, overlap>>

\* The hook raises, after it told Odoo or before, and that is only logged; or
\* the run was cloned too often (MAX_AUTO_RELAUNCH).
HookFails(i) ==
    /\ runs[i].hook /\ runs' = Handled(i)
    /\ leads' \in IF Owed(i, "search") /\ Settled(runs[i]) # 0
                  THEN PushRecruiterLeads(runs[i].root)
                  ELSE IF Owed(i, "reset") THEN PushResetLeads ELSE {leads}
    /\ UNCHANGED <<draft, overlap>>

Hooks ==
    \E i \in Ids :
        \/ AfterCreateProject(i) \/ AfterDemoAdd(i) \/ AfterOther(i)
        \/ Relaunch(i) \/ HookFails(i)
        \/ \E built \in BOOLEAN : AfterResetArchive(i, built)
        \/ \E more \in BOOLEAN : AfterDemoArchive(i, more)
        \/ \E saves, sweeps \in 0..MaxRuns : AfterSearch(i, saves, sweeps)

\* Hooks and drafts live in requests, which a restart of the backend ends.
BackendRestart ==
    /\ draft # <<>> \/ (\E i \in Ids : runs[i].hook)
    /\ draft' = <<>>
    /\ runs' = [i \in Ids |-> IF runs[i].hook THEN Spent(runs[i]) ELSE runs[i]]
    /\ UNCHANGED <<leads, overlap>>

Next == Requests \/ Commit \/ Daemon \/ Hooks \/ BackendRestart

Spec == Init /\ [][Next]_vars
--------------------------------------------------------------------------------
Tightness == 0..MaxTightness \cup {None}

Run == [kind : Kinds, status : Live \cup {"done", "failed"},
        hook : BOOLEAN, project : BOOLEAN, root : Nat, t : Tightness,
        reruns : 0..MaxReruns, prev : Counts \cup {None}, best : Counts \cup {0},
        count : Counts \cup {None}, found : BOOLEAN, result : Counts \cup {None},
        final : BOOLEAN, rounds : 0..DemoRounds, send : BOOLEAN]

\* The calibration stays within its reruns and the boolean's range, the demo
\* within its rounds.
TypeOK ==
    /\ runs \in Seq(Run) /\ Len(runs) <= MaxRuns
    /\ draft \in Seq(Run) /\ Len(draft) <= 1
    /\ leads \subseteq Ids /\ overlap \in BOOLEAN

\* One position, one flow: as long as no two decisions overlap, at most one run
\* of a sourcing chain or a reset is active or has its hook still to come, but
\* for the saves of one search.
OneFlow ==
    ~overlap =>
        \A i, j \in Ids :
            (\A k \in {i, j} :
                /\ runs[k].kind \in {"create", "search", "save", "reset"}
                /\ \/ Active(k)
                   \/ runs[k].hook /\ (runs[k].kind = "save" => runs[k].status = "failed"))
            => \/ i = j
               \/ /\ runs[i].kind = "save" /\ runs[j].kind = "save"
                  /\ runs[i].root = runs[j].root

\* The docstring of _after_reset_archive: "we never wipe fresh leads".  What a
\* reset wipes was found by a chain that began before it, as long as no two
\* decisions overlap.
WipesNoFresh ==
    [][~overlap /\ leads' = {} =>
          \A c \in leads : \E i \in Ids : Owed(i, "reset") /\ c < i]_vars

\* A chain that ends without people never found any: a search that was
\* tightened too far gives way to one that had results.
NeverEmptyHanded ==
    \A i \in Ids : runs[i].final /\ runs[i].result <= 0 => ~runs[i].found
================================================================================
