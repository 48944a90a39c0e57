-------------------------------- MODULE SeatRuns ---------------------------------
(***************************************************************************)
(* The recruiter runs that need the one warm LinkedIn seat, and everyone   *)
(* who acts on them: the driver daemon of the seat's host, the backend's   *)
(* terminal hooks and relaunches, the recovery supervisor, and people.     *)
(*                                                                         *)
(* A run that fails on the seat's login wall, or whose host powers off, is *)
(* cloned back into the queue.  A run and its clones carry the same work.  *)
(* Requests on one run are serial here: RunSessions has their interleaving.*)
(* What is split is what the code commits separately: a terminal status    *)
(* and its hook; a requeued clone and the cancel of its original.          *)
(***************************************************************************)
EXTENDS Naturals, FiniteSets

CONSTANTS NWorks,           \* pieces of work queued at the start
          MaxRuns,          \* bound on the rows of execution_runs
          MaxRelaunch,      \* MAX_AUTO_RELAUNCH
          MaxResumes,       \* MAX_AUTO_RESUMES_PER_RUN
          Disturbances      \* what may happen: see DisturbancesAssumption

VARIABLES runs,             \* [Runs -> the row of the run]
          hooks,            \* runs whose terminal hook the backend still owes
          requeue,          \* the supervisor's requeue in progress
          resumes,          \* [Runs -> automatic resumes], in backend memory
          beats,            \* the backend holds a heartbeat younger than its TTL
          daemon,           \* the daemon process: up, driving, gate
          seat,             \* whether LinkedIn lets the seat in
          advanced,         \* history: [Works -> times the pipeline advanced]
          surfaced,         \* history: works a person was shown to have failed
          missed,           \* history: runs whose hook raised, or was forgotten
          crossed           \* history: works that two actors took up at once

daemonVars == <<beats, daemon>>
backendVars == <<requeue, resumes>>
endVars == <<advanced, surfaced>>
historyVars == <<advanced, surfaced, missed, crossed>>
vars == <<runs, hooks, requeue, resumes, beats, daemon, seat,
          advanced, surfaced, missed, crossed>>

ASSUME BoundsAssumption ==
    /\ NWorks \in Nat \ {0}
    /\ MaxRuns \in Nat
    /\ NWorks <= MaxRuns
    /\ MaxRelaunch \in Nat
    /\ MaxResumes \in Nat

ASSUME DisturbancesAssumption ==
    Disturbances \subseteq {"power_off", "backend_restart", "lost_report", "lost_beats",
                            "failed_call", "hot_reload", "supervisor", "person"}

Runs == 1..MaxRuns
Works == 1..NWorks
NoRun == 0

Status == {"absent", "queued", "running", "waiting_for_user",
           "completed", "failed", "canceled"}
Live == {"queued", "running", "waiting_for_user"}

\* fault: what error_summary says.  extracted: extracted_data is not empty.
\* emptied: no step is left.  quiet: no event for STUCK_THRESHOLD_SECONDS.
\* patched: the newest event is the supervisor's.
Row == [status : Status, work : Works, tries : 0..MaxRelaunch,
        fault : {"none", "walled", "stage"}, extracted : BOOLEAN,
        emptied : BOOLEAN, quiet : BOOLEAN, patched : BOOLEAN]

TypeOK ==
    /\ runs \in [Runs -> Row]
    /\ hooks \in SUBSET Runs
    /\ requeue \in [run : Runs \cup {NoRun}, cloned : BOOLEAN]
    /\ resumes \in [Runs -> 0..MaxResumes]
    /\ beats \in BOOLEAN
    /\ daemon \in [up : BOOLEAN, driving : Runs \cup {NoRun},
                   gate : {"booted", "reloaded", "lapsed", "warm", "cold"}]
    /\ seat \in {"warm", "walled"}
    /\ advanced \in [Works -> Nat]
    /\ surfaced \in SUBSET Works
    /\ missed \in SUBSET Runs
    /\ crossed \in SUBSET Works

Queued(w, n) ==
    [status |-> "queued", work |-> w, tries |-> n, fault |-> "none",
     extracted |-> FALSE, emptied |-> FALSE, quiet |-> FALSE, patched |-> FALSE]

NoRequeue == [run |-> NoRun, cloned |-> FALSE]

\* Work has been queued; the host is up, its keepalive has not spoken yet.
Init ==
    /\ runs = [r \in Runs |-> IF r \in Works THEN Queued(r, 0)
                              ELSE [Queued(1, 0) EXCEPT !.status = "absent"]]
    /\ hooks = {}
    /\ requeue = NoRequeue
    /\ resumes = [r \in Runs |-> 0]
    /\ beats = FALSE
    /\ daemon = [up |-> TRUE, driving |-> NoRun, gate |-> "booted"]
    /\ seat \in {"warm", "walled"}
    /\ advanced = [w \in Works |-> 0]
    /\ surfaced = {}
    /\ missed = {}
    /\ crossed = {}

--------------------------------------------------------------------------------
(* The rows.                                                               *)

\* An event is appended with every change of a run.
Touched(row, st) == [row EXCEPT !.status = st, !.quiet = FALSE, !.patched = FALSE]

Becomes(r, st) == runs' = [runs EXCEPT ![r] = Touched(@, st)]

FailsWithoutHook(r, fault) ==   \* mutant
    /\ runs' = [runs EXCEPT ![r] = [Touched(@, "failed") EXCEPT !.fault = fault]]
    /\ UNCHANGED hooks
FailsWith(r, fault) ==
    /\ runs' = [runs EXCEPT ![r] = [Touched(@, "failed") EXCEPT !.fault = fault]]
    /\ hooks' = hooks \cup {r}

\* The next free row.
IsFresh(c) ==
    /\ c \in Runs /\ runs[c].status = "absent"
    /\ \A q \in 1..(c - 1) : runs[q].status # "absent"

\* relaunch: r's plan from its first step, queued, with r's origin.
ClonedWith(r, n) ==
    \E c \in Runs : IsFresh(c) /\ runs' = [runs EXCEPT ![c] = Queued(runs[r].work, n)]

MayRelaunchAtCap(r) == runs[r].tries <= MaxRelaunch   \* mutant
MayRelaunch(r) == runs[r].tries < MaxRelaunch
AutoRelaunch(r) == MayRelaunch(r) /\ ClonedWith(r, runs[r].tries + 1)

--------------------------------------------------------------------------------
(* The daemon.                                                             *)

Idle == daemon.up /\ daemon.driving = NoRun
Released == [daemon EXCEPT !.driving = NoRun]

\* Queued or running, and nothing extracted: pickPendingRun may take it.
WatchedQueued == {r \in Runs : runs[r].status = "queued"}   \* mutant: no re-attach
Watched == {r \in Runs : runs[r].status \in {"queued", "running"} /\ ~runs[r].extracted}

\* All seat runs are held until the gate opens.
Claimable == IF daemon.gate \in {"warm", "lapsed"} THEN Watched ELSE {}

\* A heartbeat is posted; a post that fails is dropped.
BeatsSent == beats' = TRUE \/ ("lost_beats" \in Disturbances /\ UNCHANGED beats)

\* History: somebody else takes up r while the supervisor requeues it.
Crosses(r) ==
    crossed' = IF requeue.run = r THEN crossed \cup {runs[r].work} ELSE crossed

\* Claim the oldest queued run, or re-attach to a running one; the tick has
\* sent its heartbeat before.
Claim ==
    /\ Idle
    /\ \E r \in Claimable :
          /\ \A q \in Claimable : r <= q
          /\ daemon' = [daemon EXCEPT !.driving = r]
          /\ IF runs[r].status = "queued" THEN Becomes(r, "running") ELSE UNCHANGED runs
          /\ Crosses(r)
    /\ BeatsSent
    /\ UNCHANGED <<hooks, seat, missed, backendVars, endVars>>

Driven(r) == /\ r # NoRun /\ daemon.driving = r /\ ~runs[r].emptied
             /\ runs[r].status \in {"running", "waiting_for_user"}

\* A strategy that met no wall posts what it has read, before its stage verdict.
Extract ==
    /\ \E r \in Runs :
          /\ Driven(r) /\ seat = "warm" /\ ~runs[r].extracted
          /\ runs' = [runs EXCEPT ![r] = [Touched(@, @.status) EXCEPT !.extracted = TRUE]]
    /\ UNCHANGED <<hooks, seat, daemonVars, backendVars, historyVars>>

\* The last step is reported, and the backend completes the run.
Finish ==
    /\ \E r \in Runs :
          /\ Driven(r) /\ runs[r].status = "running"
          /\ Becomes(r, "completed")
          /\ hooks' = hooks \cup {r}
    /\ daemon' = Released
    /\ UNCHANGED <<beats, seat, backendVars, historyVars>>

\* A strategy ends on the login wall, or a click or type finds it: the run
\* fails.  Only the click or type also closes the gate.
MeetWall ==
    /\ \E r \in Runs : Driven(r) /\ FailsWith(r, "walled")
    /\ seat = "walled"
    /\ \E g \in {daemon.gate, "cold"} : daemon' = [Released EXCEPT !.gate = g]
    /\ UNCHANGED <<beats, seat, backendVars, historyVars>>

\* The stage's verdict, or a critical step, fails the run.
StageFails ==
    /\ \E r \in Runs : Driven(r) /\ FailsWith(r, "stage")
    /\ daemon' = Released
    /\ UNCHANGED <<beats, seat, backendVars, historyVars>>

\* The watchdog, a blocker page or the day's budget pauses the run.
PauseDrive ==
    /\ \E r \in Runs :
          Driven(r) /\ runs[r].status = "running" /\ Becomes(r, "waiting_for_user")
    /\ daemon' = Released
    /\ UNCHANGED <<hooks, beats, seat, backendVars, historyVars>>

\* The drive loop ends when the run is not running or has no step left.
LeaveRun ==
    /\ daemon.driving # NoRun
    /\ runs[daemon.driving].status # "running" \/ runs[daemon.driving].emptied
    /\ daemon' = Released
    /\ UNCHANGED <<runs, hooks, beats, seat, backendVars, historyVars>>

\* With nothing to claim, keepAliveTick asks LinkedIn.  A ping that fails before
\* its verdict leaves the gate as it was, and armed.
KeepAliveOnce(verdict) ==        \* mutant: a closed gate is not opened again
    /\ Idle /\ Claimable = {} /\ daemon.gate # "cold"
    /\ daemon' = [daemon EXCEPT !.gate = IF verdict # "error" THEN verdict ELSE "cold"]
    /\ BeatsSent
    /\ UNCHANGED <<runs, hooks, seat, backendVars, historyVars>>
KeepAlive(verdict) ==
    /\ Idle /\ Claimable = {}
    /\ daemon' = [daemon EXCEPT !.gate =
                    IF verdict # "error" THEN verdict ELSE IF @ = "warm" THEN @ ELSE "cold"]
    /\ BeatsSent
    /\ UNCHANGED <<runs, hooks, seat, backendVars, historyVars>>

Ping == KeepAlive(IF seat = "warm" THEN "warm" ELSE "cold")
PingFails == KeepAlive("error")

Heartbeat ==
    /\ daemon.up /\ ~beats
    /\ beats' = TRUE
    /\ UNCHANGED <<runs, hooks, daemon, seat, backendVars, historyVars>>

\* A new daemon-behavior.mjs is loaded between two runs.  The next ping keeps its
\* old due time, which can be later than the gate's new grace; only the first
\* ping of a daemon comes sooner.
HotReload ==
    /\ "hot_reload" \in Disturbances /\ Idle /\ daemon.gate # "booted"
    /\ daemon' = [daemon EXCEPT !.gate = "reloaded"]
    /\ UNCHANGED <<runs, hooks, beats, seat, backendVars, historyVars>>

GraceLapses ==
    /\ daemon.up /\ daemon.gate = "reloaded"
    /\ daemon' = [daemon EXCEPT !.gate = "lapsed"]
    /\ UNCHANGED <<runs, hooks, beats, seat, backendVars, historyVars>>

\* A report or a claim's drive throws: the daemon leaves, the row stays.
LoseReport ==
    /\ "lost_report" \in Disturbances
    /\ \E r \in Runs : Driven(r)
    /\ daemon' = Released
    /\ UNCHANGED <<runs, hooks, beats, seat, backendVars, historyVars>>

PowerOff ==
    /\ "power_off" \in Disturbances /\ daemon.up
    /\ daemon' = [up |-> FALSE, driving |-> NoRun, gate |-> "booted"]
    /\ UNCHANGED <<runs, hooks, beats, seat, backendVars, historyVars>>

PowerOn ==
    /\ ~daemon.up
    /\ daemon' = [daemon EXCEPT !.up = TRUE]
    /\ UNCHANGED <<runs, hooks, beats, seat, backendVars, historyVars>>

SeatChanges ==
    /\ seat' = IF seat = "warm" THEN "walled" ELSE "warm"
    /\ UNCHANGED <<runs, hooks, daemonVars, backendVars, historyVars>>
--------------------------------------------------------------------------------
(* The backend.                                                            *)

\* HEARTBEAT_TTL_SECONDS pass without a heartbeat: the host is off, or its posts
\* fail, whatever it drives meanwhile.
BeatsExpire ==
    /\ beats
    /\ ~daemon.up \/ "lost_beats" \in Disturbances
    /\ beats' = FALSE
    /\ UNCHANGED <<runs, hooks, daemon, seat, backendVars, historyVars>>

\* What follows the commit of a terminal status.  A completed run advances its
\* pipeline; one that failed on the wall is relaunched, up to the cap; any other
\* failure is pushed to the position in Odoo (demos and sweeps, whose failures are
\* not, are not among these runs).
AdvanceHook(r) ==
    /\ runs[r].fault = "none"
    /\ advanced' = [advanced EXCEPT ![runs[r].work] = @ + 1]
    /\ UNCHANGED <<runs, surfaced>>

WalledHookReports(r) ==          \* mutant: relaunched, and reported as failed
    /\ runs[r].fault = "walled" /\ AutoRelaunch(r)
    /\ surfaced' = surfaced \cup {runs[r].work} /\ UNCHANGED advanced
WalledHook(r) ==
    /\ runs[r].fault = "walled" /\ AutoRelaunch(r)
    /\ UNCHANGED endVars

\* A relaunch that raises is taken for none.
FailureHook(r) ==
    /\ \/ runs[r].fault = "stage"
       \/ runs[r].fault = "walled" /\ (~MayRelaunch(r) \/ "failed_call" \in Disturbances)
    /\ surfaced' = surfaced \cup {runs[r].work}
    /\ UNCHANGED <<runs, advanced>>

Hook(r) ==
    /\ r \in hooks
    /\ hooks' = hooks \ {r}
    /\ AdvanceHook(r) \/ WalledHook(r) \/ FailureHook(r)
    /\ UNCHANGED <<seat, missed, crossed, daemonVars, backendVars>>

\* The hook raises: that is logged, the status stays, and nothing repeats the hook.
HookFails(r) ==
    /\ "failed_call" \in Disturbances /\ r \in hooks
    /\ hooks' = hooks \ {r}
    /\ missed' = missed \cup {r}
    /\ UNCHANGED <<runs, seat, crossed, daemonVars, backendVars, endVars>>

\* History: a requeue that stops after its clone leaves two runs of one work.
LeavesOriginal ==
    crossed' = IF requeue.cloned THEN crossed \cup {runs[requeue.run].work} ELSE crossed

\* Hooks, heartbeats and counters are in memory.
BackendRestart ==
    /\ "backend_restart" \in Disturbances
    /\ hooks' = {}
    /\ missed' = missed \cup hooks
    /\ requeue' = NoRequeue
    /\ LeavesOriginal
    /\ resumes' = [r \in Runs |-> 0]
    /\ beats' = FALSE
    /\ UNCHANGED <<runs, daemon, seat, endVars>>

--------------------------------------------------------------------------------
(* The recovery supervisor: one run at a time.                             *)

\* No event for STUCK_THRESHOLD_SECONDS.  A driven run can be as quiet: the
\* daemon's watchdog has the same 240 s, counted from a later moment.
GoQuiet(r) ==
    /\ "supervisor" \in Disturbances
    /\ runs[r].status \in {"running", "waiting_for_user"} /\ ~runs[r].quiet
    /\ runs' = [runs EXCEPT ![r].quiet = TRUE]
    /\ UNCHANGED <<hooks, seat, daemonVars, backendVars, historyVars>>

Stuck(r) ==
    /\ "supervisor" \in Disturbances /\ requeue.run = NoRun
    /\ runs[r].status \in {"running", "waiting_for_user"} /\ runs[r].quiet

IsOrphan(r) == runs[r].status = "running" /\ ~beats

\* _maybe_requeue_orphan: read the run and the heartbeats, which may have expired
\* although the daemon drives the run, ...
JudgeOrphan(r) ==
    /\ Stuck(r) /\ IsOrphan(r) /\ MayRelaunch(r)
    /\ requeue' = [run |-> r, cloned |-> FALSE]
    /\ crossed' = IF daemon.driving = r THEN crossed \cup {runs[r].work} ELSE crossed
    /\ UNCHANGED <<runs, hooks, resumes, seat, missed, daemonVars, endVars>>

\* ... commit a clone in a session of its own, after a call to Odoo, ...
CloneOrphan ==
    /\ requeue.run # NoRun /\ ~requeue.cloned
    /\ AutoRelaunch(requeue.run)
    /\ requeue' = [requeue EXCEPT !.cloned = TRUE]
    /\ UNCHANGED <<hooks, resumes, seat, daemonVars, historyVars>>

\* ... and cancel the original, as it was read: running.
CancelOrphanFirst ==             \* mutant: the clone comes after the cancel
    /\ requeue.run # NoRun
    /\ Becomes(requeue.run, "canceled")
    /\ requeue' = NoRequeue
    /\ UNCHANGED <<hooks, resumes, seat, daemonVars, historyVars>>
CancelOrphanAsFailed ==          \* mutant: the original fails, and is reported
    /\ requeue.cloned
    /\ FailsWith(requeue.run, "stage")
    /\ requeue' = NoRequeue
    /\ UNCHANGED <<resumes, seat, daemonVars, historyVars>>
CancelOrphan ==
    /\ requeue.cloned
    /\ Becomes(requeue.run, "canceled")
    /\ requeue' = NoRequeue
    /\ UNCHANGED <<hooks, resumes, seat, daemonVars, historyVars>>

\* Either of the two raises: the supervisor logs that and goes on to the next run.
RequeueFails ==
    /\ "failed_call" \in Disturbances /\ requeue.run # NoRun
    /\ requeue' = NoRequeue
    /\ LeavesOriginal
    /\ UNCHANGED <<runs, hooks, resumes, seat, missed, daemonVars, endVars>>

MayResume(r) == Stuck(r) /\ ~(IsOrphan(r) /\ MayRelaunch(r)) /\ resumes[r] < MaxResumes

\* The AI's advice changes or removes a step; a waiting run is set to running.
\* Removing may leave no step.
ResumeStuck(r) ==
    /\ MayResume(r) /\ ~runs[r].emptied
    /\ ~(runs[r].status = "running" /\ runs[r].patched)
    /\ \E gone \in BOOLEAN :
          runs' = [runs EXCEPT ![r] =
                     [Touched(@, "running") EXCEPT !.patched = TRUE, !.emptied = gone]]
    /\ resumes' = [resumes EXCEPT ![r] = @ + 1]
    /\ UNCHANGED <<hooks, requeue, seat, daemonVars, historyVars>>

\* Its own patch was not followed: the run is paused.
PauseStalled(r) ==
    /\ MayResume(r) /\ ~runs[r].emptied
    /\ runs[r].status = "running" /\ runs[r].patched
    /\ Becomes(r, "waiting_for_user")
    /\ UNCHANGED <<hooks, seat, daemonVars, backendVars, historyVars>>

CompleteEmptyRun(r) ==
    /\ MayResume(r) /\ runs[r].emptied
    /\ Becomes(r, "completed")
    /\ hooks' = hooks \cup {r}
    /\ UNCHANGED <<seat, daemonVars, backendVars, historyVars>>

--------------------------------------------------------------------------------
(* People.                                                                 *)

\* relaunch takes a run in any status.
Relaunch(r) ==
    /\ "person" \in Disturbances /\ runs[r].status # "absent"
    /\ ClonedWith(r, runs[r].tries)
    /\ crossed' = crossed \cup {runs[r].work}
    /\ UNCHANGED <<hooks, seat, missed, daemonVars, backendVars, endVars>>

\* The one who cancels a run knows how its work ended.
Cancel(r) ==
    /\ "person" \in Disturbances /\ runs[r].status \in Live
    /\ Becomes(r, "canceled")
    /\ surfaced' = surfaced \cup {runs[r].work}
    /\ Crosses(r)
    /\ UNCHANGED <<hooks, seat, missed, daemonVars, backendVars, advanced>>

ResumeByHand(r) ==
    /\ "person" \in Disturbances /\ runs[r].status = "waiting_for_user"
    /\ Becomes(r, "running")
    /\ UNCHANGED <<hooks, seat, daemonVars, backendVars, historyVars>>

--------------------------------------------------------------------------------
Drive == Extract \/ Finish \/ MeetWall \/ StageFails \/ PauseDrive \/ LeaveRun

Daemon == \/ Claim \/ Drive \/ Ping \/ PingFails \/ Heartbeat
          \/ HotReload \/ GraceLapses \/ LoseReport \/ PowerOff \/ PowerOn

Supervisor == \/ CloneOrphan \/ CancelOrphan \/ RequeueFails
              \/ \E r \in Runs : \/ GoQuiet(r) \/ JudgeOrphan(r) \/ ResumeStuck(r)
                                 \/ PauseStalled(r) \/ CompleteEmptyRun(r)

Person == \E r \in Runs : Relaunch(r) \/ Cancel(r) \/ ResumeByHand(r)

Next == \/ Daemon \/ Supervisor \/ Person
        \/ SeatChanges \/ BeatsExpire \/ BackendRestart
        \/ \E r \in Runs : Hook(r) \/ HookFails(r)

Spec == Init /\ [][Next]_vars

\* The host is switched on again, the daemon's loop goes on, a drive comes to an
\* end (every wait in it has a timeout) and the backend runs its hooks.
Fairness == /\ WF_vars(PowerOn) /\ WF_vars(Claim) /\ WF_vars(Ping)
            /\ WF_vars(Finish \/ MeetWall \/ StageFails \/ PauseDrive \/ LeaveRun)
            /\ WF_vars(\E r \in Runs : Hook(r))

LiveSpec == Spec /\ Fairness

--------------------------------------------------------------------------------
(* Properties.                                                             *)

RunsOf(w) == {r \in Runs : runs[r].status # "absent" /\ runs[r].work = w}

\* The end of w has been reached (the pipeline advanced, or a person was shown the
\* failure), or some run of it is live, or a hook is due that clones or reports it.
Accounted(w) ==
    \/ advanced[w] > 0 \/ w \in surfaced
    \/ \E r \in RunsOf(w) : runs[r].status \in Live \/ r \in hooks

\* Work drops out in one way only: a terminal hook raised, or was forgotten in a
\* restart of the backend.  No wall, power cut, lost heartbeat, lost report, requeue
\* that stops halfway or act of a person loses any.
WorkConserved == \A w \in Works : Accounted(w) \/ \E r \in RunsOf(w) : r \in missed

\* A piece of work ends once: WorkItems is what the pipeline promises.
Outcome(w) == CASE advanced[w] = 0 /\ w \notin surfaced -> "pending"
                [] advanced[w] = 1 /\ w \notin surfaced -> "advanced"
                [] advanced[w] = 0 /\ w \in surfaced    -> "surfaced"
                [] OTHER -> "ended_again"

Promised == INSTANCE WorkItems WITH outcome <- [w \in Works |-> Outcome(w)]
WorkEndsOnce == Promised!Spec

\* The supervisor judges by heartbeats, which may have expired on a daemon that still
\* drives.  A work ends again only if that happened to it: a run of it was driven,
\* claimed again or cancelled while it was requeued, the requeue stopped between its
\* clone and its cancel, or a person relaunched it.
EndsOnceUncrossed == \A w \in Works \ crossed : Outcome(w) # "ended_again"

\* On a host that stays up with a seat that stays warm, work drains, whatever cut
\* its drives off before: it ends, or a run of it waits for a person, or was cut off
\* after it had extracted something.
Drains ==
    <>[](daemon.up /\ seat = "warm") =>
        \A w \in Works :
            <>(\/ Outcome(w) # "pending"
               \/ \E r \in RunsOf(w) : \/ runs[r].status = "waiting_for_user"
                                       \/ runs[r].status = "running" /\ runs[r].extracted)

\* A running run that has extracted nothing is driven again by the daemon that is
\* back.
ReattachesUnread ==
    <>[](daemon.up /\ seat = "warm") =>
        \A r \in Runs :
            runs[r].status = "running" ~>
                (daemon.driving = r \/ runs[r].status # "running" \/ runs[r].extracted)

================================================================================
