------------------------------- MODULE Recording -------------------------------
(***************************************************************************)
(* Recording a workflow in the browser and saving it in the backend: the   *)
(* orchestrator of the extension (a service worker that the browser may    *)
(* stop at any time, and its one entry of session storage), the endpoint   *)
(* POST /workflows/record, and the cache of answers by Idempotency-Key     *)
(* that the endpoint keeps for its other clients.                          *)
(*                                                                         *)
(* A request commits after its answer is sent: at and told are apart.      *)
(***************************************************************************)
EXTENDS Naturals, Sequences, FiniteSets

CONSTANTS Payloads,     \* what other clients record, under one Idempotency-Key
          MaxRecordings, \* bound: recordings that the person starts
          MaxEvents,    \* bound: events of one recording
          MaxUploads,   \* bound: requests of the extension
          MaxCalls,     \* bound: requests of other clients
          MaxFaults     \* bound: deaths of the worker or backend, lost answers

ASSUME RecordingAssumption ==
    /\ Payloads \cap {"nothing", "expired"} = {}
    /\ {MaxRecordings, MaxEvents, MaxUploads, MaxCalls, MaxFaults} \subseteq Nat

VARIABLES user,     \* the recording that the person has running, 0 if none
          worker,   \* memory of the service worker
          store,    \* storage.session, under STORAGE_KEY
          heard,    \* history: how many events of recording i were captured
          crossed,  \* history: recordings that met another's saving, or an unready worker
          requests, \* all requests, in the order they were sent
          cached,   \* the answer kept for the key
          lock,     \* the current lock of the key: they are numbered
          lapsed,   \* history: an answer expired, or the backend restarted
          faults

vars == <<user, worker, store, heard, crossed, requests, cached, lock, lapsed, faults>>

Recordings == DOMAIN heard
Empty == [kind |-> "none", rec |-> 0, events |-> 0]
Recorded(r, n) == [kind |-> "recording", rec |-> r, events |-> n]
Pending(r, n) == [kind |-> "pending", rec |-> r, events |-> n]

\* The worker: read is what storage held when the worker started and asked for it,
\* rec the recording of the buffer, 0 if isRecording is false, queue counts the events
\* that came before it was ready, pend is _pendingSave as long as that is to be sent.
Asleep == [phase |-> "asleep", read |-> Empty, rec |-> 0, events |-> 0,
           pend |-> Empty, queue |-> 0]

Awake == worker.phase # "asleep"
Ready == worker.phase = "ready"

\* A request: at is how far the backend is, told what its sender knows.
Request(by, what, events) ==
    [by |-> by, what |-> what, events |-> events, at |-> "sent", told |-> "nothing", lock |-> 0]

Ids == DOMAIN requests
Uploads == {q \in Ids : requests[q].by # "client"}
Calls == Ids \ Uploads
InFlight(q) == requests[q].told = "nothing"

Init ==
    /\ user = 0 /\ worker = [Asleep EXCEPT !.phase = "ready"] /\ store = Empty
    /\ heard = <<>> /\ crossed = {} /\ requests = <<>>
    /\ cached = "nothing" /\ lock = 1 /\ lapsed = FALSE /\ faults = 0

backend == <<cached, lock, lapsed>>
extension == <<user, worker, store, heard, crossed>>

Send(by, r, n) == requests' = Append(requests, Request(by, r, n))
MayUpload == Cardinality(Uploads) < MaxUploads
--------------------------------------------------------------------------------
\* What an unready worker may mix up, when it is told to start or stop.
Held == {user, store.rec, worker.read.rec, worker.rec, worker.pend.rec} \ {0}

\* startRecording: memory and storage are those of the new recording.
StartRecording ==
    /\ Awake /\ worker.rec = 0 /\ Len(heard) < MaxRecordings
    /\ LET r == Len(heard) + 1
       IN  /\ heard' = Append(heard, 0) /\ user' = r
           /\ worker' = [worker EXCEPT !.rec = r, !.events = 0, !.pend = Empty]
           /\ store' = Recorded(r, 0)
           /\ crossed' = crossed \cup Held
                   \cup {r2 \in {r} : \/ \E q \in Uploads : InFlight(q)
                                      \/ worker.read.rec # 0 \/ worker.queue # 0}
    /\ UNCHANGED <<requests, backend, faults>>

\* pushEvent persists what a ready worker has; an unready one queues the event.  An
\* event of nobody's recording may come from the side panel or late from a page.
PushEvent ==
    /\ Awake /\ worker.events + worker.queue < MaxEvents
    /\ IF Ready
       THEN /\ worker.rec # 0
            /\ worker' = [worker EXCEPT !.events = @ + 1]
            /\ store' = Recorded(worker.rec, worker.events + 1)
       ELSE worker' = [worker EXCEPT !.queue = @ + 1] /\ UNCHANGED store
    /\ IF user # 0
       THEN /\ heard[user] < MaxEvents /\ heard' = [heard EXCEPT ![user] = @ + 1]
            /\ UNCHANGED crossed
       ELSE UNCHANGED heard /\ crossed' = crossed \cup Held
    /\ UNCHANGED <<user, requests, backend, faults>>

\* What is stopped: before the worker has restored it, it does not know what it is.
Stopped == IF worker.rec # 0 THEN worker.rec ELSE user

\* Mutant: the upload starts without a snapshot in storage.
StopUnsnapped ==
    /\ worker' = [worker EXCEPT !.rec = 0, !.events = 0, !.pend = Empty]
    /\ store' = Empty
    /\ IF worker.events = 0 THEN UNCHANGED requests
       ELSE MayUpload /\ Send("stop", Stopped, worker.events)

\* stopRecording up to the upload: nothing in the buffer is nothing to save.
Stop ==
    LET snapshot == IF worker.events = 0 THEN Empty ELSE Pending(Stopped, worker.events)
    IN  /\ worker' = [worker EXCEPT !.rec = 0, !.events = 0,
                                    !.pend = IF Ready THEN Empty ELSE snapshot]
        /\ store' = snapshot
        /\ IF worker.events = 0 THEN UNCHANGED requests
           ELSE MayUpload /\ Send("stop", Stopped, worker.events)

StopRecording ==
    /\ Awake /\ (user # 0 \/ worker.rec # 0) /\ Stop /\ user' = 0
    /\ crossed' = IF Ready THEN crossed ELSE crossed \cup Held
    /\ UNCHANGED <<heard, backend, faults>>

\* The browser stops the worker: nobody waits for its answers, and its queue is gone.
WorkerDies ==
    /\ Awake /\ faults < MaxFaults
    /\ worker' = Asleep /\ faults' = faults + 1
    /\ crossed' = IF worker.queue = 0 THEN crossed ELSE crossed \cup Held
    /\ requests' = [q \in Ids |-> IF q \in Uploads /\ InFlight(q)
                                  THEN [requests[q] EXCEPT !.told = "lost"] ELSE requests[q]]
    /\ UNCHANGED <<user, store, heard, backend>>

\* The worker starts and asks the storage, before the message that woke it.
WorkerWakes ==
    /\ ~Awake
    /\ worker' = [Asleep EXCEPT !.phase = "loading", !.read = store]
    /\ UNCHANGED <<user, store, heard, crossed, requests, backend, faults>>

\* _tryRestore: the answer takes the place of what has happened since.
Restore ==
    /\ worker.phase = "loading"
    /\ LET w == [worker EXCEPT !.phase = "restored"]
       IN  worker' = CASE w.read.kind = "pending" -> [w EXCEPT !.pend = w.read]
                       [] w.read.kind = "recording" ->
                              [w EXCEPT !.rec = w.read.rec, !.events = w.read.events]
                       [] OTHER -> w
    /\ UNCHANGED <<user, store, heard, crossed, requests, backend, faults>>

\* drainQueue: the queue goes into the buffer, which is persisted.
Drained == [worker EXCEPT !.events = @ + worker.queue, !.queue = 0]
DrainedStore ==
    IF worker.queue = 0 THEN store
    ELSE IF worker.rec = 0 THEN Empty ELSE Recorded(worker.rec, Drained.events)

\* The worker is still not ready five seconds after it queued an event.
DrainTimeout ==
    /\ Awake /\ worker.queue # 0
    /\ worker' = Drained /\ store' = DrainedStore
    /\ crossed' = IF (IF worker.phase = "loading" THEN worker.read ELSE worker.pend) = Empty
                  THEN crossed ELSE crossed \cup Held
    /\ UNCHANGED <<user, heard, requests, backend, faults>>

\* The rest of _init: the queue, and _flushPendingSave.
BecomeReady ==
    /\ worker.phase = "restored"
    /\ worker' = [Drained EXCEPT !.phase = "ready", !.read = Empty, !.pend = Empty]
    /\ store' = DrainedStore
    /\ IF worker.pend = Empty THEN UNCHANGED requests
       ELSE MayUpload /\ Send("flush", worker.pend.rec, worker.pend.events)
    /\ UNCHANGED <<user, heard, crossed, backend, faults>>
--------------------------------------------------------------------------------
\* Mutant: a save that succeeded leaves the snapshot behind.
SavedKeepsSnapshot(q) == UNCHANGED store

\* The continuation of a save that succeeded clears the entry of storage.
Saved(q) == store' = Empty

\* Mutant: a flush that failed drops the snapshot.
NotSavedDrops(q) == IF requests[q].by = "flush" THEN store' = Empty ELSE UNCHANGED store

\* A flush that failed writes its snapshot again; stopRecording left its own there.
NotSaved(q) ==
    IF requests[q].by = "flush"
    THEN store' = Pending(requests[q].what, requests[q].events)
    ELSE UNCHANGED store

Answer(q) ==
    /\ q \in Uploads /\ InFlight(q)
    /\ \/ /\ requests[q].at \in {"made", "committed"} /\ Saved(q)
          /\ worker' = [worker EXCEPT !.pend = Empty]
          /\ requests' = [requests EXCEPT ![q].told = "ok"]
       \/ /\ requests[q].at = "failed" /\ NotSaved(q) /\ UNCHANGED worker
          /\ requests' = [requests EXCEPT ![q].told = "error"]
    /\ UNCHANGED <<user, heard, crossed, backend, faults>>

\* The connection breaks: for the worker the save failed, whatever the backend does.
AnswerLost(q) ==
    /\ q \in Uploads /\ InFlight(q) /\ faults < MaxFaults
    /\ NotSaved(q) /\ faults' = faults + 1
    /\ requests' = [requests EXCEPT ![q].told = "lost"]
    /\ UNCHANGED <<user, worker, heard, crossed, backend>>
--------------------------------------------------------------------------------
\* Another client records a payload under the key.
Call(p) ==
    /\ Cardinality(Calls) < MaxCalls
    /\ Send("client", p, 0)
    /\ UNCHANGED <<extension, backend, faults>>

\* Mutant: a request does not wait for the lock.
FreeAlways(l) == TRUE

\* No request that holds the lock l is making its workflow.
Free(l) == \A q \in Calls : requests[q].lock = l => requests[q].at # "making"

\* get, under the lock l: an expired answer goes, and the lock of its key with it.
LookUp(q, l) ==
    LET found == IF cached = "expired" THEN "nothing" ELSE cached
    IN  /\ requests' = [requests EXCEPT
               ![q].lock = l,
               ![q].at = CASE found = "nothing" -> "making"
                           [] found = requests[q].what -> "hit"
                           [] OTHER -> "conflict"]
        /\ lock' = IF cached = "expired" THEN lock + 1 ELSE lock
        /\ cached' = found

\* A request arrives.  One with a key waits while the lock of the key is taken.
Arrive(q) ==
    /\ requests[q].at = "sent"
    /\ IF q \in Uploads
       THEN requests' = [requests EXCEPT ![q].at = "making"] /\ UNCHANGED <<cached, lock>>
       ELSE IF Free(lock) THEN LookUp(q, lock)
       ELSE /\ requests' = [requests EXCEPT ![q].at = "waiting", ![q].lock = lock]
            /\ UNCHANGED <<cached, lock>>
    /\ UNCHANGED <<extension, lapsed, faults>>

Acquire(q) ==
    /\ requests[q].at = "waiting" /\ Free(requests[q].lock)
    /\ LookUp(q, requests[q].lock)
    /\ UNCHANGED <<extension, lapsed, faults>>

\* The workflow, its steps, analysis and name are made; the answer is cached
\* and sent, the lock released.
Make(q) ==
    /\ requests[q].at = "making"
    /\ requests' = [requests EXCEPT ![q].at = "made"]
    /\ cached' = IF q \in Calls THEN requests[q].what ELSE cached
    /\ UNCHANGED <<extension, lock, lapsed, faults>>

\* get_db commits when the answer is out.
Commit(q) ==
    /\ requests[q].at = "made"
    /\ requests' = [requests EXCEPT ![q].at = "committed"]
    /\ UNCHANGED <<extension, backend, faults>>

\* The database refuses, before the answer or at the commit.
RollBack(q) ==
    /\ requests[q].at \in {"making", "made"} /\ faults < MaxFaults
    /\ requests' = [requests EXCEPT ![q].at = "failed"]
    /\ faults' = faults + 1
    /\ UNCHANGED <<extension, backend>>

\* The answer was kept for ten minutes.
Expire ==
    /\ cached \in Payloads
    /\ cached' = "expired" /\ lapsed' = TRUE
    /\ UNCHANGED <<extension, requests, lock, faults>>

\* Answers and locks are kept in memory; nothing that was not committed stays.
BackendRestarts ==
    /\ faults < MaxFaults /\ faults' = faults + 1
    /\ requests' = [q \in Ids |->
           IF requests[q].at \in {"sent", "waiting", "making", "made"}
           THEN [requests[q] EXCEPT !.at = "failed"] ELSE requests[q]]
    /\ cached' = "nothing" /\ lock' = 1 /\ lapsed' = TRUE
    /\ UNCHANGED extension
--------------------------------------------------------------------------------
Next ==
    \/ StartRecording \/ PushEvent \/ StopRecording \/ WorkerDies
    \/ WorkerWakes \/ Restore \/ DrainTimeout \/ BecomeReady
    \/ \E p \in Payloads : Call(p)
    \/ Expire \/ BackendRestarts
    \/ \E q \in Ids : \/ Answer(q) \/ AnswerLost(q) \/ Arrive(q) \/ Acquire(q)
                      \/ Make(q) \/ Commit(q) \/ RollBack(q)

Spec == Init /\ [][Next]_vars
--------------------------------------------------------------------------------
\* Types, and: the worker records nothing but what was recorded.
TypeOK ==
    /\ user \in 0..MaxRecordings /\ Len(heard) <= MaxRecordings
    /\ \A r \in Recordings : heard[r] \in 0..MaxEvents
    /\ crossed \subseteq Recordings
    /\ worker.phase \in {"asleep", "loading", "restored", "ready"}
    /\ worker.rec \in {0} \cup Recordings /\ worker.queue \in 0..MaxEvents
    /\ store.kind \in {"none", "recording", "pending"}
    /\ \A q \in Ids :
        /\ requests[q].at \in {"sent", "waiting", "hit", "conflict", "making", "made",
                               "committed", "failed"}
        /\ requests[q].told \in {"nothing", "ok", "error", "lost"}
    /\ cached \in {"nothing", "expired"} \cup Payloads

\* A commit that failed after its answer: the worker believes the recording saved.
Betrayed(r) ==
    \E q \in Uploads : /\ requests[q].what = r
                       /\ requests[q].at = "failed" /\ requests[q].told = "ok"

\* All events of recording r are in storage or in the queue of the worker, or in a
\* workflow that is committed or about to be, unless that very commit failed after
\* the answer.
Kept(r) ==
    \/ /\ user = r /\ store.kind = "recording" /\ store.rec = r
       /\ store.events + worker.queue = heard[r]
    \/ user # r /\ (heard[r] = 0 \/ store = Pending(r, heard[r]))
    \/ \E q \in Uploads : /\ requests[q].what = r /\ requests[q].events = heard[r]
                          /\ requests[q].at \in {"made", "committed"}
    \/ Betrayed(r)

\* A recording that was not crossed is never lost.  This is what the snapshot before
\* the upload and the flush at the next start of the worker are for, across deaths of
\* the worker, restarts of the backend and lost answers.
NothingLost == \A r \in Recordings \ crossed : Kept(r)

\* A recording that was stopped is kept if it is the only one: the worker restores
\* recordings after it slept.  It does not, when it is the stop that wakes it.
SurvivesSleep == Len(heard) = 1 /\ user = 0 => Kept(1)

\* The upload has no Idempotency-Key.  Still a recording that was not crossed becomes
\* two workflows only when an answer is lost: of all its requests whose answer arrived
\* or may still arrive at most one is not refused.
TwiceOnlyIfUnanswered ==
    \A q1, q2 \in Uploads :
        /\ requests[q1].what = requests[q2].what /\ requests[q1].what \notin crossed
        /\ \A q \in {q1, q2} : requests[q].told # "lost" /\ requests[q].at # "failed"
        => q1 = q2

\* As long as no answer of the key expired, the requests of other clients with
\* that key make one workflow, however they overlap: the lock of the key is held
\* from the lookup to the answer, while the AI analyses and names the workflow.
OncePerKey ==
    ~lapsed =>
        \A q1, q2 \in Calls :
            (\A q \in {q1, q2} : requests[q].at \in {"making", "made", "committed"}) => q1 = q2
================================================================================
