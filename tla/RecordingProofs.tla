---------------------------- MODULE RecordingProofs ----------------------------
(***************************************************************************)
(* Three invariants of Recording, for every set of payloads and every      *)
(* bound.                                                                  *)
(*                                                                         *)
(* OncePerKey, one workflow per Idempotency-Key, is not inductive.  What   *)
(* makes it so, as long as nothing lapsed: the answer of the key is not an *)
(* expired one; every request that asked for the lock got the current one; *)
(* and once a workflow is made the answer is kept, even if its commit      *)
(* fails (IInv).                                                           *)
(*                                                                         *)
(* NothingLost and TwiceOnlyIfUnanswered speak of where a recording is.    *)
(* What the steps keep true is where it may be while its upload is under   *)
(* way (UInv): what the memory of the worker, the entry of storage and the *)
(* uploads that nobody answered yet have to do with each other.            *)
(***************************************************************************)
EXTENDS Recording, TLAPS

\* What is recorded: the number of a recording, or a payload of another client.
What == Payloads \cup Nat
Stage == {"sent", "waiting", "hit", "conflict", "making", "made", "committed", "failed"}
RequestType ==
    [by : {"client", "stop", "flush"}, what : What, events : Nat,
     at : Stage, told : {"nothing", "ok", "error", "lost"}, lock : Nat]

Entry == [kind : {"none", "recording", "pending"}, rec : What, events : Nat]
WorkerType ==
    [phase : {"asleep", "loading", "restored", "ready"}, read : Entry, rec : What,
     events : Nat, pend : Entry, queue : Nat]

Types ==
    /\ user \in Nat /\ heard \in Seq(Nat)
    /\ worker \in WorkerType
    /\ store \in Entry
    /\ requests \in Seq(RequestType)
    /\ \A q \in Calls : requests[q].what \in Payloads
    /\ cached \in {"nothing", "expired"} \cup Payloads
    /\ lock \in Nat /\ lapsed \in BOOLEAN

InvConditions ==
    /\ cached # "expired"
    /\ \A q \in Calls : requests[q].at # "sent" => requests[q].lock = lock
    /\ \A q \in Calls : requests[q].at \in {"made", "committed"} => cached # "nothing"

IInv == Types /\ (~lapsed => InvConditions) /\ OncePerKey

\* The initial state: no request, nothing kept.
LEMMA InitIInv == Init => IInv
<1> SUFFICES ASSUME Init PROVE IInv
  OBVIOUS
<1>1. Ids = {} /\ Calls = {}
  BY DEF Init, Ids, Calls, Uploads
<1>3. Empty \in Entry /\ store \in Entry
  BY DEF Init, Empty, Entry, What
<1>2. worker \in WorkerType
  BY <1>3 DEF Init, Asleep, WorkerType, What
<1>4. heard \in Seq(Nat) /\ requests \in Seq(RequestType)
  BY DEF Init
<1>5. Types
  BY <1>1, <1>2, <1>3, <1>4 DEF Init, Types
<1>6. QED
  BY <1>1, <1>5 DEF Init, IInv, InvConditions, OncePerKey

\* A request that is appended leaves the others as they were.
LEMMA AppendKeeps ==
    ASSUME NEW r, requests \in Seq(RequestType), requests' = Append(requests, r)
    PROVE  /\ DOMAIN requests' = DOMAIN requests \cup {Len(requests) + 1}
           /\ \A q \in DOMAIN requests : requests'[q] = requests[q]
           /\ requests'[Len(requests) + 1] = r
           /\ Len(requests) + 1 \notin DOMAIN requests
           /\ (r \in RequestType => requests' \in Seq(RequestType))
OBVIOUS

\* An upload that is sent is no request with the key.
LEMMA SendUpload ==
    ASSUME IInv, NEW by \in {"stop", "flush"}, NEW r \in What, NEW n \in Nat, Send(by, r, n)
    PROVE  requests' \in Seq(RequestType) /\ Calls' = Calls
           /\ \A q \in Calls : requests'[q] = requests[q]
<1>1. Request(by, r, n) \in RequestType /\ Request(by, r, n).by # "client"
  BY DEF Request, RequestType, Stage
<1>2. QED
  BY <1>1, AppendKeeps DEF Send, IInv, Types, Calls, Ids, Uploads

\* Requests with the key, the answer and the lock as they were: nothing to show.
LEMMA Unrelated ==
    ASSUME IInv, Types', Calls' = Calls, UNCHANGED backend,
           \A q \in Calls : requests'[q].at = requests[q].at /\ requests'[q].lock = requests[q].lock
    PROVE  IInv'
BY DEF IInv, InvConditions, OncePerKey, backend

--------------------------------------------------------------------------------
\* What the steps make of the worker is again a worker.
LEMMA WorkerMoves ==
    ASSUME NEW w \in WorkerType, NEW r \in What, NEW n \in Nat, NEW e \in Entry
    PROVE  /\ [w EXCEPT !.rec = r, !.events = n, !.pend = e] \in WorkerType
           /\ [w EXCEPT !.events = n] \in WorkerType
           /\ [w EXCEPT !.queue = n] \in WorkerType
           /\ [w EXCEPT !.events = n, !.queue = 0] \in WorkerType
           /\ [w EXCEPT !.pend = e] \in WorkerType
           /\ [w EXCEPT !.phase = "restored"] \in WorkerType
           /\ [w EXCEPT !.rec = r, !.events = n] \in WorkerType
           /\ [w EXCEPT !.phase = "ready", !.read = e, !.pend = e] \in WorkerType
BY DEF WorkerType

\* Entries of storage, and a worker that has not done anything yet.
LEMMA Entries ==
    /\ Empty \in Entry /\ Asleep \in WorkerType
    /\ \A r \in What, n \in Nat : Recorded(r, n) \in Entry /\ Pending(r, n) \in Entry
    /\ \A e \in Entry : [Asleep EXCEPT !.phase = "loading", !.read = e] \in WorkerType
<1>1. Empty \in Entry
  BY DEF Empty, Entry, What
<1>2. Asleep \in WorkerType
  BY <1>1 DEF Asleep, WorkerType, What
<1>3. \A r \in What, n \in Nat : Recorded(r, n) \in Entry /\ Pending(r, n) \in Entry
  BY DEF Recorded, Pending, Entry
<1>4. \A e \in Entry : [Asleep EXCEPT !.phase = "loading", !.read = e] \in WorkerType
  BY <1>2 DEF WorkerType
<1>5. QED
  BY <1>1, <1>2, <1>3, <1>4

\* The fields of the worker and of storage.
LEMMA Fields ==
    ASSUME Types
    PROVE  /\ worker \in WorkerType /\ worker.rec \in What /\ worker.events \in Nat
           /\ worker.queue \in Nat /\ worker.read \in Entry /\ worker.pend \in Entry
           /\ worker.phase \in {"asleep", "loading", "restored", "ready"}
           /\ store \in Entry /\ store.rec \in What /\ store.events \in Nat
           /\ user \in What /\ Stopped \in What
           /\ worker.read.rec \in What /\ worker.read.events \in Nat
           /\ worker.pend.rec \in What /\ worker.pend.events \in Nat
<1>1. worker \in WorkerType /\ store \in Entry /\ user \in What
  BY DEF Types, What
<1>2. /\ worker.rec \in What /\ worker.events \in Nat
      /\ worker.queue \in Nat /\ worker.read \in Entry /\ worker.pend \in Entry
      /\ worker.phase \in {"asleep", "loading", "restored", "ready"}
  BY <1>1 DEF WorkerType
<1>3. \A e \in Entry : e.rec \in What /\ e.events \in Nat
  BY DEF Entry
<1>4. QED
  BY <1>1, <1>2, <1>3 DEF Stopped

\* Draining the queue.
LEMMA Drains ==
    ASSUME Types
    PROVE  Drained \in WorkerType /\ Drained.events \in Nat /\ DrainedStore \in Entry
<1>1. worker.events + worker.queue \in Nat
  BY Fields
<1>2. Drained = [worker EXCEPT !.events = worker.events + worker.queue, !.queue = 0]
  BY DEF Drained
<1>3. Drained \in WorkerType
  BY <1>1, <1>2, Fields, WorkerMoves, Entries
<1>4. Drained.events \in Nat
  BY <1>3 DEF WorkerType
<1>5. QED
  BY <1>3, <1>4, Fields, Entries DEF DrainedStore

\* The steps of the extension.
LEMMA ExtensionSteps ==
    ASSUME IInv,
           \/ StartRecording \/ PushEvent \/ StopRecording \/ WorkerDies
           \/ WorkerWakes \/ Restore \/ DrainTimeout \/ BecomeReady
    PROVE  IInv'
<1> USE DEF IInv
<1>1. CASE StartRecording
  <2>1. user' \in Nat /\ heard' \in Seq(Nat) /\ user' \in What
    BY <1>1 DEF StartRecording, Types, What
  <2>2. /\ worker' = [worker EXCEPT !.rec = user', !.events = 0, !.pend = Empty]
        /\ store' = Recorded(user', 0)
    BY <1>1 DEF StartRecording
  <2>3. worker' \in WorkerType /\ store' \in Entry
    <3>1. Empty \in Entry /\ Recorded(user', 0) \in Entry /\ worker \in WorkerType /\ 0 \in Nat
      BY <2>1, Entries, Fields
    <3>2. QED
      BY <2>1, <2>2, <3>1, WorkerMoves
  <2>4. Calls' = Calls
    BY <1>1 DEF StartRecording, Calls, Ids, Uploads
  <2>5. Types'
    BY <1>1, <2>1, <2>3, <2>4 DEF StartRecording, Types, backend
  <2>6. QED
    BY <1>1, <2>4, <2>5, Unrelated DEF StartRecording
<1>2. CASE PushEvent
  <2>1. worker.events + 1 \in Nat /\ worker.queue + 1 \in Nat
    BY Fields
  <2>2. worker' \in WorkerType
    <3>1. \/ worker' = [worker EXCEPT !.events = worker.events + 1]
          \/ worker' = [worker EXCEPT !.queue = worker.queue + 1]
      BY <1>2 DEF PushEvent
    <3>2. worker \in WorkerType
      BY Fields
    <3>3. QED
      BY <2>1, <3>1, <3>2 DEF WorkerType
  <2>3. store' \in Entry
    BY <1>2, <2>1, Fields, Entries DEF PushEvent
  <2>4. heard' \in Seq(Nat)
    <3>1. heard \in [1..Len(heard) -> Nat] /\ Len(heard) \in Nat
      BY DEF Types
    <3>2. \/ heard' = heard
          \/ heard' = [i \in 1..Len(heard) |-> IF i = user THEN heard[i] + 1 ELSE heard[i]]
      BY <1>2, <3>1 DEF PushEvent
    <3>3. heard' \in [1..Len(heard) -> Nat]
      BY <3>1, <3>2
    <3>4. QED
      BY <3>1, <3>3
  <2>5. Calls' = Calls
    BY <1>2 DEF PushEvent, Calls, Ids, Uploads
  <2>6. Types'
    BY <1>2, <2>2, <2>3, <2>4, <2>5 DEF PushEvent, Types, backend
  <2>7. QED
    BY <1>2, <2>5, <2>6, Unrelated DEF PushEvent
<1>3. CASE StopRecording
  <2>1. /\ requests' \in Seq(RequestType) /\ Calls' = Calls
        /\ \A q \in Calls : requests'[q] = requests[q]
    <3>1. CASE UNCHANGED requests
      BY <3>1 DEF Types, Calls, Ids, Uploads
    <3>2. CASE Send("stop", Stopped, worker.events)
      BY <3>2, SendUpload, Fields
    <3>3. QED
      BY <1>3, <3>1, <3>2 DEF StopRecording, Stop
  <2>2. PICK s \in Entry, p \in Entry :
            store' = s /\ worker' = [worker EXCEPT !.rec = 0, !.events = 0, !.pend = p]
    BY <1>3, Entries, Fields DEF StopRecording, Stop
  <2>3. store' \in Entry /\ worker' \in WorkerType /\ user' \in Nat
    BY <1>3, <2>2, WorkerMoves, Fields DEF StopRecording, What
  <2>4. Types'
    BY <1>3, <2>1, <2>3 DEF StopRecording, Types, backend
  <2>5. QED
    BY <1>3, <2>1, <2>4, Unrelated DEF StopRecording
<1>4. CASE WorkerDies
  <2>1. DOMAIN requests' = DOMAIN requests
    BY <1>4 DEF WorkerDies, Ids
  <2>2. \A q \in Ids : /\ requests'[q] \in RequestType
                       /\ requests'[q].by = requests[q].by
                       /\ requests'[q].what = requests[q].what
                       /\ requests'[q].at = requests[q].at
                       /\ requests'[q].lock = requests[q].lock
    <3> SUFFICES ASSUME NEW q \in Ids
                 PROVE  /\ requests'[q] \in RequestType
                        /\ requests'[q].by = requests[q].by
                        /\ requests'[q].what = requests[q].what
                        /\ requests'[q].at = requests[q].at
                        /\ requests'[q].lock = requests[q].lock
      OBVIOUS
    <3>1. requests[q] \in RequestType
      BY DEF Types, Ids
    <3>2. requests'[q] = requests[q] \/ requests'[q] = [requests[q] EXCEPT !.told = "lost"]
      BY <1>4 DEF WorkerDies
    <3>3. QED
      BY <3>1, <3>2 DEF RequestType
  <2>3. Calls' = Calls
    BY <2>1, <2>2 DEF Calls, Ids, Uploads
  <2>4. requests' \in Seq(RequestType)
    <3>1. DOMAIN requests = 1..Len(requests) /\ Len(requests) \in Nat
      BY DEF Types
    <3>2. requests' \in [1..Len(requests) -> RequestType]
      BY <1>4, <2>1, <2>2, <3>1 DEF WorkerDies, Ids
    <3>3. QED
      BY <3>1, <3>2
  <2>5. Types'
    BY <1>4, <2>1, <2>2, <2>3, <2>4, Entries DEF WorkerDies, Types, Calls, Ids, Uploads, backend
  <2>6. QED
    BY <1>4, <2>2, <2>3, <2>5, Unrelated DEF WorkerDies, Calls
<1>5. CASE WorkerWakes \/ Restore \/ DrainTimeout
  <2>1. worker' \in WorkerType
    <3>1. CASE WorkerWakes
      BY <3>1, Entries, Fields DEF WorkerWakes
    <3>2. CASE Restore
      <4> DEFINE w == [worker EXCEPT !.phase = "restored"]
      <4>1. w \in WorkerType /\ w.read = worker.read
        <5>1. w \in WorkerType
          BY Fields, WorkerMoves, Entries
        <5>2. QED
          BY <5>1, Fields DEF WorkerType
      <4>2. \/ worker' = [w EXCEPT !.pend = w.read]
            \/ worker' = [w EXCEPT !.rec = w.read.rec, !.events = w.read.events]
            \/ worker' = w
        BY <3>2 DEF Restore
      <4> HIDE DEF w
      <4>3. worker.read \in Entry /\ worker.read.rec \in What /\ worker.read.events \in Nat
        BY Fields
      <4>4. /\ [w EXCEPT !.pend = w.read] \in WorkerType
            /\ [w EXCEPT !.rec = w.read.rec, !.events = w.read.events] \in WorkerType
        BY <4>1, <4>3, WorkerMoves
      <4>5. QED
        BY <4>1, <4>2, <4>4
    <3>3. CASE DrainTimeout
      BY <3>3, Drains DEF DrainTimeout
    <3>4. QED
      BY <1>5, <3>1, <3>2, <3>3
  <2>2. store' \in Entry
    BY <1>5, Drains, Fields DEF WorkerWakes, Restore, DrainTimeout
  <2>3. /\ user' = user /\ heard' = heard /\ requests' = requests /\ UNCHANGED backend
        /\ Calls' = Calls
    BY <1>5 DEF WorkerWakes, Restore, DrainTimeout, Calls, Ids, Uploads
  <2>4. Types'
    BY <2>1, <2>2, <2>3 DEF Types, backend
  <2>5. QED
    BY <2>3, <2>4, Unrelated
<1>6. CASE BecomeReady
  <2>1. /\ requests' \in Seq(RequestType) /\ Calls' = Calls
        /\ \A q \in Calls : requests'[q] = requests[q]
    <3>1. CASE UNCHANGED requests
      BY <3>1 DEF Types, Calls, Ids, Uploads
    <3>2. CASE Send("flush", worker.pend.rec, worker.pend.events)
      BY <3>2, SendUpload, Fields
    <3>3. QED
      BY <1>6, <3>1, <3>2 DEF BecomeReady
  <2>2. worker' \in WorkerType /\ store' \in Entry
    BY <1>6, Drains, Entries, WorkerMoves, Fields DEF BecomeReady
  <2>3. Types'
    BY <1>6, <2>1, <2>2 DEF BecomeReady, Types, backend
  <2>4. QED
    BY <1>6, <2>1, <2>3, Unrelated DEF BecomeReady
<1>7. QED
  BY <1>1, <1>2, <1>3, <1>4, <1>5, <1>6

--------------------------------------------------------------------------------
\* A request that becomes r, still of the same sender about the same thing.
LEMMA RequestMoves ==
    ASSUME Types, NEW q \in Ids, NEW r \in RequestType,
           r.by = requests[q].by, r.what = requests[q].what,
           requests' = [requests EXCEPT ![q] = r]
    PROVE  /\ requests' \in Seq(RequestType)
           /\ Ids' = Ids /\ Calls' = Calls
           /\ requests'[q] = r
           /\ \A p \in Ids : p # q => requests'[p] = requests[p]
<1>1. /\ DOMAIN requests = 1..Len(requests) /\ Len(requests) \in Nat
      /\ \A p \in Ids : requests[p] \in RequestType
  BY DEF Types, Ids
<1>2. requests' \in [1..Len(requests) -> RequestType]
  BY <1>1 DEF Ids
<1>3. requests'[q] = r
  BY <1>1 DEF Ids
<1>4. \A p \in Ids : p # q => requests'[p] = requests[p]
  BY <1>1 DEF Ids
<1>5. Ids' = Ids
  BY <1>1 DEF Ids
<1>6. Calls' = Calls
  BY <1>3, <1>4, <1>5 DEF Calls, Uploads
<1>7. requests' \in Seq(RequestType)
  BY <1>1, <1>2
<1>8. QED
  BY <1>3, <1>4, <1>5, <1>6, <1>7

--------------------------------------------------------------------------------
\* Answers change nothing of the requests with the key.
LEMMA AnswerSteps ==
    ASSUME IInv, NEW q \in Ids, Answer(q) \/ AnswerLost(q)
    PROVE  IInv'
<1> USE DEF IInv
<1>1. PICK told \in {"ok", "error", "lost"} : requests' = [requests EXCEPT ![q].told = told]
  BY DEF Answer, AnswerLost
<1>2. q \in Uploads /\ requests[q] \in RequestType
  BY DEF Answer, AnswerLost, Types, Ids
<1>3. /\ requests' \in Seq(RequestType) /\ Calls' = Calls
      /\ \A p \in Calls : requests'[p] = requests[p]
  <2> DEFINE r == [requests[q] EXCEPT !.told = told]
  <2>1. r \in RequestType /\ r.by = requests[q].by /\ r.what = requests[q].what
    BY <1>2 DEF RequestType
  <2>2. requests' = [requests EXCEPT ![q] = r]
    BY <1>1
  <2> HIDE DEF r
  <2>3. QED
    BY <1>2, <2>1, <2>2, RequestMoves DEF Calls
<1>4. store' \in Entry /\ worker' \in WorkerType
  <2>1. requests[q].events \in Nat /\ requests[q].what \in What
    BY <1>2 DEF RequestType
  <2>2. ASSUME Saved(q) PROVE store' \in Entry
    BY <2>2, Entries, Fields DEF Saved
  <2>3. ASSUME NotSaved(q) PROVE store' \in Entry
    BY <2>1, <2>3, <1>2, Entries, Fields DEF NotSaved
  <2>4. worker' \in WorkerType
    <3>1. worker' = worker \/ worker' = [worker EXCEPT !.pend = Empty]
      BY DEF Answer, AnswerLost
    <3>2. worker \in WorkerType /\ Empty \in Entry
      BY Fields, Entries
    <3>3. QED
      BY <3>1, <3>2 DEF WorkerType
  <2>5. QED
    BY <2>2, <2>3, <2>4 DEF Answer, AnswerLost
<1>5. Types'
  BY <1>3, <1>4 DEF Answer, AnswerLost, Types, backend
<1>6. QED
  BY <1>3, <1>5, Unrelated DEF Answer, AnswerLost

\* A request with the key is sent.
LEMMA CallStep ==
    ASSUME IInv, NEW p \in Payloads, Call(p)
    PROVE  IInv'
<1> USE DEF IInv
<1>1. Request("client", p, 0) \in RequestType /\ Request("client", p, 0).by = "client"
      /\ Request("client", p, 0).what = p /\ Request("client", p, 0).at = "sent"
  BY DEF Request, RequestType, Stage, What
<1>2. /\ requests' \in Seq(RequestType)
      /\ Calls' = Calls \cup {Len(requests) + 1}
      /\ requests'[Len(requests) + 1] = Request("client", p, 0)
      /\ \A q \in Calls : requests'[q] = requests[q]
  BY <1>1, AppendKeeps DEF Call, Send, Types, Calls, Ids, Uploads
<1>3. Types'
  BY <1>1, <1>2 DEF Call, Types, extension, backend
<1>4. QED
  BY <1>1, <1>2, <1>3 DEF Call, InvConditions, OncePerKey, backend

--------------------------------------------------------------------------------
\* A request with the key that goes from one stage to another.
LEMMA StageMoves ==
    ASSUME IInv, NEW q \in Ids, NEW at \in Stage,
           requests' = [requests EXCEPT ![q].at = at]
    PROVE  /\ requests' \in Seq(RequestType)
           /\ Ids' = Ids /\ Calls' = Calls
           /\ requests'[q].at = at /\ requests'[q].lock = requests[q].lock
           /\ requests'[q].what = requests[q].what
           /\ \A p \in Ids : p # q => requests'[p] = requests[p]
<1> DEFINE r == [requests[q] EXCEPT !.at = at]
<1>1. Types
  BY DEF IInv
<1>2. requests[q] \in RequestType
  BY <1>1 DEF Types, Ids
<1>3. /\ r \in RequestType /\ r.by = requests[q].by /\ r.what = requests[q].what
      /\ r.at = at /\ r.lock = requests[q].lock
  BY <1>2 DEF RequestType
<1>4. requests' = [requests EXCEPT ![q] = r]
  OBVIOUS
<1> HIDE DEF r
<1>5. QED
  BY <1>1, <1>3, <1>4, RequestMoves, ZenonT(30)

\* An upload that goes from one stage to another touches no request with the key.
LEMMA UploadMoves ==
    ASSUME IInv, NEW q \in Uploads, NEW at \in Stage,
           requests' = [requests EXCEPT ![q].at = at],
           UNCHANGED <<extension, backend>>
    PROVE  IInv'
<1>1. q \in Ids
  BY DEF Uploads
<1>2. /\ requests' \in Seq(RequestType) /\ Calls' = Calls
      /\ \A p \in Calls : requests'[p] = requests[p]
  BY <1>1, StageMoves DEF Calls
<1>3. Types'
  BY <1>2 DEF IInv, Types, extension, backend
<1>4. QED
  BY <1>2, <1>3, Unrelated

\* What the lookup under a lock does to request q: the answer decides.
LEMMA Looks ==
    ASSUME IInv, NEW q \in Ids, NEW l \in Nat, LookUp(q, l), Free(l),
           ~lapsed /\ q \in Calls => l = lock,
           UNCHANGED <<extension, lapsed>>
    PROVE  IInv'
<1> USE DEF IInv
<1> DEFINE found == IF cached = "expired" THEN "nothing" ELSE cached
           to == CASE found = "nothing" -> "making"
                   [] found = requests[q].what -> "hit"
                   [] OTHER -> "conflict"
<1>1. requests[q] \in RequestType
  BY DEF Types, Ids
<1> DEFINE r == [requests[q] EXCEPT !.lock = l, !.at = to]
<1>2. /\ r \in RequestType /\ r.by = requests[q].by /\ r.what = requests[q].what
      /\ r.at = to /\ r.lock = l
  BY <1>1 DEF RequestType, Stage
<1>3. requests' = [requests EXCEPT ![q] = r]
  <2>1. requests' = [requests EXCEPT ![q].lock = l, ![q].at = to]
    BY DEF LookUp
  <2> HIDE DEF to
  <2>2. QED
    BY <1>1, <2>1 DEF Ids
<1>6. /\ requests' \in Seq(RequestType)
      /\ Ids' = Ids /\ Calls' = Calls
      /\ requests'[q].at = to /\ requests'[q].lock = l
      /\ requests'[q].what = requests[q].what
      /\ \A p \in Ids : p # q => requests'[p] = requests[p]
  <2> HIDE DEF r
  <2>1. QED
    BY <1>1, <1>2, <1>3, RequestMoves
<1>7. Types'
  <2>1. cached' \in {"nothing", "expired"} \cup Payloads /\ lock' \in Nat
    BY DEF Types, LookUp
  <2>2. \A p \in Calls' : requests'[p].what \in Payloads
    BY <1>6 DEF Types, Calls
  <2>3. QED
    BY <1>6, <2>1, <2>2 DEF Types, extension
<1>8. ASSUME ~lapsed
      PROVE  /\ InvConditions'
             /\ \A q1, q2 \in Calls' :
                  (\A p \in {q1, q2} : requests'[p].at \in {"making", "made", "committed"})
                  => q1 = q2
  <2>1. cached' = cached /\ lock' = lock /\ found = cached /\ (q \in Calls => l = lock)
    BY <1>8 DEF InvConditions, LookUp
  <2>2. \A p \in Calls : p # q => requests'[p] = requests[p]
    BY <1>6 DEF Calls
  <2>3. InvConditions'
    BY <1>6, <1>8, <2>1, <2>2 DEF InvConditions, Stage
  <2>4. CASE to = "making" /\ q \in Calls
    <3>1. cached = "nothing" /\ l = lock
      BY <2>1, <2>4
    <3>2. \A p \in Calls : requests[p].at \notin {"making", "made", "committed"}
      BY <1>8, <2>1, <3>1 DEF InvConditions, Free
    <3>3. QED
      BY <1>6, <2>2, <2>3, <3>2
  <2>5. CASE to # "making" /\ q \in Calls
    <3>1. requests'[q].at \notin {"making", "made", "committed"}
      BY <1>6, <2>5
    <3>2. QED
      BY <1>6, <1>8, <2>2, <2>3, <3>1 DEF OncePerKey
  <2>6. CASE q \notin Calls
    BY <1>6, <1>8, <2>2, <2>3, <2>6 DEF OncePerKey
  <2>7. QED
    BY <2>4, <2>5, <2>6
<1>9. QED
  BY <1>7, <1>8 DEF OncePerKey

\* The steps that bring a request to the lookup.
LEMMA LockSteps ==
    ASSUME IInv, NEW q \in Ids, Arrive(q) \/ Acquire(q)
    PROVE  IInv'
<1> USE DEF IInv
<1>1. requests[q] \in RequestType /\ requests[q].lock \in Nat /\ lock \in Nat
  <2>1. requests[q] \in RequestType
    BY DEF Types, Ids
  <2>2. QED
    BY <2>1 DEF RequestType, Types
<1>2. CASE Arrive(q) /\ q \in Uploads
  BY <1>2, UploadMoves DEF Arrive, backend, Stage
<1>3. CASE Arrive(q) /\ q \in Calls /\ Free(lock)
  BY <1>1, <1>3, Looks DEF Arrive, Calls
<1>4. CASE Arrive(q) /\ q \in Calls /\ ~Free(lock)
  <2>1. requests' = [requests EXCEPT ![q].lock = lock, ![q].at = "waiting"]
    BY <1>4 DEF Arrive, Calls
  <2> DEFINE r == [requests[q] EXCEPT !.lock = lock, !.at = "waiting"]
  <2>2. /\ r \in RequestType /\ r.by = requests[q].by /\ r.what = requests[q].what
        /\ r.at = "waiting" /\ r.lock = lock
    BY <1>1 DEF RequestType, Stage
  <2>3. requests' = [requests EXCEPT ![q] = r]
    BY <2>1 DEF Ids
  <2> HIDE DEF r
  <2>4. /\ requests' \in Seq(RequestType) /\ Ids' = Ids /\ Calls' = Calls
        /\ requests'[q].at = "waiting" /\ requests'[q].lock = lock
        /\ requests'[q].what = requests[q].what
        /\ \A p \in Ids : p # q => requests'[p] = requests[p]
    BY <1>1, <2>2, <2>3, RequestMoves
  <2>5. \A p \in Calls : p # q => requests'[p] = requests[p]
    BY <2>4 DEF Calls
  <2>6. Types'
    BY <1>4, <2>4, <2>5 DEF Arrive, Types, extension, Calls
  <2>7. cached' = cached /\ lock' = lock /\ lapsed' = lapsed
    BY <1>4 DEF Arrive, Calls
  <2>8. QED
    BY <2>4, <2>5, <2>6, <2>7 DEF InvConditions, OncePerKey
<1>5. CASE Acquire(q)
  <2>1. ~lapsed /\ q \in Calls => requests[q].lock = lock
    BY <1>5 DEF Acquire, InvConditions
  <2>2. QED
    BY <1>1, <1>5, <2>1, Looks DEF Acquire
<1>6. QED
  BY <1>2, <1>3, <1>4, <1>5 DEF Calls

--------------------------------------------------------------------------------
\* The workflow is made, committed or refused.
LEMMA MakeSteps ==
    ASSUME IInv, NEW q \in Ids, Make(q) \/ Commit(q) \/ RollBack(q)
    PROVE  IInv'
<1> USE DEF IInv
<1>1. CASE q \in Uploads /\ Make(q)
  BY <1>1, UploadMoves DEF Make, backend, Calls, Stage
<1>2. CASE q \in Uploads /\ Commit(q)
  BY <1>2, UploadMoves DEF Commit, Stage
<1>3. CASE q \in Uploads /\ RollBack(q)
  BY <1>3, UploadMoves DEF RollBack, Stage
<1>4. ASSUME q \in Calls PROVE IInv'
  <2>1. PICK at \in {"made", "committed", "failed"} :
            /\ requests' = [requests EXCEPT ![q].at = at]
            /\ at # "failed" => requests[q].at \in {"making", "made"}
            /\ at = "made" => cached' = requests[q].what
            /\ at # "made" => cached' = cached
            /\ at = "committed" => requests[q].at = "made"
    BY <1>4 DEF Make, Commit, RollBack, backend, Calls
  <2>2. /\ requests' \in Seq(RequestType)
        /\ Ids' = Ids /\ Calls' = Calls
        /\ requests'[q].at = at /\ requests'[q].lock = requests[q].lock
        /\ requests'[q].what = requests[q].what
        /\ \A p \in Ids : p # q => requests'[p] = requests[p]
    BY <2>1, StageMoves DEF Stage
  <2>3. \A p \in Calls : p # q => requests'[p] = requests[p]
    BY <2>2 DEF Calls
  <2>4. requests[q].what \in Payloads
    BY <1>4 DEF Types
  <2>5. cached' = cached \/ cached' \in Payloads
    BY <2>1, <2>4
  <2>6. Types'
    BY <2>2, <2>3, <2>4, <2>5 DEF Types, Make, Commit, RollBack, extension, backend
  <2>7. requests[q].at # "sent" /\ lock' = lock /\ lapsed' = lapsed
    BY DEF Make, Commit, RollBack, backend
  <2>8. ~lapsed => InvConditions'
    <3>1. "nothing" \notin Payloads /\ "expired" \notin Payloads
      BY RecordingAssumption
    <3>2. ~lapsed => cached' # "expired"
      BY <2>5, <3>1 DEF InvConditions
    <3>3. ~lapsed => \A p \in Calls : requests'[p].at # "sent" => requests'[p].lock = lock
      BY <1>4, <2>2, <2>3, <2>7 DEF InvConditions
    <3>4. ~lapsed => \A p \in Calls :
             requests'[p].at \in {"made", "committed"} => cached' # "nothing"
      <4>1. CASE cached' \in Payloads
        BY <3>1, <4>1
      <4>2. CASE cached' = cached /\ at # "made"
        BY <1>4, <2>1, <2>2, <2>3, <4>2 DEF InvConditions
      <4>3. QED
        BY <2>1, <2>4, <4>1, <4>2
    <3>5. QED
      BY <2>2, <2>7, <3>2, <3>3, <3>4 DEF InvConditions
  <2>9. OncePerKey'
    <3>1. requests'[q].at \in {"making", "made", "committed"}
          => requests[q].at \in {"making", "made", "committed"}
      BY <2>1, <2>2
    <3>2. QED
      BY <1>4, <2>2, <2>3, <2>7, <3>1 DEF OncePerKey
  <2>10. QED
    BY <2>6, <2>7, <2>8, <2>9
<1>5. QED
  BY <1>1, <1>2, <1>3, <1>4 DEF Calls

\* What makes the history variable lapsed true leaves nothing else to show.
LEMMA LapseSteps ==
    ASSUME IInv, Expire \/ BackendRestarts
    PROVE  IInv'
<1> USE DEF IInv
<1>1. lapsed' = TRUE
  BY DEF Expire, BackendRestarts
<1>2. CASE Expire
  <2>1. Calls' = Calls
    BY <1>2 DEF Expire, Calls, Ids, Uploads
  <2>2. Types'
    BY <1>2, <2>1 DEF Expire, Types, extension
  <2>3. QED
    BY <1>1, <2>2 DEF OncePerKey
<1>3. CASE BackendRestarts
  <2>1. DOMAIN requests = 1..Len(requests) /\ Len(requests) \in Nat
    BY DEF Types
  <2>2. \A q \in Ids : /\ requests'[q] \in RequestType
                       /\ requests'[q].by = requests[q].by
                       /\ requests'[q].what = requests[q].what
    <3> SUFFICES ASSUME NEW q \in Ids
                 PROVE  /\ requests'[q] \in RequestType
                        /\ requests'[q].by = requests[q].by
                        /\ requests'[q].what = requests[q].what
      OBVIOUS
    <3>1. requests[q] \in RequestType
      BY DEF Types, Ids
    <3>2. requests'[q] = requests[q] \/ requests'[q] = [requests[q] EXCEPT !.at = "failed"]
      BY <1>3 DEF BackendRestarts
    <3>3. QED
      BY <3>1, <3>2 DEF RequestType, Stage
  <2>3. DOMAIN requests' = DOMAIN requests
    BY <1>3 DEF BackendRestarts, Ids
  <2>4. Calls' = Calls
    BY <2>2, <2>3 DEF Calls, Ids, Uploads
  <2>5. requests' \in Seq(RequestType)
    <3>1. requests' \in [1..Len(requests) -> RequestType]
      BY <1>3, <2>1, <2>2, <2>3 DEF BackendRestarts, Ids
    <3>2. QED
      BY <2>1, <3>1
  <2>6. \A q \in Calls : requests'[q].what \in Payloads
    BY <2>2 DEF Types, Calls
  <2>7. Types'
    BY <1>3, <2>4, <2>5, <2>6 DEF BackendRestarts, Types, extension
  <2>8. QED
    BY <1>1, <2>7 DEF OncePerKey
<1>4. QED
  BY <1>2, <1>3

--------------------------------------------------------------------------------
\* Nothing changes.
LEMMA Stutters ==
    ASSUME IInv, UNCHANGED vars
    PROVE  IInv'
<1>1. Calls' = Calls /\ UNCHANGED backend
  BY DEF vars, Calls, Ids, Uploads, backend
<1>2. Types'
  BY <1>1 DEF vars, IInv, Types
<1>3. QED
  BY <1>1, <1>2, Unrelated DEF vars

\* Every step preserves the invariant.
LEMMA NextIInv == IInv /\ [Next]_vars => IInv'
<1> SUFFICES ASSUME IInv, [Next]_vars PROVE IInv'
  OBVIOUS
<1>1. CASE \/ StartRecording \/ PushEvent \/ StopRecording \/ WorkerDies
           \/ WorkerWakes \/ Restore \/ DrainTimeout \/ BecomeReady
  BY <1>1, ExtensionSteps
<1>2. ASSUME NEW p \in Payloads, Call(p) PROVE IInv'
  BY <1>2, CallStep
<1>3. CASE Expire \/ BackendRestarts
  BY <1>3, LapseSteps
<1>4. ASSUME NEW q \in Ids, Answer(q) \/ AnswerLost(q) PROVE IInv'
  BY <1>4, AnswerSteps
<1>5. ASSUME NEW q \in Ids, Arrive(q) \/ Acquire(q) PROVE IInv'
  BY <1>5, LockSteps
<1>6. ASSUME NEW q \in Ids, Make(q) \/ Commit(q) \/ RollBack(q) PROVE IInv'
  BY <1>6, MakeSteps
<1>7. CASE UNCHANGED vars
  BY <1>7, Stutters
<1>8. QED
  BY <1>1, <1>2, <1>3, <1>4, <1>5, <1>6, <1>7 DEF Next

\* The requests that other clients send with one Idempotency-Key make one
\* workflow as long as no answer expired and the backend stayed up, for every
\* number of payloads, requests and faults, and however they overlap: the lock
\* of the key is held from the lookup until the answer is kept (record.py).
THEOREM OnceIsKept == Spec => []OncePerKey
<1>1. Init => IInv
  BY InitIInv
<1>2. IInv /\ [Next]_vars => IInv'
  BY NextIInv
<1>3. IInv => OncePerKey
  BY DEF IInv
<1>4. QED
  BY <1>1, <1>2, <1>3, PTL DEF Spec

--------------------------------------------------------------------------------
\* Where an entry may be: an empty one names no recording.
EntryFits(e) ==
    /\ e.rec \in {0} \cup Recordings
    /\ IF e.kind = "none" THEN e = Empty ELSE e.rec # 0

WorkerFits ==
    /\ user \in {0} \cup Recordings /\ worker.rec \in {0} \cup Recordings
    /\ EntryFits(store) /\ EntryFits(worker.read) /\ EntryFits(worker.pend)
    /\ worker.pend.kind # "recording"
    /\ Ready => worker.queue = 0 /\ worker.read = Empty /\ worker.pend = Empty
    /\ ~Awake => worker = Asleep

\* Recording r is under way: storage and queue have what was heard, and the buffer,
\* once the worker has it, what storage has.
Active(r) ==
    /\ user = r /\ worker.pend = Empty
    /\ store.kind = "recording" /\ store.rec = r /\ store.events + worker.queue = heard[r]
    /\ worker.read.rec \in {0, r}
    /\ IF worker.rec = 0
       THEN /\ worker.events = 0 /\ worker.phase \in {"asleep", "loading"}
            /\ worker.phase = "loading" => worker.read = store
       ELSE /\ worker.rec = r /\ worker.events = store.events /\ Awake
            /\ worker.phase = "loading" => worker.read = Empty

\* Recording r is over and its snapshot in storage, from where the worker takes it
\* when it starts.
Waiting(r) ==
    /\ user = 0 /\ store = Pending(r, heard[r])
    /\ worker.rec = 0 /\ worker.events = 0 /\ worker.queue = 0
    /\ worker.phase = "loading" => worker.read = store /\ worker.pend = Empty
    /\ worker.phase = "restored" => worker.read.rec \in {0, r} /\ worker.pend = store
    /\ worker.phase \in {"asleep", "ready"} => worker.read = Empty /\ worker.pend = Empty

\* Recording r is over, and neither storage nor the worker has anything of it.
Done(r) ==
    /\ r \notin Held
    /\ \/ heard[r] = 0
       \/ \E q \in Uploads : requests[q].what = r /\ requests[q].told = "ok"

\* An upload that nobody answered yet counts on its snapshot, unless it crossed.
AloneFits(r) ==
    /\ Awake /\ Held \subseteq crossed \cup {r}
    /\ r \in crossed \/ (Ready /\ Waiting(r))

\* An upload has all of a recording that is over; how it was answered says how
\* far it got, and where its recording is no longer.
UploadFits(q) ==
    LET u == requests[q]
    IN  /\ u.what \in Recordings
        /\ u.told = "ok" => u.at \in {"made", "committed", "failed"}
        /\ u.told = "error" => u.at = "failed"
        /\ u.what \notin crossed => u.what # user /\ u.events = heard[u.what]
        /\ u.told = "ok" /\ u.what \notin crossed => u.what \notin Held
        /\ u.told = "nothing" => AloneFits(u.what)

\* Of the uploads of a recording at most one is answered well or not yet.
OneGood ==
    \A q1, q2 \in Uploads :
        /\ requests[q1].what = requests[q2].what /\ requests[q1].what \notin crossed
        /\ \A q \in {q1, q2} : requests[q].told \in {"nothing", "ok"}
        => q1 = q2

UInv ==
    /\ crossed \subseteq Recordings /\ WorkerFits
    /\ \A q \in Uploads : UploadFits(q)
    /\ OneGood
    /\ \A r \in Recordings \ crossed : Active(r) \/ Waiting(r) \/ Done(r)

\* What the types say of the recordings, the requests and the worker.
LEMMA Known ==
    ASSUME IInv
    PROVE  /\ heard \in Seq(Nat) /\ Len(heard) \in Nat /\ Recordings = 1..Len(heard)
           /\ 0 \notin Recordings /\ \A x \in Recordings : heard[x] \in Nat
           /\ requests \in Seq(RequestType)
           /\ \A q \in Ids : requests[q] \in RequestType
           /\ worker \in WorkerType /\ worker.events \in Nat /\ worker.queue \in Nat
           /\ worker.phase \in {"asleep", "loading", "restored", "ready"}
           /\ store.events \in Nat /\ worker.read.events \in Nat
           /\ Uploads \subseteq Ids
<1>1. Types
  BY DEF IInv
<1>2. heard \in Seq(Nat) /\ requests \in Seq(RequestType)
  BY <1>1 DEF Types
<1>3. QED
  BY <1>1, <1>2, Fields DEF Recordings, Ids, Uploads

\* The fields of an empty entry, and of the others.
LEMMA Shapes ==
    /\ Empty.kind = "none" /\ Empty.rec = 0 /\ Empty.events = 0
    /\ \A r, n : /\ Recorded(r, n).kind = "recording" /\ Recorded(r, n).rec = r
                 /\ Recorded(r, n).events = n
                 /\ Pending(r, n).kind = "pending" /\ Pending(r, n).rec = r
                 /\ Pending(r, n).events = n
BY DEF Empty, Recorded, Pending

\* At first nothing was recorded and nothing is stored.
LEMMA InitUInv == Init => UInv
<1> SUFFICES ASSUME Init PROVE UInv
  OBVIOUS
<1>1. Uploads = {} /\ Recordings = {}
  BY DEF Init, Uploads, Ids, Recordings
<1>2. OneGood
  BY <1>1 DEF OneGood
<1>3. /\ worker.phase = "ready" /\ worker.rec = 0 /\ worker.read = Empty
      /\ worker.pend = Empty /\ worker.queue = 0
  BY DEF Init, Asleep
<1>4. WorkerFits
  BY <1>3, Shapes DEF Init, WorkerFits, EntryFits, Awake, Ready
<1>5. QED
  BY <1>1, <1>2, <1>4 DEF UInv, Init

\* Of the recordings that did not cross one at most is anywhere but in a workflow.
LEMMA OnlyOne ==
    ASSUME IInv, UInv, NEW x \in Recordings \ crossed, x \in Held
    PROVE  (Active(x) \/ Waiting(x)) /\ Held = {x}
<1>1. Active(x) \/ Waiting(x)
  BY DEF UInv, Done
<1>2. x # 0 /\ worker.phase \in {"asleep", "loading", "restored", "ready"}
  BY Known
<1>3. CASE Active(x)
  <2>1. /\ user = x /\ store.rec = x /\ worker.read.rec \in {0, x}
        /\ worker.rec \in {0, x} /\ worker.pend.rec = 0
    BY <1>3, Shapes DEF Active
  <2>2. QED
    BY <1>1, <1>2, <2>1 DEF Held
<1>4. CASE Waiting(x)
  <2>1. /\ user = 0 /\ store.rec = x /\ worker.read.rec \in {0, x}
        /\ worker.rec = 0 /\ worker.pend.rec \in {0, x}
    BY <1>2, <1>4, Shapes DEF Waiting
  <2>2. QED
    BY <1>1, <1>2, <2>1 DEF Held
<1>5. QED
  BY <1>1, <1>3, <1>4

--------------------------------------------------------------------------------
\* What the steps of the extension have in common: what is in storage or the worker
\* was there before, or is new, or crossed.
Moves ==
    /\ crossed \subseteq crossed' /\ crossed' \subseteq Recordings'
    /\ Recordings \subseteq Recordings'
    /\ user' \in {user, 0} \cup (Recordings' \ Recordings)
    /\ \A x \in Recordings \ crossed' : x # user => heard'[x] = heard[x]
    /\ Held' \subseteq Held \cup crossed' \cup (Recordings' \ Recordings)

\* An upload that nobody answers in this step fits as before.
LEMMA OldFits ==
    ASSUME IInv, UInv, Moves, NEW q \in Uploads,
           requests'[q].what = requests[q].what, requests'[q].events = requests[q].events,
           requests'[q].at = requests[q].at, requests'[q].told \in {requests[q].told, "lost"},
           requests'[q].told = "nothing" =>
              Awake' /\ requests[q].what \in crossed' /\ Held' \subseteq crossed'
    PROVE  UploadFits(q)'
<1> DEFINE r == requests[q].what
<1>1. UploadFits(q) /\ r \in Recordings /\ 0 \notin Recordings
  BY Known DEF UInv, UploadFits
<1>2. r \notin crossed' => /\ r # user /\ r # user' /\ requests'[q].events = heard'[r]
                           /\ requests[q].told = "ok" => r \notin Held'
  BY <1>1 DEF Moves, UploadFits
<1>3. requests'[q].told = "nothing" => AloneFits(r)'
  BY DEF AloneFits
<1>4. r \in Recordings'
  BY <1>1 DEF Moves
<1>5. QED
  BY <1>1, <1>2, <1>3, <1>4 DEF UploadFits

\* A recording that is done stays done.
LEMMA DoneStays ==
    ASSUME IInv, Moves, NEW x \in Recordings \ crossed', Done(x),
           \A q \in Uploads : /\ q \in Uploads' /\ requests'[q].what = requests[q].what
                              /\ requests[q].told = "ok" => requests'[q].told = "ok"
    PROVE  Done(x)'
<1>1. x # 0 /\ x # user
  BY Known DEF Done, Held
<1>2. heard'[x] = heard[x] /\ x \notin Held'
  BY <1>1 DEF Moves, Done
<1>3. QED
  BY <1>2 DEF Done

\* The same uploads, of which no more are answered well or not yet.
LEMMA GoodStays ==
    ASSUME OneGood, crossed \subseteq crossed', Uploads' = Uploads,
           \A q \in Uploads : /\ requests'[q].what = requests[q].what
                              /\ requests'[q].told \in {"nothing", "ok"}
                                 => requests[q].told \in {"nothing", "ok"}
    PROVE  OneGood'
BY DEF OneGood

\* One more upload, the first that is not lost or refused.
LEMMA GoodGrows ==
    ASSUME OneGood, crossed \subseteq crossed', NEW n, Uploads' = Uploads \cup {n},
           \A q \in Uploads :
              /\ requests'[q] = requests[q]
              /\ requests[q].told \in {"nothing", "ok"} /\ requests[q].what = requests'[n].what
                 => requests[q].what \in crossed'
    PROVE  OneGood'
<1> SUFFICES ASSUME NEW q1 \in Uploads', NEW q2 \in Uploads',
                    requests'[q1].what = requests'[q2].what,
                    requests'[q1].what \notin crossed',
                    \A q \in {q1, q2} : requests'[q].told \in {"nothing", "ok"}
             PROVE  q1 = q2
  BY DEF OneGood
<1>1. CASE q1 \in Uploads /\ q2 \in Uploads
  BY <1>1 DEF OneGood
<1>2. CASE q1 = n \/ q2 = n
  BY <1>2
<1>3. QED
  BY <1>1, <1>2

\* Whoever still waits for an answer is not alone after another step of the worker.
LEMMA Busy ==
    ASSUME IInv, UInv, NEW q \in Uploads, InFlight(q), crossed \subseteq crossed',
           \/ StartRecording \/ PushEvent \/ StopRecording \/ Restore
           \/ DrainTimeout \/ BecomeReady
    PROVE  Awake /\ requests[q].what \in crossed' /\ Held \subseteq crossed'
<1> DEFINE r == requests[q].what
<1>1. AloneFits(r) /\ r \in Recordings /\ r # 0
  BY Known DEF UInv, UploadFits, InFlight
<1>2. CASE r \in crossed
  BY <1>1, <1>2 DEF AloneFits
<1>3. CASE r \notin crossed
  <2>1. /\ user = 0 /\ worker.rec = 0 /\ worker.queue = 0 /\ store.rec = r
        /\ worker.phase = "ready"
    BY <1>1, <1>3, Shapes DEF AloneFits, Waiting, Ready
  <2>2. StartRecording /\ r \in Held
    <3>1. ~PushEvent
      BY <2>1 DEF PushEvent, Ready
    <3>2. ~StopRecording
      BY <2>1 DEF StopRecording
    <3>3. ~Restore /\ ~DrainTimeout /\ ~BecomeReady
      BY <2>1 DEF Restore, DrainTimeout, BecomeReady
    <3>4. QED
      BY <1>1, <2>1, <3>1, <3>2, <3>3 DEF Held
  <2>3. Held \subseteq crossed'
    BY <2>2 DEF StartRecording
  <2>4. QED
    BY <1>1, <2>2, <2>3 DEF AloneFits
<1>4. QED
  BY <1>2, <1>3

\* What the backend does to a request: the sender knows as much as before, and
\* an answer that was given stays true of how far the request is.
LEMMA BackendKeeps ==
    ASSUME UInv, UNCHANGED extension, Uploads' = Uploads,
           \A q \in Uploads :
              /\ requests'[q].what = requests[q].what
              /\ requests'[q].events = requests[q].events
              /\ requests'[q].told = requests[q].told
              /\ requests[q].told = "ok" => requests'[q].at \in {"made", "committed", "failed"}
              /\ requests[q].told = "error" => requests'[q].at = "failed"
    PROVE  UInv'
<1>1. /\ user' = user /\ worker' = worker /\ store' = store /\ heard' = heard
      /\ crossed' = crossed /\ Recordings' = Recordings /\ Held' = Held
      /\ Awake' = Awake /\ Ready' = Ready /\ Empty' = Empty /\ Asleep' = Asleep
  BY DEF extension, Recordings, Held, Awake, Ready, Empty, Asleep
<1>2. \A x : Waiting(x)' = Waiting(x) /\ Active(x)' = Active(x)
  BY <1>1 DEF Waiting, Active, Pending
<1>3. ASSUME NEW q \in Uploads PROVE UploadFits(q)'
  <2>1. UploadFits(q) /\ AloneFits(requests[q].what)' = AloneFits(requests[q].what)
    BY <1>1, <1>2 DEF UInv, AloneFits
  <2>2. QED
    BY <1>1, <2>1 DEF UploadFits
<1>4. OneGood'
  BY <1>1, GoodStays DEF UInv
<1>5. WorkerFits'
  BY <1>1 DEF UInv, WorkerFits, EntryFits
<1>6. \A x : Done(x) => Done(x)'
  BY <1>1 DEF Done
<1>7. QED
  BY <1>1, <1>2, <1>3, <1>4, <1>5, <1>6 DEF UInv

\* The steps of the backend, and of its other clients.
LEMMA BackendSteps ==
    ASSUME IInv, UInv,
           \/ \E p \in Payloads : Call(p)
           \/ Expire \/ BackendRestarts
           \/ \E q \in Ids : Arrive(q) \/ Acquire(q) \/ Make(q) \/ Commit(q) \/ RollBack(q)
    PROVE  UInv'
<1>1. ASSUME NEW p \in Payloads, Call(p) PROVE UInv'
  <2>1. /\ Ids' = Ids \cup {Len(requests) + 1}
        /\ \A q \in Ids : requests'[q] = requests[q]
        /\ requests'[Len(requests) + 1] = Request("client", p, 0)
    BY <1>1, Known, AppendKeeps DEF Call, Send, Ids
  <2>2. Uploads' = Uploads /\ \A q \in Uploads : requests'[q] = requests[q]
    BY <2>1 DEF Uploads, Request, Ids
  <2>3. \A q \in Uploads : UploadFits(q)
    BY DEF UInv
  <2>4. QED
    BY <1>1, <2>2, <2>3, BackendKeeps DEF Call, UploadFits
<1>2. CASE Expire
  <2>1. Uploads' = Uploads /\ \A q \in Uploads : requests'[q] = requests[q]
    BY <1>2 DEF Expire, Uploads, Ids
  <2>2. \A q \in Uploads : UploadFits(q)
    BY DEF UInv
  <2>3. QED
    BY <1>2, <2>1, <2>2, BackendKeeps DEF Expire, UploadFits
<1>3. CASE BackendRestarts
  <2>1. DOMAIN requests' = DOMAIN requests
    BY <1>3 DEF BackendRestarts, Ids
  <2>2. \A q \in Ids : /\ requests'[q].by = requests[q].by
                       /\ requests'[q].what = requests[q].what
                       /\ requests'[q].events = requests[q].events
                       /\ requests'[q].told = requests[q].told
                       /\ requests'[q].at \in {requests[q].at, "failed"}
    <3> SUFFICES ASSUME NEW q \in Ids
                 PROVE  /\ requests'[q].by = requests[q].by
                        /\ requests'[q].what = requests[q].what
                        /\ requests'[q].events = requests[q].events
                        /\ requests'[q].told = requests[q].told
                        /\ requests'[q].at \in {requests[q].at, "failed"}
      OBVIOUS
    <3>1. requests[q] \in RequestType
      BY Known
    <3>2. requests'[q] = requests[q] \/ requests'[q] = [requests[q] EXCEPT !.at = "failed"]
      BY <1>3 DEF BackendRestarts
    <3>3. QED
      BY <3>1, <3>2 DEF RequestType
  <2>3. Uploads' = Uploads
    BY <2>1, <2>2 DEF Uploads, Ids
  <2>4. \A q \in Uploads : UploadFits(q) /\ q \in Ids
    BY Known DEF UInv
  <2>5. QED
    BY <1>3, <2>2, <2>3, <2>4, BackendKeeps DEF BackendRestarts, UploadFits
<1>4. ASSUME NEW q \in Ids, Arrive(q) \/ Acquire(q) \/ Make(q) \/ Commit(q) \/ RollBack(q)
      PROVE  UInv'
  <2>1. PICK at, lk : /\ requests' = [requests EXCEPT ![q] = [@ EXCEPT !.at = at, !.lock = lk]]
                      /\ q \in Uploads /\ requests[q].at \in {"made", "committed", "failed"}
                         => at \in {"made", "committed", "failed"}
                      /\ requests[q].at # "failed"
    <3>1. requests[q] \in RequestType /\ \A p \in Ids : requests[p] \in RequestType
      BY Known
    <3>2. CASE Make(q) \/ Commit(q) \/ RollBack(q)
      <4>1. PICK at \in {"made", "committed", "failed"} : requests' = [requests EXCEPT ![q].at = at]
        BY <3>2 DEF Make, Commit, RollBack
      <4>2. requests[q].at # "failed"
        BY <3>2 DEF Make, Commit, RollBack
      <4>3. requests' = [requests EXCEPT
                ![q] = [requests[q] EXCEPT !.at = at, !.lock = requests[q].lock]]
        BY <3>1, <4>1 DEF RequestType
      <4>4. QED
        BY <4>2, <4>3
    <3>3. CASE Arrive(q) /\ q \in Uploads
      <4>1. requests' = [requests EXCEPT ![q].at = "making"] /\ requests[q].at = "sent"
        BY <3>3 DEF Arrive
      <4>2. requests' = [requests EXCEPT
                ![q] = [requests[q] EXCEPT !.at = "making", !.lock = requests[q].lock]]
        BY <3>1, <4>1 DEF RequestType
      <4>3. QED
        BY <4>1, <4>2
    <3>4. ASSUME NEW l, LookUp(q, l)
          PROVE  \E at, lk : requests' = [requests EXCEPT ![q] = [@ EXCEPT !.at = at, !.lock = lk]]
      <4> DEFINE found == IF cached = "expired" THEN "nothing" ELSE cached
                 to == CASE found = "nothing" -> "making"
                         [] found = requests[q].what -> "hit"
                         [] OTHER -> "conflict"
      <4>1. requests' = [requests EXCEPT ![q].lock = l, ![q].at = to]
        BY <3>4 DEF LookUp
      <4> HIDE DEF to
      <4>2. requests' = [requests EXCEPT ![q] = [requests[q] EXCEPT !.at = to, !.lock = l]]
        BY <3>1, <4>1 DEF Ids
      <4>3. QED
        BY <4>2
    <3>5. CASE Arrive(q) /\ q \notin Uploads
      <4>1. CASE Free(lock)
        BY <3>4, <3>5, <4>1 DEF Arrive
      <4>2. CASE ~Free(lock)
        <5>1. requests' = [requests EXCEPT ![q].at = "waiting", ![q].lock = lock]
          BY <3>5, <4>2 DEF Arrive
        <5>2. requests' = [requests EXCEPT
                ![q] = [requests[q] EXCEPT !.at = "waiting", !.lock = lock]]
          BY <3>1, <5>1 DEF Ids
        <5>3. QED
          BY <3>5, <5>2 DEF Arrive
      <4>3. QED
        BY <4>1, <4>2
    <3>6. CASE Acquire(q)
      <4>1. requests[q].at = "waiting"
        BY <3>6 DEF Acquire
      <4>2. QED
        BY <3>4, <3>6, <4>1 DEF Acquire
    <3>7. QED
      BY <1>4, <3>2, <3>3, <3>5, <3>6
  <2>2. requests[q] \in RequestType /\ DOMAIN requests' = DOMAIN requests
    BY <2>1, Known
  <2>3. /\ requests'[q].by = requests[q].by /\ requests'[q].what = requests[q].what
        /\ requests'[q].events = requests[q].events /\ requests'[q].told = requests[q].told
        /\ requests'[q].at = at
    BY <2>1, <2>2 DEF RequestType, Ids
  <2>4. \A p \in Ids : p # q => requests'[p] = requests[p]
    BY <2>1 DEF Ids
  <2>5. Uploads' = Uploads
    BY <2>2, <2>3, <2>4 DEF Uploads, Ids
  <2>6. \A p \in Uploads : UploadFits(p) /\ p \in Ids
    BY Known DEF UInv
  <2>7. UNCHANGED extension
    BY <1>4 DEF Arrive, Acquire, Make, Commit, RollBack
  <2>8. \A p \in Uploads :
            /\ requests'[p].what = requests[p].what
            /\ requests'[p].events = requests[p].events
            /\ requests'[p].told = requests[p].told
            /\ requests[p].told = "ok" => requests'[p].at \in {"made", "committed", "failed"}
            /\ requests[p].told = "error" => requests'[p].at = "failed"
    BY <2>1, <2>3, <2>4, <2>6 DEF UploadFits
  <2>9. QED
    BY <2>5, <2>7, <2>8, BackendKeeps
<1>5. QED
  BY <1>1, <1>2, <1>3, <1>4

--------------------------------------------------------------------------------
\* A new recording takes the storage: whatever it could overlap with is crossed,
\* and so is the recording itself while an upload is in flight.
LEMMA StartKeeps ==
    ASSUME IInv, UInv, StartRecording
    PROVE  UInv'
<1> DEFINE r == Len(heard) + 1
<1>1. /\ r \in Nat /\ r # 0 /\ r \notin Recordings /\ Recordings' = Recordings \cup {r}
      /\ heard'[r] = 0 /\ \A x \in Recordings : x # 0 /\ heard'[x] = heard[x]
  BY Known DEF StartRecording, Recordings
<1>2. Uploads' = Uploads /\ requests' = requests
  BY DEF StartRecording, Uploads, Ids
<1>3. /\ user' = r /\ store' = Recorded(r, 0) /\ Awake
      /\ worker' = [worker EXCEPT !.rec = r, !.events = 0, !.pend = Empty]
      /\ crossed' = crossed \cup Held
                   \cup {r2 \in {r} : \/ \E q \in Uploads : InFlight(q)
                                      \/ worker.read.rec # 0 \/ worker.queue # 0}
  BY DEF StartRecording
<1>4. /\ worker'.rec = r /\ worker'.events = 0 /\ worker'.pend = Empty
      /\ worker'.phase = worker.phase /\ worker'.read = worker.read
      /\ worker'.queue = worker.queue
      /\ store'.rec = r /\ store'.events = 0 /\ store'.kind = "recording"
  BY <1>3, Known, Shapes DEF WorkerType
<1> HIDE DEF r
<1>5. WorkerFits /\ Held \subseteq Recordings /\ crossed \subseteq Recordings
  BY Known DEF UInv, WorkerFits, EntryFits, Held
<1>6. WorkerFits'
  BY <1>1, <1>3, <1>4, <1>5, Shapes DEF WorkerFits, EntryFits, Awake, Ready
<1>7. /\ Moves /\ Awake' /\ Held' \subseteq Held \cup {r}
      /\ \A q \in Uploads : InFlight(q) => Held' \subseteq crossed'
  <2>1. crossed' \subseteq Recordings' /\ crossed \subseteq crossed'
    BY <1>1, <1>3, <1>5
  <2>2. Held' \subseteq Held \cup {r} /\ Awake'
    BY <1>3, <1>4, Shapes DEF Held, Awake
  <2>3. ASSUME NEW q \in Uploads, InFlight(q) PROVE Held' \subseteq crossed'
    BY <1>3, <2>2, <2>3
  <2>4. QED
    BY <1>1, <1>3, <2>1, <2>2, <2>3 DEF Moves
<1>8. ASSUME NEW q \in Uploads PROVE UploadFits(q)'
  BY <1>2, <1>7, Busy, OldFits DEF InFlight, Moves
<1>9. OneGood'
  BY <1>2, <1>7, GoodStays DEF UInv, Moves
<1>10. ASSUME NEW x \in (Recordings \ crossed)' PROVE (Active(x) \/ Done(x))'
  <2>1. CASE x = r
    <3>1. worker.read.rec = 0 /\ worker.queue = 0
      BY <1>3, <1>10, <2>1
    <3>2. worker.read = Empty
      BY <1>5, <3>1 DEF WorkerFits, EntryFits
    <3>3. Active(x)'
      BY <1>1, <1>3, <1>4, <1>7, <2>1, <3>1, <3>2 DEF Active
    <3>4. QED
      BY <3>3
  <2>2. CASE x # r
    <3>1. x \in Recordings \ crossed /\ x \notin Held
      BY <1>1, <1>3, <2>2
    <3>2. Done(x)
      BY <3>1, Known, Shapes DEF UInv, Active, Waiting, Held
    <3>3. QED
      BY <1>2, <1>7, <1>10, <3>1, <3>2, DoneStays
  <2>3. QED
    BY <2>1, <2>2
<1>11. QED
  BY <1>2, <1>6, <1>7, <1>8, <1>9, <1>10 DEF UInv, Moves

\* An event is counted in the history and in storage or the queue.
LEMMA PushKeeps ==
    ASSUME IInv, UInv, PushEvent
    PROVE  UInv'
<1>1. /\ Uploads' = Uploads /\ requests' = requests /\ user' = user /\ Awake
      /\ crossed' = IF user # 0 THEN crossed ELSE crossed \cup Held
  BY DEF PushEvent, Uploads, Ids
<1>2. WorkerFits /\ Held \subseteq Recordings /\ crossed \subseteq Recordings
  BY Known DEF UInv, WorkerFits, EntryFits, Held
<1>3. /\ Recordings' = Recordings /\ (user # 0 => heard'[user] = heard[user] + 1)
      /\ \A x \in Recordings : x # user => heard'[x] = heard[x]
  BY <1>2, Known DEF PushEvent, Recordings, WorkerFits
<1>4. /\ worker'.rec = worker.rec /\ worker'.pend = worker.pend
      /\ worker'.phase = worker.phase /\ worker'.read = worker.read
      /\ IF Ready
         THEN /\ worker.rec # 0 /\ worker'.events = worker.events + 1
              /\ worker'.queue = worker.queue
              /\ store' = Recorded(worker.rec, worker.events + 1)
         ELSE /\ worker'.events = worker.events /\ worker'.queue = worker.queue + 1
              /\ store' = store
  BY Known DEF PushEvent, WorkerType
<1>5. WorkerFits'
  BY <1>1, <1>2, <1>3, <1>4, Shapes DEF WorkerFits, EntryFits, Awake, Ready
<1>6. Moves /\ Awake' /\ Held' \subseteq Held
  <2>1. Held' \subseteq Held /\ Awake'
    BY <1>1, <1>4, Shapes DEF Held, Awake
  <2>2. QED
    BY <1>1, <1>2, <1>3, <2>1 DEF Moves
<1>7. ASSUME NEW q \in Uploads PROVE UploadFits(q)'
  BY <1>1, <1>6, Busy, OldFits DEF InFlight, Moves
<1>8. OneGood'
  BY <1>1, <1>6, GoodStays DEF UInv, Moves
<1>9. ASSUME NEW x \in (Recordings \ crossed)' PROVE (Active(x) \/ Done(x))'
  <2>1. x \in Recordings \ crossed /\ x # 0
    BY <1>1, <1>3, <1>9, Known
  <2>2. CASE Done(x)
    BY <1>1, <1>3, <1>6, <2>1, <2>2, <1>9, DoneStays
  <2>3. CASE Active(x)
    <3>1. user = x /\ heard'[x] = heard[x] + 1 /\ heard[x] \in Nat
      BY <1>3, <2>1, <2>3, Known DEF Active
    <3>2. CASE Ready
      <4>1. worker.rec = x /\ worker.events = store.events
        BY <2>3, <3>2, <1>4 DEF Active, Ready
      <4>2. QED
        BY <1>1, <1>4, <1>6, <2>3, <3>1, <3>2, <4>1, Known, Shapes DEF Active, Ready
    <3>3. CASE ~Ready
      <4>1. /\ store.events + worker.queue = heard[x] /\ store.events \in Nat
            /\ worker.queue \in Nat
        BY <2>3, Known DEF Active
      <4>2. store'.events + worker'.queue = heard'[x]
        BY <1>4, <3>1, <3>3, <4>1
      <4>3. QED
        BY <1>1, <1>4, <1>6, <2>3, <3>1, <3>3, <4>2 DEF Active
    <3>4. QED
      BY <3>2, <3>3
  <2>4. ~Waiting(x)
    <3> SUFFICES ASSUME Waiting(x) PROVE FALSE
      OBVIOUS
    <3>1. user = 0 /\ x \in Held
      BY <2>1, Shapes DEF Waiting, Held
    <3>2. QED
      BY <1>1, <1>9, <3>1
  <2>5. QED
    BY <2>1, <2>2, <2>3, <2>4 DEF UInv
<1>10. QED
  BY <1>1, <1>5, <1>6, <1>7, <1>8, <1>9 DEF UInv, Moves

\* An upload that is sent is one more, and nobody has its answer.
LEMMA SendMore ==
    ASSUME IInv, NEW by \in {"stop", "flush"}, NEW r, NEW n, Send(by, r, n)
    PROVE  \E q : /\ q \notin Uploads /\ Uploads' = Uploads \cup {q}
                  /\ \A p \in Uploads : requests'[p] = requests[p]
                  /\ requests'[q].what = r /\ requests'[q].events = n
                  /\ requests'[q].told = "nothing"
<1>1. /\ Ids' = Ids \cup {Len(requests) + 1} /\ Len(requests) + 1 \notin Ids
      /\ \A q \in Ids : requests'[q] = requests[q]
      /\ requests'[Len(requests) + 1] = Request(by, r, n)
  BY Known, AppendKeeps DEF Send, Ids
<1>2. QED
  BY <1>1 DEF Uploads, Request

\* An upload of a recording that is still somewhere is the only one: the answer to
\* another one would have cleared it.
LEMMA FirstOf ==
    ASSUME IInv, UInv, NEW x \in Held, NEW q \in Uploads, requests[q].what = x,
           requests[q].told \in {"nothing", "ok"}, crossed \subseteq crossed',
           StopRecording \/ BecomeReady
    PROVE  x \in crossed'
<1>1. CASE requests[q].told = "nothing"
  BY <1>1, Busy DEF InFlight
<1>2. CASE requests[q].told = "ok"
  BY <1>2 DEF UInv, UploadFits
<1>3. QED
  BY <1>1, <1>2

\* Stopping with nothing recorded gives the storage up; otherwise the snapshot
\* is written before its upload is sent.
LEMMA StopKeeps ==
    ASSUME IInv, UInv, StopRecording
    PROVE  UInv'
<1> DEFINE s == Stopped
           snapshot == IF worker.events = 0 THEN Empty ELSE Pending(s, worker.events)
<1>1. /\ Awake /\ user' = 0 /\ heard' = heard /\ Recordings' = Recordings
      /\ crossed' = IF Ready THEN crossed ELSE crossed \cup Held
      /\ worker' = [worker EXCEPT !.rec = 0, !.events = 0,
                                  !.pend = IF Ready THEN Empty ELSE snapshot]
      /\ store' = snapshot
  BY DEF StopRecording, Stop, Recordings
<1>2. WorkerFits /\ Held \subseteq Recordings /\ crossed \subseteq Recordings
  BY Known DEF UInv, WorkerFits, EntryFits, Held
<1>3. s \in Held /\ s # 0 /\ s \in Recordings
  <2>1. s = IF worker.rec # 0 THEN worker.rec ELSE user
    BY DEF Stopped
  <2>2. s # 0 /\ s \in {worker.rec, user}
    BY <2>1 DEF StopRecording
  <2>3. QED
    BY <1>2, <2>2 DEF Held
<1>4. /\ snapshot.rec \in {0, s} /\ snapshot.kind # "recording"
      /\ IF snapshot.kind = "none" THEN snapshot = Empty ELSE snapshot.rec # 0
  BY <1>3, Shapes
<1>5. /\ worker'.rec = 0 /\ worker'.events = 0
      /\ worker'.phase = worker.phase /\ worker'.read = worker.read
      /\ worker'.queue = worker.queue
      /\ worker'.pend = IF Ready THEN Empty ELSE snapshot
  BY <1>1, Known DEF WorkerType
<1>6. worker.events = 0 => requests' = requests /\ Uploads' = Uploads
  BY DEF StopRecording, Stop, Uploads, Ids
<1>7. worker.events # 0 => Send("stop", s, worker.events)
  BY DEF StopRecording, Stop
<1>8. ASSUME s \notin crossed', NEW x, x = s
      PROVE  /\ Active(x) /\ Ready /\ worker.rec = s /\ worker.events = heard[s]
             /\ Held = {s} /\ worker.queue = 0
  <2>1. Ready /\ s \in Recordings \ crossed
    BY <1>1, <1>3, <1>8
  <2>2. (Active(x) \/ Waiting(x)) /\ Held = {s}
    BY <1>3, <1>8, <2>1, OnlyOne
  <2>3. ~Waiting(x)
    BY DEF StopRecording, Waiting
  <2>4. QED
    BY <1>2, <1>3, <1>8, <2>1, <2>2, <2>3, Known DEF Active, WorkerFits, Ready
<1> HIDE DEF s, snapshot
<1>9. WorkerFits'
  BY <1>1, <1>2, <1>3, <1>4, <1>5, Shapes DEF WorkerFits, EntryFits, Awake, Ready
<1>10. Moves /\ Awake' /\ Held' \subseteq Held
  <2>1. Awake' /\ Held' \subseteq Held
    BY <1>1, <1>3, <1>4, <1>5, Shapes DEF Held, Awake
  <2>2. QED
    BY <1>1, <1>2, <2>1 DEF Moves
<1>11. \A q \in Uploads : requests'[q] = requests[q] /\ q \in Uploads'
  BY <1>6, <1>7, SendMore
<1>12. ASSUME NEW q \in Uploads PROVE UploadFits(q)'
  BY <1>10, <1>11, Busy, OldFits DEF InFlight, Moves
<1>13. ASSUME NEW x \in (Recordings \ crossed)'
       PROVE  (Waiting(x) \/ Done(x))'
  <2>1. x \in Recordings \ crossed
    BY <1>1, <1>13
  <2>2. CASE Done(x)
    BY <1>10, <1>11, <1>13, <2>1, <2>2, DoneStays
  <2>3. CASE x = s
    <3>1. Active(x) /\ Ready /\ worker.rec = s /\ worker.events = heard[s] /\ Held = {s}
          /\ worker.queue = 0
      BY <1>8, <1>13, <2>3
    <3>2. CASE worker.events = 0
      <4>1. store' = Empty /\ worker'.read = Empty /\ worker'.pend = Empty
        BY <1>1, <1>2, <1>5, <3>1, <3>2 DEF snapshot, WorkerFits
      <4>2. x \notin Held' /\ heard'[x] = 0
        BY <1>1, <1>3, <1>5, <2>3, <3>1, <3>2, <4>1, Shapes DEF Held
      <4>3. QED
        BY <4>2 DEF Done
    <3>3. CASE worker.events # 0
      <4>1. store' = Pending(x, heard'[x]) /\ worker'.pend = Empty /\ worker'.read = Empty
        BY <1>1, <1>2, <1>5, <2>3, <3>1, <3>3 DEF snapshot, WorkerFits
      <4>2. QED
        BY <1>1, <1>5, <3>1, <4>1 DEF Waiting, Ready
    <3>4. QED
      BY <3>2, <3>3
  <2>4. CASE x # s /\ ~Done(x)
    <3>1. x \in Held
      BY <2>1, <2>4, Known, Shapes DEF UInv, Active, Waiting, Held
    <3>2. Held = {x}
      BY <2>1, <3>1, OnlyOne
    <3>3. QED
      BY <1>3, <2>4, <3>2
  <2>5. QED
    BY <2>2, <2>3, <2>4
<1>14. OneGood' /\ \A q \in Uploads' : UploadFits(q)'
  <2>1. CASE worker.events = 0
    BY <1>6, <1>10, <1>12, <2>1, GoodStays DEF UInv, Moves
  <2>2. CASE worker.events # 0
    <3>1. PICK n : /\ n \notin Uploads /\ Uploads' = Uploads \cup {n}
                   /\ \A p \in Uploads : requests'[p] = requests[p]
                   /\ requests'[n].what = s /\ requests'[n].events = worker.events
                   /\ requests'[n].told = "nothing"
      BY <1>7, <2>2, SendMore
    <3>2. OneGood'
      BY <1>3, <1>10, <3>1, FirstOf, GoodGrows DEF UInv, Moves
    <3>3. ASSUME NEW x, x = s PROVE AloneFits(x)'
      <4>1. CASE s \in crossed'
        <5>1. Held' \subseteq crossed' \cup {s}
          <6> SUFFICES ASSUME NEW y \in Held, y \notin crossed', y # s PROVE FALSE
            BY <1>10
          <6>1. Held = {y}
            BY <1>1, <1>2, OnlyOne
          <6>2. QED
            BY <1>3, <6>1
        <5>2. QED
          BY <1>10, <3>3, <4>1, <5>1 DEF AloneFits
      <4>2. CASE s \notin crossed'
        <5>1. Held = {s} /\ Ready /\ worker.events = heard[s]
          BY <1>8, <4>2
        <5>2. x \in (Recordings \ crossed)' /\ ~Done(x)'
          <6>1. store' = Pending(x, heard[x])
            BY <1>1, <2>2, <3>3, <5>1 DEF snapshot
          <6>2. x \in Held'
            BY <1>3, <3>3, <6>1, Shapes DEF Held
          <6>3. QED
            BY <1>1, <1>3, <3>3, <4>2, <6>2 DEF Done
        <5>3. Waiting(x)' /\ Ready'
          BY <1>5, <1>13, <5>1, <5>2 DEF Ready
        <5>4. QED
          BY <1>10, <3>3, <5>1, <5>3 DEF AloneFits
      <4>3. QED
        BY <4>1, <4>2
    <3>4. UploadFits(n)'
      <4>1. s \notin crossed' => s # user' /\ worker.events = heard'[s]
        BY <1>1, <1>3, <1>8
      <4>2. QED
        BY <1>1, <1>3, <3>1, <3>3, <4>1 DEF UploadFits
    <3>5. QED
      BY <1>12, <3>1, <3>2, <3>4
  <2>3. QED
    BY <2>1, <2>2
<1>15. QED
  BY <1>9, <1>10, <1>13, <1>14 DEF UInv, Moves

--------------------------------------------------------------------------------
\* Nobody waits for the answers of a worker that died; the storage stays, and what
\* was only in the queue crossed.
LEMMA DiesKeeps ==
    ASSUME IInv, UInv, WorkerDies
    PROVE  UInv'
<1>1. DOMAIN requests' = DOMAIN requests
  BY DEF WorkerDies, Ids
<1>2. \A q \in Ids : /\ requests'[q].by = requests[q].by
                     /\ requests'[q].what = requests[q].what
                     /\ requests'[q].events = requests[q].events
                     /\ requests'[q].at = requests[q].at
                     /\ q \in Uploads => requests'[q].told = IF InFlight(q) THEN "lost"
                                                             ELSE requests[q].told
  <2> SUFFICES ASSUME NEW q \in Ids
               PROVE  /\ requests'[q].by = requests[q].by
                      /\ requests'[q].what = requests[q].what
                      /\ requests'[q].events = requests[q].events
                      /\ requests'[q].at = requests[q].at
                      /\ q \in Uploads => requests'[q].told = IF InFlight(q) THEN "lost"
                                                              ELSE requests[q].told
    OBVIOUS
  <2>1. requests[q] \in RequestType
    BY Known
  <2>2. requests'[q] = IF q \in Uploads /\ InFlight(q)
                       THEN [requests[q] EXCEPT !.told = "lost"] ELSE requests[q]
    BY DEF WorkerDies
  <2>3. QED
    BY <2>1, <2>2 DEF RequestType
<1>3. Uploads' = Uploads /\ Uploads \subseteq Ids
  BY <1>1, <1>2 DEF Uploads, Ids
<1>4. /\ user' = user /\ store' = store /\ heard' = heard /\ Recordings' = Recordings
      /\ worker' = Asleep /\ Awake
      /\ crossed' = IF worker.queue = 0 THEN crossed ELSE crossed \cup Held
  BY DEF WorkerDies, Recordings
<1>5. /\ Asleep.phase = "asleep" /\ Asleep.rec = 0 /\ Asleep.events = 0
      /\ Asleep.read = Empty /\ Asleep.pend = Empty /\ Asleep.queue = 0 /\ Asleep' = Asleep
  BY DEF Asleep
<1>6. WorkerFits /\ Held \subseteq Recordings /\ crossed \subseteq Recordings
  BY Known DEF UInv, WorkerFits, EntryFits, Held
<1>7. WorkerFits'
  BY <1>4, <1>5, <1>6, Shapes DEF WorkerFits, EntryFits, Awake, Ready
<1>8. Moves
  <2>1. Held' \subseteq Held
    BY <1>4, <1>5, Shapes DEF Held
  <2>2. QED
    BY <1>4, <1>6, <2>1 DEF Moves
<1>9. ASSUME NEW q \in Uploads PROVE UploadFits(q)'
  <2>1. requests'[q].told \in {requests[q].told, "lost"} /\ requests'[q].told # "nothing"
    BY <1>2, <1>3 DEF InFlight
  <2>2. QED
    BY <1>2, <1>3, <1>8, <2>1, OldFits
<1>10. OneGood'
  BY <1>2, <1>3, <1>8, GoodStays DEF UInv, InFlight, Moves
<1>11. ASSUME NEW x \in (Recordings \ crossed)' PROVE (Active(x) \/ Waiting(x) \/ Done(x))'
  <2>1. x \in Recordings \ crossed /\ x # 0
    BY <1>4, <1>11, Known
  <2>2. CASE Done(x)
    BY <1>2, <1>3, <1>4, <1>8, <1>11, <2>1, <2>2, DoneStays DEF InFlight
  <2>3. ASSUME Active(x) \/ Waiting(x) PROVE worker.queue = 0
    <3>1. x \in Held
      BY <2>1, <2>3, Shapes DEF Active, Waiting, Held
    <3>2. QED
      BY <1>4, <1>11, <3>1
  <2>4. CASE Active(x)
    BY <1>4, <1>5, <2>1, <2>3, <2>4, Shapes DEF Active
  <2>5. CASE Waiting(x)
    BY <1>4, <1>5, <2>5 DEF Waiting, Pending
  <2>6. QED
    BY <2>1, <2>2, <2>4, <2>5 DEF UInv
<1>12. QED
  BY <1>3, <1>7, <1>8, <1>9, <1>10, <1>11 DEF UInv, Moves

\* The worker that wakes finds nothing in flight, and has yet to read the storage.
LEMMA WakesKeeps ==
    ASSUME IInv, UInv, WorkerWakes
    PROVE  UInv'
<1>1. /\ user' = user /\ store' = store /\ heard' = heard /\ crossed' = crossed
      /\ Recordings' = Recordings /\ ~Awake
      /\ requests' = requests /\ Uploads' = Uploads
      /\ worker' = [Asleep EXCEPT !.phase = "loading", !.read = store]
  BY DEF WorkerWakes, Recordings, Uploads, Ids
<1>2. /\ worker'.phase = "loading" /\ worker'.read = store /\ worker'.rec = 0
      /\ worker'.events = 0 /\ worker'.pend = Empty /\ worker'.queue = 0
  BY <1>1 DEF Asleep
<1>3. /\ worker.phase = "asleep" /\ worker.rec = 0 /\ worker.queue = 0
      /\ worker.pend = Empty /\ worker.read = Empty
  BY <1>1 DEF UInv, WorkerFits, Asleep
<1>4. WorkerFits /\ crossed \subseteq Recordings
  BY DEF UInv
<1>5. WorkerFits'
  BY <1>1, <1>2, <1>4, Shapes DEF WorkerFits, EntryFits, Awake, Ready
<1>6. Moves
  <2>1. Held' \subseteq Held
    BY <1>1, <1>2, Shapes DEF Held
  <2>2. QED
    BY <1>1, <1>4, <2>1 DEF Moves
<1>7. ASSUME NEW q \in Uploads PROVE UploadFits(q)'
  <2>1. requests[q].told # "nothing"
    BY <1>1 DEF UInv, UploadFits, AloneFits
  <2>2. QED
    BY <1>1, <1>6, <2>1, OldFits
<1>8. OneGood'
  BY <1>1, GoodStays DEF UInv
<1>9. ASSUME NEW x \in (Recordings \ crossed)' PROVE (Active(x) \/ Waiting(x) \/ Done(x))'
  <2>1. x \in Recordings \ crossed /\ x # 0
    BY <1>1, <1>9, Known
  <2>2. CASE Done(x)
    BY <1>1, <1>6, <2>1, <2>2, DoneStays
  <2>3. CASE Active(x)
    BY <1>1, <1>2, <1>3, <2>3 DEF Active
  <2>4. CASE Waiting(x)
    BY <1>1, <1>2, <2>4 DEF Waiting, Pending
  <2>5. QED
    BY <2>1, <2>2, <2>3, <2>4 DEF UInv
<1>10. QED
  BY <1>1, <1>4, <1>5, <1>7, <1>8, <1>9 DEF UInv

--------------------------------------------------------------------------------
\* What storage held when the worker started is what it restores.
LEMMA RestoreKeeps ==
    ASSUME IInv, UInv, Restore
    PROVE  UInv'
<1>1. /\ user' = user /\ store' = store /\ heard' = heard /\ crossed' = crossed
      /\ Recordings' = Recordings /\ requests' = requests /\ Uploads' = Uploads
      /\ worker.phase = "loading" /\ Awake
  BY DEF Restore, Recordings, Uploads, Ids, Awake
<1>2. /\ worker'.phase = "restored" /\ worker'.read = worker.read
      /\ worker'.queue = worker.queue
      /\ IF worker.read.kind = "pending" THEN worker'.pend = worker.read
         ELSE worker'.pend = worker.pend
      /\ IF worker.read.kind = "recording"
         THEN worker'.rec = worker.read.rec /\ worker'.events = worker.read.events
         ELSE worker'.rec = worker.rec /\ worker'.events = worker.events
  BY Known DEF Restore, WorkerType
<1>3. WorkerFits /\ crossed \subseteq Recordings
  BY DEF UInv
<1>4. WorkerFits'
  BY <1>1, <1>2, <1>3, Shapes DEF WorkerFits, EntryFits, Awake, Ready
<1>5. Moves /\ Awake' /\ Held' \subseteq Held
  <2>1. Held' \subseteq Held /\ Awake'
    BY <1>1, <1>2 DEF Held, Awake
  <2>2. QED
    BY <1>1, <1>3, <2>1 DEF Moves
<1>6. ASSUME NEW q \in Uploads PROVE UploadFits(q)'
  BY <1>1, <1>5, Busy, OldFits DEF InFlight
<1>7. OneGood'
  BY <1>1, GoodStays DEF UInv
<1>8. ASSUME NEW x \in (Recordings \ crossed)' PROVE (Active(x) \/ Waiting(x) \/ Done(x))'
  <2>1. x \in Recordings \ crossed /\ x # 0
    BY <1>1, <1>8, Known
  <2>2. CASE Done(x)
    BY <1>1, <1>5, <2>1, <2>2, DoneStays
  <2>3. CASE Active(x) /\ worker.rec = 0
    <3>1. worker.read = store /\ store.kind = "recording" /\ store.rec = x
      BY <1>1, <2>3 DEF Active
    <3>2. QED
      BY <1>1, <1>2, <1>5, <2>1, <2>3, <3>1 DEF Active
  <2>4. CASE Active(x) /\ worker.rec # 0
    <3>1. worker.read = Empty
      BY <1>1, <2>4 DEF Active
    <3>2. QED
      BY <1>1, <1>2, <1>5, <2>1, <2>4, <3>1, Shapes DEF Active
  <2>5. CASE Waiting(x)
    <3>1. worker.read = store /\ store.kind = "pending" /\ store.rec = x
      BY <1>1, <2>5, Shapes DEF Waiting
    <3>2. QED
      BY <1>1, <1>2, <2>5, <3>1 DEF Waiting, Pending
  <2>6. QED
    BY <2>1, <2>2, <2>3, <2>4, <2>5 DEF UInv
<1>9. QED
  BY <1>1, <1>3, <1>4, <1>6, <1>7, <1>8 DEF UInv

\* What draining makes of the worker and of storage.
LEMMA DrainMoves ==
    ASSUME IInv
    PROVE  /\ Drained.rec = worker.rec /\ Drained.events = worker.events + worker.queue
           /\ Drained.queue = 0 /\ Drained.phase = worker.phase
           /\ Drained.read = worker.read /\ Drained.pend = worker.pend
           /\ worker.queue = 0 => DrainedStore = store
           /\ worker.queue # 0 /\ worker.rec = 0 => DrainedStore = Empty
           /\ worker.queue # 0 /\ worker.rec # 0
              => DrainedStore = Recorded(worker.rec, worker.events + worker.queue)
<1>1. worker \in WorkerType
  BY Known
<1>2. QED
  BY <1>1 DEF Drained, DrainedStore, WorkerType

\* The queue of a recording that is under way goes where its other events are.
LEMMA DrainActive ==
    ASSUME IInv, NEW x \in Recordings, Active(x), worker.rec # 0
    PROVE  /\ DrainedStore.kind = "recording" /\ DrainedStore.rec = x
           /\ DrainedStore.events = heard[x]
           /\ Drained.rec = x /\ Drained.events = heard[x]
<1>1. /\ worker.rec = x /\ worker.events = store.events
      /\ store.events + worker.queue = heard[x]
      /\ store.kind = "recording" /\ store.rec = x
      /\ store.events \in Nat /\ worker.queue \in Nat
  BY Known DEF Active
<1>2. QED
  BY <1>1, DrainMoves, Shapes

\* An event was queued five seconds ago: without an entry that is still to be
\* restored or sent, the queue belongs to the buffer.
LEMMA TimeoutKeeps ==
    ASSUME IInv, UInv, DrainTimeout
    PROVE  UInv'
<1>1. /\ user' = user /\ heard' = heard /\ Recordings' = Recordings
      /\ requests' = requests /\ Uploads' = Uploads
      /\ Awake /\ worker.queue # 0 /\ worker' = Drained /\ store' = DrainedStore
      /\ crossed' = IF (IF worker.phase = "loading" THEN worker.read ELSE worker.pend) = Empty
                    THEN crossed ELSE crossed \cup Held
  BY DEF DrainTimeout, Recordings, Uploads, Ids
<1>2. WorkerFits /\ Held \subseteq Recordings /\ crossed \subseteq Recordings
  BY Known DEF UInv, WorkerFits, EntryFits, Held
<1>3. WorkerFits'
  BY <1>1, <1>2, DrainMoves, Shapes DEF WorkerFits, EntryFits, Awake, Ready
<1>4. Moves /\ Awake' /\ Held' \subseteq Held
  <2>1. Held' \subseteq Held /\ Awake'
    BY <1>1, DrainMoves, Shapes DEF Held, Awake
  <2>2. QED
    BY <1>1, <1>2, <2>1 DEF Moves
<1>5. ASSUME NEW q \in Uploads PROVE UploadFits(q)'
  BY <1>1, <1>4, Busy, OldFits DEF InFlight, Moves
<1>6. OneGood'
  BY <1>1, <1>4, GoodStays DEF UInv, Moves
<1>7. ASSUME NEW x \in (Recordings \ crossed)' PROVE (Active(x) \/ Done(x))'
  <2>1. x \in Recordings \ crossed /\ x # 0
    BY <1>1, <1>7, Known
  <2>2. CASE Done(x)
    BY <1>1, <1>4, <1>7, <2>1, <2>2, DoneStays
  <2>3. CASE Active(x)
    <3>1. worker.rec # 0
      <4> SUFFICES ASSUME worker.rec = 0 PROVE FALSE
        OBVIOUS
      <4>1. worker.phase = "loading" /\ worker.read.kind = "recording" /\ x \in Held
        BY <1>1, <2>1, <2>3 DEF Active, Held, Awake
      <4>2. QED
        BY <1>1, <1>7, <4>1, Shapes
    <3>2. QED
      BY <1>1, <1>4, <2>1, <2>3, <3>1, DrainActive, DrainMoves, Known DEF Active
  <2>4. ~Waiting(x)
    BY <1>1 DEF Waiting
  <2>5. QED
    BY <2>1, <2>2, <2>3, <2>4 DEF UInv
<1>8. QED
  BY <1>1, <1>3, <1>4, <1>5, <1>6, <1>7 DEF UInv, Moves

\* The worker becomes ready: a snapshot that it restored is sent.
LEMMA ReadyKeeps ==
    ASSUME IInv, UInv, BecomeReady
    PROVE  UInv'
<1>1. /\ user' = user /\ heard' = heard /\ crossed' = crossed /\ Recordings' = Recordings
      /\ worker.phase = "restored" /\ Awake /\ store' = DrainedStore
      /\ worker' = [Drained EXCEPT !.phase = "ready", !.read = Empty, !.pend = Empty]
  BY DEF BecomeReady, Recordings, Awake
<1>2. /\ worker'.phase = "ready" /\ worker'.read = Empty /\ worker'.pend = Empty
      /\ worker'.rec = worker.rec /\ worker'.events = worker.events + worker.queue
      /\ worker'.queue = 0
  <2>1. Drained \in WorkerType
    BY Drains DEF IInv
  <2>2. QED
    BY <1>1, <2>1, DrainMoves DEF WorkerType
<1>3. WorkerFits /\ Held \subseteq Recordings /\ crossed \subseteq Recordings
  BY Known DEF UInv, WorkerFits, EntryFits, Held
<1>4. WorkerFits'
  BY <1>1, <1>2, <1>3, DrainMoves, Shapes DEF WorkerFits, EntryFits, Awake, Ready
<1>5. Moves /\ Awake' /\ Held' \subseteq Held
  <2>1. Held' \subseteq Held /\ Awake'
    BY <1>1, <1>2, DrainMoves, Shapes DEF Held, Awake
  <2>2. QED
    BY <1>1, <1>3, <2>1 DEF Moves
<1>6. worker.pend = Empty => requests' = requests /\ Uploads' = Uploads
  BY DEF BecomeReady, Uploads, Ids
<1>7. worker.pend # Empty => Send("flush", worker.pend.rec, worker.pend.events)
  BY DEF BecomeReady
<1>8. \A q \in Uploads : requests'[q] = requests[q] /\ q \in Uploads'
  BY <1>6, <1>7, SendMore
<1>9. ASSUME NEW q \in Uploads PROVE UploadFits(q)'
  BY <1>1, <1>5, <1>8, Busy, OldFits DEF InFlight
<1>10. ASSUME NEW x \in Recordings \ crossed
       PROVE  /\ (Active(x) \/ Waiting(x) \/ Done(x))'
              /\ Waiting(x) => Waiting(x)'
  <2>1. x # 0
    BY Known
  <2>2. ASSUME Done(x) PROVE Done(x)'
    BY <1>1, <1>5, <1>8, <2>2, DoneStays
  <2>3. ASSUME Active(x) PROVE Active(x)'
    <3>1. worker.rec # 0
      BY <1>1, <2>3 DEF Active
    <3>2. /\ DrainedStore.kind = "recording" /\ DrainedStore.rec = x
          /\ DrainedStore.events = heard[x] /\ worker.rec = x
          /\ worker.events + worker.queue = heard[x] /\ heard[x] \in Nat
      BY <2>3, <3>1, DrainActive, DrainMoves, Known
    <3>3. QED
      BY <1>1, <1>2, <1>5, <2>1, <2>3, <3>2, Shapes DEF Active
  <2>4. ASSUME Waiting(x) PROVE Waiting(x)'
    <3>1. worker.queue = 0 /\ worker.events + worker.queue = 0 /\ DrainedStore = store
      BY <2>4, DrainMoves DEF Waiting
    <3>2. QED
      BY <1>1, <1>2, <2>4, <3>1 DEF Waiting, Pending
  <2>5. QED
    BY <2>2, <2>3, <2>4 DEF UInv
<1>11. OneGood' /\ \A q \in Uploads' : UploadFits(q)'
  <2>1. CASE worker.pend = Empty
    BY <1>1, <1>6, <1>9, <2>1, GoodStays DEF UInv
  <2>2. CASE worker.pend # Empty
    <3>1. PICK n : /\ n \notin Uploads /\ Uploads' = Uploads \cup {n}
                   /\ \A p \in Uploads : requests'[p] = requests[p]
                   /\ requests'[n].what = worker.pend.rec
                   /\ requests'[n].events = worker.pend.events
                   /\ requests'[n].told = "nothing"
      BY <1>7, <2>2, SendMore
    <3>2. PICK r : r = worker.pend.rec
      OBVIOUS
    <3>3. r \in Held /\ r \in Recordings
      <4>1. worker.pend.rec # 0
        BY <1>3, <2>2 DEF WorkerFits, EntryFits
      <4>2. QED
        BY <1>3, <3>2, <4>1 DEF Held
    <3>4. OneGood'
      BY <1>1, <3>1, <3>2, <3>3, FirstOf, GoodGrows DEF UInv
    <3>5. ASSUME r \notin crossed PROVE Waiting(r) /\ Held = {r} /\ worker.pend = store
      <4>1. (Active(r) \/ Waiting(r)) /\ Held = {r}
        BY <3>3, <3>5, OnlyOne
      <4>2. QED
        BY <1>1, <2>2, <4>1 DEF Active, Waiting
    <3>6. AloneFits(r)'
      <4>1. CASE r \in crossed
        <5>1. Held' \subseteq crossed' \cup {r}
          <6> SUFFICES ASSUME NEW y \in Held, y \notin crossed', y # r PROVE FALSE
            BY <1>5
          <6>1. Held = {y}
            BY <1>1, <1>3, OnlyOne
          <6>2. QED
            BY <3>3, <6>1
        <5>2. QED
          BY <1>1, <1>5, <4>1, <5>1 DEF AloneFits
      <4>2. CASE r \notin crossed
        <5>1. Waiting(r)' /\ Ready' /\ Held' \subseteq {r}
          BY <1>2, <1>5, <1>10, <3>3, <3>5, <4>2 DEF Ready
        <5>2. QED
          BY <1>5, <5>1 DEF AloneFits
      <4>3. QED
        BY <4>1, <4>2
    <3>7. UploadFits(n)'
      <4>1. r \notin crossed => r # user /\ worker.pend.events = heard[r]
        BY <3>3, <3>5, Known, Shapes DEF Waiting
      <4>2. QED
        BY <1>1, <3>1, <3>2, <3>3, <3>6, <4>1 DEF UploadFits
    <3>8. QED
      BY <1>9, <3>1, <3>4, <3>7
  <2>3. QED
    BY <2>1, <2>2
<1>12. QED
  BY <1>1, <1>3, <1>4, <1>10, <1>11 DEF UInv

--------------------------------------------------------------------------------
\* The sender of an upload learns of its fate; the upload is as far as it was.
LEMMA Told ==
    ASSUME IInv, NEW q \in Uploads, NEW t, requests' = [requests EXCEPT ![q].told = t]
    PROVE  /\ Uploads' = Uploads
           /\ \A p \in Uploads : /\ requests'[p].what = requests[p].what
                                 /\ requests'[p].events = requests[p].events
                                 /\ requests'[p].at = requests[p].at
                                 /\ requests'[p].by = requests[p].by
                                 /\ p # q => requests'[p].told = requests[p].told
           /\ requests'[q].told = t
<1>1. q \in Ids /\ \A p \in Ids : requests[p] \in RequestType
  BY Known
<1>2. DOMAIN requests' = DOMAIN requests
  BY <1>1
<1>3. requests'[q] = [requests[q] EXCEPT !.told = t]
  BY <1>1 DEF Ids
<1>4. \A p \in Ids : p # q => requests'[p] = requests[p]
  BY <1>1 DEF Ids
<1>5. /\ requests'[q].told = t /\ requests'[q].what = requests[q].what
      /\ requests'[q].events = requests[q].events /\ requests'[q].at = requests[q].at
      /\ requests'[q].by = requests[q].by
  BY <1>1, <1>3 DEF RequestType
<1>6. Uploads' = Uploads
  BY <1>2, <1>4, <1>5 DEF Uploads, Ids
<1>7. QED
  BY <1>4, <1>5, <1>6, Known

\* The answer of a recording that is still in storage is the only one to come.
LEMMA OthersCrossed ==
    ASSUME IInv, UInv, NEW q \in Uploads, InFlight(q), NEW p \in Uploads, InFlight(p), p # q
    PROVE  requests[p].what \in crossed /\ Held \subseteq crossed \cup {requests[q].what}
<1>1. AloneFits(requests[q].what) /\ AloneFits(requests[p].what)
      /\ requests[q].what \in Recordings /\ requests[p].what \in Recordings
  BY DEF UInv, UploadFits, InFlight
<1>2. ASSUME requests[p].what \notin crossed PROVE FALSE
  <2>1. requests[p].what \in Held
    BY <1>1, <1>2, Known, Shapes DEF AloneFits, Waiting, Held
  <2>2. requests[p].what = requests[q].what
    BY <1>1, <1>2, <2>1 DEF AloneFits
  <2>3. QED
    BY <1>2, <2>2 DEF UInv, OneGood, InFlight
<1>3. QED
  BY <1>1, <1>2 DEF AloneFits

\* The upload succeeded, its snapshot goes: so does at most what crossed.
LEMMA SavedKeeps ==
    ASSUME IInv, UInv, NEW q \in Uploads, InFlight(q), Saved(q),
           requests[q].at \in {"made", "committed"},
           worker' = [worker EXCEPT !.pend = Empty],
           requests' = [requests EXCEPT ![q].told = "ok"],
           UNCHANGED <<user, heard, crossed>>
    PROVE  UInv'
<1>1. /\ Uploads' = Uploads /\ requests'[q].told = "ok"
      /\ \A p \in Uploads : /\ requests'[p].what = requests[p].what
                            /\ requests'[p].events = requests[p].events
                            /\ requests'[p].at = requests[p].at
                            /\ p # q => requests'[p].told = requests[p].told
  BY Told, ZenonT(30)
<1>2. /\ store' = Empty /\ Recordings' = Recordings /\ user' = user /\ heard' = heard
      /\ crossed' = crossed
  BY DEF Saved, Recordings
<1>3. /\ worker'.phase = worker.phase /\ worker'.read = worker.read
      /\ worker'.rec = worker.rec /\ worker'.events = worker.events
      /\ worker'.queue = worker.queue /\ worker'.pend = Empty
  BY Known DEF WorkerType
<1>4. /\ UploadFits(q) /\ requests[q].told = "nothing" /\ AloneFits(requests[q].what)
      /\ requests[q].what \in Recordings /\ Awake
  BY DEF UInv, InFlight, UploadFits, AloneFits
<1>5. WorkerFits /\ crossed \subseteq Recordings
  BY DEF UInv
<1>6. WorkerFits'
  BY <1>2, <1>3, <1>4, <1>5, Shapes DEF WorkerFits, EntryFits, Awake, Ready
<1>7. Moves /\ Held' \subseteq Held /\ Awake'
  <2>1. Held' \subseteq Held /\ Awake'
    BY <1>2, <1>3, <1>4, Shapes DEF Held, Awake
  <2>2. QED
    BY <1>2, <1>5, <2>1 DEF Moves
<1>8. \A x \in Recordings \ crossed : x \in Held => x = requests[q].what /\ x \notin Held'
  <2> SUFFICES ASSUME NEW x \in Recordings \ crossed, x \in Held
               PROVE  x = requests[q].what /\ x \notin Held'
    OBVIOUS
  <2>1. x = requests[q].what /\ Ready /\ Waiting(x) /\ x # 0
    BY <1>4, Known DEF AloneFits
  <2>2. user = 0 /\ worker.rec = 0 /\ worker.read = Empty
    BY <1>5, <2>1 DEF Waiting, WorkerFits
  <2>3. QED
    BY <1>2, <1>3, <2>1, <2>2, Shapes DEF Held
<1>9. ASSUME NEW p \in Uploads PROVE UploadFits(p)'
  <2>1. CASE p = q
    <3>1. requests[q].what \notin crossed => requests[q].what \notin Held'
      BY <1>4, <1>7, <1>8
    <3>2. QED
      BY <1>1, <1>2, <1>4, <2>1, <3>1 DEF UploadFits
  <2>2. CASE p # q
    <3>1. requests[p].told = "nothing" => requests[p].what \in crossed
      BY <2>2, OthersCrossed DEF InFlight
    <3>2. requests[p].told = "nothing" => Held' \subseteq crossed
      <4> SUFFICES ASSUME requests[p].told = "nothing", NEW x \in Held', x \notin crossed
                   PROVE  FALSE
        OBVIOUS
      <4>1. x = requests[q].what
        BY <1>7, <2>2, OthersCrossed DEF InFlight
      <4>2. QED
        BY <1>4, <1>7, <1>8, <4>1
    <3>3. QED
      BY <1>1, <1>2, <1>7, <2>2, <3>1, <3>2, OldFits
  <2>3. QED
    BY <2>1, <2>2
<1>10. OneGood'
  BY <1>1, <1>2, <1>4, GoodStays DEF UInv
<1>11. ASSUME NEW x \in (Recordings \ crossed)' PROVE Done(x)'
  <2>1. x \in Recordings \ crossed /\ x # 0
    BY <1>2, <1>11, Known
  <2>2. CASE Done(x)
    BY <1>1, <1>2, <1>7, <2>1, <2>2, DoneStays
  <2>3. CASE x \in Held
    BY <1>1, <1>8, <2>1, <2>3 DEF Done
  <2>4. x \notin Held => Done(x)
    BY <2>1, Shapes DEF UInv, Active, Waiting, Held
  <2>5. QED
    BY <2>2, <2>3, <2>4
<1>12. QED
  BY <1>1, <1>2, <1>5, <1>6, <1>9, <1>10, <1>11 DEF UInv

\* The upload failed, or nobody will ever know: the snapshot is, or is again, in
\* the storage.
LEMMA NotSavedKeeps ==
    ASSUME IInv, UInv, NEW q \in Uploads, InFlight(q), NotSaved(q),
           NEW t \in {"error", "lost"}, t = "error" => requests[q].at = "failed",
           requests' = [requests EXCEPT ![q].told = t],
           UNCHANGED <<user, worker, heard, crossed>>
    PROVE  UInv'
<1>1. /\ Uploads' = Uploads /\ requests'[q].told = t
      /\ \A p \in Uploads : /\ requests'[p].what = requests[p].what
                            /\ requests'[p].events = requests[p].events
                            /\ requests'[p].at = requests[p].at
                            /\ p # q => requests'[p].told = requests[p].told
  BY Told, ZenonT(30)
<1>2. /\ Recordings' = Recordings /\ user' = user /\ worker' = worker /\ heard' = heard
      /\ crossed' = crossed
  BY DEF Recordings
<1>3. /\ UploadFits(q) /\ requests[q].told = "nothing" /\ AloneFits(requests[q].what)
      /\ requests[q].what \in Recordings /\ requests[q].what # 0 /\ Awake
  BY Known DEF UInv, InFlight, UploadFits, AloneFits
<1>4. \/ store' = store
      \/ store' = Pending(requests[q].what, requests[q].events)
  BY DEF NotSaved
<1>5. requests[q].what \notin crossed => store' = store
  BY <1>3, <1>4 DEF AloneFits, Waiting, UploadFits
<1>6. WorkerFits /\ crossed \subseteq Recordings
  BY DEF UInv
<1>7. WorkerFits'
  BY <1>2, <1>3, <1>4, <1>6, Shapes DEF WorkerFits, EntryFits, Awake, Ready
<1>8. /\ Moves /\ Awake'
      /\ \A p \in Uploads : p # q /\ InFlight(p) => Held' \subseteq crossed
  <2>1. Held' \subseteq Held \cup crossed /\ Awake'
    BY <1>2, <1>3, <1>4, <1>5, Shapes DEF Held, Awake
  <2>2. ASSUME NEW p \in Uploads, p # q, InFlight(p) PROVE Held' \subseteq crossed
    <3>1. /\ requests[p].what \in crossed
          /\ requests[q].what \in crossed
      BY <2>2, OthersCrossed DEF InFlight
    <3>2. QED
      BY <1>3, <2>1, <3>1 DEF AloneFits
  <2>3. QED
    BY <1>2, <1>6, <2>1, <2>2 DEF Moves
<1>9. ASSUME NEW p \in Uploads PROVE UploadFits(p)'
  <2>1. CASE p = q
    BY <1>1, <1>2, <1>3, <2>1 DEF UploadFits
  <2>2. CASE p # q
    <3>1. requests[p].told = "nothing" => requests[p].what \in crossed
      BY <2>2, OthersCrossed DEF InFlight
    <3>2. QED
      BY <1>1, <1>2, <1>8, <2>2, <3>1, OldFits DEF InFlight
  <2>3. QED
    BY <2>1, <2>2
<1>10. OneGood'
  BY <1>1, <1>2, <1>3, GoodStays DEF UInv
<1>11. ASSUME NEW x \in (Recordings \ crossed)' PROVE (Active(x) \/ Waiting(x) \/ Done(x))'
  <2>1. x \in Recordings \ crossed /\ x # 0
    BY <1>2, <1>11, Known
  <2>2. CASE Done(x)
    BY <1>1, <1>2, <1>3, <1>8, <2>1, <2>2, DoneStays
  <2>3. CASE Active(x) \/ Waiting(x)
    <3>1. x \in Held
      BY <2>1, <2>3, Shapes DEF Active, Waiting, Held
    <3>2. store' = store
      BY <1>3, <1>5, <2>1, <3>1 DEF AloneFits
    <3>3. QED
      BY <1>2, <2>3, <3>2 DEF Active, Waiting, Awake, Pending, Empty
  <2>4. QED
    BY <2>1, <2>2, <2>3 DEF UInv
<1>12. QED
  BY <1>1, <1>2, <1>6, <1>7, <1>9, <1>10, <1>11 DEF UInv

--------------------------------------------------------------------------------
\* Every step keeps the recordings.
LEMMA NextUInv == IInv /\ UInv /\ [Next]_vars => UInv'
<1> SUFFICES ASSUME IInv, UInv, [Next]_vars PROVE UInv'
  OBVIOUS
<1>1. CASE \/ StartRecording \/ PushEvent \/ StopRecording \/ WorkerDies
           \/ WorkerWakes \/ Restore \/ DrainTimeout \/ BecomeReady
  BY <1>1, StartKeeps, PushKeeps, StopKeeps, DiesKeeps, WakesKeeps, RestoreKeeps,
     TimeoutKeeps, ReadyKeeps
<1>2. CASE \E p \in Payloads : Call(p)
  BY <1>2, BackendSteps
<1>3. CASE Expire \/ BackendRestarts
  BY <1>3, BackendSteps
<1>4. CASE \E q \in Ids : Arrive(q) \/ Acquire(q) \/ Make(q) \/ Commit(q) \/ RollBack(q)
  BY <1>4, BackendSteps
<1>5. ASSUME NEW q \in Ids, Answer(q) PROVE UInv'
  <2>1. CASE requests[q].at \in {"made", "committed"} /\ Saved(q)
             /\ requests' = [requests EXCEPT ![q].told = "ok"]
             /\ worker' = [worker EXCEPT !.pend = Empty]
    BY <1>5, <2>1, SavedKeeps DEF Answer
  <2>2. CASE requests[q].at = "failed" /\ NotSaved(q)
             /\ requests' = [requests EXCEPT ![q].told = "error"] /\ UNCHANGED worker
    BY <1>5, <2>2, NotSavedKeeps DEF Answer
  <2>3. QED
    BY <1>5, <2>1, <2>2 DEF Answer
<1>6. ASSUME NEW q \in Ids, AnswerLost(q) PROVE UInv'
  BY <1>6, NotSavedKeeps DEF AnswerLost
<1>7. CASE UNCHANGED vars
  <2>1. Uploads' = Uploads /\ UNCHANGED extension /\ requests' = requests
    BY <1>7 DEF vars, extension, Uploads, Ids
  <2>2. \A q \in Uploads : UploadFits(q)
    BY DEF UInv
  <2>3. QED
    BY <2>1, <2>2, BackendKeeps DEF UploadFits
<1>8. QED
  BY <1>1, <1>2, <1>3, <1>4, <1>5, <1>6, <1>7 DEF Next

\* A recording that met neither another one's saving nor a worker that was not ready
\* is in storage, in the queue of the worker or in a workflow with all its events,
\* unless the very commit failed after the answer: for every number of recordings,
\* events, uploads, deaths and starts of the worker, restarts of the backend and lost
\* answers (orchestrator of the extension, record endpoint).
THEOREM RecordingsAreKept == Spec => []NothingLost
<1>1. Init => IInv /\ UInv
  BY InitIInv, InitUInv
<1>2. IInv /\ UInv /\ [Next]_vars => (IInv /\ UInv)'
  BY NextIInv, NextUInv
<1>3. IInv /\ UInv => NothingLost
  <2> SUFFICES ASSUME IInv, UInv, NEW r \in Recordings \ crossed PROVE Kept(r)
    BY DEF NothingLost
  <2>1. CASE Active(r)
    BY <2>1 DEF Active, Kept
  <2>2. CASE Waiting(r)
    <3>1. r # 0
      BY Known
    <3>2. QED
      BY <2>2, <3>1 DEF Waiting, Kept
  <2>3. CASE Done(r)
    <3>1. r # user
      BY <2>3, Known DEF Done, Held
    <3>2. ASSUME NEW q \in Uploads, requests[q].what = r, requests[q].told = "ok"
          PROVE  \/ requests[q].events = heard[r] /\ requests[q].at \in {"made", "committed"}
                 \/ Betrayed(r)
      BY <3>2 DEF UInv, UploadFits, Betrayed
    <3>3. QED
      BY <2>3, <3>1, <3>2 DEF Done, Kept
  <2>4. QED
    BY <2>1, <2>2, <2>3 DEF UInv
<1>4. QED
  BY <1>1, <1>2, <1>3, PTL DEF Spec

\* Without an Idempotency-Key still a recording that did not cross becomes two workflows
\* only when an answer is lost, for every value of the bounds: the answer decides whether
\* the snapshot stays, and a snapshot is sent by one upload at a time.
THEOREM SavedOnceIfAnswered == Spec => []TwiceOnlyIfUnanswered
<1>1. Init => IInv /\ UInv
  BY InitIInv, InitUInv
<1>2. IInv /\ UInv /\ [Next]_vars => (IInv /\ UInv)'
  BY NextIInv, NextUInv
<1>3. IInv /\ UInv => TwiceOnlyIfUnanswered
  <2> SUFFICES ASSUME IInv, UInv PROVE TwiceOnlyIfUnanswered
    OBVIOUS
  <2>1. ASSUME NEW q \in Uploads, requests[q].told # "lost", requests[q].at # "failed"
        PROVE  requests[q].told \in {"nothing", "ok"}
    <3>1. requests[q] \in RequestType /\ UploadFits(q)
      BY Known DEF UInv
    <3>2. QED
      BY <2>1, <3>1 DEF RequestType, UploadFits
  <2>2. QED
    BY <2>1 DEF UInv, OneGood, TwiceOnlyIfUnanswered
<1>4. QED
  BY <1>1, <1>2, <1>3, PTL DEF Spec
================================================================================
