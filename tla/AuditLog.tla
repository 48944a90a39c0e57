------------------------------- MODULE AuditLog --------------------------------
(***************************************************************************)
(* The audit log of services/audit.py: requests that append events to the  *)
(* hash chain of a run, each in its own transaction.  append stamps the    *)
(* event, then locks the row of the run, then looks for the newest event   *)
(* and for the highest sequence number.  Handlers that had locked the run  *)
(* before (every transition) hold the lock when they stamp; the others     *)
(* (POST /events/record, heal results, extractions) do not.                *)
(*                                                                         *)
(* A hash names the event it was computed for, and the sequence number     *)
(* names an event of a run, so previous_hash is the sequence number of the *)
(* event whose hash was taken, 0 being the seed.                           *)
(***************************************************************************)
EXTENDS Integers, FiniteSets

CONSTANTS Appenders,    \* concurrent requests
          Nobody,       \* a row lock is free
          Runs,
          Keys,         \* idempotency keys
          NoKey,
          Callers,      \* the kinds of handlers that append
          MaxClock,     \* bound: readings of the clock
          MaxEvents     \* bound: events of a run

VARIABLES log,          \* committed events
          mine,         \* [Appenders -> events inserted, not committed]
          rowLock,      \* [Runs -> the appender holding the row of the run]
          clock,        \* datetime.now
          phase,        \* [Appenders -> phase]
          req,          \* [Appenders -> run, key and caller]
          stamp         \* [Appenders -> created_at of the event being appended]

logVars == <<log, mine, rowLock, clock, phase, req, stamp>>

\* "transition" locks the run before it calls append, "record" does not.
CallerKinds == {"transition", "record"}

ASSUME AppendersAssumption == Nobody \notin Appenders
ASSUME RunsAssumption == Runs # {}
ASSUME KeysAssumption == NoKey \notin Keys
ASSUME CallersAssumption == Callers \subseteq CallerKinds
ASSUME BoundsAssumption == MaxClock \in Nat /\ MaxEvents \in Nat \ {0}

Event == [run : Runs, seq : 1..MaxEvents, stamp : 0..MaxClock,
          prev : 0..MaxEvents, key : Keys \cup {NoKey}, by : Appenders]
Request == [run : Runs, key : Keys \cup {NoKey}, caller : CallerKinds]

LogTypeOK ==
    /\ log \in SUBSET Event
    /\ mine \in [Appenders -> SUBSET Event]
    /\ rowLock \in [Runs -> Appenders \cup {Nobody}]
    /\ clock \in 0..MaxClock
    /\ phase \in [Appenders -> {"idle", "called", "stamped", "inserted"}]
    /\ req \in [Appenders -> Request]
    /\ stamp \in [Appenders -> 0..MaxClock]

NoRequest == [run |-> CHOOSE r \in Runs : TRUE, key |-> NoKey, caller |-> "record"]

LogInit ==
    /\ log = {}
    /\ mine = [a \in Appenders |-> {}]
    /\ rowLock = [r \in Runs |-> Nobody]
    /\ clock = 0
    /\ phase = [a \in Appenders |-> "idle"]
    /\ req = [a \in Appenders |-> NoRequest]
    /\ stamp = [a \in Appenders |-> 0]

--------------------------------------------------------------------------------

EventsOf(r, S) == {e \in S : e.run = r}

\* What a reads of the chain of a run: committed events, and its own.
Visible(a, r) == EventsOf(r, log \cup mine[a])

\* Mutant: ORDER BY created_at DESC alone.
NewestOfTie(S) == {e \in S : \A f \in S : f.stamp <= e.stamp}

\* ORDER BY created_at DESC, sequence_number DESC LIMIT 1
Newest(S) ==
    {e \in S : \A f \in S : f.stamp < e.stamp \/ (f.stamp = e.stamp /\ f.seq <= e.seq)}

\* The previous_hash append may take: the newest event's, or the seed.
PreviousHashes(S) == IF S = {} THEN {0} ELSE {e.seq : e \in Newest(S)}

\* MAX(sequence_number), 0 for a run without events.
MaxSeq(S) == IF S = {} THEN 0 ELSE CHOOSE n \in {e.seq : e \in S} : \A e \in S : e.seq <= n

\* Mutants: append without its SELECT ... FOR UPDATE; a transition that appends
\* before it locks.
FreeForAll(a, r) == TRUE
LocksNothing(k) == FALSE
MayLock(a, r) == rowLock[r] \in {a, Nobody}
LocksFirst(k) == k.caller = "transition"

--------------------------------------------------------------------------------

\* A request arrives.  /events/record looks its key up before it appends, and
\* answers with the event that has it, or 409: nothing is appended then.
Call(a) ==
    /\ phase[a] = "idle"
    /\ \E r \in Runs, k \in Keys \cup {NoKey}, caller \in Callers :
          LET q == [run |-> r, key |-> k, caller |-> caller]
          IN  /\ k # NoKey => caller = "record" /\ \A e \in log : e.key # k
              /\ req' = [req EXCEPT ![a] = q]
              /\ IF LocksFirst(q)
                 THEN MayLock(a, r) /\ rowLock' = [rowLock EXCEPT ![r] = a]
                 ELSE UNCHANGED rowLock
    /\ phase' = [phase EXCEPT ![a] = "called"]
    /\ UNCHANGED <<log, mine, clock, stamp>>

\* now = datetime.now(UTC)
Stamp(a) ==
    /\ phase[a] = "called"
    /\ stamp' = [stamp EXCEPT ![a] = clock]
    /\ phase' = [phase EXCEPT ![a] = "stamped"]
    /\ UNCHANGED <<log, mine, rowLock, clock, req>>

\* The rest of append: lock the run, chain to the newest event, take the next
\* sequence number, INSERT.
Insert(a) ==
    LET r == req[a].run
        S == Visible(a, r)
    IN  /\ phase[a] = "stamped"
        /\ MayLock(a, r)
        /\ MaxSeq(S) < MaxEvents
        /\ rowLock' = [rowLock EXCEPT ![r] = a]
        /\ \E prev \in PreviousHashes(S) :
              mine' = [mine EXCEPT ![a] = @ \cup
                          {[run |-> r, seq |-> MaxSeq(S) + 1, stamp |-> stamp[a],
                            prev |-> prev, key |-> req[a].key, by |-> a]}]
        /\ phase' = [phase EXCEPT ![a] = "inserted"]
        /\ UNCHANGED <<log, clock, req, stamp>>

\* A handler that appends another event in the same transaction (pause appends
\* run_waiting_for_user and run_paused).
AppendMore(a) ==
    /\ phase[a] = "inserted"
    /\ req[a].key = NoKey
    /\ phase' = [phase EXCEPT ![a] = "called"]
    /\ UNCHANGED <<log, mine, rowLock, clock, req, stamp>>

\* The transaction of a is over; its locks are released.
End(a) ==
    /\ mine' = [mine EXCEPT ![a] = {}]
    /\ rowLock' = [r \in Runs |-> IF rowLock[r] = a THEN Nobody ELSE rowLock[r]]
    /\ phase' = [phase EXCEPT ![a] = "idle"]
    /\ req' = [req EXCEPT ![a] = NoRequest]
    /\ stamp' = [stamp EXCEPT ![a] = 0]
    /\ UNCHANGED clock

CommitLog(a) ==
    /\ phase[a] = "inserted"
    /\ log' = log \cup mine[a]
    /\ End(a)

\* An exception, or the backend dies.
Rollback(a) ==
    /\ phase[a] # "idle"
    /\ End(a)
    /\ UNCHANGED log

Tick ==
    /\ clock < MaxClock
    /\ clock' = clock + 1
    /\ UNCHANGED <<log, mine, rowLock, phase, req, stamp>>

LogNext ==
    \/ \E a \in Appenders : \/ Call(a) \/ Stamp(a) \/ Insert(a) \/ AppendMore(a)
                            \/ CommitLog(a) \/ Rollback(a)
    \/ Tick

LogSpec == LogInit /\ [][LogNext]_logVars

--------------------------------------------------------------------------------

AllEvents == log \cup UNION {mine[a] : a \in Appenders}

\* The sequence numbers of a run are 1, 2, 3 ... without a gap or a repetition
\* for whoever reads the log, whatever transactions were rolled back.
SequenceDense ==
    \A r \in Runs : \A e \in EventsOf(r, log) :
        /\ \A n \in 1..e.seq : \E f \in EventsOf(r, log) : f.seq = n
        /\ \A f \in EventsOf(r, log) : f.seq = e.seq => f = e

\* uq_event_log_run_seq never fires: no two transactions, open or committed,
\* hold the same sequence number of a run, so no append fails on it.
NeverCollides ==
    \A e, f \in AllEvents : e.run = f.run /\ e.seq = f.seq => e = f

\* verify_chain(run): each event was chained to the one before it.
ChainVerifies(r) == \A e \in EventsOf(r, log) : e.prev + 1 = e.seq

\* The chain of every run verifies.
ChainsVerify == \A r \in Runs : ChainVerifies(r)

\* created_at and sequence_number order the events of r alike.
InOrder(r) == \A e, f \in EventsOf(r, log) : e.seq < f.seq => e.stamp <= f.stamp

\* A chain breaks only where created_at contradicts the sequence numbers: as
\* long as they agree verify_chain finds nothing, also with equal stamps.
BreaksOnlyByInversion == \A r \in Runs : InOrder(r) => ChainVerifies(r)

================================================================================
