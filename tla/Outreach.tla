------------------------------- MODULE Outreach -------------------------------
(***************************************************************************)
(* The outreach of one position: recommended candidates are added to its   *)
(* LinkedIn project, blocked ones are archived, the others are messaged by *)
(* a chain of runs.  Everything goes through runs on one seat: requests    *)
(* and the terminal hooks of RecruiterPipelineService queue them, the      *)
(* daemon performs one at a time, higher priority first.                   *)
(*                                                                         *)
(* A request or hook decides on what it reads and commits later, after     *)
(* calls to Odoo: draft is such a decision, one at a time (bound).         *)
(***************************************************************************)
EXTENDS Integers, Sequences, FiniteSets
LOCAL INSTANCE FiniteSetsExt

CONSTANTS People,            \* candidates that LinkedIn may recommend
          Saved,             \* those that the sourcing has saved to the project
          Blocked,           \* those on the blacklist of Odoo
          BatchSize,         \* recruiter_message_batch_size
          DailyCap,          \* recruiter_auto_message_daily_cap
          MaxContinuations,  \* recruiter_message_max_continuations
          MaxSweep,          \* recruiter_max_sweep_archives_per_run
          Demands,           \* the sends that Odoo asks for: [send, cap], 0 is no cap
          MaxRuns, MaxDays   \* bounds: runs of the position, days

ASSUME OutreachAssumption ==
    /\ IsFiniteSet(People) /\ Saved \cup Blocked \subseteq People
    /\ BatchSize \in Nat \ {0} /\ Demands \subseteq [send : BOOLEAN, cap : Nat]
    /\ {DailyCap, MaxContinuations, MaxSweep, MaxRuns, MaxDays} \subseteq Nat

VARIABLES runs,    \* the runs of the position, in the order of created_at
          draft,   \* a run that a slow request has decided on, or <<>>
          stage,   \* LinkedIn: where each person is in the project
          lead,    \* Odoo: what the position knows of each person
          day,     \* the day; 24 hours are one day
          sends,   \* history: [to, by, on] for every message that LinkedIn confirmed
          seen     \* history: messages that went out unconfirmed (stray), people that
                   \* were written to and left unmoved, people that an archive run
                   \* did not find (missed), and trouble

vars == <<runs, draft, stage, lead, day, sends, seen>>

Ids == DOMAIN runs
Active(i) == runs[i].status \in {"queued", "running"}
ActiveKind(kind) == \E i \in Ids : Active(i) /\ runs[i].kind = kind

--------------------------------------------------------------------------------
\* _create_pipeline_run.  told, passed and team fill in as a message run works.
Fresh(kind) ==
    [kind |-> kind, status |-> "queued", created |-> day, hook |-> FALSE,
     whom |-> {}, send |-> FALSE, auto |-> FALSE, cap |-> 0,
     chain |-> 0, index |-> 0, total |-> 0, skip |-> {},
     batch |-> {}, told |-> {}, passed |-> {}, team |-> {}, more |-> FALSE,
     lost |-> FALSE]

Archive(p) == [Fresh("archive") EXCEPT !.whom = {p}]

\* A run whose hook is past keeps what later decisions read of it.
Spent(r) == [r EXCEPT !.hook = FALSE, !.skip = {}, !.batch = {}, !.passed = {},
                      !.team = {}, !.more = FALSE, !.lost = @ /\ r.told # {}]

\* Pipeline and message runs have priority 10, archives -10.
Before(i, j) ==
    \/ runs[i].kind # "archive" /\ runs[j].kind = "archive"
    \/ (runs[i].kind = "archive" <=> runs[j].kind = "archive") /\ i < j

\* The position has been sourced: some people were saved to its project.
Init ==
    /\ runs = <<>> /\ draft = <<>>
    /\ stage = [p \in People |-> IF p \in Saved THEN "uncontacted" ELSE "out"]
    /\ lead = [p \in People |-> IF p \in Saved THEN "lead" ELSE "none"]
    /\ day = 0 /\ sends = {}
    /\ seen = [stray |-> {}, unmoved |-> {}, missed |-> {}, trouble |-> FALSE]

\* The decision is committed at once, or it stays a draft for a while.
Enqueue(base, r) ==
    \/ runs' = Append(base, r) /\ UNCHANGED draft
    \/ draft = <<>> /\ draft' = <<r>> /\ runs' = base

Commit ==
    /\ draft # <<>>
    /\ runs' = runs \o draft /\ draft' = <<>>
    /\ UNCHANGED <<stage, lead, day, sends, seen>>

HasRoom == Len(runs) + Len(draft) < MaxRuns

--------------------------------------------------------------------------------
\* Requests from Odoo.

SaveRecommendations ==
    /\ HasRoom /\ ~ActiveKind("recommend")
    /\ Enqueue(runs, Fresh("recommend"))
    /\ UNCHANGED <<stage, lead, day, sends, seen>>

\* send_messages up to its run: deferred while an archive is active, collapsed
\* onto an active message run, whatever that one was asked to do.
MaySend == ~ActiveKind("archive") /\ ~ActiveKind("message")

Message(send, auto, cap) ==
    [Fresh("message") EXCEPT !.send = send, !.auto = auto, !.cap = cap]

\* Two message runs are being decided on at once: the budget is read twice.
Overlaps == draft # <<>> /\ draft[1].kind = "message"

SendMessages(send, cap) ==
    /\ HasRoom /\ MaySend
    /\ Enqueue(runs, Message(send, FALSE, cap))
    /\ seen' = [seen EXCEPT !.trouble = @ \/ Overlaps]
    /\ UNCHANGED <<stage, lead, day, sends>>

\* A lead is deleted in Odoo.
RemoveCandidate(p) ==
    /\ HasRoom /\ lead[p] \notin {"none", "removed"}
    /\ Enqueue(runs, Archive(p))
    /\ UNCHANGED <<stage, lead, day, sends, seen>>

Requests ==
    \/ SaveRecommendations
    \/ \E d \in Demands : SendMessages(d.send, d.cap)
    \/ \E p \in People : RemoveCandidate(p)

--------------------------------------------------------------------------------
\* The daemon on the seat.

Claim(i) ==
    /\ \A j \in Ids : runs[j].status # "running"
    /\ runs[i].status = "queued"
    /\ \A j \in Ids : runs[j].status = "queued" => ~Before(j, i)
    /\ runs' = [runs EXCEPT ![i].status = "running"]
    /\ UNCHANGED <<draft, stage, lead, day, sends, seen>>

Performs(i, kind) == runs[i].status = "running" /\ runs[i].kind = kind

\* A run completes even where the upload of what it found or did is lost: the
\* hook then finds no extraction of it, and its verdict is not asked for.
Done(r, lost) == [r EXCEPT !.status = "done", !.hook = TRUE, !.lost = lost]

\* The recommended people that were not in the project yet: who seems added is.
AddRecommended(i, found, lost) ==
    /\ Performs(i, "recommend")
    /\ \A p \in found : stage[p] = "out"
    /\ stage' = [p \in People |-> IF p \in found THEN "uncontacted" ELSE stage[p]]
    /\ runs' = [runs EXCEPT ![i] = Done([@ EXCEPT !.whom = found], lost)]
    /\ UNCHANGED <<draft, lead, day, sends, seen>>

\* The person is found in the list of the project and archived.
ArchivePerson(i, lost) ==
    /\ Performs(i, "archive")
    /\ \A p \in runs[i].whom : stage[p] \in {"uncontacted", "contacted"}
    /\ stage' = [p \in People |-> IF p \in runs[i].whom THEN "archived" ELSE stage[p]]
    /\ runs' = [runs EXCEPT ![i] = Done(@, lost)]
    /\ UNCHANGED <<draft, lead, day, sends, seen>>

\* The pages of the list that are searched do not show the person, who may be
\* in the project all the same: the run reports them as gone.
MissPerson(i, lost) ==
    /\ Performs(i, "archive")
    /\ runs' = [runs EXCEPT ![i] = Done(@, lost)]
    /\ seen' = [seen EXCEPT !.missed = IF lost THEN @ ELSE @ \cup runs[i].whom]
    /\ UNCHANGED <<draft, stage, lead, day, sends>>

\* The native stage "uncontacted", and the people of it that are not passed over.
Uncontacted == {p \in People : stage[p] = "uncontacted"}
Skips(r) == r.skip \cup r.passed
Eligible(r) == Uncontacted \ Skips(r)
Skipped(r) == r.passed \cup r.team
Worked(r) == ~r.lost /\ r.told \cup Skipped(r) # {}

\* A batch, less in a run whose cap is near or whose list is; at least one.
Wanted(r) ==
    LET left == Max({Cardinality(Uncontacted) - Cardinality(Skips(r)), 1})
        batch == Min({left, BatchSize, Cardinality(Eligible(r))})
        room == r.cap - Cardinality(r.told)
    IN  IF r.cap = 0 \/ batch <= room THEN batch ELSE room

Batch(i, b) ==
    /\ Performs(i, "message") /\ runs[i].send
    /\ runs[i].batch = {} /\ ~runs[i].more
    /\ b \subseteq Eligible(runs[i]) /\ b # {}
    /\ Cardinality(b) = Wanted(runs[i])

\* LinkedIn refuses a batch with anybody who was written to within 24 hours.
Mail == sends \cup seen.stray
Refused(b) == \E s \in Mail : s.to \in b /\ s.on = day

Letters(i, people) == {[to |-> p, by |-> i, on |-> day] : p \in people}

\* The composer closes after the click: the batch was sent.
SendBatch(i, b) ==
    /\ Batch(i, b) /\ ~Refused(b)
    /\ sends' = sends \cup Letters(i, b)
    /\ runs' = [runs EXCEPT ![i].batch = b, ![i].told = @ \cup b]
    /\ seen' = [seen EXCEPT !.trouble = @ \/ day # runs[i].created]
    /\ UNCHANGED <<draft, stage, lead, day>>

\* It does not: some of the batch (gone) may have been written to.  The run
\* neither counts nor moves them, and stops.
SendUnconfirmed(i, b, gone) ==
    /\ Batch(i, b) /\ ~Refused(b) /\ gone \subseteq b
    /\ runs' = [runs EXCEPT ![i].more = TRUE]
    /\ seen' = [seen EXCEPT !.stray = @ \cup Letters(i, gone), !.unmoved = @ \cup gone]
    /\ UNCHANGED <<draft, stage, lead, day, sends>>

\* Mutant: the batch that was sent stays where it is.
ContactsNone(b) == stage

Contacts(b) == [p \in People |-> IF p \in b THEN "contacted" ELSE stage[p]]

AtCap(r) == r.cap > 0 /\ Cardinality(r.told) >= r.cap

\* After a reload the batch that was sent is selected again, noted and moved to
\* "contacted": as many of it as are found (part).  Where the note or the move
\* fails the run stops, and says that more people remain unless it is capped.
MoveBatch(i, part, stops) ==
    /\ Performs(i, "message") /\ runs[i].batch # {}
    /\ part \subseteq runs[i].batch /\ (part = {} => stops)
    /\ stage' = Contacts(part)
    /\ runs' = [runs EXCEPT ![i].batch = {}, ![i].more = stops /\ ~AtCap(runs[i])]
    /\ seen' = [seen EXCEPT !.unmoved = @ \cup (runs[i].batch \ part)]
    /\ UNCHANGED <<draft, lead, day, sends>>

\* LinkedIn flags a batch, which is left out whole: somebody was written to
\* within 24 hours, for this position or another, or a colleague (team) was in
\* touch; the latter are moved, as many as are found, or none if that fails,
\* when they are passed over like the others.
DeferBatch(i, b, team, part) ==
    /\ Batch(i, b) /\ part \subseteq b /\ (part # {} => team)
    /\ stage' = Contacts(part)
    /\ runs' = [runs EXCEPT ![i].team = IF team THEN @ \cup b ELSE @,
                            ![i].passed = IF part # {} THEN @ ELSE @ \cup b]
    /\ UNCHANGED <<draft, lead, day, sends, seen>>

\* A message run ends: nobody is left but those it passes over, its cap is
\* reached, its time or the credits are up, or nobody can be selected.
EndMessage(i, more) ==
    LET r == runs[i]
        drained == Worked(r) /\ Cardinality(Uncontacted) <= Cardinality(Skips(r))
    IN  /\ Performs(i, "message") /\ r.send /\ r.batch = {}
        /\ \/ drained /\ more = (Skips(r) # {})
           \/ AtCap(r) /\ ~more
           \/ Worked(r) /\ more
           \/ ~drained /\ ~r.more /\ Eligible(r) = {} /\ Skips(r) # {} /\ ~more
        /\ (r.more => more /\ r.told # {})
        /\ runs' = [runs EXCEPT ![i] = Done([@ EXCEPT !.more = more], FALSE)]
        /\ UNCHANGED <<draft, stage, lead, day, sends, seen>>

\* It ends, however it fared, and the upload of what it did is lost.
EndUnread(i) ==
    /\ Performs(i, "message") /\ runs[i].batch = {}
    /\ runs' = [runs EXCEPT ![i] = Done(@, TRUE)]
    /\ seen' = [seen EXCEPT !.trouble = @ \/ runs[i].told # {}]
    /\ UNCHANGED <<draft, stage, lead, day, sends>>

\* A preview stops before it sends.
EndPreview(i) ==
    /\ Performs(i, "message") /\ ~runs[i].send /\ Uncontacted # {}
    /\ runs' = [runs EXCEPT ![i] = Done(@, FALSE)]
    /\ UNCHANGED <<draft, stage, lead, day, sends, seen>>

\* Nobody is uncontacted, a first batch is unconfirmed, a wall, the watchdog or
\* a power cut, even between a send and its move.  What the run had sent is
\* neither reported nor counted.
Fail(i) ==
    /\ runs[i].status = "running"
    /\ runs' = [runs EXCEPT ![i] = [Spent(@) EXCEPT !.status = "failed", !.told = {}]]
    /\ seen' = [seen EXCEPT !.unmoved = @ \cup runs[i].batch,
                            !.trouble = @ \/ runs[i].told # {}]
    /\ UNCHANGED <<draft, stage, lead, day, sends>>

Daemon ==
    \E i \in Ids :
        \/ Claim(i) \/ EndPreview(i) \/ EndUnread(i) \/ Fail(i)
        \/ \E lost \in BOOLEAN : ArchivePerson(i, lost) \/ MissPerson(i, lost)
        \/ \E more \in BOOLEAN : EndMessage(i, more)
        \/ \E part \in SUBSET runs[i].batch, stops \in BOOLEAN : MoveBatch(i, part, stops)
        \/ runs[i].status = "running" /\ \E b \in SUBSET People :
              \/ SendBatch(i, b)
              \/ \E lost \in BOOLEAN : AddRecommended(i, b, lost)
              \/ \E part \in SUBSET b :
                    \/ SendUnconfirmed(i, b, part)
                    \/ \E team \in BOOLEAN : DeferBatch(i, b, team, part)

--------------------------------------------------------------------------------
\* The terminal hooks, each after the commit of its run.
Handled(i) == [runs EXCEPT ![i] = Spent(@)]
Owed(i, kind) == runs[i].hook /\ runs[i].kind = kind

\* Odoo may be out of reach: then a push is dropped, and the blacklist is empty.
Push(known, people, status) ==
    {known, [p \in People |-> IF p \in people THEN status ELSE known[p]]}

PushRecruiterLeads(people) == Push(lead, people, "lead")
PushOutreachUpdate(people) == Push(lead, people, "messaged")
PushContactedByTeam(known, people) == Push(known, people, "team")
PushLeadRemoved(people) == Push(lead, people, "removed")
FetchLeadBlacklist == {Blocked, {}}

\* _recently_archived_names.
AlreadyArchived ==
    UNION {runs[i].whom : i \in {j \in Ids : runs[j].kind = "archive" /\ runs[j].status # "failed"}}

\* sweep_blacklisted: at most MaxSweep archives, nobody twice.
Sweeps(blacklisted) ==
    LET due == blacklisted \ AlreadyArchived
        n == IF Cardinality(due) <= MaxSweep THEN Cardinality(due) ELSE MaxSweep
    IN  {[k \in 1..n |-> Archive(s[k])] :
            s \in {s \in [1..n -> due] : \A a, b \in 1..n : s[a] = s[b] => a = b}}

\* _last_human_message: somebody has sent a copy for this position.
HumanCopy ==
    \E i \in Ids : runs[i].kind = "message" /\ runs[i].status = "done"
                   /\ runs[i].send /\ ~runs[i].auto

\* _sent_last_24h: by completed runs, at the day they were created.
SentBy(r) == r.kind = "message" /\ r.status = "done" /\ ~r.lost /\ r.created = day

\* Mutant: only the sends of the automation count.
SentAlone ==
    Cardinality({m \in Ids \X People :
                    SentBy(runs[m[1]]) /\ runs[m[1]].auto /\ m[2] \in runs[m[1]].told})

SentToday ==
    Cardinality({m \in Ids \X People : SentBy(runs[m[1]]) /\ m[2] \in runs[m[1]].told})

\* _auto_send_after_recommendations.
MaySendAlone == MaySend /\ HumanCopy /\ SentToday < DailyCap

AfterRecommendations(i) ==
    \E blacklist \in FetchLeadBlacklist :
    LET found == IF runs[i].lost THEN {} ELSE runs[i].whom
        blacklisted == found \cap blacklist
    IN  /\ Owed(i, "recommend")
        /\ lead' \in PushRecruiterLeads(found \ blacklist)
        /\ IF blacklisted # {}
           THEN /\ \E sweep \in Sweeps(blacklisted) :
                       /\ Len(runs) + Len(draft) + Len(sweep) <= MaxRuns
                       /\ runs' = Handled(i) \o sweep
                /\ UNCHANGED <<draft, seen>>
           ELSE IF found # {} /\ MaySendAlone
           THEN /\ HasRoom
                /\ Enqueue(Handled(i), Message(TRUE, TRUE, DailyCap - SentToday))
                /\ seen' = [seen EXCEPT !.trouble = @ \/ Overlaps]
           ELSE runs' = Handled(i) /\ UNCHANGED <<draft, seen>>
        /\ UNCHANGED <<stage, day, sends>>

\* The first run of the chain that a run belongs to.
Root(i) == IF runs[i].chain = 0 THEN i ELSE runs[i].chain

\* The next run of a chain carries the totals and the people to pass over.
\* Mutant: the total misses the run that has just ended.
ContinuationBehind(i) ==
    LET r == runs[i]
    IN [Message(TRUE, FALSE, 0) EXCEPT
        !.chain = Root(i), !.index = r.index + 1,
        !.total = r.total, !.skip = r.skip \cup r.passed]

Continuation(i) ==
    LET r == runs[i]
    IN [Message(TRUE, FALSE, 0) EXCEPT
        !.chain = Root(i), !.index = r.index + 1,
        !.total = r.total + Cardinality(r.told), !.skip = r.skip \cup r.passed]

MayChain(r) ==
    r.more /\ r.send /\ Worked(r) /\ r.cap = 0 /\ r.index < MaxContinuations

AfterMessage(i) ==
    LET r == runs[i]
    IN  /\ Owed(i, "message")
        /\ IF r.send /\ Worked(r)
           THEN \E known \in PushOutreachUpdate(r.told) :
                    lead' \in PushContactedByTeam(known, r.team)
           ELSE lead' = lead
        /\ IF MayChain(r) /\ MaySend
           THEN /\ HasRoom /\ Enqueue(Handled(i), Continuation(i))
                /\ seen' = [seen EXCEPT !.trouble = @ \/ Overlaps]
           ELSE runs' = Handled(i) /\ UNCHANGED <<draft, seen>>
        /\ UNCHANGED <<stage, day, sends>>

\* Mutant: the lead of a completed archive run is removed, read or not.
AfterArchiveUnread(i) ==
    /\ Owed(i, "archive")
    /\ lead' \in PushLeadRemoved(runs[i].whom)
    /\ runs' = Handled(i)
    /\ UNCHANGED <<draft, stage, day, sends, seen>>

\* A lead goes when its run says that the person was archived, or is gone.
AfterArchive(i) ==
    /\ Owed(i, "archive")
    /\ lead' \in IF runs[i].lost THEN {lead} ELSE PushLeadRemoved(runs[i].whom)
    /\ runs' = Handled(i)
    /\ UNCHANGED <<draft, stage, day, sends, seen>>

Hooks == \E i \in Ids : AfterRecommendations(i) \/ AfterMessage(i) \/ AfterArchive(i)

\* Hooks and drafts live in requests, which a restart of the backend ends.
BackendRestart ==
    /\ draft # <<>> \/ (\E i \in Ids : runs[i].hook)
    /\ draft' = <<>>
    /\ runs' = [i \in Ids |-> IF runs[i].hook THEN Spent(runs[i]) ELSE runs[i]]
    /\ UNCHANGED <<stage, lead, day, sends, seen>>

\* Bounds: the day matters once something was sent, and ends between two runs.
NextDay ==
    /\ day < MaxDays /\ sends # {} /\ draft = <<>>
    /\ \A i \in Ids : runs[i].status # "running"
    /\ day' = day + 1
    /\ UNCHANGED <<runs, draft, stage, lead, sends, seen>>

Next == Requests \/ Commit \/ Daemon \/ Hooks \/ BackendRestart \/ NextDay

Spec == Init /\ [][Next]_vars

--------------------------------------------------------------------------------
Run == [kind : {"recommend", "message", "archive"},
        status : {"queued", "running", "done", "failed"},
        created : 0..MaxDays, hook : BOOLEAN, whom : SUBSET People,
        send : BOOLEAN, auto : BOOLEAN, cap : Nat, chain : Nat,
        index : 0..MaxContinuations, total : Nat, skip : SUBSET People,
        batch : SUBSET People, told : SUBSET People, passed : SUBSET People,
        team : SUBSET People, more : BOOLEAN, lost : BOOLEAN]

Letter == [to : People, by : Nat, on : 0..MaxDays]

TypeOK ==
    /\ runs \in Seq(Run) /\ Len(runs) <= MaxRuns
    /\ draft \in Seq(Run) /\ Len(draft) <= 1
    /\ stage \in [People -> {"out", "uncontacted", "contacted", "archived"}]
    /\ lead \in [People -> {"none", "lead", "messaged", "team", "removed"}]
    /\ day \in 0..MaxDays
    /\ sends \subseteq Letter
    /\ DOMAIN seen = {"stray", "unmoved", "missed", "trouble"} /\ seen.stray \subseteq Letter
    /\ {seen.unmoved, seen.missed} \subseteq SUBSET People /\ seen.trouble \in BOOLEAN

\* The comment on recruiter_auto_message_daily_cap: at most that many messages
\* per position and day where the automation sends, those of people included, of
\* the messages that LinkedIn confirmed.  Only as long as every message run that
\* sent anything completed on the day it was created, its extraction arrived,
\* and no two were decided on at once: nothing else counts what was sent.
AutoWithinCap ==
    ~seen.trouble =>
        \A s \in sends : runs[s.by].auto =>
            Cardinality({t \in sends : t.on = s.on /\ t.by <= s.by}) <= DailyCap

\* Nobody is written to twice, by one run or by two, except a person that a run
\* had written to without taking them off the list: the send was not confirmed,
\* the run did not get to the move, or the move missed them.
MessagedOnce ==
    \A s, t \in Mail : s.to = t.to => s = t \/ s.to \in seen.unmoved

\* The chain that ends with a summary in Odoo reports what its runs sent: the
\* totals it carries are the confirmed messages of all its earlier runs, however
\* long it is and whatever was queued in between; a run whose extraction is lost
\* ends its chain.
ChainTotals ==
    \A i \in Ids : runs[i].kind = "message" =>
        /\ runs[i].total = Cardinality({s \in sends : s.by < i /\ Root(s.by) = Root(i)})
        /\ runs[i].auto => \A j \in Ids : j # i => Root(j) # Root(i)

\* Odoo claims no more than the runs found: a lead that counts as messaged was
\* written to, with LinkedIn's confirmation, and a lead that is gone was archived
\* or could not be found in the project by a run that looked for it.
OdooFollows ==
    \A p \in People :
        /\ lead[p] = "messaged" => \E s \in sends : s.to = p
        /\ lead[p] = "removed" => stage[p] = "archived" \/ p \in seen.missed
================================================================================
