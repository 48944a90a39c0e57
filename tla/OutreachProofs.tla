----------------------------- MODULE OutreachProofs -----------------------------
(***************************************************************************)
(* Nobody is written to twice, and Odoo claims no more than was done: for  *)
(* every set of people, every blacklist, every batch size, cap and number  *)
(* of continuations, MessagedOnce and OdooFollows are invariants.          *)
(*                                                                         *)
(* Neither is inductive.  What makes them so: one run at a time is on the  *)
(* seat; a batch belongs to that run and is uncontacted until it is moved; *)
(* whoever was written to is off the list, in such a batch, or recorded as *)
(* left unmoved; a message that may have gone out unconfirmed counts as    *)
(* written and leaves its person unmoved.                                  *)
(*                                                                         *)
(* And the sums of the outreach: the totals that a chain of message runs   *)
(* carries are what its runs have sent (ChainTotals), and the automation   *)
(* stays within its daily cap (AutoWithinCap).                             *)
(*                                                                         *)
(* Both are sums over runs that a step changes in one place.  What makes   *)
(* them inductive: a run joins a chain only when all its runs are settled  *)
(* (Chained, Joins), so that what is sent later belongs to no total yet;   *)
(* a run has told each person it wrote to once, and no more than its cap   *)
(* (Tally), since what it sent it sent today (Today) and LinkedIn refuses  *)
(* whoever was written to that day; and without trouble a single message   *)
(* run works or waits, so what SentToday counted is what was sent          *)
(* (Capped).                                                               *)
(***************************************************************************)
EXTENDS Outreach, FiniteSetTheorems, TLAPS

Fields == {"kind", "status", "created", "hook", "whom", "send", "auto", "cap", "chain",
           "index", "total", "skip", "batch", "told", "passed", "team", "more", "lost"}

IsRun(r) == DOMAIN r = Fields

\* A run that was queued and nothing more.
New(r) ==
    IsRun(r) /\ r.status = "queued" /\ ~r.hook /\ ~r.lost /\ r.batch = {} /\ r.told = {}

Running(r) == r.status = "running"

\* A run against the project on LinkedIn, what was sent and whom no run found.
Fit(r, onList, sent, missed) ==
    /\ IsRun(r)
    /\ r.hook \/ r.lost => r.status = "done"
    /\ r.batch # {} => Running(r) /\ r.kind = "message" /\ r.send
    /\ \A p \in r.batch : p \in People /\ onList[p] = "uncontacted"
    /\ \A p \in r.told : \E s \in sent : s.to = p
    /\ r.kind = "archive" /\ r.hook /\ ~r.lost
       => \A p \in r.whom \cap People : onList[p] = "archived" \/ p \in missed

IsSeq(s) == \E S : s \in Seq(S)

OneRunning(s) == \A i, j \in DOMAIN s : Running(s[i]) /\ Running(s[j]) => i = j

Fits(s, onList, sent, missed) ==
    /\ IsSeq(s) /\ OneRunning(s)
    /\ \A i \in DOMAIN s : Fit(s[i], onList, sent, missed)

AllNew(s) == IsSeq(s) /\ \A i \in DOMAIN s : New(s[i])

\* Whoever was written to is off the list, in the batch of a run, or left unmoved.
OffList(s, onList, sent, unmoved) ==
    \A m \in sent :
        /\ m.to \in People
        /\ \/ m.to \in unmoved \/ onList[m.to] \in {"contacted", "archived"}
           \/ \E i \in DOMAIN s : m.to \in s[i].batch

\* Whoever may have been written to without confirmation is left unmoved.
Orderly(w) ==
    /\ DOMAIN w = {"stray", "unmoved", "missed", "trouble"}
    /\ \A m \in w.stray : m.to \in w.unmoved

IInv ==
    /\ Fits(runs, stage, sends, seen.missed) /\ AllNew(draft)
    /\ OffList(runs, stage, sends, seen.unmoved)
    /\ Orderly(seen)
    /\ MessagedOnce /\ OdooFollows

--------------------------------------------------------------------------------
\* The runs that requests and hooks make are new.
LEMMA MadeNew ==
    ASSUME NEW kind
    PROVE  /\ New(Fresh(kind))
           /\ \A p : New(Archive(p))
           /\ \A send, auto, cap : New(Message(send, auto, cap))
           /\ \A i : New(Continuation(i))
<1>1. New(Fresh(kind))
  BY DEF New, Fresh, IsRun, Fields
<1>2. ASSUME NEW p PROVE New(Archive(p))
  BY DEF New, Fresh, IsRun, Fields, Archive
<1>3. ASSUME NEW send, NEW auto, NEW cap PROVE New(Message(send, auto, cap))
  BY DEF New, Fresh, IsRun, Fields, Message
<1>4. ASSUME NEW i PROVE New(Continuation(i))
  <2> DEFINE m == Message(TRUE, FALSE, 0)
  <2>1. New(m)
    BY <1>3
  <2> HIDE DEF m
  <2>2. ASSUME NEW chain, NEW index, NEW total, NEW skip
        PROVE  New([m EXCEPT !.chain = chain, !.index = index, !.total = total, !.skip = skip])
    BY <2>1 DEF New, IsRun, Fields
  <2>3. QED
    BY <2>2 DEF Continuation, m
<1>5. QED
  BY <1>1, <1>2, <1>3, <1>4

LEMMA NewFits ==
    ASSUME NEW r, New(r), NEW onList, NEW sent, NEW missed
    PROVE  Fit(r, onList, sent, missed) /\ ~Running(r)
BY DEF New, Fit, Running

\* Runs that are added to others that fit fit too, and leave them as they were.
LEMMA ConcatFits ==
    ASSUME NEW s, NEW onList, NEW sent, NEW missed, Fits(s, onList, sent, missed), NEW t, AllNew(t)
    PROVE  /\ Fits(s \o t, onList, sent, missed)
           /\ \A u : OffList(s, onList, sent, u) => OffList(s \o t, onList, sent, u)
<1>1. PICK S : s \in Seq(S)
  BY DEF Fits, IsSeq
<1>2. PICK T : t \in Seq(T)
  BY DEF AllNew, IsSeq
<1>3. s \in Seq(S \cup T) /\ t \in Seq(S \cup T)
  BY <1>1, <1>2
<1>4. s \o t \in Seq(S \cup T)
  BY <1>3
<1>5. \A i \in DOMAIN s : i \in DOMAIN (s \o t) /\ (s \o t)[i] = s[i]
  BY <1>3
<1>6. ASSUME NEW i \in DOMAIN (s \o t), i \notin DOMAIN s PROVE New((s \o t)[i])
  <2>1. i - Len(s) \in DOMAIN t /\ (s \o t)[i] = t[i - Len(s)]
    BY <1>3, <1>6
  <2>2. QED
    BY <2>1 DEF AllNew
<1>7. \A i \in DOMAIN (s \o t) : Fit((s \o t)[i], onList, sent, missed)
  BY <1>5, <1>6, NewFits DEF Fits
<1>8. OneRunning(s \o t)
  BY <1>5, <1>6, NewFits DEF Fits, OneRunning
<1>9. \A u : OffList(s, onList, sent, u) => OffList(s \o t, onList, sent, u)
  BY <1>5 DEF OffList
<1>10. QED
  BY <1>4, <1>7, <1>8, <1>9 DEF Fits, IsSeq

LEMMA OneIsNew ==
    ASSUME NEW r, New(r)
    PROVE  AllNew(<<r>>)
<1>1. <<r>> \in Seq({r}) /\ \A i \in DOMAIN <<r>> : <<r>>[i] = r
  OBVIOUS
<1>2. QED
  BY <1>1 DEF AllNew, IsSeq

LEMMA NoneIsNew == AllNew(<<>>)
<1>1. <<>> \in Seq({}) /\ \A i \in DOMAIN <<>> : FALSE
  OBVIOUS
<1>2. QED
  BY <1>1 DEF AllNew, IsSeq

LEMMA AppendFits ==
    ASSUME NEW s, NEW onList, NEW sent, NEW missed, Fits(s, onList, sent, missed), NEW r, New(r)
    PROVE  /\ Fits(Append(s, r), onList, sent, missed)
           /\ \A u : OffList(s, onList, sent, u) => OffList(Append(s, r), onList, sent, u)
<1>1. PICK S : s \in Seq(S)
  BY DEF Fits, IsSeq
<1>2. s \in Seq(S \cup {r}) /\ <<r>> \in Seq(S \cup {r})
  BY <1>1
<1>3. Append(s, r) = s \o <<r>>
  BY <1>2
<1>4. QED
  BY <1>3, OneIsNew, ConcatFits

\* One run becomes r.
LEMMA SetFits ==
    ASSUME NEW s, NEW onList, NEW sent, NEW missed, Fits(s, onList, sent, missed),
           NEW i \in DOMAIN s,
           NEW r, Fit(r, onList, sent, missed),
           Running(r) => Running(s[i]) \/ \A j \in DOMAIN s : ~Running(s[j])
    PROVE  /\ Fits([s EXCEPT ![i] = r], onList, sent, missed)
           /\ DOMAIN [s EXCEPT ![i] = r] = DOMAIN s
           /\ [s EXCEPT ![i] = r][i] = r
           /\ \A j \in DOMAIN s : j # i => [s EXCEPT ![i] = r][j] = s[j]
           /\ s[i].batch \subseteq r.batch =>
                \A u : OffList(s, onList, sent, u) => OffList([s EXCEPT ![i] = r], onList, sent, u)
<1> DEFINE t == [s EXCEPT ![i] = r]
<1>1. PICK S : s \in Seq(S)
  BY DEF Fits, IsSeq
<1>2. s \in Seq(S \cup {r})
  BY <1>1
<1>3. t \in Seq(S \cup {r})
  BY <1>2
<1>4. DOMAIN t = DOMAIN s /\ t[i] = r /\ \A j \in DOMAIN s : j # i => t[j] = s[j]
  BY <1>2
<1> HIDE DEF t
<1>5. OneRunning(t) /\ \A j \in DOMAIN t : Fit(t[j], onList, sent, missed)
  BY <1>4 DEF Fits, OneRunning
<1>6. s[i].batch \subseteq r.batch =>
        \A u : OffList(s, onList, sent, u) => OffList(t, onList, sent, u)
  BY <1>4 DEF OffList
<1>7. QED
  BY <1>3, <1>4, <1>5, <1>6 DEF Fits, IsSeq, t

--------------------------------------------------------------------------------
\* Steps that neither send nor move anybody.
SameHistory ==
    /\ seen'.unmoved = seen.unmoved /\ seen'.stray = seen.stray
    /\ seen'.missed = seen.missed /\ DOMAIN seen' = DOMAIN seen

LEMMA Decided ==
    ASSUME IInv, Fits(runs', stage, sends, seen.missed), OffList(runs', stage, sends, seen.unmoved),
           AllNew(draft'), UNCHANGED <<stage, sends>>, SameHistory, OdooFollows'
    PROVE  IInv'
<1>1. Orderly(seen')
  BY DEF IInv, Orderly, SameHistory
<1>2. MessagedOnce'
  BY DEF IInv, MessagedOnce, Mail, SameHistory
<1>3. QED
  BY <1>1, <1>2 DEF IInv, SameHistory

LEMMA SeenStays ==
    ASSUME UNCHANGED seen
    PROVE  SameHistory
BY DEF SameHistory

LEMMA Decides ==
    ASSUME IInv, NEW base, Fits(base, stage, sends, seen.missed),
           OffList(base, stage, sends, seen.unmoved),
           NEW r, New(r), Enqueue(base, r), UNCHANGED <<stage, sends>>, SameHistory, OdooFollows'
    PROVE  IInv'
<1>1. CASE runs' = Append(base, r) /\ UNCHANGED draft
  <2>1. Fits(runs', stage, sends, seen.missed) /\ OffList(runs', stage, sends, seen.unmoved)
    BY <1>1, AppendFits
  <2>2. QED
    BY <1>1, <2>1, Decided DEF IInv
<1>2. CASE draft' = <<r>> /\ runs' = base
  BY <1>2, OneIsNew, Decided
<1>3. QED
  BY <1>1, <1>2 DEF Enqueue

LEMMA NothingTold ==
    ASSUME IInv, UNCHANGED <<stage, lead, sends>>, SameHistory
    PROVE  OdooFollows'
BY DEF IInv, OdooFollows, SameHistory

\* Trouble leaves the people that were not moved as they are.
LEMMA TroubleOnly ==
    ASSUME IInv, NEW b, seen' = [seen EXCEPT !.trouble = b]
    PROVE  SameHistory
BY DEF IInv, Orderly, SameHistory

\* The requests of Odoo, and the commit of what they decided.
LEMMA RequestSteps ==
    ASSUME IInv, Requests \/ Commit
    PROVE  IInv'
<1>1. /\ Fits(runs, stage, sends, seen.missed) /\ OffList(runs, stage, sends, seen.unmoved)
      /\ AllNew(draft)
  BY DEF IInv
<1>2. CASE SaveRecommendations
  BY <1>1, <1>2, MadeNew, SeenStays, NothingTold, Decides DEF SaveRecommendations
<1>3. ASSUME NEW d \in Demands, SendMessages(d.send, d.cap) PROVE IInv'
  <2>1. New(Message(d.send, FALSE, d.cap))
    BY MadeNew
  <2>2. SameHistory
    BY <1>3, TroubleOnly DEF SendMessages
  <2>3. QED
    BY <1>1, <1>3, <2>1, <2>2, NothingTold, Decides DEF SendMessages
<1>4. ASSUME NEW p \in People, RemoveCandidate(p) PROVE IInv'
  <2>1. New(Archive(p))
    BY MadeNew
  <2>2. QED
    BY <1>1, <1>4, <2>1, SeenStays, NothingTold, Decides DEF RemoveCandidate
<1>5. CASE Commit
  <2>1. /\ Fits(runs \o draft, stage, sends, seen.missed)
        /\ OffList(runs \o draft, stage, sends, seen.unmoved)
    BY <1>1, ConcatFits
  <2>2. QED
    BY <1>5, <2>1, NoneIsNew, SeenStays, NothingTold, Decided DEF Commit
<1>6. QED
  BY <1>2, <1>3, <1>4, <1>5 DEF Requests

--------------------------------------------------------------------------------
\* A run whose hook is past.
LEMMA HandledFits ==
    ASSUME IInv, NEW i \in Ids, runs[i].hook
    PROVE  /\ Fits(Handled(i), stage, sends, seen.missed)
           /\ OffList(Handled(i), stage, sends, seen.unmoved)
<1> DEFINE x == Spent(runs[i])
<1>1. /\ Fit(runs[i], stage, sends, seen.missed) /\ i \in DOMAIN runs
      /\ Fits(runs, stage, sends, seen.missed)
      /\ OffList(runs, stage, sends, seen.unmoved)
  BY DEF IInv, Fits, Ids
<1>2. /\ IsRun(x) /\ x.hook = FALSE /\ x.status = "done" /\ x.batch = {}
      /\ x.told = runs[i].told /\ x.kind = runs[i].kind /\ x.whom = runs[i].whom
  BY <1>1 DEF Fit, IsRun, Fields, Spent
<1>3. runs[i].batch = {} /\ runs[i].status = "done"
  BY <1>1 DEF Fit, Running
<1> HIDE DEF x
<1>4. Fit(x, stage, sends, seen.missed) /\ ~Running(x)
  BY <1>1, <1>2, <1>3 DEF Fit, Running
<1>5. Handled(i) = [runs EXCEPT ![i] = x]
  BY DEF Handled, x
<1>6. /\ Fits(Handled(i), stage, sends, seen.missed)
      /\ DOMAIN Handled(i) = DOMAIN runs /\ Handled(i)[i] = x
      /\ OffList(Handled(i), stage, sends, seen.unmoved)
  <2>1. runs[i].batch \subseteq x.batch
    BY <1>3
  <2>2. /\ Fits([runs EXCEPT ![i] = x], stage, sends, seen.missed)
        /\ DOMAIN [runs EXCEPT ![i] = x] = DOMAIN runs /\ [runs EXCEPT ![i] = x][i] = x
        /\ OffList([runs EXCEPT ![i] = x], stage, sends, seen.unmoved)
    BY <1>1, <1>4, <2>1, SetFits
  <2>3. QED
    BY <1>5, <2>2
<1>7. QED
  BY <1>6

\* A sweep is a number of new archives.
LEMMA SweepIsNew ==
    ASSUME NEW blacklisted \in SUBSET People, NEW sweep \in Sweeps(blacklisted)
    PROVE  AllNew(sweep)
<1> DEFINE due == blacklisted \ AlreadyArchived
           n == IF Cardinality(due) <= MaxSweep THEN Cardinality(due) ELSE MaxSweep
<1>1. IsFiniteSet(due)
  <2>1. due \in SUBSET People
    OBVIOUS
  <2>2. QED
    BY <2>1, FS_Subset, OutreachAssumption
<1>2. n \in Nat
  <2>1. Cardinality(due) \in Nat
    BY <1>1, FS_CardinalityType
  <2>2. QED
    BY <2>1, OutreachAssumption
<1>3. PICK s : sweep = [k \in 1..n |-> Archive(s[k])]
  BY DEF Sweeps
<1> HIDE DEF n
<1>4. \A k \in 1..n : New(Archive(s[k]))
  BY MadeNew
<1> DEFINE S == {Archive(s[k]) : k \in 1..n}
<1>5. sweep \in [1..n -> S]
  BY <1>3
<1> HIDE DEF S
<1>6. sweep \in Seq(S)
  BY <1>2, <1>5
<1>7. \A k \in DOMAIN sweep : New(sweep[k])
  BY <1>3, <1>4
<1>8. QED
  BY <1>6, <1>7 DEF AllNew, IsSeq

--------------------------------------------------------------------------------
\* Moving people in the project, and sending, leave the runs fit.
LEMMA StageFits ==
    ASSUME NEW s, NEW a, NEW sent, NEW missed, Fits(s, a, sent, missed), NEW b,
           \A p \in People : a[p] = "archived" => b[p] = "archived",
           \A i \in DOMAIN s : \A p \in s[i].batch : b[p] = "uncontacted"
    PROVE  Fits(s, b, sent, missed)
BY DEF Fits, Fit

LEMMA SentFits ==
    ASSUME NEW s, NEW a, NEW sent, NEW missed, Fits(s, a, sent, missed), NEW more
    PROVE  Fits(s, a, sent \cup more, missed)
BY DEF Fits, Fit

\* The seat has one run: no other run has a batch.
LEMMA OneBatch ==
    ASSUME IInv, NEW i \in Ids, runs[i].status = "running"
    PROVE  \A j \in DOMAIN runs : j # i => runs[j].batch = {}
BY DEF IInv, Fits, Fit, OneRunning, Running, Ids

\* A run that goes on or ends, without a word to LinkedIn or Odoo.
LEMMA Proceeds ==
    ASSUME IInv, NEW i \in Ids, NEW x, Fit(x, stage, sends, seen.missed),
           Running(x) => Running(runs[i]) \/ \A j \in DOMAIN runs : ~Running(runs[j]),
           runs[i].batch \subseteq x.batch,
           runs' = [runs EXCEPT ![i] = x], UNCHANGED <<draft, stage, lead, sends>>, SameHistory
    PROVE  IInv'
<1>1. /\ Fits(runs, stage, sends, seen.missed) /\ OffList(runs, stage, sends, seen.unmoved)
      /\ i \in DOMAIN runs /\ AllNew(draft)
  BY DEF IInv, Ids
<1>2. Fits(runs', stage, sends, seen.missed) /\ OffList(runs', stage, sends, seen.unmoved)
  BY <1>1, SetFits
<1>3. QED
  BY <1>1, <1>2, NothingTold, Decided

\* The steps of the daemon that only write the run.
LEMMA RunSteps ==
    ASSUME IInv, NEW i \in Ids,
           \/ Claim(i) \/ EndPreview(i) \/ EndUnread(i)
           \/ \E more \in BOOLEAN : EndMessage(i, more)
    PROVE  IInv'
<1>1. Fit(runs[i], stage, sends, seen.missed) /\ i \in DOMAIN runs
  BY DEF IInv, Fits, Ids
<1>2. CASE Claim(i)
  <2> DEFINE x == [runs[i] EXCEPT !.status = "running"]
  <2>1. runs[i].status = "queued" /\ runs[i].batch = {} /\ ~runs[i].hook
    BY <1>1, <1>2 DEF Claim, Fit, Running
  <2>2. Fit(x, stage, sends, seen.missed) /\ x.batch = {}
    BY <1>1, <2>1 DEF Fit, IsRun, Fields, Running
  <2>3. \A j \in DOMAIN runs : ~Running(runs[j])
    BY <1>2 DEF Claim, Ids, Running
  <2>4. runs' = [runs EXCEPT ![i] = x] /\ UNCHANGED <<draft, stage, lead, sends, seen>>
    BY <1>2 DEF Claim
  <2> HIDE DEF x
  <2>5. QED
    BY <2>1, <2>2, <2>3, <2>4, SeenStays, Proceeds
<1>3. CASE EndPreview(i)
  <2> DEFINE x == Done(runs[i], FALSE)
  <2>1. runs[i].batch = {} /\ runs[i].kind = "message"
    BY <1>1, <1>3 DEF EndPreview, Performs, Fit
  <2>2. Fit(x, stage, sends, seen.missed) /\ ~Running(x)
    BY <1>1, <2>1 DEF Fit, IsRun, Fields, Running, Done
  <2>3. runs' = [runs EXCEPT ![i] = x] /\ UNCHANGED <<draft, stage, lead, sends, seen>>
    BY <1>3 DEF EndPreview
  <2> HIDE DEF x
  <2>4. QED
    BY <2>1, <2>2, <2>3, SeenStays, Proceeds
<1>4. ASSUME NEW more \in BOOLEAN, EndMessage(i, more) PROVE IInv'
  <2> DEFINE x == Done([runs[i] EXCEPT !.more = more], FALSE)
  <2>1. runs[i].batch = {} /\ runs[i].kind = "message"
    BY <1>4 DEF EndMessage, Performs
  <2>2. Fit(x, stage, sends, seen.missed) /\ ~Running(x)
    BY <1>1, <2>1 DEF Fit, IsRun, Fields, Running, Done
  <2>3. runs' = [runs EXCEPT ![i] = x] /\ UNCHANGED <<draft, stage, lead, sends, seen>>
    BY <1>4 DEF EndMessage
  <2> HIDE DEF x
  <2>4. QED
    BY <2>1, <2>2, <2>3, SeenStays, Proceeds
<1>5. CASE EndUnread(i)
  <2> DEFINE x == Done(runs[i], TRUE)
  <2>1. runs[i].batch = {} /\ runs[i].kind = "message"
    BY <1>5 DEF EndUnread, Performs
  <2>2. Fit(x, stage, sends, seen.missed) /\ ~Running(x)
    BY <1>1, <2>1 DEF Fit, IsRun, Fields, Running, Done
  <2>3. /\ runs' = [runs EXCEPT ![i] = x] /\ UNCHANGED <<draft, stage, lead, sends>>
        /\ seen' = [seen EXCEPT !.trouble = @ \/ runs[i].told # {}]
    BY <1>5 DEF EndUnread
  <2> HIDE DEF x
  <2>4. QED
    BY <2>1, <2>2, <2>3, TroubleOnly, Proceeds
<1>6. QED
  BY <1>2, <1>3, <1>4, <1>5

--------------------------------------------------------------------------------
LEMMA OneChanges ==
    ASSUME NEW s, IsSeq(s), NEW i \in DOMAIN s, NEW x
    PROVE  /\ IsSeq([s EXCEPT ![i] = x])
           /\ DOMAIN [s EXCEPT ![i] = x] = DOMAIN s /\ [s EXCEPT ![i] = x][i] = x
           /\ \A j \in DOMAIN s : j # i => [s EXCEPT ![i] = x][j] = s[j]
<1>1. PICK S : s \in Seq(S)
  BY DEF IsSeq
<1>2. s \in Seq(S \cup {x})
  BY <1>1
<1>3. [s EXCEPT ![i] = x] \in Seq(S \cup {x})
  BY <1>2
<1>4. QED
  BY <1>2, <1>3 DEF IsSeq

\* The run on the seat becomes x, while LinkedIn and what was sent move on.
LEMMA SeatStep ==
    ASSUME IInv, NEW i \in Ids, runs[i].status = "running",
           NEW x, Fit(x, stage', sends', seen'.missed), runs' = [runs EXCEPT ![i] = x],
           \A p \in People : stage[p] = "archived" => stage'[p] = "archived",
           \A p \in People : stage[p] = "contacted" => stage'[p] \in {"contacted", "archived"},
           \A p \in runs[i].batch :
              p \in x.batch \/ p \in seen'.unmoved \/ stage'[p] \in {"contacted", "archived"},
           sends \subseteq sends',
           \A m \in sends' : m \in sends \/ (m.to \in People /\ m.to \in x.batch),
           seen.unmoved \subseteq seen'.unmoved, seen.missed \subseteq seen'.missed,
           Orderly(seen'), UNCHANGED <<draft, lead>>, MessagedOnce'
    PROVE  IInv'
<1>1. /\ Fits(runs, stage, sends, seen.missed) /\ OffList(runs, stage, sends, seen.unmoved)
      /\ i \in DOMAIN runs
  BY DEF IInv, Ids
<1>2. IsSeq(runs)
  BY <1>1 DEF Fits
<1>4. /\ IsSeq([runs EXCEPT ![i] = x])
      /\ DOMAIN [runs EXCEPT ![i] = x] = DOMAIN runs /\ [runs EXCEPT ![i] = x][i] = x
      /\ \A j \in DOMAIN runs : j # i => [runs EXCEPT ![i] = x][j] = runs[j]
  BY <1>1, <1>2, OneChanges
<1>5. /\ IsSeq(runs') /\ DOMAIN runs' = DOMAIN runs /\ runs'[i] = x
      /\ \A j \in DOMAIN runs : j # i => runs'[j] = runs[j]
  BY <1>4
<1>6. \A j \in DOMAIN runs : j # i => ~Running(runs[j]) /\ runs[j].batch = {}
  BY <1>1, OneBatch DEF Fits, OneRunning, Running
<1>7. ASSUME NEW j \in DOMAIN runs, j # i PROVE Fit(runs[j], stage', sends', seen'.missed)
  BY <1>1, <1>6, <1>7 DEF Fits, Fit
<1>8. OneRunning(runs') /\ \A j \in DOMAIN runs' : Fit(runs'[j], stage', sends', seen'.missed)
  BY <1>5, <1>6, <1>7 DEF OneRunning
<1>9. Fits(runs, stage, sends, seen.missed)'
  BY <1>5, <1>8 DEF Fits, IsSeq
<1>10. OffList(runs, stage, sends, seen.unmoved)'
  <2>1. ASSUME NEW m \in sends', m \notin sends
        PROVE  m.to \in People /\ \E j \in DOMAIN runs' : m.to \in runs'[j].batch
    BY <1>1, <1>5, <2>1
  <2>2. ASSUME NEW m \in sends
        PROVE  /\ m.to \in People
               /\ \/ m.to \in seen'.unmoved \/ stage'[m.to] \in {"contacted", "archived"}
                  \/ \E j \in DOMAIN runs' : m.to \in runs'[j].batch
    <3>1. /\ m.to \in People
          /\ \/ m.to \in seen.unmoved \/ stage[m.to] \in {"contacted", "archived"}
             \/ \E j \in DOMAIN runs : m.to \in runs[j].batch
      BY <1>1 DEF OffList
    <3>2. CASE m.to \in seen.unmoved \/ stage[m.to] \in {"contacted", "archived"}
      BY <3>1, <3>2
    <3>3. CASE \E j \in DOMAIN runs : m.to \in runs[j].batch
      BY <1>1, <1>5, <1>6, <3>1, <3>3
    <3>4. QED
      BY <3>1, <3>2, <3>3
  <2>3. QED
    BY <2>1, <2>2 DEF OffList
<1>11. OdooFollows'
  BY DEF IInv, OdooFollows
<1>12. QED
  BY <1>9, <1>10, <1>11 DEF IInv

\* Where nothing is sent, nobody is written to twice who was not before.
LEMMA NothingSent ==
    ASSUME IInv, UNCHANGED sends, seen.unmoved \subseteq seen'.unmoved, Orderly(seen')
    PROVE  MessagedOnce'
BY DEF IInv, MessagedOnce, Mail, Orderly

\* What a step records in the history.
LEMMA SeenIs ==
    ASSUME IInv
    PROVE  /\ Orderly(seen)
           /\ \A b, t : seen' = [seen EXCEPT !.unmoved = @ \cup b, !.trouble = t]
                => /\ Orderly(seen') /\ seen'.unmoved = seen.unmoved \cup b
                   /\ seen'.missed = seen.missed /\ seen'.trouble = t
           /\ \A b : seen' = [seen EXCEPT !.unmoved = @ \cup b]
                => /\ Orderly(seen') /\ seen'.unmoved = seen.unmoved \cup b
                   /\ seen'.missed = seen.missed /\ seen'.trouble = seen.trouble
           /\ \A b : seen' = [seen EXCEPT !.missed = b]
                => /\ Orderly(seen') /\ seen'.unmoved = seen.unmoved
                   /\ seen'.missed = b /\ seen'.trouble = seen.trouble
           /\ \A t : seen' = [seen EXCEPT !.trouble = t]
                => /\ Orderly(seen') /\ seen'.unmoved = seen.unmoved /\ seen'.stray = seen.stray
                   /\ seen'.missed = seen.missed /\ seen'.trouble = t
           /\ \A m, b : seen' = [seen EXCEPT !.stray = @ \cup m, !.unmoved = @ \cup b]
                => /\ DOMAIN seen' = DOMAIN seen /\ seen'.unmoved = seen.unmoved \cup b
                   /\ seen'.stray = seen.stray \cup m
                   /\ seen'.missed = seen.missed /\ seen'.trouble = seen.trouble
BY DEF IInv, Orderly

LEMMA AddSteps ==
    ASSUME IInv, NEW i \in Ids, NEW found \in SUBSET People, NEW lost \in BOOLEAN,
           AddRecommended(i, found, lost)
    PROVE  IInv'
<1> DEFINE x == Done([runs[i] EXCEPT !.whom = found], lost)
<1>1. Fit(runs[i], stage, sends, seen.missed) /\ i \in DOMAIN runs
  BY DEF IInv, Fits, Ids
<1>2. runs[i].kind = "recommend" /\ runs[i].status = "running" /\ runs[i].batch = {}
  BY <1>1 DEF AddRecommended, Performs, Fit
<1>3. Fit(x, stage', sends', seen'.missed)
  BY <1>1, <1>2 DEF Fit, IsRun, Fields, Running, Done, AddRecommended
<1>4. runs' = [runs EXCEPT ![i] = x] /\ UNCHANGED <<draft, lead, sends, seen>>
  BY DEF AddRecommended
<1>5. /\ \A p \in People : stage[p] = "archived" => stage'[p] = "archived"
      /\ \A p \in People : stage[p] = "contacted" => stage'[p] = "contacted"
  BY DEF AddRecommended
<1> HIDE DEF x
<1>6. QED
  BY <1>2, <1>3, <1>4, <1>5, SeenIs, NothingSent, SeatStep

LEMMA ArchiveSteps ==
    ASSUME IInv, NEW i \in Ids, NEW lost \in BOOLEAN, ArchivePerson(i, lost)
    PROVE  IInv'
<1> DEFINE x == Done(runs[i], lost)
<1>1. Fit(runs[i], stage, sends, seen.missed) /\ i \in DOMAIN runs
  BY DEF IInv, Fits, Ids
<1>2. runs[i].kind = "archive" /\ runs[i].status = "running" /\ runs[i].batch = {}
  BY <1>1 DEF ArchivePerson, Performs, Fit
<1>3. /\ \A p \in People : stage[p] = "archived" => stage'[p] = "archived"
      /\ \A p \in People : stage[p] = "contacted" => stage'[p] \in {"contacted", "archived"}
      /\ \A p \in runs[i].whom \cap People : stage'[p] = "archived"
  BY DEF ArchivePerson
<1>4. runs' = [runs EXCEPT ![i] = x] /\ UNCHANGED <<draft, lead, sends, seen>>
  BY DEF ArchivePerson
<1>5. Fit(x, stage', sends', seen'.missed)
  BY <1>1, <1>2, <1>3, <1>4 DEF Fit, IsRun, Fields, Running, Done
<1> HIDE DEF x
<1>6. QED
  BY <1>2, <1>3, <1>4, <1>5, SeenIs, NothingSent, SeatStep

LEMMA MissSteps ==
    ASSUME IInv, NEW i \in Ids, NEW lost \in BOOLEAN, MissPerson(i, lost)
    PROVE  IInv'
<1> DEFINE x == Done(runs[i], lost)
           gone == IF lost THEN seen.missed ELSE seen.missed \cup runs[i].whom
<1>1. Fit(runs[i], stage, sends, seen.missed) /\ i \in DOMAIN runs
  BY DEF IInv, Fits, Ids
<1>2. runs[i].kind = "archive" /\ runs[i].status = "running" /\ runs[i].batch = {}
  BY <1>1 DEF MissPerson, Performs, Fit
<1>3. /\ runs' = [runs EXCEPT ![i] = x] /\ UNCHANGED <<draft, stage, lead, sends>>
      /\ seen' = [seen EXCEPT !.missed = gone]
  BY DEF MissPerson
<1> HIDE DEF gone
<1>4. Orderly(seen') /\ seen'.unmoved = seen.unmoved /\ seen'.missed = gone
  BY <1>3, SeenIs
<1>5. seen.missed \subseteq gone /\ (~lost => runs[i].whom \subseteq gone)
  BY DEF gone
<1>6. /\ IsRun(x) /\ x.status = "done" /\ x.lost = lost /\ x.batch = {}
      /\ x.told = runs[i].told /\ x.whom = runs[i].whom
  BY <1>1, <1>2 DEF Fit, IsRun, Fields, Done
<1> HIDE DEF x
<1>7. Fit(x, stage', sends', seen'.missed)
  BY <1>1, <1>3, <1>4, <1>5, <1>6 DEF Fit
<1>8. QED
  BY <1>2, <1>3, <1>4, <1>5, <1>7, NothingSent, SeatStep

LEMMA MoveSteps ==
    ASSUME IInv, NEW i \in Ids, NEW part \in SUBSET runs[i].batch, NEW stops \in BOOLEAN,
           MoveBatch(i, part, stops)
    PROVE  IInv'
<1> DEFINE more == stops /\ ~AtCap(runs[i])
           x == [runs[i] EXCEPT !.batch = {}, !.more = more]
<1>1. Fit(runs[i], stage, sends, seen.missed) /\ i \in DOMAIN runs
  BY DEF IInv, Fits, Ids
<1>2. runs[i].kind = "message" /\ runs[i].status = "running"
  BY DEF MoveBatch, Performs
<1>3. /\ \A p \in People : stage[p] = "archived" => stage'[p] = "archived"
      /\ \A p \in People : stage[p] = "contacted" => stage'[p] = "contacted"
      /\ \A p \in part : stage'[p] = "contacted"
  BY <1>1 DEF MoveBatch, Contacts, Fit
<1>4. runs' = [runs EXCEPT ![i] = x] /\ UNCHANGED <<draft, lead, sends>>
      /\ seen' = [seen EXCEPT !.unmoved = @ \cup (runs[i].batch \ part)]
  BY DEF MoveBatch
<1>5. /\ Orderly(seen') /\ seen'.unmoved = seen.unmoved \cup (runs[i].batch \ part)
      /\ seen'.missed = seen.missed
  BY <1>4, SeenIs
<1> HIDE DEF more
<1>6. Fit(x, stage', sends', seen'.missed)
  BY <1>1, <1>2, <1>4, <1>5 DEF Fit, IsRun, Fields, Running
<1> HIDE DEF x
<1>7. QED
  BY <1>2, <1>3, <1>4, <1>5, <1>6, NothingSent, SeatStep

\* A batch that may have gone out in part, and that nobody counts.
LEMMA UnconfirmedSteps ==
    ASSUME IInv, NEW i \in Ids, NEW b \in SUBSET People, NEW gone \in SUBSET b,
           SendUnconfirmed(i, b, gone)
    PROVE  IInv'
<1> DEFINE x == [runs[i] EXCEPT !.more = TRUE]
           mail == Letters(i, gone)
<1>1. Fit(runs[i], stage, sends, seen.missed) /\ i \in DOMAIN runs
  BY DEF IInv, Fits, Ids
<1>2. /\ runs[i].kind = "message" /\ runs[i].status = "running"
      /\ runs[i].batch = {}
  BY DEF SendUnconfirmed, Batch, Performs
<1>3. /\ runs' = [runs EXCEPT ![i] = x] /\ UNCHANGED <<draft, stage, lead, sends>>
      /\ seen' = [seen EXCEPT !.stray = @ \cup mail, !.unmoved = @ \cup gone]
  BY DEF SendUnconfirmed
<1>4. \A m \in mail : m.to \in gone
  BY DEF Letters
<1> HIDE DEF mail
<1>5. /\ Orderly(seen') /\ seen.unmoved \subseteq seen'.unmoved /\ seen'.missed = seen.missed
  <2>1. /\ DOMAIN seen' = DOMAIN seen /\ seen'.unmoved = seen.unmoved \cup gone
        /\ seen'.stray = seen.stray \cup mail /\ seen'.missed = seen.missed /\ Orderly(seen)
    BY <1>3, SeenIs
  <2>2. QED
    BY <1>4, <2>1 DEF Orderly
<1>6. Fit(x, stage', sends', seen'.missed) /\ x.batch = {}
  BY <1>1, <1>2, <1>3, <1>5 DEF Fit, IsRun, Fields, Running
<1> HIDE DEF x
<1>7. QED
  BY <1>2, <1>3, <1>5, <1>6, NothingSent, SeatStep

LEMMA SendSteps ==
    ASSUME IInv, NEW i \in Ids, NEW b \in SUBSET People, SendBatch(i, b)
    PROVE  IInv'
<1> DEFINE x == [runs[i] EXCEPT !.batch = b, !.told = @ \cup b]
           mail == Letters(i, b)
<1>1. /\ Fit(runs[i], stage, sends, seen.missed) /\ i \in DOMAIN runs
      /\ OffList(runs, stage, sends, seen.unmoved)
  BY DEF IInv, Fits, Ids
<1>2. /\ runs[i].kind = "message" /\ runs[i].status = "running" /\ runs[i].send
      /\ runs[i].batch = {}
  BY DEF SendBatch, Batch, Performs
<1>3. \A p \in b : p \in People /\ stage[p] = "uncontacted"
  BY DEF SendBatch, Batch, Eligible, Uncontacted
<1>4. /\ sends' = sends \cup mail /\ UNCHANGED <<draft, stage, lead>>
      /\ seen' = [seen EXCEPT !.trouble = @ \/ day # runs[i].created]
  BY DEF SendBatch
<1>5. /\ Orderly(seen') /\ seen'.unmoved = seen.unmoved /\ seen'.stray = seen.stray
      /\ seen'.missed = seen.missed
  BY <1>4, SeenIs
<1>6. /\ \A m \in mail : m.to \in b
      /\ \A m, n \in mail : m.to = n.to => m = n
      /\ \A p \in b : \E m \in mail : m.to = p
  <2>1. \A p \in b : /\ [to |-> p, by |-> i, on |-> day] \in mail
                      /\ [to |-> p, by |-> i, on |-> day].to = p
    BY DEF Letters
  <2>2. \A m \in mail : \E p \in b : m = [to |-> p, by |-> i, on |-> day] /\ m.to = p
    BY DEF Letters
  <2> HIDE DEF mail
  <2>3. QED
    BY <2>1, <2>2, ZenonT(30)
<1>7. x.batch = b /\ x.told = runs[i].told \cup b
  BY <1>1 DEF Fit, IsRun, Fields
<1> HIDE DEF mail
<1>8. Fit(x, stage', sends', seen'.missed)
  <2>1. \A p \in x.told : \E s \in sends' : s.to = p
    BY <1>1, <1>4, <1>6, <1>7 DEF Fit
  <2>2. /\ IsRun(x) /\ x.status = "running" /\ x.kind = "message" /\ x.send
        /\ (x.hook \/ x.lost => x.status = "done")
    BY <1>1, <1>2 DEF Fit, IsRun, Fields
  <2> HIDE DEF x
  <2>3. QED
    BY <1>3, <1>4, <1>7, <2>1, <2>2 DEF Fit, Running
<1>9. runs' = [runs EXCEPT ![i] = x]
  BY <1>1 DEF SendBatch
<1> HIDE DEF x
\* Nobody in the batch was written to before, unless they were left unmoved.
<1>10. ASSUME NEW m \in sends, m.to \in b PROVE m.to \in seen.unmoved
  <2>1. ~\E j \in DOMAIN runs : m.to \in runs[j].batch
    BY <1>2, OneBatch
  <2>2. stage[m.to] = "uncontacted"
    BY <1>3, <1>10
  <2>3. QED
    BY <1>1, <2>1, <2>2 DEF OffList
<1>11. MessagedOnce'
  <2> SUFFICES ASSUME NEW s \in sends', NEW u \in sends', s.to = u.to
               PROVE  s = u \/ s.to \in seen'.unmoved
    BY <1>5 DEF MessagedOnce, Mail, Orderly
  <2>1. CASE s \in sends /\ u \in sends
    BY <1>5, <2>1 DEF IInv, MessagedOnce, Mail
  <2>2. CASE s \in mail /\ u \in mail
    BY <1>6, <2>2
  <2>3. CASE s \in sends /\ u \in mail
    BY <1>5, <1>6, <1>10, <2>3
  <2>4. CASE s \in mail /\ u \in sends
    BY <1>5, <1>6, <1>10, <2>4
  <2>5. QED
    BY <1>4, <2>1, <2>2, <2>3, <2>4
<1>12. \A m \in sends' : m \in sends \/ (m.to \in People /\ m.to \in x.batch)
  BY <1>3, <1>4, <1>6, <1>7
<1>13. QED
  BY <1>2, <1>4, <1>5, <1>8, <1>9, <1>11, <1>12, SeatStep

LEMMA DeferSteps ==
    ASSUME IInv, NEW i \in Ids, NEW b \in SUBSET People, NEW team \in BOOLEAN,
           NEW part \in SUBSET b, DeferBatch(i, b, team, part)
    PROVE  IInv'
<1> DEFINE x == [runs[i] EXCEPT !.team = IF team THEN @ \cup b ELSE @,
                                !.passed = IF part # {} THEN @ ELSE @ \cup b]
<1>1. Fit(runs[i], stage, sends, seen.missed) /\ i \in DOMAIN runs
  BY DEF IInv, Fits, Ids
<1>2. /\ runs[i].kind = "message" /\ runs[i].status = "running"
      /\ runs[i].batch = {}
  BY DEF DeferBatch, Batch, Performs
<1>3. \A p \in b : p \in People /\ stage[p] = "uncontacted"
  BY DEF DeferBatch, Batch, Eligible, Uncontacted
<1>4. UNCHANGED <<draft, lead, sends, seen>>
  BY DEF DeferBatch
<1>5. /\ \A p \in People : stage[p] = "archived" => stage'[p] = "archived"
      /\ \A p \in People : stage[p] = "contacted" => stage'[p] = "contacted"
  BY <1>3 DEF DeferBatch, Contacts
<1>6. runs' = [runs EXCEPT ![i] = x]
  BY <1>1 DEF DeferBatch
<1>7. /\ IsRun(x) /\ x.status = "running" /\ x.kind = "message" /\ x.batch = {}
      /\ x.told = runs[i].told /\ x.hook = runs[i].hook /\ x.lost = runs[i].lost
  BY <1>1, <1>2 DEF Fit, IsRun, Fields
<1> HIDE DEF x
<1>8. Fit(x, stage', sends', seen'.missed)
  BY <1>1, <1>2, <1>4, <1>7 DEF Fit
<1>9. QED
  BY <1>2, <1>4, <1>5, <1>6, <1>8, SeenIs, NothingSent, SeatStep

LEMMA FailSteps ==
    ASSUME IInv, NEW i \in Ids, Fail(i)
    PROVE  IInv'
<1> DEFINE x == [Spent(runs[i]) EXCEPT !.status = "failed", !.told = {}]
<1>1. Fit(runs[i], stage, sends, seen.missed) /\ i \in DOMAIN runs /\ runs[i].status = "running"
  BY DEF IInv, Fits, Ids, Fail
<1>2. /\ seen' = [seen EXCEPT !.unmoved = @ \cup runs[i].batch,
                              !.trouble = @ \/ runs[i].told # {}]
      /\ UNCHANGED <<draft, stage, lead, sends>>
  BY DEF Fail
<1>3. /\ Orderly(seen') /\ seen'.unmoved = seen.unmoved \cup runs[i].batch
      /\ seen'.missed = seen.missed
  BY <1>2, SeenIs
<1>4. /\ IsRun(x) /\ x.status = "failed" /\ x.batch = {} /\ x.told = {}
      /\ x.hook = FALSE /\ (x.lost => runs[i].lost)
  BY <1>1 DEF Fit, IsRun, Fields, Spent
<1>5. runs' = [runs EXCEPT ![i] = x]
  BY DEF Fail
<1> HIDE DEF x
<1>6. Fit(x, stage', sends', seen'.missed)
  BY <1>1, <1>4 DEF Fit
<1>7. QED
  BY <1>1, <1>2, <1>3, <1>5, <1>6, NothingSent, SeatStep


LEMMA DaemonSteps ==
    ASSUME IInv, Daemon
    PROVE  IInv'
BY RunSteps, AddSteps, ArchiveSteps, MissSteps, MoveSteps, SendSteps, UnconfirmedSteps,
   DeferSteps, FailSteps DEF Daemon

--------------------------------------------------------------------------------
\* The hooks.  What they tell Odoo is what their run has done.
LEMMA Pushed ==
    ASSUME NEW known, NEW people, NEW status, NEW new \in Push(known, people, status),
           NEW p \in People
    PROVE  new[p] = known[p] \/ (p \in people /\ new[p] = status)
BY DEF Push

LEMMA RecommendationSteps ==
    ASSUME IInv, NEW i \in Ids, AfterRecommendations(i)
    PROVE  IInv'
<1> DEFINE found == IF runs[i].lost THEN {} ELSE runs[i].whom
<1>1. runs[i].hook /\ UNCHANGED <<stage, day, sends>>
  BY DEF AfterRecommendations, Owed
<1>2. /\ Fits(Handled(i), stage, sends, seen.missed)
      /\ OffList(Handled(i), stage, sends, seen.unmoved)
  BY <1>1, HandledFits
<1>3. OdooFollows'
  <2>1. PICK people : lead' \in Push(lead, people, "lead")
    BY DEF AfterRecommendations, PushRecruiterLeads
  <2>2. SameHistory
    BY TroubleOnly, SeenStays DEF AfterRecommendations
  <2>3. QED
    BY <1>1, <2>1, <2>2, Pushed DEF IInv, OdooFollows, SameHistory
<1>4. AllNew(draft)
  BY DEF IInv
<1>5. ASSUME NEW blacklist \in FetchLeadBlacklist, NEW sweep \in Sweeps(found \cap blacklist),
             runs' = Handled(i) \o sweep, UNCHANGED <<draft, seen>>
      PROVE  IInv'
  <2>1. found \cap blacklist \in SUBSET People
    BY <1>5, OutreachAssumption DEF FetchLeadBlacklist
  <2>2. AllNew(sweep)
    BY <1>5, <2>1, SweepIsNew
  <2>3. Fits(runs', stage, sends, seen.missed) /\ OffList(runs', stage, sends, seen.unmoved)
    BY <1>2, <1>5, <2>2, ConcatFits
  <2>4. QED
    BY <1>1, <1>3, <1>4, <1>5, <2>3, SeenStays, Decided
<1>6. ASSUME Enqueue(Handled(i), Message(TRUE, TRUE, DailyCap - SentToday)),
             seen' = [seen EXCEPT !.trouble = @ \/ Overlaps]
      PROVE  IInv'
  <2>1. New(Message(TRUE, TRUE, DailyCap - SentToday))
    BY MadeNew
  <2>2. SameHistory
    BY <1>6, TroubleOnly
  <2>3. QED
    BY <1>1, <1>2, <1>3, <1>6, <2>1, <2>2, Decides
<1>7. CASE runs' = Handled(i) /\ UNCHANGED <<draft, seen>>
  BY <1>1, <1>2, <1>3, <1>4, <1>7, SeenStays, Decided
<1>8. QED
  BY <1>5, <1>6, <1>7 DEF AfterRecommendations

LEMMA MessageSteps ==
    ASSUME IInv, NEW i \in Ids, AfterMessage(i)
    PROVE  IInv'
<1> DEFINE r == runs[i]
<1>1. r.hook /\ UNCHANGED <<stage, day, sends>>
  BY DEF AfterMessage, Owed
<1>2. /\ Fits(Handled(i), stage, sends, seen.missed)
      /\ OffList(Handled(i), stage, sends, seen.unmoved)
  BY <1>1, HandledFits
<1>3. \A p \in r.told : \E s \in sends : s.to = p
  BY DEF IInv, Fits, Fit, Ids
<1>4. OdooFollows'
  <2>0. SameHistory
    BY TroubleOnly, SeenStays DEF AfterMessage
  <2>1. CASE lead' = lead
    BY <1>1, <2>0, <2>1, NothingTold
  <2>2. ASSUME NEW known \in PushOutreachUpdate(r.told),
               lead' \in PushContactedByTeam(known, r.team)
        PROVE  OdooFollows'
    <3>1. ASSUME NEW p \in People
          PROVE  /\ lead'[p] = "messaged" => p \in r.told \/ lead[p] = "messaged"
                 /\ lead'[p] = "removed" => lead[p] = "removed"
      <4>1. lead'[p] = known[p] \/ lead'[p] = "team"
        BY <2>2, Pushed DEF PushContactedByTeam
      <4>2. known[p] = lead[p] \/ (p \in r.told /\ known[p] = "messaged")
        BY <2>2, Pushed DEF PushOutreachUpdate
      <4>3. QED
        BY <4>1, <4>2
    <3>2. QED
      BY <1>1, <1>3, <2>0, <3>1 DEF IInv, OdooFollows, SameHistory
  <2>3. QED
    BY <2>1, <2>2 DEF AfterMessage
<1>5. AllNew(draft)
  BY DEF IInv
<1>7. CASE runs' = Handled(i) /\ UNCHANGED <<draft, seen>>
  BY <1>1, <1>2, <1>4, <1>5, <1>7, SeenStays, Decided
<1>8. ASSUME Enqueue(Handled(i), Continuation(i)),
             seen' = [seen EXCEPT !.trouble = @ \/ Overlaps]
      PROVE  IInv'
  <2>1. New(Continuation(i))
    BY MadeNew
  <2>2. SameHistory
    BY <1>8, TroubleOnly
  <2>3. QED
    BY <1>1, <1>2, <1>4, <1>8, <2>1, <2>2, Decides
<1>9. QED
  BY <1>7, <1>8 DEF AfterMessage

LEMMA ArchivedSteps ==
    ASSUME IInv, NEW i \in Ids, AfterArchive(i)
    PROVE  IInv'
<1>1. /\ runs[i].hook /\ runs[i].kind = "archive" /\ UNCHANGED <<draft, stage, sends, seen>>
      /\ \/ lead' = lead
         \/ ~runs[i].lost /\ lead' \in Push(lead, runs[i].whom, "removed")
      /\ runs' = Handled(i)
  <2>1. CASE runs[i].lost
    BY <2>1 DEF AfterArchive, Owed
  <2>2. CASE ~runs[i].lost
    BY <2>2 DEF AfterArchive, Owed, PushLeadRemoved
  <2>3. QED
    BY <2>1, <2>2
<1>2. ~runs[i].lost => \A p \in runs[i].whom \cap People :
                            stage[p] = "archived" \/ p \in seen.missed
  BY <1>1 DEF IInv, Fits, Fit, Ids
<1>3. OdooFollows'
  <2>1. \A p \in People : \/ lead'[p] = lead[p]
                          \/ ~runs[i].lost /\ p \in runs[i].whom /\ lead'[p] = "removed"
    BY <1>1, Pushed
  <2>2. QED
    BY <1>1, <1>2, <2>1 DEF IInv, OdooFollows
<1>4. /\ Fits(Handled(i), stage, sends, seen.missed)
      /\ OffList(Handled(i), stage, sends, seen.unmoved) /\ AllNew(draft)
  BY <1>1, HandledFits DEF IInv
<1>5. QED
  BY <1>1, <1>3, <1>4, SeenStays, Decided

LEMMA RestartSteps ==
    ASSUME IInv, BackendRestart
    PROVE  IInv'
<1>1. /\ Fits(runs, stage, sends, seen.missed) /\ OffList(runs, stage, sends, seen.unmoved)
      /\ UNCHANGED <<stage, lead, sends, seen>> /\ draft' = <<>>
      /\ runs' = [i \in DOMAIN runs |-> IF runs[i].hook THEN Spent(runs[i]) ELSE runs[i]]
  BY DEF IInv, BackendRestart, Ids
<1>2. PICK S : runs \in Seq(S)
  BY <1>1 DEF Fits, IsSeq
<1> DEFINE T == S \cup {Spent(s) : s \in S}
<1>3. runs \in [1..Len(runs) -> S] /\ Len(runs) \in Nat /\ DOMAIN runs = 1..Len(runs)
  BY <1>2
<1>4. runs' \in [1..Len(runs) -> T]
  BY <1>1, <1>3
<1> HIDE DEF T
<1>5. runs' \in Seq(T)
  BY <1>3, <1>4
<1>6. ASSUME NEW i \in DOMAIN runs
      PROVE  /\ Fit(runs'[i], stage, sends, seen.missed)
             /\ Running(runs'[i]) => Running(runs[i])
             /\ runs'[i].batch = runs[i].batch
  <2>1. Fit(runs[i], stage, sends, seen.missed)
    BY <1>1 DEF Fits
  <2>2. CASE ~runs[i].hook
    BY <1>1, <2>1, <2>2
  <2>3. CASE runs[i].hook
    <3> DEFINE x == Spent(runs[i])
    <3>1. /\ IsRun(x) /\ x.hook = FALSE /\ x.status = runs[i].status /\ x.batch = {}
          /\ x.told = runs[i].told /\ x.kind = runs[i].kind /\ x.whom = runs[i].whom
      BY <2>1 DEF Fit, IsRun, Fields, Spent
    <3>2. runs'[i] = x
      BY <1>1, <2>3
    <3> HIDE DEF x
    <3>3. runs[i].batch = {} /\ runs[i].status = "done"
      BY <2>1, <2>3 DEF Fit, Running
    <3>4. QED
      BY <2>1, <3>1, <3>2, <3>3 DEF Fit, Running
  <2>4. QED
    BY <2>2, <2>3
<1>7. DOMAIN runs' = DOMAIN runs
  BY <1>1
<1>8. Fits(runs', stage, sends, seen.missed)
  BY <1>1, <1>5, <1>6, <1>7 DEF Fits, IsSeq, OneRunning
<1>9. OffList(runs', stage, sends, seen.unmoved)
  BY <1>1, <1>6, <1>7 DEF OffList
<1>10. QED
  BY <1>1, <1>8, <1>9, NoneIsNew, SeenStays, NothingTold, Decided

--------------------------------------------------------------------------------
LEMMA InitIInv == Init => IInv
<1> SUFFICES ASSUME Init PROVE IInv
  OBVIOUS
<1>1. /\ runs = <<>> /\ draft = <<>> /\ sends = {}
      /\ seen = [stray |-> {}, unmoved |-> {}, missed |-> {}, trouble |-> FALSE]
  BY DEF Init
<1>2. AllNew(draft)
  BY <1>1, NoneIsNew
<1>3. Fits(runs, stage, sends, seen.missed)
  <2>1. IsSeq(runs) /\ DOMAIN runs = {}
    BY <1>1, NoneIsNew DEF AllNew
  <2>2. QED
    BY <2>1 DEF Fits, OneRunning
<1>4. OdooFollows
  BY DEF Init, OdooFollows
<1>5. QED
  BY <1>1, <1>2, <1>3, <1>4 DEF IInv, OffList, MessagedOnce, Mail, Orderly

LEMMA NextIInv == IInv /\ [Next]_vars => IInv'
<1> SUFFICES ASSUME IInv, [Next]_vars PROVE IInv'
  OBVIOUS
<1>1. CASE Requests \/ Commit
  BY <1>1, RequestSteps
<1>2. CASE Daemon
  BY <1>2, DaemonSteps
<1>3. CASE Hooks
  BY <1>3, RecommendationSteps, MessageSteps, ArchivedSteps DEF Hooks
<1>4. CASE BackendRestart
  BY <1>4, RestartSteps
<1>5. CASE NextDay \/ UNCHANGED vars
  <2>1. UNCHANGED <<runs, draft, stage, lead, sends, seen>>
    BY <1>5 DEF NextDay, vars
  <2>2. QED
    BY <2>1 DEF IInv, MessagedOnce, Mail, OdooFollows
<1>6. QED
  BY <1>1, <1>2, <1>3, <1>4, <1>5 DEF Next

\* Whatever requests, hooks, failures and restarts do in whatever order, nobody is
\* written to twice for the position, unless a run had written to them and left them
\* on the list of the uncontacted: the send was not confirmed, or the move failed,
\* missed them or was never reached: send_messages, _after_message and the compose
\* loop of recruiter.mjs.
THEOREM NobodyTwice == Spec => []MessagedOnce
<1>1. IInv => MessagedOnce
  BY DEF IInv
<1>2. QED
  BY InitIInv, NextIInv, <1>1, PTL DEF Spec

\* Odoo never counts somebody as messaged whom no run has written to with
\* LinkedIn's confirmation, nor as removed who is in the project and was never
\* missing from the pages that a run searched: _after_message and _after_archive
\* tell it what their own run reported, however late they come, and nothing where
\* the report is lost.
THEOREM OdooTellsTheTruth == Spec => []OdooFollows
<1>1. IInv => OdooFollows
  BY DEF IInv
<1>2. QED
  BY InitIInv, NextIInv, <1>1, PTL DEF Spec
--------------------------------------------------------------------------------

\* What no step of a run changes.
Same(x, r) ==
    /\ x.kind = r.kind /\ x.created = r.created /\ x.auto = r.auto
    /\ x.cap = r.cap /\ x.chain = r.chain /\ x.total = r.total

Statuses == {"queued", "running", "done", "failed"}
Act(r) == r.status \in {"queued", "running"}
Settled(r) == r.status = "done" /\ ~r.hook

\* What the run had sent is counted nowhere: it failed, or its extraction is lost.
Forgotten(r) == r.status = "failed" \/ r.lost

RootOf(s, i) == IF s[i].chain = 0 THEN i ELSE s[i].chain
By(m, i) == {x \in m : x.by = i}
Earlier(s, m, i) == {x \in m : x.by < i /\ RootOf(s, x.by) = RootOf(s, i)}
OfChain(s, m, c) == {x \in m : RootOf(s, x.by) = c}

\* A chain is a first run and those that say they continue it; a run is added
\* to it only when all its runs are over, with what they have sent.
Chained(s, m) ==
    /\ \A i \in DOMAIN s : s[i].chain # 0 =>
          /\ s[i].chain \in DOMAIN s /\ s[i].chain < i
          /\ s[s[i].chain].chain = 0 /\ ~s[s[i].chain].auto /\ ~s[i].auto
    /\ \A i, j \in DOMAIN s : i < j /\ RootOf(s, i) = RootOf(s, j) => Settled(s[i])
    /\ \A i \in DOMAIN s : s[i].kind = "message" => s[i].total = Cardinality(Earlier(s, m, i))

\* A run that is not there yet, at the end of its chain.
Joins(s, r, m) ==
    /\ r.cap \in Nat
    /\ r.auto => r.kind = "message" /\ r.chain = 0 /\ r.cap > 0
    /\ r.chain # 0 =>
          /\ r.chain \in DOMAIN s /\ s[r.chain].chain = 0 /\ ~s[r.chain].auto
          /\ \A i \in DOMAIN s : RootOf(s, i) = r.chain => Settled(s[i])
    /\ r.kind = "message" =>
          r.total = IF r.chain = 0 THEN 0 ELSE Cardinality(OfChain(s, m, r.chain))

\* A message run has told those that it wrote to, one by one and within its cap.
Tally(r, sent) ==
    /\ r.status \in Statuses /\ r.cap \in Nat
    /\ r.auto => r.kind = "message" /\ r.cap > 0
    /\ r.status = "queued" => r.told = {}
    /\ r.kind = "message" /\ r.status # "failed" => r.told = {x.to : x \in sent}
    /\ \A x, y \in sent : x.to = y.to /\ r.status # "failed" => x = y
    /\ r.cap > 0 => Cardinality(r.told) <= r.cap

Tallied(s, m) ==
    /\ IsFiniteSet(m)
    /\ \A x \in m : x.to \in People /\ x.by \in DOMAIN s /\ s[x.by].kind = "message"
    /\ \A i \in DOMAIN s : Tally(s[i], By(m, i))

\* Without trouble, one message run at a time works or waits, and the automation
\* has left room for what others had sent on its day.
Capped(s, d, m) ==
    /\ \A x \in m : x.on = s[x.by].created /\ ~Forgotten(s[x.by])
    /\ \A i, j \in DOMAIN s : i < j /\ s[i].kind = "message" /\ s[j].kind = "message" => ~Act(s[i])
    /\ \A k \in DOMAIN d, i \in DOMAIN s :
          d[k].kind = "message" /\ s[i].kind = "message" => ~Act(s[i])
    /\ \A a \in DOMAIN s : s[a].auto =>
          Cardinality({x \in m : x.on = s[a].created /\ x.by < a}) + s[a].cap <= DailyCap
    /\ \A k \in DOMAIN d : d[k].auto =>
          Cardinality({x \in m : x.on = d[k].created}) + d[k].cap <= DailyCap

Sums(s, d, m) ==
    /\ Chained(s, m) /\ Tallied(s, m)
    /\ Len(d) <= 1 /\ \A k \in DOMAIN d : Joins(s, d[k], m)

NInv == Sums(runs, draft, sends) /\ (~seen.trouble => Capped(runs, draft, sends))

\* What a run that works has sent it has sent today.
Today == \A x \in sends : Running(runs[x.by]) => x.on = day

--------------------------------------------------------------------------------
\* Counting.
LEMMA CountUnion ==
    ASSUME NEW S, IsFiniteSet(S), NEW T, IsFiniteSet(T)
    PROVE  /\ IsFiniteSet(S \cup T) /\ Cardinality(S \cup T) \in Nat
           /\ Cardinality(S) \in Nat /\ Cardinality(T) \in Nat
           /\ Cardinality(S \cup T) <= Cardinality(S) + Cardinality(T)
           /\ S \cap T = {} => Cardinality(S \cup T) = Cardinality(S) + Cardinality(T)
<1>1. /\ IsFiniteSet(S \cup T)
      /\ Cardinality(S \cup T) = Cardinality(S) + Cardinality(T) - Cardinality(S \cap T)
  BY FS_Union
<1>2. IsFiniteSet(S \cap T)
  <2>1. S \cap T \in SUBSET S
    OBVIOUS
  <2>2. QED
    BY <2>1, FS_Subset
<1>3. /\ Cardinality(S) \in Nat /\ Cardinality(T) \in Nat
      /\ Cardinality(S \cap T) \in Nat /\ Cardinality(S \cup T) \in Nat
  BY <1>1, <1>2, FS_CardinalityType
<1>4. S \cap T = {} => Cardinality(S \cap T) = 0
  BY FS_EmptySet
<1>5. QED
  BY <1>1, <1>3, <1>4

LEMMA CountPart ==
    ASSUME NEW S, IsFiniteSet(S), NEW T, T \subseteq S
    PROVE  /\ IsFiniteSet(T) /\ Cardinality(T) \in Nat /\ Cardinality(S) \in Nat
           /\ Cardinality(T) <= Cardinality(S)
<1>1. T \in SUBSET S
  OBVIOUS
<1>2. QED
  BY <1>1, FS_Subset, FS_CardinalityType

\* As many people as messages, if nobody got two.
LEMMA CountTold ==
    ASSUME NEW S, IsFiniteSet(S), \A x, y \in S : x.to = y.to => x = y
    PROVE  /\ IsFiniteSet({x.to : x \in S})
           /\ Cardinality({x.to : x \in S}) = Cardinality(S)
<1> DEFINE T == {x.to : x \in S}
           f == [x \in S |-> x.to]
<1>1. f \in [S -> T] /\ \A x \in S : f[x] = x.to
  OBVIOUS
<1>2. \A y \in T : \E x \in S : y = x.to
  OBVIOUS
<1> HIDE DEF f, T
<1>3. f \in Bijection(S, T)
  BY <1>1, <1>2 DEF Bijection, Injection, Surjection, IsInjective
<1>4. ExistsBijection(S, T)
  BY <1>3 DEF ExistsBijection
<1>5. QED
  BY <1>4, FS_Bijection DEF T

--------------------------------------------------------------------------------
\* Runs that go on, or end, stay in their chains.
LEMMA ChainsStay ==
    ASSUME NEW s, NEW m, Chained(s, m), \A x \in m : x.by \in DOMAIN s,
           NEW t, DOMAIN t = DOMAIN s,
           \A i \in DOMAIN s : Same(t[i], s[i]) /\ (Settled(s[i]) => Settled(t[i]))
    PROVE  Chained(t, m) /\ \A r : Joins(s, r, m) => Joins(t, r, m)
<1>1. \A i \in DOMAIN s : RootOf(t, i) = RootOf(s, i)
  BY DEF RootOf, Same
<1>2. \A i \in DOMAIN s : Earlier(t, m, i) = Earlier(s, m, i)
  BY <1>1 DEF Earlier
<1>3. \A c : OfChain(t, m, c) = OfChain(s, m, c)
  BY <1>1 DEF OfChain
<1>4. Chained(t, m)
  <2>1. \A i \in DOMAIN t : t[i].chain # 0 =>
          /\ t[i].chain \in DOMAIN t /\ t[i].chain < i
          /\ t[t[i].chain].chain = 0 /\ ~t[t[i].chain].auto /\ ~t[i].auto
    BY DEF Chained, Same
  <2>2. \A i, j \in DOMAIN t : i < j /\ RootOf(t, i) = RootOf(t, j) => Settled(t[i])
    BY <1>1 DEF Chained
  <2>3. \A i \in DOMAIN t : t[i].kind = "message" => t[i].total = Cardinality(Earlier(t, m, i))
    BY <1>2 DEF Chained, Same
  <2>4. QED
    BY <2>1, <2>2, <2>3 DEF Chained
<1>5. ASSUME NEW r, Joins(s, r, m) PROVE Joins(t, r, m)
  BY <1>1, <1>3, <1>5 DEF Joins, Same
<1>6. QED
  BY <1>4, <1>5

\* A run is added at the end of its chain, and leaves other chains as they were.
LEMMA ChainGrows ==
    ASSUME NEW s, IsSeq(s), NEW m, Chained(s, m), \A x \in m : x.by \in DOMAIN s,
           NEW r, Joins(s, r, m)
    PROVE  /\ Chained(Append(s, r), m)
           /\ \A q : Joins(s, q, m) /\ (r.chain # 0 => q.chain # r.chain)
                     => Joins(Append(s, r), q, m)
<1> DEFINE t == Append(s, r)
           n == Len(s) + 1
<1>1. /\ DOMAIN s = 1..Len(s) /\ Len(s) \in Nat /\ DOMAIN t = 1..n /\ t[n] = r
      /\ \A i \in DOMAIN s : t[i] = s[i]
  <2>1. PICK S : s \in Seq(S)
    BY DEF IsSeq
  <2>2. s \in Seq(S \cup {r})
    BY <2>1
  <2>3. QED
    BY <2>2
<1>2. n \notin DOMAIN s /\ DOMAIN t = DOMAIN s \cup {n} /\ \A i \in DOMAIN s : i < n /\ i \in Int
  BY <1>1
<1>3. n \in Int /\ n # 0
  BY <1>1
<1> HIDE DEF t, n
<1>4. \A i \in DOMAIN s : RootOf(t, i) = RootOf(s, i)
  BY <1>1 DEF RootOf
<1>5. RootOf(t, n) = IF r.chain = 0 THEN n ELSE r.chain
  BY <1>1 DEF RootOf
<1>6. \A i \in DOMAIN s : Earlier(t, m, i) = Earlier(s, m, i)
  BY <1>4 DEF Earlier
<1>7. \A c : OfChain(t, m, c) = OfChain(s, m, c)
  BY <1>4 DEF OfChain
<1>8. \A i \in DOMAIN s : RootOf(s, i) \in DOMAIN s
  BY DEF RootOf, Chained
<1>9. Earlier(t, m, n) = IF r.chain = 0 THEN {} ELSE OfChain(s, m, r.chain)
  BY <1>2, <1>4, <1>5, <1>8 DEF Earlier, OfChain
<1>10. Chained(t, m)
  <2>1. ASSUME NEW i \in DOMAIN t, t[i].chain # 0
        PROVE  /\ t[i].chain \in DOMAIN t /\ t[i].chain < i
               /\ t[t[i].chain].chain = 0 /\ ~t[t[i].chain].auto /\ ~t[i].auto
    <3>1. CASE i = n
      BY <1>1, <1>2, <2>1, <3>1 DEF Joins
    <3>2. CASE i \in DOMAIN s
      BY <1>1, <1>2, <2>1, <3>2 DEF Chained
    <3>3. QED
      BY <1>2, <3>1, <3>2
  <2>2. ASSUME NEW i \in DOMAIN t, NEW j \in DOMAIN t, i < j, RootOf(t, i) = RootOf(t, j)
        PROVE  Settled(t[i])
    <3>1. i \in DOMAIN s
      BY <1>2, <1>3, <2>2
    <3>2. CASE j \in DOMAIN s
      BY <1>1, <1>4, <2>2, <3>1, <3>2 DEF Chained
    <3>3. CASE j = n
      BY <1>1, <1>2, <1>4, <1>5, <1>8, <2>2, <3>1, <3>3 DEF Joins
    <3>4. QED
      BY <1>2, <3>2, <3>3
  <2>3. ASSUME NEW i \in DOMAIN t, t[i].kind = "message"
        PROVE  t[i].total = Cardinality(Earlier(t, m, i))
    <3>1. CASE i = n
      BY <1>1, <1>9, <2>3, <3>1, FS_EmptySet DEF Joins
    <3>2. CASE i \in DOMAIN s
      BY <1>1, <1>6, <2>3, <3>2 DEF Chained
    <3>3. QED
      BY <1>2, <3>1, <3>2
  <2>4. QED
    BY <2>1, <2>2, <2>3 DEF Chained
<1>11. ASSUME NEW q, Joins(s, q, m), r.chain # 0 => q.chain # r.chain
       PROVE  Joins(t, q, m)
  <2>1. q.chain # 0 => RootOf(t, n) # q.chain
    BY <1>2, <1>5, <1>11 DEF Joins
  <2>2. QED
    BY <1>1, <1>2, <1>4, <1>7, <1>11, <2>1 DEF Joins
<1>12. QED
  BY <1>10, <1>11 DEF t

\* Messages of a run that is not settled belong to no total yet.
LEMMA MailStaysOut ==
    ASSUME NEW s, NEW m, Chained(s, m), NEW k \in DOMAIN s, ~Settled(s[k]),
           NEW mail, \A x \in mail : x.by = k
    PROVE  /\ Chained(s, m \cup mail)
           /\ \A r : Joins(s, r, m) => Joins(s, r, m \cup mail)
<1>1. \A i \in DOMAIN s : Earlier(s, m \cup mail, i) = Earlier(s, m, i)
  BY DEF Earlier, Chained
<1>2. \A r : Joins(s, r, m) /\ r.chain # 0
             => OfChain(s, m \cup mail, r.chain) = OfChain(s, m, r.chain)
  BY DEF OfChain, Joins
<1>3. Chained(s, m \cup mail)
  BY <1>1 DEF Chained
<1>4. QED
  BY <1>2, <1>3 DEF Joins

--------------------------------------------------------------------------------
\* Runs that go on, or end.
LEMMA CapsStay ==
    ASSUME NEW s, NEW d, NEW m, Capped(s, d, m), \A x \in m : x.by \in DOMAIN s,
           NEW t, DOMAIN t = DOMAIN s,
           \A i \in DOMAIN s : Same(t[i], s[i]) /\ (Act(t[i]) => Act(s[i])),
           \A i \in DOMAIN s : Forgotten(t[i]) => Forgotten(s[i]) \/ By(m, i) = {}
    PROVE  Capped(t, d, m)
<1>1. \A x \in m : x.on = t[x.by].created /\ ~Forgotten(t[x.by])
  BY DEF Capped, Same, By
<1>2. \A i, j \in DOMAIN t : i < j /\ t[i].kind = "message" /\ t[j].kind = "message" => ~Act(t[i])
  BY DEF Capped, Same
<1>3. \A k \in DOMAIN d, i \in DOMAIN t :
         d[k].kind = "message" /\ t[i].kind = "message" => ~Act(t[i])
  BY DEF Capped, Same
<1>4. \A a \in DOMAIN t : t[a].auto =>
          Cardinality({x \in m : x.on = t[a].created /\ x.by < a}) + t[a].cap <= DailyCap
  BY DEF Capped, Same
<1>5. \A k \in DOMAIN d : d[k].auto =>
          Cardinality({x \in m : x.on = d[k].created}) + d[k].cap <= DailyCap
  BY DEF Capped
<1>6. QED
  BY <1>1, <1>2, <1>3, <1>4, <1>5 DEF Capped

LEMMA OneGoesOn ==
    ASSUME NEW s, IsSeq(s), NEW d, NEW m, Sums(s, d, m),
           NEW i \in DOMAIN s, NEW x,
           Same(x, s[i]), Settled(s[i]) => Settled(x), Act(x) => Act(s[i]),
           Tally(x, By(m, i)),
           NEW t, t = [s EXCEPT ![i] = x]
    PROVE  /\ Sums(t, d, m) /\ IsSeq(t) /\ DOMAIN t = DOMAIN s
           /\ Capped(s, d, m) /\ (Forgotten(x) => Forgotten(s[i]) \/ By(m, i) = {})
              => Capped(t, d, m)
<1>1. /\ IsSeq(t) /\ DOMAIN t = DOMAIN s /\ t[i] = x
      /\ \A j \in DOMAIN s : j # i => t[j] = s[j]
  BY OneChanges
<1>2. \A x1 \in m : x1.by \in DOMAIN s
  BY DEF Sums, Tallied
<1>3. \A j \in DOMAIN s : /\ Same(t[j], s[j]) /\ (Settled(s[j]) => Settled(t[j]))
                          /\ (Act(t[j]) => Act(s[j]))
  BY <1>1 DEF Same
<1>4. Chained(t, m) /\ \A r : Joins(s, r, m) => Joins(t, r, m)
  BY <1>1, <1>2, <1>3, ChainsStay DEF Sums
<1>5. Tallied(t, m)
  <2>1. \A j \in DOMAIN t : Tally(t[j], By(m, j))
    BY <1>1 DEF Sums, Tallied
  <2>2. \A y \in m : y.to \in People /\ y.by \in DOMAIN t /\ t[y.by].kind = "message"
    BY <1>1, <1>3 DEF Sums, Tallied, Same
  <2>3. QED
    BY <2>1, <2>2 DEF Sums, Tallied
<1>6. Sums(t, d, m)
  BY <1>4, <1>5 DEF Sums
<1>7. ASSUME Capped(s, d, m), Forgotten(x) => Forgotten(s[i]) \/ By(m, i) = {}
      PROVE  Capped(t, d, m)
  <2>1. \A j \in DOMAIN s : Forgotten(t[j]) => Forgotten(s[j]) \/ By(m, j) = {}
    BY <1>1, <1>7
  <2>2. QED
    BY <1>1, <1>2, <1>3, <1>7, <2>1, CapsStay
<1>8. QED
  BY <1>1, <1>6, <1>7

--------------------------------------------------------------------------------
\* A new run has told nobody.
LEMMA TallyGrows ==
    ASSUME NEW s, IsSeq(s), NEW m, Tallied(s, m),
           NEW r, New(r), r.cap \in Nat, r.auto => r.kind = "message" /\ r.cap > 0
    PROVE  Tallied(Append(s, r), m)
<1> DEFINE t == Append(s, r)
           n == Len(s) + 1
<1>1. /\ DOMAIN t = DOMAIN s \cup {n} /\ n \notin DOMAIN s /\ t[n] = r
      /\ \A i \in DOMAIN s : t[i] = s[i]
  <2>1. PICK S : s \in Seq(S)
    BY DEF IsSeq
  <2>2. s \in Seq(S \cup {r})
    BY <2>1
  <2>3. QED
    BY <2>2
<1> HIDE DEF t, n
<1>2. By(m, n) = {}
  BY <1>1 DEF Tallied, By
<1>3. Cardinality({}) = 0
  BY FS_EmptySet
<1>4. Tally(r, {})
  BY <1>3 DEF Tally, New, Running, Statuses
<1>5. QED
  BY <1>1, <1>2, <1>4 DEF Tallied, t

LEMMA CapsGrow ==
    ASSUME NEW s, IsSeq(s), NEW d, NEW m, Capped(s, d, m), \A x \in m : x.by \in DOMAIN s,
           NEW r, r.kind = "message" =>
              /\ \A i \in DOMAIN s : s[i].kind = "message" => ~Act(s[i])
              /\ \A k \in DOMAIN d : d[k].kind # "message",
           r.auto => Cardinality({x \in m : x.on = r.created}) + r.cap <= DailyCap
    PROVE  Capped(Append(s, r), d, m)
<1> DEFINE t == Append(s, r)
           n == Len(s) + 1
<1>1. /\ DOMAIN t = DOMAIN s \cup {n} /\ n \notin DOMAIN s /\ t[n] = r
      /\ \A i \in DOMAIN s : t[i] = s[i] /\ i < n /\ i \in Int
  <2>1. PICK S : s \in Seq(S)
    BY DEF IsSeq
  <2>2. s \in Seq(S \cup {r})
    BY <2>1
  <2>3. QED
    BY <2>2
<1>2. n \in Int
  <2>1. PICK S : s \in Seq(S)
    BY DEF IsSeq
  <2>2. QED
    BY <2>1
<1> HIDE DEF t, n
<1>3. \A x \in m : x.on = t[x.by].created /\ ~Forgotten(t[x.by])
  BY <1>1 DEF Capped
<1>4. ASSUME NEW i \in DOMAIN t, NEW j \in DOMAIN t, i < j,
             t[i].kind = "message", t[j].kind = "message"
      PROVE  ~Act(t[i])
  <2>1. i \in DOMAIN s
    BY <1>1, <1>2, <1>4
  <2>2. CASE j \in DOMAIN s
    BY <1>1, <1>4, <2>1, <2>2 DEF Capped
  <2>3. CASE j = n
    BY <1>1, <1>4, <2>1, <2>3
  <2>4. QED
    BY <1>1, <2>2, <2>3
<1>5. \A k \in DOMAIN d, i \in DOMAIN t :
         d[k].kind = "message" /\ t[i].kind = "message" => ~Act(t[i])
  BY <1>1 DEF Capped
<1>6. ASSUME NEW a \in DOMAIN t, t[a].auto
      PROVE  Cardinality({x \in m : x.on = t[a].created /\ x.by < a}) + t[a].cap <= DailyCap
  <2>1. CASE a \in DOMAIN s
    BY <1>1, <1>6, <2>1 DEF Capped
  <2>2. CASE a = n
    <3>1. {x \in m : x.on = t[a].created /\ x.by < a} = {x \in m : x.on = r.created}
      BY <1>1, <2>2
    <3>2. QED
      BY <1>1, <1>6, <2>2, <3>1
  <2>3. QED
    BY <1>1, <2>1, <2>2
<1>7. \A k \in DOMAIN d : d[k].auto =>
          Cardinality({x \in m : x.on = d[k].created}) + d[k].cap <= DailyCap
  BY DEF Capped
<1>8. Capped(t, d, m)
  BY <1>3, <1>4, <1>5, <1>6, <1>7 DEF Capped
<1>9. QED
  BY <1>8 DEF t

\* A new run that nothing waits for: a recommendation run or an archive.
Plain(r) == /\ New(r) /\ r.kind # "message" /\ r.chain = 0 /\ ~r.auto /\ r.cap \in Nat

\* A decision for r, against the runs s and the draft d.
Decision(s, d, r, m) ==
    /\ New(r) /\ Joins(s, r, m)
    /\ r.chain # 0 => \A k \in DOMAIN d : d[k].chain # r.chain

\* One that leaves the budget as it was found.
InBudget(s, d, r, m) ==
    /\ r.kind = "message" =>
         /\ \A i \in DOMAIN s : s[i].kind = "message" => ~Act(s[i])
         /\ \A k \in DOMAIN d : d[k].kind # "message"
    /\ r.auto => Cardinality({x \in m : x.on = r.created}) + r.cap <= DailyCap

LEMMA Appended ==
    ASSUME NEW s, IsSeq(s), NEW d, NEW m, Sums(s, d, m),
           NEW r, Decision(s, d, r, m)
    PROVE  /\ Sums(Append(s, r), d, m)
           /\ Capped(s, d, m) /\ InBudget(s, d, r, m) => Capped(Append(s, r), d, m)
<1>1. \A x \in m : x.by \in DOMAIN s
  BY DEF Sums, Tallied
<1>2. /\ Chained(Append(s, r), m)
      /\ \A q : Joins(s, q, m) /\ (r.chain # 0 => q.chain # r.chain) => Joins(Append(s, r), q, m)
  BY <1>1, ChainGrows DEF Sums, Decision
<1>3. Tallied(Append(s, r), m)
  BY TallyGrows DEF Sums, Decision, Joins
<1>4. Sums(Append(s, r), d, m)
  BY <1>2, <1>3 DEF Sums, Decision
<1>5. ASSUME Capped(s, d, m), InBudget(s, d, r, m) PROVE Capped(Append(s, r), d, m)
  BY <1>1, <1>5, CapsGrow DEF InBudget
<1>6. QED
  BY <1>4, <1>5

LEMMA Drafted ==
    ASSUME NEW s, NEW m, Sums(s, <<>>, m), NEW r, Decision(s, <<>>, r, m)
    PROVE  /\ Sums(s, <<r>>, m)
           /\ Capped(s, <<>>, m) /\ InBudget(s, <<>>, r, m) => Capped(s, <<r>>, m)
<1>1. DOMAIN <<r>> = {1} /\ <<r>>[1] = r /\ Len(<<r>>) = 1
  OBVIOUS
<1>2. Sums(s, <<r>>, m)
  BY <1>1 DEF Sums, Decision
<1>3. QED
  BY <1>1, <1>2, ZenonT(30) DEF Capped, InBudget

\* A draft is dropped, or was never made.
LEMMA Dropped ==
    ASSUME NEW s, NEW d, NEW m, Sums(s, d, m)
    PROVE  /\ Sums(s, <<>>, m)
           /\ Capped(s, d, m) => Capped(s, <<>>, m)
<1>1. DOMAIN <<>> = {} /\ Len(<<>>) = 0
  OBVIOUS
<1>2. QED
  BY <1>1 DEF Sums, Capped

--------------------------------------------------------------------------------
\* Plain runs that are added, however many, belong to no chain and no budget.
Extends(t, s) ==
    /\ DOMAIN s \subseteq DOMAIN t /\ DOMAIN t \subseteq Nat \ {0}
    /\ \A i \in DOMAIN s : t[i] = s[i]
    /\ \A i \in DOMAIN t \ DOMAIN s : Plain(t[i]) /\ \A j \in DOMAIN s : j < i

LEMMA PlainGrowth ==
    ASSUME NEW s, NEW d, NEW m, Sums(s, d, m), NEW t, Extends(t, s)
    PROVE  Sums(t, d, m) /\ (Capped(s, d, m) => Capped(t, d, m))
<1> DEFINE more == DOMAIN t \ DOMAIN s
<1>1. /\ \A i \in DOMAIN s : t[i] = s[i] /\ i \in DOMAIN t
      /\ \A i \in more : t[i].kind # "message" /\ t[i].chain = 0 /\ ~t[i].auto /\ New(t[i])
      /\ \A i \in more : t[i].cap \in Nat
      /\ \A i \in more, j \in DOMAIN s : j < i
      /\ \A i \in DOMAIN t : i \in DOMAIN s \/ i \in more
      /\ \A i \in DOMAIN t : i \in Nat
  BY DEF Extends, Plain
<1>2. Chained(s, m) /\ Tallied(s, m) /\ \A x \in m : x.by \in DOMAIN s
  BY DEF Sums, Tallied
<1>3. \A i \in more : i \notin DOMAIN s
  OBVIOUS
<1> HIDE DEF more
<1>4. \A i \in DOMAIN s : RootOf(t, i) = RootOf(s, i) /\ RootOf(s, i) \in DOMAIN s
  BY <1>1, <1>2 DEF RootOf, Chained
<1>5. \A i \in more : RootOf(t, i) = i
  BY <1>1 DEF RootOf
<1>6. \A i \in DOMAIN s : Earlier(t, m, i) = Earlier(s, m, i)
  BY <1>2, <1>4 DEF Earlier
<1>7. \A c : OfChain(t, m, c) = OfChain(s, m, c)
  BY <1>2, <1>4 DEF OfChain
<1>8. Chained(t, m)
  <2>1. \A i \in DOMAIN t : t[i].chain # 0 =>
          /\ t[i].chain \in DOMAIN t /\ t[i].chain < i
          /\ t[t[i].chain].chain = 0 /\ ~t[t[i].chain].auto /\ ~t[i].auto
    BY <1>1, <1>2 DEF Chained
  <2>2. ASSUME NEW i \in DOMAIN t, NEW j \in DOMAIN t, i < j, RootOf(t, i) = RootOf(t, j)
        PROVE  Settled(t[i])
    <3>1. CASE i \in DOMAIN s /\ j \in DOMAIN s
      BY <1>1, <1>2, <1>4, <2>2, <3>1 DEF Chained
    <3>2. CASE i \in more /\ j \in DOMAIN s
      BY <1>1, <2>2, <3>2
    <3>3. CASE j \in more
      BY <1>1, <1>3, <1>4, <1>5, <2>2, <3>3
    <3>4. QED
      BY <1>1, <3>1, <3>2, <3>3
  <2>3. \A i \in DOMAIN t : t[i].kind = "message" => t[i].total = Cardinality(Earlier(t, m, i))
    BY <1>1, <1>2, <1>6 DEF Chained
  <2>4. QED
    BY <2>1, <2>2, <2>3 DEF Chained
<1>9. \A q : Joins(s, q, m) => Joins(t, q, m)
  BY <1>1, <1>3, <1>4, <1>5, <1>7 DEF Joins
<1>10. Tallied(t, m)
  <2>1. ASSUME NEW i \in more PROVE Tally(t[i], By(m, i))
    <3>1. By(m, i) = {}
      BY <1>2, <1>3 DEF By
    <3>2. Cardinality({}) = 0
      BY FS_EmptySet
    <3>3. New(t[i]) /\ t[i].kind # "message" /\ ~t[i].auto /\ t[i].cap \in Nat
      BY <1>1
    <3>4. Tally(t[i], {})
      BY <3>2, <3>3 DEF Tally, New, Running, Statuses
    <3>5. QED
      BY <3>1, <3>4
  <2>2. QED
    BY <1>1, <1>2, <2>1 DEF Tallied
<1>11. ASSUME Capped(s, d, m) PROVE Capped(t, d, m)
  BY <1>1, <1>2, <1>11 DEF Capped
<1>12. QED
  BY <1>8, <1>9, <1>10, <1>11 DEF Sums

--------------------------------------------------------------------------------
\* What the decisions look like.
LEMMA PlainOnes ==
    Plain(Fresh("recommend")) /\ \A p : Plain(Archive(p))
<1>1. New(Fresh("recommend")) /\ \A p : New(Archive(p))
  BY MadeNew
<1>2. /\ Fresh("recommend").kind = "recommend" /\ Fresh("recommend").chain = 0
      /\ ~Fresh("recommend").auto /\ Fresh("recommend").cap = 0
  BY DEF Fresh
<1>3. ASSUME NEW p
      PROVE  /\ Archive(p).kind = "archive" /\ Archive(p).chain = 0
             /\ ~Archive(p).auto /\ Archive(p).cap = 0
  BY DEF Archive, Fresh
<1>4. QED
  BY <1>1, <1>2, <1>3 DEF Plain

LEMMA OneElement ==
    ASSUME NEW S, NEW s \in Seq(S), s # <<>>, Len(s) <= 1
    PROVE  s = <<s[1]>> /\ 1 \in DOMAIN s /\ s[1] \in S
<1>1. Len(s) \in Nat /\ Len(<<>>) = 0 /\ <<>> \in Seq(S)
  OBVIOUS
<1>2. Len(s) = 0 => s = <<>>
  BY <1>1
<1>3. Len(s) = 1
  BY <1>1, <1>2
<1>4. QED
  BY <1>3

LEMMA ContinuationWith ==
    ASSUME NEW i
    PROVE  /\ Continuation(i).kind = "message" /\ Continuation(i).auto = FALSE
           /\ Continuation(i).cap = 0 /\ Continuation(i).chain = Root(i)
           /\ Continuation(i).total = runs[i].total + Cardinality(runs[i].told)
<1> DEFINE m == Message(TRUE, FALSE, 0)
<1>1. IsRun(m) /\ m.kind = "message" /\ m.auto = FALSE /\ m.cap = 0
  BY DEF Message, Fresh, IsRun, Fields
<1> HIDE DEF m
<1> DEFINE total == runs[i].total + Cardinality(runs[i].told)
           skip == runs[i].skip \cup runs[i].passed
           index == runs[i].index + 1
           chain == Root(i)
           x == [m EXCEPT !.chain = chain, !.index = index, !.total = total, !.skip = skip]
<1>2. Continuation(i) = x
  BY DEF Continuation, m
<1> HIDE DEF total, skip, index, chain
<1>3. /\ x.kind = "message" /\ x.auto = FALSE /\ x.cap = 0
      /\ x.chain = chain /\ x.total = total
  BY <1>1 DEF IsRun, Fields
<1>4. QED
  BY <1>2, <1>3 DEF chain, total

\* Decisions at once or later.
LEMMA DecidesSums ==
    ASSUME NEW base, IsSeq(base), Sums(base, draft, sends), UNCHANGED <<stage, sends>>,
           NEW r, Decision(base, draft, r, sends), Enqueue(base, r),
           ~seen'.trouble => Capped(base, draft, sends) /\ InBudget(base, draft, r, sends)
    PROVE  NInv'
<1>1. CASE runs' = Append(base, r) /\ UNCHANGED draft
  <2>1. /\ Sums(Append(base, r), draft, sends)
        /\ ~seen'.trouble => Capped(Append(base, r), draft, sends)
    BY Appended
  <2>2. QED
    BY <1>1, <2>1 DEF NInv
<1>2. CASE draft = <<>> /\ draft' = <<r>> /\ runs' = base
  <2>1. /\ Sums(base, <<r>>, sends)
        /\ ~seen'.trouble => Capped(base, <<r>>, sends)
    BY <1>2, Drafted
  <2>2. QED
    BY <1>2, <2>1 DEF NInv
<1>3. QED
  BY <1>1, <1>2 DEF Enqueue

LEMMA TroubleIs ==
    ASSUME IInv, NEW b, seen' = [seen EXCEPT !.trouble = b]
    PROVE  seen'.trouble = b
BY DEF IInv, Orderly

\* Nothing else is being decided on, or there is trouble.
LEMMA NoOverlap ==
    ASSUME IInv, NInv, ~Overlaps
    PROVE  \A k \in DOMAIN draft : draft[k].kind # "message"
<1>1. PICK S : draft \in Seq(S)
  BY DEF IInv, AllNew, IsSeq
<1>2. DOMAIN draft \subseteq {1} /\ (1 \in DOMAIN draft => draft # <<>>)
  BY <1>1 DEF NInv, Sums
<1>3. QED
  BY <1>2 DEF Overlaps

LEMMA NobodyMessages ==
    ASSUME MaySend
    PROVE  \A i \in DOMAIN runs : runs[i].kind = "message" => ~Act(runs[i])
BY DEF MaySend, ActiveKind, Active, Act, Ids

--------------------------------------------------------------------------------
LEMMA RequestSums ==
    ASSUME IInv, NInv, Requests \/ Commit
    PROVE  NInv'
<1>1. /\ IsSeq(runs) /\ Sums(runs, draft, sends)
      /\ ~seen.trouble => Capped(runs, draft, sends)
  BY DEF IInv, NInv, Fits
<1>2. ASSUME NEW r, Plain(r), UNCHANGED <<stage, sends, seen>>, Enqueue(runs, r) PROVE NInv'
  <2>1. Decision(runs, draft, r, sends) /\ InBudget(runs, draft, r, sends)
    BY <1>2 DEF Plain, Decision, InBudget, Joins
  <2>2. QED
    BY <1>1, <1>2, <2>1, DecidesSums
<1>3. CASE SaveRecommendations
  BY <1>2, <1>3, PlainOnes DEF SaveRecommendations
<1>4. ASSUME NEW p \in People, RemoveCandidate(p) PROVE NInv'
  BY <1>2, <1>4, PlainOnes DEF RemoveCandidate
<1>5. ASSUME NEW q \in Demands, SendMessages(q.send, q.cap) PROVE NInv'
  <2> DEFINE r == Message(q.send, FALSE, q.cap)
  <2>1. New(r) /\ r.kind = "message" /\ r.chain = 0 /\ ~r.auto /\ r.cap = q.cap /\ r.total = 0
    BY MadeNew DEF Message, Fresh
  <2>2. q.cap \in Nat
    BY OutreachAssumption
  <2>3. Enqueue(runs, r) /\ UNCHANGED <<stage, sends>> /\ MaySend
        /\ seen' = [seen EXCEPT !.trouble = @ \/ Overlaps]
    BY <1>5 DEF SendMessages
  <2> HIDE DEF r
  <2>4. Decision(runs, draft, r, sends)
    BY <2>1, <2>2 DEF Decision, Joins
  <2>5. ~seen'.trouble => ~seen.trouble /\ ~Overlaps
    BY <2>3, TroubleIs
  <2>6. ~seen'.trouble => Capped(runs, draft, sends) /\ InBudget(runs, draft, r, sends)
    <3>1. SUFFICES ASSUME ~seen.trouble, ~Overlaps
                   PROVE  InBudget(runs, draft, r, sends)
      BY <1>1, <2>5
    <3>2. QED
      BY <2>1, <2>3, <3>1, NoOverlap, NobodyMessages DEF InBudget
  <2>7. QED
    BY <1>1, <2>3, <2>4, <2>6, DecidesSums
<1>6. CASE Commit
  <2>1. draft # <<>> /\ runs' = runs \o draft /\ draft' = <<>> /\ UNCHANGED <<stage, sends, seen>>
    BY <1>6 DEF Commit
  <2>2. PICK S : draft \in Seq(S)
    BY DEF IInv, AllNew, IsSeq
  <2>3. PICK T : runs \in Seq(T)
    BY <1>1 DEF IsSeq
  <2> DEFINE r == draft[1]
  <2>4. draft = <<r>> /\ 1 \in DOMAIN draft /\ r \in S
    BY <1>1, <2>1, <2>2, OneElement DEF Sums
  <2>5. runs' = Append(runs, r)
    <3>1. runs \in Seq(S \cup T) /\ draft \in Seq(S \cup T)
      BY <2>2, <2>3
    <3>2. r \in S \cup T
      BY <2>4
    <3> HIDE DEF r
    <3>3. runs \o <<r>> = Append(runs, r)
      BY <3>1, <3>2
    <3>4. QED
      BY <2>1, <2>4, <3>3
  <2>6. Sums(runs, <<>>, sends) /\ (~seen.trouble => Capped(runs, <<>>, sends))
    BY <1>1, Dropped
  <2>7. New(r) /\ Joins(runs, r, sends)
    BY <1>1, <2>4 DEF IInv, AllNew, Sums
  <2>8. DOMAIN <<>> = {}
    OBVIOUS
  <2>9. Decision(runs, <<>>, r, sends)
    BY <2>7, <2>8 DEF Decision
  <2>10. ~seen.trouble => InBudget(runs, <<>>, r, sends)
    BY <1>1, <2>4, <2>8 DEF Capped, InBudget
  <2> HIDE DEF r
  <2>11. /\ Sums(Append(runs, r), <<>>, sends)
         /\ ~seen.trouble => Capped(Append(runs, r), <<>>, sends)
    BY <1>1, <2>6, <2>9, <2>10, Appended
  <2>12. QED
    BY <2>1, <2>5, <2>11 DEF NInv
<1>7. QED
  BY <1>3, <1>4, <1>5, <1>6 DEF Requests

--------------------------------------------------------------------------------
\* A run goes on or ends, while nothing is sent.
LEMMA GoesOnSums ==
    ASSUME IInv, NInv, NEW i \in Ids, NEW x, runs' = [runs EXCEPT ![i] = x],
           Same(x, runs[i]), Settled(runs[i]) => Settled(x), Act(x) => Act(runs[i]),
           Tally(x, By(sends, i)), UNCHANGED <<draft, sends>>,
           ~seen'.trouble =>
              ~seen.trouble /\ (Forgotten(x) => Forgotten(runs[i]) \/ By(sends, i) = {})
    PROVE  NInv'
<1>1. /\ IsSeq(runs) /\ Sums(runs, draft, sends) /\ i \in DOMAIN runs
      /\ ~seen.trouble => Capped(runs, draft, sends)
  BY DEF IInv, NInv, Fits, Ids
<1>2. /\ Sums(runs', draft, sends)
      /\ /\ Capped(runs, draft, sends)
         /\ Forgotten(x) => Forgotten(runs[i]) \/ By(sends, i) = {}
         => Capped(runs', draft, sends)
  BY <1>1, OneGoesOn
<1>3. QED
  BY <1>1, <1>2 DEF NInv

\* Facts about a run that is not done.
LEMMA OnSeat ==
    ASSUME IInv, NInv, NEW i \in Ids
    PROVE  /\ IsRun(runs[i]) /\ i \in DOMAIN runs /\ Tally(runs[i], By(sends, i))
           /\ IsFiniteSet(By(sends, i))
<1>1. By(sends, i) \subseteq sends
  BY DEF By
<1>2. QED
  BY <1>1, CountPart DEF IInv, Fits, Fit, NInv, Sums, Tallied, Ids

\* A run that sent something has told somebody, unless it failed.
LEMMA ToldNobody ==
    ASSUME IInv, NInv, NEW i \in Ids, runs[i].status # "failed", runs[i].told = {}
    PROVE  By(sends, i) = {}
<1>1. Tally(runs[i], By(sends, i))
  BY OnSeat
<1>2. CASE runs[i].kind = "message"
  BY <1>1, <1>2 DEF Tally
<1>3. CASE runs[i].kind # "message"
  BY <1>3 DEF NInv, Sums, Tallied, By
<1>4. QED
  BY <1>2, <1>3

\* A run that works and goes on working.
LEMMA WorksSums ==
    ASSUME IInv, NInv, NEW i \in Ids, NEW x, runs' = [runs EXCEPT ![i] = x],
           Same(x, runs[i]), Running(runs[i]), Running(x), x.told = runs[i].told,
           x.lost = runs[i].lost, UNCHANGED <<draft, sends>>, seen'.trouble = seen.trouble
    PROVE  NInv'
<1>1. Tally(runs[i], By(sends, i))
  BY OnSeat
<1>2. Tally(x, By(sends, i))
  BY <1>1 DEF Tally, Same, Running, Statuses
<1>3. Act(runs[i]) /\ ~Settled(runs[i]) /\ (Forgotten(x) => Forgotten(runs[i]))
  BY DEF Act, Settled, Running, Forgotten
<1>4. QED
  BY <1>2, <1>3, GoesOnSums

\* A run that ends keeps what it told.  Where its extraction is lost that is
\* trouble, unless it told nobody.
LEMMA EndsSums ==
    ASSUME IInv, NInv, NEW i \in Ids, NEW r, IsRun(r), Same(r, runs[i]), r.told = runs[i].told,
           NEW lost \in BOOLEAN, Running(runs[i]), runs' = [runs EXCEPT ![i] = Done(r, lost)],
           UNCHANGED <<draft, sends>>,
           ~seen'.trouble => ~seen.trouble /\ (lost => runs[i].told = {})
    PROVE  NInv'
<1> DEFINE x == Done(r, lost)
<1>1. Tally(runs[i], By(sends, i))
  BY OnSeat
<1>2. x.status = "done" /\ Same(x, runs[i]) /\ x.told = runs[i].told /\ x.lost = lost
  BY DEF IsRun, Fields, Same, Done
<1>3. runs' = [runs EXCEPT ![i] = x]
  OBVIOUS
<1> HIDE DEF x
<1>4. Tally(x, By(sends, i))
  BY <1>1, <1>2 DEF Tally, Same, Running, Statuses
<1>5. ~Act(x) /\ ~Settled(runs[i]) /\ (Forgotten(x) => lost)
  BY <1>2 DEF Act, Settled, Running, Forgotten
<1>6. runs[i].told = {} => By(sends, i) = {}
  BY ToldNobody DEF Running
<1>7. QED
  BY <1>2, <1>3, <1>4, <1>5, <1>6, GoesOnSums

LEMMA ClaimSums ==
    ASSUME IInv, NInv, NEW i \in Ids, Claim(i)
    PROVE  NInv'
<1> DEFINE x == [runs[i] EXCEPT !.status = "running"]
<1>1. IsRun(runs[i]) /\ Tally(runs[i], By(sends, i))
  BY OnSeat
<1>2. /\ runs' = [runs EXCEPT ![i] = x] /\ runs[i].status = "queued"
      /\ UNCHANGED <<draft, sends, seen>>
  BY DEF Claim
<1>3. x.status = "running" /\ Same(x, runs[i]) /\ x.told = runs[i].told /\ x.lost = runs[i].lost
  BY <1>1 DEF IsRun, Fields, Same
<1> HIDE DEF x
<1>4. Tally(x, By(sends, i))
  BY <1>1, <1>2, <1>3 DEF Tally, Same, Running, Statuses
<1>5. /\ Act(x) => Act(runs[i])
      /\ ~Settled(runs[i]) /\ (Forgotten(x) => Forgotten(runs[i]))
  BY <1>2, <1>3 DEF Act, Settled, Forgotten
<1>6. QED
  BY <1>2, <1>3, <1>4, <1>5, GoesOnSums

LEMMA SeatSums ==
    ASSUME IInv, NInv, NEW i \in Ids,
           \/ EndPreview(i) \/ EndUnread(i)
           \/ \E lost \in BOOLEAN : ArchivePerson(i, lost) \/ MissPerson(i, lost)
           \/ \E more \in BOOLEAN : EndMessage(i, more)
           \/ \E b \in SUBSET People, lost \in BOOLEAN : AddRecommended(i, b, lost)
    PROVE  NInv'
<1>1. IsRun(runs[i]) /\ Same(runs[i], runs[i]) /\ Tally(runs[i], By(sends, i))
  BY OnSeat DEF Same
\* Recommendation and archive runs tell nobody.
<1>2. runs[i].kind # "message" => By(sends, i) = {}
  BY DEF NInv, Sums, Tallied, By
<1>3. CASE EndPreview(i)
  <2>1. /\ Running(runs[i]) /\ runs' = [runs EXCEPT ![i] = Done(runs[i], FALSE)]
        /\ UNCHANGED <<draft, sends, seen>>
    BY <1>3 DEF EndPreview, Performs, Running
  <2>2. QED
    BY <1>1, <2>1, EndsSums
<1>4. CASE EndUnread(i)
  <2>1. /\ Running(runs[i]) /\ runs' = [runs EXCEPT ![i] = Done(runs[i], TRUE)]
        /\ UNCHANGED <<draft, sends>>
        /\ seen' = [seen EXCEPT !.trouble = @ \/ runs[i].told # {}]
    BY <1>4 DEF EndUnread, Performs, Running
  <2>2. ~seen'.trouble => ~seen.trouble /\ runs[i].told = {}
    BY <2>1, TroubleIs
  <2>3. QED
    BY <1>1, <2>1, <2>2, EndsSums
<1>5. ASSUME NEW more \in BOOLEAN, EndMessage(i, more) PROVE NInv'
  <2> DEFINE r == [runs[i] EXCEPT !.more = more]
  <2>1. IsRun(r) /\ Same(r, runs[i]) /\ r.told = runs[i].told
    BY <1>1 DEF IsRun, Fields, Same
  <2>2. /\ Running(runs[i]) /\ runs' = [runs EXCEPT ![i] = Done(r, FALSE)]
        /\ UNCHANGED <<draft, sends, seen>>
    BY <1>1, <1>5 DEF EndMessage, Performs, Running
  <2> HIDE DEF r
  <2>3. QED
    BY <2>1, <2>2, EndsSums
\* A run that is not a message run ends.
<1>6. ASSUME NEW r, IsRun(r), Same(r, runs[i]), r.told = runs[i].told, NEW lost \in BOOLEAN,
             Running(runs[i]), runs' = [runs EXCEPT ![i] = Done(r, lost)],
             UNCHANGED <<draft, sends>>, seen'.trouble = seen.trouble, runs[i].kind # "message"
      PROVE  NInv'
  <2> DEFINE x == Done(r, lost)
  <2>1. x.status = "done" /\ Same(x, runs[i]) /\ x.told = runs[i].told
    BY <1>6 DEF IsRun, Fields, Same, Done
  <2>2. runs' = [runs EXCEPT ![i] = x]
    BY <1>6
  <2> HIDE DEF x
  <2>3. Tally(x, By(sends, i))
    BY <1>1, <1>6, <2>1 DEF Tally, Same, Running, Statuses
  <2>4. ~Act(x) /\ ~Settled(runs[i])
    BY <1>6, <2>1 DEF Act, Settled, Running
  <2>5. QED
    BY <1>2, <1>6, <2>1, <2>2, <2>3, <2>4, GoesOnSums
<1>7. ASSUME NEW lost \in BOOLEAN, ArchivePerson(i, lost) PROVE NInv'
  <2>1. /\ Running(runs[i]) /\ runs' = [runs EXCEPT ![i] = Done(runs[i], lost)]
        /\ UNCHANGED <<draft, sends, seen>> /\ runs[i].kind # "message"
    BY <1>7 DEF ArchivePerson, Performs, Running
  <2>2. QED
    BY <1>1, <1>6, <2>1
<1>8. ASSUME NEW lost \in BOOLEAN, MissPerson(i, lost) PROVE NInv'
  <2>1. /\ Running(runs[i]) /\ runs' = [runs EXCEPT ![i] = Done(runs[i], lost)]
        /\ UNCHANGED <<draft, sends>> /\ runs[i].kind # "message"
    BY <1>8 DEF MissPerson, Performs, Running
  <2>2. PICK b : seen' = [seen EXCEPT !.missed = b]
    BY <1>8 DEF MissPerson
  <2>3. seen'.trouble = seen.trouble
    BY <2>2, SeenIs
  <2>4. QED
    BY <1>1, <1>6, <2>1, <2>3
<1>9. ASSUME NEW b \in SUBSET People, NEW lost \in BOOLEAN, AddRecommended(i, b, lost)
      PROVE  NInv'
  <2> DEFINE r == [runs[i] EXCEPT !.whom = b]
  <2>1. IsRun(r) /\ Same(r, runs[i]) /\ r.told = runs[i].told
    BY <1>1 DEF IsRun, Fields, Same
  <2>2. /\ Running(runs[i]) /\ runs' = [runs EXCEPT ![i] = Done(r, lost)]
        /\ UNCHANGED <<draft, sends, seen>> /\ runs[i].kind # "message"
    BY <1>1, <1>9 DEF AddRecommended, Performs, Running
  <2> HIDE DEF r
  <2>3. QED
    BY <1>6, <2>1, <2>2
<1>10. QED
  BY <1>3, <1>4, <1>5, <1>7, <1>8, <1>9

\* A batch that is moved, passed over or unconfirmed changes no count.
LEMMA BatchSums ==
    ASSUME IInv, NInv, NEW i \in Ids,
           \/ \E part \in SUBSET runs[i].batch, stops \in BOOLEAN : MoveBatch(i, part, stops)
           \/ \E b \in SUBSET People, team \in BOOLEAN : \E part \in SUBSET b :
                 DeferBatch(i, b, team, part) \/ SendUnconfirmed(i, b, part)
    PROVE  NInv'
<1>1. IsRun(runs[i])
  BY OnSeat
<1>2. UNCHANGED <<draft, sends>> /\ Running(runs[i])
  BY DEF MoveBatch, SendUnconfirmed, DeferBatch, Batch, Performs, Running
<1>3. ASSUME NEW part \in SUBSET runs[i].batch, NEW stops \in BOOLEAN, MoveBatch(i, part, stops)
      PROVE  NInv'
  <2> DEFINE more == stops /\ ~AtCap(runs[i])
             x == [runs[i] EXCEPT !.batch = {}, !.more = more]
  <2>1. /\ runs' = [runs EXCEPT ![i] = x]
        /\ seen' = [seen EXCEPT !.unmoved = @ \cup (runs[i].batch \ part)]
    BY <1>3 DEF MoveBatch
  <2> HIDE DEF more
  <2>2. Same(x, runs[i]) /\ Running(x) /\ x.told = runs[i].told /\ x.lost = runs[i].lost
    BY <1>1, <1>2 DEF IsRun, Fields, Same, Running
  <2> HIDE DEF x
  <2>3. seen'.trouble = seen.trouble
    BY <2>1, SeenIs
  <2>4. QED
    BY <1>2, <2>1, <2>2, <2>3, WorksSums
<1>4. ASSUME NEW b \in SUBSET People, NEW part \in SUBSET b, SendUnconfirmed(i, b, part)
      PROVE  NInv'
  <2> DEFINE x == [runs[i] EXCEPT !.more = TRUE]
  <2>1. /\ runs' = [runs EXCEPT ![i] = x]
        /\ seen' = [seen EXCEPT !.stray = @ \cup Letters(i, part), !.unmoved = @ \cup part]
    BY <1>4 DEF SendUnconfirmed
  <2>2. Same(x, runs[i]) /\ Running(x) /\ x.told = runs[i].told /\ x.lost = runs[i].lost
    BY <1>1, <1>2 DEF IsRun, Fields, Same, Running
  <2> HIDE DEF x
  <2>3. seen'.trouble = seen.trouble
    BY <2>1, SeenIs
  <2>4. QED
    BY <1>2, <2>1, <2>2, <2>3, WorksSums
<1>5. ASSUME NEW b \in SUBSET People, NEW team \in BOOLEAN, NEW part \in SUBSET b,
             DeferBatch(i, b, team, part)
      PROVE  NInv'
  <2> DEFINE x == [runs[i] EXCEPT !.team = IF team THEN @ \cup b ELSE @,
                                  !.passed = IF part # {} THEN @ ELSE @ \cup b]
  <2>1. runs' = [runs EXCEPT ![i] = x] /\ UNCHANGED seen
    BY <1>1, <1>5 DEF DeferBatch
  <2>2. Same(x, runs[i]) /\ Running(x) /\ x.told = runs[i].told /\ x.lost = runs[i].lost
    BY <1>1, <1>2 DEF IsRun, Fields, Same, Running
  <2> HIDE DEF x
  <2>3. QED
    BY <1>2, <2>1, <2>2, WorksSums
<1>6. QED
  BY <1>3, <1>4, <1>5

\* A run that fails forgets what it told: that is trouble, unless it told nobody.
LEMMA FailSums ==
    ASSUME IInv, NInv, NEW i \in Ids, Fail(i)
    PROVE  NInv'
<1> DEFINE x == [Spent(runs[i]) EXCEPT !.status = "failed", !.told = {}]
<1>1. /\ IsRun(runs[i]) /\ i \in DOMAIN runs /\ Tally(runs[i], By(sends, i))
  BY OnSeat
<1>2. /\ runs' = [runs EXCEPT ![i] = x] /\ UNCHANGED <<draft, sends>>
      /\ runs[i].status = "running"
      /\ seen' = [seen EXCEPT !.unmoved = @ \cup runs[i].batch,
                              !.trouble = @ \/ runs[i].told # {}]
  BY DEF Fail
<1>3. /\ Same(x, runs[i]) /\ x.status = "failed" /\ x.told = {}
  BY <1>1 DEF IsRun, Fields, Same, Spent
<1> HIDE DEF x
<1>4. Tally(x, By(sends, i))
  BY <1>1, <1>3, FS_EmptySet DEF Tally, Same, Running, Statuses
<1>5. ~seen'.trouble => ~seen.trouble /\ runs[i].told = {}
  BY <1>2, SeenIs
<1>6. runs[i].told = {} => By(sends, i) = {}
  BY <1>2, ToldNobody
<1>7. ~Act(x) /\ ~Settled(runs[i])
  BY <1>2, <1>3 DEF Act, Settled
<1>8. QED
  BY <1>2, <1>3, <1>4, <1>5, <1>6, <1>7, GoesOnSums

\* A batch that goes out is as large as the cap of its run allows.
LEMMA WithinCap ==
    ASSUME NEW r, NEW b, Cardinality(b) = Wanted(r), r.cap # 0, r.cap \in Nat,
           Cardinality(b) \in Nat, Cardinality(r.told) \in Nat
    PROVE  Cardinality(r.told) + Cardinality(b) <= r.cap
<1>1. Cardinality(b) <= r.cap - Cardinality(r.told)
  BY DEF Wanted
<1>2. QED
  BY <1>1

LEMMA SendSums ==
    ASSUME IInv, NInv, Today, NEW i \in Ids, NEW b \in SUBSET People, SendBatch(i, b)
    PROVE  NInv'
<1> DEFINE x == [runs[i] EXCEPT !.batch = b, !.told = @ \cup b]
           mail == Letters(i, b)
           all == sends \cup mail
<1>1. /\ IsRun(runs[i]) /\ i \in DOMAIN runs /\ Tally(runs[i], By(sends, i))
      /\ IsFiniteSet(By(sends, i)) /\ IsSeq(runs)
      /\ Sums(runs, draft, sends) /\ (~seen.trouble => Capped(runs, draft, sends))
  BY OnSeat DEF IInv, Fits, NInv
<1>2. /\ runs[i].kind = "message" /\ Running(runs[i]) /\ runs[i].batch = {} /\ ~runs[i].more
      /\ Cardinality(b) = Wanted(runs[i]) /\ ~Refused(b)
  BY DEF SendBatch, Batch, Performs, Running
<1>3. /\ sends' = all /\ runs' = [runs EXCEPT ![i] = x] /\ UNCHANGED <<draft, stage, day>>
      /\ seen' = [seen EXCEPT !.trouble = @ \/ day # runs[i].created]
  BY <1>1 DEF SendBatch
<1>4. ~seen'.trouble => ~seen.trouble /\ day = runs[i].created
  BY <1>3, TroubleIs
<1>5. /\ \A y \in mail : y.to \in b /\ y.by = i /\ y.on = day
      /\ \A y, z \in mail : y.to = z.to => y = z
      /\ \A p \in b : \E y \in mail : y.to = p
  <2>1. /\ \A p \in b : [to |-> p, by |-> i, on |-> day] \in mail
        /\ \A p \in b : [to |-> p, by |-> i, on |-> day].to = p
    BY DEF Letters
  <2>2. \A y \in mail : \E p \in b : y = [to |-> p, by |-> i, on |-> day] /\ y.to = p
                                     /\ y.by = i /\ y.on = day
    BY DEF Letters
  <2> HIDE DEF mail
  <2>3. \A y \in mail : y.to \in b /\ y.by = i /\ y.on = day
    BY <2>2
  <2>4. \A y, z \in mail : y.to = z.to => y = z
    BY <2>2
  <2>5. \A p \in b : \E y \in mail : y.to = p
    BY <2>1
  <2>6. QED
    BY <2>3, <2>4, <2>5
<1>6. IsFiniteSet(b) /\ Cardinality(b) \in Nat
  BY FS_Subset, FS_CardinalityType, OutreachAssumption
<1>7. IsFiniteSet(mail)
  <2> DEFINE f == [p \in b |-> [to |-> p, by |-> i, on |-> day]]
  <2>1. f \in [b -> mail] /\ \A y \in mail : \E p \in b : f[p] = y
    BY DEF Letters
  <2> HIDE DEF mail, f
  <2>2. f \in Surjection(b, mail)
    BY <2>1 DEF Surjection
  <2>3. QED
    BY <1>6, <2>2, FS_Surjection
<1>8. /\ x.kind = "message" /\ Same(x, runs[i]) /\ x.status = "running" /\ x.batch = b
      /\ x.told = runs[i].told \cup b /\ x.lost = runs[i].lost
  BY <1>1, <1>2 DEF IsRun, Fields, Same, Running
<1> HIDE DEF x, mail
<1>9. By(all, i) = By(sends, i) \cup mail /\ \A j : j # i => By(all, j) = By(sends, j)
  BY <1>5 DEF By
\* Those of the batch were not told before: LinkedIn would refuse it.
<1>10. runs[i].told \cap b = {}
  <2>1. SUFFICES ASSUME NEW p \in runs[i].told, p \in b PROVE FALSE
    OBVIOUS
  <2>2. PICK y \in By(sends, i) : y.to = p
    BY <1>1, <1>2, <2>1 DEF Tally, Running
  <2>3. y \in sends /\ y.on = day
    BY <1>2, <2>2 DEF Today, By
  <2>4. QED
    BY <1>2, <2>1, <2>2, <2>3 DEF Refused, Mail
<1>11. Tally(x, By(all, i))
  <2>1. runs[i].told = {y.to : y \in By(sends, i)}
    BY <1>1, <1>2 DEF Tally, Running
  <2>2. x.told = {y.to : y \in By(all, i)}
    <3>1. \A p \in x.told : \E y \in By(all, i) : y.to = p
      BY <1>5, <1>8, <1>9, <2>1
    <3>2. \A y \in By(all, i) : y.to \in x.told
      BY <1>5, <1>8, <1>9, <2>1
    <3>3. QED
      BY <3>1, <3>2
  <2>3. \A y, z \in By(sends, i) : y.to = z.to => y = z
    BY <1>1, <1>2 DEF Tally, Running
  <2>4. \A y, z \in By(all, i) : y.to = z.to => y = z
    BY <1>5, <1>9, <1>10, <2>1, <2>3, ZenonT(30)
  <2>5. runs[i].cap \in Nat /\ (runs[i].cap > 0 => Cardinality(runs[i].told) <= runs[i].cap)
        /\ (runs[i].auto => runs[i].cap > 0)
    BY <1>1 DEF Tally
  <2>6. x.cap > 0 => Cardinality(x.told) <= x.cap
    <3>1. IsFiniteSet(runs[i].told) /\ Cardinality(runs[i].told) \in Nat
      BY <1>1, <2>1, <2>3, CountTold, FS_CardinalityType
    <3>2. Cardinality(x.told) = Cardinality(runs[i].told) + Cardinality(b)
      BY <1>6, <1>8, <1>10, <3>1, CountUnion
    <3>3. CASE runs[i].cap # 0
      BY <1>2, <1>6, <1>8, <2>5, <3>1, <3>2, <3>3, WithinCap DEF Same
    <3>4. QED
      BY <1>8, <3>3 DEF Same
  <2>7. QED
    BY <1>8, <2>2, <2>4, <2>5, <2>6 DEF Tally, Same, Running, Statuses
<1>12. /\ IsSeq(runs') /\ DOMAIN runs' = DOMAIN runs /\ runs'[i] = x
       /\ \A j \in DOMAIN runs : j # i => runs'[j] = runs[j]
  BY <1>1, <1>3, OneChanges
<1>13. \A y \in sends : y.by \in DOMAIN runs
  BY <1>1 DEF Sums, Tallied
<1>14. \A y \in all : y.by \in DOMAIN runs
  BY <1>1, <1>5, <1>13
<1>15. \A j \in DOMAIN runs : /\ Same(runs'[j], runs[j]) /\ (Settled(runs[j]) => Settled(runs'[j]))
                              /\ (Act(runs'[j]) => Act(runs[j]))
  BY <1>2, <1>8, <1>12 DEF Same, Settled, Act, Running
<1>16. Sums(runs', draft, all)
  <2>1. ~Settled(runs[i])
    BY <1>2 DEF Settled, Running
  <2>2. Chained(runs, all) /\ \A r : Joins(runs, r, sends) => Joins(runs, r, all)
    BY <1>1, <1>5, <2>1, MailStaysOut DEF Sums
  <2>3. Chained(runs', all) /\ \A r : Joins(runs, r, all) => Joins(runs', r, all)
    BY <1>12, <1>14, <1>15, <2>2, ChainsStay
  <2>4. Tallied(runs', all)
    <3>1. IsFiniteSet(all)
      BY <1>1, <1>7, CountUnion DEF Sums, Tallied
    <3>2. \A y \in all : y.to \in People /\ y.by \in DOMAIN runs' /\ runs'[y.by].kind = "message"
      BY <1>1, <1>2, <1>5, <1>12, <1>15 DEF Sums, Tallied, Same
    <3>3. \A j \in DOMAIN runs' : Tally(runs'[j], By(all, j))
      BY <1>1, <1>9, <1>11, <1>12 DEF Sums, Tallied
    <3>4. QED
      BY <3>1, <3>2, <3>3 DEF Tallied
  <2>5. QED
    BY <1>1, <2>2, <2>3, <2>4 DEF Sums
<1>17. ASSUME ~seen.trouble, day = runs[i].created PROVE Capped(runs', draft, all)
  <2>1. Capped(runs, draft, sends)
    BY <1>1, <1>17
  <2>2. Act(runs[i])
    BY <1>2 DEF Act, Running
  <2>3. \A j \in DOMAIN runs : runs[j].auto => runs[j].kind = "message" /\ ~(i < j)
    BY <1>1, <1>2, <2>1, <2>2 DEF Capped, Sums, Tallied, Tally
  <2>4. \A k \in DOMAIN draft : ~draft[k].auto
    BY <1>1, <1>2, <2>1, <2>2 DEF Capped, Sums, Joins
  <2>5. \A y \in all : y.on = runs'[y.by].created /\ ~Forgotten(runs'[y.by])
    <3>1. ~Forgotten(x)
      BY <1>2, <1>8 DEF Forgotten, IInv, Fits, Fit, Running, Ids
    <3>2. QED
      BY <1>5, <1>8, <1>12, <1>13, <1>15, <1>17, <2>1, <3>1 DEF Capped, Same
  <2>6. ASSUME NEW a \in DOMAIN runs', runs'[a].auto
        PROVE  Cardinality({y \in all : y.on = runs'[a].created /\ y.by < a})
                 + runs'[a].cap <= DailyCap
    <3>1. runs'[a].created = runs[a].created /\ runs'[a].cap = runs[a].cap /\ runs[a].auto
      BY <1>12, <1>15, <2>6 DEF Same
    <3>2. {y \in all : y.on = runs[a].created /\ y.by < a}
            = {y \in sends : y.on = runs[a].created /\ y.by < a}
      BY <1>5, <1>12, <2>3, <3>1
    <3>3. QED
      BY <1>12, <2>1, <3>1, <3>2 DEF Capped
  <2>7. /\ \A j, k \in DOMAIN runs' :
              j < k /\ runs'[j].kind = "message" /\ runs'[k].kind = "message"
                  => ~Act(runs'[j])
        /\ \A k \in DOMAIN draft, j \in DOMAIN runs' :
              draft[k].kind = "message" /\ runs'[j].kind = "message" => ~Act(runs'[j])
    BY <1>12, <1>15, <2>1 DEF Capped, Same
  <2>8. QED
    BY <2>4, <2>5, <2>6, <2>7 DEF Capped
<1>18. QED
  BY <1>3, <1>4, <1>16, <1>17 DEF NInv

--------------------------------------------------------------------------------
\* The hooks.  A run whose hook is past is settled.
LEMMA HandledSums ==
    ASSUME IInv, NInv, NEW i \in Ids, runs[i].hook
    PROVE  /\ IsSeq(Handled(i)) /\ DOMAIN Handled(i) = DOMAIN runs
           /\ \A j \in DOMAIN runs : /\ Same(Handled(i)[j], runs[j])
                                     /\ (Settled(runs[j]) => Settled(Handled(i)[j]))
                                     /\ (Act(Handled(i)[j]) => Act(runs[j]))
           /\ Settled(Handled(i)[i])
           /\ Sums(Handled(i), draft, sends)
           /\ Capped(runs, draft, sends) => Capped(Handled(i), draft, sends)
<1> DEFINE x == Spent(runs[i])
<1>1. /\ IsRun(runs[i]) /\ i \in DOMAIN runs /\ Tally(runs[i], By(sends, i))
      /\ IsSeq(runs) /\ Sums(runs, draft, sends) /\ runs[i].status = "done"
  BY OnSeat DEF IInv, Fits, Fit, NInv, Ids
<1>2. /\ IsRun(x) /\ Same(x, runs[i]) /\ x.status = "done" /\ x.hook = FALSE
      /\ x.told = runs[i].told /\ (x.lost => runs[i].lost)
  BY <1>1 DEF IsRun, Fields, Same, Spent
<1>3. Handled(i) = [runs EXCEPT ![i] = x]
  BY DEF Handled
<1> HIDE DEF x
<1>4. Tally(x, By(sends, i)) /\ Settled(x) /\ ~Act(x)
      /\ (Forgotten(x) => Forgotten(runs[i]))
  BY <1>1, <1>2 DEF Tally, Same, Running, Statuses, Settled, Act, Forgotten
<1>5. /\ Sums(Handled(i), draft, sends)
      /\ Capped(runs, draft, sends) => Capped(Handled(i), draft, sends)
  <2> DEFINE t == [runs EXCEPT ![i] = x]
  <2>1. Sums(t, draft, sends) /\ (Capped(runs, draft, sends) => Capped(t, draft, sends))
    BY <1>1, <1>2, <1>4, OneGoesOn
  <2> HIDE DEF t
  <2>2. Handled(i) = t
    BY <1>3 DEF t
  <2>3. QED
    BY <2>1, <2>2
<1>6. /\ IsSeq(Handled(i)) /\ DOMAIN Handled(i) = DOMAIN runs /\ Handled(i)[i] = x
      /\ \A j \in DOMAIN runs : j # i => Handled(i)[j] = runs[j]
  <2> DEFINE t == [runs EXCEPT ![i] = x]
  <2>1. /\ IsSeq(t) /\ DOMAIN t = DOMAIN runs /\ t[i] = x
        /\ \A j \in DOMAIN runs : j # i => t[j] = runs[j]
    BY <1>1, OneChanges
  <2> HIDE DEF t
  <2>2. Handled(i) = t
    BY <1>3 DEF t
  <2>3. QED
    BY <2>1, <2>2
<1>7. QED
  BY <1>1, <1>2, <1>4, <1>5, <1>6 DEF Same

\* The messages of a day that runs have reported are counted, one by one.
LEMMA SentCounted ==
    ASSUME IInv, NInv, MaySend, ~seen.trouble
    PROVE  Cardinality({x \in sends : x.on = day}) <= SentToday
<1> DEFINE S == {x \in sends : x.on = day}
           T == {m \in Ids \X People : SentBy(runs[m[1]]) /\ m[2] \in runs[m[1]].told}
           f == [x \in S |-> <<x.by, x.to>>]
<1>1. Tallied(runs, sends) /\ Capped(runs, draft, sends)
  BY DEF NInv, Sums
<1>2. IsFiniteSet(T)
  <2>1. IsFiniteSet(Ids \X People)
    <3>1. PICK R : runs \in Seq(R)
      BY DEF IInv, Fits, IsSeq
    <3>2. Ids = 1..Len(runs) /\ Len(runs) \in Nat
      BY <3>1 DEF Ids
    <3>3. IsFiniteSet(Ids)
      BY <3>2, FS_Interval
    <3>4. QED
      BY <3>3, FS_Product, OutreachAssumption
  <2>2. T \in SUBSET (Ids \X People)
    OBVIOUS
  <2>3. QED
    BY <2>1, <2>2, FS_Subset
<1>3. ASSUME NEW x \in S
      PROVE  /\ x.by \in Ids /\ x.to \in People
             /\ SentBy(runs[x.by]) /\ x.to \in runs[x.by].told
             /\ \A y \in S : x.by = y.by /\ x.to = y.to => x = y
  <2>1. /\ x.by \in Ids /\ x.to \in People /\ runs[x.by].kind = "message"
        /\ Tally(runs[x.by], By(sends, x.by)) /\ x \in By(sends, x.by)
    BY <1>1 DEF Tallied, By, Ids
  <2>2. runs[x.by].status # "failed" /\ ~runs[x.by].lost /\ runs[x.by].created = day
    BY <1>1 DEF Capped, Forgotten
  <2>3. ~Act(runs[x.by])
    BY <2>1, NobodyMessages DEF Ids
  <2>4. runs[x.by].status = "done"
    BY <2>1, <2>2, <2>3 DEF Tally, Statuses, Act
  <2>5. x.to \in runs[x.by].told
    BY <2>1, <2>2 DEF Tally
  <2>6. \A y \in S : x.by = y.by /\ x.to = y.to => x = y
    BY <2>1, <2>2 DEF Tally, By
  <2>7. QED
    BY <2>1, <2>2, <2>4, <2>5, <2>6 DEF SentBy
<1>4. \A x \in S : <<x.by, x.to>> \in T
  BY <1>3
<1>5. f \in [S -> T] /\ \A x \in S : f[x] = <<x.by, x.to>>
  BY <1>4
<1>6. SentToday = Cardinality(T)
  BY DEF SentToday
<1> HIDE DEF f, T, S
<1>7. \A x, y \in S : f[x] = f[y] => x = y
  BY <1>3, <1>5
<1>8. f \in Injection(S, T)
  BY <1>5, <1>7 DEF Injection, IsInjective
<1>9. QED
  BY <1>2, <1>6, <1>8, FS_Injection DEF S

LEMMA SentIsNat ==
    ASSUME IInv
    PROVE  SentToday \in Nat
<1> DEFINE T == {m \in Ids \X People : SentBy(runs[m[1]]) /\ m[2] \in runs[m[1]].told}
<1>1. PICK R : runs \in Seq(R)
  BY DEF IInv, Fits, IsSeq
<1>2. Ids = 1..Len(runs) /\ Len(runs) \in Nat
  BY <1>1 DEF Ids
<1>3. IsFiniteSet(Ids)
  BY <1>2, FS_Interval
<1>4. IsFiniteSet(Ids \X People)
  BY <1>3, FS_Product, OutreachAssumption
<1>5. T \in SUBSET (Ids \X People)
  OBVIOUS
<1>6. IsFiniteSet(T)
  BY <1>4, <1>5, FS_Subset
<1>7. SentToday = Cardinality(T)
  BY DEF SentToday
<1>8. QED
  BY <1>6, <1>7, FS_CardinalityType

LEMMA SweepExtends ==
    ASSUME NEW s, IsSeq(s), NEW blacklisted \in SUBSET People, NEW sweep \in Sweeps(blacklisted)
    PROVE  Extends(s \o sweep, s)
<1>1. AllNew(sweep)
  BY SweepIsNew
<1>2. PICK S : s \in Seq(S)
  BY DEF IsSeq
<1>3. PICK T : sweep \in Seq(T)
  BY <1>1 DEF AllNew, IsSeq
<1>4. s \in Seq(S \cup T) /\ sweep \in Seq(S \cup T)
  BY <1>2, <1>3
<1>5. \A k \in DOMAIN sweep : Plain(sweep[k])
  BY PlainOnes DEF Sweeps
<1>6. /\ DOMAIN s \subseteq DOMAIN (s \o sweep) /\ DOMAIN (s \o sweep) \subseteq Nat \ {0}
      /\ \A i \in DOMAIN s : (s \o sweep)[i] = s[i]
  BY <1>4
<1>7. ASSUME NEW i \in DOMAIN (s \o sweep), i \notin DOMAIN s
      PROVE  Plain((s \o sweep)[i]) /\ \A j \in DOMAIN s : j < i
  <2>1. i - Len(s) \in DOMAIN sweep /\ (s \o sweep)[i] = sweep[i - Len(s)]
    BY <1>4, <1>7
  <2>2. \A j \in DOMAIN s : j < i
    BY <1>4, <1>7
  <2>3. QED
    BY <1>5, <2>1, <2>2
<1>8. QED
  BY <1>6, <1>7 DEF Extends

LEMMA RecommendationSums ==
    ASSUME IInv, NInv, NEW i \in Ids, AfterRecommendations(i)
    PROVE  NInv'
<1> DEFINE h == Handled(i)
           found == IF runs[i].lost THEN {} ELSE runs[i].whom
<1>1. /\ runs[i].hook /\ UNCHANGED <<stage, day, sends>>
      /\ ~seen.trouble => Capped(runs, draft, sends)
  BY DEF AfterRecommendations, Owed, NInv
<1>2. /\ IsSeq(h) /\ Sums(h, draft, sends) /\ DOMAIN h = DOMAIN runs
      /\ Capped(runs, draft, sends) => Capped(h, draft, sends)
      /\ \A j \in DOMAIN runs : Same(h[j], runs[j]) /\ (Act(h[j]) => Act(runs[j]))
  BY <1>1, HandledSums
<1> HIDE DEF h
<1>3. ASSUME NEW blacklist \in FetchLeadBlacklist,
             NEW sweep \in Sweeps(found \cap blacklist),
             runs' = h \o sweep, UNCHANGED <<draft, seen>>
      PROVE  NInv'
  <2>0. found \cap blacklist \in SUBSET People
    BY <1>3, OutreachAssumption DEF FetchLeadBlacklist
  <2>1. Extends(h \o sweep, h)
    BY <1>2, <1>3, <2>0, SweepExtends
  <2>2. /\ Sums(h \o sweep, draft, sends)
        /\ Capped(h, draft, sends) => Capped(h \o sweep, draft, sends)
    BY <1>2, <2>1, PlainGrowth
  <2>3. QED
    BY <1>1, <1>2, <1>3, <2>2 DEF NInv
<1>4. CASE runs' = h /\ UNCHANGED <<draft, seen>>
  BY <1>1, <1>2, <1>4 DEF NInv
<1>5. ASSUME MaySendAlone, Enqueue(h, Message(TRUE, TRUE, DailyCap - SentToday)),
             seen' = [seen EXCEPT !.trouble = @ \/ Overlaps]
      PROVE  NInv'
  <2> DEFINE cap == DailyCap - SentToday
             r == Message(TRUE, TRUE, cap)
  <2>1. cap \in Nat /\ cap > 0 /\ MaySend /\ cap + SentToday = DailyCap /\ SentToday \in Nat
    BY <1>5, SentIsNat, OutreachAssumption DEF MaySendAlone
  <2>2. Enqueue(h, r)
    BY <1>5
  <2> HIDE DEF cap
  <2>3. /\ New(r) /\ r.kind = "message" /\ r.chain = 0 /\ r.cap = cap
        /\ r.total = 0 /\ r.created = day
    BY MadeNew DEF Message, Fresh
  <2> HIDE DEF r
  <2>4. Decision(h, draft, r, sends)
    BY <2>1, <2>3 DEF Decision, Joins
  <2>5. ~seen'.trouble => ~seen.trouble /\ ~Overlaps
    BY <1>5, TroubleIs
  <2>6. ASSUME ~seen.trouble, ~Overlaps
        PROVE  InBudget(h, draft, r, sends)
    <3>1. Cardinality({x \in sends : x.on = day}) <= SentToday
      BY <2>1, <2>6, SentCounted
    <3>2. IsFiniteSet(sends)
      BY <1>2 DEF Sums, Tallied
    <3>3. Cardinality({x \in sends : x.on = day}) \in Nat
      BY <3>2, CountPart
    <3>4. Cardinality({x \in sends : x.on = r.created}) + r.cap <= DailyCap
      BY <2>1, <2>3, <3>1, <3>3
    <3>5. \A j \in DOMAIN h : h[j].kind = "message" => ~Act(h[j])
      BY <1>2, <2>1, NobodyMessages DEF Same
    <3>6. QED
      BY <2>6, <3>4, <3>5, NoOverlap DEF InBudget
  <2>7. ~seen'.trouble => Capped(h, draft, sends) /\ InBudget(h, draft, r, sends)
    BY <1>1, <1>2, <2>5, <2>6
  <2>8. QED
    BY <1>1, <1>2, <2>2, <2>4, <2>7, DecidesSums
<1>6. QED
  BY <1>3, <1>4, <1>5 DEF AfterRecommendations, h

\* The next run of a chain joins it with all that the chain has sent.
LEMMA ContinuationJoins ==
    ASSUME IInv, NInv, NEW i \in Ids, runs[i].hook, runs[i].kind = "message", runs[i].cap = 0
    PROVE  Decision(Handled(i), draft, Continuation(i), sends)
<1> DEFINE h == Handled(i)
           r == Continuation(i)
           c == RootOf(runs, i)
<1>1. /\ i \in DOMAIN runs /\ Tally(runs[i], By(sends, i)) /\ IsFiniteSet(By(sends, i))
      /\ Chained(runs, sends) /\ Tallied(runs, sends)
      /\ \A k \in DOMAIN draft : Joins(runs, draft[k], sends)
      /\ runs[i].status = "done" /\ ~Settled(runs[i])
  BY OnSeat DEF IInv, Fits, Fit, NInv, Sums, Settled, Ids
<1>2. /\ DOMAIN h = DOMAIN runs /\ Settled(h[i])
      /\ \A j \in DOMAIN runs : Same(h[j], runs[j]) /\ (Settled(runs[j]) => Settled(h[j]))
  BY HandledSums
<1>3. New(r) /\ r.kind = "message" /\ ~r.auto /\ r.cap = 0 /\ r.chain = c
      /\ r.total = runs[i].total + Cardinality(runs[i].told)
  BY MadeNew, ContinuationWith DEF Root, RootOf
<1> HIDE DEF h, r
<1>4. DOMAIN runs \subseteq Nat \ {0}
  <2>1. PICK R : runs \in Seq(R)
    BY DEF IInv, Fits, IsSeq
  <2>2. QED
    BY <2>1
<1>5. c \in DOMAIN runs /\ c # 0 /\ runs[c].chain = 0 /\ ~runs[c].auto
  BY <1>1, <1>4 DEF RootOf, Chained, Tally
<1> HIDE DEF c
<1>6. \A j \in DOMAIN runs : RootOf(h, j) = RootOf(runs, j)
  BY <1>2 DEF RootOf, Same
\* A run after i in its chain would wait until the hook of i is past.
<1>7. \A j \in DOMAIN runs : RootOf(runs, j) = c => j <= i /\ (j # i => Settled(runs[j]))
  BY <1>1, <1>4 DEF Chained, c
<1>8. OfChain(h, sends, c) = Earlier(runs, sends, i) \cup By(sends, i)
  <2>1. \A x \in sends : x.by \in DOMAIN runs
    BY <1>1 DEF Tallied
  <2>2. OfChain(h, sends, c) = {x \in sends : RootOf(runs, x.by) = c}
    BY <1>6, <2>1 DEF OfChain
  <2>3. \A x \in sends : RootOf(runs, x.by) = c <=> x.by = i \/ (x.by < i /\ RootOf(runs, x.by) = c)
    BY <1>1, <1>4, <1>7, <2>1 DEF c
  <2>4. QED
    BY <2>2, <2>3 DEF Earlier, By, c
<1>9. Cardinality(OfChain(h, sends, c)) = runs[i].total + Cardinality(runs[i].told)
  <2>1. IsFiniteSet(Earlier(runs, sends, i))
    <3>1. Earlier(runs, sends, i) \subseteq sends
      BY DEF Earlier
    <3>2. QED
      BY <1>1, <3>1, CountPart DEF Tallied
  <2>2. Earlier(runs, sends, i) \cap By(sends, i) = {}
    BY <1>1, <1>4 DEF Earlier, By
  <2>3. Cardinality(OfChain(h, sends, c))
          = Cardinality(Earlier(runs, sends, i)) + Cardinality(By(sends, i))
    BY <1>1, <1>8, <2>1, <2>2, CountUnion
  <2>4. Cardinality(runs[i].told) = Cardinality(By(sends, i))
    BY <1>1, CountTold DEF Tally
  <2>5. runs[i].total = Cardinality(Earlier(runs, sends, i))
    BY <1>1 DEF Chained
  <2>6. QED
    BY <2>3, <2>4, <2>5
<1>10. Joins(h, r, sends)
  <2>1. c \in DOMAIN h /\ h[c].chain = 0 /\ ~h[c].auto
    BY <1>2, <1>5 DEF Same
  <2>2. \A j \in DOMAIN h : RootOf(h, j) = c => Settled(h[j])
    BY <1>2, <1>6, <1>7
  <2>3. QED
    BY <1>3, <1>5, <1>9, <2>1, <2>2 DEF Joins
<1>11. \A k \in DOMAIN draft : draft[k].chain # c
  BY <1>1, <1>5 DEF Joins, c
<1>12. QED
  BY <1>3, <1>10, <1>11 DEF Decision, h, r

LEMMA MessageSums ==
    ASSUME IInv, NInv, NEW i \in Ids, AfterMessage(i)
    PROVE  NInv'
<1> DEFINE h == Handled(i)
<1>1. /\ runs[i].hook /\ runs[i].kind = "message" /\ UNCHANGED <<stage, day, sends>>
      /\ ~seen.trouble => Capped(runs, draft, sends)
  BY DEF AfterMessage, Owed, NInv
<1>2. /\ IsSeq(h) /\ Sums(h, draft, sends) /\ DOMAIN h = DOMAIN runs
      /\ Capped(runs, draft, sends) => Capped(h, draft, sends)
      /\ \A j \in DOMAIN runs : Same(h[j], runs[j]) /\ (Act(h[j]) => Act(runs[j]))
  BY <1>1, HandledSums
<1> HIDE DEF h
<1>4. CASE runs' = h /\ UNCHANGED <<draft, seen>>
  BY <1>1, <1>2, <1>4 DEF NInv
<1>5. ASSUME MayChain(runs[i]), MaySend, Enqueue(h, Continuation(i)),
             seen' = [seen EXCEPT !.trouble = @ \/ Overlaps]
      PROVE  NInv'
  <2> DEFINE r == Continuation(i)
  <2>1. Decision(h, draft, r, sends)
    BY <1>1, <1>5, ContinuationJoins DEF MayChain, h
  <2>2. ~seen'.trouble => ~seen.trouble /\ ~Overlaps
    BY <1>5, TroubleIs
  <2>3. ASSUME ~Overlaps PROVE InBudget(h, draft, r, sends)
    <3>1. ~r.auto
      BY ContinuationWith
    <3>2. \A j \in DOMAIN h : h[j].kind = "message" => ~Act(h[j])
      BY <1>2, <1>5 DEF Same, MaySend, ActiveKind, Active, Act, Ids
    <3> HIDE DEF r
    <3>3. QED
      BY <2>3, <3>1, <3>2, NoOverlap DEF InBudget
  <2>4. ~seen'.trouble => Capped(h, draft, sends) /\ InBudget(h, draft, r, sends)
    BY <1>1, <1>2, <2>2, <2>3
  <2>5. Enqueue(h, r)
    BY <1>5
  <2> HIDE DEF r
  <2>6. QED
    BY <1>1, <1>2, <2>1, <2>4, <2>5, DecidesSums
<1>6. QED
  BY <1>4, <1>5 DEF AfterMessage, h

LEMMA ArchivedSums ==
    ASSUME IInv, NInv, NEW i \in Ids, AfterArchive(i)
    PROVE  NInv'
<1>1. runs[i].hook /\ runs' = Handled(i) /\ UNCHANGED <<draft, stage, sends, seen>>
  BY DEF AfterArchive, Owed
<1>2. /\ Sums(Handled(i), draft, sends)
      /\ Capped(runs, draft, sends) => Capped(Handled(i), draft, sends)
  BY <1>1, HandledSums
<1>3. QED
  BY <1>1, <1>2 DEF NInv

\* A restart ends the hooks that are due and drops the draft.
LEMMA RestartSums ==
    ASSUME IInv, NInv, BackendRestart
    PROVE  NInv'
<1>1. /\ UNCHANGED <<stage, sends, seen>> /\ draft' = <<>> /\ DOMAIN runs' = DOMAIN runs
      /\ \A j \in DOMAIN runs : runs'[j] = IF runs[j].hook THEN Spent(runs[j]) ELSE runs[j]
      /\ ~seen.trouble => Capped(runs, draft, sends)
  BY DEF BackendRestart, Ids, NInv
<1>2. ASSUME NEW j \in DOMAIN runs
      PROVE  /\ Same(runs'[j], runs[j]) /\ (Settled(runs[j]) => Settled(runs'[j]))
             /\ (Act(runs'[j]) => Act(runs[j])) /\ (Forgotten(runs'[j]) => Forgotten(runs[j]))
             /\ Tally(runs'[j], By(sends, j))
  <2>1. IsRun(runs[j]) /\ Tally(runs[j], By(sends, j))
        /\ (runs[j].hook => runs[j].status = "done")
    BY OnSeat DEF IInv, Fits, Fit, Ids
  <2>2. CASE ~runs[j].hook
    BY <1>1, <2>1, <2>2 DEF Same
  <2>3. CASE runs[j].hook
    <3> DEFINE x == Spent(runs[j])
    <3>1. /\ Same(x, runs[j]) /\ x.status = "done" /\ x.told = runs[j].told
          /\ (x.lost => runs[j].lost)
      BY <2>1, <2>3 DEF IsRun, Fields, Same, Spent
    <3>2. runs'[j] = x
      BY <1>1, <2>3
    <3> HIDE DEF x
    <3>3. Tally(x, By(sends, j)) /\ ~Act(x) /\ ~Settled(runs[j])
      BY <2>1, <2>3, <3>1 DEF Tally, Same, Running, Statuses, Act, Settled
    <3>4. QED
      BY <2>1, <2>3, <3>1, <3>2, <3>3 DEF Forgotten
  <2>4. QED
    BY <2>2, <2>3
<1>3. Sums(runs, <<>>, sends) /\ (Capped(runs, draft, sends) => Capped(runs, <<>>, sends))
  BY Dropped DEF NInv
<1>4. \A x \in sends : x.by \in DOMAIN runs
  BY <1>3 DEF Sums, Tallied
<1>5. Sums(runs', <<>>, sends)
  <2>1. Chained(runs', sends) /\ \A r : Joins(runs, r, sends) => Joins(runs', r, sends)
    BY <1>1, <1>2, <1>3, <1>4, ChainsStay DEF Sums
  <2>2. Tallied(runs', sends)
    BY <1>1, <1>2, <1>3 DEF Sums, Tallied, Same
  <2>3. QED
    BY <1>3, <2>1, <2>2 DEF Sums
<1>6. Capped(runs, <<>>, sends) => Capped(runs', <<>>, sends)
  BY <1>1, <1>2, <1>4, CapsStay
<1>7. QED
  BY <1>1, <1>3, <1>5, <1>6 DEF NInv

--------------------------------------------------------------------------------
\* Runs keep their places when others are added.
LEMMA KeepPlaces ==
    ASSUME NEW s, IsSeq(s), NEW t, IsSeq(t), NEW r
    PROVE  /\ \A j \in DOMAIN s : (s \o t)[j] = s[j]
           /\ \A j \in DOMAIN s : Append(s, r)[j] = s[j]
<1>1. PICK S, T : s \in Seq(S) /\ t \in Seq(T)
  BY DEF IsSeq
<1>2. s \in Seq(S \cup T \cup {r}) /\ t \in Seq(S \cup T \cup {r})
  BY <1>1
<1>3. QED
  BY <1>2

\* No run comes onto the seat that has sent something.
LEMMA NobodyStarts ==
    ASSUME IInv, NInv, Today, UNCHANGED <<day, sends>>,
           \A j \in DOMAIN runs : Running(runs'[j]) => Running(runs[j]) \/ By(sends, j) = {}
    PROVE  Today'
BY DEF Today, NInv, Sums, Tallied, By

LEMMA EnqueueToday ==
    ASSUME IInv, NInv, Today, UNCHANGED <<day, sends>>, NEW base, IsSeq(base), NEW r,
           DOMAIN base = DOMAIN runs,
           \A j \in DOMAIN runs : Running(base[j]) => Running(runs[j]),
           Enqueue(base, r)
    PROVE  Today'
<1>1. \A j \in DOMAIN runs : Append(base, r)[j] = base[j]
  BY KeepPlaces
<1>2. \A j \in DOMAIN runs : Running(runs'[j]) => Running(runs[j])
  BY <1>1 DEF Enqueue
<1>3. QED
  BY <1>2, NobodyStarts

LEMMA SeatToday ==
    ASSUME IInv, NInv, Today, NEW i \in Ids, NEW x, runs' = [runs EXCEPT ![i] = x],
           Running(runs[i]) \/ By(sends, i) = {}, UNCHANGED <<day, sends>>
    PROVE  Today'
<1>1. IsSeq(runs) /\ i \in DOMAIN runs
  BY DEF IInv, Fits, Ids
<1>2. \A j \in DOMAIN runs : j = i \/ runs'[j] = runs[j]
  BY <1>1, OneChanges
<1>3. QED
  BY <1>2, NobodyStarts

LEMMA DaemonToday ==
    ASSUME IInv, NInv, Today, Daemon
    PROVE  Today'
<1>1. PICK i \in Ids :
         \/ Claim(i) \/ EndPreview(i) \/ EndUnread(i) \/ Fail(i)
         \/ \E lost \in BOOLEAN : ArchivePerson(i, lost) \/ MissPerson(i, lost)
         \/ \E more \in BOOLEAN : EndMessage(i, more)
         \/ \E part \in SUBSET runs[i].batch, stops \in BOOLEAN : MoveBatch(i, part, stops)
         \/ \E b \in SUBSET People :
               \/ SendBatch(i, b)
               \/ \E lost \in BOOLEAN : AddRecommended(i, b, lost)
               \/ \E part \in SUBSET b :
                     \/ SendUnconfirmed(i, b, part)
                     \/ \E team \in BOOLEAN : DeferBatch(i, b, team, part)
  BY DEF Daemon
<1>2. CASE Claim(i)
  <2>1. Tally(runs[i], By(sends, i)) /\ runs[i].status = "queued"
    BY <1>2, OnSeat DEF Claim
  <2>2. By(sends, i) = {}
    BY <2>1, ToldNobody DEF Tally
  <2>3. (\E x : runs' = [runs EXCEPT ![i] = x]) /\ UNCHANGED <<day, sends>>
    BY <1>2 DEF Claim
  <2>4. QED
    BY <2>2, <2>3, SeatToday
<1>3. ASSUME NEW b \in SUBSET People, SendBatch(i, b) PROVE Today'
  <2>1. /\ Running(runs[i]) /\ sends' = sends \cup Letters(i, b) /\ UNCHANGED day
        /\ \E x : runs' = [runs EXCEPT ![i] = x]
    BY <1>3 DEF SendBatch, Batch, Performs, Running
  <2>2. \A y \in Letters(i, b) : y.on = day
    BY DEF Letters
  <2>3. IsSeq(runs) /\ i \in DOMAIN runs /\ \A y \in sends : y.by \in DOMAIN runs
    BY DEF IInv, Fits, Ids, NInv, Sums, Tallied
  <2>4. \A j \in DOMAIN runs : j = i \/ runs'[j] = runs[j]
    BY <2>1, <2>3, OneChanges
  <2>5. ASSUME NEW y \in sends, Running(runs'[y.by]) PROVE y.on = day
    BY <2>1, <2>3, <2>4, <2>5 DEF Today
  <2>6. QED
    BY <2>1, <2>2, <2>5 DEF Today
<1>4. ASSUME \/ EndPreview(i) \/ EndUnread(i) \/ Fail(i)
             \/ \E lost \in BOOLEAN : ArchivePerson(i, lost) \/ MissPerson(i, lost)
             \/ \E more \in BOOLEAN : EndMessage(i, more)
      PROVE  Today'
  <2>1. /\ Running(runs[i]) /\ UNCHANGED <<day, sends>>
        /\ \E x : runs' = [runs EXCEPT ![i] = x]
    BY <1>4 DEF EndPreview, EndUnread, Fail, ArchivePerson, MissPerson, EndMessage,
                Performs, Running
  <2>2. QED
    BY <2>1, SeatToday
<1>5. ASSUME NEW part \in SUBSET runs[i].batch, NEW stops \in BOOLEAN, MoveBatch(i, part, stops)
      PROVE  Today'
  <2>1. /\ Running(runs[i]) /\ UNCHANGED <<day, sends>>
        /\ \E x : runs' = [runs EXCEPT ![i] = x]
    BY <1>5 DEF MoveBatch, Performs, Running
  <2>2. QED
    BY <2>1, SeatToday
<1>6. ASSUME NEW b \in SUBSET People, NEW lost \in BOOLEAN, AddRecommended(i, b, lost)
      PROVE  Today'
  <2>1. /\ Running(runs[i]) /\ UNCHANGED <<day, sends>>
        /\ \E x : runs' = [runs EXCEPT ![i] = x]
    BY <1>6 DEF AddRecommended, Performs, Running
  <2>2. QED
    BY <2>1, SeatToday
<1>7. ASSUME NEW b \in SUBSET People, NEW part \in SUBSET b, NEW team \in BOOLEAN,
             SendUnconfirmed(i, b, part) \/ DeferBatch(i, b, team, part)
      PROVE  Today'
  <2>1. /\ Running(runs[i]) /\ UNCHANGED <<day, sends>>
        /\ \E x : runs' = [runs EXCEPT ![i] = x]
    BY <1>7 DEF SendUnconfirmed, DeferBatch, Batch, Performs, Running
  <2>2. QED
    BY <2>1, SeatToday
<1>8. QED
  BY <1>1, <1>2, <1>3, <1>4, <1>5, <1>6, <1>7

LEMMA HooksToday ==
    ASSUME IInv, NInv, Today, NEW i \in Ids,
           AfterRecommendations(i) \/ AfterMessage(i) \/ AfterArchive(i)
    PROVE  Today'
<1> DEFINE h == Handled(i)
<1>1. runs[i].hook /\ UNCHANGED <<day, sends>>
  BY DEF AfterRecommendations, AfterMessage, AfterArchive, Owed
<1>2. /\ IsSeq(h) /\ DOMAIN h = DOMAIN runs
      /\ \A j \in DOMAIN runs : Running(h[j]) => Running(runs[j])
  <2>1. IsRun(runs[i]) /\ i \in DOMAIN runs /\ IsSeq(runs) /\ runs[i].status = "done"
    BY <1>1 DEF IInv, Fits, Fit, Ids
  <2> DEFINE x == Spent(runs[i])
  <2>2. ~Running(x)
    BY <2>1 DEF Spent, IsRun, Fields, Running
  <2>3. h = [runs EXCEPT ![i] = x]
    BY DEF Handled
  <2> HIDE DEF h, x
  <2>4. QED
    BY <2>1, <2>2, <2>3, OneChanges
<1> HIDE DEF h
<1>3. CASE runs' = h
  BY <1>1, <1>2, <1>3, NobodyStarts
<1>4. ASSUME NEW r, Enqueue(h, r) PROVE Today'
  BY <1>1, <1>2, <1>4, EnqueueToday
<1>5. ASSUME NEW people \in SUBSET People, NEW sweep \in Sweeps(people), runs' = h \o sweep
      PROVE  Today'
  <2>1. IsSeq(sweep)
    BY <1>5, SweepIsNew DEF AllNew
  <2>2. \A j \in DOMAIN runs : (h \o sweep)[j] = h[j]
    BY <1>2, <2>1, KeepPlaces
  <2>3. QED
    BY <1>1, <1>2, <1>5, <2>2, NobodyStarts
<1>6. CASE AfterRecommendations(i)
  <2>1. \A found, blacklist : blacklist \in FetchLeadBlacklist
           => found \cap blacklist \in SUBSET People
    BY OutreachAssumption DEF FetchLeadBlacklist
  <2>2. QED
    BY <1>3, <1>4, <1>5, <1>6, <2>1 DEF AfterRecommendations, h
<1>7. QED
  BY <1>3, <1>4, <1>6 DEF AfterMessage, AfterArchive, h

LEMMA NextToday ==
    ASSUME IInv, NInv, Today, [Next]_vars
    PROVE  Today'
<1>1. IsSeq(runs) /\ IsSeq(draft) /\ \A y \in sends : y.by \in DOMAIN runs
  BY DEF IInv, Fits, AllNew, NInv, Sums, Tallied
<1>2. CASE Requests
  <2>1. UNCHANGED <<day, sends>> /\ \E r : Enqueue(runs, r)
    BY <1>2 DEF Requests, SaveRecommendations, SendMessages, RemoveCandidate
  <2>2. QED
    BY <1>1, <2>1, EnqueueToday
<1>3. CASE Commit
  <2>1. \A j \in DOMAIN runs : (runs \o draft)[j] = runs[j]
    BY <1>1, KeepPlaces
  <2>2. QED
    BY <1>3, <2>1, NobodyStarts DEF Commit
<1>4. CASE Daemon
  BY <1>4, DaemonToday
<1>5. CASE Hooks
  BY <1>5, HooksToday DEF Hooks
<1>6. CASE BackendRestart
  <2>1. ASSUME NEW j \in DOMAIN runs, Running(runs'[j]) PROVE Running(runs[j])
    <3>1. IsRun(runs[j]) /\ (runs[j].hook => runs[j].status = "done")
      BY DEF IInv, Fits, Fit
    <3>2. runs'[j] = IF runs[j].hook THEN Spent(runs[j]) ELSE runs[j]
      BY <1>6 DEF BackendRestart, Ids
    <3>3. runs[j].hook => ~Running(Spent(runs[j]))
      BY <3>1 DEF Spent, IsRun, Fields, Running
    <3>4. QED
      BY <2>1, <3>2, <3>3
  <2>2. QED
    BY <1>6, <2>1, NobodyStarts DEF BackendRestart
<1>7. CASE NextDay
  BY <1>1, <1>7 DEF NextDay, Today, Running, Ids
<1>8. CASE UNCHANGED vars
  BY <1>8 DEF vars, Today
<1>9. QED
  BY <1>2, <1>3, <1>4, <1>5, <1>6, <1>7, <1>8 DEF Next

LEMMA InitNInv == Init => NInv
<1> SUFFICES ASSUME Init PROVE NInv
  OBVIOUS
<1>1. runs = <<>> /\ draft = <<>> /\ sends = {}
  BY DEF Init
<1>2. DOMAIN runs = {} /\ DOMAIN draft = {} /\ Len(draft) = 0 /\ IsFiniteSet(sends)
  BY <1>1, FS_EmptySet
<1>3. Chained(runs, sends)
  BY <1>2 DEF Chained
<1>4. Tallied(runs, sends)
  BY <1>1, <1>2 DEF Tallied
<1>5. Capped(runs, draft, sends)
  BY <1>1, <1>2 DEF Capped
<1>6. QED
  BY <1>2, <1>3, <1>4, <1>5 DEF NInv, Sums

LEMMA NextNInv == IInv /\ NInv /\ Today /\ [Next]_vars => NInv'
<1> SUFFICES ASSUME IInv, NInv, Today, [Next]_vars PROVE NInv'
  OBVIOUS
<1>1. CASE Requests \/ Commit
  BY <1>1, RequestSums
<1>2. CASE Daemon
  BY <1>2, ClaimSums, SeatSums, BatchSums, FailSums, SendSums DEF Daemon
<1>3. CASE Hooks
  BY <1>3, RecommendationSums, MessageSums, ArchivedSums DEF Hooks
<1>4. CASE BackendRestart
  BY <1>4, RestartSums
<1>5. CASE NextDay \/ UNCHANGED vars
  <2>1. UNCHANGED <<runs, draft, stage, sends, seen>>
    BY <1>5 DEF NextDay, vars
  <2>2. QED
    BY <2>1 DEF NInv
<1>6. QED
  BY <1>1, <1>2, <1>3, <1>4, <1>5 DEF Next

LEMMA TotalsInv == Spec => [](IInv /\ NInv)
<1> DEFINE Inv == IInv /\ NInv /\ Today
<1>1. Init => Inv
  BY InitIInv, InitNInv DEF Init, Today
<1>2. Inv /\ [Next]_vars => Inv'
  BY NextIInv, NextNInv, NextToday
<1>3. QED
  BY <1>1, <1>2, PTL DEF Spec

\* Whatever is queued, deferred or dropped in between, the run that ends a chain of
\* continuations has the sum of what LinkedIn confirmed of all of them: a run whose
\* report is lost ends its chain without a total, and an automatic run has
\* no continuation: _after_message, _post_send_summary and what they carry over.
THEOREM TotalsAreTrue == Spec => []ChainTotals
<1>1. IInv /\ NInv => ChainTotals
  <2> SUFFICES ASSUME IInv, NInv PROVE ChainTotals
    OBVIOUS
  <2>1. Chained(runs, sends) /\ Tallied(runs, sends) /\ \A i \in Ids : i \in DOMAIN runs
    BY DEF NInv, Sums, Ids
  <2>2. \A i \in DOMAIN runs : RootOf(runs, i) = Root(i)
    BY DEF RootOf, Root
  <2>3. ASSUME NEW i \in Ids, runs[i].kind = "message"
        PROVE  runs[i].total = Cardinality({s \in sends : s.by < i /\ Root(s.by) = Root(i)})
    <3>1. {s \in sends : s.by < i /\ Root(s.by) = Root(i)} = Earlier(runs, sends, i)
      BY <2>1, <2>2 DEF Earlier, Tallied
    <3>2. QED
      BY <2>1, <2>3, <3>1 DEF Chained
  <2>4. ASSUME NEW i \in Ids, runs[i].auto, NEW j \in Ids, j # i PROVE Root(j) # Root(i)
    BY <2>1, <2>4 DEF Chained, Root
  <2>5. QED
    BY <2>3, <2>4 DEF ChainTotals
<1>2. QED
  BY TotalsInv, <1>1, PTL

\* As long as nobody decides on two sends at once and every run that sent anything
\* completed on its day and was heard of, the automation never takes a position past
\* its daily cap, the confirmed messages of people included:
\* _auto_send_after_recommendations reads _sent_last_24h before the run that it
\* queues has sent anything.
THEOREM CapHolds == Spec => []AutoWithinCap
<1>1. IInv /\ NInv => AutoWithinCap
  <2> SUFFICES ASSUME IInv, NInv, ~seen.trouble, NEW s \in sends, runs[s.by].auto
               PROVE  Cardinality({t \in sends : t.on = s.on /\ t.by <= s.by}) <= DailyCap
    BY DEF AutoWithinCap
  <2> DEFINE a == s.by
             before == {t \in sends : t.on = runs[a].created /\ t.by < a}
  <2>1. /\ Capped(runs, draft, sends) /\ Tallied(runs, sends)
        /\ a \in DOMAIN runs /\ IsFiniteSet(sends)
    BY DEF NInv, Sums, Tallied
  <2>2. /\ s.on = runs[a].created /\ runs[a].status # "failed"
        /\ Cardinality(before) + runs[a].cap <= DailyCap
    BY <2>1 DEF Capped, Forgotten
  <2>3. /\ runs[a].kind = "message" /\ runs[a].cap > 0 /\ runs[a].cap \in Nat
        /\ runs[a].told = {x.to : x \in By(sends, a)}
        /\ \A x, y \in By(sends, a) : x.to = y.to => x = y
        /\ Cardinality(runs[a].told) <= runs[a].cap
    BY <2>1, <2>2 DEF Tallied, Tally
  <2>4. IsFiniteSet(before) /\ IsFiniteSet(By(sends, a))
    <3>1. before \subseteq sends /\ By(sends, a) \subseteq sends
      BY DEF By
    <3>2. QED
      BY <2>1, <3>1, CountPart
  <2>5. Cardinality(By(sends, a)) <= runs[a].cap
    BY <2>3, <2>4, CountTold
  <2>6. DOMAIN runs \subseteq Nat
    <3>1. PICK R : runs \in Seq(R)
      BY DEF IInv, Fits, IsSeq
    <3>2. QED
      BY <3>1
  <2>7. {t \in sends : t.on = s.on /\ t.by <= a} \subseteq before \cup By(sends, a)
    BY <2>1, <2>2, <2>6 DEF Tallied, By
  <2>8. /\ IsFiniteSet(before \cup By(sends, a))
        /\ Cardinality(before) \in Nat /\ Cardinality(By(sends, a)) \in Nat
        /\ Cardinality(before \cup By(sends, a)) \in Nat
        /\ Cardinality(before \cup By(sends, a)) <= Cardinality(before) + Cardinality(By(sends, a))
    BY <2>4, CountUnion
  <2>9. /\ Cardinality({t \in sends : t.on = s.on /\ t.by <= a}) \in Nat
        /\ Cardinality({t \in sends : t.on = s.on /\ t.by <= a})
             <= Cardinality(before \cup By(sends, a))
    BY <2>7, <2>8, CountPart
  <2> HIDE DEF before
  <2>10. QED
    BY <2>2, <2>3, <2>5, <2>8, <2>9, OutreachAssumption
<1>2. QED
  BY TotalsInv, <1>1, PTL

================================================================================
