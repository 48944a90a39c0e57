------------------------- MODULE WorkflowStoreProofs -------------------------
(***************************************************************************)
(* Six invariants of WorkflowStore, for every set of kinds of requests     *)
(* and every number of them, open or in all: a definition is of one piece  *)
(* (OfOnePiece), so is the snapshot of a run (RunOfOnePiece), the bulk     *)
(* delete spares a workflow that was promoted before it (SystemSpared),    *)
(* nothing of a deleted workflow is left (NoOrphans), one template is      *)
(* active (OneActiveTemplate), and the end of a run is kept (EndsAnyway).  *)
(*                                                                         *)
(* None is inductive.  What makes them so: the identifier of a row says    *)
(* who wrote it into which table (Genuine); what a request has left to do  *)
(* is the end of its program (Ordered); no two open transactions hold one  *)
(* row (Exclusive), and a row that one changed is still there (RowsFit); a *)
(* request that is past its DELETE of a table holds all rows of it that    *)
(* were committed when it came (Swept), and only then it inserts (Whole);  *)
(* of the ends of two runs that learned of steps, one knows all the steps  *)
(* that the other one knows (Comparable); and where the database has the   *)
(* foreign keys, no step is left or comes without its workflow (CInv).     *)
(***************************************************************************)
EXTENDS WorkflowStore, FiniteSetTheorems, TLAPS

Tables == {"workflow", "step", "parameter", "action", "analysis", "template", "binding"}
Parts == {"step", "parameter", "action"}
RunKinds == {"run", "run_with"}
Deletes == {"delete", "delete_all"}

Fields == {"kind", "todo", "end", "new", "gone", "changed", "read", "aim", "plan", "run",
           "refused", "before"}
RowFields == {"id", "table", "by", "n", "on", "of"}

IsSeq(s) == \E S : s \in Seq(S)

\* The table of the row that a request of the kind inserts when it has n
\* statements left, and that of a row that was there.
TableAt(kind, n) ==
    IF kind = "analyze"
    THEN IF n = 6 THEN "analysis" ELSE IF n = 5 THEN "action"
         ELSE IF n = 4 THEN "parameter" ELSE "template"
    ELSE IF kind \in {"save", "add"} THEN "step"
    ELSE IF kind = "run_with" THEN "template" ELSE "binding"

FirstTable(id) ==
    IF id = 1 THEN "workflow" ELSE IF id = 2 THEN "step" ELSE IF id = 3 THEN "parameter"
    ELSE IF id = 4 THEN "action" ELSE IF id = 5 THEN "analysis" ELSE "template"

\* Writers whose steps may be found together.
OnePiece(S) ==
    /\ S \subseteq Requests \cup {0}
    /\ \A r, o \in S : (\A s \in {r, o} \ {0} : tx[s].kind # "add") /\ r # o => Overlap(r, o)

\* The identifier of a row determines who wrote it, and its table.
Genuine(x) ==
    /\ DOMAIN x = RowFields
    /\ \/ x.by = 0 /\ x.id \in 1..6 /\ x.table = FirstTable(x.id)
       \/ /\ x.by \in Requests /\ x.id \in (10 * x.by + 1)..(10 * x.by + 9)
          /\ x.table = TableAt(tx[x.by].kind, x.id - 10 * x.by)
    /\ OnePiece(x.of)

Rows(S) == IsFiniteSet(S) /\ \A x \in S : Genuine(x)

\* The tables that a request of the kind empties before it goes on.
Sweeps(kind, table) ==
    \/ kind = "analyze" /\ table \in {"parameter", "action"}
    \/ kind = "save" /\ table = "step"
    \/ kind \in Deletes /\ table \in Tables \ {"workflow"}

Cleared(p, table) == \A i \in DOMAIN p : p[i] # Clear(table)

\* Statements after which a request may be refused.
Refuses == {"some", "need", "not", "pick"}

\* The requests that write under a workflow only when they have found it.
Getters == {"analyze", "save", "add", "run_with"}

\* The tables of the rows that a request of the kind deletes.
TakenBy(kind) ==
    IF kind \in Deletes THEN Tables
    ELSE IF kind = "analyze" THEN {"parameter", "action", "template", "analysis"}
    ELSE IF kind = "save" THEN {"step"}
    ELSE IF kind = "unbind" THEN {"binding"} ELSE {}

\* What holds of a statement s, when it and n - 1 more are left.
Orderly(kind, s, n) ==
    /\ s[1] \in {"clear", "drop"} => s[2] \in TakenBy(kind)
    /\ s[1] = "insert" => kind \in Getters \cup {"bind"}
    /\ kind \in Deletes =>
          /\ n <= IF kind = "delete" THEN 8 ELSE 9
          /\ n > 7 => s = IF n = 8 /\ kind = "delete_all" THEN Not("workflow", "system")
                          ELSE Need("workflow")
          /\ n \in 2..7 => s[1] = "clear" /\ s[2] # "workflow"
          /\ n = 1 => s = Drop("workflow")
    /\ kind = "analyze" =>
          /\ n <= 13
          /\ s[1] \in Refuses => n = 13
          /\ s[1] \in {"clear", "drop"} => n \in 7..11
          /\ n = 4 => s = Insert("parameter")
    /\ kind = "bind" =>
          /\ n <= 3
          /\ n = 3 => s = Need("parameter")
          /\ s[1] \in Refuses => n = 3

\* Statements about the templates.
Inserting(s) == s[1] = "insert" /\ s[2] = "template"
Retiring(s) == s[1] = "change" /\ s[2] = "template"
Wiping(s) == s[1] = "clear" /\ s[2] = "template"
Looking(s) == s[1] = "one" /\ s[2] = "template"
Leaves(s) == s[1] # "plan" /\ ~Inserting(s) /\ ~Retiring(s) /\ ~Wiping(s)

\* A template is inserted behind the DELETE of all of them, or the UPDATE of the
\* one that was read as the active one; whatever comes then, the active template
\* is read once more.
Renewing(kind, p, i) ==
    /\ Inserting(p[i]) =>
          /\ kind \in {"analyze", "run_with"}
          /\ \E j \in (i + 1)..Len(p) : Looking(p[j])
          /\ \A j \in (i + 1)..Len(p) :
                /\ Leaves(p[j])
                /\ Looking(p[j]) => \A k \in (i + 1)..j : p[k][1] \notin Refuses
    /\ Retiring(p[i]) =>
          /\ kind = "run_with" /\ p[i][3] = "retire"
          /\ i < Len(p) /\ Inserting(p[i + 1])
    /\ i < Len(p) /\ Retiring(p[i + 1]) => Looking(p[i])
    /\ i < Len(p) /\ Inserting(p[i + 1]) /\ kind = "run_with" => Retiring(p[i])
    /\ Wiping(p[i]) =>
          \/ kind \in Deletes
          \/ kind = "analyze" /\ \E j \in (i + 1)..Len(p) : Inserting(p[j])
    /\ p[i][1] = "drop" => p[i][2] # "template"

\* What holds of the statement i of p, of which all but the last Len(p) of the
\* statements of a request of the kind are done.
InOrder(kind, p, i) ==
    /\ Orderly(kind, p[i], Len(p) - i + 1) /\ Renewing(kind, p, i)
    /\ p[i][1] = "insert" =>
          /\ Len(p) - i + 1 \in 1..9 /\ p[i][2] = TableAt(kind, Len(p) - i + 1)
          /\ p[i] = Insert(p[i][2])
          /\ p[i][2] \in Parts /\ kind # "add" =>
                /\ Sweeps(kind, p[i][2])
                /\ \A j \in (i + 1)..Len(p) :
                      p[j] # Clear(p[i][2]) /\ p[j][1] \notin Refuses
    /\ p[i][1] = "clear" => p[i] = Clear(p[i][2])
    /\ p[i][1] \in {"plan", "adopt", "create"} => kind \in RunKinds
    /\ p[i][1] = "plan" => kind = "run_with"
    /\ p[i][1] = "bind" => kind = "bind"
    /\ p[i][1] = "change" /\ kind \in RunKinds => p[i][2] = "template"
    /\ i < Len(p) /\ p[i + 1][1] \in {"plan", "adopt"} => p[i] = One("template")
    /\ kind = "promote" =>
          /\ Len(p) <= 4
          /\ Len(p) - i = 3 => p[i] = Need("workflow")
          /\ Len(p) - i \in {1, 2} => p[i][1] = "not"
          /\ Len(p) - i = 0 => p[i] = Change("workflow", "system")
    /\ kind = "delete_all" =>
          /\ Len(p) - i = 8 => p[i] = Need("workflow")
          /\ Len(p) - i = 7 => p[i] = Not("workflow", "system")

Ordered(kind, p) == IsSeq(p) /\ \A i \in 1..Len(p) : InOrder(kind, p, i)

Ended == {r \in Requests : tx[r].end # "open"}

Shape(r, t) ==
    /\ DOMAIN t = Fields /\ t.refused \in BOOLEAN
    /\ t.refused => t.todo = <<>>
    /\ t.end \in {"open", "done", "failed"}
    /\ \A a \in t.before : a \in Ended /\ a < r

RowsFit(r, t) ==
    /\ Rows(t.new) /\ Rows(t.changed) /\ Rows(t.read)
    /\ \A x \in t.new : x.by = r
    /\ t.end = "open" => \A c \in t.changed : c.id \in IdsOf(db) /\ c.id \notin t.gone

\* Rows of the table that were committed when the request came.
Earlier(t, table) == {x \in In(db, table) : x.by \in t.before \cup {0}}

Swept(r, t) ==
    /\ \A u \in Tables : Sweeps(t.kind, u) /\ ~t.refused =>
          /\ t.end = "open" /\ Cleared(t.todo, u) => IdsOf(Earlier(t, u)) \subseteq t.gone
          /\ t.end = "done" => Earlier(t, u) = {}
    /\ t.aim # {} =>
          /\ t.todo # <<>> /\ t.todo[1][1] = "clear"
          /\ IdsOf(Earlier(t, t.todo[1][2])) \subseteq t.aim \cup t.gone

Inserted(t, x) ==
    x.table \in Parts /\ t.kind # "add" => Sweeps(t.kind, x.table) /\ ~t.refused

Whole(t) ==
    \A x \in t.new :
        /\ Inserted(t, x)
        /\ x.table \in Parts /\ t.kind # "add" =>
              /\ Cleared(t.todo, x.table)
              /\ \A i \in DOMAIN t.todo : t.todo[i][1] \notin Refuses

Writers(rows, table) == {x.by : x \in In(rows, table)}

Repeats(t) ==
    /\ OnePiece(t.plan) /\ OnePiece(t.run)
    /\ t.kind \in RunKinds => OnePiece(Writers(t.read, "step"))
    /\ t.todo # <<>> /\ t.todo[1][1] \in {"plan", "adopt"} =>
          \A x, y \in In(t.read, "template") : x = y

System(rows) == \A x \in rows : x.id = 1 => "system" \in x.on
Promoted(p) == tx[p].kind = "promote" /\ tx[p].end = "done" /\ ~tx[p].refused

Promotes(t) ==
    t.kind = "promote" /\ t.end = "open" /\ ~t.refused =>
        /\ t.todo = <<>> => System(t.changed) /\ 1 \in IdsOf(t.changed)
        /\ t.todo # <<>> /\ Len(t.todo) < 4 => 1 \in IdsOf(t.read)

Spares(t) ==
    t.kind = "delete_all" /\ (\E p \in t.before : Promoted(p)) =>
        /\ t.gone = {}
        /\ t.end = "open" =>
              \/ t.todo = <<>>
              \/ Len(t.todo) = 9 /\ t.read = {}
              \/ Len(t.todo) = 8 /\ 1 \in IdsOf(t.read) /\ System(t.read)

Good(r, t) ==
    /\ Shape(r, t) /\ Ordered(t.kind, t.todo) /\ RowsFit(r, t) /\ Swept(r, t) /\ Whole(t)
    /\ Repeats(t) /\ Promotes(t) /\ Spares(t)

HeldBy(t) == t.gone \cup IdsOf(t.changed)

Exclusive == \A r, o \in Open : r # o => HeldBy(tx[r]) \cap HeldBy(tx[o]) = {}

Stored ==
    /\ Rows(db)
    /\ \A x \in db : x.by # 0 => tx[x.by].end = "done" /\ Inserted(tx[x.by], x)

SystemKept ==
    (\E p \in Requests : Promoted(p)) =>
        System(db) /\ \A r \in Open : System(tx[r].changed)

WInv ==
    /\ \A r \in Requests : \A t \in {tx[r]} : Good(r, t)
    /\ Exclusive /\ Stored /\ SystemKept

IInv == IsSeq(tx) /\ WInv
--------------------------------------------------------------------------------
LEMMA Indexes == ASSUME IInv PROVE Len(tx) \in Nat /\ Requests = 1..Len(tx)
<1>1. PICK S : tx \in Seq(S)
  BY DEF IInv, IsSeq
<1>2. QED
  BY <1>1 DEF Requests

\* Two rows with one identifier are of one writer and one table.
LEMMA SameRow ==
    ASSUME IInv, NEW x, NEW y, Genuine(x), Genuine(y), x.id = y.id
    PROVE  x.by = y.by /\ x.table = y.table
<1>1. Requests \subseteq Nat
  BY Indexes
<1>2. x.by \in Nat /\ y.by \in Nat
  <2>1. \A k \in Requests : k \in Nat
    BY <1>1
  <2>2. QED
    BY <2>1 DEF Genuine
<1>3. x.by = y.by
  <2>1. 0 \notin Requests
    BY Indexes
  <2>2. /\ x.by = 0 => x.id \in 1..6
        /\ x.by # 0 => x.id \in 10 * x.by + 1..10 * x.by + 9
    BY <2>1 DEF Genuine
  <2>3. /\ y.by = 0 => y.id \in 1..6
        /\ y.by # 0 => y.id \in 10 * y.by + 1..10 * y.by + 9
    BY <2>1 DEF Genuine
  <2>4. ASSUME NEW a \in Nat, NEW b \in Nat, NEW n,
               a = 0 => n \in 1..6, a # 0 => n \in 10 * a + 1..10 * a + 9,
               b = 0 => n \in 1..6, b # 0 => n \in 10 * b + 1..10 * b + 9
        PROVE  a = b
    BY <2>4
  <2>5. QED
    BY <1>2, <2>2, <2>3, <2>4
<1>4. x.by \notin Requests \/ x.by # 0
  BY Indexes
<1>5. QED
  BY <1>3, <1>4 DEF Genuine

\* What a step leaves alone of the requests that were there.
Later ==
    /\ Requests \subseteq Requests'
    /\ \A q \in Requests : /\ tx'[q].kind = tx[q].kind /\ tx'[q].before = tx[q].before
                           /\ tx[q].end # "open" => tx'[q] = tx[q]

LEMMA PieceStays ==
    ASSUME Later, NEW S, OnePiece(S)
    PROVE  OnePiece(S)'
<1>1. ASSUME NEW a \in S, NEW b \in S, Overlap(a, b) PROVE Overlap(a, b)'
  BY <1>1 DEF Later, Overlap
<1>2. \A a \in S : a # 0 => a \in Requests /\ tx'[a].kind = tx[a].kind
  BY DEF Later, OnePiece
<1>3. S \subseteq Requests' \cup {0}
  BY DEF Later, OnePiece
<1>4. ASSUME NEW a \in S, NEW b \in S, a # b,
             \A s \in {a, b} \ {0} : tx'[s].kind # "add"
      PROVE  Overlap(a, b)'
  <2>1. \A s \in {a, b} \ {0} : tx[s].kind # "add"
    BY <1>2, <1>4
  <2>2. Overlap(a, b)
    BY <2>1, <1>4 DEF OnePiece
  <2>3. QED
    BY <2>2, <1>1
<1>5. QED
  BY <1>3, <1>4 DEF OnePiece

LEMMA GenuineStays ==
    ASSUME Later, NEW x, Genuine(x)
    PROVE  Genuine(x)'
<1>1. OnePiece(x.of)'
  BY PieceStays DEF Genuine
<1>2. QED
  BY <1>1 DEF Genuine, Later

LEMMA RowsStay ==
    ASSUME Later, NEW S, Rows(S)
    PROVE  Rows(S)'
BY GenuineStays DEF Rows

\* What is known of a request is known after a step that neither changes it nor
\* stores a row.
LEMMA ShapeStays ==
    ASSUME Later, NEW q, NEW t, Shape(q, t)
    PROVE  Shape(q, t)'
BY DEF Later, Shape, Ended

LEMMA RepeatsStay ==
    ASSUME Later, NEW t, Repeats(t)
    PROVE  Repeats(t)'
BY PieceStays DEF Repeats, Writers, In

LEMMA SparesStay ==
    ASSUME Later, NEW q, NEW t, Shape(q, t), Spares(t)
    PROVE  Spares(t)'
<1>1. \A p \in t.before : p \in Requests /\ tx'[p] = tx[p]
  BY DEF Later, Shape, Ended
<1>2. (\E p \in t.before : Promoted(p)') => \E p \in t.before : Promoted(p)
  BY <1>1 DEF Promoted
<1>3. QED
  BY <1>2 DEF Spares, System, IdsOf

LEMMA GoodStays ==
    ASSUME Later, UNCHANGED db, NEW q, NEW t, Good(q, t)
    PROVE  Good(q, t)'
<1>1. RowsFit(q, t)'
  BY RowsStay DEF Good, RowsFit, IdsOf
<1>2. Swept(q, t)'
  BY DEF Good, Swept, Earlier, In, IdsOf
<1>3. Whole(t)' /\ Promotes(t)' /\ Ordered(t.kind, t.todo)'
  BY DEF Good, Whole, Inserted, Promotes, System, IdsOf, Ordered, InOrder
<1>4. QED
  BY <1>1, <1>2, <1>3, ShapeStays, RepeatsStay, SparesStay DEF Good

\* A step of one open request that stores nothing.
LEMMA Becoming ==
    ASSUME IInv, NEW r \in Open, NEW t, Becomes(r, t),
           t.kind = tx[r].kind, t.before = tx[r].before, t.end # "done", Good(r, t),
           \A o \in Open \ {r} : HeldBy(t) \cap HeldBy(tx[o]) = {},
           (\E p \in Requests : Promoted(p)) => System(t.changed)
    PROVE  IInv'
<1>1. /\ Requests' = Requests /\ r \in Requests
      /\ tx'[r] = t /\ \A q \in Requests \ {r} : tx'[q] = tx[q]
  BY DEF Becomes, Open, Requests
<1>2. Later
  BY <1>1 DEF Later, Open
<1>3. \A q \in Requests : \A u \in {tx'[q]} : Good(q, u)
  BY <1>1 DEF IInv, WInv
<1>4. \A q \in Requests : \A u \in {tx'[q]} : Good(q, u)'
  <2> SUFFICES ASSUME NEW q \in Requests, NEW u \in {tx'[q]} PROVE Good(q, u)'
    OBVIOUS
  <2>1. Good(q, u)
    BY <1>3
  <2>2. QED
    BY <2>1, <1>2, GoodStays DEF Becomes
<1>5. Open' \subseteq Open
  BY <1>1 DEF Open
<1>6. Exclusive'
  <2> SUFFICES ASSUME NEW p \in Open', NEW o \in Open', p # o
               PROVE  HeldBy(tx'[p]) \cap HeldBy(tx'[o]) = {}
    BY DEF Exclusive, HeldBy, IdsOf
  <2>1. CASE p # r /\ o # r
    BY <2>1, <1>1, <1>5 DEF IInv, WInv, Exclusive, Open
  <2>2. CASE p = r \/ o = r
    BY <2>2, <1>1, <1>5 DEF Open
  <2>3. QED
    BY <2>1, <2>2
<1>7. Stored'
  <2>1. Rows(db)'
    BY <1>2, RowsStay DEF IInv, WInv, Stored, Becomes
  <2>2. \A x \in db : x.by # 0 => x.by \in Requests
    BY DEF IInv, WInv, Stored, Rows, Genuine
  <2>3. \A x \in db : x.by # 0 => x.by # r
    BY DEF IInv, WInv, Stored, Open
  <2>4. \A x \in db : x.by # 0 => tx'[x.by] = tx[x.by]
    BY <2>2, <2>3, <1>1
  <2>5. QED
    BY <2>1, <2>4 DEF IInv, WInv, Stored, Becomes, Inserted
<1>8. SystemKept'
  <2>1. \A p \in Requests : Promoted(p)' => Promoted(p)
    BY <1>1 DEF Promoted
  <2>2. \A o \in Open' : o # r => o \in Open /\ tx'[o] = tx[o]
    BY <1>1, <1>5 DEF Open
  <2>3. QED
    BY <2>1, <2>2, <1>1 DEF IInv, WInv, SystemKept, System, Becomes
<1>9. IsSeq(tx')
  <2>1. PICK S : tx \in Seq(S)
    BY DEF IInv, IsSeq
  <2>2. tx' = [tx EXCEPT ![r] = t] /\ tx \in Seq(S \cup {t})
    BY <2>1 DEF Becomes
  <2>3. tx' \in Seq(S \cup {t})
    BY <2>2, <1>1 DEF Requests
  <2>4. QED
    BY <2>3 DEF IsSeq
<1>10. QED
  BY <1>1, <1>4, <1>6, <1>7, <1>8, <1>9 DEF IInv, WInv, IsSeq
--------------------------------------------------------------------------------
LEMMA Joined ==
    ASSUME NEW p, NEW q, IsSeq(p), IsSeq(q)
    PROVE  IsSeq(p \o q)
<1>1. PICK S : p \in Seq(S)
  BY DEF IsSeq
<1>2. PICK T : q \in Seq(T)
  BY DEF IsSeq
<1>3. p \in Seq(S \cup T) /\ q \in Seq(S \cup T)
  BY <1>1, <1>2
<1>4. p \o q \in Seq(S \cup T)
  BY <1>3
<1>5. QED
  BY <1>4 DEF IsSeq

\* What a program is when its request arrives.
Starts(kind, p) ==
    /\ p # <<>> /\ p[1][1] \notin {"plan", "adopt"}
    /\ kind = "promote" => Len(p) = 4
    /\ kind = "delete" => Len(p) = 8
    /\ kind = "delete_all" => Len(p) = 9
    /\ kind = "analyze" => Len(p) = 13
    /\ kind = "bind" => Len(p) = 3
    /\ kind \in Getters => p[1] = Need("workflow")
    /\ \A u \in Tables : Sweeps(kind, u) => ~Cleared(p, u)

LEMMA NoSeq == IsSeq(<<>>)
<1>1. <<>> \in Seq({})
  OBVIOUS
<1>2. QED
  BY <1>1 DEF IsSeq

LEMMA OneSeq == ASSUME NEW a PROVE IsSeq(<<a>>)
<1>1. <<a>> \in Seq({a})
  OBVIOUS
<1>2. QED
  BY <1>1 DEF IsSeq

LEMMA TwoSeq == ASSUME NEW a, NEW b PROVE IsSeq(<<a, b>>)
<1>1. <<a, b>> \in Seq({a, b})
  OBVIOUS
<1>2. QED
  BY <1>1 DEF IsSeq

LEMMA ThreeSeq == ASSUME NEW a, NEW b, NEW c PROVE IsSeq(<<a, b, c>>)
<1>1. <<a, b, c>> \in Seq({a, b, c})
  OBVIOUS
<1>2. QED
  BY <1>1 DEF IsSeq

LEMMA FourSeq == ASSUME NEW a, NEW b, NEW c, NEW d PROVE IsSeq(<<a, b, c, d>>)
<1>1. <<a, b, c, d>> \in Seq({a, b, c, d})
  OBVIOUS
<1>2. QED
  BY <1>1 DEF IsSeq

LEMMA FiveSeq == ASSUME NEW a, NEW b, NEW c, NEW d, NEW e PROVE IsSeq(<<a, b, c, d, e>>)
<1>1. <<a, b, c, d, e>> \in Seq({a, b, c, d, e})
  OBVIOUS
<1>2. QED
  BY <1>1 DEF IsSeq

LEMMA SixSeq == ASSUME NEW a, NEW b, NEW c, NEW d, NEW e, NEW f PROVE IsSeq(<<a, b, c, d, e, f>>)
<1>1. <<a, b, c, d, e, f>> \in Seq({a, b, c, d, e, f})
  OBVIOUS
<1>2. QED
  BY <1>1 DEF IsSeq

\* The programs, statement by statement.
LEMMA AnalyzeIs ==
    /\ Len(Analyze) = 13
    /\ Analyze[1] = Need("workflow") /\ Analyze[2] = Read("step")
    /\ Analyze[3] = Clear("parameter") /\ Analyze[4] = Clear("action")
    /\ Analyze[5] = Clear("template") /\ Analyze[6] = One("analysis")
    /\ Analyze[7] = Drop("analysis") /\ Analyze[8] = Insert("analysis")
    /\ Analyze[9] = Insert("action") /\ Analyze[10] = Insert("parameter")
    /\ Analyze[11] = Insert("template") /\ Analyze[12] = Change("step", "touch")
    /\ Analyze[13] = One("template")
BY DEF Analyze, AnalyzeWorkflow, Get, Persist, ClearPrior, InferFields, Need, Read, Clear,
         One, Drop, Insert, Change

LEMMA AnalyzeFits == Ordered("analyze", Analyze) /\ Starts("analyze", Analyze)
<1>1. ASSUME NEW i \in 1..13 PROVE InOrder("analyze", Analyze, i)
  <2>1. \/ i = 1 \/ i = 2 \/ i = 3 \/ i = 4 \/ i = 5 \/ i = 6 \/ i = 7 \/ i = 8 \/ i = 9
        \/ i = 10 \/ i = 11 \/ i = 12 \/ i = 13
    OBVIOUS
  <2>2. \A j \in 9..13 : j = 9 \/ j = 10 \/ j = 11 \/ j = 12 \/ j = 13
    OBVIOUS
  <2>3. CASE i <= 7
    BY <2>1, <2>3, AnalyzeIs DEF InOrder, Renewing, Inserting, Retiring, Wiping, Looking,
       Leaves, Orderly, TakenBy, Getters, Deletes, Tables, Need,
       Read, Clear, One, Drop, Insert, Change, TableAt,
       Parts, Sweeps, Refuses, RunKinds
  <2>4. CASE i = 8
    BY <2>4, AnalyzeIs DEF InOrder, Renewing, Inserting, Retiring, Wiping, Looking, Leaves,
       Orderly, TakenBy, Getters, Deletes, Tables, Need, Read,
       Clear, One, Drop, Insert, Change, TableAt, Parts,
       Sweeps, Refuses, RunKinds
  <2>5. CASE i = 9
    BY <2>5, <2>2, AnalyzeIs DEF InOrder, Renewing, Inserting, Retiring, Wiping, Looking,
       Leaves, Orderly, TakenBy, Getters, Deletes, Tables, Need,
       Read, Clear, One, Drop, Insert, Change, TableAt,
       Parts, Sweeps, Refuses, RunKinds
  <2>6. CASE i = 10
    BY <2>6, <2>2, AnalyzeIs DEF InOrder, Renewing, Inserting, Retiring, Wiping, Looking,
       Leaves, Orderly, TakenBy, Getters, Deletes, Tables, Need,
       Read, Clear, One, Drop, Insert, Change, TableAt,
       Parts, Sweeps, Refuses, RunKinds
  <2>7. CASE i \in 11..13
    BY <2>7, <2>1, AnalyzeIs DEF InOrder, Renewing, Inserting, Retiring, Wiping, Looking,
       Leaves, Orderly, TakenBy, Getters, Deletes, Tables, Need,
       Read, Clear, One, Drop, Insert, Change, TableAt,
       Parts, Sweeps, Refuses, RunKinds
  <2>20. QED
    BY <2>3, <2>4, <2>5, <2>6, <2>7
<1>2. IsSeq(Analyze)
  <2>1. IsSeq(Get) /\ IsSeq(<<Read("step")>>) /\ IsSeq(InferFields)
        /\ IsSeq(<<One("template")>>)
    BY OneSeq DEF Get, InferFields
  <2>2. IsSeq(ClearPrior)
    BY FiveSeq DEF ClearPrior
  <2>3. IsSeq(Persist)
    BY <2>2, FourSeq, Joined DEF Persist
  <2>4. IsSeq(Get \o <<Read("step")>>)
    BY <2>1, Joined
  <2>5. IsSeq((Get \o <<Read("step")>>) \o Persist)
    BY <2>3, <2>4, Joined
  <2>6. IsSeq(AnalyzeWorkflow)
    BY <2>1, <2>5, Joined DEF AnalyzeWorkflow
  <2>7. QED
    BY <2>1, <2>6, Joined DEF Analyze
<1>3. DOMAIN Analyze = 1..13
  BY <1>2, AnalyzeIs DEF IsSeq
<1>4. Starts("analyze", Analyze)
  BY <1>3, AnalyzeIs DEF Starts, Getters, Sweeps, Deletes, Tables, Cleared, Need, Clear
<1>5. QED
  BY <1>1, <1>2, <1>4, AnalyzeIs DEF Ordered

LEMMA SaveFits ==
    Ordered("save", Save) /\ Starts("save", Save)
<1> USE DEF Need, Read, Some, One, Not, Clear, Drop, Change, Insert
<1>1. /\ Len(Save) = 3
      /\ Save[1] = Need("workflow")
      /\ Save[2] = Clear("step")
      /\ Save[3] = Insert("step")
  BY DEF Save, Get, ReplaceSteps
<1>2. IsSeq(Save)
  <2>1. /\ IsSeq(Get)
        /\ IsSeq(ReplaceSteps)
    BY OneSeq, TwoSeq DEF Save, Get, ReplaceSteps
  <2>2. QED
    BY <2>1, Joined DEF Save
<1>3. ASSUME NEW i \in 1..3
      PROVE  InOrder("save", Save, i)
  <2>1. i = 1 \/ i = 2 \/ i = 3
    OBVIOUS
  <2>2. QED
    BY <1>1, <2>1 DEF InOrder, Renewing, Inserting, Retiring, Wiping, Looking, Leaves,
       Orderly, TakenBy, Getters, TableAt, Parts, Sweeps, Refuses,
       RunKinds, Deletes, Tables
<1>4. DOMAIN Save = 1..3
  BY <1>1, <1>2 DEF IsSeq
<1>5. Starts("save", Save)
  BY <1>1, <1>4 DEF Starts, Getters, Sweeps, Deletes, Tables, Cleared
<1>6. QED
  BY <1>1, <1>2, <1>3, <1>5 DEF Ordered

LEMMA AddFits ==
    Ordered("add", AddStep) /\ Starts("add", AddStep)
<1> USE DEF Need, Read, Some, One, Not, Clear, Drop, Change, Insert
<1>1. /\ Len(AddStep) = 2
      /\ AddStep[1] = Need("workflow")
      /\ AddStep[2] = Insert("step")
  BY DEF AddStep, Get, AppendStep
<1>2. IsSeq(AddStep)
  <2>1. /\ IsSeq(Get)
        /\ IsSeq(AppendStep)
    BY OneSeq DEF AddStep, Get, AppendStep
  <2>2. QED
    BY <2>1, Joined DEF AddStep
<1>3. ASSUME NEW i \in 1..2
      PROVE  InOrder("add", AddStep, i)
  <2>1. i = 1 \/ i = 2
    OBVIOUS
  <2>2. QED
    BY <1>1, <2>1 DEF InOrder, Renewing, Inserting, Retiring, Wiping, Looking, Leaves,
       Orderly, TakenBy, Getters, TableAt, Parts, Sweeps, Refuses,
       RunKinds, Deletes, Tables
<1>5. Starts("add", AddStep)
  BY <1>1 DEF Starts, Getters, Sweeps, Deletes, Tables, Cleared
<1>6. QED
  BY <1>1, <1>2, <1>3, <1>5 DEF Ordered

LEMMA EditFits ==
    Ordered("edit", UpdateStep) /\ Starts("edit", UpdateStep)
<1> USE DEF Need, Read, Some, One, Not, Clear, Drop, Change, Insert
<1>1. /\ Len(UpdateStep) = 4
      /\ UpdateStep[1] = Need("workflow")
      /\ UpdateStep[2] = Some("step")
      /\ UpdateStep[3] = <<"pick", "step">>
      /\ UpdateStep[4] = Change("step", "touch")
  BY DEF UpdateStep, Get
<1>2. IsSeq(UpdateStep)
  <2>1. /\ IsSeq(Get)
        /\ IsSeq(<<Some("step"), <<"pick", "step">>, Change("step", "touch")>>)
    BY OneSeq, ThreeSeq DEF UpdateStep, Get
  <2>2. QED
    BY <2>1, Joined DEF UpdateStep
<1>3. ASSUME NEW i \in 1..4
      PROVE  InOrder("edit", UpdateStep, i)
  <2>1. i = 1 \/ i = 2 \/ i = 3 \/ i = 4
    OBVIOUS
  <2>2. QED
    BY <1>1, <2>1 DEF InOrder, Renewing, Inserting, Retiring, Wiping, Looking, Leaves,
       Orderly, TakenBy, Getters, TableAt, Parts, Sweeps, Refuses,
       RunKinds, Deletes, Tables
<1>5. Starts("edit", UpdateStep)
  BY <1>1 DEF Starts, Getters, Sweeps, Deletes, Tables, Cleared
<1>6. QED
  BY <1>1, <1>2, <1>3, <1>5 DEF Ordered

LEMMA PromoteFits ==
    Ordered("promote", Promote) /\ Starts("promote", Promote)
<1> USE DEF Need, Read, Some, One, Not, Clear, Drop, Change, Insert
<1>1. /\ Len(Promote) = 4
      /\ Promote[1] = Need("workflow")
      /\ Promote[2] = Not("workflow", "system")
      /\ Promote[3] = Not("workflow", "archived")
      /\ Promote[4] = Change("workflow", "system")
  BY DEF Promote, Get
<1>2. IsSeq(Promote)
  <2>1. /\ IsSeq(Get)
        /\ IsSeq(<<Not("workflow", "system"), Not("workflow", "archived"),
                    Change("workflow", "system")>>)
    BY OneSeq, ThreeSeq DEF Promote, Get
  <2>2. QED
    BY <2>1, Joined DEF Promote
<1>3. ASSUME NEW i \in 1..4
      PROVE  InOrder("promote", Promote, i)
  <2>1. i = 1 \/ i = 2 \/ i = 3 \/ i = 4
    OBVIOUS
  <2>2. QED
    BY <1>1, <2>1 DEF InOrder, Renewing, Inserting, Retiring, Wiping, Looking, Leaves,
       Orderly, TakenBy, Getters, TableAt, Parts, Sweeps, Refuses,
       RunKinds, Deletes, Tables
<1>5. Starts("promote", Promote)
  BY <1>1 DEF Starts, Getters, Sweeps, Deletes, Tables, Cleared
<1>6. QED
  BY <1>1, <1>2, <1>3, <1>5 DEF Ordered

LEMMA ArchiveFits ==
    Ordered("archive", Archive) /\ Starts("archive", Archive)
<1> USE DEF Need, Read, Some, One, Not, Clear, Drop, Change, Insert
<1>1. /\ Len(Archive) = 5
      /\ Archive[1] = Need("workflow")
      /\ Archive[2] = Not("workflow", "archived")
      /\ Archive[3] = Need("workflow")
      /\ Archive[4] = Not("workflow", "archived")
      /\ Archive[5] = Change("workflow", "archived")
  BY DEF Archive, UpdateStatus, Get
<1>2. IsSeq(Archive)
  <2>1. /\ IsSeq(Get)
        /\ IsSeq(<<Not("workflow", "archived")>>)
        /\ IsSeq(<<Not("workflow", "archived"), Change("workflow", "archived")>>)
    BY OneSeq, TwoSeq DEF Archive, UpdateStatus, Get
  <2>2. IsSeq(UpdateStatus)
    BY <2>1, Joined DEF UpdateStatus
  <2>3. IsSeq(Get \o <<Not("workflow", "archived")>>)
    BY <2>1, Joined
  <2>4. QED
    BY <2>1, <2>3, <2>2, Joined DEF Archive
<1>3. ASSUME NEW i \in 1..5
      PROVE  InOrder("archive", Archive, i)
  <2>1. i = 1 \/ i = 2 \/ i = 3 \/ i = 4 \/ i = 5
    OBVIOUS
  <2>2. QED
    BY <1>1, <2>1 DEF InOrder, Renewing, Inserting, Retiring, Wiping, Looking, Leaves,
       Orderly, TakenBy, Getters, TableAt, Parts, Sweeps, Refuses,
       RunKinds, Deletes, Tables
<1>5. Starts("archive", Archive)
  BY <1>1 DEF Starts, Getters, Sweeps, Deletes, Tables, Cleared
<1>6. QED
  BY <1>1, <1>2, <1>3, <1>5 DEF Ordered

LEMMA DescribeFits ==
    Ordered("describe", Describe) /\ Starts("describe", Describe)
<1> USE DEF Need, Read, Some, One, Not, Clear, Drop, Change, Insert
<1>1. /\ Len(Describe) = 4
      /\ Describe[1] = Need("workflow")
      /\ Describe[2] = Read("step")
      /\ Describe[3] = Need("workflow")
      /\ Describe[4] = Change("workflow", "touch")
  BY DEF Describe, UpdateWorkflow, Get
<1>2. IsSeq(Describe)
  <2>1. /\ IsSeq(Get)
        /\ IsSeq(<<Read("step")>>)
        /\ IsSeq(<<Change("workflow", "touch")>>)
    BY OneSeq DEF Describe, UpdateWorkflow, Get
  <2>2. IsSeq(UpdateWorkflow)
    BY <2>1, Joined DEF UpdateWorkflow
  <2>3. IsSeq(Get \o <<Read("step")>>)
    BY <2>1, Joined
  <2>4. QED
    BY <2>1, <2>3, <2>2, Joined DEF Describe
<1>3. ASSUME NEW i \in 1..4
      PROVE  InOrder("describe", Describe, i)
  <2>1. i = 1 \/ i = 2 \/ i = 3 \/ i = 4
    OBVIOUS
  <2>2. QED
    BY <1>1, <2>1 DEF InOrder, Renewing, Inserting, Retiring, Wiping, Looking, Leaves,
       Orderly, TakenBy, Getters, TableAt, Parts, Sweeps, Refuses,
       RunKinds, Deletes, Tables
<1>5. Starts("describe", Describe)
  BY <1>1 DEF Starts, Getters, Sweeps, Deletes, Tables, Cleared
<1>6. QED
  BY <1>1, <1>2, <1>3, <1>5 DEF Ordered

LEMMA DeleteFits ==
    Ordered("delete", DeleteWorkflow) /\ Starts("delete", DeleteWorkflow)
<1> USE DEF Need, Read, Some, One, Not, Clear, Drop, Change, Insert
<1>1. /\ Len(DeleteWorkflow) = 8
      /\ DeleteWorkflow[1] = Need("workflow")
      /\ DeleteWorkflow[2] = Clear("action")
      /\ DeleteWorkflow[3] = Clear("parameter")
      /\ DeleteWorkflow[4] = Clear("analysis")
      /\ DeleteWorkflow[5] = Clear("binding")
      /\ DeleteWorkflow[6] = Clear("template")
      /\ DeleteWorkflow[7] = Clear("step")
      /\ DeleteWorkflow[8] = Drop("workflow")
  BY DEF DeleteWorkflow, Dependents, Get
<1>2. IsSeq(DeleteWorkflow)
  <2>1. /\ IsSeq(Get)
        /\ IsSeq(Dependents)
        /\ IsSeq(<<Drop("workflow")>>)
    BY OneSeq, SixSeq DEF DeleteWorkflow, Dependents, Get
  <2>2. IsSeq(Get \o Dependents)
    BY <2>1, Joined
  <2>3. QED
    BY <2>1, <2>2, Joined DEF DeleteWorkflow
<1>3. ASSUME NEW i \in 1..8
      PROVE  InOrder("delete", DeleteWorkflow, i)
  <2>1. i = 1 \/ i = 2 \/ i = 3 \/ i = 4 \/ i = 5 \/ i = 6 \/ i = 7 \/ i = 8
    OBVIOUS
  <2>2. QED
    BY <1>1, <2>1 DEF InOrder, Renewing, Inserting, Retiring, Wiping, Looking, Leaves,
       Orderly, TakenBy, Getters, TableAt, Parts, Sweeps, Refuses,
       RunKinds, Deletes, Tables
<1>4. DOMAIN DeleteWorkflow = 1..8
  BY <1>1, <1>2 DEF IsSeq
<1>5. Starts("delete", DeleteWorkflow)
  BY <1>1, <1>4 DEF Starts, Getters, Sweeps, Deletes, Tables, Cleared
<1>6. QED
  BY <1>1, <1>2, <1>3, <1>5 DEF Ordered

LEMMA DeleteAllFits ==
    Ordered("delete_all", DeleteAll) /\ Starts("delete_all", DeleteAll)
<1> USE DEF Need, Read, Some, One, Not, Clear, Drop, Change, Insert
<1>1. /\ Len(DeleteAll) = 9
      /\ DeleteAll[1] = Need("workflow")
      /\ DeleteAll[2] = Not("workflow", "system")
      /\ DeleteAll[3] = Clear("action")
      /\ DeleteAll[4] = Clear("parameter")
      /\ DeleteAll[5] = Clear("analysis")
      /\ DeleteAll[6] = Clear("binding")
      /\ DeleteAll[7] = Clear("template")
      /\ DeleteAll[8] = Clear("step")
      /\ DeleteAll[9] = Drop("workflow")
  BY DEF DeleteAll, Dependents, Get
<1>2. IsSeq(DeleteAll)
  <2>1. /\ IsSeq(Get)
        /\ IsSeq(<<Not("workflow", "system")>>)
        /\ IsSeq(Dependents)
        /\ IsSeq(<<Drop("workflow")>>)
    BY OneSeq, SixSeq DEF DeleteAll, Dependents, Get
  <2>2. IsSeq(Get \o <<Not("workflow", "system")>>)
    BY <2>1, Joined
  <2>3. IsSeq(Get \o <<Not("workflow", "system")>> \o Dependents)
    BY <2>1, <2>2, Joined
  <2>4. QED
    BY <2>1, <2>3, Joined DEF DeleteAll
<1>3. ASSUME NEW i \in 1..9
      PROVE  InOrder("delete_all", DeleteAll, i)
  <2>1. i = 1 \/ i = 2 \/ i = 3 \/ i = 4 \/ i = 5 \/ i = 6 \/ i = 7 \/ i = 8 \/ i = 9
    OBVIOUS
  <2>2. QED
    BY <1>1, <2>1 DEF InOrder, Renewing, Inserting, Retiring, Wiping, Looking, Leaves,
       Orderly, TakenBy, Getters, TableAt, Parts, Sweeps, Refuses,
       RunKinds, Deletes, Tables
<1>4. DOMAIN DeleteAll = 1..9
  BY <1>1, <1>2 DEF IsSeq
<1>5. Starts("delete_all", DeleteAll)
  BY <1>1, <1>4 DEF Starts, Getters, Sweeps, Deletes, Tables, Cleared
<1>6. QED
  BY <1>1, <1>2, <1>3, <1>5 DEF Ordered

LEMMA AnalysisFits ==
    Ordered("edit_analysis", UpdateAnalysis) /\ Starts("edit_analysis", UpdateAnalysis)
<1> USE DEF Need, Read, Some, One, Not, Clear, Drop, Change, Insert
<1>1. /\ Len(UpdateAnalysis) = 2
      /\ UpdateAnalysis[1] = Need("analysis")
      /\ UpdateAnalysis[2] = Change("analysis", "version")
  BY DEF UpdateAnalysis
<1>2. IsSeq(UpdateAnalysis)
  BY TwoSeq DEF UpdateAnalysis
<1>3. ASSUME NEW i \in 1..2
      PROVE  InOrder("edit_analysis", UpdateAnalysis, i)
  <2>1. i = 1 \/ i = 2
    OBVIOUS
  <2>2. QED
    BY <1>1, <2>1 DEF InOrder, Renewing, Inserting, Retiring, Wiping, Looking, Leaves,
       Orderly, TakenBy, Getters, TableAt, Parts, Sweeps, Refuses,
       RunKinds, Deletes, Tables
<1>5. Starts("edit_analysis", UpdateAnalysis)
  BY <1>1 DEF Starts, Getters, Sweeps, Deletes, Tables, Cleared
<1>6. QED
  BY <1>1, <1>2, <1>3, <1>5 DEF Ordered

LEMMA ParameterFits ==
    Ordered("edit_parameter", UpdateParameter) /\ Starts("edit_parameter", UpdateParameter)
<1> USE DEF Need, Read, Some, One, Not, Clear, Drop, Change, Insert
<1>1. /\ Len(UpdateParameter) = 2
      /\ UpdateParameter[1] = Need("parameter")
      /\ UpdateParameter[2] = Change("parameter", "touch")
  BY DEF UpdateParameter
<1>2. IsSeq(UpdateParameter)
  BY TwoSeq DEF UpdateParameter
<1>3. ASSUME NEW i \in 1..2
      PROVE  InOrder("edit_parameter", UpdateParameter, i)
  <2>1. i = 1 \/ i = 2
    OBVIOUS
  <2>2. QED
    BY <1>1, <2>1 DEF InOrder, Renewing, Inserting, Retiring, Wiping, Looking, Leaves,
       Orderly, TakenBy, Getters, TableAt, Parts, Sweeps, Refuses,
       RunKinds, Deletes, Tables
<1>5. Starts("edit_parameter", UpdateParameter)
  BY <1>1 DEF Starts, Getters, Sweeps, Deletes, Tables, Cleared
<1>6. QED
  BY <1>1, <1>2, <1>3, <1>5 DEF Ordered

LEMMA BindFits ==
    Ordered("bind", SaveBinding) /\ Starts("bind", SaveBinding)
<1> USE DEF Need, Read, Some, One, Not, Clear, Drop, Change, Insert
<1>1. /\ Len(SaveBinding) = 3
      /\ SaveBinding[1] = Need("parameter")
      /\ SaveBinding[2] = One("binding")
      /\ SaveBinding[3] = <<"bind">>
  BY DEF SaveBinding, EnsureParameter
<1>2. IsSeq(SaveBinding)
  <2>1. /\ IsSeq(EnsureParameter)
        /\ IsSeq(<<One("binding"), <<"bind">>>>)
    BY OneSeq, TwoSeq DEF SaveBinding, EnsureParameter
  <2>2. QED
    BY <2>1, Joined DEF SaveBinding
<1>3. ASSUME NEW i \in 1..3
      PROVE  InOrder("bind", SaveBinding, i)
  <2>1. i = 1 \/ i = 2 \/ i = 3
    OBVIOUS
  <2>2. QED
    BY <1>1, <2>1 DEF InOrder, Renewing, Inserting, Retiring, Wiping, Looking, Leaves,
       Orderly, TakenBy, Getters, TableAt, Parts, Sweeps, Refuses,
       RunKinds, Deletes, Tables
<1>5. Starts("bind", SaveBinding)
  BY <1>1 DEF Starts, Getters, Sweeps, Deletes, Tables, Cleared
<1>6. QED
  BY <1>1, <1>2, <1>3, <1>5 DEF Ordered

LEMMA UnbindFits ==
    Ordered("unbind", DeleteBinding) /\ Starts("unbind", DeleteBinding)
<1> USE DEF Need, Read, Some, One, Not, Clear, Drop, Change, Insert
<1>1. /\ Len(DeleteBinding) = 2
      /\ DeleteBinding[1] = Need("binding")
      /\ DeleteBinding[2] = Drop("binding")
  BY DEF DeleteBinding
<1>2. IsSeq(DeleteBinding)
  BY TwoSeq DEF DeleteBinding
<1>3. ASSUME NEW i \in 1..2
      PROVE  InOrder("unbind", DeleteBinding, i)
  <2>1. i = 1 \/ i = 2
    OBVIOUS
  <2>2. QED
    BY <1>1, <2>1 DEF InOrder, Renewing, Inserting, Retiring, Wiping, Looking, Leaves,
       Orderly, TakenBy, Getters, TableAt, Parts, Sweeps, Refuses,
       RunKinds, Deletes, Tables
<1>5. Starts("unbind", DeleteBinding)
  BY <1>1 DEF Starts, Getters, Sweeps, Deletes, Tables, Cleared
<1>6. QED
  BY <1>1, <1>2, <1>3, <1>5 DEF Ordered

LEMMA RunFits ==
    Ordered("run", RunWorkflow) /\ Starts("run", RunWorkflow)
<1> USE DEF Need, Read, Some, One, Not, Clear, Drop, Change, Insert
<1>1. /\ Len(RunWorkflow) = 6
      /\ RunWorkflow[1] = Need("workflow")
      /\ RunWorkflow[2] = Some("step")
      /\ RunWorkflow[3] = Not("workflow", "archived")
      /\ RunWorkflow[4] = Need("workflow")
      /\ RunWorkflow[5] = Read("step")
      /\ RunWorkflow[6] = <<"create">>
  BY DEF RunWorkflow, Startable, CreateRun, Get
<1>2. IsSeq(RunWorkflow)
  <2>1. /\ IsSeq(Get)
        /\ IsSeq(<<Some("step"), Not("workflow", "archived")>>)
        /\ IsSeq(<<Read("step"), <<"create">>>>)
    BY OneSeq, TwoSeq DEF RunWorkflow, Startable, CreateRun, Get
  <2>2. IsSeq(Startable)
    BY <2>1, Joined DEF Startable
  <2>3. IsSeq(CreateRun)
    BY <2>1, Joined DEF CreateRun
  <2>4. QED
    BY <2>1, <2>2, <2>3, Joined DEF RunWorkflow
<1>3. ASSUME NEW i \in 1..6
      PROVE  InOrder("run", RunWorkflow, i)
  <2>1. i = 1 \/ i = 2 \/ i = 3 \/ i = 4 \/ i = 5 \/ i = 6
    OBVIOUS
  <2>2. QED
    BY <1>1, <2>1 DEF InOrder, Renewing, Inserting, Retiring, Wiping, Looking, Leaves,
       Orderly, TakenBy, Getters, TableAt, Parts, Sweeps, Refuses,
       RunKinds, Deletes, Tables
<1>5. Starts("run", RunWorkflow)
  BY <1>1 DEF Starts, Getters, Sweeps, Deletes, Tables, Cleared
<1>6. QED
  BY <1>1, <1>2, <1>3, <1>5 DEF Ordered

LEMMA RunWithFits ==
    Ordered("run_with", RunWithParams) /\ Starts("run_with", RunWithParams)
<1> USE DEF Need, Read, Some, One, Not, Clear, Drop, Change, Insert
<1>1. /\ Len(RunWithParams) = 6
      /\ RunWithParams[1] = Need("workflow")
      /\ RunWithParams[2] = Some("step")
      /\ RunWithParams[3] = Not("workflow", "archived")
      /\ RunWithParams[4] = One("analysis")
      /\ RunWithParams[5] = One("template")
      /\ RunWithParams[6] = <<"plan">>
  BY DEF RunWithParams, Startable, Get
<1>2. IsSeq(RunWithParams)
  <2>1. /\ IsSeq(Get)
        /\ IsSeq(<<Some("step"), Not("workflow", "archived")>>)
        /\ IsSeq(<<One("analysis"), One("template"), <<"plan">>>>)
    BY OneSeq, ThreeSeq, TwoSeq DEF RunWithParams, Startable, Get
  <2>2. IsSeq(Startable)
    BY <2>1, Joined DEF Startable
  <2>3. QED
    BY <2>1, <2>2, Joined DEF RunWithParams
<1>3. ASSUME NEW i \in 1..6
      PROVE  InOrder("run_with", RunWithParams, i)
  <2>1. i = 1 \/ i = 2 \/ i = 3 \/ i = 4 \/ i = 5 \/ i = 6
    OBVIOUS
  <2>2. QED
    BY <1>1, <2>1 DEF InOrder, Renewing, Inserting, Retiring, Wiping, Looking, Leaves,
       Orderly, TakenBy, Getters, TableAt, Parts, Sweeps, Refuses,
       RunKinds, Deletes, Tables
<1>5. Starts("run_with", RunWithParams)
  BY <1>1 DEF Starts, Getters, Sweeps, Deletes, Tables, Cleared
<1>6. QED
  BY <1>1, <1>2, <1>3, <1>5 DEF Ordered

LEMMA CreateFits ==
    Ordered("run_with", CreateRun)
<1> USE DEF Need, Read, Some, One, Not, Clear, Drop, Change, Insert
<1>1. /\ Len(CreateRun) = 3
      /\ CreateRun[1] = Need("workflow")
      /\ CreateRun[2] = Read("step")
      /\ CreateRun[3] = <<"create">>
  BY DEF CreateRun, Get
<1>2. IsSeq(CreateRun)
  <2>1. /\ IsSeq(Get)
        /\ IsSeq(<<Read("step"), <<"create">>>>)
    BY OneSeq, TwoSeq DEF CreateRun, Get
  <2>2. QED
    BY <2>1, Joined DEF CreateRun
<1>3. ASSUME NEW i \in 1..3
      PROVE  InOrder("run_with", CreateRun, i)
  <2>1. i = 1 \/ i = 2 \/ i = 3
    OBVIOUS
  <2>2. QED
    BY <1>1, <2>1 DEF InOrder, Renewing, Inserting, Retiring, Wiping, Looking, Leaves,
       Orderly, TakenBy, Getters, TableAt, Parts, Sweeps, Refuses,
       RunKinds, Deletes, Tables
<1>4. QED
  BY <1>1, <1>2, <1>3 DEF Ordered

LEMMA AdoptFits ==
    Ordered("run_with", <<<<"adopt">>>> \o CreateRun)
<1> DEFINE s == <<<<"adopt">>>> \o CreateRun
<1> USE DEF Need, Read, Some, One, Not, Clear, Drop, Change, Insert
<1>1. /\ Len(s) = 4
      /\ s[1] = <<"adopt">>
      /\ s[2] = Need("workflow")
      /\ s[3] = Read("step")
      /\ s[4] = <<"create">>
  BY DEF CreateRun, Get
<1>2. IsSeq(s)
  <2>1. /\ IsSeq(Get)
        /\ IsSeq(<<Read("step"), <<"create">>>>)
        /\ IsSeq(<<<<"adopt">>>>)
    BY OneSeq, TwoSeq DEF CreateRun, Get
  <2>2. IsSeq(CreateRun)
    BY <2>1, Joined DEF CreateRun
  <2>3. QED
    BY <2>1, <2>2, Joined
<1>3. ASSUME NEW i \in 1..4
      PROVE  InOrder("run_with", s, i)
  <2>1. i = 1 \/ i = 2 \/ i = 3 \/ i = 4
    OBVIOUS
  <2>2. QED
    BY <1>1, <2>1 DEF InOrder, Renewing, Inserting, Retiring, Wiping, Looking, Leaves,
       Orderly, TakenBy, Getters, TableAt, Parts, Sweeps, Refuses,
       RunKinds, Deletes, Tables
<1>4. QED
  BY <1>1, <1>2, <1>3 DEF Ordered

\* Statements of run-with-params of which nothing else is to be known.
LEMMA RunStatement ==
    ASSUME NEW p, NEW i,
           p[i][1] \in {"read", "one", "need", "adopt", "create"},
           i < Len(p) => /\ p[i + 1][1] \notin {"plan", "adopt", "insert"}
                         /\ Retiring(p[i + 1]) => Looking(p[i])
    PROVE  InOrder("run_with", p, i)
BY DEF InOrder, Orderly, TakenBy, Getters, Deletes, RunKinds, Renewing, Inserting, Retiring,
       Wiping, Looking

LEMMA GenerateFits ==
    Ordered("run_with", Generate)
<1> USE DEF Need, Read, Some, One, Not, Clear, Drop, Change, Insert
<1>1. /\ Len(Generate) = 5
      /\ Generate[1] = Read("step")
      /\ Generate[2] = One("template")
      /\ Generate[3] = Change("template", "retire")
      /\ Generate[4] = Insert("template")
      /\ Generate[5] = One("template")
  BY DEF Generate
<1>2. IsSeq(Generate)
  BY FiveSeq DEF Generate
<1>3. ASSUME NEW i \in 1..5
      PROVE  InOrder("run_with", Generate, i)
  <2>1. i = 1 \/ i = 2 \/ i = 3 \/ i = 4 \/ i = 5
    OBVIOUS
  <2>2. QED
    BY <1>1, <2>1 DEF InOrder, Renewing, Inserting, Retiring, Wiping, Looking, Leaves,
       Orderly, TakenBy, Getters, TableAt, Parts, Sweeps, Refuses,
       RunKinds, Deletes, Tables
<1>4. QED
  BY <1>1, <1>2, <1>3 DEF Ordered

LEMMA GenerateCreateFits ==
    Ordered("run_with", Generate \o CreateRun)
<1> DEFINE s == Generate \o CreateRun
<1> USE DEF Need, Read, Some, One, Not, Clear, Drop, Change, Insert
<1>1. /\ Len(s) = 8
      /\ s[1] = Read("step")
      /\ s[2] = One("template")
      /\ s[3] = Change("template", "retire")
      /\ s[4] = Insert("template")
      /\ s[5] = One("template")
      /\ s[6] = Need("workflow")
      /\ s[7] = Read("step")
      /\ s[8] = <<"create">>
  BY DEF Generate, CreateRun, Get
<1>2. IsSeq(s)
  <2>1. /\ IsSeq(Get)
        /\ IsSeq(<<Read("step"), <<"create">>>>)
        /\ IsSeq(Generate)
    BY FiveSeq, OneSeq, TwoSeq DEF Generate, CreateRun, Get
  <2>2. IsSeq(CreateRun)
    BY <2>1, Joined DEF CreateRun
  <2>3. QED
    BY <2>1, <2>2, Joined
<1>3. ASSUME NEW q, Len(q) = 8,
             q[1] = Read("step"),
             q[2] = One("template"),
             q[3] = Change("template", "retire"),
             q[4] = Insert("template"),
             q[5] = One("template"),
             q[6] = Need("workflow"),
             q[7] = Read("step"),
             q[8] = <<"create">>,
             NEW i \in 1..8
      PROVE  InOrder("run_with", q, i)
  <2>1. i = 1 \/ i = 2 \/ i = 3 \/ i = 4 \/ i = 5 \/ i = 6 \/ i = 7 \/ i = 8
    OBVIOUS
  <2>7. CASE i = 4
    BY <1>3, <2>7 DEF InOrder, Renewing, Inserting, Retiring, Wiping, Looking, Leaves,
       Orderly, TakenBy, Getters, TableAt, Parts, Sweeps, Refuses,
       RunKinds, Deletes, Tables
  <2>6. CASE i = 3
    BY <1>3, <2>6 DEF InOrder, Renewing, Inserting, Retiring, Wiping, Looking, Leaves, Orderly,
       TakenBy, Getters, TableAt, Parts, Sweeps, Refuses, RunKinds, Deletes, Tables
  <2>3. CASE i = 5
    BY <1>3, <2>3 DEF InOrder, Renewing, Inserting, Retiring, Wiping, Looking, Leaves,
       Orderly, TakenBy, Getters, TableAt, Parts, Sweeps, Refuses,
       RunKinds, Deletes, Tables
  <2>4. CASE i \notin {3, 4, 5}
    <3>1. q[i][1] \in {"read", "one", "need", "adopt", "create"}
      BY <1>3, <2>1, <2>4
    <3>2. i < Len(q) => q[i + 1][1] \notin {"plan", "adopt", "insert"}
      BY <1>3, <2>1, <2>4
    <3>3. i < Len(q) /\ Retiring(q[i + 1]) => Looking(q[i])
      BY <1>3, <2>1, <2>4 DEF Retiring, Looking
    <3>4. QED
      BY <3>1, <3>2, <3>3, RunStatement
  <2>5. QED
    BY <2>3, <2>4, <2>6, <2>7
<1>4. \A i \in 1..8 : InOrder("run_with", s, i)
  BY <1>1, <1>3
<1>5. QED
  BY <1>1, <1>2, <1>4 DEF Ordered

LEMMA GenerateAdoptFits ==
    Ordered("run_with", Generate \o (<<<<"adopt">>>> \o CreateRun))
<1> DEFINE s == Generate \o (<<<<"adopt">>>> \o CreateRun)
<1> USE DEF Need, Read, Some, One, Not, Clear, Drop, Change, Insert
<1>1. /\ Len(s) = 9
      /\ s[1] = Read("step")
      /\ s[2] = One("template")
      /\ s[3] = Change("template", "retire")
      /\ s[4] = Insert("template")
      /\ s[5] = One("template")
      /\ s[6] = <<"adopt">>
      /\ s[7] = Need("workflow")
      /\ s[8] = Read("step")
      /\ s[9] = <<"create">>
  BY DEF Generate, CreateRun, Get
<1>2. IsSeq(s)
  <2>1. /\ IsSeq(Get)
        /\ IsSeq(<<Read("step"), <<"create">>>>)
        /\ IsSeq(<<<<"adopt">>>>)
        /\ IsSeq(Generate)
    BY FiveSeq, OneSeq, TwoSeq DEF Generate, CreateRun, Get
  <2>2. IsSeq(CreateRun)
    BY <2>1, Joined DEF CreateRun
  <2>3. IsSeq((<<<<"adopt">>>> \o CreateRun))
    BY <2>1, <2>2, Joined
  <2>4. QED
    BY <2>1, <2>3, Joined
<1>3. ASSUME NEW q, Len(q) = 9,
             q[1] = Read("step"),
             q[2] = One("template"),
             q[3] = Change("template", "retire"),
             q[4] = Insert("template"),
             q[5] = One("template"),
             q[6] = <<"adopt">>,
             q[7] = Need("workflow"),
             q[8] = Read("step"),
             q[9] = <<"create">>,
             NEW i \in 1..9
      PROVE  InOrder("run_with", q, i)
  <2>1. i = 1 \/ i = 2 \/ i = 3 \/ i = 4 \/ i = 5 \/ i = 6 \/ i = 7 \/ i = 8 \/ i = 9
    OBVIOUS
  <2>7. CASE i = 4
    BY <1>3, <2>7 DEF InOrder, Renewing, Inserting, Retiring, Wiping, Looking, Leaves,
       Orderly, TakenBy, Getters, TableAt, Parts, Sweeps, Refuses,
       RunKinds, Deletes, Tables
  <2>6. CASE i = 3
    BY <1>3, <2>6 DEF InOrder, Renewing, Inserting, Retiring, Wiping, Looking, Leaves, Orderly,
       TakenBy, Getters, TableAt, Parts, Sweeps, Refuses, RunKinds, Deletes, Tables
  <2>3. CASE i = 5
    BY <1>3, <2>3 DEF InOrder, Renewing, Inserting, Retiring, Wiping, Looking, Leaves,
       Orderly, TakenBy, Getters, TableAt, Parts, Sweeps, Refuses,
       RunKinds, Deletes, Tables
  <2>4. CASE i \notin {3, 4, 5}
    <3>1. q[i][1] \in {"read", "one", "need", "adopt", "create"}
      BY <1>3, <2>1, <2>4
    <3>2. i < Len(q) => q[i + 1][1] \notin {"plan", "adopt", "insert"}
      BY <1>3, <2>1, <2>4
    <3>3. i < Len(q) /\ Retiring(q[i + 1]) => Looking(q[i])
      BY <1>3, <2>1, <2>4 DEF Retiring, Looking
    <3>4. QED
      BY <3>1, <3>2, <3>3, RunStatement
  <2>5. QED
    BY <2>3, <2>4, <2>6, <2>7
<1>4. \A i \in 1..9 : InOrder("run_with", s, i)
  BY <1>1, <1>3
<1>5. QED
  BY <1>1, <1>2, <1>4 DEF Ordered

LEMMA LearnStepsFits ==
    LET s == <<Read("step"), Read("parameter")>> \o <<StepStability, ParameterCounts>>
    IN  Ordered("end", s) /\ Starts("end", s)
<1> DEFINE s == <<Read("step"), Read("parameter")>> \o <<StepStability, ParameterCounts>>
<1> USE DEF Need, Read, Some, One, Not, Clear, Drop, Change, Insert
<1>1. /\ Len(s) = 4
      /\ s[1] = Read("step")
      /\ s[2] = Read("parameter")
      /\ s[3] = Change("step", "touch")
      /\ s[4] = Change("parameter", "touch")
  BY DEF StepStability, ParameterCounts
<1>2. IsSeq(s)
  <2>1. /\ IsSeq(<<Read("step"), Read("parameter")>>)
        /\ IsSeq(<<StepStability, ParameterCounts>>)
    BY TwoSeq DEF StepStability, ParameterCounts
  <2>2. QED
    BY <2>1, Joined
<1>3. ASSUME NEW i \in 1..4
      PROVE  InOrder("end", s, i)
  <2>1. i = 1 \/ i = 2 \/ i = 3 \/ i = 4
    OBVIOUS
  <2>2. QED
    BY <1>1, <2>1 DEF InOrder, Renewing, Inserting, Retiring, Wiping, Looking, Leaves,
       Orderly, TakenBy, Getters, TableAt, Parts, Sweeps, Refuses,
       RunKinds, Deletes, Tables
<1>5. Starts("end", s)
  BY <1>1 DEF Starts, Getters, Sweeps, Deletes, Tables, Cleared
<1>6. QED
  BY <1>1, <1>2, <1>3, <1>5 DEF Ordered

LEMMA AgentEndStepsFits ==
    LET s == (<<Read("step"), Read("parameter")>> \o <<StepStability, ParameterCounts>>) \o Evolve
    IN  Ordered("agent_end", s) /\ Starts("agent_end", s)
<1> DEFINE s == (<<Read("step"), Read("parameter")>> \o <<StepStability,
   ParameterCounts>>) \o Evolve
<1> USE DEF Need, Read, Some, One, Not, Clear, Drop, Change, Insert
<1>1. /\ Len(s) = 7
      /\ s[1] = Read("step")
      /\ s[2] = Read("parameter")
      /\ s[3] = Change("step", "touch")
      /\ s[4] = Change("parameter", "touch")
      /\ s[5] = Some("step")
      /\ s[6] = <<"pick", "step">>
      /\ s[7] = Change("step", "touch")
  BY DEF StepStability, ParameterCounts, Evolve
<1>2. IsSeq(s)
  <2>1. /\ IsSeq(<<Read("step"), Read("parameter")>>)
        /\ IsSeq(<<StepStability, ParameterCounts>>)
        /\ IsSeq(Evolve)
    BY ThreeSeq, TwoSeq DEF StepStability, ParameterCounts, Evolve
  <2>2. IsSeq(<<Read("step"), Read("parameter")>> \o <<StepStability, ParameterCounts>>)
    BY <2>1, Joined
  <2>3. QED
    BY <2>1, <2>2, Joined
<1>3. ASSUME NEW i \in 1..7
      PROVE  InOrder("agent_end", s, i)
  <2>1. i = 1 \/ i = 2 \/ i = 3 \/ i = 4 \/ i = 5 \/ i = 6 \/ i = 7
    OBVIOUS
  <2>2. QED
    BY <1>1, <2>1 DEF InOrder, Renewing, Inserting, Retiring, Wiping, Looking, Leaves,
       Orderly, TakenBy, Getters, TableAt, Parts, Sweeps, Refuses,
       RunKinds, Deletes, Tables
<1>5. Starts("agent_end", s)
  BY <1>1 DEF Starts, Getters, Sweeps, Deletes, Tables, Cleared
<1>6. QED
  BY <1>1, <1>2, <1>3, <1>5 DEF Ordered

LEMMA LearnParametersFits ==
    LET s == <<Read("step"), Read("parameter")>> \o <<ParameterCounts, StepStability>>
    IN  Ordered("end", s) /\ Starts("end", s)
<1> DEFINE s == <<Read("step"), Read("parameter")>> \o <<ParameterCounts, StepStability>>
<1> USE DEF Need, Read, Some, One, Not, Clear, Drop, Change, Insert
<1>1. /\ Len(s) = 4
      /\ s[1] = Read("step")
      /\ s[2] = Read("parameter")
      /\ s[3] = Change("parameter", "touch")
      /\ s[4] = Change("step", "touch")
  BY DEF StepStability, ParameterCounts
<1>2. IsSeq(s)
  <2>1. /\ IsSeq(<<Read("step"), Read("parameter")>>)
        /\ IsSeq(<<ParameterCounts, StepStability>>)
    BY TwoSeq DEF StepStability, ParameterCounts
  <2>2. QED
    BY <2>1, Joined
<1>3. ASSUME NEW i \in 1..4
      PROVE  InOrder("end", s, i)
  <2>1. i = 1 \/ i = 2 \/ i = 3 \/ i = 4
    OBVIOUS
  <2>2. QED
    BY <1>1, <2>1 DEF InOrder, Renewing, Inserting, Retiring, Wiping, Looking, Leaves,
       Orderly, TakenBy, Getters, TableAt, Parts, Sweeps, Refuses,
       RunKinds, Deletes, Tables
<1>5. Starts("end", s)
  BY <1>1 DEF Starts, Getters, Sweeps, Deletes, Tables, Cleared
<1>6. QED
  BY <1>1, <1>2, <1>3, <1>5 DEF Ordered

LEMMA AgentEndParametersFits ==
    LET s == (<<Read("step"), Read("parameter")>> \o <<ParameterCounts, StepStability>>) \o Evolve
    IN  Ordered("agent_end", s) /\ Starts("agent_end", s)
<1> DEFINE s == (<<Read("step"), Read("parameter")>> \o <<ParameterCounts,
   StepStability>>) \o Evolve
<1> USE DEF Need, Read, Some, One, Not, Clear, Drop, Change, Insert
<1>1. /\ Len(s) = 7
      /\ s[1] = Read("step")
      /\ s[2] = Read("parameter")
      /\ s[3] = Change("parameter", "touch")
      /\ s[4] = Change("step", "touch")
      /\ s[5] = Some("step")
      /\ s[6] = <<"pick", "step">>
      /\ s[7] = Change("step", "touch")
  BY DEF StepStability, ParameterCounts, Evolve
<1>2. IsSeq(s)
  <2>1. /\ IsSeq(<<Read("step"), Read("parameter")>>)
        /\ IsSeq(<<ParameterCounts, StepStability>>)
        /\ IsSeq(Evolve)
    BY ThreeSeq, TwoSeq DEF StepStability, ParameterCounts, Evolve
  <2>2. IsSeq(<<Read("step"), Read("parameter")>> \o <<ParameterCounts, StepStability>>)
    BY <2>1, Joined
  <2>3. QED
    BY <2>1, <2>2, Joined
<1>3. ASSUME NEW i \in 1..7
      PROVE  InOrder("agent_end", s, i)
  <2>1. i = 1 \/ i = 2 \/ i = 3 \/ i = 4 \/ i = 5 \/ i = 6 \/ i = 7
    OBVIOUS
  <2>2. QED
    BY <1>1, <2>1 DEF InOrder, Renewing, Inserting, Retiring, Wiping, Looking, Leaves,
       Orderly, TakenBy, Getters, TableAt, Parts, Sweeps, Refuses,
       RunKinds, Deletes, Tables
<1>5. Starts("agent_end", s)
  BY <1>1 DEF Starts, Getters, Sweeps, Deletes, Tables, Cleared
<1>6. QED
  BY <1>1, <1>2, <1>3, <1>5 DEF Ordered

LEMMA EvolveFits ==
    Ordered("agent_end", Evolve)
<1> USE DEF Need, Read, Some, One, Not, Clear, Drop, Change, Insert
<1>1. /\ Len(Evolve) = 3
      /\ Evolve[1] = Some("step")
      /\ Evolve[2] = <<"pick", "step">>
      /\ Evolve[3] = Change("step", "touch")
  BY DEF Evolve
<1>2. IsSeq(Evolve)
  BY ThreeSeq DEF Evolve
<1>3. ASSUME NEW i \in 1..3
      PROVE  InOrder("agent_end", Evolve, i)
  <2>1. i = 1 \/ i = 2 \/ i = 3
    OBVIOUS
  <2>2. QED
    BY <1>1, <2>1 DEF InOrder, Renewing, Inserting, Retiring, Wiping, Looking, Leaves,
       Orderly, TakenBy, Getters, TableAt, Parts, Sweeps, Refuses,
       RunKinds, Deletes, Tables
<1>4. QED
  BY <1>1, <1>2, <1>3 DEF Ordered

LEMMA BindingFits ==
    Ordered("bind", <<Insert("binding")>>)
<1> DEFINE s == <<Insert("binding")>>
<1> USE DEF Need, Read, Some, One, Not, Clear, Drop, Change, Insert
<1>1. /\ Len(s) = 1
      /\ s[1] = Insert("binding")
  BY DEF Insert
<1>2. IsSeq(s)
  BY OneSeq DEF Insert
<1>3. ASSUME NEW i \in 1..1
      PROVE  InOrder("bind", s, i)
  <2>1. i = 1
    OBVIOUS
  <2>2. QED
    BY <1>1, <2>1 DEF InOrder, Renewing, Inserting, Retiring, Wiping, Looking, Leaves,
       Orderly, TakenBy, Getters, TableAt, Parts, Sweeps, Refuses,
       RunKinds, Deletes, Tables
<1>4. QED
  BY <1>1, <1>2, <1>3 DEF Ordered

LEMMA RebindFits ==
    Ordered("bind", <<Change("binding", "touch")>>)
<1> DEFINE s == <<Change("binding", "touch")>>
<1> USE DEF Need, Read, Some, One, Not, Clear, Drop, Change, Insert
<1>1. /\ Len(s) = 1
      /\ s[1] = Change("binding", "touch")
  BY DEF Change
<1>2. IsSeq(s)
  BY OneSeq DEF Change
<1>3. ASSUME NEW i \in 1..1
      PROVE  InOrder("bind", s, i)
  <2>1. i = 1
    OBVIOUS
  <2>2. QED
    BY <1>1, <2>1 DEF InOrder, Renewing, Inserting, Retiring, Wiping, Looking, Leaves,
       Orderly, TakenBy, Getters, TableAt, Parts, Sweeps, Refuses,
       RunKinds, Deletes, Tables
<1>4. QED
  BY <1>1, <1>2, <1>3 DEF Ordered

LEMMA ProgramFits ==
    ASSUME NEW kind \in Kinds, NEW p \in Programs(kind)
    PROVE  Ordered(kind, p) /\ Starts(kind, p)
<1>1. CASE kind = "analyze"
  <2>1. p = Analyze
    BY <1>1 DEF Programs
  <2>2. QED
    BY <1>1, <2>1, AnalyzeFits
<1>2. CASE kind = "save"
  <2>1. p = Save
    BY <1>2 DEF Programs
  <2>2. QED
    BY <1>2, <2>1, SaveFits
<1>3. CASE kind = "add"
  <2>1. p = AddStep
    BY <1>3 DEF Programs
  <2>2. QED
    BY <1>3, <2>1, AddFits
<1>4. CASE kind = "edit"
  <2>1. p = UpdateStep
    BY <1>4 DEF Programs
  <2>2. QED
    BY <1>4, <2>1, EditFits
<1>5. CASE kind = "promote"
  <2>1. p = Promote
    BY <1>5 DEF Programs
  <2>2. QED
    BY <1>5, <2>1, PromoteFits
<1>6. CASE kind = "archive"
  <2>1. p = Archive
    BY <1>6 DEF Programs
  <2>2. QED
    BY <1>6, <2>1, ArchiveFits
<1>7. CASE kind = "describe"
  <2>1. p = Describe
    BY <1>7 DEF Programs
  <2>2. QED
    BY <1>7, <2>1, DescribeFits
<1>8. CASE kind = "delete"
  <2>1. p = DeleteWorkflow
    BY <1>8 DEF Programs
  <2>2. QED
    BY <1>8, <2>1, DeleteFits
<1>9. CASE kind = "delete_all"
  <2>1. p = DeleteAll
    BY <1>9 DEF Programs
  <2>2. QED
    BY <1>9, <2>1, DeleteAllFits
<1>10. CASE kind = "edit_analysis"
  <2>1. p = UpdateAnalysis
    BY <1>10 DEF Programs
  <2>2. QED
    BY <1>10, <2>1, AnalysisFits
<1>11. CASE kind = "edit_parameter"
  <2>1. p = UpdateParameter
    BY <1>11 DEF Programs
  <2>2. QED
    BY <1>11, <2>1, ParameterFits
<1>12. CASE kind = "bind"
  <2>1. p = SaveBinding
    BY <1>12 DEF Programs
  <2>2. QED
    BY <1>12, <2>1, BindFits
<1>13. CASE kind = "unbind"
  <2>1. p = DeleteBinding
    BY <1>13 DEF Programs
  <2>2. QED
    BY <1>13, <2>1, UnbindFits
<1>14. CASE kind = "run"
  <2>1. p = RunWorkflow
    BY <1>14 DEF Programs
  <2>2. QED
    BY <1>14, <2>1, RunFits
<1>15. CASE kind = "run_with"
  <2>1. p = RunWithParams
    BY <1>15 DEF Programs
  <2>2. QED
    BY <1>15, <2>1, RunWithFits
<1>16. CASE kind = "end"
  <2>1. p \in Learn
    BY <1>16 DEF Programs
  <2>2. \/ p = <<Read("step"), Read("parameter")>> \o <<StepStability, ParameterCounts>>
        \/ p = <<Read("step"), Read("parameter")>> \o <<ParameterCounts, StepStability>>
    BY <2>1 DEF Learn
  <2>3. QED
    BY <1>16, <2>2, LearnStepsFits, LearnParametersFits
<1>17. CASE kind = "agent_end"
  <2>1. p \in AgentEnd
    BY <1>17 DEF Programs
  <2>2. PICK learned \in Learn : p = learned \o Evolve
    BY <2>1 DEF AgentEnd
  <2>3. \/ learned = <<Read("step"), Read("parameter")>> \o <<StepStability, ParameterCounts>>
        \/ learned = <<Read("step"), Read("parameter")>> \o <<ParameterCounts, StepStability>>
    BY <2>2 DEF Learn
  <2>4. \/ p = (<<Read("step"), Read("parameter")>> \o <<StepStability, ParameterCounts>>)
                   \o Evolve
        \/ p = (<<Read("step"), Read("parameter")>> \o <<ParameterCounts, StepStability>>)
                   \o Evolve
    BY <2>2, <2>3
  <2>5. QED
    BY <1>17, <2>4, AgentEndStepsFits, AgentEndParametersFits
<1>18. QED
  BY <1>1, <1>2, <1>3, <1>4, <1>5, <1>6, <1>7, <1>8, <1>9, <1>10, <1>11, <1>12, <1>13, <1>14,
     <1>15, <1>16, <1>17, StoreAssumption

--------------------------------------------------------------------------------
\* What is left of a program after its first statement.
LEMMA TailFits ==
    ASSUME NEW kind, NEW p, Ordered(kind, p), p # <<>>
    PROVE  /\ Ordered(kind, Tail(p))
           /\ Len(p) \in Nat \ {0} /\ DOMAIN p = 1..Len(p) /\ InOrder(kind, p, 1)
           /\ Len(Tail(p)) = Len(p) - 1 /\ DOMAIN Tail(p) = 1..(Len(p) - 1)
           /\ \A i \in 1..(Len(p) - 1) : Tail(p)[i] = p[i + 1]
           /\ \A u : p[1] # Clear(u) /\ Cleared(Tail(p), u) => Cleared(p, u)
           /\ \A u : Cleared(p, u) => Cleared(Tail(p), u)
<1> DEFINE q == Tail(p)
<1>1. PICK S : p \in Seq(S)
  BY DEF Ordered, IsSeq
<1>2. /\ q \in Seq(S) /\ Len(p) \in Nat \ {0} /\ DOMAIN p = 1..Len(p)
      /\ Len(q) = Len(p) - 1 /\ DOMAIN q = 1..(Len(p) - 1)
      /\ \A i \in 1..(Len(p) - 1) : q[i] = p[i + 1]
  BY <1>1
<1> HIDE DEF q
<1>3. InOrder(kind, p, 1)
  BY <1>2 DEF Ordered
<1>4. ASSUME NEW i \in 1..(Len(p) - 1) PROVE InOrder(kind, q, i)
  <2>1. InOrder(kind, p, i + 1)
    BY <1>2 DEF Ordered
  <2>2. /\ q[i] = p[i + 1] /\ Len(q) - i = Len(p) - (i + 1)
        /\ Len(q) \in Nat /\ Len(q) < Len(p)
        /\ i < Len(q) => q[i + 1] = p[i + 1 + 1] /\ i + 1 < Len(p)
        /\ \A j \in (i + 1)..Len(q) : q[j] = p[j + 1] /\ j + 1 \in (i + 1 + 1)..Len(p)
    BY <1>2
  <2> DEFINE s == q[i]
  <2>3. s = p[i + 1]
    BY <2>2
  <2> HIDE DEF s
  <2>4. s[1] = "insert" =>
          /\ Len(q) - i + 1 \in 1..9 /\ s[2] = TableAt(kind, Len(q) - i + 1)
          /\ s = Insert(s[2])
    <3>1. Len(p) - (i + 1) + 1 = Len(q) - i + 1
      BY <2>2
    <3>2. QED
      BY <2>1, <2>3, <3>1 DEF InOrder
  <2>5. s[1] = "insert" /\ s[2] \in Parts /\ kind # "add" =>
          /\ Sweeps(kind, s[2])
          /\ \A j \in (i + 1)..Len(q) : q[j] # Clear(s[2]) /\ q[j][1] \notin Refuses
    <3>1. s[1] = "insert" /\ s[2] \in Parts /\ kind # "add" =>
            /\ Sweeps(kind, s[2])
            /\ \A j \in (i + 1 + 1)..Len(p) : p[j] # Clear(s[2]) /\ p[j][1] \notin Refuses
      BY <2>1, <2>3 DEF InOrder
    <3>2. QED
      BY <2>2, <3>1
  <2>6. s[1] \in {"clear"} => s = Clear(s[2])
    BY <2>1, <2>3 DEF InOrder
  <2>7. /\ s[1] \in {"plan", "adopt", "create"} => kind \in RunKinds
        /\ s[1] = "plan" => kind = "run_with"
        /\ s[1] = "bind" => kind = "bind"
        /\ s[1] = "change" /\ kind \in RunKinds => s[2] = "template"
    BY <2>1, <2>3 DEF InOrder
  <2>8. i < Len(q) /\ q[i + 1][1] \in {"plan", "adopt"} => s = One("template")
    BY <2>1, <2>2, <2>3 DEF InOrder
  <2>9. kind = "promote" =>
          /\ Len(q) <= 4
          /\ Len(q) - i = 3 => s = Need("workflow")
          /\ Len(q) - i \in {1, 2} => s[1] = "not"
          /\ Len(q) - i = 0 => s = Change("workflow", "system")
    BY <2>1, <2>2, <2>3 DEF InOrder
  <2>10. kind = "delete_all" =>
          /\ Len(q) - i = 8 => s = Need("workflow")
          /\ Len(q) - i = 7 => s = Not("workflow", "system")
    BY <2>1, <2>2, <2>3 DEF InOrder
  <2>11. Orderly(kind, s, Len(q) - i + 1)
    <3>1. Len(p) - (i + 1) + 1 = Len(q) - i + 1
      BY <2>2
    <3>2. QED
      BY <2>1, <2>3, <3>1 DEF InOrder
  <2>12. Renewing(kind, p, i + 1)
    BY <2>1 DEF InOrder
  <2>13. Inserting(s) =>
          /\ kind \in {"analyze", "run_with"}
          /\ \E j \in (i + 1)..Len(q) : Looking(q[j])
          /\ \A j \in (i + 1)..Len(q) :
                /\ Leaves(q[j])
                /\ Looking(q[j]) => \A k \in (i + 1)..j : q[k][1] \notin Refuses
    <3> SUFFICES ASSUME Inserting(s) PROVE
          /\ kind \in {"analyze", "run_with"}
          /\ \E j \in (i + 1)..Len(q) : Looking(q[j])
          /\ \A j \in (i + 1)..Len(q) :
                /\ Leaves(q[j])
                /\ Looking(q[j]) => \A k \in (i + 1)..j : q[k][1] \notin Refuses
      OBVIOUS
    <3>1. /\ kind \in {"analyze", "run_with"}
          /\ \E j \in (i + 1 + 1)..Len(p) : Looking(p[j])
          /\ \A j \in (i + 1 + 1)..Len(p) :
                /\ Leaves(p[j])
                /\ Looking(p[j]) => \A k \in (i + 1 + 1)..j : p[k][1] \notin Refuses
      BY <2>3, <2>12 DEF Renewing
    <3>2. \E j \in (i + 1)..Len(q) : Looking(q[j])
      <4>1. PICK j \in (i + 1 + 1)..Len(p) : Looking(p[j])
        BY <3>1
      <4>2. j - 1 \in (i + 1)..Len(q) /\ q[j - 1] = p[j]
        BY <1>2
      <4>3. QED
        BY <4>1, <4>2
    <3>3. ASSUME NEW j \in (i + 1)..Len(q), Looking(q[j]), NEW k \in (i + 1)..j
          PROVE  q[k][1] \notin Refuses
      <4>1. k + 1 \in (i + 1 + 1)..(j + 1) /\ q[k] = p[k + 1]
        BY <2>2
      <4>2. QED
        BY <2>2, <3>1, <3>3, <4>1
    <3>4. QED
      BY <2>2, <3>1, <3>2, <3>3
  <2>14. /\ Retiring(s) =>
              /\ kind = "run_with" /\ s[3] = "retire"
              /\ i < Len(q) /\ Inserting(q[i + 1])
         /\ i < Len(q) /\ Retiring(q[i + 1]) => Looking(s)
         /\ i < Len(q) /\ Inserting(q[i + 1]) /\ kind = "run_with" => Retiring(s)
         /\ s[1] = "drop" => s[2] # "template"
    <3>1. i + 1 < Len(p) <=> i < Len(q)
      BY <1>2
    <3>2. i < Len(q) => q[i + 1] = p[i + 1 + 1]
      BY <2>2
    <3>3. QED
      BY <2>3, <2>12, <3>1, <3>2 DEF Renewing
  <2>15. Wiping(s) =>
          \/ kind \in Deletes
          \/ kind = "analyze" /\ \E j \in (i + 1)..Len(q) : Inserting(q[j])
    <3>1. ASSUME NEW j \in (i + 1 + 1)..Len(p), Inserting(p[j])
          PROVE  \E k \in (i + 1)..Len(q) : Inserting(q[k])
      <4>1. j - 1 \in (i + 1)..Len(q) /\ q[j - 1] = p[j]
        BY <1>2
      <4>2. QED
        BY <3>1, <4>1
    <3>2. QED
      BY <2>3, <2>12, <3>1 DEF Renewing
  <2>16. Renewing(kind, q, i)
    BY <2>13, <2>14, <2>15 DEF s, Renewing
  <2>17. QED
    BY <2>4, <2>5, <2>6, <2>7, <2>8, <2>9, <2>10, <2>11, <2>16 DEF s, InOrder
<1>5. ASSUME NEW u, p[1] # Clear(u), Cleared(q, u) PROVE Cleared(p, u)
  <2>1. ASSUME NEW i \in DOMAIN p PROVE p[i] # Clear(u)
    <3>1. CASE i = 1
      BY <3>1, <1>5
    <3>2. CASE i # 1
      <4>1. i - 1 \in DOMAIN q /\ q[i - 1] = p[i]
        BY <3>2, <1>2
      <4>2. QED
        BY <4>1, <1>5 DEF Cleared
    <3>3. QED
      BY <3>1, <3>2
  <2>2. QED
    BY <2>1 DEF Cleared
<1>6. ASSUME NEW u, Cleared(p, u) PROVE Cleared(q, u)
  <2>1. \A i \in DOMAIN q : q[i] = p[i + 1] /\ i + 1 \in DOMAIN p
    BY <1>2
  <2>2. QED
    BY <2>1, <1>6 DEF Cleared
<1>7. Ordered(kind, q)
  BY <1>2, <1>4 DEF Ordered, IsSeq
<1>8. QED
  BY <1>2, <1>3, <1>5, <1>6, <1>7 DEF q

LEMMA NothingLeft == \A kind : Ordered(kind, <<>>)
<1>1. Len(<<>>) = 0
  OBVIOUS
<1>2. QED
  BY <1>1, NoSeq DEF Ordered

LEMMA OpenFits ==
    ASSUME IInv, NEW r \in Open
    PROVE  r \in Requests /\ r \in Nat \ {0} /\ tx[r].end = "open" /\ Good(r, tx[r])
BY Indexes DEF IInv, WInv, Open

LEMMA OpenTail ==
    ASSUME IInv, NEW r \in Open, NEW p, p = tx[r].todo, p # <<>>
    PROVE  /\ Ordered(tx[r].kind, Tail(p))
           /\ Len(p) \in Nat \ {0} /\ DOMAIN p = 1..Len(p) /\ InOrder(tx[r].kind, p, 1)
           /\ Len(Tail(p)) = Len(p) - 1 /\ DOMAIN Tail(p) = 1..(Len(p) - 1)
           /\ \A i \in 1..(Len(p) - 1) : Tail(p)[i] = p[i + 1]
           /\ \A u : p[1] # Clear(u) /\ Cleared(Tail(p), u) => Cleared(p, u)
           /\ \A u : Cleared(p, u) => Cleared(Tail(p), u)
           /\ Tail(p) = <<>> <=> Len(p) = 1
<1>1. Ordered(tx[r].kind, p)
  BY OpenFits DEF Good
<1>2. PICK S : p \in Seq(S)
  BY <1>1 DEF Ordered, IsSeq
<1>3. \A q \in Seq(S) : q = <<>> <=> Len(q) = 0
  OBVIOUS
<1>4. Tail(p) \in Seq(S) /\ Len(Tail(p)) = Len(p) - 1 /\ Len(p) \in Nat
  BY <1>2
<1>5. Tail(p) = <<>> <=> Len(p) = 1
  <2>1. Tail(p) = <<>> <=> Len(Tail(p)) = 0
    BY <1>3, <1>4, Zenon
  <2>2. QED
    BY <2>1, <1>4
<1>6. QED
  BY <1>1, <1>5, TailFits

\* The workflow is the row 1.
LEMMA WorkflowRow ==
    ASSUME IInv, NEW x, Genuine(x)
    PROVE  x.table = "workflow" <=> x.id = 1
<1>1. \A k \in Requests : k \in Nat \ {0}
  BY Indexes
<1>2. CASE x.by = 0 /\ x.id \in 1..6 /\ x.table = FirstTable(x.id)
  BY <1>2 DEF FirstTable
<1>3. CASE /\ x.by \in Requests /\ x.id \in (10 * x.by + 1)..(10 * x.by + 9)
           /\ x.table = TableAt(tx[x.by].kind, x.id - 10 * x.by)
  <2>1. x.id # 1
    BY <1>1, <1>3
  <2>2. x.table # "workflow"
    BY <1>3 DEF TableAt
  <2>3. QED
    BY <2>1, <2>2
<1>4. QED
  BY <1>2, <1>3 DEF Genuine

LEMMA VisibleFits ==
    ASSUME IInv, NEW r \in Open
    PROVE  /\ Rows(Visible(r))
           /\ \A x \in Visible(r) : x.by # r =>
                 \E y \in db : y.id = x.id /\ y.by = x.by /\ y.table = x.table
<1>1. RowsFit(r, tx[r]) /\ Rows(db) /\ tx[r].end = "open"
  BY OpenFits DEF IInv, WInv, Stored, Good
<1>2. IsFiniteSet({x \in db : x.id \notin tx[r].gone \cup IdsOf(tx[r].changed)})
  BY <1>1, FS_Subset DEF Rows
<1>3. IsFiniteSet(Visible(r))
  BY <1>1, <1>2, FS_Union DEF Visible, RowsFit, Rows
<1>4. \A x \in Visible(r) : Genuine(x)
  BY <1>1 DEF Visible, RowsFit, Rows
<1>5. ASSUME NEW x \in Visible(r), x.by # r
      PROVE  \E y \in db : y.id = x.id /\ y.by = x.by /\ y.table = x.table
  <2>1. CASE x \in db
    BY <2>1
  <2>2. CASE x \in tx[r].changed
    <3>1. PICK y \in db : y.id = x.id
      BY <1>1, <2>2 DEF RowsFit, IdsOf
    <3>2. QED
      BY <3>1, <1>1, <1>4, SameRow DEF Rows
  <2>3. QED
    BY <2>1, <2>2, <1>5, <1>1 DEF Visible, RowsFit
<1>6. QED
  BY <1>3, <1>4, <1>5 DEF Rows

LEMMA LoadedFits ==
    ASSUME IInv, NEW r \in Open, NEW u
    PROVE  /\ Rows(Loaded(r, u))
           /\ \A x \in Loaded(r, u) :
                 /\ x.table = u /\ (x \in tx[r].read \/ x \in Visible(r))
                 /\ \E y \in Visible(r) : y.id = x.id /\ y.by = x.by /\ y.table = u
<1> DEFINE Old(x) == {y \in tx[r].read : y.id = x.id}
           As(x) == IF Old(x) = {} THEN x ELSE CHOOSE y \in Old(x) : TRUE
           Found == {x \in In(Visible(r), u) : u = "template" => "active" \in x.on}
<1>1. Loaded(r, u) = {As(x) : x \in Found}
  BY DEF Loaded
<1>2. Rows(Visible(r)) /\ Rows(tx[r].read)
  BY VisibleFits, OpenFits DEF Good, RowsFit
<1>3. ASSUME NEW x \in Found
      PROVE  /\ As(x) \in tx[r].read \/ As(x) \in Visible(r)
             /\ As(x).id = x.id
  BY DEF In
<1>4. ASSUME NEW x \in Found
      PROVE  Genuine(As(x)) /\ As(x).by = x.by /\ As(x).table = u
  <2> DEFINE z == As(x)
  <2>1. z \in tx[r].read \/ z \in Visible(r)
    BY <1>3
  <2>2. z.id = x.id
    BY <1>3
  <2> HIDE DEF z
  <2>3. Genuine(z) /\ Genuine(x) /\ x.table = u
    BY <2>1, <1>2 DEF Rows, In
  <2>4. z.by = x.by /\ z.table = u
    BY <2>2, <2>3, SameRow
  <2>5. QED
    BY <2>3, <2>4 DEF z
<1>5. IsFiniteSet(Found)
  BY <1>2, FS_Subset DEF Rows, In
<1> HIDE DEF As
<1>6. IsFiniteSet({As(x) : x \in Found})
  <2> DEFINE f == [x \in Found |-> As(x)]
             T == {As(x) : x \in Found}
  <2>1. f \in [Found -> T] /\ \A y \in T : \E x \in Found : f[x] = y
    OBVIOUS
  <2>2. f \in Surjection(Found, T)
    BY <2>1 DEF Surjection
  <2>3. QED
    BY <2>2, <1>5, FS_Surjection
<1>7. QED
  BY <1>1, <1>3, <1>4, <1>6 DEF Rows, In
--------------------------------------------------------------------------------
LEMMA NoRows == Rows({}) /\ OnePiece({}) /\ System({}) /\ IdsOf({}) = {}
BY FS_EmptySet DEF Rows, OnePiece, System, IdsOf

\* A step that takes no rows and lets none go.
LEMMA Keeping ==
    ASSUME IInv, NEW r \in Open, NEW t, Becomes(r, t),
           t.kind = tx[r].kind, t.before = tx[r].before, t.end = "open", Good(r, t),
           t.gone = tx[r].gone, t.changed = tx[r].changed
    PROVE  IInv'
<1>1. \A o \in Open \ {r} : HeldBy(t) \cap HeldBy(tx[o]) = {}
  BY DEF IInv, WInv, Exclusive, HeldBy
<1>2. (\E p \in Requests : Promoted(p)) => System(t.changed)
  BY DEF IInv, WInv, SystemKept
<1>3. QED
  BY <1>1, <1>2, Becoming

LEMMA RolledFits ==
    ASSUME IInv, NEW r \in Open, Becomes(r, RolledBack(tx[r]))
    PROVE  IInv'
<1> DEFINE t == RolledBack(tx[r])
<1>1. Good(r, tx[r]) /\ tx[r].end = "open" /\ DOMAIN tx[r] = Fields
  BY OpenFits DEF Good, Shape
<1>2. /\ DOMAIN t = Fields /\ t.kind = tx[r].kind /\ t.before = tx[r].before
      /\ t.refused = tx[r].refused
      /\ t.new = {} /\ t.gone = {} /\ t.changed = {} /\ t.read = {} /\ t.aim = {}
      /\ t.plan = {} /\ t.run = {}
      /\ \/ t.end = "failed" /\ t.todo = <<>>
         \/ t.end = "open" /\ t.kind \in {"end", "agent_end"} /\ t.todo = <<>>
         \/ t.end = "open" /\ t.kind = "agent_end" /\ t.todo = Evolve
  BY <1>1 DEF RolledBack, Learning, Fields
<1>3. Becomes(r, t)
  OBVIOUS
<1> HIDE DEF t
<1>4. Shape(r, t)
  <2>1. t.refused => t.todo = <<>>
    <3>1. t.refused => tx[r].todo = <<>>
      BY <1>1, <1>2 DEF Good, Shape
    <3>2. tx[r].todo = <<>> => Len(tx[r].todo) = 0
      OBVIOUS
    <3>3. tx[r].todo = <<>> => t.todo = <<>>
      BY <3>2, <1>1 DEF t, RolledBack, Learning, Fields, Evolve
    <3>4. QED
      BY <3>1, <3>3
  <2>2. QED
    BY <2>1, <1>1, <1>2 DEF Good, Shape
<1>5. Ordered(t.kind, t.todo)
  BY <1>2, NothingLeft, EvolveFits
<1>6. RowsFit(r, t) /\ Whole(t)
  BY <1>2, NoRows DEF RowsFit, Whole
<1>7. Swept(r, t)
  BY <1>2 DEF Swept, Sweeps, Deletes
<1>8. Repeats(t)
  <2>1. Writers(t.read, "step") = {}
    BY <1>2 DEF Writers, In
  <2>2. Evolve[1][1] = "some"
    BY DEF Evolve, Some
  <2>3. QED
    BY <1>2, <2>1, <2>2, NoRows DEF Repeats
<1>9. Promotes(t) /\ Spares(t)
  BY <1>2 DEF Promotes, Spares
<1>10. HeldBy(t) = {}
  BY <1>2, NoRows DEF HeldBy
<1>11. Good(r, t)
  BY <1>4, <1>5, <1>6, <1>7, <1>8, <1>9 DEF Good
<1>12. QED
  BY <1>2, <1>3, <1>10, <1>11, NoRows, Becoming

LEMMA RefusedFits ==
    ASSUME IInv, NEW r \in Open, Becomes(r, Refused(tx[r])),
           tx[r].todo # <<>>, tx[r].todo[1][1] \in Refuses
    PROVE  IInv'
<1> DEFINE t == Refused(tx[r])
<1>1. Good(r, tx[r]) /\ tx[r].end = "open" /\ DOMAIN tx[r] = Fields
  BY OpenFits DEF Good, Shape
<1>2. /\ DOMAIN t = Fields /\ t.kind = tx[r].kind /\ t.before = tx[r].before
      /\ t.refused = TRUE /\ t.todo = <<>> /\ t.end = "open"
      /\ t.new = tx[r].new /\ t.gone = tx[r].gone /\ t.changed = tx[r].changed
      /\ t.read = tx[r].read /\ t.aim = tx[r].aim /\ t.plan = tx[r].plan /\ t.run = tx[r].run
  BY <1>1 DEF Refused, Fields
<1>3. Becomes(r, t)
  OBVIOUS
<1> HIDE DEF t
<1>4. Shape(r, t)
  BY <1>1, <1>2 DEF Good, Shape
<1>5. Ordered(t.kind, t.todo)
  BY <1>2, NothingLeft
<1>6. RowsFit(r, t)
  BY <1>1, <1>2 DEF Good, RowsFit
<1>7. 1 \in DOMAIN tx[r].todo
  <2> DEFINE p == tx[r].todo
  <2>1. p = tx[r].todo /\ p # <<>>
    OBVIOUS
  <2> HIDE DEF p
  <2>2. 1 \in DOMAIN p
    BY <2>1, OpenTail
  <2>3. QED
    BY <2>1, <2>2
<1>8. \A x \in t.new : ~(x.table \in Parts /\ t.kind # "add")
  BY <1>1, <1>2, <1>7 DEF Good, Whole
<1>9. Whole(t)
  BY <1>8 DEF Whole, Inserted
<1>10. Swept(r, t)
  BY <1>1, <1>2 DEF Good, Swept, Refuses
<1>11. Repeats(t) /\ Promotes(t) /\ Spares(t)
  BY <1>1, <1>2 DEF Good, Repeats, Promotes, Spares
<1>12. Good(r, t)
  BY <1>4, <1>5, <1>6, <1>9, <1>10, <1>11 DEF Good
<1>13. QED
  BY <1>2, <1>3, <1>12, Keeping

\* The statements that write nothing, once they have what they read.
Reads == {"read", "some", "one", "need", "not", "pick", "adopt", "create"}

LEMMA Reading ==
    ASSUME IInv, NEW r \in Open, NEW t, Becomes(r, t), tx[r].todo # <<>>,
           tx[r].todo[1][1] \in Reads,
           DOMAIN t = Fields, t.kind = tx[r].kind, t.before = tx[r].before,
           t.refused = tx[r].refused, t.todo = Tail(tx[r].todo), t.end = "open",
           t.new = tx[r].new, t.gone = tx[r].gone, t.changed = tx[r].changed,
           t.aim = tx[r].aim, OnePiece(t.plan), OnePiece(t.run), Rows(t.read),
           t.kind \in RunKinds => OnePiece(Writers(t.read, "step")),
           tx[r].todo[1] = One("template") => \A x, y \in In(t.read, "template") : x = y,
           t.kind = "promote" /\ ~t.refused => 1 \in IdsOf(t.read),
           Spares(t)
    PROVE  IInv'
<1> DEFINE p == tx[r].todo
<1>1. Good(r, tx[r]) /\ tx[r].end = "open"
  BY OpenFits
<1>3. p[1][1] \in Reads /\ p = tx[r].todo /\ p # <<>> /\ t.todo = Tail(p)
  OBVIOUS
<1> HIDE DEF p
<1>2. /\ Ordered(t.kind, t.todo) /\ InOrder(t.kind, p, 1)
      /\ Len(p) \in Nat \ {0} /\ Len(t.todo) = Len(p) - 1
      /\ DOMAIN t.todo = 1..(Len(p) - 1) /\ DOMAIN p = 1..Len(p)
      /\ \A i \in 1..(Len(p) - 1) : t.todo[i] = p[i + 1]
      /\ \A u : p[1] # Clear(u) /\ Cleared(t.todo, u) => Cleared(p, u)
      /\ \A u : Cleared(p, u) => Cleared(t.todo, u)
      /\ t.todo = <<>> <=> Len(p) = 1
  <2> DEFINE k == tx[r].kind
  <2>1. k = t.kind
    OBVIOUS
  <2>2. /\ Ordered(k, Tail(p)) /\ InOrder(k, p, 1)
        /\ Len(p) \in Nat \ {0} /\ Len(Tail(p)) = Len(p) - 1
        /\ DOMAIN Tail(p) = 1..(Len(p) - 1) /\ DOMAIN p = 1..Len(p)
        /\ \A i \in 1..(Len(p) - 1) : Tail(p)[i] = p[i + 1]
        /\ \A u : p[1] # Clear(u) /\ Cleared(Tail(p), u) => Cleared(p, u)
        /\ \A u : Cleared(p, u) => Cleared(Tail(p), u)
        /\ Tail(p) = <<>> <=> Len(p) = 1
    BY <1>3, OpenTail
  <2> HIDE DEF k
  <2>3. QED
    BY <1>3, <2>1, <2>2
<1>4. Shape(r, t) /\ RowsFit(r, t)
  BY <1>1, <1>3 DEF Good, Shape, RowsFit
<1>5. \A u : p[1] # Clear(u)
  BY <1>3 DEF Reads, Clear
<1>6. t.aim = {}
  BY <1>1, <1>3 DEF Good, Swept, Reads
<1>7. Swept(r, t)
  <2>1. \A u : Earlier(t, u) = Earlier(tx[r], u)
    BY DEF Earlier
  <2>2. ASSUME NEW u \in Tables, Sweeps(t.kind, u), ~t.refused, Cleared(t.todo, u)
        PROVE  IdsOf(Earlier(t, u)) \subseteq t.gone
    <3>1. Cleared(tx[r].todo, u)
      BY <1>2, <1>3, <1>5, <2>2
    <3>2. QED
      BY <3>1, <2>1, <2>2, <1>1 DEF Good, Swept
  <2>3. QED
    BY <2>2, <1>6 DEF Swept
<1>8. Whole(t)
  <2>1. \A i \in DOMAIN t.todo : t.todo[i] = p[i + 1] /\ i + 1 \in DOMAIN p
    BY <1>2
  <2>2. QED
    BY <2>1, <1>1, <1>2, <1>3 DEF Good, Whole, Inserted
<1>9. Repeats(t)
  <2>1. OnePiece(t.plan) /\ OnePiece(t.run)
    OBVIOUS
  <2>2. ASSUME t.todo # <<>>, t.todo[1][1] \in {"plan", "adopt"}
        PROVE  \A x, y \in In(t.read, "template") : x = y
    <3>1. Len(p) # 1
      BY <2>2, <1>2
    <3>2. 1 < Len(p) /\ p[1 + 1] = t.todo[1]
      BY <3>1, <1>2
    <3>3. p[1] = One("template")
      BY <2>2, <3>2, <1>2 DEF InOrder
    <3>4. QED
      BY <3>3, <1>3
  <2>3. QED
    BY <2>1, <2>2 DEF Repeats
<1>10. Promotes(t)
  <2> SUFFICES ASSUME t.kind = "promote", ~t.refused
               PROVE  t.todo # <<>> /\ 1 \in IdsOf(t.read)
    BY DEF Promotes
  <2>1. Len(p) # 1
    BY <1>2, <1>3 DEF InOrder, Change, Reads
  <2>2. t.todo # <<>>
    BY <2>1, <1>2
  <2>3. QED
    BY <2>2
<1>11. Good(r, t)
  BY <1>2, <1>4, <1>7, <1>8, <1>9, <1>10 DEF Good
<1>12. QED
  BY <1>11, Keeping
--------------------------------------------------------------------------------
\* The steps that read.

LEMMA OneOfOne ==
    ASSUME NEW S, IsFiniteSet(S), ~(Cardinality(S) > 1)
    PROVE  \A x, y \in S : x = y
<1> SUFFICES ASSUME NEW x \in S, NEW y \in S, x # y PROVE FALSE
  OBVIOUS
<1>1. IsFiniteSet({x}) /\ Cardinality({x}) = 1
  BY FS_Singleton
<1>2. IsFiniteSet({x} \cup {y}) /\ Cardinality({x} \cup {y}) = 2
  <2>1. y \notin {x}
    OBVIOUS
  <2>2. Cardinality({x} \cup {y}) = Cardinality({x}) + 1 /\ IsFiniteSet({x} \cup {y})
    BY <1>1, <2>1, FS_AddElement
  <2>3. QED
    BY <1>1, <2>2
<1>3. Cardinality({x} \cup {y}) <= Cardinality(S)
  BY FS_Subset
<1>4. Cardinality(S) \in Nat
  BY FS_CardinalityType
<1>5. QED
  BY <1>2, <1>3, <1>4

\* What is committed is of one piece.
LEMMA StoredPiece == ASSUME IInv PROVE OfOnePiece
<1> SUFFICES ASSUME NEW x \in db, NEW y \in db, x.table = y.table, x.table \in Parts,
                    x.by # y.by, \A s \in {x.by, y.by} \ {0} : tx[s].kind # "add"
             PROVE  Overlap(x.by, y.by)
  BY DEF OfOnePiece, Parts, In
<1>1. \A z \in db : z.by = 0 \/ z.by \in Requests
  BY DEF IInv, WInv, Stored, Rows, Genuine
<1>2. ASSUME NEW z \in {x, y}, NEW w \in {x, y}, z.by # 0
      PROVE  w.by \notin tx[z.by].before \cup {0}
  <2>1. z \in db /\ w \in db /\ z.table = x.table /\ w.table = x.table /\ tx[z.by].kind # "add"
    BY <1>2
  <2>2. z.by \in Requests /\ tx[z.by].end = "done" /\ Inserted(tx[z.by], z)
    BY <1>1, <1>2, <2>1 DEF IInv, WInv, Stored
  <2>3. Sweeps(tx[z.by].kind, z.table) /\ ~tx[z.by].refused
    BY <2>1, <2>2 DEF Inserted
  <2>4. Swept(z.by, tx[z.by])
    BY <2>2 DEF IInv, WInv, Good
  <2>5. Earlier(tx[z.by], z.table) = {}
    BY <2>1, <2>2, <2>3, <2>4 DEF Swept, Tables, Parts
  <2>6. QED
    BY <2>1, <2>5 DEF Earlier, In
<1>3. x.by # 0 \/ y.by # 0
  OBVIOUS
<1>4. x.by # 0 /\ y.by # 0
  BY <1>2, <1>3
<1>5. QED
  BY <1>1, <1>2, <1>4 DEF Overlap

LEMMA LoadedPiece ==
    ASSUME IInv, NEW r \in Open, tx[r].kind \in RunKinds
    PROVE  OnePiece(Writers(Loaded(r, "step"), "step"))
<1>1. Rows(db) /\ \A x \in db : x.by = 0 \/ x.by \in Requests
  BY DEF IInv, WInv, Stored, Rows, Genuine
<1>2. Rows(Visible(r)) /\ \A k \in Requests : k \in Nat \ {0}
  BY VisibleFits, Indexes
<1>3. ASSUME NEW a \in Writers(Loaded(r, "step"), "step")
      PROVE  \E x \in db : x.by = a /\ x.table = "step"
  <2>1. PICK z \in Loaded(r, "step") : z.by = a
    BY <1>3 DEF Writers, In
  <2>2. PICK y \in Visible(r) : y.by = a /\ y.table = "step"
    BY <2>1, LoadedFits
  <2>3. Genuine(y)
    BY <1>2, <2>2 DEF Rows
  <2>4. a # r
    BY <1>2, <2>2, <2>3, OpenFits DEF Genuine, TableAt, RunKinds
  <2>5. QED
    BY <2>2, <2>4, VisibleFits
<1>4. QED
  BY <1>1, <1>3, StoredPiece DEF OnePiece, OfOnePiece, In

\* How the bulk delete begins.
LEMMA DeleteAllBegins ==
    ASSUME NEW p, NEW n \in {8, 9}, n = Len(p)
    PROVE  InOrder("delete_all", p, 1) =>
              \/ n = 9 /\ p[1] = Need("workflow") /\ p[1][1] = "need"
              \/ n = 8 /\ p[1] = Not("workflow", "system") /\ p[1][1] = "not"
<1>1. InOrder("delete_all", p, 1) =>
        /\ n - 1 = 8 => p[1] = Need("workflow")
        /\ n - 1 = 7 => p[1] = Not("workflow", "system")
  BY DEF InOrder
<1>2. /\ p[1] = Need("workflow") => p[1][1] = "need"
      /\ p[1] = Not("workflow", "system") => p[1][1] = "not"
  BY DEF Need, Not
<1>3. n = 9 \/ n = 8
  OBVIOUS
<1>4. QED
  BY <1>1, <1>2, <1>3

\* No request writes another workflow.
LEMMA NewIds ==
    ASSUME IInv, NEW r \in Open, NEW x \in tx[r].new
    PROVE  x.by = r /\ Genuine(x) /\ x.id # 1 /\ x.table = TableAt(tx[r].kind, x.id - 10 * r)
<1>1. x.by = r /\ Genuine(x)
  BY OpenFits DEF Good, RowsFit, Rows
<1>2. r \in Nat \ {0}
  BY OpenFits
<1>3. x.id \in (10 * r + 1)..(10 * r + 9) /\ x.table = TableAt(tx[r].kind, x.id - 10 * r)
  BY <1>1, <1>2 DEF Genuine
<1>4. x.id # 1
  BY <1>2, <1>3
<1>5. QED
  BY <1>1, <1>3, <1>4

LEMMA LoadFits ==
    ASSUME IInv, NEW r \in Requests, Load(r)
    PROVE  IInv'
<1> DEFINE u == Table(r)
           rows == Loaded(r, u)
           t == [Past(r) EXCEPT !.read = {x \in @ : x.table # u} \cup rows]
<1>1. /\ r \in Open /\ tx[r].todo # <<>>
      /\ tx[r].todo[1][1] \in {"read", "some", "one", "need"}
  BY DEF Load, At
<1>2. \/ /\ tx[r].todo[1][1] \in {"one", "need"} /\ Cardinality(rows) > 1
         /\ Becomes(r, RolledBack(tx[r]))
      \/ /\ tx[r].todo[1][1] \in {"some", "need"} /\ rows = {} /\ Becomes(r, Refused(tx[r]))
      \/ /\ tx[r].todo[1][1] \in {"one", "need"} => ~(Cardinality(rows) > 1)
         /\ tx[r].todo[1][1] \in {"some", "need"} => rows # {}
         /\ Becomes(r, t)
  BY <1>1 DEF Load, At
<1>3. CASE Becomes(r, RolledBack(tx[r]))
  BY <1>1, <1>3, RolledFits
<1>4. CASE tx[r].todo[1][1] \in {"some", "need"} /\ Becomes(r, Refused(tx[r]))
  <2>1. tx[r].todo[1][1] \in Refuses
    BY <1>4 DEF Refuses
  <2>2. QED
    BY <1>1, <1>4, <2>1, RefusedFits
<1>5. CASE /\ tx[r].todo[1][1] \in {"one", "need"} => ~(Cardinality(rows) > 1)
           /\ tx[r].todo[1][1] \in {"some", "need"} => rows # {}
           /\ Becomes(r, t)
  <2>1. Good(r, tx[r]) /\ tx[r].end = "open" /\ DOMAIN tx[r] = Fields
    BY <1>1, OpenFits DEF Good, Shape
  <2>2. /\ DOMAIN t = Fields /\ t.kind = tx[r].kind /\ t.before = tx[r].before
        /\ t.refused = tx[r].refused /\ t.todo = Tail(tx[r].todo) /\ t.end = "open"
        /\ t.new = tx[r].new /\ t.gone = tx[r].gone /\ t.changed = tx[r].changed
        /\ t.aim = tx[r].aim /\ t.plan = tx[r].plan /\ t.run = tx[r].run
        /\ t.read = {x \in tx[r].read : x.table # u} \cup rows
    BY <2>1 DEF Past, Fields
  <2>3. Becomes(r, t)
    BY <1>5
  <2> HIDE DEF t
  <2>4. Rows(rows) /\ \A x \in rows : x.table = u
    BY <1>1, LoadedFits
  <2>5. Rows(t.read)
    <3>1. Rows(tx[r].read)
      BY <2>1 DEF Good, RowsFit
    <3>2. IsFiniteSet({x \in tx[r].read : x.table # u})
      BY <3>1, FS_Subset DEF Rows
    <3>3. IsFiniteSet(t.read)
      <4>1. IsFiniteSet(rows)
        BY <2>4 DEF Rows
      <4>2. IsFiniteSet({x \in tx[r].read : x.table # u} \cup rows)
        BY <3>2, <4>1, FS_Union
      <4>3. QED
        BY <2>2, <4>2
    <3>4. QED
      BY <2>2, <2>4, <3>1, <3>3 DEF Rows
  <2>6. ASSUME t.kind \in RunKinds PROVE OnePiece(Writers(t.read, "step"))
    <3>1. CASE u = "step"
      <4>1. In(t.read, "step") = In(rows, "step")
        BY <3>1, <2>2 DEF In
      <4>2. QED
        BY <4>1, <3>1, <2>6, <2>2, <1>1, LoadedPiece DEF Writers
    <3>2. CASE u # "step"
      <4>1. In(t.read, "step") = In(tx[r].read, "step")
        BY <3>2, <2>2, <2>4 DEF In
      <4>2. QED
        BY <4>1, <2>6, <2>1, <2>2 DEF Writers, Good, Repeats
    <3>3. QED
      BY <3>1, <3>2
  <2>7. ASSUME tx[r].todo[1] = One("template")
        PROVE  \A x, y \in In(t.read, "template") : x = y
    <3>1. u = "template" /\ ~(Cardinality(rows) > 1)
      BY <2>7, <1>5 DEF One, Table
    <3>2. In(t.read, "template") = rows
      BY <3>1, <2>2, <2>4 DEF In
    <3>3. QED
      BY <3>1, <3>2, <2>4, OneOfOne DEF Rows
  <2>8. /\ InOrder(tx[r].kind, tx[r].todo, 1) /\ Len(tx[r].todo) \in Nat \ {0}
        /\ Len(t.todo) = Len(tx[r].todo) - 1
    <3> DEFINE p == tx[r].todo
    <3>1. p = tx[r].todo /\ p # <<>>
      BY <1>1
    <3> HIDE DEF p
    <3>2. InOrder(tx[r].kind, p, 1) /\ Len(p) \in Nat \ {0} /\ Len(Tail(p)) = Len(p) - 1
      BY <1>1, <3>1, OpenTail
    <3>3. QED
      BY <3>1, <3>2, <2>2
  <2>9. ASSUME u = "workflow", rows # {}
        PROVE  1 \in IdsOf(t.read)
    <3>1. PICK x \in rows : x.table = "workflow"
      BY <2>9, <2>4
    <3>2. x.id = 1
      BY <3>1, <2>4, WorkflowRow DEF Rows
    <3>3. QED
      BY <3>1, <3>2, <2>2 DEF IdsOf
  <2>10. ASSUME t.kind = "promote" PROVE 1 \in IdsOf(t.read)
    <3>1. tx[r].todo[1] = Need("workflow")
      <4> DEFINE left == tx[r].todo
                 n == Len(left)
                 op == left[1][1]
      <4>1. /\ InOrder("promote", left, 1) /\ n \in Nat \ {0}
            /\ op \in {"read", "some", "one", "need"}
        BY <2>8, <2>10, <2>2, <1>1
      <4>2. /\ n <= 4
            /\ n - 1 = 3 => left[1] = Need("workflow")
            /\ n - 1 \in {1, 2} => op = "not"
            /\ n - 1 = 0 => op = "change"
        BY <4>1 DEF InOrder, Change
      <4> HIDE DEF op, n
      <4>3. n \in {1, 2, 3, 4}
        BY <4>1, <4>2
      <4>4. n = 4
        BY <4>1, <4>2, <4>3
      <4>5. QED
        BY <4>2, <4>4
    <3>2. u = "workflow" /\ rows # {}
      BY <3>1, <1>5 DEF Need, Table
    <3>3. QED
      BY <3>2, <2>9
  <2>11. Spares(t)
    <3> SUFFICES ASSUME t.kind = "delete_all", NEW p \in t.before, Promoted(p)
                 PROVE  /\ t.gone = {}
                        /\ Len(t.todo) = 8 /\ 1 \in IdsOf(t.read) /\ System(t.read)
      BY DEF Spares
    <3>1. Spares(tx[r]) /\ p \in tx[r].before /\ tx[r].kind = "delete_all"
      BY <2>1, <2>2 DEF Good
    <3>2. /\ tx[r].gone = {}
          /\ \/ Len(tx[r].todo) = 9 /\ tx[r].read = {}
             \/ Len(tx[r].todo) = 8
      BY <3>1, <2>1, <1>1 DEF Spares
    <3>3. Len(tx[r].todo) = 9 /\ tx[r].todo[1] = Need("workflow") /\ tx[r].todo[1][1] = "need"
      <4>1. InOrder("delete_all", tx[r].todo, 1)
        BY <2>8, <3>1
      <4>2. Len(tx[r].todo) \in {8, 9}
        BY <3>2
      <4>3. tx[r].todo[1][1] # "not"
        BY <1>1
      <4>4. \/ Len(tx[r].todo) = 9 /\ tx[r].todo[1] = Need("workflow") /\ tx[r].todo[1][1] = "need"
            \/ tx[r].todo[1][1] = "not"
        BY <4>1, <4>2, DeleteAllBegins
      <4>5. QED
        BY <4>3, <4>4
    <3>5. u = "workflow" /\ rows # {}
      <4>1. rows # {}
        BY <3>3, <1>5
      <4>2. u = "workflow"
        BY <3>3 DEF Need, Table
      <4>3. QED
        BY <4>1, <4>2
    <3>6. p \in Requests
      BY <2>1, <3>1 DEF Good, Shape, Ended
    <3>7. System(db) /\ System(tx[r].changed)
      BY <3>6, <1>1 DEF IInv, WInv, SystemKept
    <3>8. \A x \in tx[r].new : x.id # 1
      BY <1>1, NewIds
    <3>9. System(Visible(r))
      BY <3>7, <3>8 DEF System, Visible
    <3>10. tx[r].read = {} /\ Len(t.todo) = 8
      <4>1. Len(t.todo) = 9 - 1
        BY <3>3, <2>8
      <4>2. Len(t.todo) = 8
        BY <4>1
      <4>3. Len(tx[r].todo) # 8
        BY <3>3
      <4>4. QED
        BY <4>2, <4>3, <3>2
    <3>11. System(rows)
      <4>1. \A x \in rows : x \in Visible(r)
        BY <3>10, <1>1, LoadedFits
      <4>2. QED
        BY <4>1, <3>9 DEF System
    <3>12. t.read = rows
      BY <3>10, <2>2
    <3>13. QED
      BY <3>2, <3>5, <3>10, <3>11, <3>12, <2>2, <2>9
  <2>12. tx[r].todo[1][1] \in Reads
    BY <1>1 DEF Reads
  <2>13. OnePiece(t.plan) /\ OnePiece(t.run)
    BY <2>1, <2>2 DEF Good, Repeats
  <2>14. QED
    BY <1>1, <2>2, <2>3, <2>5, <2>6, <2>7, <2>10, <2>11, <2>12, <2>13, Reading
<1>6. QED
  BY <1>2, <1>3, <1>4, <1>5

\* What a request of a kind may have to do next, when it promotes a workflow.
LEMMA PromoteNext ==
    ASSUME IInv, NEW r \in Open, tx[r].kind = "promote", tx[r].todo # <<>>
    PROVE  \/ Len(tx[r].todo) = 4 /\ tx[r].todo[1][1] = "need"
           \/ Len(tx[r].todo) \in {2, 3} /\ tx[r].todo[1][1] = "not"
           \/ Len(tx[r].todo) = 1 /\ tx[r].todo[1] = Change("workflow", "system")
<1> DEFINE left == tx[r].todo
           n == Len(left)
<1>1. left = tx[r].todo /\ left # <<>>
  OBVIOUS
<1> HIDE DEF left
<1>2. n \in Nat \ {0} /\ InOrder("promote", left, 1)
  BY <1>1, OpenTail
<1>3. /\ n <= 4
      /\ n - 1 = 3 => left[1][1] = "need"
      /\ n - 1 \in {1, 2} => left[1][1] = "not"
      /\ n - 1 = 0 => left[1] = Change("workflow", "system")
  BY <1>2 DEF InOrder, Need
<1> HIDE DEF n
<1>4. n \in {1, 2, 3, 4}
  BY <1>2, <1>3
<1>5. \/ n = 4 /\ left[1][1] = "need"
      \/ n \in {2, 3} /\ left[1][1] = "not"
      \/ n = 1 /\ left[1] = Change("workflow", "system")
  BY <1>3, <1>4
<1>6. QED
  BY <1>1, <1>5 DEF n

\* A promoted workflow keeps the bulk delete at its first two statements.
Spared(r) == tx[r].kind = "delete_all" /\ \E p \in tx[r].before : Promoted(p)

LEMMA SparedNext ==
    ASSUME IInv, NEW r \in Open, Spared(r), tx[r].todo # <<>>
    PROVE  /\ tx[r].gone = {}
           /\ \/ tx[r].todo[1][1] = "need"
              \/ /\ tx[r].todo[1] = Not("workflow", "system")
                 /\ 1 \in IdsOf(tx[r].read) /\ System(tx[r].read)
<1> DEFINE left == tx[r].todo
           n == Len(left)
<1>1. left = tx[r].todo /\ left # <<>>
  OBVIOUS
<1> HIDE DEF left
<1>2. tx[r].kind = "delete_all" /\ InOrder("delete_all", left, 1)
  BY <1>1, OpenTail DEF Spared
<1>3. Spares(tx[r]) /\ tx[r].end = "open"
  BY OpenFits DEF Good
<1>4. /\ tx[r].gone = {} /\ n \in {8, 9}
      /\ n = 8 => 1 \in IdsOf(tx[r].read) /\ System(tx[r].read)
  <2>1. \E p \in tx[r].before : Promoted(p)
    BY DEF Spared
  <2>2. /\ tx[r].gone = {}
        /\ \/ tx[r].todo = <<>>
           \/ Len(tx[r].todo) = 9
           \/ Len(tx[r].todo) = 8 /\ 1 \in IdsOf(tx[r].read) /\ System(tx[r].read)
    BY <1>2, <1>3, <2>1 DEF Spares
  <2>3. \/ Len(left) = 9
        \/ Len(left) = 8 /\ 1 \in IdsOf(tx[r].read) /\ System(tx[r].read)
    BY <1>1, <2>2
  <2>4. n = 9 \/ n = 8
    BY <2>3
  <2>5. n = 9 => n # 8
    OBVIOUS
  <2> HIDE DEF n
  <2>6. n \in {8, 9}
    BY <2>4
  <2>7. n = 8 => 1 \in IdsOf(tx[r].read) /\ System(tx[r].read)
    BY <2>3, <2>5 DEF n
  <2>8. QED
    BY <2>2, <2>6, <2>7
<1> HIDE DEF n
<1>5. \/ n = 9 /\ left[1] = Need("workflow") /\ left[1][1] = "need"
      \/ n = 8 /\ left[1] = Not("workflow", "system") /\ left[1][1] = "not"
  BY <1>2, <1>4, DeleteAllBegins DEF n
<1>6. QED
  BY <1>1, <1>4, <1>5

LEMMA DecideFits ==
    ASSUME IInv, NEW r \in Requests, Decide(r)
    PROVE  IInv'
<1> DEFINE t == Past(r)
<1>1. /\ r \in Open /\ tx[r].todo # <<>> /\ tx[r].todo[1][1] = "not"
      /\ \/ Becomes(r, Refused(tx[r]))
         \/ /\ ~(\E x \in In(tx[r].read, tx[r].todo[1][2]) : tx[r].todo[1][3] \in x.on)
            /\ Becomes(r, t)
  BY DEF Decide, At, Table
<1>2. CASE Becomes(r, Refused(tx[r]))
  BY <1>1, <1>2, RefusedFits DEF Refuses
<1>3. CASE /\ ~(\E x \in In(tx[r].read, tx[r].todo[1][2]) : tx[r].todo[1][3] \in x.on)
           /\ Becomes(r, t)
  <2>1. Good(r, tx[r]) /\ tx[r].end = "open" /\ DOMAIN tx[r] = Fields
    BY <1>1, OpenFits DEF Good, Shape
  <2>2. /\ DOMAIN t = Fields /\ t.kind = tx[r].kind /\ t.before = tx[r].before
        /\ t.refused = tx[r].refused /\ t.todo = Tail(tx[r].todo) /\ t.end = "open"
        /\ t.new = tx[r].new /\ t.gone = tx[r].gone /\ t.changed = tx[r].changed
        /\ t.aim = tx[r].aim /\ t.plan = tx[r].plan /\ t.run = tx[r].run
        /\ t.read = tx[r].read
    BY <2>1 DEF Past, Fields
  <2>3. Becomes(r, t)
    BY <1>3
  <2> HIDE DEF t
  <2>4. Rows(t.read) /\ OnePiece(t.plan) /\ OnePiece(t.run)
    BY <2>1, <2>2 DEF Good, RowsFit, Repeats
  <2>5. t.kind \in RunKinds => OnePiece(Writers(t.read, "step"))
    BY <2>1, <2>2 DEF Good, Repeats
  <2>6. tx[r].todo[1] # One("template")
    BY <1>1 DEF One
  <2>7. ASSUME t.kind = "promote", ~t.refused PROVE 1 \in IdsOf(t.read)
    <3>1. \/ Len(tx[r].todo) \in {2, 3} /\ tx[r].todo[1][1] = "not"
          \/ tx[r].todo[1] = Change("workflow", "system")
          \/ tx[r].todo[1][1] = "need"
      BY <1>1, <2>2, <2>7, PromoteNext
    <3>2. Len(tx[r].todo) \in {2, 3}
      BY <1>1, <3>1 DEF Change
    <3>3. Len(tx[r].todo) < 4
      <4>1. \A k \in {2, 3} : k < 4
        OBVIOUS
      <4>2. QED
        BY <4>1, <3>2
    <3>4. Promotes(tx[r]) /\ tx[r].kind = "promote" /\ ~tx[r].refused
      BY <2>1, <2>2, <2>7 DEF Good
    <3>5. 1 \in IdsOf(tx[r].read)
      BY <3>3, <3>4, <2>1, <1>1 DEF Promotes
    <3>6. QED
      BY <3>5, <2>2
  <2>8. ~Spared(r)
    <3> SUFFICES ASSUME Spared(r) PROVE FALSE
      OBVIOUS
    <3>1. /\ tx[r].todo[1] = Not("workflow", "system")
          /\ 1 \in IdsOf(tx[r].read) /\ System(tx[r].read)
      BY <1>1, SparedNext
    <3>2. PICK x \in tx[r].read : x.id = 1
      BY <3>1 DEF IdsOf
    <3>3. x.table = "workflow" /\ "system" \in x.on
      BY <3>1, <3>2, <2>2, <2>4, WorkflowRow DEF Rows, System
    <3>4. QED
      BY <3>1, <3>2, <3>3, <1>3 DEF Not, In
  <2>9. Spares(t)
    BY <2>2, <2>8 DEF Spares, Spared
  <2>10. tx[r].todo[1][1] \in Reads
    BY <1>1 DEF Reads
  <2>11. QED
    BY <1>1, <2>2, <2>3, <2>4, <2>5, <2>6, <2>7, <2>9, <2>10, Reading
<1>4. QED
  BY <1>1, <1>2, <1>3

LEMMA PieceOf ==
    ASSUME NEW S, NEW T, T \subseteq S, OnePiece(S)
    PROVE  OnePiece(T)
BY DEF OnePiece

LEMMA PickFits ==
    ASSUME IInv, NEW r \in Requests, Pick(r)
    PROVE  IInv'
<1>1. /\ r \in Open /\ tx[r].todo # <<>> /\ tx[r].todo[1][1] = "pick"
      /\ \/ Becomes(r, Refused(tx[r]))
         \/ \E x \in In(tx[r].read, Table(r)) :
               Becomes(r, [Past(r) EXCEPT !.read = {y \in @ : y.table = Table(r) => y = x}])
  BY DEF Pick, At
<1>2. CASE Becomes(r, Refused(tx[r]))
  BY <1>1, <1>2, RefusedFits DEF Refuses
<1>3. ASSUME NEW x \in In(tx[r].read, Table(r)),
             Becomes(r, [Past(r) EXCEPT !.read = {y \in @ : y.table = Table(r) => y = x}])
      PROVE  IInv'
  <2> DEFINE t == [Past(r) EXCEPT !.read = {y \in @ : y.table = Table(r) => y = x}]
  <2>1. Good(r, tx[r]) /\ tx[r].end = "open" /\ DOMAIN tx[r] = Fields
    BY <1>1, OpenFits DEF Good, Shape
  <2>2. /\ DOMAIN t = Fields /\ t.kind = tx[r].kind /\ t.before = tx[r].before
        /\ t.refused = tx[r].refused /\ t.todo = Tail(tx[r].todo) /\ t.end = "open"
        /\ t.new = tx[r].new /\ t.gone = tx[r].gone /\ t.changed = tx[r].changed
        /\ t.aim = tx[r].aim /\ t.plan = tx[r].plan /\ t.run = tx[r].run
        /\ t.read \subseteq tx[r].read
    BY <2>1 DEF Past, Fields
  <2>3. Becomes(r, t)
    BY <1>3
  <2> HIDE DEF t
  <2>4. Rows(t.read) /\ OnePiece(t.plan) /\ OnePiece(t.run)
    BY <2>1, <2>2, FS_Subset DEF Good, RowsFit, Repeats, Rows
  <2>5. t.kind \in RunKinds => OnePiece(Writers(t.read, "step"))
    <3>1. Writers(t.read, "step") \subseteq Writers(tx[r].read, "step")
      BY <2>2 DEF Writers, In
    <3>2. QED
      BY <3>1, <2>1, <2>2, PieceOf DEF Good, Repeats
  <2>6. tx[r].todo[1] # One("template")
    BY <1>1 DEF One
  <2>7. t.kind # "promote"
    BY <1>1, <2>2, PromoteNext DEF Change
  <2>8. ~Spared(r)
    BY <1>1, SparedNext DEF Not
  <2>9. Spares(t)
    BY <2>2, <2>8 DEF Spares, Spared
  <2>10. tx[r].todo[1][1] \in Reads
    BY <1>1 DEF Reads
  <2>11. QED
    BY <1>1, <2>2, <2>3, <2>4, <2>5, <2>6, <2>7, <2>9, <2>10, Reading
<1>4. QED
  BY <1>1, <1>2, <1>3
--------------------------------------------------------------------------------
\* The steps of a run.

LEMMA AdoptedFits ==
    ASSUME IInv, NEW r \in Requests, Adopt(r)
    PROVE  IInv'
<1> DEFINE templates == In(tx[r].read, "template")
           t == [Past(r) EXCEPT !.plan = UNION {x.of : x \in templates}]
<1>1. r \in Open /\ tx[r].todo # <<>> /\ tx[r].todo[1][1] = "adopt" /\ Becomes(r, t)
  BY DEF Adopt, At
<1>2. Good(r, tx[r]) /\ tx[r].end = "open" /\ DOMAIN tx[r] = Fields
  BY <1>1, OpenFits DEF Good, Shape
<1>3. /\ DOMAIN t = Fields /\ t.kind = tx[r].kind /\ t.before = tx[r].before
      /\ t.refused = tx[r].refused /\ t.todo = Tail(tx[r].todo) /\ t.end = "open"
      /\ t.new = tx[r].new /\ t.gone = tx[r].gone /\ t.changed = tx[r].changed
      /\ t.aim = tx[r].aim /\ t.run = tx[r].run /\ t.read = tx[r].read
      /\ t.plan = UNION {x.of : x \in templates}
  BY <1>2 DEF Past, Fields
<1> HIDE DEF t
<1>4. OnePiece(t.plan)
  <2>1. \A x, y \in templates : x = y
    BY <1>1, <1>2 DEF Good, Repeats
  <2>2. CASE templates = {}
    <3>1. t.plan = {}
      BY <2>2, <1>3
    <3>2. QED
      BY <3>1, NoRows
  <2>3. ASSUME NEW x \in templates PROVE OnePiece(t.plan)
    <3>1. t.plan = x.of
      BY <2>1, <1>3
    <3>2. OnePiece(x.of)
      BY <1>2 DEF Good, RowsFit, Rows, Genuine, In
    <3>3. QED
      BY <3>1, <3>2
  <2>4. QED
    BY <2>2, <2>3
<1>5. Rows(t.read) /\ OnePiece(t.run)
  BY <1>2, <1>3 DEF Good, RowsFit, Repeats
<1>6. t.kind \in RunKinds => OnePiece(Writers(t.read, "step"))
  BY <1>2, <1>3 DEF Good, Repeats
<1>7. tx[r].todo[1] # One("template")
  BY <1>1 DEF One
<1>8. t.kind # "promote" /\ ~Spared(r)
  BY <1>1, <1>3, PromoteNext, SparedNext DEF Change, Not
<1>9. Spares(t)
  BY <1>3, <1>8 DEF Spares, Spared
<1>10. tx[r].todo[1][1] \in Reads
  BY <1>1 DEF Reads
<1>11. QED
  BY <1>1, <1>3, <1>4, <1>5, <1>6, <1>7, <1>8, <1>9, <1>10, Reading

LEMMA CreatedFits ==
    ASSUME IInv, NEW r \in Requests, Create(r)
    PROVE  IInv'
<1> DEFINE t == [Past(r) EXCEPT
                    !.run = IF tx[r].plan # {} THEN tx[r].plan
                            ELSE {x.by : x \in In(tx[r].read, "step")}]
<1>0. /\ r \in Open /\ tx[r].todo # <<>> /\ tx[r].todo[1][1] = "create"
      /\ Becomes(r, RolledBack(tx[r])) \/ Becomes(r, t)
  BY DEF Create, At
<1> SUFFICES ASSUME Becomes(r, t) PROVE IInv'
  BY <1>0, RolledFits
<1>1. r \in Open /\ tx[r].todo # <<>> /\ tx[r].todo[1][1] = "create" /\ Becomes(r, t)
  BY <1>0
<1>2. Good(r, tx[r]) /\ tx[r].end = "open" /\ DOMAIN tx[r] = Fields
  BY <1>1, OpenFits DEF Good, Shape
<1>3. /\ DOMAIN t = Fields /\ t.kind = tx[r].kind /\ t.before = tx[r].before
      /\ t.refused = tx[r].refused /\ t.todo = Tail(tx[r].todo) /\ t.end = "open"
      /\ t.new = tx[r].new /\ t.gone = tx[r].gone /\ t.changed = tx[r].changed
      /\ t.aim = tx[r].aim /\ t.plan = tx[r].plan /\ t.read = tx[r].read
      /\ t.run = tx[r].plan \/ t.run = Writers(tx[r].read, "step")
  BY <1>2 DEF Past, Fields, Writers
<1> HIDE DEF t
<1>4. tx[r].kind \in RunKinds
  <2> DEFINE left == tx[r].todo
  <2>1. left = tx[r].todo /\ left # <<>> /\ left[1][1] = "create"
    BY <1>1
  <2> HIDE DEF left
  <2>2. InOrder(tx[r].kind, left, 1)
    BY <1>1, <2>1, OpenTail
  <2>3. QED
    BY <2>1, <2>2 DEF InOrder
<1>5. OnePiece(tx[r].plan) /\ OnePiece(Writers(tx[r].read, "step"))
  BY <1>2, <1>4 DEF Good, Repeats
<1>6. Rows(t.read) /\ OnePiece(t.plan) /\ OnePiece(t.run)
  BY <1>2, <1>3, <1>5 DEF Good, RowsFit
<1>7. tx[r].todo[1] # One("template")
  BY <1>1 DEF One
<1>8. t.kind # "promote" /\ ~Spared(r)
  BY <1>1, <1>3, PromoteNext, SparedNext DEF Change, Not
<1>9. Spares(t)
  BY <1>3, <1>8 DEF Spares, Spared
<1>10. tx[r].todo[1][1] \in Reads
  BY <1>1 DEF Reads
<1>11. QED
  BY <1>1, <1>3, <1>5, <1>6, <1>7, <1>8, <1>9, <1>10, Reading

\* A request that goes on with another program.
LEMMA GoingOn ==
    ASSUME IInv, NEW r \in Open, NEW left, Becomes(r, [tx[r] EXCEPT !.todo = left]),
           tx[r].todo # <<>>, tx[r].kind \in {"bind", "run_with"}, tx[r].aim = {},
           Ordered(tx[r].kind, left),
           left # <<>> /\ left[1][1] \in {"plan", "adopt"} =>
              \A x, y \in In(tx[r].read, "template") : x = y
    PROVE  IInv'
<1> DEFINE t == [tx[r] EXCEPT !.todo = left]
<1>1. Good(r, tx[r]) /\ tx[r].end = "open" /\ DOMAIN tx[r] = Fields
  BY OpenFits DEF Good, Shape
<1>2. /\ DOMAIN t = Fields /\ t.kind = tx[r].kind /\ t.before = tx[r].before
      /\ t.refused = tx[r].refused /\ t.todo = left /\ t.end = "open"
      /\ t.new = tx[r].new /\ t.gone = tx[r].gone /\ t.changed = tx[r].changed
      /\ t.read = tx[r].read /\ t.aim = {} /\ t.plan = tx[r].plan /\ t.run = tx[r].run
  BY <1>1 DEF Fields
<1>3. Becomes(r, t)
  OBVIOUS
<1> HIDE DEF t
<1>4. Shape(r, t)
  BY <1>1, <1>2 DEF Good, Shape
<1>5. RowsFit(r, t)
  BY <1>1, <1>2 DEF Good, RowsFit
<1>6. Swept(r, t)
  BY <1>2 DEF Swept, Sweeps, Deletes
<1>7. Whole(t)
  <2>1. \A x \in t.new : x.table \notin Parts
    BY <1>2, NewIds DEF TableAt, Parts
  <2>2. QED
    BY <2>1 DEF Whole, Inserted
<1>8. Repeats(t)
  BY <1>1, <1>2 DEF Good, Repeats
<1>9. Promotes(t) /\ Spares(t)
  BY <1>2 DEF Promotes, Spares
<1>10. Ordered(t.kind, t.todo)
  BY <1>2
<1>11. Good(r, t)
  BY <1>4, <1>5, <1>6, <1>7, <1>8, <1>9, <1>10 DEF Good
<1>12. QED
  BY <1>2, <1>3, <1>11, Keeping

LEMMA BoundFits ==
    ASSUME IInv, NEW r \in Requests, Bind(r)
    PROVE  IInv'
<1> DEFINE left == IF In(tx[r].read, "binding") = {} THEN <<Insert("binding")>>
                   ELSE <<Change("binding", "touch")>>
<1>1. r \in Open /\ tx[r].todo # <<>> /\ tx[r].todo[1][1] = "bind"
  BY DEF Bind, At
<1>2. Good(r, tx[r]) /\ DOMAIN tx[r] = Fields
  BY <1>1, OpenFits DEF Good, Shape
<1>3. Becomes(r, [Past(r) EXCEPT !.todo = left])
  BY DEF Bind
<1>4. [Past(r) EXCEPT !.todo = left] = [tx[r] EXCEPT !.todo = left]
  BY DEF Past
<1>5. Becomes(r, [tx[r] EXCEPT !.todo = left])
  BY <1>3, <1>4
<1>6. tx[r].kind = "bind"
  <2> DEFINE p == tx[r].todo
  <2>1. p = tx[r].todo /\ p # <<>> /\ p[1][1] = "bind"
    BY <1>1
  <2> HIDE DEF p
  <2>2. InOrder(tx[r].kind, p, 1)
    BY <1>1, <2>1, OpenTail
  <2>3. QED
    BY <2>1, <2>2 DEF InOrder
<1>7. tx[r].aim = {}
  BY <1>1, <1>2 DEF Good, Swept
<1>8. Ordered("bind", left) /\ left[1][1] \notin {"plan", "adopt"}
  BY BindingFits, RebindFits DEF Insert, Change
<1> HIDE DEF left
<1>9. QED
  BY <1>1, <1>5, <1>6, <1>7, <1>8, GoingOn

LEMMA Nothing ==
    ASSUME NEW p, IsSeq(p)
    PROVE  <<>> \o p = p /\ p \o <<>> = p
<1>1. PICK S : p \in Seq(S)
  BY DEF IsSeq
<1>2. QED
  BY <1>1

LEMMA PlanFits ==
    ASSUME IInv, NEW r \in Requests, Plan(r)
    PROVE  IInv'
<1> DEFINE templates == In(tx[r].read, "template")
           adopting == <<<<"adopt">>>> \o CreateRun
<1>1. r \in Open /\ tx[r].todo # <<>> /\ tx[r].todo[1][1] = "plan"
  BY DEF Plan, At
<1>2. Good(r, tx[r])
  BY <1>1, OpenFits
<1>3. tx[r].kind = "run_with"
  <2> DEFINE p == tx[r].todo
  <2>1. p = tx[r].todo /\ p # <<>> /\ p[1][1] = "plan"
    BY <1>1
  <2> HIDE DEF p
  <2>2. InOrder(tx[r].kind, p, 1)
    BY <1>1, <2>1, OpenTail
  <2>3. QED
    BY <2>1, <2>2 DEF InOrder
<1>4. tx[r].aim = {} /\ \A x, y \in templates : x = y
  BY <1>1, <1>2 DEF Good, Swept, Repeats
<1>5. PICK first \in {<<>>, Generate}, rest \in {CreateRun, adopting, <<>>} :
        \/ Becomes(r, [tx[r] EXCEPT !.todo = CreateRun])
        \/ Becomes(r, [tx[r] EXCEPT !.todo = first \o rest])
  BY DEF Plan
<1>6. Ordered("run_with", CreateRun) /\ Ordered("run_with", adopting)
  BY CreateFits, AdoptFits
<1>7. CASE Becomes(r, [tx[r] EXCEPT !.todo = CreateRun])
  <2>1. CreateRun[1][1] = "need"
    BY DEF CreateRun, Get, Need
  <2>2. QED
    BY <1>1, <1>3, <1>4, <1>6, <1>7, <2>1, GoingOn
<1>8. CASE Becomes(r, [tx[r] EXCEPT !.todo = first \o rest])
  <2>1. Ordered("run_with", first \o rest)
    <3>1. CASE first = <<>>
      <4>1. IsSeq(rest)
        BY <1>6, NoSeq DEF Ordered
      <4>2. first \o rest = rest
        BY <3>1, <4>1, Nothing
      <4>3. Ordered("run_with", rest)
        BY <1>6, NothingLeft
      <4>4. QED
        BY <4>2, <4>3
    <3>2. CASE first = Generate
      <4>1. CASE rest = <<>>
        <5>1. first \o rest = Generate
          BY <3>2, <4>1, GenerateFits, Nothing DEF Ordered
        <5>2. QED
          BY <5>1, GenerateFits
      <4>2. QED
        BY <3>2, <4>1, GenerateCreateFits, GenerateAdoptFits
    <3>3. QED
      BY <3>1, <3>2
  <2>2. QED
    BY <1>1, <1>3, <1>4, <1>8, <2>1, GoingOn
<1>9. QED
  BY <1>5, <1>7, <1>8
--------------------------------------------------------------------------------
\* The steps that write.

\* A committed row of a table is seen, or the request has deleted it.
LEMMA SeenOrGone ==
    ASSUME IInv, NEW r \in Open, NEW u, NEW x \in In(db, u)
    PROVE  x.id \in tx[r].gone \cup IdsOf(In(Visible(r), u))
<1>1. RowsFit(r, tx[r]) /\ Rows(db)
  BY OpenFits DEF IInv, WInv, Stored, Good
<1>2. x \in db /\ x.table = u
  BY DEF In
<1>3. CASE x.id \in IdsOf(tx[r].changed)
  <2>1. PICK c \in tx[r].changed : c.id = x.id
    BY <1>3 DEF IdsOf
  <2>2. c.table = u
    BY <2>1, <1>1, <1>2, SameRow DEF RowsFit, Rows
  <2>3. c \in In(Visible(r), u)
    BY <2>1, <2>2 DEF Visible, In
  <2>4. QED
    BY <2>1, <2>3 DEF IdsOf
<1>4. CASE x.id \notin IdsOf(tx[r].changed)
  <2>1. CASE x.id \in tx[r].gone
    BY <2>1
  <2>2. CASE x.id \notin tx[r].gone
    <3>1. x \in Visible(r)
      BY <2>2, <1>2, <1>4 DEF Visible
    <3>2. QED
      BY <3>1, <1>2 DEF In, IdsOf
  <2>3. QED
    BY <2>1, <2>2
<1>5. QED
  BY <1>3, <1>4

LEMMA AimFits ==
    ASSUME IInv, NEW r \in Requests, Aim(r)
    PROVE  IInv'
<1> DEFINE t == [tx[r] EXCEPT !.aim = Targets(r)]
           u == Table(r)
<1>1. /\ r \in Open /\ tx[r].todo # <<>> /\ tx[r].todo[1][1] = "clear"
      /\ tx[r].aim = {} /\ Becomes(r, t)
  BY DEF Aim, At
<1>2. Good(r, tx[r]) /\ tx[r].end = "open" /\ DOMAIN tx[r] = Fields
  BY <1>1, OpenFits DEF Good, Shape
<1>3. Targets(r) = IdsOf(In(Visible(r), u))
  BY <1>1 DEF Targets, At
<1>4. /\ DOMAIN t = Fields /\ t.kind = tx[r].kind /\ t.before = tx[r].before
      /\ t.refused = tx[r].refused /\ t.todo = tx[r].todo /\ t.end = "open"
      /\ t.new = tx[r].new /\ t.gone = tx[r].gone /\ t.changed = tx[r].changed
      /\ t.read = tx[r].read /\ t.aim = Targets(r) /\ t.plan = tx[r].plan /\ t.run = tx[r].run
  BY <1>2 DEF Fields
<1> HIDE DEF t
<1>5. Shape(r, t) /\ RowsFit(r, t) /\ Whole(t)
  BY <1>2, <1>4 DEF Good, Shape, RowsFit, Whole, Inserted
<1>6. Swept(r, t)
  <2>1. \A v : Earlier(t, v) = Earlier(tx[r], v)
    BY <1>4 DEF Earlier
  <2>2. ASSUME NEW v \in Tables, Sweeps(t.kind, v), ~t.refused, Cleared(t.todo, v)
        PROVE  IdsOf(Earlier(t, v)) \subseteq t.gone
    BY <2>1, <2>2, <1>2, <1>4 DEF Good, Swept
  <2>3. IdsOf(Earlier(t, u)) \subseteq t.aim \cup t.gone
    <3>1. \A x \in In(db, u) : x.id \in tx[r].gone \cup Targets(r)
      BY <1>1, <1>3, SeenOrGone
    <3>2. QED
      BY <3>1, <1>4 DEF Earlier, IdsOf
  <2>4. u = t.todo[1][2]
    BY <1>4 DEF Table
  <2>5. QED
    BY <2>2, <2>3, <2>4, <1>1, <1>4 DEF Swept
<1>7. Repeats(t) /\ Promotes(t) /\ Spares(t)
  BY <1>2, <1>4 DEF Good, Repeats, Promotes, Spares
<1>8. Ordered(t.kind, t.todo)
  BY <1>2, <1>4 DEF Good
<1>9. Good(r, t)
  BY <1>5, <1>6, <1>7, <1>8 DEF Good
<1>10. QED
  BY <1>1, <1>4, <1>9, Keeping

\* What is left after a statement that writes.
LEMMA WriteNext ==
    ASSUME IInv, NEW r \in Open, tx[r].todo # <<>>,
           tx[r].todo[1][1] \in {"clear", "drop", "change", "insert"}
    PROVE  /\ Ordered(tx[r].kind, Tail(tx[r].todo)) /\ InOrder(tx[r].kind, tx[r].todo, 1)
           /\ Len(tx[r].todo) \in Nat \ {0}
           /\ \A u : tx[r].todo[1] # Clear(u) /\ Cleared(Tail(tx[r].todo), u)
                        => Cleared(tx[r].todo, u)
           /\ \A u : Cleared(tx[r].todo, u) => Cleared(Tail(tx[r].todo), u)
           /\ \A i \in DOMAIN Tail(tx[r].todo) :
                 i + 1 \in 2..Len(tx[r].todo) /\ Tail(tx[r].todo)[i] = tx[r].todo[i + 1]
           /\ DOMAIN tx[r].todo = 1..Len(tx[r].todo)
           /\ Tail(tx[r].todo) # <<>> => Tail(tx[r].todo)[1][1] \notin {"plan", "adopt"}
           /\ tx[r].kind = "promote" => /\ tx[r].todo[1] = Change("workflow", "system")
                                        /\ Tail(tx[r].todo) = <<>>
                                        /\ Len(tx[r].todo) = 1
           /\ ~Spared(r) /\ ~tx[r].refused
<1> DEFINE p == tx[r].todo
<1>1. p = tx[r].todo /\ p # <<>> /\ p[1][1] \in {"clear", "drop", "change", "insert"}
  OBVIOUS
<1> HIDE DEF p
<1>2. /\ Ordered(tx[r].kind, Tail(p)) /\ InOrder(tx[r].kind, p, 1)
      /\ Len(p) \in Nat \ {0}
      /\ \A u : p[1] # Clear(u) /\ Cleared(Tail(p), u) => Cleared(p, u)
      /\ \A u : Cleared(p, u) => Cleared(Tail(p), u)
      /\ DOMAIN Tail(p) = 1..(Len(p) - 1) /\ DOMAIN p = 1..Len(p)
      /\ \A i \in 1..(Len(p) - 1) : Tail(p)[i] = p[i + 1]
      /\ Tail(p) = <<>> <=> Len(p) = 1
  BY <1>1, OpenTail
<1>3. \A i \in DOMAIN Tail(p) : i + 1 \in 2..Len(p) /\ Tail(p)[i] = p[i + 1]
  BY <1>2
<1>4. Tail(p) # <<>> => Tail(p)[1][1] \notin {"plan", "adopt"}
  <2> SUFFICES ASSUME Tail(p) # <<>>, Tail(p)[1][1] \in {"plan", "adopt"} PROVE FALSE
    OBVIOUS
  <2>1. Len(p) # 1
    BY <1>2
  <2>2. 1 < Len(p) /\ Tail(p)[1] = p[1 + 1]
    BY <2>1, <1>2
  <2>3. p[1] = One("template")
    BY <2>2, <1>2 DEF InOrder
  <2>4. QED
    BY <2>3, <1>1 DEF One
<1>5. ASSUME tx[r].kind = "promote"
      PROVE  p[1] = Change("workflow", "system") /\ Len(p) = 1 /\ Tail(p) = <<>>
  <2>1. \/ tx[r].todo[1][1] = "need" \/ tx[r].todo[1][1] = "not"
        \/ Len(tx[r].todo) = 1 /\ tx[r].todo[1] = Change("workflow", "system")
    BY <1>1, <1>5, PromoteNext
  <2>2. Len(p) = 1 /\ p[1] = Change("workflow", "system")
    BY <2>1, <1>1
  <2>3. QED
    BY <2>2, <1>2
<1>6. ~Spared(r)
  <2>1. Spared(r) => tx[r].todo[1][1] = "need" \/ tx[r].todo[1] = Not("workflow", "system")
    BY <1>1, SparedNext
  <2>2. QED
    BY <2>1, <1>1 DEF Not
<1>7. ~tx[r].refused
  BY <1>1, OpenFits DEF Good, Shape
<1>8. QED
  BY <1>1, <1>2, <1>3, <1>4, <1>5, <1>6, <1>7

\* Whoever does not wait takes only rows that nobody holds.
LEMMA NotWaiting ==
    ASSUME IInv, NEW r \in Open, WaitsFor(r) = {}, NEW t,
           HeldBy(t) \subseteq HeldBy(tx[r]) \cup Targets(r)
    PROVE  \A o \in Open \ {r} : HeldBy(t) \cap HeldBy(tx[o]) = {}
<1> SUFFICES ASSUME NEW o \in Open \ {r} PROVE HeldBy(t) \cap HeldBy(tx[o]) = {}
  OBVIOUS
<1>1. Targets(r) \cap Held(o) = {}
  BY DEF WaitsFor
<1>2. HeldBy(tx[o]) = Held(o)
  BY DEF HeldBy, Held
<1>3. HeldBy(tx[r]) \cap HeldBy(tx[o]) = {}
  BY DEF IInv, WInv, Exclusive
<1>4. QED
  BY <1>1, <1>2, <1>3

LEMMA RemoveFits ==
    ASSUME IInv, NEW r \in Requests, Remove(r)
    PROVE  IInv'
<1> DEFINE aims == Targets(r)
           t == [Past(r) EXCEPT
                    !.gone = @ \cup (aims \cap IdsOf(db)), !.aim = {},
                    !.new = {x \in @ : x.id \notin aims},
                    !.changed = {x \in @ : x.id \notin aims},
                    !.read = {x \in @ : x.id \notin aims}]
           p == tx[r].todo
<1>1. /\ r \in Open /\ p # <<>> /\ p[1][1] \in {"clear", "drop"}
      /\ WaitsFor(r) = {} /\ Becomes(r, t)
  BY DEF Remove, At
<1>2. Good(r, tx[r]) /\ tx[r].end = "open" /\ DOMAIN tx[r] = Fields
  BY <1>1, OpenFits DEF Good, Shape
<1>3. /\ DOMAIN t = Fields /\ t.kind = tx[r].kind /\ t.before = tx[r].before
      /\ t.refused = tx[r].refused /\ t.todo = Tail(p) /\ t.end = "open"
      /\ t.new = {x \in tx[r].new : x.id \notin aims}
      /\ t.gone = tx[r].gone \cup (aims \cap IdsOf(db))
      /\ t.changed = {x \in tx[r].changed : x.id \notin aims}
      /\ t.read = {x \in tx[r].read : x.id \notin aims}
      /\ t.aim = {} /\ t.plan = tx[r].plan /\ t.run = tx[r].run
  BY <1>2 DEF Past, Fields
<1> HIDE DEF t, aims
<1>4. /\ Ordered(tx[r].kind, Tail(p)) /\ InOrder(tx[r].kind, p, 1)
      /\ \A u : p[1] # Clear(u) /\ Cleared(Tail(p), u) => Cleared(p, u)
      /\ \A u : Cleared(p, u) => Cleared(Tail(p), u)
      /\ \A i \in DOMAIN Tail(p) : i + 1 \in 2..Len(p) /\ Tail(p)[i] = p[i + 1]
      /\ DOMAIN p = 1..Len(p) /\ Len(p) \in Nat \ {0}
      /\ Tail(p) # <<>> => Tail(p)[1][1] \notin {"plan", "adopt"}
      /\ ~Spared(r) /\ ~tx[r].refused
  BY <1>1, WriteNext
<1>5. tx[r].kind # "promote"
  <2>1. tx[r].kind = "promote" => p[1] = Change("workflow", "system")
    BY <1>1, WriteNext
  <2>2. QED
    BY <2>1, <1>1 DEF Change
<1> HIDE DEF p
<1>6. Shape(r, t)
  BY <1>2, <1>3, <1>4 DEF Good, Shape
<1>7. RowsFit(r, t)
  <2>1. RowsFit(r, tx[r])
    BY <1>2 DEF Good
  <2>2. Rows(t.new) /\ Rows(t.changed) /\ Rows(t.read)
    <3>1. ASSUME NEW S, Rows(S) PROVE Rows({x \in S : x.id \notin aims})
      <4>1. IsFiniteSet({x \in S : x.id \notin aims})
        BY <3>1, FS_Subset DEF Rows
      <4>2. QED
        BY <4>1, <3>1 DEF Rows
    <3>2. QED
      BY <3>1, <2>1, <1>3 DEF RowsFit
  <2>3. \A c \in t.changed : c.id \in IdsOf(db) /\ c.id \notin t.gone
    BY <2>1, <1>2, <1>3 DEF RowsFit
  <2>4. \A x \in t.new : x.by = r
    BY <2>1, <1>3 DEF RowsFit
  <2>5. QED
    BY <2>2, <2>3, <2>4 DEF RowsFit
<1>8. Swept(r, t)
  <2>1. \A v : Earlier(t, v) = Earlier(tx[r], v)
    BY <1>3 DEF Earlier
  <2>2. ASSUME NEW v \in Tables, Sweeps(t.kind, v), ~t.refused, Cleared(t.todo, v)
        PROVE  IdsOf(Earlier(t, v)) \subseteq t.gone
    <3>1. CASE p[1] = Clear(v)
      <4>1. v = Table(r) /\ p[1][1] = "clear" /\ p[1][2] = v
        BY <3>1 DEF p, Table, Clear
      <4>2. IdsOf(Earlier(tx[r], v)) \subseteq aims \cup tx[r].gone
        <5>1. CASE tx[r].aim # {}
          <6>1. aims = tx[r].aim
            BY <5>1, <4>1, <1>1 DEF aims, Targets, At, p
          <6>2. IdsOf(Earlier(tx[r], v)) \subseteq tx[r].aim \cup tx[r].gone
            BY <5>1, <4>1, <1>2 DEF Good, Swept, p
          <6>3. QED
            BY <6>1, <6>2
        <5>2. CASE tx[r].aim = {}
          <6>1. aims = IdsOf(In(Visible(r), v))
            BY <5>2, <4>1, <1>1 DEF aims, Targets, At, p
          <6>2. \A x \in In(db, v) : x.id \in tx[r].gone \cup aims
            BY <6>1, <1>1, SeenOrGone
          <6>3. QED
            BY <6>2 DEF Earlier, IdsOf
        <5>3. QED
          BY <5>1, <5>2
      <4>3. IdsOf(Earlier(tx[r], v)) \subseteq IdsOf(db)
        BY DEF Earlier, In, IdsOf
      <4>4. QED
        BY <4>2, <4>3, <2>1, <1>3
    <3>2. CASE p[1] # Clear(v)
      <4>1. Cleared(p, v)
        BY <3>2, <2>2, <1>3, <1>4
      <4>2. IdsOf(Earlier(tx[r], v)) \subseteq tx[r].gone
        BY <4>1, <2>2, <1>2, <1>3 DEF Good, Swept, p
      <4>3. QED
        BY <4>2, <2>1, <1>3
    <3>3. QED
      BY <3>1, <3>2
  <2>3. QED
    BY <2>2, <1>3 DEF Swept
<1>9. Whole(t)
  <2>1. \A x \in t.new : x \in tx[r].new
    BY <1>3
  <2>2. \A i \in DOMAIN t.todo : t.todo[i] = p[i + 1] /\ i + 1 \in DOMAIN p
    BY <1>3, <1>4
  <2>3. Whole(tx[r]) /\ tx[r].todo = p
    BY <1>2 DEF Good, p
  <2>4. \A x \in t.new : Inserted(t, x)
    BY <2>1, <2>3, <1>3 DEF Whole, Inserted
  <2>5. ASSUME NEW x \in t.new, x.table \in Parts, t.kind # "add"
        PROVE  /\ Cleared(t.todo, x.table)
               /\ \A i \in DOMAIN t.todo : t.todo[i][1] \notin Refuses
    <3>1. Cleared(p, x.table) /\ \A i \in DOMAIN p : p[i][1] \notin Refuses
      BY <2>1, <2>3, <2>5, <1>3 DEF Whole
    <3>2. QED
      BY <3>1, <2>2, <1>3, <1>4
  <2>6. QED
    BY <2>4, <2>5 DEF Whole
<1>10. Repeats(t)
  <2>1. Writers(t.read, "step") \subseteq Writers(tx[r].read, "step")
    BY <1>3 DEF Writers, In
  <2>2. t.kind \in RunKinds => OnePiece(Writers(t.read, "step"))
    BY <2>1, <1>2, <1>3, PieceOf DEF Good, Repeats
  <2>3. QED
    BY <2>2, <1>2, <1>3, <1>4 DEF Good, Repeats
<1>11. Promotes(t) /\ Spares(t)
  BY <1>3, <1>4, <1>5 DEF Promotes, Spares, Spared
<1>12. Good(r, t)
  BY <1>3, <1>4, <1>6, <1>7, <1>8, <1>9, <1>10, <1>11 DEF Good
<1>13. HeldBy(t) \subseteq HeldBy(tx[r]) \cup Targets(r)
  BY <1>3 DEF HeldBy, IdsOf, aims
<1>14. \A o \in Open \ {r} : HeldBy(t) \cap HeldBy(tx[o]) = {}
  BY <1>1, <1>13, NotWaiting
<1>15. (\E q \in Requests : Promoted(q)) => System(t.changed)
  BY <1>1, <1>3 DEF IInv, WInv, SystemKept, System
<1>16. t.end # "done"
  BY <1>3
<1>17. QED
  BY <1>1, <1>3, <1>12, <1>14, <1>15, <1>16, Becoming

\* An UPDATE leaves a row in its place.
LEMMA ChangedFits ==
    ASSUME NEW x, NEW old, NEW how, Genuine(x)
    PROVE  LET z == Changed(x, old, how)
           IN  /\ Genuine(z) /\ z.id = x.id /\ z.by = x.by /\ z.table = x.table
               /\ "system" \in x.on => "system" \in z.on
               /\ how = "system" => "system" \in z.on
<1> DEFINE z == Changed(x, old, how)
<1>1. DOMAIN x = RowFields
  BY DEF Genuine
<1>2. /\ DOMAIN z = RowFields /\ z.id = x.id /\ z.by = x.by /\ z.table = x.table /\ z.of = x.of
      /\ "system" \in x.on => "system" \in z.on
      /\ how = "system" => "system" \in z.on
  <2>1. CASE how = "version"
    BY <2>1, <1>1 DEF Changed, RowFields
  <2>2. CASE how = "retire"
    BY <2>2, <1>1 DEF Changed, RowFields
  <2>3. CASE how = "touch"
    BY <2>3, <1>1 DEF Changed, RowFields
  <2>4. CASE how \notin {"version", "retire", "touch"}
    BY <2>4, <1>1 DEF Changed, RowFields
  <2>5. QED
    BY <2>1, <2>2, <2>3, <2>4
<1> HIDE DEF z
<1>3. Genuine(z)
  BY <1>2 DEF Genuine
<1>4. QED
  BY <1>2, <1>3 DEF z

\* The rows that an UPDATE writes.
After(r) ==
    {Changed(x, CHOOSE y \in tx[r].read : y.id = x.id, tx[r].todo[1][3]) :
        x \in {x \in Visible(r) : x.id \in Targets(r)}}

LEMMA AfterFits ==
    ASSUME IInv, NEW r \in Open
    PROVE  /\ Rows(After(r))
           /\ \A z \in After(r) :
                 /\ z.id \in Targets(r)
                 /\ \E x \in Visible(r) :
                       /\ Genuine(x) /\ z.id = x.id /\ z.by = x.by /\ z.table = x.table
                       /\ "system" \in x.on => "system" \in z.on
                       /\ tx[r].todo[1][3] = "system" => "system" \in z.on
<1> DEFINE how == tx[r].todo[1][3]
           Old(x) == CHOOSE y \in tx[r].read : y.id = x.id
           As(x) == Changed(x, Old(x), how)
           seen == {x \in Visible(r) : x.id \in Targets(r)}
<1>1. After(r) = {As(x) : x \in seen}
  BY DEF After
<1>2. Rows(Visible(r))
  BY VisibleFits
<1>3. ASSUME NEW x \in seen
      PROVE  /\ Genuine(x) /\ x \in Visible(r) /\ x.id \in Targets(r)
             /\ Genuine(As(x)) /\ As(x).id = x.id /\ As(x).by = x.by /\ As(x).table = x.table
             /\ "system" \in x.on => "system" \in As(x).on
             /\ how = "system" => "system" \in As(x).on
  <2>1. Genuine(x)
    BY <1>2 DEF Rows
  <2> HIDE DEF Old, how
  <2>2. QED
    BY <2>1, ChangedFits
<1>4. IsFiniteSet(seen)
  BY <1>2, FS_Subset DEF Rows
<1> HIDE DEF As, seen
<1>5. IsFiniteSet({As(x) : x \in seen})
  <2> DEFINE f == [x \in seen |-> As(x)]
             T == {As(x) : x \in seen}
  <2>1. f \in [seen -> T] /\ \A y \in T : \E x \in seen : f[x] = y
    OBVIOUS
  <2>2. f \in Surjection(seen, T)
    BY <2>1 DEF Surjection
  <2>3. QED
    BY <2>2, <1>4, FS_Surjection
<1>6. Rows(After(r))
  BY <1>1, <1>3, <1>5 DEF Rows
<1>7. ASSUME NEW z \in After(r)
      PROVE  /\ z.id \in Targets(r)
             /\ \E x \in Visible(r) :
                   /\ Genuine(x) /\ z.id = x.id /\ z.by = x.by /\ z.table = x.table
                   /\ "system" \in x.on => "system" \in z.on
                   /\ how = "system" => "system" \in z.on
  <2>1. PICK x \in seen : z = As(x)
    BY <1>1
  <2>2. QED
    BY <2>1, <1>3
<1>8. QED
  BY <1>6, <1>7

LEMMA UpdateFits ==
    ASSUME IInv, NEW r \in Requests, Update(r)
    PROVE  IInv'
<1> DEFINE after == After(r)
           t == [Past(r) EXCEPT
                    !.changed = {x \in @ : x.id \notin IdsOf(after)} \cup
                                {x \in after : x.id \in IdsOf(db)},
                    !.new = {x \in @ : x.id \notin IdsOf(after)} \cup
                            {x \in after : x.id \notin IdsOf(db)},
                    !.read = {x \in @ : x.id \notin IdsOf(after)} \cup after]
           p == tx[r].todo
           u == Table(r)
<1>1. /\ r \in Open /\ p # <<>> /\ p[1][1] = "change" /\ WaitsFor(r) = {}
      /\ \/ Becomes(r, RolledBack(tx[r]))
         \/ IdsOf(after) = Targets(r) /\ Becomes(r, t)
  BY DEF Update, At, After
<1>2. CASE Becomes(r, RolledBack(tx[r]))
  BY <1>1, <1>2, RolledFits
<1>3. CASE IdsOf(after) = Targets(r) /\ Becomes(r, t)
  <2>1. Good(r, tx[r]) /\ tx[r].end = "open" /\ DOMAIN tx[r] = Fields
    BY <1>1, OpenFits DEF Good, Shape
  <2>2. /\ DOMAIN t = Fields /\ t.kind = tx[r].kind /\ t.before = tx[r].before
        /\ t.refused = tx[r].refused /\ t.todo = Tail(p) /\ t.end = "open"
        /\ t.gone = tx[r].gone
        /\ t.changed = {x \in tx[r].changed : x.id \notin IdsOf(after)} \cup
                       {x \in after : x.id \in IdsOf(db)}
        /\ t.new = {x \in tx[r].new : x.id \notin IdsOf(after)} \cup
                   {x \in after : x.id \notin IdsOf(db)}
        /\ t.read = {x \in tx[r].read : x.id \notin IdsOf(after)} \cup after
        /\ t.aim = tx[r].aim /\ t.plan = tx[r].plan /\ t.run = tx[r].run
    BY <2>1 DEF Past, Fields
  <2>3. Becomes(r, t)
    BY <1>3
  <2> HIDE DEF t
  <2>4. /\ Ordered(tx[r].kind, Tail(p)) /\ InOrder(tx[r].kind, p, 1)
        /\ \A v : p[1] # Clear(v) /\ Cleared(Tail(p), v) => Cleared(p, v)
        /\ \A v : Cleared(p, v) => Cleared(Tail(p), v)
        /\ \A i \in DOMAIN Tail(p) : i + 1 \in 2..Len(p) /\ Tail(p)[i] = p[i + 1]
        /\ DOMAIN p = 1..Len(p) /\ Len(p) \in Nat \ {0}
        /\ Tail(p) # <<>> => Tail(p)[1][1] \notin {"plan", "adopt"}
        /\ ~Spared(r) /\ ~tx[r].refused
        /\ tx[r].kind = "promote" =>
              p[1] = Change("workflow", "system") /\ Tail(p) = <<>> /\ Len(p) = 1
    BY <1>1, WriteNext
  <2>5. Targets(r) = IdsOf(In(tx[r].read, u))
    BY <1>1 DEF Targets, Cascaded, At
  <2>6. p[1][1] = "change" /\ u = p[1][2]
    BY <1>1 DEF Table
  <2>7. /\ Rows(after)
        /\ \A z \in after :
              /\ z.id \in Targets(r)
              /\ \E x \in Visible(r) :
                    /\ Genuine(x) /\ z.id = x.id /\ z.by = x.by /\ z.table = x.table
                    /\ "system" \in x.on => "system" \in z.on
                    /\ p[1][3] = "system" => "system" \in z.on
    BY <1>1, AfterFits
  <2> HIDE DEF after, p, u
  <2>8. RowsFit(r, tx[r]) /\ Rows(db) /\ Rows(Visible(r))
    BY <2>1, <1>1, VisibleFits DEF Good, IInv, WInv, Stored
  \* Visible rows are rows of db, or new.
  <2>9. ASSUME NEW x \in Visible(r)
        PROVE  \/ x.id \in IdsOf(db) /\ x.id \notin tx[r].gone
               \/ x \in tx[r].new /\ x.id \notin IdsOf(db)
    <3>1. CASE x \in tx[r].new
      <4>1. ASSUME NEW y \in db, y.id = x.id PROVE FALSE
        <5>1. y.by = x.by
          BY <2>8, <3>1, <4>1, SameRow DEF RowsFit, Rows
        <5>2. x.by = r
          BY <2>8, <3>1 DEF RowsFit
        <5>3. r # 0
          BY <1>1, OpenFits
        <5>4. tx[r].end = "done"
          BY <5>1, <5>2, <5>3 DEF IInv, WInv, Stored
        <5>5. QED
          BY <5>4, <2>1
      <4>2. QED
        BY <3>1, <4>1 DEF IdsOf
    <3>2. CASE x \in tx[r].changed
      BY <3>2, <2>1, <2>8 DEF RowsFit
    <3>3. CASE x \in db /\ x.id \notin tx[r].gone
      BY <3>3 DEF IdsOf
    <3>4. QED
      BY <3>1, <3>2, <3>3 DEF Visible
  <2>10. Shape(r, t)
    BY <2>1, <2>2, <2>4 DEF Good, Shape
  <2>11. RowsFit(r, t)
    <3>1. ASSUME NEW S, NEW T, Rows(S), Rows(T)
          PROVE  Rows({x \in S : x.id \notin IdsOf(after)} \cup T)
      <4>1. IsFiniteSet({x \in S : x.id \notin IdsOf(after)}) /\ IsFiniteSet(T)
        BY <3>1, FS_Subset DEF Rows
      <4>2. IsFiniteSet({x \in S : x.id \notin IdsOf(after)} \cup T)
        BY <4>1, FS_Union
      <4>3. QED
        BY <4>2, <3>1 DEF Rows
    <3>2. Rows({x \in after : x.id \in IdsOf(db)}) /\ Rows({x \in after : x.id \notin IdsOf(db)})
      BY <2>7, FS_Subset DEF Rows
    <3>3. Rows(t.changed) /\ Rows(t.new) /\ Rows(t.read)
      BY <3>1, <3>2, <2>2, <2>7, <2>8 DEF RowsFit
    <3>4. ASSUME NEW x \in t.new PROVE x.by = r
      <4>1. CASE x \in tx[r].new
        BY <4>1, <2>8 DEF RowsFit
      <4>2. CASE x \in after /\ x.id \notin IdsOf(db)
        <5>1. PICK w \in Visible(r) : x.id = w.id /\ x.by = w.by
          BY <4>2, <2>7
        <5>2. w \in tx[r].new
          BY <4>2, <5>1, <2>9
        <5>3. QED
          BY <5>1, <5>2, <2>8 DEF RowsFit
      <4>3. QED
        BY <4>1, <4>2, <2>2
    <3>5. ASSUME NEW c \in t.changed PROVE c.id \in IdsOf(db) /\ c.id \notin t.gone
      <4>1. CASE c \in tx[r].changed
        BY <4>1, <2>1, <2>2, <2>8 DEF RowsFit
      <4>2. CASE c \in after /\ c.id \in IdsOf(db)
        <5>1. PICK w \in Visible(r) : c.id = w.id
          BY <4>2, <2>7
        <5>2. QED
          BY <4>2, <5>1, <2>2, <2>9
      <4>3. QED
        BY <4>1, <4>2, <2>2
    <3>6. QED
      BY <3>3, <3>4, <3>5 DEF RowsFit
  <2>12. Swept(r, t)
    <3>1. t.aim = {}
      BY <2>1, <2>2, <2>6 DEF Good, Swept, p
    <3>2. \A v : Earlier(t, v) = Earlier(tx[r], v)
      BY <2>2 DEF Earlier
    <3>3. \A v : p[1] # Clear(v)
      BY <2>6 DEF Clear
    <3>4. ASSUME NEW v \in Tables, Sweeps(t.kind, v), ~t.refused, Cleared(t.todo, v)
          PROVE  IdsOf(Earlier(t, v)) \subseteq t.gone
      <4>1. Cleared(p, v)
        BY <3>3, <3>4, <2>2, <2>4
      <4>2. QED
        BY <4>1, <3>2, <3>4, <2>1, <2>2 DEF Good, Swept, p
    <3>5. QED
      BY <3>1, <3>4, <2>2 DEF Swept
  <2>13. Whole(t)
    <3>1. ASSUME NEW x \in t.new PROVE \E w \in tx[r].new : w.table = x.table
      <4>1. CASE x \in tx[r].new
        BY <4>1
      <4>2. CASE x \in after /\ x.id \notin IdsOf(db)
        <5>1. PICK w \in Visible(r) : x.id = w.id /\ x.table = w.table
          BY <4>2, <2>7
        <5>2. QED
          BY <4>2, <5>1, <2>9
      <4>3. QED
        BY <4>1, <4>2, <2>2
    <3>2. \A i \in DOMAIN t.todo : t.todo[i] = p[i + 1] /\ i + 1 \in DOMAIN p
      BY <2>2, <2>4
    <3>3. Whole(tx[r]) /\ tx[r].todo = p
      BY <2>1 DEF Good, p
    <3>4. \A x \in t.new : Inserted(t, x)
      BY <3>1, <3>3, <2>2 DEF Whole, Inserted
    <3>5. ASSUME NEW x \in t.new, x.table \in Parts, t.kind # "add"
          PROVE  /\ Cleared(t.todo, x.table)
                 /\ \A i \in DOMAIN t.todo : t.todo[i][1] \notin Refuses
      <4>1. Cleared(p, x.table) /\ \A i \in DOMAIN p : p[i][1] \notin Refuses
        BY <3>1, <3>3, <3>5, <2>2 DEF Whole
      <4>2. QED
        BY <4>1, <3>2, <2>2, <2>4
    <3>6. QED
      BY <3>4, <3>5 DEF Whole
  <2>14. Repeats(t)
    <3>1. ASSUME t.kind \in RunKinds
          PROVE  OnePiece(Writers(t.read, "step"))
      <4>1. u = "template"
        BY <3>1, <2>2, <2>4, <2>6 DEF InOrder
      <4>2. ASSUME NEW z \in after PROVE z.table = "template"
        <5>1. PICK y \in tx[r].read : y.table = "template" /\ y.id = z.id
          BY <4>1, <2>5, <2>7 DEF IdsOf, In
        <5>2. QED
          BY <5>1, <2>7, <2>8, SameRow DEF RowsFit, Rows
      <4>3. Writers(t.read, "step") \subseteq Writers(tx[r].read, "step")
        BY <4>2, <2>2 DEF Writers, In
      <4>4. QED
        BY <3>1, <4>3, <2>1, <2>2, PieceOf DEF Good, Repeats
    <3>2. QED
      BY <3>1, <2>1, <2>2, <2>4 DEF Good, Repeats
  <2>15. \A x \in tx[r].new : x.id # 1
    BY <1>1, NewIds
  <2>16. Promotes(t)
    <3> SUFFICES ASSUME t.kind = "promote"
                 PROVE  t.todo = <<>> /\ System(t.changed) /\ 1 \in IdsOf(t.changed)
      BY DEF Promotes
    <3>1. p[1] = Change("workflow", "system") /\ t.todo = <<>> /\ Len(p) = 1
      BY <2>2, <2>4
    <3>2. u = "workflow" /\ p[1][3] = "system"
      BY <3>1, <2>6 DEF Change
    <3>3. Len(p) < 4
      BY <3>1
    <3>4. 1 \in IdsOf(tx[r].read)
      <4>1. Promotes(tx[r]) /\ tx[r].todo # <<>> /\ Len(tx[r].todo) < 4
        BY <3>3, <2>1, <1>1 DEF Good, p
      <4>2. QED
        BY <4>1, <2>1, <2>2, <2>4 DEF Promotes
    <3>5. 1 \in Targets(r)
      <4>1. PICK y \in tx[r].read : y.id = 1
        BY <3>4 DEF IdsOf
      <4>2. y.table = "workflow"
        BY <4>1, <2>8, WorkflowRow DEF RowsFit, Rows
      <4>3. QED
        BY <4>1, <4>2, <3>2, <2>5 DEF IdsOf, In
    <3>6. PICK z \in after : z.id = 1
      BY <3>5, <1>3 DEF IdsOf
    <3>7. z.id \in IdsOf(db)
      BY <3>6, <2>7, <2>9, <2>15
    <3>8. 1 \in IdsOf(t.changed)
      BY <3>6, <3>7, <2>2 DEF IdsOf
    <3>9. System(t.changed)
      <4>1. \A x \in t.changed : x.id = 1 => x \in after
        BY <3>6, <2>2 DEF IdsOf
      <4>2. \A x \in after : "system" \in x.on
        BY <3>2, <2>7
      <4>3. QED
        BY <4>1, <4>2 DEF System
    <3>10. QED
      BY <3>1, <3>8, <3>9
  <2>17. Spares(t)
    BY <2>2, <2>4 DEF Spares, Spared
  <2>18. Good(r, t)
    BY <2>2, <2>4, <2>10, <2>11, <2>12, <2>13, <2>14, <2>16, <2>17 DEF Good
  <2>19. HeldBy(t) \subseteq HeldBy(tx[r]) \cup Targets(r)
    BY <1>3, <2>2 DEF HeldBy, IdsOf
  <2>20. \A o \in Open \ {r} : HeldBy(t) \cap HeldBy(tx[o]) = {}
    BY <1>1, <2>19, NotWaiting
  <2>21. ASSUME \E q \in Requests : Promoted(q) PROVE System(t.changed)
    <3>1. System(db) /\ System(tx[r].changed)
      BY <2>21, <1>1 DEF IInv, WInv, SystemKept
    <3>2. System(Visible(r))
      BY <3>1, <2>15 DEF System, Visible
    <3>3. System(after)
      BY <3>2, <2>7 DEF System
    <3>4. QED
      BY <3>1, <3>3, <2>2 DEF System
  <2>22. t.end # "done"
    BY <2>2
  <2>23. QED
    BY <1>1, <2>2, <2>3, <2>18, <2>20, <2>21, <2>22, Becoming
<1>4. QED
  BY <1>1, <1>2, <1>3

\* The row that a request inserts.
LEMMA NewRowFits ==
    ASSUME IInv, NEW r \in Open, tx[r].todo # <<>>, tx[r].todo[1][1] = "insert"
    PROVE  /\ Genuine(NewRow(r)) /\ NewRow(r).by = r
           /\ NewRow(r).table = Table(r)
<1> DEFINE p == tx[r].todo
           n == Len(p)
           x == NewRow(r)
           kind == tx[r].kind
<1>1. p = tx[r].todo /\ Good(r, tx[r]) /\ r \in Requests /\ r \in Nat \ {0}
  BY OpenFits
<1>2. n \in Nat \ {0} /\ InOrder(kind, p, 1) /\ p[1][1] = "insert" /\ Table(r) = p[1][2]
  BY WriteNext DEF Table
<1>3. /\ DOMAIN x = RowFields /\ x.by = r /\ x.id = 10 * r + n /\ x.table = Table(r)
      /\ \/ x.of = {}
         \/ Table(r) = "template" /\ kind # "analyze" /\ x.of = Writers(tx[r].read, "step")
  BY DEF NewRow, Row, RowFields, Writers
<1> HIDE DEF p, n, x, kind
<1>4. n - 1 + 1 \in 1..9 /\ Table(r) = TableAt(kind, n - 1 + 1)
  BY <1>2 DEF InOrder, n
<1>5. n - 1 + 1 = n
  BY <1>2
<1>6. x.id \in (10 * r + 1)..(10 * r + 9) /\ x.id - 10 * r = n
  BY <1>1, <1>2, <1>3, <1>4, <1>5
<1>7. OnePiece(x.of)
  <2>1. CASE x.of = {}
    BY <2>1, NoRows
  <2>2. CASE Table(r) = "template" /\ kind # "analyze" /\ x.of = Writers(tx[r].read, "step")
    <3>1. kind = "run_with"
      BY <2>2, <1>4 DEF TableAt
    <3>2. QED
      BY <3>1, <2>2, <1>1 DEF Good, Repeats, RunKinds, kind
  <2>3. QED
    BY <2>1, <2>2, <1>3
<1>8. x.table = TableAt(kind, x.id - 10 * r)
  BY <1>3, <1>4, <1>5, <1>6
<1>9. Genuine(x)
  BY <1>1, <1>3, <1>6, <1>7, <1>8 DEF Genuine, kind
<1>10. QED
  BY <1>3, <1>9 DEF x

LEMMA AddedFits ==
    ASSUME IInv, NEW r \in Requests, Add(r)
    PROVE  IInv'
<1> DEFINE x == NewRow(r)
           t == [Past(r) EXCEPT !.new = @ \cup {x}]
           p == tx[r].todo
<1>1. /\ r \in Open /\ p # <<>> /\ p[1][1] = "insert"
      /\ \/ Becomes(r, RolledBack(tx[r]))
         \/ Becomes(r, t)
  BY DEF Add, At
<1>2. CASE Becomes(r, RolledBack(tx[r]))
  BY <1>1, <1>2, RolledFits
<1>3. CASE Becomes(r, t)
  <2>1. Good(r, tx[r]) /\ tx[r].end = "open" /\ DOMAIN tx[r] = Fields
    BY <1>1, OpenFits DEF Good, Shape
  <2>2. /\ DOMAIN t = Fields /\ t.kind = tx[r].kind /\ t.before = tx[r].before
        /\ t.refused = tx[r].refused /\ t.todo = Tail(p) /\ t.end = "open"
        /\ t.gone = tx[r].gone /\ t.changed = tx[r].changed
        /\ t.new = tx[r].new \cup {x}
        /\ t.read = tx[r].read
        /\ t.aim = tx[r].aim /\ t.plan = tx[r].plan /\ t.run = tx[r].run
    BY <2>1 DEF Past, Fields
  <2>3. Becomes(r, t)
    BY <1>3
  <2>4. /\ Ordered(tx[r].kind, Tail(p)) /\ InOrder(tx[r].kind, p, 1)
        /\ \A v : p[1] # Clear(v) /\ Cleared(Tail(p), v) => Cleared(p, v)
        /\ \A v : Cleared(p, v) => Cleared(Tail(p), v)
        /\ \A i \in DOMAIN Tail(p) : i + 1 \in 2..Len(p) /\ Tail(p)[i] = p[i + 1]
        /\ DOMAIN p = 1..Len(p) /\ Len(p) \in Nat \ {0}
        /\ Tail(p) # <<>> => Tail(p)[1][1] \notin {"plan", "adopt"}
        /\ ~Spared(r) /\ ~tx[r].refused
        /\ tx[r].kind = "promote" => p[1] = Change("workflow", "system")
    BY <1>1, WriteNext
  <2>5. Genuine(x) /\ x.by = r /\ x.table = p[1][2]
    BY <1>1, NewRowFits DEF Table
  <2> HIDE DEF t, x
  <2>6. RowsFit(r, tx[r])
    BY <2>1 DEF Good
  <2>7. Shape(r, t)
    BY <2>1, <2>2, <2>4 DEF Good, Shape
  <2>8. RowsFit(r, t)
    <3>1. Rows(t.new)
      <4>1. IsFiniteSet(tx[r].new)
        BY <2>6 DEF RowsFit, Rows
      <4>2. IsFiniteSet(tx[r].new \cup {x})
        BY <4>1, FS_AddElement
      <4>3. QED
        BY <4>2, <2>2, <2>5, <2>6 DEF RowsFit, Rows
    <3>2. QED
      BY <3>1, <2>1, <2>2, <2>5, <2>6 DEF RowsFit
  <2> HIDE DEF p
  <2>9. Swept(r, t)
    <3>1. t.aim = {}
      BY <1>1, <2>1, <2>2 DEF Good, Swept, p
    <3>2. \A v : Earlier(t, v) = Earlier(tx[r], v)
      BY <2>2 DEF Earlier
    <3>3. \A v : p[1] # Clear(v)
      BY <1>1 DEF Clear
    <3>4. ASSUME NEW v \in Tables, Sweeps(t.kind, v), ~t.refused, Cleared(t.todo, v)
          PROVE  IdsOf(Earlier(t, v)) \subseteq t.gone
      <4>1. Cleared(p, v)
        BY <3>3, <3>4, <2>2, <2>4
      <4>2. QED
        BY <4>1, <3>2, <3>4, <2>1, <2>2 DEF Good, Swept, p
    <3>5. QED
      BY <3>1, <3>4, <2>2 DEF Swept
  <2>10. Whole(t)
    <3>1. \A i \in DOMAIN t.todo : t.todo[i] = p[i + 1] /\ i + 1 \in 2..Len(p) /\ i + 1 \in DOMAIN p
      BY <2>2, <2>4
    <3>2. Whole(tx[r]) /\ tx[r].todo = p
      BY <2>1 DEF Good, p
    <3>3. ASSUME NEW z \in tx[r].new
          PROVE  /\ Inserted(t, z)
                 /\ z.table \in Parts /\ t.kind # "add" =>
                       /\ Cleared(t.todo, z.table)
                       /\ \A i \in DOMAIN t.todo : t.todo[i][1] \notin Refuses
      <4>1. Inserted(t, z)
        BY <3>2, <2>2 DEF Whole, Inserted
      <4>2. ASSUME z.table \in Parts, t.kind # "add"
            PROVE  /\ Cleared(t.todo, z.table)
                   /\ \A i \in DOMAIN t.todo : t.todo[i][1] \notin Refuses
        <5>1. Cleared(p, z.table) /\ \A i \in DOMAIN p : p[i][1] \notin Refuses
          BY <3>2, <4>2, <2>2 DEF Whole
        <5>2. QED
          BY <5>1, <3>1, <2>2, <2>4
      <4>3. QED
        BY <4>1, <4>2
    <3>4. ASSUME x.table \in Parts, t.kind # "add"
          PROVE  /\ Sweeps(t.kind, x.table)
                 /\ \A j \in (1 + 1)..Len(p) :
                       p[j] # Clear(x.table) /\ p[j][1] \notin Refuses
      BY <3>4, <1>1, <2>2, <2>4, <2>5 DEF InOrder
    <3>5. ASSUME x.table \in Parts, t.kind # "add"
          PROVE  /\ Cleared(t.todo, x.table)
                 /\ \A i \in DOMAIN t.todo : t.todo[i][1] \notin Refuses
      <4>1. \A j \in 2..Len(p) : p[j] # Clear(x.table) /\ p[j][1] \notin Refuses
        BY <3>4, <3>5
      <4>2. QED
        BY <4>1, <3>1 DEF Cleared
    <3>6. Inserted(t, x)
      BY <3>4, <2>2, <2>4 DEF Inserted
    <3>7. QED
      BY <3>3, <3>5, <3>6, <2>2 DEF Whole
  <2>11. Repeats(t)
    BY <2>1, <2>2, <2>4 DEF Good, Repeats
  <2>12. t.kind # "promote"
    BY <1>1, <2>2, <2>4 DEF Change
  <2>13. Promotes(t) /\ Spares(t)
    BY <2>12, <2>2, <2>4 DEF Promotes, Spares, Spared
  <2>14. Good(r, t)
    BY <2>2, <2>4, <2>7, <2>8, <2>9, <2>10, <2>11, <2>13 DEF Good
  <2>15. QED
    BY <1>1, <2>2, <2>3, <2>14, Keeping
<1>4. QED
  BY <1>1, <1>2, <1>3

LEMMA DeadlockFits ==
    ASSUME IInv, NEW r \in Requests, Deadlock(r)
    PROVE  IInv'
BY RolledFits DEF Deadlock
--------------------------------------------------------------------------------
\* What a commit changes of the requests.
LEMMA CommitChanges ==
    ASSUME IInv, NEW r \in Requests, Commit(r)
    PROVE  /\ r \in Open /\ Requests' = Requests /\ Later /\ IsSeq(tx')
           /\ \A q \in Requests \ {r} : tx'[q] = tx[q]
           /\ DOMAIN tx'[r] = Fields
           /\ tx'[r].kind = tx[r].kind /\ tx'[r].todo = <<>> /\ tx'[r].end = "done"
           /\ tx'[r].new = {} /\ tx'[r].changed = {} /\ tx'[r].read = {}
           /\ tx'[r].plan = {} /\ tx'[r].run = tx[r].run
           /\ tx'[r].gone = tx[r].gone \cap {1} /\ tx'[r].aim = tx[r].aim
           /\ tx'[r].refused = tx[r].refused /\ tx'[r].before = tx[r].before
<1>1. PICK S : tx \in Seq(S)
  BY DEF IInv, IsSeq
<1>2. r \in Open /\ tx[r].todo = <<>> /\ DOMAIN tx[r] = Fields
  BY OpenFits DEF Commit, Good, Shape
<1>3. tx' = [tx EXCEPT ![r].end = "done", ![r].read = {}, ![r].changed = {}, ![r].new = {},
                       ![r].gone = @ \cap {1}, ![r].plan = {}]
  BY DEF Commit
<1>4. /\ DOMAIN tx' = Requests
      /\ \A q \in Requests \ {r} : tx'[q] = tx[q]
  BY <1>1, <1>3 DEF Requests
<1>5. tx'[r] = [tx[r] EXCEPT !.end = "done", !.read = {}, !.changed = {}, !.new = {},
                             !.gone = @ \cap {1}, !.plan = {}]
  BY <1>1, <1>3 DEF Requests
<1>6. /\ DOMAIN tx'[r] = Fields
      /\ tx'[r].kind = tx[r].kind /\ tx'[r].todo = <<>> /\ tx'[r].end = "done"
      /\ tx'[r].new = {} /\ tx'[r].changed = {} /\ tx'[r].read = {}
      /\ tx'[r].plan = {} /\ tx'[r].run = tx[r].run
      /\ tx'[r].gone = tx[r].gone \cap {1} /\ tx'[r].aim = tx[r].aim
      /\ tx'[r].refused = tx[r].refused /\ tx'[r].before = tx[r].before
  BY <1>2, <1>5 DEF Fields
<1>7. IsSeq(tx')
  <2> DEFINE t == tx'[r]
             s == [tx EXCEPT ![r] = t]
  <2>1. tx' = [q \in DOMAIN tx' |-> tx'[q]]
    BY <1>3
  <2> HIDE DEF t
  <2>2. s \in Seq(S \cup {t})
    BY <1>1 DEF Requests
  <2>3. tx' = s
    <3>1. DOMAIN s = DOMAIN tx'
      BY <1>4 DEF Requests
    <3>2. \A q \in DOMAIN tx' : tx'[q] = s[q]
      BY <1>4 DEF Requests, t
    <3>3. QED
      BY <2>1, <3>1, <3>2
  <2>4. QED
    BY <2>2, <2>3 DEF IsSeq
<1>8. Requests' = Requests
  BY <1>4 DEF Requests
<1>9. Later
  BY <1>2, <1>4, <1>6, <1>8 DEF Later, Open
<1>10. QED
  BY <1>2, <1>4, <1>6, <1>7, <1>8, <1>9

\* A row that is stored after it is the request's, or was there.
LEMMA CommitRows ==
    ASSUME IInv, NEW r \in Requests, Commit(r)
    PROVE  /\ Rows(db') /\ r # 0 /\ \A x \in tx[r].new : x.by = r
           /\ \A x \in db' :
                 \/ x \in tx[r].new
                 \/ /\ x.by # r /\ x.id \notin tx[r].gone
                    /\ (x \in db /\ x.id \notin Held(r)) \/ x \in tx[r].changed
                    /\ \E y \in db : y.id = x.id /\ y.by = x.by /\ y.table = x.table
           /\ \A x \in db : x.id \notin Held(r) => x \in db'
<1>1. /\ r \in Open
      /\ db' = {x \in db : x.id \notin Held(r)} \cup tx[r].changed \cup tx[r].new
  BY DEF Commit
<1>2. RowsFit(r, tx[r]) /\ Rows(db) /\ tx[r].end = "open" /\ r # 0
  BY <1>1, OpenFits DEF IInv, WInv, Stored, Good
<1>3. Rows(db')
  <2>1. IsFiniteSet({x \in db : x.id \notin Held(r)})
    BY <1>2, FS_Subset DEF Rows
  <2>2. IsFiniteSet(tx[r].changed) /\ IsFiniteSet(tx[r].new)
    BY <1>2 DEF RowsFit, Rows
  <2>3. IsFiniteSet({x \in db : x.id \notin Held(r)} \cup tx[r].changed)
    BY <2>1, <2>2, FS_Union
  <2>4. IsFiniteSet(({x \in db : x.id \notin Held(r)} \cup tx[r].changed) \cup tx[r].new)
    BY <2>2, <2>3, FS_Union
  <2>5. QED
    BY <2>4, <1>1, <1>2 DEF RowsFit, Rows
<1>4. \A y \in db : y.by # r
  BY <1>2 DEF IInv, WInv, Stored
<1>5. ASSUME NEW x \in tx[r].changed
      PROVE  /\ x.by # r /\ x.id \notin tx[r].gone
             /\ \E y \in db : y.id = x.id /\ y.by = x.by /\ y.table = x.table
  <2>1. x.id \in IdsOf(db) /\ x.id \notin tx[r].gone
    BY <1>2 DEF RowsFit
  <2>2. PICK y \in db : y.id = x.id
    BY <2>1 DEF IdsOf
  <2>3. y.by = x.by /\ y.table = x.table
    BY <2>2, <1>2, SameRow DEF RowsFit, Rows
  <2>4. QED
    BY <2>1, <2>2, <2>3, <1>4
<1>6. QED
  BY <1>1, <1>2, <1>3, <1>4, <1>5 DEF Held, RowsFit

LEMMA CommitFits ==
    ASSUME IInv, NEW r \in Requests, Commit(r)
    PROVE  IInv'
<1>1. /\ r \in Open /\ Requests' = Requests /\ Later /\ IsSeq(tx')
      /\ \A q \in Requests \ {r} : tx'[q] = tx[q]
      /\ DOMAIN tx'[r] = Fields
      /\ tx'[r].kind = tx[r].kind /\ tx'[r].todo = <<>> /\ tx'[r].end = "done"
      /\ tx'[r].new = {} /\ tx'[r].changed = {} /\ tx'[r].read = {}
      /\ tx'[r].plan = {} /\ tx'[r].run = tx[r].run
      /\ tx'[r].gone = tx[r].gone \cap {1} /\ tx'[r].aim = tx[r].aim
      /\ tx'[r].refused = tx[r].refused /\ tx'[r].before = tx[r].before
  BY CommitChanges
<1>2. /\ Rows(db') /\ r # 0 /\ \A x \in tx[r].new : x.by = r
      /\ \A x \in db' :
            \/ x \in tx[r].new
            \/ /\ x.by # r /\ x.id \notin tx[r].gone
               /\ (x \in db /\ x.id \notin Held(r)) \/ x \in tx[r].changed
               /\ \E y \in db : y.id = x.id /\ y.by = x.by /\ y.table = x.table
      /\ \A x \in db : x.id \notin Held(r) => x \in db'
  BY CommitRows
<1>3. Good(r, tx[r]) /\ tx[r].end = "open" /\ tx[r].todo = <<>>
  BY OpenFits DEF Commit
<1>4. \A q \in Requests : \A b \in tx[q].before : b # r /\ b \in Requests
  BY <1>1 DEF IInv, WInv, Good, Shape, Ended, Open
\* Of the earlier rows, a commit leaves no more than there were.
<1>5. ASSUME NEW q \in Requests, NEW t, t.before = tx[q].before, NEW u,
             NEW x \in db', x.table = u, x.by \in t.before \cup {0}
      PROVE  /\ \E y \in Earlier(tx[q], u) : y.id = x.id
             /\ x.id \notin tx[r].gone
  <2>1. x \notin tx[r].new
    BY <1>2, <1>4, <1>5
  <2>2. PICK y \in db : y.id = x.id /\ y.by = x.by /\ y.table = x.table
    BY <2>1, <1>2
  <2>3. QED
    BY <2>1, <2>2, <1>2, <1>5 DEF Earlier, In
<1>6. ASSUME NEW q \in Requests \ {r}, NEW t \in {tx'[q]} PROVE Good(q, t)'
  <2>1. t = tx[q] /\ Good(q, t)
    BY <1>1 DEF IInv, WInv
  <2>2. Shape(q, t)' /\ Repeats(t)' /\ Spares(t)'
    BY <2>1, <1>1, ShapeStays, RepeatsStay, SparesStay DEF Good
  <2>3. Whole(t)' /\ Promotes(t)' /\ Ordered(t.kind, t.todo)'
    BY <2>1 DEF Good, Whole, Inserted, Promotes, System, IdsOf, Ordered, InOrder
  <2>4. RowsFit(q, t)'
    <3>1. Rows(t.new)' /\ Rows(t.changed)' /\ Rows(t.read)'
      BY <2>1, <1>1, RowsStay DEF Good, RowsFit
    <3>2. ASSUME t.end = "open", NEW c \in t.changed
          PROVE  c.id \in IdsOf(db') /\ c.id \notin t.gone
      <4>1. c.id \in IdsOf(db) /\ c.id \notin t.gone
        BY <3>2, <2>1 DEF Good, RowsFit
      <4>2. q \in Open
        BY <3>2, <2>1 DEF Open
      <4>3. c.id \notin Held(r)
        BY <3>2, <4>2, <2>1, <1>1 DEF IInv, WInv, Exclusive, HeldBy, Held, IdsOf
      <4>4. PICK y \in db : y.id = c.id
        BY <4>1 DEF IdsOf
      <4>5. y \in db'
        BY <4>3, <4>4, <1>2
      <4>6. QED
        BY <4>1, <4>4, <4>5 DEF IdsOf
    <3>3. QED
      BY <3>1, <3>2, <2>1 DEF Good, RowsFit, IdsOf
  <2>5. \A u : \A x \in Earlier(t, u)' : \E y \in Earlier(tx[q], u) : y.id = x.id
    BY <1>5, <2>1 DEF Earlier, In
  <2>6. \A u : IdsOf(Earlier(t, u))' \subseteq IdsOf(Earlier(t, u))
    BY <2>1, <2>5 DEF IdsOf
  <2>7. \A u : Earlier(t, u) = {} => Earlier(t, u)' = {}
    BY <2>1, <2>5
  <2>8. Swept(q, t)'
    BY <2>1, <2>6, <2>7 DEF Good, Swept, Sweeps, Cleared
  <2>9. QED
    BY <2>2, <2>3, <2>4, <2>8 DEF Good
<1>7. ASSUME NEW t \in {tx'[r]} PROVE Good(r, t)'
  <2>1. /\ DOMAIN t = Fields
        /\ t.kind = tx[r].kind /\ t.todo = <<>> /\ t.end = "done"
        /\ t.new = {} /\ t.changed = {} /\ t.read = {}
        /\ t.plan = {} /\ t.run = tx[r].run
        /\ t.gone = tx[r].gone \cap {1} /\ t.aim = tx[r].aim
        /\ t.refused = tx[r].refused /\ t.before = tx[r].before
    BY <1>1
  <2>2. Shape(r, t)
    BY <2>1, <1>3 DEF Good, Shape
  <2>3. Shape(r, t)'
    BY <2>2, <1>1, ShapeStays
  <2>4. Ordered(t.kind, t.todo)'
    BY <2>1, NothingLeft DEF Ordered, InOrder
  <2>5. RowsFit(r, t) /\ Rows({})
    BY <2>1, NoRows DEF RowsFit
  <2>6. RowsFit(r, t)'
    BY <2>1, <2>5, <1>1, RowsStay DEF RowsFit
  <2>7. Swept(r, t)'
    <3>1. t.aim = {}
      BY <2>1, <1>3 DEF Good, Swept
    <3>2. ASSUME NEW u \in Tables, Sweeps(t.kind, u), ~t.refused
          PROVE  Earlier(t, u)' = {}
      <4>1. Cleared(tx[r].todo, u)
        <5>1. DOMAIN <<>> = {}
          OBVIOUS
        <5>2. QED
          BY <5>1, <1>3 DEF Cleared
      <4>2. IdsOf(Earlier(tx[r], u)) \subseteq tx[r].gone
        BY <4>1, <3>2, <2>1, <1>3 DEF Good, Swept
      <4>3. ASSUME NEW x \in Earlier(t, u)' PROVE FALSE
        <5>1. x \in db' /\ x.table = u /\ x.by \in t.before \cup {0}
          BY <4>3 DEF Earlier, In
        <5>2. /\ \E y \in Earlier(tx[r], u) : y.id = x.id
              /\ x.id \notin tx[r].gone
          BY <5>1, <2>1, <1>5
        <5>3. QED
          BY <5>2, <4>2 DEF IdsOf
      <4>4. QED
        BY <4>3
    <3>3. QED
      BY <3>1, <3>2, <2>1 DEF Swept, Sweeps
  <2>8. Whole(t)' /\ Promotes(t)'
    BY <2>1 DEF Whole, Promotes
  <2>9. Repeats(t)'
    <3>1. Writers({}, "step") = {}
      BY DEF Writers, In
    <3>2. Repeats(t)
      BY <2>1, <3>1, <1>3, NoRows DEF Good, Repeats
    <3>3. QED
      BY <3>2, <1>1, RepeatsStay
  <2>10. Spares(t)
    BY <2>1, <1>3 DEF Good, Spares
  <2>11. Spares(t)'
    BY <2>2, <2>10, <1>1, SparesStay
  <2>12. QED
    BY <2>3, <2>4, <2>6, <2>7, <2>8, <2>9, <2>11 DEF Good
<1>8. \A q \in Requests' : \A t \in {tx'[q]} : Good(q, t)'
  BY <1>1, <1>6, <1>7
<1>9. Open' = Open \ {r}
  BY <1>1 DEF Open
<1>10. Exclusive'
  <2>1. \A p \in Open' : p \in Open /\ tx'[p] = tx[p]
    BY <1>1, <1>9 DEF Open
  <2>2. Exclusive
    BY DEF IInv, WInv
  <2>3. \A p, o \in Open' : p # o => HeldBy(tx'[p]) \cap HeldBy(tx'[o]) = {}
    BY <2>1, <2>2 DEF Exclusive
  <2>4. QED
    BY <2>3 DEF Exclusive, HeldBy, IdsOf
<1>11. Stored'
  <2>1. Rows(db)'
    <3>1. \A x \in db' : Genuine(x)'
      BY <1>1, <1>2, GenuineStays DEF Rows
    <3>2. QED
      BY <3>1, <1>2 DEF Rows
  <2>2. ASSUME NEW x \in db', x.by # 0
        PROVE  tx'[x.by].end = "done" /\ Inserted(tx'[x.by], x)
    <3>1. CASE x \in tx[r].new
      <4>1. x.by = r /\ Inserted(tx[r], x)
        BY <3>1, <1>2, <1>3 DEF Good, Whole
      <4>2. QED
        BY <4>1, <1>1 DEF Inserted
    <3>2. CASE x.by # r /\ \E y \in db : y.id = x.id /\ y.by = x.by /\ y.table = x.table
      <4>1. PICK y \in db : y.by = x.by /\ y.table = x.table
        BY <3>2
      <4>2. /\ tx[x.by].end = "done" /\ Inserted(tx[x.by], y) /\ x.by \in Requests
        BY <4>1, <2>2 DEF IInv, WInv, Stored, Rows, Genuine
      <4>3. tx'[x.by] = tx[x.by]
        BY <3>2, <4>2, <1>1
      <4>4. QED
        BY <4>1, <4>2, <4>3 DEF Inserted
    <3>3. QED
      BY <3>1, <3>2, <1>2
  <2>3. QED
    BY <2>1, <2>2 DEF Stored, Inserted, Sweeps
<1>12. SystemKept'
  <2> SUFFICES ASSUME NEW p \in Requests, Promoted(p)'
               PROVE  System(db') /\ \A o \in Open' : System(tx'[o].changed)
    BY <1>1 DEF SystemKept, System
  <2>1. \A x \in tx[r].new : x.id # 1
    BY <1>1, NewIds
  <2>2. CASE p # r
    <3>1. Promoted(p)
      BY <2>2, <1>1 DEF Promoted
    <3>2. System(db) /\ \A o \in Open : System(tx[o].changed)
      BY <3>1 DEF IInv, WInv, SystemKept
    <3>3. System(db')
      BY <3>2, <2>1, <1>1, <1>2 DEF System
    <3>4. \A o \in Open' : System(tx'[o].changed)
      BY <3>2, <1>1, <1>9 DEF Open
    <3>5. QED
      BY <3>3, <3>4
  <2>3. CASE p = r
    <3>1. tx[r].kind = "promote" /\ ~tx[r].refused
      BY <2>3, <1>1 DEF Promoted
    <3>2. System(tx[r].changed) /\ 1 \in IdsOf(tx[r].changed)
      BY <3>1, <1>3 DEF Good, Promotes
    <3>3. 1 \in Held(r)
      BY <3>2 DEF Held
    <3>4. System(db')
      BY <3>2, <3>3, <2>1, <1>2 DEF System
    <3>5. ASSUME NEW o \in Open' PROVE System(tx'[o].changed)
      <4>1. o \in Open /\ o # r /\ tx'[o] = tx[o]
        BY <1>1, <1>9 DEF Open
      <4>2. 1 \notin IdsOf(tx[o].changed)
        BY <4>1, <3>2, <1>1 DEF IInv, WInv, Exclusive, HeldBy
      <4>3. QED
        BY <4>1, <4>2 DEF System, IdsOf
    <3>6. QED
      BY <3>4, <3>5
  <2>4. QED
    BY <2>2, <2>3
<1>13. QED
  BY <1>1, <1>8, <1>10, <1>11, <1>12 DEF IInv, WInv, IsSeq
--------------------------------------------------------------------------------
\* A request that comes does not disturb the others.
LEMMA ArriveFits ==
    ASSUME IInv, NEW kind \in Kinds, Arrive(kind)
    PROVE  IInv'
<1>1. PICK program \in Programs(kind) :
        tx' = Append(tx, [kind |-> kind, todo |-> program, end |-> "open",
                          new |-> {}, gone |-> {}, changed |-> {}, read |-> {},
                          aim |-> {}, plan |-> {}, run |-> {}, refused |-> FALSE,
                          before |-> Requests \ Open])
  BY DEF Arrive
<1> DEFINE t == [kind |-> kind, todo |-> program, end |-> "open",
                 new |-> {}, gone |-> {}, changed |-> {}, read |-> {},
                 aim |-> {}, plan |-> {}, run |-> {}, refused |-> FALSE,
                 before |-> Requests \ Open]
           n == Len(tx) + 1
<1>2. db' = db /\ tx' = Append(tx, t)
  BY <1>1 DEF Arrive
<1>3. /\ DOMAIN t = Fields /\ t.kind = kind /\ t.todo = program /\ t.end = "open"
      /\ t.new = {} /\ t.gone = {} /\ t.changed = {} /\ t.read = {} /\ t.aim = {}
      /\ t.plan = {} /\ t.run = {} /\ t.refused = FALSE /\ t.before = Ended
  BY DEF Fields, Ended, Open
<1>4. Ordered(kind, program) /\ Starts(kind, program)
  BY ProgramFits
<1> HIDE DEF t
<1>5. PICK S : tx \in Seq(S)
  BY DEF IInv, IsSeq
<1>6. /\ Len(tx) \in Nat /\ Requests = 1..Len(tx) /\ tx' \in Seq(S \cup {t})
      /\ Len(tx') = n /\ DOMAIN tx' = 1..n
      /\ tx'[n] = t /\ \A q \in 1..Len(tx) : tx'[q] = tx[q]
  BY <1>2, <1>5 DEF Requests
<1>7. /\ Requests' = Requests \cup {n} /\ n \notin Requests /\ n \in Nat
      /\ tx'[n] = t /\ \A q \in Requests : tx'[q] = tx[q] /\ q \in Nat /\ q < n
  BY <1>6 DEF Requests
<1> HIDE DEF n
<1>8. Later
  BY <1>7 DEF Later
<1>9. Open' = Open \cup {n}
  BY <1>3, <1>7 DEF Open
<1>10. ASSUME NEW q \in Requests, NEW u \in {tx'[q]} PROVE Good(q, u)'
  <2>1. Good(q, u)
    BY <1>7 DEF IInv, WInv
  <2>2. QED
    BY <2>1, <1>2, <1>8, GoodStays
<1>11. ASSUME NEW q \in {n}, NEW u \in {tx'[q]} PROVE Good(q, u)'
  <2>1. Shape(n, t)
    BY <1>3, <1>7 DEF Shape, Ended
  <2>2. Ordered(t.kind, t.todo)
    BY <1>3, <1>4
  <2>3. RowsFit(n, t) /\ Whole(t)
    BY <1>3, NoRows DEF RowsFit, Whole
  <2>4. Swept(n, t)
    BY <1>3, <1>4 DEF Swept, Starts
  <2>5. Repeats(t)
    <3>1. Writers({}, "step") = {}
      BY DEF Writers, In
    <3>2. QED
      BY <3>1, <1>3, <1>4, NoRows DEF Repeats, Starts
  <2>6. Promotes(t)
    <3>1. t.kind = "promote" => t.todo # <<>> /\ Len(t.todo) = 4
      BY <1>3, <1>4 DEF Starts
    <3>2. \A k : k = 4 => ~(k < 4)
      OBVIOUS
    <3>3. t.kind = "promote" => ~(Len(t.todo) < 4)
      BY <3>1, <3>2, Zenon
    <3>4. QED
      BY <3>1, <3>3 DEF Promotes
  <2>7. Spares(t)
    <3>1. t.kind = "delete_all" => Len(t.todo) = 9
      BY <1>3, <1>4 DEF Starts
    <3>2. QED
      BY <3>1, <1>3 DEF Spares
  <2>8. Good(n, t)
    BY <2>1, <2>2, <2>3, <2>4, <2>5, <2>6, <2>7 DEF Good
  <2>9. q = n /\ u = t
    BY <1>7, <1>11
  <2>10. Good(q, u)
    BY <2>8, <2>9
  <2>11. QED
    BY <2>10, <1>2, <1>8, GoodStays
<1>12. \A q \in Requests' : \A u \in {tx'[q]} : Good(q, u)'
  BY <1>7, <1>10, <1>11
<1>13. HeldBy(t) = {} /\ System(t.changed)
  BY <1>3, NoRows DEF HeldBy
<1>14. Exclusive'
  <2>1. \A p, o \in Open' : p # o => HeldBy(tx'[p]) \cap HeldBy(tx'[o]) = {}
    <3> SUFFICES ASSUME NEW p \in Open', NEW o \in Open', p # o
                 PROVE  HeldBy(tx'[p]) \cap HeldBy(tx'[o]) = {}
      OBVIOUS
    <3>1. CASE p = n \/ o = n
      BY <3>1, <1>7, <1>13
    <3>2. CASE p # n /\ o # n
      BY <3>2, <1>7, <1>9 DEF IInv, WInv, Exclusive, Open
    <3>3. QED
      BY <3>1, <3>2
  <2>2. QED
    BY <2>1 DEF Exclusive, HeldBy, IdsOf
<1>15. Stored'
  <2>1. Rows(db)'
    BY <1>2, <1>8, RowsStay DEF IInv, WInv, Stored
  <2>2. \A x \in db : x.by # 0 => x.by \in Requests /\ tx'[x.by] = tx[x.by]
    BY <1>7 DEF IInv, WInv, Stored, Rows, Genuine
  <2>3. QED
    BY <2>1, <2>2, <1>2 DEF IInv, WInv, Stored, Inserted
<1>16. SystemKept'
  <2>1. \A p \in Requests' : Promoted(p)' => p \in Requests /\ Promoted(p)
    BY <1>3, <1>7 DEF Promoted
  <2>2. \A o \in Open' : o = n \/ (o \in Open /\ tx'[o] = tx[o])
    BY <1>7, <1>9 DEF Open
  <2>3. QED
    BY <2>1, <2>2, <1>2, <1>7, <1>13 DEF IInv, WInv, SystemKept, System
<1>17. IsSeq(tx')
  BY <1>6 DEF IsSeq
<1>18. QED
  BY <1>12, <1>14, <1>15, <1>16, <1>17 DEF IInv, WInv, IsSeq
--------------------------------------------------------------------------------
LEMMA InitIInv == Init => IInv
<1> SUFFICES ASSUME Init PROVE IInv
  OBVIOUS
<1>1. tx = <<>> /\ Requests = {} /\ Open = {} /\ IsSeq(tx)
  BY NoSeq DEF Init, Requests, Open
<1>2. ASSUME NEW x \in db PROVE Genuine(x) /\ x.by = 0
  <2>1. x.of = {} => OnePiece(x.of)
    BY NoRows
  <2>2. \/ x = Row(1, "workflow", 0, 0, {}, {}) \/ x = Row(2, "step", 0, 0, {}, {})
        \/ x = Row(3, "parameter", 0, 0, {}, {}) \/ x = Row(4, "action", 0, 0, {}, {})
        \/ x = Row(5, "analysis", 0, 1, {}, {})
        \/ x = Row(6, "template", 0, 1, {"active"}, {})
    BY DEF Init
  <2>3. /\ DOMAIN x = RowFields /\ x.by = 0 /\ x.of = {}
        /\ x.id \in 1..6 /\ x.table = FirstTable(x.id)
    BY <2>2 DEF Row, RowFields, FirstTable
  <2>4. QED
    BY <2>1, <2>3 DEF Genuine
<1>3. IsFiniteSet(db)
  <2> DEFINE F(S) == IsFiniteSet(S)
  <2>1. ASSUME NEW S, NEW x, IsFiniteSet(S) PROVE IsFiniteSet(S \cup {x})
    BY <2>1, FS_AddElement
  <2>2. ASSUME NEW a, NEW b, NEW c PROVE IsFiniteSet({a, b, c})
    <3>1. IsFiniteSet({} \cup {a})
      BY <2>1, FS_EmptySet
    <3>2. IsFiniteSet(({} \cup {a}) \cup {b})
      BY <2>1, <3>1
    <3>3. IsFiniteSet((({} \cup {a}) \cup {b}) \cup {c})
      BY <2>1, <3>2
    <3>4. (({} \cup {a}) \cup {b}) \cup {c} = {a, b, c}
      OBVIOUS
    <3>5. QED
      BY <3>3, <3>4
  <2>3. PICK a, b, c, d, e, f : db = {a, b, c, d, e, f}
    BY DEF Init
  <2>4. IsFiniteSet({a, b, c}) /\ IsFiniteSet({d, e, f})
    BY <2>2
  <2>5. IsFiniteSet({a, b, c} \cup {d, e, f})
    BY <2>4, FS_Union
  <2>6. {a, b, c} \cup {d, e, f} = {a, b, c, d, e, f}
    OBVIOUS
  <2>7. QED
    BY <2>3, <2>5, <2>6
<1>4. Stored
  BY <1>2, <1>3 DEF Stored, Rows
<1>5. QED
  BY <1>1, <1>4 DEF IInv, WInv, Exclusive, SystemKept

LEMMA NextIInv == IInv /\ [Next]_vars => IInv'
<1> SUFFICES ASSUME IInv, [Next]_vars PROVE IInv'
  OBVIOUS
<1>1. ASSUME NEW kind \in Kinds, Arrive(kind) PROVE IInv'
  BY <1>1, ArriveFits
<1>2. ASSUME NEW r \in Requests, Load(r) PROVE IInv'
  BY <1>2, LoadFits
<1>3. ASSUME NEW r \in Requests, Decide(r) PROVE IInv'
  BY <1>3, DecideFits
<1>4. ASSUME NEW r \in Requests, Pick(r) PROVE IInv'
  BY <1>4, PickFits
<1>5. ASSUME NEW r \in Requests, Aim(r) PROVE IInv'
  BY <1>5, AimFits
<1>6. ASSUME NEW r \in Requests, Remove(r) PROVE IInv'
  BY <1>6, RemoveFits
<1>7. ASSUME NEW r \in Requests, Update(r) PROVE IInv'
  BY <1>7, UpdateFits
<1>8. ASSUME NEW r \in Requests, Add(r) PROVE IInv'
  BY <1>8, AddedFits
<1>9. ASSUME NEW r \in Requests, Bind(r) PROVE IInv'
  BY <1>9, BoundFits
<1>10. ASSUME NEW r \in Requests, Plan(r) PROVE IInv'
  BY <1>10, PlanFits
<1>11. ASSUME NEW r \in Requests, Adopt(r) PROVE IInv'
  BY <1>11, AdoptedFits
<1>12. ASSUME NEW r \in Requests, Create(r) PROVE IInv'
  BY <1>12, CreatedFits
<1>13. ASSUME NEW r \in Requests, Commit(r) PROVE IInv'
  BY <1>13, CommitFits
<1>14. ASSUME NEW r \in Requests, Deadlock(r) PROVE IInv'
  BY <1>14, DeadlockFits
<1>15. CASE UNCHANGED vars
  <2>1. db' = db /\ tx' = tx
    BY <1>15 DEF vars
  <2>2. Later
    BY <2>1 DEF Later, Requests
  <2>3. \A q \in Requests' : \A u \in {tx'[q]} : Good(q, u)'
    <3> SUFFICES ASSUME NEW q \in Requests, NEW u \in {tx[q]} PROVE Good(q, u)'
      BY <2>1 DEF Requests
    <3>1. Good(q, u)
      BY DEF IInv, WInv
    <3>2. QED
      BY <3>1, <2>1, <2>2, GoodStays
  <2>4. Rows(db)'
    BY <2>1, <2>2, RowsStay DEF IInv, WInv, Stored
  <2>5. Stored' /\ Exclusive' /\ SystemKept'
    BY <2>1, <2>4 DEF IInv, WInv, Stored, Exclusive, SystemKept, Inserted, HeldBy, IdsOf,
                      System, Promoted, Open, Requests
  <2>6. QED
    BY <2>1, <2>3, <2>5 DEF IInv, WInv, IsSeq
<1>16. QED
  BY <1>1, <1>2, <1>3, <1>4, <1>5, <1>6, <1>7, <1>8, <1>9, <1>10, <1>11, <1>12, <1>13,
     <1>14, <1>15 DEF Next

LEMMA InvIInv == Spec => []IInv
<1>1. Init => IInv
  BY InitIInv
<1>2. IInv /\ [Next]_vars => IInv'
  BY NextIInv
<1>3. QED
  BY <1>1, <1>2, PTL DEF Spec
--------------------------------------------------------------------------------
(* Nothing is left of a deleted workflow (NoOrphans).  JInv adds who holds  *)
(* what: a request takes rows of the tables that its program deletes from   *)
(* (Takes), a deletion that is not refused holds the workflow (Deleting),   *)
(* one that comes after a deletion finds no workflow and writes nothing     *)
(* (ComesLate), and an analysis leaves parameters where it clears them      *)
(* (Analyzing), so that a binding still has the one that it asked for       *)
(* (Binding).                                                               *)
\* A row with the identifier is of the table.
IdIn(id, table) ==
    \/ id \in 1..6 /\ table = FirstTable(id)
    \/ \E q \in Requests : /\ id \in (10 * q + 1)..(10 * q + 9)
                           /\ table = TableAt(tx[q].kind, id - 10 * q)

\* A request that came when the workflow had been deleted, and one that came
\* after all its deletions.
Late(t) == \E d \in t.before : Deleted(d)
AfterAll(t) == \A d \in Requests : Deleted(d) => d \in t.before

Takes(t) ==
    /\ \A id \in t.gone : \E u \in TakenBy(t.kind) : IdIn(id, u)
    /\ \A id \in t.aim : IdIn(id, t.todo[1][2])

\* A deletion that is not refused deletes the workflow that it read.  Of the
\* program of the request t, n statements are left.
Deleting(t, n) ==
    t.kind \in Deletes =>
        /\ t.refused \/ n >= 7 => t.gone = {}
        /\ ~t.refused /\ n \in 1..(IF t.kind = "delete" THEN 7 ELSE 8) => 1 \in IdsOf(t.read)
        /\ ~t.refused /\ n = 0 => 1 \in t.gone \/ 1 \notin IdsOf(db)

\* An analysis leaves parameters where it clears them.
Analyzing(t, n) ==
    t.kind = "analyze" =>
        /\ t.refused \/ n >= 11 => t.gone = {}
        /\ ~t.refused /\ n <= 3 => In(t.new, "parameter") # {}

\* A request that finds no workflow writes nothing.
ComesLate(t) ==
    t.kind \in Getters /\ Late(t) =>
        t.new = {} /\ (t.todo = <<>> \/ t.todo[1] = Need("workflow"))

\* A binding is saved for a parameter that is there, and only a deletion that
\* it overlaps can take that.
Binding(t, n) ==
    t.kind = "bind" =>
        /\ t.refused \/ n = 3 => t.new = {}
        /\ t.end # "failed" /\ ~t.refused /\ n < 3 /\ AfterAll(t) =>
              In(db, "parameter") # {}

Sound(t) ==
    /\ Takes(t)
    /\ t.new # {} => t.kind \in Getters \cup {"bind"}
    /\ t.end = "open" =>
          Deleting(t, Len(t.todo)) /\ Analyzing(t, Len(t.todo)) /\ ComesLate(t)
    /\ Binding(t, Len(t.todo))

Left(t) ==
    /\ t.kind \in Getters => ~Late(t)
    /\ t.kind \in Getters \cup {"bind"}
    /\ t.kind = "bind" => ~t.refused /\ t.todo = <<>>

Remains ==
    /\ (\E d \in Requests : Deleted(d)) <=> 1 \notin IdsOf(db)
    /\ \A x \in db : x.by # 0 => \A t \in {tx[x.by]} : Left(t)

JInv == Remains /\ \A r \in Requests : \A t \in {tx[r]} : Sound(t)
--------------------------------------------------------------------------------
LEMMA IdOfRow ==
    ASSUME IInv, NEW x, Genuine(x)
    PROVE  IdIn(x.id, x.table)
BY DEF Genuine, IdIn

\* A row with the identifier is of the table.
LEMMA RowOfId ==
    ASSUME IInv, NEW x, Genuine(x), NEW u, IdIn(x.id, u)
    PROVE  x.table = u
<1> DEFINE Is(by) == [id |-> x.id, table |-> u, by |-> by, n |-> 0, on |-> {}, of |-> {}]
<1>1. \A by : /\ DOMAIN Is(by) = RowFields /\ Is(by).id = x.id /\ Is(by).table = u
              /\ Is(by).by = by /\ Is(by).of = {}
  BY DEF RowFields
<1> HIDE DEF Is
<1>2. OnePiece({})
  BY NoRows
<1>3. CASE x.id \in 1..6 /\ u = FirstTable(x.id)
  <2>1. Genuine(Is(0))
    BY <1>1, <1>2, <1>3 DEF Genuine
  <2>2. QED
    BY <2>1, <1>1, SameRow
<1>4. ASSUME NEW q \in Requests, x.id \in (10 * q + 1)..(10 * q + 9),
             u = TableAt(tx[q].kind, x.id - 10 * q)
      PROVE  x.table = u
  <2>1. Genuine(Is(q))
    BY <1>1, <1>2, <1>4 DEF Genuine
  <2>2. QED
    BY <2>1, <1>1, SameRow
<1>5. QED
  BY <1>3, <1>4 DEF IdIn

LEMMA IdOne ==
    ASSUME IInv, NEW u, IdIn(1, u)
    PROVE  u = "workflow"
<1>1. \A q \in Requests : q \in Nat \ {0}
  BY Indexes
<1>2. \A q \in Requests : 1 \notin (10 * q + 1)..(10 * q + 9)
  BY <1>1
<1>3. QED
  BY <1>2 DEF IdIn, FirstTable

LEMMA IdStays ==
    ASSUME Later, NEW id, NEW u, IdIn(id, u)
    PROVE  IdIn(id, u)'
BY DEF Later, IdIn

LEMMA JLate ==
    ASSUME IInv, JInv, NEW r \in Open
    PROVE  Sound(tx[r]) /\ ComesLate(tx[r])
BY OpenFits DEF JInv, Sound

LEMMA JFits ==
    ASSUME IInv, JInv, NEW r \in Open, NEW n, n = Len(tx[r].todo)
    PROVE  /\ Sound(tx[r]) /\ ComesLate(tx[r])
           /\ Deleting(tx[r], n) /\ Analyzing(tx[r], n) /\ Binding(tx[r], n)
BY OpenFits DEF JInv, Sound

LEMMA OfDeletion ==
    ASSUME NEW kind \in Deletes, NEW s, NEW n \in Nat \ {0}, Orderly(kind, s, n)
    PROVE  \/ n > 7 /\ s[1] \in {"need", "not"} /\ s[2] = "workflow"
           \/ n \in 2..7 /\ s[1] = "clear" /\ s[2] # "workflow"
           \/ n = 1 /\ s[1] = "drop" /\ s[2] = "workflow"
BY DEF Orderly, Drop, Need, Not

LEMMA OfAnalysis ==
    ASSUME NEW kind, kind = "analyze", NEW s, NEW n \in Nat \ {0}, Orderly(kind, s, n)
    PROVE  /\ s[1] \in Refuses => n = 13
           /\ s[1] \in {"clear", "drop"} => n \in 7..11
           /\ n = 4 => s[1] = "insert" /\ s[2] = "parameter"
BY DEF Orderly, Insert

LEMMA OfBinding ==
    ASSUME NEW kind, kind = "bind", NEW s, NEW n \in Nat \ {0}, Orderly(kind, s, n)
    PROVE  /\ n <= 3
           /\ n = 3 => s = Need("parameter") /\ s[1] = "need"
           /\ s[1] \in Refuses => n = 3
           /\ s[1] \notin {"clear", "drop"}
BY DEF Orderly, Need, TakenBy, Deletes

\* The next statement.
LEMMA NextIs ==
    ASSUME IInv, NEW r \in Open, tx[r].todo # <<>>,
           NEW n, n = Len(tx[r].todo)
    PROVE  /\ Orderly(tx[r].kind, tx[r].todo[1], n) /\ n \in Nat \ {0}
           /\ Len(Tail(tx[r].todo)) = n - 1
           /\ Tail(tx[r].todo) = <<>> <=> n = 1
           /\ ~tx[r].refused /\ tx[r].end = "open" /\ DOMAIN tx[r] = Fields
           /\ tx[r].todo[1][1] # "clear" => tx[r].aim = {}
<1> DEFINE p == tx[r].todo
<1>0. p = tx[r].todo /\ p # <<>> /\ n = Len(p)
  OBVIOUS
<1> HIDE DEF p
<1>1. /\ InOrder(tx[r].kind, p, 1) /\ n \in Nat \ {0}
      /\ Len(Tail(p)) = n - 1 /\ (Tail(p) = <<>> <=> n = 1)
  BY <1>0, OpenTail
<1>2. n - 1 + 1 = n
  BY <1>1
<1>3. Orderly(tx[r].kind, p[1], n)
  BY <1>0, <1>1, <1>2 DEF InOrder
<1>4. Shape(r, tx[r]) /\ Swept(r, tx[r]) /\ tx[r].end = "open"
  BY OpenFits DEF Good
<1>5. QED
  BY <1>0, <1>1, <1>3, <1>4 DEF Shape, Swept
--------------------------------------------------------------------------------
\* What a step leaves of a request that it does not change.
LEMMA LateSame ==
    ASSUME Later, NEW q, NEW t, Shape(q, t)
    PROVE  Late(t)' <=> Late(t)
BY DEF Later, Shape, Ended, Late, Deleted

LEMMA AfterAllThen ==
    ASSUME Later, NEW t, AfterAll(t)'
    PROVE  AfterAll(t)
<1> SUFFICES ASSUME NEW d \in Requests, Deleted(d) PROVE d \in t.before
  BY DEF AfterAll
<1>1. Deleted(d)' /\ d \in Requests'
  BY DEF Later, Deleted
<1>2. QED
  BY <1>1 DEF AfterAll

LEMMA SoundStays ==
    ASSUME Later, NEW q, NEW t, Shape(q, t), Sound(t),
           1 \notin IdsOf(db) => 1 \notin IdsOf(db'),
           t.kind = "bind" /\ AfterAll(t)' /\ In(db, "parameter") # {}
              => In(db', "parameter") # {}
    PROVE  Sound(t)'
<1>1. Takes(t)'
  BY IdStays DEF Sound, Takes
<1>2. t.end = "open" => \A n \in {Len(t.todo)} : Deleting(t, n)' /\ Analyzing(t, n)'
  BY DEF Sound, Deleting, Analyzing, IdsOf, In
<1>3. t.end = "open" => ComesLate(t)'
  BY LateSame DEF Sound, ComesLate
<1>4. \A n \in {Len(t.todo)} : Binding(t, n)'
  BY AfterAllThen DEF Sound, Binding, In
<1>5. QED
  BY <1>1, <1>2, <1>3, <1>4 DEF Sound

\* A step of one open request that stores nothing.
LEMMA GoingSound ==
    ASSUME IInv, JInv, NEW r \in Open, NEW t, Becomes(r, t),
           t.kind = tx[r].kind, t.before = tx[r].before, t.end # "done", Sound(t)
    PROVE  JInv'
<1>1. /\ Requests' = Requests /\ r \in Requests /\ db' = db
      /\ tx'[r] = t /\ \A q \in Requests \ {r} : tx'[q] = tx[q]
  BY DEF Becomes, Open, Requests
<1>2. Later
  BY <1>1 DEF Later, Open
<1>3. \A q \in Requests : Shape(q, tx[q])
  BY DEF IInv, WInv, Good
<1>4. Shape(r, tx[r]) /\ tx[r].end = "open"
  BY <1>1, <1>3 DEF Open
<1>5. \A d \in Requests : Deleted(d)' <=> Deleted(d)
  BY <1>1, <1>4 DEF Deleted
<1>6. ASSUME NEW u, NEW q, u.before = tx[q].before, q \in Requests
      PROVE  Late(u)' <=> Late(u)
  BY <1>3, <1>5, <1>6 DEF Late, Shape, Ended
<1>7. \A u : AfterAll(u)' <=> AfterAll(u)
  BY <1>1, <1>5 DEF AfterAll
<1>8. ASSUME NEW u, NEW q \in Requests, u.before = tx[q].before, Sound(u) PROVE Sound(u)'
  <2>1. Takes(u)'
    BY <1>2, <1>8, IdStays DEF Sound, Takes
  <2>2. u.end = "open" => \A n \in {Len(u.todo)} : Deleting(u, n)' /\ Analyzing(u, n)'
    BY <1>1, <1>8 DEF Sound, Deleting, Analyzing, IdsOf, In
  <2>3. u.end = "open" => ComesLate(u)'
    BY <1>6, <1>8 DEF Sound, ComesLate
  <2>4. \A n \in {Len(u.todo)} : Binding(u, n)'
    BY <1>1, <1>7, <1>8 DEF Sound, Binding, In
  <2>5. QED
    BY <2>1, <2>2, <2>3, <2>4, <1>8 DEF Sound
<1>9. \A q \in Requests : \A u \in {tx'[q]} : Sound(u) /\ u.before = tx[q].before
  BY <1>1 DEF JInv
<1>10. \A q \in Requests' : \A u \in {tx'[q]} : Sound(u)'
  BY <1>1, <1>8, <1>9
<1>11. ASSUME NEW x \in db', x.by # 0, NEW u \in {tx'[x.by]} PROVE Left(u)'
  <2>1. x \in db /\ x.by \in Requests /\ tx[x.by].end = "done"
    BY <1>1, <1>11 DEF IInv, WInv, Stored, Rows, Genuine
  <2>2. u = tx[x.by]
    BY <1>1, <1>4, <1>11, <2>1
  <2>3. Left(u)
    BY <1>11, <2>1, <2>2 DEF JInv, Remains
  <2>4. Late(u)' <=> Late(u)
    BY <1>6, <2>1, <2>2
  <2>5. QED
    BY <2>3, <2>4 DEF Left
<1>12. Remains'
  <2>1. (\E d \in Requests' : Deleted(d)') <=> 1 \notin IdsOf(db)'
    BY <1>1, <1>5 DEF JInv, Remains, IdsOf
  <2>2. QED
    BY <2>1, <1>11 DEF Remains
<1>13. QED
  BY <1>10, <1>12 DEF JInv
--------------------------------------------------------------------------------
\* Statements that write nothing, once they have what they read.
LEMMA ReadSound ==
    ASSUME IInv, JInv, NEW r \in Open, NEW t, tx[r].todo # <<>>,
           tx[r].todo[1][1] \in Reads,
           t.kind = tx[r].kind, t.before = tx[r].before, t.end = "open",
           t.refused = tx[r].refused, t.todo = Tail(tx[r].todo),
           t.new = tx[r].new, t.gone = tx[r].gone, t.aim = tx[r].aim,
           t.kind \in Deletes => 1 \in IdsOf(t.read),
           t.kind \in Getters => ~Late(t),
           t.kind = "bind" /\ tx[r].todo[1] = Need("parameter") => In(db, "parameter") # {}
    PROVE  Sound(t)
<1> DEFINE n == Len(tx[r].todo)
           m == Len(t.todo)
           s == tx[r].todo[1]
<1>1. n = Len(tx[r].todo) /\ s = tx[r].todo[1] /\ s[1] \in Reads
  OBVIOUS
<1>2. m = Len(Tail(tx[r].todo))
  OBVIOUS
<1> HIDE DEF n, m, s
<1>3. /\ Orderly(tx[r].kind, s, n) /\ n \in Nat \ {0} /\ m = n - 1
      /\ ~tx[r].refused /\ tx[r].end = "open" /\ tx[r].aim = {}
  BY <1>1, <1>2, NextIs DEF Reads
<1>4. /\ Sound(tx[r])
      /\ Deleting(tx[r], n) /\ Analyzing(tx[r], n) /\ Binding(tx[r], n)
  BY <1>1, JFits
<1>5. Takes(t)
  BY <1>3, <1>4 DEF Sound, Takes
<1>6. Deleting(t, m)
  <2> SUFFICES ASSUME t.kind \in Deletes PROVE Deleting(t, m)
    BY DEF Deleting
  <2>0. /\ tx[r].kind \in Deletes /\ n \in Nat \ {0} /\ Orderly(tx[r].kind, s, n)
        /\ s[1] \notin {"clear", "drop"}
    BY <1>1, <1>3 DEF Reads
  <2>1. n > 7
    BY ONLY <2>0, OfDeletion
  <2>2. QED
    BY <1>3, <1>4, <2>1 DEF Deleting
<1>7. Analyzing(t, m)
  <2> SUFFICES ASSUME t.kind = "analyze" PROVE Analyzing(t, m)
    BY DEF Analyzing
  <2>0. /\ tx[r].kind = "analyze" /\ n \in Nat \ {0} /\ Orderly(tx[r].kind, s, n)
        /\ s[1] # "insert"
    BY <1>1, <1>3 DEF Reads
  <2>1. n # 4
    BY ONLY <2>0, OfAnalysis
  <2>2. /\ n >= 11 => tx[r].gone = {}
        /\ n <= 3 => In(tx[r].new, "parameter") # {}
    BY <1>3, <1>4 DEF Analyzing
  <2>3. (m >= 11 => n >= 11) /\ (m <= 3 => n <= 3)
    BY <1>3, <2>1
  <2>4. QED
    BY <1>3, <2>2, <2>3 DEF Analyzing
<1>8. ComesLate(t)
  BY DEF ComesLate
<1>9. Binding(t, m)
  <2> SUFFICES ASSUME t.kind = "bind" PROVE Binding(t, m)
    BY DEF Binding
  <2>1. n <= 3 /\ (n = 3 => s = Need("parameter"))
    BY <1>3, OfBinding
  <2>2. n < 3 => Binding(t, m)
    BY <1>3, <1>4 DEF Binding, AfterAll
  <2>3. n = 3 => Binding(t, m)
    BY <1>1, <1>3, <2>1 DEF Binding
  <2>4. QED
    BY <1>3, <2>1, <2>2, <2>3
<1>10. QED
  BY <1>4, <1>5, <1>6, <1>7, <1>8, <1>9 DEF Sound, m

LEMMA RefusedSound ==
    ASSUME IInv, JInv, NEW r \in Open, Becomes(r, Refused(tx[r])),
           tx[r].todo # <<>>, tx[r].todo[1][1] \in Refuses
    PROVE  JInv'
<1> DEFINE t == Refused(tx[r])
           n == Len(tx[r].todo)
           s == tx[r].todo[1]
<1>1. n = Len(tx[r].todo) /\ s = tx[r].todo[1] /\ s[1] \in Refuses /\ Becomes(r, t)
  OBVIOUS
<1>2. DOMAIN tx[r] = Fields
  BY OpenFits DEF Good, Shape
<1>3. /\ t.kind = tx[r].kind /\ t.before = tx[r].before /\ t.end = tx[r].end
      /\ t.refused = TRUE /\ t.todo = <<>>
      /\ t.new = tx[r].new /\ t.gone = tx[r].gone /\ t.aim = tx[r].aim
  BY <1>2 DEF Refused, Fields
<1> HIDE DEF n, s, t
<1>4. /\ Orderly(tx[r].kind, s, n) /\ n \in Nat \ {0}
      /\ tx[r].end = "open" /\ tx[r].aim = {}
  BY <1>1, NextIs DEF Refuses
<1>5. /\ Sound(tx[r]) /\ ComesLate(tx[r])
      /\ Deleting(tx[r], n) /\ Analyzing(tx[r], n) /\ Binding(tx[r], n)
  BY <1>1, JFits
<1>6. Takes(t)
  BY <1>3, <1>4, <1>5 DEF Sound, Takes
<1>7. Deleting(t, 0)
  <2>1. t.kind \in Deletes => n > 7
    BY <1>1, <1>3, <1>4, OfDeletion DEF Refuses
  <2>2. QED
    BY <1>3, <1>4, <1>5, <2>1 DEF Deleting
<1>8. Analyzing(t, 0)
  <2>1. t.kind = "analyze" => n = 13
    BY <1>1, <1>3, <1>4, OfAnalysis
  <2>2. QED
    BY <1>3, <1>5, <2>1 DEF Analyzing
<1>9. ComesLate(t)
  BY <1>3, <1>5 DEF ComesLate, Late
<1>10. Binding(t, 0)
  <2>1. t.kind = "bind" => n = 3
    BY <1>1, <1>3, <1>4, OfBinding
  <2>2. QED
    BY <1>3, <1>5, <2>1 DEF Binding
<1>11. Len(t.todo) = 0
  BY <1>3
<1>12. Sound(t)
  BY <1>3, <1>5, <1>6, <1>7, <1>8, <1>9, <1>10, <1>11 DEF Sound
<1>13. QED
  BY <1>1, <1>3, <1>4, <1>12, GoingSound

LEMMA RolledSound ==
    ASSUME IInv, JInv, NEW r \in Open, Becomes(r, RolledBack(tx[r]))
    PROVE  JInv'
<1> DEFINE t == RolledBack(tx[r])
<1>1. tx[r].end = "open" /\ DOMAIN tx[r] = Fields
  BY OpenFits DEF Good, Shape
<1>2. /\ t.kind = tx[r].kind /\ t.before = tx[r].before
      /\ t.new = {} /\ t.gone = {} /\ t.aim = {}
      /\ \/ t.end = "failed"
         \/ t.end = "open" /\ t.kind \in {"end", "agent_end"}
  BY <1>1 DEF RolledBack, Learning, Fields
<1>3. Becomes(r, t)
  OBVIOUS
<1> HIDE DEF t
<1>4. Sound(t)
  BY <1>2 DEF Sound, Takes, Deleting, Analyzing, ComesLate, Binding, Deletes, Getters
<1>5. QED
  BY <1>2, <1>3, <1>4, GoingSound

\* Whoever needs the workflow, and finds it, did not come late.
LEMMA LoadSound ==
    ASSUME IInv, JInv, NEW r \in Requests, Load(r)
    PROVE  JInv'
<1> DEFINE rows == Loaded(r, Table(r))
           t == [Past(r) EXCEPT !.read = {x \in @ : x.table # Table(r)} \cup rows]
           p == tx[r].todo
<1>1. /\ r \in Open /\ p = tx[r].todo /\ p # <<>>
      /\ p[1][1] \in {"read", "some", "one", "need"} /\ Table(r) = p[1][2]
  BY DEF Load, At, Table
<1>2. \/ Becomes(r, RolledBack(tx[r]))
      \/ Becomes(r, Refused(tx[r])) /\ p[1][1] \in {"some", "need"}
      \/ Becomes(r, t) /\ (p[1][1] \in {"some", "need"} => rows # {})
  BY DEF Load, At
<1>3. CASE Becomes(r, RolledBack(tx[r]))
  BY <1>1, <1>3, RolledSound
<1>4. CASE Becomes(r, Refused(tx[r])) /\ p[1][1] \in {"some", "need"}
  BY <1>1, <1>4, RefusedSound DEF Refuses
<1>5. CASE Becomes(r, t) /\ (p[1][1] \in {"some", "need"} => rows # {})
  <2>1. DOMAIN tx[r] = Fields /\ tx[r].end = "open"
    BY <1>1, OpenFits DEF Good, Shape
  <2>2. /\ t.kind = tx[r].kind /\ t.before = tx[r].before /\ t.end = "open"
        /\ t.refused = tx[r].refused /\ t.todo = Tail(p)
        /\ t.new = tx[r].new /\ t.gone = tx[r].gone /\ t.aim = tx[r].aim
        /\ t.read = {x \in tx[r].read : x.table # Table(r)} \cup rows
    BY <2>1 DEF Past, Fields
  <2>3. Becomes(r, t)
    BY <1>5
  <2>4. /\ Rows(rows)
        /\ \A x \in rows : /\ x.table = Table(r)
                           /\ \E y \in Visible(r) : y.id = x.id /\ y.by = x.by /\ y.table = Table(r)
    BY <1>1, LoadedFits
  <2>5. /\ Rows(Visible(r))
        /\ \A x \in Visible(r) : x.by # r =>
              \E y \in db : y.id = x.id /\ y.by = x.by /\ y.table = x.table
    BY <1>1, VisibleFits
  <2> HIDE DEF t, p, rows
  <2>6. t.kind \in Deletes => p[1][1] = "need" /\ p[1][2] = "workflow"
    <3> DEFINE n == Len(tx[r].todo)
    <3>1. n = Len(tx[r].todo) /\ tx[r].todo # <<>>
      BY <1>1
    <3> HIDE DEF n
    <3>2. Orderly(tx[r].kind, tx[r].todo[1], n) /\ n \in Nat \ {0}
      BY <1>1, <3>1, NextIs
    <3>3. QED
      BY <1>1, <2>2, <3>2, OfDeletion
  <2>7. ASSUME NEW x \in rows, Table(r) \in {"workflow", "parameter"}, tx[r].kind # "analyze"
        PROVE  In(db, Table(r)) # {} /\ (Table(r) = "workflow" => x.id = 1 /\ 1 \in IdsOf(db))
    <3>1. PICK y \in Visible(r) : y.id = x.id /\ y.by = x.by /\ y.table = Table(r)
      BY <2>4
    <3>2. Genuine(y)
      BY <2>5 DEF Rows
    <3>3. y.by # r
      <4>1. r # 0
        BY Indexes
      <4>2. y.by = r => y.table = TableAt(tx[r].kind, y.id - 10 * r)
        BY <3>2, <4>1 DEF Genuine
      <4>3. QED
        BY <2>7, <3>1, <4>2 DEF TableAt
    <3>4. PICK z \in db : z.id = y.id /\ z.table = y.table
      BY <2>5, <3>3
    <3>5. Table(r) = "workflow" => y.id = 1
      BY <3>1, <3>2, WorkflowRow
    <3>6. QED
      BY <3>1, <3>4, <3>5 DEF In, IdsOf
  <2>8. t.kind \in Deletes => 1 \in IdsOf(t.read)
    <3> SUFFICES ASSUME t.kind \in Deletes PROVE 1 \in IdsOf(t.read)
      OBVIOUS
    <3>1. p[1][1] = "need" /\ p[1][2] = "workflow"
      BY <2>6
    <3>2. Table(r) = "workflow" /\ rows # {}
      BY <1>1, <1>5, <3>1 DEF Need
    <3>3. PICK x \in rows : TRUE
      BY <3>2
    <3>4. x.id = 1
      BY <2>2, <2>7, <3>2 DEF Deletes
    <3>5. QED
      BY <2>2, <3>4 DEF IdsOf
  <2>9. t.kind \in Getters => ~Late(t)
    <3> SUFFICES ASSUME t.kind \in Getters, Late(t) PROVE FALSE
      OBVIOUS
    <3>1. ComesLate(tx[r]) /\ Late(tx[r])
      BY <1>1, <2>2, JLate DEF Late
    <3>2. p[1] = Need("workflow") /\ tx[r].new = {}
      BY <1>1, <2>2, <3>1 DEF ComesLate
    <3>3. Table(r) = "workflow" /\ rows # {}
      BY <1>1, <1>5, <3>2 DEF Need
    <3>4. PICK x \in rows : TRUE
      BY <3>3
    <3>5. PICK y \in Visible(r) : y.table = "workflow"
      BY <2>4, <3>3, <3>4
    <3>6. Genuine(y)
      BY <2>5 DEF Rows
    <3>7. y.id = 1
      BY <3>5, <3>6, WorkflowRow
    <3>8. y.by # r
      <4>1. r # 0
        BY Indexes
      <4>2. y.by = r => y.table = TableAt(tx[r].kind, y.id - 10 * r)
        BY <3>6, <4>1 DEF Genuine
      <4>3. QED
        BY <3>5, <4>2 DEF TableAt
    <3>9. 1 \in IdsOf(db)
      BY <2>5, <3>7, <3>8 DEF IdsOf
    <3>10. \E d \in Requests : Deleted(d)
      BY <1>1, <3>1, OpenFits DEF Late, Good, Shape, Ended
    <3>11. QED
      BY <3>9, <3>10 DEF JInv, Remains
  <2>10. t.kind = "bind" /\ p[1] = Need("parameter") => In(db, "parameter") # {}
    <3> SUFFICES ASSUME t.kind = "bind", p[1] = Need("parameter")
                 PROVE  In(db, "parameter") # {}
      OBVIOUS
    <3>1. Table(r) = "parameter" /\ rows # {}
      BY <1>1, <1>5 DEF Need
    <3>2. PICK x \in rows : TRUE
      BY <3>1
    <3>3. QED
      BY <2>2, <2>7, <3>1, <3>2
  <2>11. Sound(t)
    BY <1>1, <2>2, <2>8, <2>9, <2>10, ReadSound DEF p, Reads
  <2>12. QED
    BY <1>1, <2>2, <2>3, <2>11, GoingSound
<1>6. QED
  BY <1>2, <1>3, <1>4, <1>5

LEMMA DecideSound ==
    ASSUME IInv, JInv, NEW r \in Requests, Decide(r)
    PROVE  JInv'
<1> DEFINE t == Past(r)
<1>1. /\ r \in Open /\ tx[r].todo # <<>> /\ tx[r].todo[1][1] = "not"
      /\ Becomes(r, Refused(tx[r])) \/ Becomes(r, t)
  BY DEF Decide, At
<1>2. CASE Becomes(r, Refused(tx[r]))
  BY <1>1, <1>2, RefusedSound DEF Refuses
<1>3. CASE Becomes(r, t)
  <2>1. DOMAIN tx[r] = Fields /\ tx[r].end = "open"
    BY <1>1, OpenFits DEF Good, Shape
  <2>2. /\ t.kind = tx[r].kind /\ t.before = tx[r].before /\ t.end = "open"
        /\ t.refused = tx[r].refused /\ t.todo = Tail(tx[r].todo)
        /\ t.new = tx[r].new /\ t.gone = tx[r].gone /\ t.aim = tx[r].aim
        /\ t.read = tx[r].read
    BY <2>1 DEF Past, Fields
  <2>3. Becomes(r, t)
    BY <1>3
  <2> HIDE DEF t
  <2>4. t.kind \in Deletes => 1 \in IdsOf(t.read)
    <3> DEFINE n == Len(tx[r].todo)
    <3>1. n = Len(tx[r].todo)
      OBVIOUS
    <3> HIDE DEF n
    <3>2. Orderly(tx[r].kind, tx[r].todo[1], n) /\ n \in Nat \ {0} /\ ~tx[r].refused
      BY <1>1, <3>1, NextIs
    <3>3. Deleting(tx[r], n)
      BY <1>1, <3>1, JFits
    <3>4. tx[r].kind \in Deletes => n = 8 /\ tx[r].kind = "delete_all"
      BY <1>1, <3>2 DEF Orderly, Need, Drop
    <3>5. QED
      BY <2>2, <3>2, <3>3, <3>4 DEF Deleting
  <2>5. t.kind \in Getters => ~Late(t)
    BY <1>1, <2>2, JLate DEF ComesLate, Late, Need
  <2>6. tx[r].todo[1] # Need("parameter")
    BY <1>1 DEF Need
  <2>7. Sound(t)
    BY <1>1, <2>2, <2>4, <2>5, <2>6, ReadSound DEF Reads
  <2>8. QED
    BY <1>1, <2>2, <2>3, <2>7, GoingSound
<1>4. QED
  BY <1>1, <1>2, <1>3

\* Statements that no deletion has, and none that came late gets to.
LEMMA OtherSound ==
    ASSUME IInv, JInv, NEW r \in Open, NEW t, Becomes(r, t), tx[r].todo # <<>>,
           tx[r].todo[1][1] \in {"pick", "adopt", "create"},
           t.kind = tx[r].kind, t.before = tx[r].before, t.end = "open",
           t.refused = tx[r].refused, t.todo = Tail(tx[r].todo),
           t.new = tx[r].new, t.gone = tx[r].gone, t.aim = tx[r].aim
    PROVE  JInv'
<1>1. t.kind \notin Deletes
  <2> DEFINE n == Len(tx[r].todo)
  <2>1. n = Len(tx[r].todo)
    OBVIOUS
  <2> HIDE DEF n
  <2>2. Orderly(tx[r].kind, tx[r].todo[1], n) /\ n \in Nat \ {0}
    BY <2>1, NextIs
  <2>3. QED
    BY <2>2, OfDeletion
<1>2. t.kind \in Getters => ~Late(t)
  BY JLate DEF ComesLate, Late, Need
<1>3. tx[r].todo[1] # Need("parameter")
  BY DEF Need
<1>4. Sound(t)
  BY <1>1, <1>2, <1>3, ReadSound DEF Reads
<1>5. QED
  BY <1>4, GoingSound

LEMMA PickSound ==
    ASSUME IInv, JInv, NEW r \in Requests, Pick(r)
    PROVE  JInv'
<1> DEFINE T(x) == [Past(r) EXCEPT !.read = {y \in @ : y.table = Table(r) => y = x}]
<1>1. /\ r \in Open /\ tx[r].todo # <<>> /\ tx[r].todo[1][1] = "pick"
      /\ Becomes(r, Refused(tx[r])) \/ \E x : Becomes(r, T(x))
  BY DEF Pick, At
<1>2. CASE Becomes(r, Refused(tx[r]))
  BY <1>1, <1>2, RefusedSound DEF Refuses
<1>3. ASSUME NEW x, Becomes(r, T(x)) PROVE JInv'
  <2> DEFINE t == T(x)
  <2>1. DOMAIN tx[r] = Fields /\ tx[r].end = "open"
    BY <1>1, OpenFits DEF Good, Shape
  <2>2. /\ t.kind = tx[r].kind /\ t.before = tx[r].before /\ t.end = "open"
        /\ t.refused = tx[r].refused /\ t.todo = Tail(tx[r].todo)
        /\ t.new = tx[r].new /\ t.gone = tx[r].gone /\ t.aim = tx[r].aim
    BY <2>1 DEF Past, Fields
  <2>3. Becomes(r, t)
    BY <1>3
  <2> HIDE DEF t
  <2>4. QED
    BY <1>1, <2>2, <2>3, OtherSound
<1>4. QED
  BY <1>1, <1>2, <1>3

LEMMA AdoptSound ==
    ASSUME IInv, JInv, NEW r \in Requests, Adopt(r)
    PROVE  JInv'
<1> DEFINE t == [Past(r) EXCEPT !.plan = UNION {x.of : x \in In(tx[r].read, "template")}]
<1>1. /\ r \in Open /\ tx[r].todo # <<>> /\ tx[r].todo[1][1] = "adopt"
      /\ Becomes(r, t)
  BY DEF Adopt, At
<1>2. DOMAIN tx[r] = Fields /\ tx[r].end = "open"
  BY <1>1, OpenFits DEF Good, Shape
<1>3. /\ t.kind = tx[r].kind /\ t.before = tx[r].before /\ t.end = "open"
      /\ t.refused = tx[r].refused /\ t.todo = Tail(tx[r].todo)
      /\ t.new = tx[r].new /\ t.gone = tx[r].gone /\ t.aim = tx[r].aim
  BY <1>2 DEF Past, Fields
<1> HIDE DEF t
<1>4. QED
  BY <1>1, <1>3, OtherSound

LEMMA CreateSound ==
    ASSUME IInv, JInv, NEW r \in Requests, Create(r)
    PROVE  JInv'
<1> DEFINE t == [Past(r) EXCEPT !.run = IF tx[r].plan # {} THEN tx[r].plan
                                        ELSE {x.by : x \in In(tx[r].read, "step")}]
<1>0. /\ r \in Open /\ tx[r].todo # <<>> /\ tx[r].todo[1][1] = "create"
      /\ Becomes(r, RolledBack(tx[r])) \/ Becomes(r, t)
  BY DEF Create, At
<1> SUFFICES ASSUME Becomes(r, t) PROVE JInv'
  BY <1>0, RolledSound
<1>1. /\ r \in Open /\ tx[r].todo # <<>> /\ tx[r].todo[1][1] = "create"
      /\ Becomes(r, t)
  BY <1>0
<1>2. DOMAIN tx[r] = Fields /\ tx[r].end = "open"
  BY <1>1, OpenFits DEF Good, Shape
<1>3. /\ t.kind = tx[r].kind /\ t.before = tx[r].before /\ t.end = "open"
      /\ t.refused = tx[r].refused /\ t.todo = Tail(tx[r].todo)
      /\ t.new = tx[r].new /\ t.gone = tx[r].gone /\ t.aim = tx[r].aim
  BY <1>2 DEF Past, Fields
<1> HIDE DEF t
<1>4. QED
  BY <1>1, <1>3, OtherSound

\* Bind and Plan put other statements in the place of theirs.
LEMMA InsteadSound ==
    ASSUME IInv, JInv, NEW r \in Open, NEW left, Becomes(r, [tx[r] EXCEPT !.todo = left]),
           tx[r].todo # <<>>, tx[r].todo[1][1] \in {"bind", "plan"},
           tx[r].kind = (IF tx[r].todo[1][1] = "bind" THEN "bind" ELSE "run_with"),
           tx[r].kind = "bind" => Len(left) = 1
    PROVE  JInv'
<1> DEFINE t == [tx[r] EXCEPT !.todo = left]
           n == Len(tx[r].todo)
<1>1. n = Len(tx[r].todo) /\ Becomes(r, t)
  OBVIOUS
<1>2. DOMAIN tx[r] = Fields
  BY OpenFits DEF Good, Shape
<1>3. /\ t.kind = tx[r].kind /\ t.before = tx[r].before /\ t.end = tx[r].end
      /\ t.refused = tx[r].refused /\ t.todo = left
      /\ t.new = tx[r].new /\ t.gone = tx[r].gone /\ t.aim = tx[r].aim
  BY <1>2 DEF Fields
<1> HIDE DEF t, n
<1>4. /\ Orderly(tx[r].kind, tx[r].todo[1], n) /\ n \in Nat \ {0}
      /\ ~tx[r].refused /\ tx[r].end = "open" /\ tx[r].aim = {}
  BY <1>1, NextIs
<1>5. Sound(tx[r]) /\ ComesLate(tx[r]) /\ Binding(tx[r], n)
  BY <1>1, JFits
<1>6. Takes(t) /\ ComesLate(t)
  BY <1>3, <1>4, <1>5 DEF Sound, Takes, ComesLate, Late, Need
<1>7. t.kind \notin Deletes /\ t.kind # "analyze"
  BY <1>3 DEF Deletes
<1>8. \A m \in {Len(t.todo)} : Binding(t, m)
  <2> SUFFICES ASSUME t.kind = "bind", NEW m, m = Len(t.todo) PROVE Binding(t, m)
    BY DEF Binding
  <2>1. tx[r].todo[1][1] = "bind"
    BY <1>3
  <2>2. n <= 3 /\ n # 3
    BY <1>3, <1>4, <2>1, OfBinding
  <2>3. m = 1
    BY <1>3
  <2>4. AfterAll(t) => AfterAll(tx[r])
    BY <1>3 DEF AfterAll
  <2>5. n < 3 /\ m < 3 /\ m # 3 /\ tx[r].kind = "bind"
    <3>1. n \in Nat
      BY <1>4
    <3>2. \A k \in Nat : k <= 3 /\ k # 3 => k < 3
      OBVIOUS
    <3>3. n < 3
      BY <2>2, <3>1, <3>2, Zenon
    <3>4. 1 < 3 /\ 1 # 3
      OBVIOUS
    <3>5. QED
      BY <1>3, <2>3, <3>3, <3>4, Zenon
  <2>6. AfterAll(t) => In(db, "parameter") # {}
    BY <1>4, <1>5, <2>4, <2>5 DEF Binding
  <2>7. QED
    BY <1>3, <1>4, <2>5, <2>6 DEF Binding
<1>9. Sound(t)
  BY <1>3, <1>5, <1>6, <1>7, <1>8 DEF Sound, Deleting, Analyzing
<1>10. QED
  BY <1>1, <1>3, <1>4, <1>9, GoingSound

LEMMA BindSound ==
    ASSUME IInv, JInv, NEW r \in Requests, Bind(r)
    PROVE  JInv'
<1> DEFINE left == IF In(tx[r].read, "binding") = {} THEN <<Insert("binding")>>
                   ELSE <<Change("binding", "touch")>>
<1>1. r \in Open /\ tx[r].todo # <<>> /\ tx[r].todo[1][1] = "bind"
  BY DEF Bind, At
<1>2. [Past(r) EXCEPT !.todo = left] = [tx[r] EXCEPT !.todo = left]
  BY DEF Past
<1>3. Becomes(r, [tx[r] EXCEPT !.todo = left])
  BY <1>2 DEF Bind
<1>4. tx[r].kind = "bind"
  <2> DEFINE p == tx[r].todo
  <2>1. p = tx[r].todo /\ p # <<>> /\ p[1][1] = "bind"
    BY <1>1
  <2> HIDE DEF p
  <2>2. InOrder(tx[r].kind, p, 1)
    BY <1>1, <2>1, OpenTail
  <2>3. QED
    BY <2>1, <2>2 DEF InOrder
<1>5. Len(left) = 1
  OBVIOUS
<1> HIDE DEF left
<1>6. QED
  BY <1>1, <1>3, <1>4, <1>5, InsteadSound

LEMMA PlanSound ==
    ASSUME IInv, JInv, NEW r \in Requests, Plan(r)
    PROVE  JInv'
<1>1. r \in Open /\ tx[r].todo # <<>> /\ tx[r].todo[1][1] = "plan"
  BY DEF Plan, At
<1>2. \E left : Becomes(r, [tx[r] EXCEPT !.todo = left])
  BY DEF Plan
<1>3. tx[r].kind = "run_with"
  <2> DEFINE p == tx[r].todo
  <2>1. p = tx[r].todo /\ p # <<>> /\ p[1][1] = "plan"
    BY <1>1
  <2> HIDE DEF p
  <2>2. InOrder(tx[r].kind, p, 1)
    BY <1>1, <2>1, OpenTail
  <2>3. QED
    BY <2>1, <2>2 DEF InOrder
<1>4. QED
  BY <1>1, <1>2, <1>3, InsteadSound
--------------------------------------------------------------------------------
\* The rows that a statement deletes or updates are of its table.
LEMMA TargetIds ==
    ASSUME IInv, JInv, NEW r \in Open, tx[r].todo # <<>>,
           tx[r].todo[1][1] \in {"clear", "drop", "change"}
    PROVE  \A id \in Targets(r) :
              \/ IdIn(id, tx[r].todo[1][2])
              \/ tx[r].todo[1][1] = "drop" /\ tx[r].todo[1][2] = "workflow" /\ IdIn(id, "step")
<1> DEFINE u == Table(r)
<1>1. u = tx[r].todo[1][2]
  BY DEF Table
<1>2. /\ \A id \in tx[r].aim : IdIn(id, u)
  BY <1>1, JLate DEF Sound, Takes
<1>3. Rows(tx[r].read)
  BY OpenFits DEF Good, RowsFit
<1>4. Rows(Visible(r))
  BY VisibleFits
<1> HIDE DEF u
<1>5. \A id \in IdsOf(In(Visible(r), u)) \cup IdsOf(In(tx[r].read, u)) : IdIn(id, u)
  BY <1>3, <1>4, IdOfRow DEF Rows, IdsOf, In
<1>6. \A id \in IdsOf(In(Visible(r), "step")) : IdIn(id, "step")
  BY <1>4, IdOfRow DEF Rows, IdsOf, In
<1>7. Cascaded(r) = {} \/ (/\ tx[r].todo[1][1] = "drop" /\ u = "workflow"
                          /\ Cascaded(r) = IdsOf(In(Visible(r), "step")))
  BY DEF Cascaded, At, u
<1>8. \A id \in Targets(r) :
         \/ id \in tx[r].aim \/ id \in IdsOf(In(Visible(r), u))
         \/ id \in IdsOf(In(tx[r].read, u)) \/ id \in Cascaded(r)
  BY DEF Targets, At, u
<1>9. QED
  BY <1>1, <1>2, <1>5, <1>6, <1>7, <1>8

LEMMA AimSound ==
    ASSUME IInv, JInv, NEW r \in Requests, Aim(r)
    PROVE  JInv'
<1> DEFINE t == [tx[r] EXCEPT !.aim = Targets(r)]
           n == Len(tx[r].todo)
<1>1. /\ r \in Open /\ tx[r].todo # <<>> /\ tx[r].todo[1][1] = "clear" /\ Becomes(r, t)
      /\ n = Len(tx[r].todo)
  BY DEF Aim, At
<1>2. DOMAIN tx[r] = Fields /\ tx[r].end = "open"
  BY <1>1, OpenFits DEF Good, Shape
<1>3. /\ t.kind = tx[r].kind /\ t.before = tx[r].before /\ t.end = tx[r].end
      /\ t.refused = tx[r].refused /\ t.todo = tx[r].todo /\ t.read = tx[r].read
      /\ t.new = tx[r].new /\ t.gone = tx[r].gone /\ t.aim = Targets(r)
  BY <1>2 DEF Fields
<1> HIDE DEF t, n
<1>4. /\ Sound(tx[r]) /\ ComesLate(tx[r])
      /\ Deleting(tx[r], n) /\ Analyzing(tx[r], n) /\ Binding(tx[r], n)
  BY <1>1, JLate, JFits
<1>5. Takes(t)
  <2>1. \A id \in Targets(r) : IdIn(id, tx[r].todo[1][2])
    BY <1>1, TargetIds
  <2>2. QED
    BY <1>3, <1>4, <2>1 DEF Sound, Takes
<1>6. Deleting(t, n) /\ Analyzing(t, n) /\ Binding(t, n) /\ ComesLate(t)
  BY <1>3, <1>4 DEF Deleting, Analyzing, Binding, ComesLate, AfterAll, Late
<1>7. n = Len(t.todo)
  BY <1>1, <1>3
<1>8. Sound(t)
  BY <1>3, <1>4, <1>5, <1>6, <1>7 DEF Sound
<1>9. QED
  BY <1>1, <1>2, <1>3, <1>8, GoingSound

LEMMA RemoveSound ==
    ASSUME IInv, JInv, NEW r \in Requests, Remove(r)
    PROVE  JInv'
<1> DEFINE aims == Targets(r)
           t == [Past(r) EXCEPT
                    !.gone = @ \cup (aims \cap IdsOf(db)), !.aim = {},
                    !.new = {x \in @ : x.id \notin aims},
                    !.changed = {x \in @ : x.id \notin aims},
                    !.read = {x \in @ : x.id \notin aims}]
           n == Len(tx[r].todo)
           m == Len(t.todo)
           s == tx[r].todo[1]
<1>1. /\ r \in Open /\ tx[r].todo # <<>> /\ s[1] \in {"clear", "drop"} /\ Becomes(r, t)
      /\ n = Len(tx[r].todo) /\ s = tx[r].todo[1] /\ m = Len(t.todo)
  BY DEF Remove, At
<1>2. DOMAIN tx[r] = Fields
  BY <1>1, OpenFits DEF Good, Shape
<1>3. /\ t.kind = tx[r].kind /\ t.before = tx[r].before /\ t.end = tx[r].end
      /\ t.refused = tx[r].refused /\ t.todo = Tail(tx[r].todo)
      /\ t.read = {x \in tx[r].read : x.id \notin aims}
      /\ t.new = {x \in tx[r].new : x.id \notin aims}
      /\ t.gone = tx[r].gone \cup (aims \cap IdsOf(db)) /\ t.aim = {}
  BY <1>2 DEF Past, Fields
<1>4. \A id \in aims : \/ IdIn(id, s[2])
                       \/ s[1] = "drop" /\ s[2] = "workflow" /\ IdIn(id, "step")
  BY <1>1, TargetIds
<1>5. s[1] = "drop" => IdsOf(In(tx[r].read, s[2])) \subseteq aims
  BY <1>1 DEF Targets, At, Table
<1> HIDE DEF t, n, m, s, aims
<1>6. /\ Orderly(tx[r].kind, s, n) /\ n \in Nat \ {0} /\ m = n - 1
      /\ ~tx[r].refused /\ tx[r].end = "open"
  BY <1>1, <1>3, NextIs
<1>7. /\ Sound(tx[r]) /\ ComesLate(tx[r])
      /\ Deleting(tx[r], n) /\ Analyzing(tx[r], n) /\ Binding(tx[r], n)
  BY <1>1, JLate, JFits
<1>8. Takes(t)
  <2>1. s[2] \in TakenBy(tx[r].kind)
    BY <1>1, <1>6 DEF Orderly
  <2>2. s[2] = "workflow" => "step" \in TakenBy(tx[r].kind)
    BY <2>1 DEF TakenBy, Tables
  <2>3. \A id \in aims : \E u \in TakenBy(tx[r].kind) : IdIn(id, u)
    BY <1>4, <2>1, <2>2
  <2>4. QED
    BY <1>3, <1>7, <2>3 DEF Sound, Takes
<1>9. Deleting(t, m)
  <2> SUFFICES ASSUME tx[r].kind \in Deletes PROVE Deleting(t, m)
    BY <1>3 DEF Deleting
  <2>1. \/ n \in 2..7 /\ s[1] = "clear" /\ s[2] # "workflow"
        \/ n = 1 /\ s[1] = "drop" /\ s[2] = "workflow"
    BY <1>1, <1>6, OfDeletion
  <2>2. PICK x \in tx[r].read : x.id = 1
    BY <1>6, <1>7, <2>1 DEF Deleting, IdsOf
  <2>3. CASE n \in 2..7 /\ s[2] # "workflow"
    <3>1. 1 \notin aims
      BY <1>4, <2>3, IdOne
    <3>2. 1 \in IdsOf(t.read)
      BY <1>3, <2>2, <3>1 DEF IdsOf
    <3>3. QED
      BY <1>3, <1>6, <2>3, <3>2 DEF Deleting
  <2>4. CASE n = 1 /\ s[1] = "drop" /\ s[2] = "workflow"
    <3>1. Genuine(x)
      BY <1>1, OpenFits DEF Good, RowsFit, Rows
    <3>2. x.table = "workflow"
      BY <2>2, <3>1, WorkflowRow
    <3>3. 1 \in aims
      BY <1>5, <2>2, <2>4, <3>2 DEF IdsOf, In
    <3>4. QED
      BY <1>3, <1>6, <2>4, <3>3 DEF Deleting
  <2>5. QED
    BY <2>1, <2>3, <2>4
<1>10. Analyzing(t, m)
  <2>1. tx[r].kind = "analyze" => n \in 7..11
    BY <1>1, <1>6, OfAnalysis
  <2>2. QED
    BY <1>3, <1>6, <2>1 DEF Analyzing
<1>11. ComesLate(t)
  BY <1>1, <1>3, <1>7 DEF ComesLate, Late, Need
<1>12. Binding(t, m)
  <2>1. tx[r].kind # "bind"
    BY <1>1, <1>6, OfBinding
  <2>2. QED
    BY <1>3, <2>1 DEF Binding
<1>13. Sound(t)
  BY <1>1, <1>3, <1>7, <1>8, <1>9, <1>10, <1>11, <1>12 DEF Sound
<1>14. QED
  BY <1>1, <1>3, <1>6, <1>13, GoingSound

LEMMA UpdateSound ==
    ASSUME IInv, JInv, NEW r \in Requests, Update(r)
    PROVE  JInv'
<1> DEFINE after == After(r)
           t == [Past(r) EXCEPT
                    !.changed = {x \in @ : x.id \notin IdsOf(after)} \cup
                                {x \in after : x.id \in IdsOf(db)},
                    !.new = {x \in @ : x.id \notin IdsOf(after)} \cup
                            {x \in after : x.id \notin IdsOf(db)},
                    !.read = {x \in @ : x.id \notin IdsOf(after)} \cup after]
           n == Len(tx[r].todo)
           m == Len(t.todo)
           s == tx[r].todo[1]
<1>1. /\ r \in Open /\ tx[r].todo # <<>> /\ s[1] = "change"
      /\ n = Len(tx[r].todo) /\ s = tx[r].todo[1] /\ m = Len(t.todo)
      /\ Becomes(r, RolledBack(tx[r])) \/ Becomes(r, t)
  BY DEF Update, At, After
<1>2. CASE Becomes(r, RolledBack(tx[r]))
  BY <1>1, <1>2, RolledSound
<1>3. CASE Becomes(r, t)
  <2>1. DOMAIN tx[r] = Fields
    BY <1>1, OpenFits DEF Good, Shape
  <2>2. /\ t.kind = tx[r].kind /\ t.before = tx[r].before /\ t.end = tx[r].end
        /\ t.refused = tx[r].refused /\ t.todo = Tail(tx[r].todo)
        /\ t.new = {x \in tx[r].new : x.id \notin IdsOf(after)} \cup
                   {x \in after : x.id \notin IdsOf(db)}
        /\ t.gone = tx[r].gone /\ t.aim = tx[r].aim
    BY <2>1 DEF Past, Fields
  <2>3. Becomes(r, t)
    BY <1>3
  <2>4. /\ Rows(after)
        /\ \A z \in after : \E x \in Visible(r) :
              Genuine(x) /\ z.id = x.id /\ z.by = x.by /\ z.table = x.table
    BY <1>1, AfterFits
  <2> HIDE DEF t, n, m, s, after
  <2>5. /\ Orderly(tx[r].kind, s, n) /\ n \in Nat \ {0} /\ m = n - 1
        /\ ~tx[r].refused /\ tx[r].end = "open" /\ tx[r].aim = {}
    BY <1>1, <2>2, NextIs
  <2>6. /\ Sound(tx[r]) /\ ComesLate(tx[r])
        /\ Deleting(tx[r], n) /\ Analyzing(tx[r], n) /\ Binding(tx[r], n)
    BY <1>1, JLate, JFits
  <2>7. Takes(t)
    BY <2>2, <2>5, <2>6 DEF Sound, Takes
\* Of the rows that it wrote itself, those that it changes stay.
  <2>8. RowsFit(r, tx[r])
    BY <1>1, OpenFits DEF Good
  <2>9. tx[r].new = {} => t.new = {}
    <3> SUFFICES ASSUME tx[r].new = {}, NEW z \in after, z.id \notin IdsOf(db) PROVE FALSE
      BY <2>2
    <3>1. PICK x \in Visible(r) : z.id = x.id
      BY <2>4
    <3>2. x \in db \/ x \in tx[r].changed
      BY DEF Visible
    <3>3. QED
      BY <2>5, <2>8, <3>1, <3>2 DEF RowsFit, IdsOf
  <2>10. In(tx[r].new, "parameter") # {} => In(t.new, "parameter") # {}
    <3> SUFFICES ASSUME NEW x \in tx[r].new, x.table = "parameter"
                 PROVE  \E z \in t.new : z.table = "parameter"
      BY DEF In
    <3>1. Genuine(x) /\ x.by = r
      BY <2>8 DEF RowsFit, Rows
    <3>2. CASE x.id \notin IdsOf(after)
      BY <2>2, <3>2
    <3>3. CASE x.id \in IdsOf(after)
      <4>1. PICK z \in after : z.id = x.id
        BY <3>3 DEF IdsOf
      <4>2. Genuine(z)
        BY <2>4 DEF Rows
      <4>3. z.by = r /\ z.table = "parameter"
        BY <3>1, <4>1, <4>2, SameRow
      <4>4. z.id \notin IdsOf(db)
        <5> SUFFICES ASSUME NEW y \in db, y.id = z.id PROVE FALSE
          BY DEF IdsOf
        <5>1. Genuine(y) /\ (y.by # 0 => tx[y.by].end = "done")
          BY DEF IInv, WInv, Stored, Rows
        <5>2. y.by = r
          BY <4>2, <4>3, <5>1, SameRow
        <5>3. r # 0
          BY Indexes
        <5>4. QED
          BY <2>5, <5>1, <5>2, <5>3
      <4>5. QED
        BY <2>2, <4>1, <4>3, <4>4
    <3>4. QED
      BY <3>2, <3>3
  <2>11. Deleting(t, m)
    <3>1. tx[r].kind \notin Deletes
      BY <1>1, <2>5, OfDeletion
    <3>2. QED
      BY <2>2, <3>1 DEF Deleting
  <2>12. Analyzing(t, m)
    <3> SUFFICES ASSUME tx[r].kind = "analyze" PROVE Analyzing(t, m)
      BY <2>2 DEF Analyzing
    <3>1. n # 4
      BY <1>1, <2>5, OfAnalysis
    <3>2. QED
      BY <2>2, <2>5, <2>6, <2>10, <3>1 DEF Analyzing
  <2>13. ComesLate(t)
    BY <1>1, <2>2, <2>6 DEF ComesLate, Late, Need
  <2>14. Binding(t, m)
    <3> SUFFICES ASSUME tx[r].kind = "bind" PROVE Binding(t, m)
      BY <2>2 DEF Binding
    <3>1. n <= 3 /\ n # 3
      BY <1>1, <2>5, OfBinding
    <3>2. AfterAll(t) => AfterAll(tx[r])
      BY <2>2 DEF AfterAll
    <3>3. n < 3 /\ m # 3
      BY <2>5, <3>1
    <3>4. QED
      BY <2>2, <2>5, <2>6, <3>2, <3>3 DEF Binding
  <2>15. Sound(t)
    BY <1>1, <2>2, <2>6, <2>7, <2>9, <2>11, <2>12, <2>13, <2>14 DEF Sound
  <2>16. QED
    BY <1>1, <2>2, <2>3, <2>5, <2>15, GoingSound
<1>4. QED
  BY <1>1, <1>2, <1>3

LEMMA AddSound ==
    ASSUME IInv, JInv, NEW r \in Requests, Add(r)
    PROVE  JInv'
<1> DEFINE x == NewRow(r)
           t == [Past(r) EXCEPT !.new = @ \cup {x}]
           n == Len(tx[r].todo)
           m == Len(t.todo)
           s == tx[r].todo[1]
<1>1. /\ r \in Open /\ tx[r].todo # <<>> /\ s[1] = "insert"
      /\ n = Len(tx[r].todo) /\ s = tx[r].todo[1] /\ m = Len(t.todo)
      /\ Becomes(r, RolledBack(tx[r])) \/ Becomes(r, t)
  BY DEF Add, At
<1>2. CASE Becomes(r, RolledBack(tx[r]))
  BY <1>1, <1>2, RolledSound
<1>3. CASE Becomes(r, t)
  <2>1. DOMAIN tx[r] = Fields
    BY <1>1, OpenFits DEF Good, Shape
  <2>2. /\ t.kind = tx[r].kind /\ t.before = tx[r].before /\ t.end = tx[r].end
        /\ t.refused = tx[r].refused /\ t.todo = Tail(tx[r].todo)
        /\ t.new = tx[r].new \cup {x} /\ t.gone = tx[r].gone /\ t.aim = tx[r].aim
    BY <2>1 DEF Past, Fields
  <2>3. Becomes(r, t)
    BY <1>3
  <2>4. s[2] = "parameter" => x.table = "parameter"
    BY <1>1 DEF NewRow, Table, Row
  <2> HIDE DEF t, n, m, s, x
  <2>5. /\ Orderly(tx[r].kind, s, n) /\ n \in Nat \ {0} /\ m = n - 1
        /\ ~tx[r].refused /\ tx[r].end = "open" /\ tx[r].aim = {}
    BY <1>1, <2>2, NextIs
  <2>6. /\ Sound(tx[r]) /\ ComesLate(tx[r])
        /\ Deleting(tx[r], n) /\ Analyzing(tx[r], n) /\ Binding(tx[r], n)
    BY <1>1, JLate, JFits
  <2>7. Takes(t)
    BY <2>2, <2>5, <2>6 DEF Sound, Takes
  <2>8. t.kind \in Getters \cup {"bind"}
    BY <1>1, <2>2, <2>5 DEF Orderly
  <2>9. Deleting(t, m)
    BY <2>8 DEF Deleting, Deletes, Getters
  <2>10. Analyzing(t, m)
    <3> SUFFICES ASSUME tx[r].kind = "analyze" PROVE Analyzing(t, m)
      BY <2>2 DEF Analyzing
    <3>1. n = 4 => In(t.new, "parameter") # {}
      <4>1. n = 4 => s[2] = "parameter"
        BY <1>1, <2>5, OfAnalysis
      <4>2. QED
        BY <2>2, <2>4, <4>1 DEF In
    <3>2. In(tx[r].new, "parameter") # {} => In(t.new, "parameter") # {}
      BY <2>2 DEF In
    <3>3. QED
      BY <2>2, <2>5, <2>6, <3>1, <3>2 DEF Analyzing
  <2>11. ComesLate(t)
    BY <1>1, <2>2, <2>6 DEF ComesLate, Late, Need
  <2>12. Binding(t, m)
    <3> SUFFICES ASSUME tx[r].kind = "bind" PROVE Binding(t, m)
      BY <2>2 DEF Binding
    <3>1. n <= 3 /\ n # 3
      BY <1>1, <2>5, OfBinding
    <3>2. AfterAll(t) => AfterAll(tx[r])
      BY <2>2 DEF AfterAll
    <3>3. n < 3 /\ m # 3
      BY <2>5, <3>1
    <3>4. QED
      BY <2>2, <2>5, <2>6, <3>2, <3>3 DEF Binding
  <2>13. Sound(t)
    BY <1>1, <2>2, <2>6, <2>7, <2>8, <2>9, <2>10, <2>11, <2>12 DEF Sound
  <2>14. QED
    BY <1>1, <2>2, <2>3, <2>5, <2>13, GoingSound
<1>4. QED
  BY <1>1, <1>2, <1>3
--------------------------------------------------------------------------------
\* What a commit leaves of the workflow and its parameters.
LEMMA CommitLeaves ==
    ASSUME IInv, JInv, NEW r \in Requests, Commit(r)
    PROVE  /\ Deleted(r)' => 1 \notin IdsOf(db')
           /\ ~Deleted(r)' => (1 \in IdsOf(db') <=> 1 \in IdsOf(db))
           /\ ~Deleted(r)' /\ In(db, "parameter") # {} => In(db', "parameter") # {}
<1>1. /\ r \in Open /\ tx[r].todo = <<>>
      /\ db' = {x \in db : x.id \notin Held(r)} \cup tx[r].changed \cup tx[r].new
  BY DEF Commit
<1>2. Deleted(r)' <=> tx[r].kind \in Deletes /\ ~tx[r].refused
  BY CommitChanges DEF Deleted, Deletes
<1>3. /\ Sound(tx[r]) /\ Deleting(tx[r], 0) /\ Analyzing(tx[r], 0)
  <2>1. Len(tx[r].todo) = 0
    BY <1>1
  <2>2. QED
    BY <1>1, <2>1, JLate, JFits
<1>4. Rows(db) /\ RowsFit(r, tx[r]) /\ r \in Nat \ {0}
  BY <1>1, OpenFits DEF IInv, WInv, Stored, Good
<1>5. /\ \A x \in db' :
            \/ x \in tx[r].new
            \/ x.id \notin tx[r].gone /\ \E y \in db : y.id = x.id
  BY CommitRows
<1>6. \A x \in tx[r].new : x.id # 1
  <2> SUFFICES ASSUME NEW x \in tx[r].new, x.id = 1 PROVE FALSE
    OBVIOUS
  <2>1. Genuine(x) /\ x.by = r
    BY <1>4 DEF RowsFit, Rows
  <2>2. 1 \in (10 * r + 1)..(10 * r + 9)
    BY <1>4, <2>1 DEF Genuine
  <2>3. QED
    BY <1>4, <2>2
<1>7. ASSUME NEW y \in db, y.id \notin tx[r].gone
      PROVE  \E x \in db' : x.id = y.id /\ x.table = y.table
  <2>1. CASE y.id \in IdsOf(tx[r].changed)
    <3>1. PICK c \in tx[r].changed : c.id = y.id
      BY <2>1 DEF IdsOf
    <3>2. c.table = y.table
      BY <3>1, <1>4, SameRow DEF RowsFit, Rows
    <3>3. QED
      BY <1>1, <3>1, <3>2
  <2>2. CASE y.id \notin IdsOf(tx[r].changed)
    BY <1>1, <1>7, <2>2 DEF Held
  <2>3. QED
    BY <2>1, <2>2
<1>8. Deleted(r)' => 1 \notin IdsOf(db')
  BY <1>2, <1>3, <1>5, <1>6 DEF Deleting, IdsOf
<1>9. ASSUME ~Deleted(r)' PROVE tx[r].kind \in Deletes => tx[r].gone = {}
  BY <1>2, <1>3, <1>9 DEF Deleting
<1>10. ASSUME ~Deleted(r)' PROVE 1 \in IdsOf(db') <=> 1 \in IdsOf(db)
  <2>1. 1 \notin tx[r].gone
    <3> SUFFICES ASSUME 1 \in tx[r].gone PROVE FALSE
      OBVIOUS
    <3>1. "workflow" \in TakenBy(tx[r].kind)
      BY <1>3, IdOne DEF Sound, Takes
    <3>2. tx[r].kind \in Deletes
      BY <3>1 DEF TakenBy
    <3>3. QED
      BY <1>9, <1>10, <3>2
  <2>2. 1 \in IdsOf(db) => 1 \in IdsOf(db')
    BY <1>7, <2>1 DEF IdsOf
  <2>3. 1 \in IdsOf(db') => 1 \in IdsOf(db)
    BY <1>5, <1>6 DEF IdsOf
  <2>4. QED
    BY <2>2, <2>3
<1>11. ASSUME ~Deleted(r)', NEW y \in db, y.table = "parameter"
       PROVE  In(db', "parameter") # {}
  <2>1. CASE y.id \notin tx[r].gone
    BY <1>7, <1>11, <2>1 DEF In
  <2>2. CASE y.id \in tx[r].gone
    <3>1. PICK u \in TakenBy(tx[r].kind) : IdIn(y.id, u)
      BY <1>3, <2>2 DEF Sound, Takes
    <3>2. u = "parameter"
      BY <1>4, <1>11, <3>1, RowOfId DEF Rows
    <3>3. tx[r].kind = "analyze"
      BY <1>9, <1>11, <2>2, <3>1, <3>2 DEF TakenBy
    <3>4. In(tx[r].new, "parameter") # {}
      BY <1>3, <2>2, <3>3 DEF Analyzing
    <3>5. QED
      BY <1>1, <3>4 DEF In
  <2>3. QED
    BY <2>1, <2>2
<1>12. QED
  BY <1>8, <1>10, <1>11 DEF In

LEMMA CommitSound ==
    ASSUME IInv, JInv, NEW r \in Requests, Commit(r)
    PROVE  JInv'
<1>1. /\ r \in Open /\ Requests' = Requests /\ Later
      /\ \A q \in Requests \ {r} : tx'[q] = tx[q]
      /\ tx'[r].kind = tx[r].kind /\ tx'[r].todo = <<>> /\ tx'[r].end = "done"
      /\ tx'[r].new = {} /\ tx'[r].gone = tx[r].gone \cap {1} /\ tx'[r].aim = tx[r].aim
      /\ tx'[r].refused = tx[r].refused /\ tx'[r].before = tx[r].before
  BY CommitChanges
<1>2. /\ Deleted(r)' => 1 \notin IdsOf(db')
      /\ ~Deleted(r)' => (1 \in IdsOf(db') <=> 1 \in IdsOf(db))
      /\ ~Deleted(r)' /\ In(db, "parameter") # {} => In(db', "parameter") # {}
  BY CommitLeaves
<1>3. tx[r].todo = <<>> /\ tx[r].end = "open" /\ tx[r].aim = {}
  BY <1>1, OpenFits DEF Commit, Good, Swept
<1>4. /\ Sound(tx[r]) /\ ComesLate(tx[r]) /\ Binding(tx[r], 0)
  <2>1. Len(tx[r].todo) = 0
    BY <1>3
  <2>2. QED
    BY <1>1, <2>1, JLate, JFits
<1>5. \A q \in Requests : Shape(q, tx[q]) /\ Sound(tx[q])
  BY DEF IInv, WInv, Good, JInv
<1>6. \A d \in Requests \ {r} : Deleted(d)' <=> Deleted(d)
  BY <1>1 DEF Deleted
<1>7. ~Deleted(r)
  BY <1>3 DEF Deleted
<1>8. \A q \in Requests : r \notin tx[q].before
  BY <1>3, <1>5 DEF Shape, Ended
<1>9. ASSUME NEW u, NEW q \in Requests, u.before = tx[q].before
      PROVE  Late(u)' <=> Late(u)
  BY <1>5, <1>6, <1>8, <1>9 DEF Late, Shape, Ended
<1>10. ASSUME NEW u, NEW q \in Requests, u.before = tx[q].before, AfterAll(u)'
       PROVE  AfterAll(u) /\ ~Deleted(r)'
  <2>1. ~Deleted(r)'
    BY <1>1, <1>8, <1>10 DEF AfterAll
  <2>2. QED
    BY <1>1, <1>10, <2>1, AfterAllThen
<1>11. 1 \notin IdsOf(db) => 1 \notin IdsOf(db')
  BY <1>2
<1>12. ASSUME NEW q \in Requests \ {r}, NEW u \in {tx'[q]} PROVE Sound(u)'
  <2>1. u = tx[q] /\ Shape(q, u) /\ Sound(u)
    BY <1>1, <1>5, <1>12
  <2>2. AfterAll(u)' /\ In(db, "parameter") # {} => In(db', "parameter") # {}
    BY <1>2, <1>10, <2>1
  <2>3. QED
    BY <1>1, <1>11, <2>1, <2>2, SoundStays
<1>13. ASSUME NEW w, w = tx'[r] PROVE Sound(w)'
  <2>1. Takes(w)'
    <3>1. \A id \in w.gone : \E u \in TakenBy(w.kind) : IdIn(id, u)
      BY <1>1, <1>4, <1>13 DEF Sound, Takes
    <3>2. \A id \in w.gone : \E u \in TakenBy(w.kind) : IdIn(id, u)'
      BY <1>1, <3>1, IdStays
    <3>3. QED
      BY <1>1, <1>3, <1>13, <3>2 DEF Takes
  <2>2. Binding(w, 0)'
    <3> SUFFICES ASSUME w.kind = "bind", ~w.refused, AfterAll(w)'
                 PROVE  In(db', "parameter") # {}
      BY <1>1, <1>13 DEF Binding, In
    <3>1. AfterAll(w) /\ ~Deleted(r)'
      BY <1>1, <1>10, <1>13
    <3>2. AfterAll(tx[r])
      BY <1>1, <1>13, <3>1 DEF AfterAll
    <3>3. In(db, "parameter") # {}
      BY <1>1, <1>3, <1>4, <1>13, <3>2 DEF Binding
    <3>4. QED
      BY <1>2, <3>1, <3>3
  <2>3. Len(w.todo) = 0
    BY <1>1, <1>13
  <2>4. QED
    BY <1>1, <1>13, <2>1, <2>2, <2>3 DEF Sound
<1>14. \A q \in Requests' : \A u \in {tx'[q]} : Sound(u)'
  BY <1>1, <1>12, <1>13
<1>15. ASSUME NEW x \in db', x.by # 0, NEW u \in {tx'[x.by]} PROVE Left(u)'
  <2>1. CASE x \in tx[r].new
    <3>1. x.by = r /\ u = tx'[r]
      BY <1>15, <2>1, CommitRows
    <3>2. u.kind \in Getters \cup {"bind"}
      BY <1>1, <1>4, <2>1, <3>1 DEF Sound
    <3>3. u.kind \in Getters => ~Late(tx[r])
      BY <1>1, <1>4, <2>1, <3>1 DEF ComesLate
    <3>4. Late(u)' => Late(tx[r])
      BY <1>1, <1>9, <3>1 DEF Late
    <3>5. u.kind = "bind" => ~u.refused
      BY <1>1, <1>4, <2>1, <3>1 DEF Binding
    <3>6. QED
      BY <1>1, <3>1, <3>2, <3>3, <3>4, <3>5 DEF Left
  <2>2. CASE x \notin tx[r].new
    <3>1. PICK y \in db : y.by = x.by
      BY <2>2, CommitRows
    <3>2. y.by \in Requests /\ tx[y.by].end = "done"
      BY <1>15, <3>1 DEF IInv, WInv, Stored, Rows, Genuine
    <3>3. u = tx[y.by]
      BY <1>1, <1>3, <1>15, <3>1, <3>2
    <3>4. Left(u)
      BY <1>15, <3>1, <3>3 DEF JInv, Remains
    <3>5. Late(u)' <=> Late(u)
      BY <1>9, <3>2, <3>3
    <3>6. QED
      BY <3>4, <3>5 DEF Left
  <2>3. QED
    BY <2>1, <2>2
<1>16. (\E d \in Requests' : Deleted(d)') <=> 1 \notin IdsOf(db')
  <2>1. (\E d \in Requests : Deleted(d)) <=> 1 \notin IdsOf(db)
    BY DEF JInv, Remains
  <2>2. (\E d \in Requests : Deleted(d)') <=> Deleted(r)' \/ \E d \in Requests : Deleted(d)
    BY <1>6, <1>7
  <2>3. QED
    BY <1>1, <1>2, <2>1, <2>2
<1>17. Remains'
  BY <1>15, <1>16 DEF Remains, IdsOf
<1>18. QED
  BY <1>14, <1>17 DEF JInv

LEMMA ArriveSound ==
    ASSUME IInv, JInv, NEW kind \in Kinds, Arrive(kind)
    PROVE  JInv'
<1>1. PICK program \in Programs(kind) :
        tx' = Append(tx, [kind |-> kind, todo |-> program, end |-> "open",
                          new |-> {}, gone |-> {}, changed |-> {}, read |-> {},
                          aim |-> {}, plan |-> {}, run |-> {}, refused |-> FALSE,
                          before |-> Requests \ Open])
  BY DEF Arrive
<1> DEFINE t == [kind |-> kind, todo |-> program, end |-> "open",
                 new |-> {}, gone |-> {}, changed |-> {}, read |-> {},
                 aim |-> {}, plan |-> {}, run |-> {}, refused |-> FALSE,
                 before |-> Requests \ Open]
<1>2. db' = db /\ tx' = Append(tx, t)
  BY <1>1 DEF Arrive
<1>3. /\ t.kind = kind /\ t.todo = program /\ t.end = "open"
      /\ t.new = {} /\ t.gone = {} /\ t.read = {} /\ t.aim = {}
      /\ t.refused = FALSE /\ t.before = Ended
  BY DEF Ended, Open
<1>4. Starts(kind, program)
  BY ProgramFits
<1> HIDE DEF t
<1>5. PICK S : tx \in Seq(S)
  BY DEF IInv, IsSeq
<1> PICK n : n = Len(tx) + 1
  OBVIOUS
<1>6. /\ Len(tx) \in Nat /\ Requests = 1..Len(tx)
      /\ Len(tx') = n /\ DOMAIN tx' = 1..n
      /\ tx'[n] = t /\ \A q \in 1..Len(tx) : tx'[q] = tx[q]
  BY <1>2, <1>5 DEF Requests
<1>7. /\ Requests' = Requests \cup {n} /\ n \notin Requests
      /\ tx'[n] = t /\ \A q \in Requests : tx'[q] = tx[q]
  BY <1>6 DEF Requests
<1>8. Later
  BY <1>7 DEF Later
<1>9. \A d \in Requests : Deleted(d)' <=> Deleted(d)
  BY <1>7 DEF Deleted
<1>10. ~Deleted(n)'
  BY <1>3, <1>7 DEF Deleted
<1>11. \A q \in Requests : Shape(q, tx[q]) /\ Sound(tx[q])
  BY DEF IInv, WInv, Good, JInv
<1>12. ASSUME NEW q \in Requests, NEW u \in {tx'[q]} PROVE Sound(u)'
  <2>1. Shape(q, u) /\ Sound(u)
    BY <1>7, <1>11
  <2>2. QED
    BY <1>2, <1>8, <2>1, SoundStays
<1>13. ASSUME NEW w, w = tx'[n] PROVE Sound(w)'
  <2>1. w = t
    BY <1>7, <1>13
  <2>2. Takes(w)'
    BY <1>3, <2>1 DEF Takes
  <2> DEFINE m == Len(w.todo)
  <2>3. /\ w.kind = "delete" => m = 8
        /\ w.kind = "delete_all" => m = 9
        /\ w.kind = "analyze" => m = 13
        /\ w.kind = "bind" => m = 3
    BY <1>3, <1>4, <2>1 DEF Starts
  <2>4. w.kind \in Getters => w.todo[1] = Need("workflow")
    BY <1>3, <1>4, <2>1 DEF Starts
  <2> HIDE DEF m
  <2>5. w.new = {} /\ w.gone = {} /\ w.refused = FALSE /\ w.end = "open"
    BY <1>3, <2>1
  <2>6. Deleting(w, m)'
    BY <2>3, <2>5 DEF Deleting, Deletes
  <2>7. Analyzing(w, m)'
    BY <2>3, <2>5 DEF Analyzing
  <2>8. Binding(w, m)'
    BY <2>3, <2>5 DEF Binding
  <2>9. ComesLate(w)'
    BY <2>4, <2>5 DEF ComesLate
  <2>10. QED
    BY <2>2, <2>5, <2>6, <2>7, <2>8, <2>9 DEF Sound, m
<1>14. \A q \in Requests' : \A u \in {tx'[q]} : Sound(u)'
  BY <1>7, <1>12, <1>13
<1>15. ASSUME NEW x \in db', x.by # 0, NEW u \in {tx'[x.by]} PROVE Left(u)'
  <2>1. x \in db /\ x.by \in Requests
    BY <1>2, <1>15 DEF IInv, WInv, Stored, Rows, Genuine
  <2>2. u = tx[x.by] /\ Shape(x.by, u)
    BY <1>7, <1>11, <1>15, <2>1
  <2>3. Left(u)
    BY <1>15, <2>1, <2>2 DEF JInv, Remains
  <2>4. Late(u)' <=> Late(u)
    BY <1>8, <2>2, LateSame
  <2>5. QED
    BY <2>3, <2>4 DEF Left
<1>16. Remains'
  <2>1. (\E d \in Requests' : Deleted(d)') <=> 1 \notin IdsOf(db)'
    BY <1>2, <1>7, <1>9, <1>10 DEF JInv, Remains, IdsOf
  <2>2. QED
    BY <1>15, <2>1 DEF Remains
<1>17. QED
  BY <1>14, <1>16 DEF JInv
--------------------------------------------------------------------------------
LEMMA InitJInv == Init => JInv
<1> SUFFICES ASSUME Init PROVE JInv
  OBVIOUS
<1>1. Requests = {}
  BY DEF Init, Requests
<1>2. 1 \in IdsOf(db) /\ \A x \in db : x.by = 0
  BY DEF Init, Row, IdsOf
<1>3. QED
  BY <1>1, <1>2 DEF JInv, Remains

LEMMA NextJInv == IInv /\ JInv /\ [Next]_vars => JInv'
<1> SUFFICES ASSUME IInv, JInv, [Next]_vars PROVE JInv'
  OBVIOUS
<1>1. ASSUME NEW kind \in Kinds, Arrive(kind) PROVE JInv'
  BY <1>1, ArriveSound
<1>2. ASSUME NEW r \in Requests, Load(r) PROVE JInv'
  BY <1>2, LoadSound
<1>3. ASSUME NEW r \in Requests, Decide(r) PROVE JInv'
  BY <1>3, DecideSound
<1>4. ASSUME NEW r \in Requests, Pick(r) PROVE JInv'
  BY <1>4, PickSound
<1>5. ASSUME NEW r \in Requests, Aim(r) PROVE JInv'
  BY <1>5, AimSound
<1>6. ASSUME NEW r \in Requests, Remove(r) PROVE JInv'
  BY <1>6, RemoveSound
<1>7. ASSUME NEW r \in Requests, Update(r) PROVE JInv'
  BY <1>7, UpdateSound
<1>8. ASSUME NEW r \in Requests, Add(r) PROVE JInv'
  BY <1>8, AddSound
<1>9. ASSUME NEW r \in Requests, Bind(r) PROVE JInv'
  BY <1>9, BindSound
<1>10. ASSUME NEW r \in Requests, Plan(r) PROVE JInv'
  BY <1>10, PlanSound
<1>11. ASSUME NEW r \in Requests, Adopt(r) PROVE JInv'
  BY <1>11, AdoptSound
<1>12. ASSUME NEW r \in Requests, Create(r) PROVE JInv'
  BY <1>12, CreateSound
<1>13. ASSUME NEW r \in Requests, Commit(r) PROVE JInv'
  BY <1>13, CommitSound
<1>14. ASSUME NEW r \in Requests, Deadlock(r) PROVE JInv'
  BY <1>14, RolledSound DEF Deadlock
<1>15. CASE UNCHANGED vars
  BY <1>15 DEF vars, JInv, Remains, Sound, Takes, Deleting, Analyzing, ComesLate, Binding,
     Left,
               Late, AfterAll, Deleted, Requests, IdIn, IdsOf, In
<1>16. QED
  BY <1>1, <1>2, <1>3, <1>4, <1>5, <1>6, <1>7, <1>8, <1>9, <1>10, <1>11, <1>12, <1>13,
     <1>14, <1>15 DEF Next

LEMMA InvJInv == Spec => []JInv
<1>1. Init => JInv
  BY InitJInv
<1>2. IInv /\ JInv /\ [Next]_vars => JInv'
  BY NextJInv
<1>3. QED
  BY <1>1, <1>2, InvIInv, PTL DEF Spec
--------------------------------------------------------------------------------
(* Where the foreign keys are there, no step is left either.  CInv: whoever  *)
(* has deleted the workflow's row holds every step, and while it does, and   *)
(* afterwards, nobody has inserted one.                                      *)
NoNewSteps == \A o \in Open : In(tx[o].new, "step") = {}
StepsIn(gone) == IdsOf(In(db, "step")) \subseteq gone

CInv ==
    ForeignKeys =>
        /\ 1 \notin IdsOf(db) => In(db, "step") = {} /\ NoNewSteps
        /\ \A r \in Open : 1 \in tx[r].gone => StepsIn(tx[r].gone) /\ NoNewSteps

\* A step is inserted only while the workflow is there and nobody deletes it, and
\* the workflow is deleted only with all steps, while nobody has inserted one.
LEMMA GoingEmpty ==
    ASSUME IInv, CInv, NEW r \in Open, NEW t, Becomes(r, t),
           ForeignKeys =>
               \/ In(tx[r].new, "step") # {} \/ In(t.new, "step") = {}
               \/ 1 \in IdsOf(db) /\ 1 \notin t.gone /\ \A o \in Open \ {r} : 1 \notin tx[o].gone,
           ForeignKeys /\ 1 \in t.gone =>
               \/ 1 \in tx[r].gone /\ tx[r].gone \subseteq t.gone
               \/ StepsIn(t.gone) /\ In(t.new, "step") = {}
                  /\ \A o \in Open \ {r} : In(tx[o].new, "step") = {}
    PROVE  CInv'
<1> SUFFICES ASSUME ForeignKeys PROVE CInv'
  BY DEF CInv
<1>1. /\ Requests' = Requests /\ r \in Requests /\ db' = db
      /\ tx'[r] = t /\ \A q \in Requests \ {r} : tx'[q] = tx[q]
  BY DEF Becomes, Open, Requests
<1>2. Open' \subseteq Open
  BY <1>1 DEF Open
<1>3. ASSUME NoNewSteps, In(t.new, "step") = {} PROVE NoNewSteps'
  <2> SUFFICES ASSUME NEW o \in Open' PROVE In(tx'[o].new, "step") = {}
    BY DEF NoNewSteps, In
  <2>1. o \in Open /\ (o = r \/ tx'[o] = tx[o])
    BY <1>1, <1>2 DEF Open
  <2>2. QED
    BY <1>1, <1>3, <2>1 DEF NoNewSteps
<1>4. NoNewSteps => In(tx[r].new, "step") = {}
  BY DEF NoNewSteps
<1>5. ASSUME 1 \notin IdsOf(db) PROVE In(db, "step") = {} /\ NoNewSteps'
  BY <1>3, <1>4, <1>5 DEF CInv
<1>6. ASSUME NEW p \in Open', 1 \in tx'[p].gone PROVE StepsIn(tx'[p].gone) /\ NoNewSteps'
  <2>1. CASE p # r
    <3>1. p \in Open /\ tx'[p] = tx[p]
      BY <1>1, <1>2, <2>1 DEF Open
    <3>2. StepsIn(tx[p].gone) /\ NoNewSteps
      BY <1>6, <3>1 DEF CInv
    <3>3. In(t.new, "step") = {}
      BY <1>4, <1>6, <2>1, <3>1, <3>2
    <3>4. QED
      BY <1>3, <3>1, <3>2, <3>3
  <2>2. CASE p = r /\ 1 \in tx[r].gone /\ tx[r].gone \subseteq t.gone
    <3>1. StepsIn(tx[r].gone) /\ NoNewSteps
      BY <2>2 DEF CInv
    <3>2. In(t.new, "step") = {}
      BY <1>4, <2>2, <3>1
    <3>3. StepsIn(t.gone)
      BY <2>2, <3>1 DEF StepsIn
    <3>4. QED
      BY <1>1, <1>3, <2>2, <3>1, <3>2, <3>3
  <2>3. CASE /\ p = r /\ StepsIn(t.gone) /\ In(t.new, "step") = {}
             /\ \A o \in Open \ {r} : In(tx[o].new, "step") = {}
    <3> SUFFICES ASSUME NEW o \in Open' PROVE In(tx'[o].new, "step") = {}
      BY <1>1, <2>3 DEF NoNewSteps, In
    <3>1. o \in Open /\ (o = r \/ tx'[o] = tx[o])
      BY <1>1, <1>2 DEF Open
    <3>2. QED
      BY <1>1, <2>3, <3>1
  <2>4. QED
    BY <1>1, <1>6, <2>1, <2>2, <2>3
<1>7. QED
  BY <1>1, <1>5, <1>6 DEF CInv, StepsIn, IdsOf, In

\* Steps that neither insert nor delete.
LEMMA KeepsEmpty ==
    ASSUME IInv, CInv, NEW r \in Open, NEW t, Becomes(r, t),
           \/ t.new = tx[r].new /\ t.gone = tx[r].gone
           \/ t.new = {} /\ t.gone = {}
    PROVE  CInv'
<1>1. In({}, "step") = {}
  BY DEF In
<1>2. QED
  BY <1>1, GoingEmpty

LEMMA RolledEmpty ==
    ASSUME IInv, CInv, NEW r \in Open, Becomes(r, RolledBack(tx[r]))
    PROVE  CInv'
<1> DEFINE t == RolledBack(tx[r])
<1>1. DOMAIN tx[r] = Fields
  BY OpenFits DEF Good, Shape
<1>2. Becomes(r, t) /\ t.new = {} /\ t.gone = {}
  BY <1>1 DEF RolledBack, Fields
<1> HIDE DEF t
<1>3. QED
  BY <1>2, KeepsEmpty

\* What the statements that only read leave of a request.
Unwritten(r, t) ==
    \/ t.new = tx[r].new /\ t.gone = tx[r].gone
    \/ t.new = {} /\ t.gone = {}

LEMMA OtherEmpty ==
    ASSUME IInv, CInv, NEW r \in Requests,
           \/ Load(r) \/ Decide(r) \/ Pick(r) \/ Aim(r) \/ Bind(r) \/ Plan(r) \/ Adopt(r)
           \/ Create(r)
    PROVE  CInv'
<1>1. r \in Open
  BY DEF Load, Decide, Pick, Aim, Bind, Plan, Adopt, Create, At
<1>2. DOMAIN tx[r] = Fields
  BY <1>1, OpenFits DEF Good, Shape
<1>3. Unwritten(r, RolledBack(tx[r])) /\ Unwritten(r, Refused(tx[r])) /\ Unwritten(r, Past(r))
  BY <1>2 DEF Unwritten, RolledBack, Refused, Past, Fields
<1>4. ASSUME NEW a, NEW f \in {"todo", "read", "aim", "plan", "run"}
      PROVE  /\ Unwritten(r, [tx[r] EXCEPT ![f] = a])
             /\ Unwritten(r, [Past(r) EXCEPT ![f] = a])
  BY <1>2 DEF Unwritten, Past, Fields
<1>5. \E t : Becomes(r, t) /\ Unwritten(r, t)
  <2>1. CASE Load(r)
    <3> DEFINE t == [Past(r) EXCEPT !.read = {x \in @ : x.table # Table(r)} \cup
                                              Loaded(r, Table(r))]
    <3>1. \/ Becomes(r, RolledBack(tx[r])) \/ Becomes(r, Refused(tx[r])) \/ Becomes(r, t)
      BY <2>1 DEF Load
    <3>2. Unwritten(r, t)
      BY <1>2 DEF Unwritten, Past, Fields
    <3>3. QED
      BY <1>3, <3>1, <3>2
  <2>2. CASE Decide(r)
    <3>1. Becomes(r, Refused(tx[r])) \/ Becomes(r, Past(r))
      BY <2>2 DEF Decide
    <3>2. QED
      BY <1>3, <3>1
  <2>3. CASE Pick(r)
    <3>1. CASE Becomes(r, Refused(tx[r]))
      BY <1>3, <3>1
    <3>2. CASE \E x \in In(tx[r].read, Table(r)) :
                   Becomes(r, [Past(r) EXCEPT !.read = {y \in @ : y.table = Table(r) => y = x}])
      <4>1. PICK x : Becomes(r, [Past(r) EXCEPT !.read = {y \in @ : y.table = Table(r) => y = x}])
        BY <3>2
      <4>2. Unwritten(r, [Past(r) EXCEPT !.read = {y \in @ : y.table = Table(r) => y = x}])
        BY <1>2 DEF Unwritten, Past, Fields
      <4>3. QED
        BY <4>1, <4>2
    <3>3. QED
      BY <2>3, <3>1, <3>2 DEF Pick
  <2>4. CASE Aim(r)
    <3>1. Becomes(r, [tx[r] EXCEPT !.aim = Targets(r)])
      BY <2>4 DEF Aim
    <3>2. QED
      BY <1>4, <3>1
  <2>5. CASE Bind(r)
    <3>1. \E a : Becomes(r, [Past(r) EXCEPT !.todo = a])
      BY <2>5 DEF Bind
    <3>2. QED
      BY <1>4, <3>1
  <2>6. CASE Plan(r)
    <3>1. \E a : Becomes(r, [tx[r] EXCEPT !.todo = a])
      BY <2>6 DEF Plan
    <3>2. QED
      BY <1>4, <3>1
  <2>7. CASE Adopt(r)
    <3>1. \E a : Becomes(r, [Past(r) EXCEPT !.plan = a])
      BY <2>7 DEF Adopt
    <3>2. QED
      BY <1>4, <3>1
  <2>8. CASE Create(r)
    <3>1. \/ Becomes(r, RolledBack(tx[r]))
          \/ \E a : Becomes(r, [Past(r) EXCEPT !.run = a])
      BY <2>8 DEF Create
    <3>2. QED
      BY <1>3, <1>4, <3>1
  <2>9. QED
    BY <2>1, <2>2, <2>3, <2>4, <2>5, <2>6, <2>7, <2>8
<1>6. QED
  BY <1>1, <1>5, KeepsEmpty DEF Unwritten

\* Nobody inserts that deletes the workflow.
LEMMA GoneByDeletion ==
    ASSUME IInv, JInv, NEW r \in Open, 1 \in tx[r].gone
    PROVE  tx[r].kind \in Deletes
<1>1. PICK u \in TakenBy(tx[r].kind) : IdIn(1, u)
  BY JLate DEF Sound, Takes
<1>2. u = "workflow"
  BY <1>1, IdOne
<1>3. QED
  BY <1>1, <1>2 DEF TakenBy

\* The workflow's row takes its steps with it.
LEMMA RemoveEmpty ==
    ASSUME IInv, JInv, CInv, NEW r \in Requests, Remove(r)
    PROVE  CInv'
<1> DEFINE aims == Targets(r)
           t == [Past(r) EXCEPT
                    !.gone = @ \cup (aims \cap IdsOf(db)), !.aim = {},
                    !.new = {x \in @ : x.id \notin aims},
                    !.changed = {x \in @ : x.id \notin aims},
                    !.read = {x \in @ : x.id \notin aims}]
           s == tx[r].todo[1]
<1>1. /\ r \in Open /\ tx[r].todo # <<>> /\ s = tx[r].todo[1] /\ s[1] \in {"clear", "drop"}
      /\ WaitsFor(r) = {} /\ Becomes(r, t) /\ aims = Targets(r)
  BY DEF Remove, At
<1>2. DOMAIN tx[r] = Fields
  BY <1>1, OpenFits DEF Good, Shape
<1>3. /\ t.new = {x \in tx[r].new : x.id \notin aims}
      /\ t.gone = tx[r].gone \cup (aims \cap IdsOf(db))
  BY <1>2 DEF Past, Fields
<1> HIDE DEF t, s, aims
<1>4. In(tx[r].new, "step") = {} => In(t.new, "step") = {}
  BY <1>3 DEF In
<1>5. ASSUME ForeignKeys, 1 \in t.gone, 1 \notin tx[r].gone
      PROVE  /\ StepsIn(t.gone) /\ In(t.new, "step") = {}
             /\ \A o \in Open \ {r} : In(tx[o].new, "step") = {}
  <2>1. s[2] = "workflow"
    <3>1. IdIn(1, s[2]) \/ IdIn(1, "step")
      BY <1>1, <1>3, <1>5, TargetIds
    <3>2. QED
      BY <3>1, IdOne
  <2>2. Orderly(tx[r].kind, s, Len(tx[r].todo)) /\ Len(tx[r].todo) \in Nat \ {0}
    BY <1>1, NextIs
  <2>3. tx[r].kind \in Deletes
    BY <1>1, <2>1, <2>2 DEF Orderly, TakenBy
  <2>4. s[1] = "drop"
    BY <1>1, <2>1, <2>2, <2>3, OfDeletion
  <2>5. At(r, {"drop"}) /\ Table(r) = "workflow"
    BY <1>1, <2>1, <2>4 DEF At, Table
  <2>6. IdsOf(In(Visible(r), "step")) \subseteq aims
    BY <1>1, <1>5, <2>5 DEF Targets, Cascaded, At
  <2>7. \A x \in In(db, "step") : x.id \in tx[r].gone \cup aims /\ x.id \in IdsOf(db)
    <3>1. \A x \in In(db, "step") : x.id \in tx[r].gone \cup IdsOf(In(Visible(r), "step"))
      BY <1>1, SeenOrGone
    <3>2. QED
      BY <2>6, <3>1 DEF In, IdsOf
  <2>8. StepsIn(t.gone)
    BY <1>3, <2>7 DEF StepsIn, IdsOf
  <2>9. tx[r].new = {}
    BY <1>1, <2>3, JLate DEF Sound, Getters, Deletes
  <2>10. \A o \in Open \ {r} : ~HasChild(o)
    BY <1>1, <1>5, <2>5 DEF WaitsFor
  <2>11. QED
    BY <1>4, <2>8, <2>9, <2>10 DEF HasChild, In
<1>6. QED
  BY <1>1, <1>3, <1>4, <1>5, GoingEmpty

LEMMA UpdateEmpty ==
    ASSUME IInv, CInv, NEW r \in Requests, Update(r)
    PROVE  CInv'
<1> DEFINE after == After(r)
           t == [Past(r) EXCEPT
                    !.changed = {x \in @ : x.id \notin IdsOf(after)} \cup
                                {x \in after : x.id \in IdsOf(db)},
                    !.new = {x \in @ : x.id \notin IdsOf(after)} \cup
                            {x \in after : x.id \notin IdsOf(db)},
                    !.read = {x \in @ : x.id \notin IdsOf(after)} \cup after]
<1>1. /\ r \in Open
      /\ Becomes(r, RolledBack(tx[r])) \/ Becomes(r, t)
  BY DEF Update, At, After
<1>2. DOMAIN tx[r] = Fields /\ RowsFit(r, tx[r]) /\ tx[r].end = "open"
  BY <1>1, OpenFits DEF Good, Shape
<1>3. /\ t.new = {x \in tx[r].new : x.id \notin IdsOf(after)} \cup
                 {x \in after : x.id \notin IdsOf(db)}
      /\ t.gone = tx[r].gone
  BY <1>2 DEF Past, Fields
<1>4. \A z \in after : \E x \in Visible(r) : z.id = x.id /\ z.table = x.table
  BY <1>1, AfterFits
<1> HIDE DEF t, after
<1>5. ASSUME In(tx[r].new, "step") = {} PROVE In(t.new, "step") = {}
  <2> SUFFICES ASSUME NEW z \in after, z.id \notin IdsOf(db), z.table = "step" PROVE FALSE
    BY <1>3, <1>5 DEF In
  <2>1. PICK x \in Visible(r) : z.id = x.id /\ x.table = "step"
    BY <1>4
  <2>2. x \in db \/ x \in tx[r].changed
    BY <1>5, <2>1 DEF Visible, In
  <2>3. QED
    BY <1>2, <2>1, <2>2 DEF RowsFit, IdsOf
<1>6. CASE Becomes(r, RolledBack(tx[r]))
  BY <1>1, <1>6, RolledEmpty
<1>7. CASE Becomes(r, t)
  BY <1>1, <1>3, <1>5, <1>7, GoingEmpty
<1>8. QED
  BY <1>1, <1>6, <1>7

LEMMA AddEmpty ==
    ASSUME IInv, JInv, CInv, NEW r \in Requests, Add(r)
    PROVE  CInv'
<1> DEFINE x == NewRow(r)
           t == [Past(r) EXCEPT !.new = @ \cup {x}]
<1>1. /\ r \in Open /\ At(r, {"insert"}) /\ tx[r].todo # <<>> /\ tx[r].todo[1][1] = "insert"
      /\ WaitsFor(r) = {}
      /\ Becomes(r, RolledBack(tx[r])) \/ (~Parentless(r) /\ Becomes(r, t))
  BY DEF Add, At
<1>2. DOMAIN tx[r] = Fields
  BY <1>1, OpenFits DEF Good, Shape
<1>3. t.new = tx[r].new \cup {x} /\ t.gone = tx[r].gone
  BY <1>2 DEF Past, Fields
<1>4. x.table = Table(r)
  BY <1>1, NewRowFits
<1> HIDE DEF t, x
<1>5. CASE Becomes(r, RolledBack(tx[r]))
  BY <1>1, <1>5, RolledEmpty
<1>6. CASE ~Parentless(r) /\ Becomes(r, t)
  <2>1. ASSUME ForeignKeys, x.table = "step"
        PROVE  /\ 1 \in IdsOf(db) /\ 1 \notin tx[r].gone
               /\ \A o \in Open \ {r} : 1 \notin tx[o].gone
    <3>1. AddsChild(r)
      BY <1>1, <1>4, <2>1 DEF AddsChild
    <3>2. PICK w \in db : w.table = "workflow"
      BY <1>6, <2>1, <3>1 DEF Parentless, In
    <3>3. w.id = 1
      BY <3>2, WorkflowRow DEF IInv, WInv, Stored, Rows
    <3>4. \A o \in Open \ {r} : 1 \notin tx[o].gone
      BY <1>1, <2>1, <3>1 DEF WaitsFor
    <3>5. tx[r].kind \notin Deletes
      <4>1. Orderly(tx[r].kind, tx[r].todo[1], Len(tx[r].todo))
        BY <1>1, NextIs
      <4>2. QED
        BY <1>1, <4>1 DEF Orderly, Getters, Deletes
    <3>6. 1 \notin tx[r].gone
      BY <1>1, <3>5, GoneByDeletion
    <3>7. QED
      BY <3>2, <3>3, <3>4, <3>6 DEF IdsOf
  <2>2. x.table # "step" => In(t.new, "step") = In(tx[r].new, "step")
    BY <1>3 DEF In
  <2>3. QED
    BY <1>1, <1>3, <1>6, <2>1, <2>2, GoingEmpty
<1>7. QED
  BY <1>1, <1>5, <1>6

LEMMA CommitEmpty ==
    ASSUME IInv, CInv, NEW r \in Requests, Commit(r)
    PROVE  CInv'
<1> SUFFICES ASSUME ForeignKeys PROVE CInv'
  BY DEF CInv
<1>1. /\ r \in Open /\ Requests' = Requests /\ tx'[r].end = "done"
      /\ \A q \in Requests \ {r} : tx'[q] = tx[q]
  BY CommitChanges
<1>2. \A o \in Open' : o \in Open /\ tx'[o] = tx[o]
  BY <1>1 DEF Open
<1>3. \A x \in db' : \/ x \in tx[r].new
                     \/ /\ x.id \notin tx[r].gone
                        /\ \E y \in db : y.id = x.id /\ y.table = x.table
  BY CommitRows
<1>4. NoNewSteps => NoNewSteps'
  BY <1>2 DEF NoNewSteps, In
\* A step that is stored was stored, where nobody has inserted one.
<1>5. ASSUME NoNewSteps, NEW x \in db', x.table = "step"
      PROVE  x.id \notin tx[r].gone /\ x.id \in IdsOf(In(db, "step"))
  <2>1. x \notin tx[r].new
    BY <1>1, <1>5 DEF NoNewSteps, In
  <2>2. QED
    BY <1>3, <1>5, <2>1 DEF In, IdsOf
<1>6. ASSUME 1 \notin IdsOf(db') PROVE In(db', "step") = {} /\ NoNewSteps'
  <2>1. CASE 1 \notin IdsOf(db)
    <3>1. In(db, "step") = {} /\ NoNewSteps
      BY <2>1 DEF CInv
    <3>2. QED
      BY <1>4, <1>5, <3>1 DEF In, IdsOf
  <2>2. CASE 1 \in IdsOf(db)
    <3>1. PICK y \in db : y.id = 1
      BY <2>2 DEF IdsOf
    <3>2. 1 \in Held(r)
      BY <1>6, <3>1, CommitRows DEF IdsOf
    <3>3. 1 \notin IdsOf(tx[r].changed)
      BY <1>6 DEF Commit, IdsOf
    <3>4. 1 \in tx[r].gone
      BY <3>2, <3>3 DEF Held
    <3>5. StepsIn(tx[r].gone) /\ NoNewSteps
      BY <1>1, <3>4 DEF CInv
    <3>6. QED
      BY <1>4, <1>5, <3>5 DEF StepsIn, In
  <2>3. QED
    BY <2>1, <2>2
<1>7. ASSUME NEW p \in Open', 1 \in tx'[p].gone
      PROVE  IdsOf(In(db', "step")) \subseteq tx'[p].gone /\ NoNewSteps'
  <2>1. p \in Open /\ tx'[p] = tx[p]
    BY <1>2
  <2>2. StepsIn(tx[p].gone) /\ NoNewSteps
    BY <1>7, <2>1 DEF CInv
  <2>3. \A x \in In(db', "step") : x.id \in tx'[p].gone
    BY <1>5, <2>1, <2>2 DEF StepsIn, In
  <2>4. QED
    BY <1>4, <2>2, <2>3 DEF IdsOf
<1>8. QED
  BY <1>6, <1>7 DEF CInv, IdsOf, In, StepsIn

LEMMA ArriveEmpty ==
    ASSUME IInv, CInv, NEW kind \in Kinds, Arrive(kind)
    PROVE  CInv'
<1> SUFFICES ASSUME ForeignKeys PROVE CInv'
  BY DEF CInv
<1>1. PICK program \in Programs(kind) :
        tx' = Append(tx, [kind |-> kind, todo |-> program, end |-> "open",
                          new |-> {}, gone |-> {}, changed |-> {}, read |-> {},
                          aim |-> {}, plan |-> {}, run |-> {}, refused |-> FALSE,
                          before |-> Requests \ Open])
  BY DEF Arrive
<1> DEFINE t == [kind |-> kind, todo |-> program, end |-> "open",
                 new |-> {}, gone |-> {}, changed |-> {}, read |-> {},
                 aim |-> {}, plan |-> {}, run |-> {}, refused |-> FALSE,
                 before |-> Requests \ Open]
<1>2. db' = db /\ tx' = Append(tx, t) /\ t.new = {} /\ t.gone = {}
  BY <1>1 DEF Arrive
<1> HIDE DEF t
<1>3. PICK S : tx \in Seq(S)
  BY DEF IInv, IsSeq
<1> PICK n : n = Len(tx) + 1
  OBVIOUS
<1>4. /\ Requests' = Requests \cup {n} /\ n \notin Requests
      /\ tx'[n] = t /\ \A q \in Requests : tx'[q] = tx[q]
  BY <1>2, <1>3 DEF Requests
<1>5. \A o \in Open' : o = n \/ (o \in Open /\ tx'[o] = tx[o])
  BY <1>4 DEF Open
<1>6. NoNewSteps => NoNewSteps'
  BY <1>2, <1>4, <1>5 DEF NoNewSteps, In
<1>7. \A o \in Open' : 1 \in tx'[o].gone => o \in Open /\ tx'[o] = tx[o]
  BY <1>2, <1>4, <1>5
<1>8. QED
  BY <1>2, <1>6, <1>7 DEF CInv, StepsIn, IdsOf, In

LEMMA InitCInv == Init => CInv
<1> SUFFICES ASSUME Init PROVE CInv
  OBVIOUS
<1>1. Open = {}
  BY DEF Init, Open, Requests
<1>2. 1 \in IdsOf(db)
  BY DEF Init, Row, IdsOf
<1>3. QED
  BY <1>1, <1>2 DEF CInv

LEMMA NextCInv == IInv /\ JInv /\ CInv /\ [Next]_vars => CInv'
<1> SUFFICES ASSUME IInv, JInv, CInv, [Next]_vars PROVE CInv'
  OBVIOUS
<1>1. ASSUME NEW kind \in Kinds, Arrive(kind) PROVE CInv'
  BY <1>1, ArriveEmpty
<1>2. ASSUME NEW r \in Requests,
             \/ Load(r) \/ Decide(r) \/ Pick(r) \/ Aim(r) \/ Bind(r) \/ Plan(r) \/ Adopt(r)
             \/ Create(r)
      PROVE  CInv'
  BY <1>2, OtherEmpty
<1>3. ASSUME NEW r \in Requests, Remove(r) PROVE CInv'
  BY <1>3, RemoveEmpty
<1>4. ASSUME NEW r \in Requests, Update(r) PROVE CInv'
  BY <1>4, UpdateEmpty
<1>5. ASSUME NEW r \in Requests, Add(r) PROVE CInv'
  BY <1>5, AddEmpty
<1>6. ASSUME NEW r \in Requests, Commit(r) PROVE CInv'
  BY <1>6, CommitEmpty
<1>7. ASSUME NEW r \in Requests, Deadlock(r) PROVE CInv'
  BY <1>7, RolledEmpty DEF Deadlock
<1>8. CASE UNCHANGED vars
  BY <1>8 DEF vars, CInv, NoNewSteps, StepsIn, Open, Requests, IdsOf, In
<1>9. QED
  BY <1>1, <1>2, <1>3, <1>4, <1>5, <1>6, <1>7, <1>8 DEF Next

LEMMA InvCInv == Spec => []CInv
<1>1. Init => CInv
  BY InitCInv
<1>2. IInv /\ JInv /\ CInv /\ [Next]_vars => CInv'
  BY NextCInv
<1>3. QED
  BY <1>1, <1>2, InvIInv, InvJInv, PTL DEF Spec
--------------------------------------------------------------------------------
LEMMA Orphans == ASSUME IInv, JInv, CInv PROVE NoOrphans
<1>0. In(db, "workflow") = {} /\ ForeignKeys => In(db, "step") = {}
  <2> SUFFICES ASSUME In(db, "workflow") = {}, ForeignKeys PROVE In(db, "step") = {}
    OBVIOUS
  <2>1. 1 \notin IdsOf(db)
    BY WorkflowRow DEF IInv, WInv, Stored, Rows, In, IdsOf
  <2>2. QED
    BY <2>1 DEF CInv
<1> SUFFICES ASSUME In(db, "workflow") = {}, NEW x \in db,
                    \A r \in Requests : Deleted(r) => ~Overlap(r, x.by)
             PROVE  x.table = "binding" /\ In(db, "parameter") # {}
  BY <1>0 DEF NoOrphans
<1>1. \A y \in db : Genuine(y)
  BY DEF IInv, WInv, Stored, Rows
<1>2. 1 \notin IdsOf(db)
  BY <1>1, WorkflowRow DEF In, IdsOf
<1>3. PICK d \in Requests : Deleted(d)
  BY <1>2 DEF JInv, Remains
<1>4. x.table \in Tables \ {"workflow"}
  BY <1>1 DEF In, Genuine, TableAt, FirstTable, Tables
\* Nothing is left that a deletion found.
<1>5. ASSUME NEW o \in Requests, Deleted(o) PROVE x.by \notin tx[o].before \cup {0}
  <2>1. Swept(o, tx[o])
    BY DEF IInv, WInv, Good
  <2>2. Earlier(tx[o], x.table) = {}
    BY <1>4, <1>5, <2>1 DEF Swept, Sweeps, Deleted, Deletes, Tables
  <2>3. QED
    BY <2>2 DEF Earlier, In
<1>6. x.by \in Requests
  BY <1>1, <1>3, <1>5 DEF Genuine
<1>7. \A o \in Requests : Deleted(o) => o \in tx[x.by].before
  BY <1>5, <1>6 DEF Overlap
<1> DEFINE t == tx[x.by]
<1>8. Left(t) /\ Sound(t) /\ t.end = "done"
  <2>1. x.by # 0
    BY <1>3, <1>5
  <2>2. QED
    BY <1>6, <2>1 DEF JInv, Remains, IInv, WInv, Stored
<1>9. Late(t) /\ AfterAll(t)
  BY <1>3, <1>7 DEF Late, AfterAll
<1> HIDE DEF t
<1>10. t.kind = "bind" /\ ~t.refused /\ t.todo = <<>>
  BY <1>8, <1>9 DEF Left
<1>11. In(db, "parameter") # {}
  <2>1. Len(t.todo) = 0
    BY <1>10
  <2>2. Binding(t, 0)
    BY <1>8, <2>1 DEF Sound
  <2>3. QED
    BY <1>8, <1>9, <1>10, <2>2 DEF Binding
<1>12. x.table = "binding"
  <2>1. x.by # 0
    BY <1>3, <1>5
  <2>2. QED
    BY <1>1, <1>10, <2>1 DEF t, Genuine, TableAt
<1>13. QED
  BY <1>11, <1>12
--------------------------------------------------------------------------------
(* One template is active, and the newest (OneActiveTemplate).  KInv adds   *)
(* what every open request will make of the templates: what it has left to  *)
(* do says what it wrote of them (Retired, Created) and read (ReadOne);     *)
(* whoever saw its new template as the only active one holds the one that   *)
(* was (Holds), which by Exclusive only one request does; an analysis takes *)
(* all templates or not the active one (Takeover); and nobody takes what    *)
(* was not committed (Settled).                                             *)
Templates(rows) == In(rows, "template")
Active(rows) == {x \in Templates(rows) : "active" \in x.on}
Numbered(rows) == \A x \in Templates(rows) : x.n \in Nat
Keyed(rows) == \A x, y \in Templates(rows) : x.id = y.id => x = y
Single(rows) == \A x, y \in Templates(rows) : x = y

\* What is left of a program begins with the INSERT or the UPDATE of a template,
\* still has an INSERT, or reads the active template once more.
Inserts(p) == p # <<>> /\ Inserting(p[1])
Retires(p) == p # <<>> /\ Retiring(p[1])
InsertsStill(p) == \E i \in DOMAIN p : Inserting(p[i])
LooksAgain(p) == \E i \in DOMAIN p : Looking(p[i])

\* It changes no template any more, and is not refused before it reads the
\* active one.
Quiet(p) ==
    \A i \in DOMAIN p :
        /\ Leaves(p[i])
        /\ Looking(p[i]) => \A k \in 1..i : p[k][1] \notin Refuses

\* One template is active, and the newest, as long as there is the workflow.
OneActive ==
    1 \in IdsOf(db) =>
        \E a \in Active(db) :
            \A y \in Templates(db) : y # a => "active" \notin y.on /\ y.n < a.n

\* The template that a plan retires is the one that it read, and the next one
\* of a higher version comes right after it.
Retired(t) ==
    /\ Templates(t.changed) # {} =>
          t.kind = "run_with" /\ (Templates(t.new) # {} \/ Inserts(t.todo))
    /\ Keyed(t.changed) /\ Numbered(t.changed)
    /\ \A c \in Templates(t.changed) :
          /\ "active" \notin c.on
          /\ \A y \in db : y.id = c.id => y.n = c.n
          /\ \A x \in Templates(t.new) : c.n < x.n
          /\ Inserts(t.todo) => c \in t.read

ReadOne(t) ==
    /\ t.kind = "run_with" /\ (Inserts(t.todo) \/ Retires(t.todo)) => Single(t.read)
    /\ Numbered(t.read)

Created(t) ==
    /\ Single(t.new) /\ Numbered(t.new) /\ Templates(t.new) \subseteq Active(t.new)
    /\ Templates(t.new) # {} => Quiet(t.todo)

\* Whoever read a new template of its own as the only one that is active holds
\* the one that was.
Holds(t) ==
    1 \in IdsOf(db) /\ Templates(t.new) # {} /\ ~LooksAgain(t.todo)
        => IdsOf(Active(db)) \subseteq HeldBy(t)

\* An analysis that takes the active template takes all of them, and leaves one.
Takeover(t) ==
    t.kind = "analyze" =>
        /\ 1 \in IdsOf(db) =>
              \A a \in Active(db) : a.id \in t.gone \cup t.aim =>
                  IdsOf(Templates(db)) \subseteq t.gone \cup t.aim
        /\ (\E x \in Templates(db) : x.id \in t.gone) =>
              Templates(t.new) # {} \/ InsertsStill(t.todo)

\* Nobody takes what an open request has inserted.
Settled(r, t) ==
    \A id \in t.gone \cup t.aim :
        \/ id \in 1..6
        \/ \E q \in Requests : /\ id \in (10 * q + 1)..(10 * q + 9)
                               /\ q = r \/ tx[q].end = "done"

Renewed(r, t) ==
    t.end = "open" =>
        Retired(t) /\ ReadOne(t) /\ Created(t) /\ Holds(t) /\ Takeover(t) /\ Settled(r, t)

KInv ==
    /\ OneActive /\ Keyed(db) /\ Numbered(db)
    /\ \A r \in Requests : \A t \in {tx[r]} : Renewed(r, t)
--------------------------------------------------------------------------------
\* What the first statement of a program says of the others.
LEMMA Heading ==
    ASSUME IInv, NEW r \in Open, NEW p, p = tx[r].todo, p # <<>>
    PROVE  /\ Inserts(p) <=> Inserting(p[1])
           /\ Retires(p) <=> Retiring(p[1])
           /\ LooksAgain(p) <=> Looking(p[1]) \/ LooksAgain(Tail(p))
           /\ InsertsStill(p) <=> Inserting(p[1]) \/ InsertsStill(Tail(p))
           /\ Quiet(p) => /\ Quiet(Tail(p)) /\ Leaves(p[1])
                          /\ LooksAgain(p) => p[1][1] \notin Refuses
           /\ Inserting(p[1]) => /\ tx[r].kind \in {"analyze", "run_with"}
                                 /\ LooksAgain(Tail(p)) /\ Quiet(Tail(p))
           /\ Retiring(p[1]) => /\ tx[r].kind = "run_with" /\ p[1][3] = "retire"
                                /\ Inserts(Tail(p))
           /\ Retires(Tail(p)) => Looking(p[1])
           /\ Inserts(Tail(p)) /\ tx[r].kind = "run_with" => Retiring(p[1])
           /\ Wiping(p[1]) => \/ tx[r].kind \in Deletes
                              \/ tx[r].kind = "analyze" /\ InsertsStill(Tail(p))
           /\ p[1][1] = "drop" => p[1][2] # "template"
<1> DEFINE s == Tail(p)
           n == Len(p)
           kind == tx[r].kind
<1>1. /\ InOrder(kind, p, 1) /\ n \in Nat \ {0} /\ DOMAIN p = 1..n
      /\ Len(s) = n - 1 /\ DOMAIN s = 1..(n - 1) /\ \A i \in 1..(n - 1) : s[i] = p[i + 1]
      /\ s = <<>> <=> n = 1
  BY OpenTail
<1>2. Renewing(kind, p, 1)
  BY <1>1 DEF InOrder
<1> HIDE DEF s, n, kind
<1>3. /\ \A i \in DOMAIN p : i = 1 \/ (i - 1 \in DOMAIN s /\ s[i - 1] = p[i])
      /\ \A i \in DOMAIN s : i + 1 \in DOMAIN p /\ s[i] = p[i + 1] /\ i + 1 \in 2..n
      /\ 1 \in DOMAIN p
  BY <1>1
<1>4. s # <<>> => 1 < n /\ s[1] = p[2]
  BY <1>1
<1>5. LooksAgain(p) <=> Looking(p[1]) \/ LooksAgain(s)
  BY <1>3 DEF LooksAgain
<1>6. InsertsStill(p) <=> Inserting(p[1]) \/ InsertsStill(s)
  BY <1>3 DEF InsertsStill
<1>7. ASSUME Quiet(p)
      PROVE  /\ Quiet(s) /\ Leaves(p[1])
             /\ LooksAgain(p) => p[1][1] \notin Refuses
  <2>1. ASSUME NEW i \in DOMAIN s, Looking(s[i]), NEW k \in 1..i PROVE s[k][1] \notin Refuses
    <3>1. s[k] = p[k + 1] /\ k + 1 \in 1..(i + 1)
      BY <1>1, <2>1
    <3>2. i + 1 \in DOMAIN p /\ Looking(p[i + 1])
      BY <1>3, <2>1
    <3>3. QED
      BY <1>7, <3>1, <3>2 DEF Quiet
  <2>2. Quiet(s)
    BY <1>3, <1>7, <2>1 DEF Quiet
  <2>3. ASSUME NEW i \in DOMAIN p, Looking(p[i]) PROVE p[1][1] \notin Refuses
    <3>1. 1 \in 1..i
      BY <1>1, <2>3
    <3>2. QED
      BY <1>7, <2>3, <3>1 DEF Quiet
  <2>4. QED
    BY <1>3, <1>7, <2>2, <2>3 DEF Quiet, LooksAgain
<1>8. ASSUME Inserting(p[1])
      PROVE  kind \in {"analyze", "run_with"} /\ LooksAgain(s) /\ Quiet(s)
  <2>1. /\ kind \in {"analyze", "run_with"}
        /\ \E j \in 2..n : Looking(p[j])
        /\ \A j \in 2..n : /\ Leaves(p[j])
                           /\ Looking(p[j]) => \A k \in 2..j : p[k][1] \notin Refuses
    BY <1>2, <1>8 DEF Renewing, n
  <2>2. LooksAgain(s)
    <3>1. PICK j \in 2..n : Looking(p[j])
      BY <2>1
    <3>2. j - 1 \in DOMAIN s /\ s[j - 1] = p[j]
      BY <1>1
    <3>3. QED
      BY <3>1, <3>2 DEF LooksAgain
  <2>3. ASSUME NEW i \in DOMAIN s, Looking(s[i]), NEW k \in 1..i PROVE s[k][1] \notin Refuses
    <3>1. s[k] = p[k + 1] /\ k + 1 \in 2..(i + 1)
      BY <1>1, <2>3
    <3>2. i + 1 \in 2..n /\ Looking(p[i + 1])
      BY <1>3, <2>3
    <3>3. QED
      BY <2>1, <3>1, <3>2
  <2>4. QED
    BY <1>3, <2>1, <2>2, <2>3 DEF Quiet
<1>9. Retiring(p[1]) => kind = "run_with" /\ p[1][3] = "retire" /\ Inserts(s)
  <2>1. Retiring(p[1]) => kind = "run_with" /\ p[1][3] = "retire" /\ 1 < n /\ Inserting(p[2])
    BY <1>2 DEF Renewing, n
  <2>2. QED
    BY <1>1, <2>1 DEF Inserts
<1>10. /\ Retires(s) => Looking(p[1])
       /\ Inserts(s) /\ kind = "run_with" => Retiring(p[1])
  BY <1>2, <1>4 DEF Retires, Inserts, Renewing, n
<1>11. Wiping(p[1]) => kind \in Deletes \/ (kind = "analyze" /\ InsertsStill(s))
  <2>1. ASSUME NEW j \in 2..n, Inserting(p[j]) PROVE InsertsStill(s)
    <3>1. j - 1 \in DOMAIN s /\ s[j - 1] = p[j]
      BY <1>1
    <3>2. QED
      BY <2>1, <3>1 DEF InsertsStill
  <2>2. Wiping(p[1]) =>
            kind \in Deletes \/ (kind = "analyze" /\ \E j \in 2..n : Inserting(p[j]))
    BY <1>2 DEF Renewing, n
  <2>3. QED
    BY <2>1, <2>2
<1>12. p[1][1] = "drop" => p[1][2] # "template"
  BY <1>2 DEF Renewing
<1>13. QED
  BY <1>5, <1>6, <1>7, <1>8, <1>9, <1>10, <1>11, <1>12 DEF s, kind, Inserts, Retires

LEMMA KFits ==
    ASSUME KInv, NEW r \in Open
    PROVE  /\ Retired(tx[r]) /\ ReadOne(tx[r]) /\ Created(tx[r]) /\ Holds(tx[r])
           /\ Takeover(tx[r]) /\ Settled(r, tx[r])
BY DEF KInv, Renewed, Open

\* Only analyses and runs with parameters insert templates, and nobody else has
\* rows under the identifiers of a request.
LEMMA OwnTemplates ==
    ASSUME IInv, NEW r \in Open, NEW x \in tx[r].new
    PROVE  /\ x.id \in (10 * r + 1)..(10 * r + 9) /\ x.by = r /\ x.id \notin IdsOf(db)
           /\ \A y \in tx[r].changed : y.id # x.id
           /\ x.table = "template" => tx[r].kind \in {"analyze", "run_with"}
<1>1. /\ r \in Requests /\ r \in Nat \ {0} /\ tx[r].end = "open" /\ RowsFit(r, tx[r])
  BY OpenFits DEF Good
<1>2. x.by = r /\ Genuine(x) /\ x.table = TableAt(tx[r].kind, x.id - 10 * r)
  BY NewIds
<1>3. x.id \in (10 * r + 1)..(10 * r + 9)
  BY <1>1, <1>2 DEF Genuine
<1>4. ASSUME NEW y \in db PROVE y.id # x.id
  <2>1. Genuine(y) /\ (y.by = 0 \/ tx[y.by].end = "done")
    BY DEF IInv, WInv, Stored, Rows
  <2>2. QED
    BY <1>1, <1>2, <2>1, SameRow
<1>5. \A y \in tx[r].changed : y.id \in IdsOf(db)
  BY <1>1 DEF RowsFit
<1>6. QED
  BY <1>2, <1>3, <1>4, <1>5 DEF IdsOf, TableAt

\* A step of one open request that stores nothing.
LEMMA GoingRenewed ==
    ASSUME IInv, KInv, NEW r \in Open, NEW t, Becomes(r, t),
           t.end # "done", Renewed(r, t)
    PROVE  KInv'
<1>1. /\ Requests' = Requests /\ r \in Requests /\ db' = db
      /\ tx'[r] = t /\ \A q \in Requests \ {r} : tx'[q] = tx[q]
  BY DEF Becomes, Open, Requests
<1>2. tx[r].end = "open"
  BY DEF Open
<1>3. (OneActive /\ Keyed(db) /\ Numbered(db))'
  BY <1>1 DEF KInv, OneActive, Keyed, Numbered, Templates, Active, In, IdsOf
<1>4. ASSUME NEW q \in Requests, NEW u, Renewed(q, u) PROVE Renewed(q, u)'
  <2> SUFFICES ASSUME u.end = "open"
               PROVE  (/\ Retired(u) /\ ReadOne(u) /\ Created(u) /\ Holds(u) /\ Takeover(u)
                       /\ Settled(q, u))'
    BY DEF Renewed
  <2>1. /\ Retired(u) /\ ReadOne(u) /\ Created(u) /\ Holds(u) /\ Takeover(u) /\ Settled(q, u)
    BY <1>4 DEF Renewed
  <2>2. Retired(u)'
    BY <1>1, <2>1 DEF Retired
  <2>3. Holds(u)'
    BY <1>1, <2>1 DEF Holds, Active, Templates, In, IdsOf
  <2>4. Takeover(u)'
    BY <1>1, <2>1 DEF Takeover, Active, Templates, In, IdsOf
  <2>5. Settled(q, u)'
    BY <1>1, <1>2, <2>1 DEF Settled
  <2>6. QED
    BY <2>1, <2>2, <2>3, <2>4, <2>5 DEF ReadOne, Created
<1>5. \A q \in Requests' : \A u \in {tx'[q]} : Renewed(q, u)'
  BY <1>1, <1>4 DEF KInv
<1>6. QED
  BY <1>3, <1>5 DEF KInv

\* A request that has nothing.
LEMMA BareRenewed ==
    ASSUME NEW r, NEW t, t.new = {}, t.gone = {}, t.changed = {}, t.read = {}, t.aim = {}
    PROVE  Renewed(r, t)
BY DEF Renewed, Retired, ReadOne, Created, Holds, Takeover, Settled, Single, Numbered, Keyed,
       Templates, In

LEMMA RolledRenewed ==
    ASSUME IInv, KInv, NEW r \in Open, Becomes(r, RolledBack(tx[r]))
    PROVE  KInv'
<1> DEFINE t == RolledBack(tx[r])
<1>1. DOMAIN tx[r] = Fields
  BY OpenFits DEF Good, Shape
<1>2. /\ t.new = {} /\ t.gone = {} /\ t.changed = {} /\ t.read = {} /\ t.aim = {}
      /\ t.end # "done"
  BY <1>1 DEF RolledBack, Fields
<1>3. Becomes(r, t)
  OBVIOUS
<1> HIDE DEF t
<1>4. QED
  BY <1>2, <1>3, BareRenewed, GoingRenewed

LEMMA RefusedRenewed ==
    ASSUME IInv, JInv, KInv, NEW r \in Open, Becomes(r, Refused(tx[r])),
           tx[r].todo # <<>>, tx[r].todo[1][1] \in Refuses
    PROVE  KInv'
<1> DEFINE t == Refused(tx[r])
           p == tx[r].todo
<1>1. DOMAIN tx[r] = Fields /\ tx[r].end = "open" /\ p = tx[r].todo
  BY OpenFits DEF Good, Shape
<1>2. /\ t.kind = tx[r].kind /\ t.todo = <<>> /\ t.end = "open"
      /\ t.new = tx[r].new /\ t.gone = tx[r].gone /\ t.changed = tx[r].changed
      /\ t.read = tx[r].read /\ t.aim = tx[r].aim
  BY <1>1 DEF Refused, Fields
<1>3. Becomes(r, t)
  OBVIOUS
<1>4. p # <<>> /\ p[1][1] \in Refuses
  OBVIOUS
<1> HIDE DEF t, p
<1>5. ~Inserting(p[1])
  BY <1>4 DEF Inserting, Refuses
<1>6. /\ Inserts(p) <=> Inserting(p[1])
      /\ Quiet(p) => (LooksAgain(p) => p[1][1] \notin Refuses)
  BY <1>1, <1>4, Heading
<1>7. /\ Retired(tx[r]) /\ ReadOne(tx[r]) /\ Created(tx[r]) /\ Holds(tx[r])
      /\ Takeover(tx[r]) /\ Settled(r, tx[r])
  BY KFits
<1>8. ~Inserts(t.todo) /\ ~Retires(t.todo) /\ Quiet(t.todo)
  BY <1>2 DEF Inserts, Retires, Quiet
<1>9. Retired(t)
  BY <1>1, <1>2, <1>5, <1>6, <1>7, <1>8 DEF Retired
<1>10. Created(t) /\ ReadOne(t)
  BY <1>2, <1>7, <1>8 DEF Created, ReadOne
<1>11. Holds(t)
  BY <1>1, <1>2, <1>4, <1>6, <1>7 DEF Holds, Created, HeldBy
<1>12. tx[r].kind = "analyze" => tx[r].gone = {}
  <2> DEFINE n == Len(tx[r].todo)
  <2>1. n = Len(tx[r].todo) /\ tx[r].todo # <<>>
    BY <1>1, <1>4
  <2> HIDE DEF n
  <2>2. Orderly(tx[r].kind, tx[r].todo[1], n) /\ n \in Nat \ {0}
    BY <2>1, NextIs
  <2>3. Analyzing(tx[r], n)
    BY <2>1, JFits
  <2>4. tx[r].kind = "analyze" => n = 13
    BY <1>1, <1>4, <2>2, OfAnalysis
  <2>5. QED
    BY <2>3, <2>4 DEF Analyzing
<1>13. Takeover(t)
  BY <1>2, <1>7, <1>12 DEF Takeover
<1>14. Settled(r, t)
  BY <1>2, <1>7 DEF Settled
<1>15. QED
  BY <1>2, <1>3, <1>9, <1>10, <1>11, <1>13, <1>14, GoingRenewed DEF Renewed
--------------------------------------------------------------------------------
\* The steps that only read, and those that only think.

\* A step past a statement that inserts and retires no template.
LEMMA TailRenewed ==
    ASSUME IInv, KInv, NEW r \in Open, NEW t, Becomes(r, t), tx[r].todo # <<>>,
           ~Inserting(tx[r].todo[1]), ~Retiring(tx[r].todo[1]),
           t.kind = tx[r].kind, t.end = "open", t.todo = Tail(tx[r].todo),
           Templates(t.new) = Templates(tx[r].new),
           Templates(t.changed) = Templates(tx[r].changed),
           HeldBy(tx[r]) \subseteq HeldBy(t), Numbered(t.read),
           Looking(tx[r].todo[1]) => Single(t.read) /\ Holds(t),
           Takeover(t), Settled(r, t)
    PROVE  KInv'
<1> DEFINE p == tx[r].todo
           s == Tail(p)
           h == p[1]
<1>1. /\ p = tx[r].todo /\ p # <<>> /\ s = Tail(p) /\ h = p[1] /\ t.todo = s
      /\ Looking(h) => Single(t.read) /\ Holds(t)
      /\ ~Inserting(h) /\ ~Retiring(h)
  OBVIOUS
<1> HIDE DEF p, s, h
<1>2. /\ Inserts(p) <=> Inserting(h)
      /\ LooksAgain(p) <=> Looking(h) \/ LooksAgain(s)
      /\ Quiet(p) => Quiet(s)
      /\ Retires(s) => Looking(h)
      /\ Inserts(s) /\ tx[r].kind = "run_with" => Retiring(h)
  BY <1>1, Heading
<1>3. Retired(tx[r]) /\ Created(tx[r]) /\ Holds(tx[r])
  BY KFits
<1>4. Retired(t)
  <2>1. Inserts(s) => Templates(t.changed) = {}
    BY <1>1, <1>2, <1>3 DEF Retired
  <2>2. ~Inserts(p)
    BY <1>1, <1>2
  <2>3. QED
    BY <1>1, <1>3, <2>1, <2>2 DEF Retired, Keyed, Numbered
<1>5. ReadOne(t)
  BY <1>1, <1>2 DEF ReadOne
<1>6. Created(t)
  BY <1>1, <1>2, <1>3 DEF Created, Single, Numbered, Active
<1>7. Holds(t)
  BY <1>1, <1>2, <1>3 DEF Holds
<1>8. QED
  BY <1>4, <1>5, <1>6, <1>7, GoingRenewed DEF Renewed

LEMMA ReadRenewed ==
    ASSUME IInv, KInv, NEW r \in Open, NEW t, Becomes(r, t), tx[r].todo # <<>>,
           tx[r].todo[1][1] \in Reads,
           t.kind = tx[r].kind, t.end = "open", t.todo = Tail(tx[r].todo),
           t.new = tx[r].new, t.gone = tx[r].gone, t.changed = tx[r].changed,
           t.aim = tx[r].aim, Numbered(t.read),
           Looking(tx[r].todo[1]) => Single(t.read) /\ Holds(t)
    PROVE  KInv'
<1>1. ~Inserting(tx[r].todo[1]) /\ ~Retiring(tx[r].todo[1])
  BY DEF Inserting, Retiring, Reads
<1>2. InsertsStill(tx[r].todo) => InsertsStill(Tail(tx[r].todo))
  BY <1>1, Heading
<1>3. Takeover(tx[r]) /\ Settled(r, tx[r])
  BY KFits
<1>4. Takeover(t)
  BY <1>2, <1>3 DEF Takeover
<1>5. Settled(r, t)
  BY <1>3 DEF Settled
<1>6. QED
  BY <1>1, <1>4, <1>5, TailRenewed DEF HeldBy

LEMMA SeenNumbered ==
    ASSUME IInv, KInv, NEW r \in Open, NEW u
    PROVE  Numbered(Visible(r)) /\ Numbered(Loaded(r, u))
<1>1. Numbered(db) /\ Numbered(tx[r].changed) /\ Numbered(tx[r].new) /\ Numbered(tx[r].read)
  BY KFits DEF KInv, Retired, Created, ReadOne
<1>2. Numbered(Visible(r))
  BY <1>1 DEF Numbered, Templates, In, Visible
<1>3. Numbered(Loaded(r, u))
  BY <1>1, <1>2, LoadedFits DEF Numbered, Templates, In
<1>4. QED
  BY <1>2, <1>3

\* An active template that is seen is loaded.
LEMMA ActiveIsLoaded ==
    ASSUME NEW r, NEW x \in Active(Visible(r))
    PROVE  \E z \in Loaded(r, "template") : z.id = x.id
<1>1. x \in In(Visible(r), "template") /\ "active" \in x.on
  BY DEF Active, Templates
<1> DEFINE old == {y \in tx[r].read : y.id = x.id}
           z == IF old = {} THEN x ELSE CHOOSE y \in old : TRUE
<1>2. z \in Loaded(r, "template")
  BY <1>1 DEF Loaded
<1>3. z.id = x.id
  OBVIOUS
<1>4. QED
  BY <1>2, <1>3

\* Whoever sees a new template of its own as the only one that is active has
\* taken or changed the one that is stored.
LEMMA OnlyOneActive ==
    ASSUME IInv, KInv, NEW r \in Open,
           \A x, y \in Loaded(r, "template") : x = y, Templates(tx[r].new) # {}
    PROVE  IdsOf(Active(db)) \subseteq HeldBy(tx[r])
<1>1. PICK x \in Templates(tx[r].new) : TRUE
  OBVIOUS
<1>2. x \in Active(Visible(r)) /\ x \in tx[r].new
  BY <1>1, KFits DEF Created, Active, Templates, In, Visible
<1>3. SUFFICES ASSUME NEW a \in Active(db), a.id \notin HeldBy(tx[r]) PROVE FALSE
  BY DEF IdsOf
<1>4. a \in Active(Visible(r)) /\ a \in db
  BY <1>3 DEF Active, Templates, In, Visible, HeldBy
<1>5. PICK u \in Loaded(r, "template"), v \in Loaded(r, "template") : u.id = x.id /\ v.id = a.id
  BY <1>2, <1>4, ActiveIsLoaded
<1>6. x.id # a.id
  BY <1>2, <1>4, OwnTemplates DEF IdsOf
<1>7. QED
  BY <1>5, <1>6

LEMMA LoadRenewed ==
    ASSUME IInv, JInv, KInv, NEW r \in Requests, Load(r)
    PROVE  KInv'
<1> DEFINE rows == Loaded(r, Table(r))
           t == [Past(r) EXCEPT !.read = {x \in @ : x.table # Table(r)} \cup rows]
           p == tx[r].todo
<1>1. /\ r \in Open /\ p = tx[r].todo /\ p # <<>> /\ rows = Loaded(r, p[1][2])
      /\ p[1][1] \in {"read", "some", "one", "need"} /\ Table(r) = p[1][2]
  BY DEF Load, At, Table
<1>2. \/ Becomes(r, RolledBack(tx[r]))
      \/ Becomes(r, Refused(tx[r])) /\ p[1][1] \in {"some", "need"}
      \/ Becomes(r, t) /\ (p[1][1] = "one" => ~(Cardinality(rows) > 1))
  BY DEF Load, At
<1>3. CASE Becomes(r, RolledBack(tx[r]))
  BY <1>1, <1>3, RolledRenewed
<1>4. CASE Becomes(r, Refused(tx[r])) /\ p[1][1] \in {"some", "need"}
  BY <1>1, <1>4, RefusedRenewed DEF Refuses
<1>5. CASE Becomes(r, t) /\ (p[1][1] = "one" => ~(Cardinality(rows) > 1))
  <2>1. DOMAIN tx[r] = Fields /\ tx[r].end = "open"
    BY <1>1, OpenFits DEF Good, Shape
  <2>2. /\ t.kind = tx[r].kind /\ t.end = "open" /\ t.todo = Tail(p)
        /\ t.new = tx[r].new /\ t.gone = tx[r].gone /\ t.changed = tx[r].changed
        /\ t.aim = tx[r].aim
        /\ t.read = {x \in tx[r].read : x.table # Table(r)} \cup rows
    BY <2>1 DEF Past, Fields
  <2>3. Becomes(r, t)
    BY <1>5
  <2> HIDE DEF t, rows
  <2>4. Rows(rows) /\ Numbered(rows) /\ \A x \in rows : x.table = p[1][2]
    BY <1>1, LoadedFits, SeenNumbered
  <2>5. Numbered(t.read)
    BY <1>1, <2>2, <2>4, KFits DEF ReadOne, Numbered, Templates, In
  <2>6. ASSUME Looking(p[1]) PROVE Single(t.read) /\ Holds(t)
    <3>1. p[1][1] = "one" /\ Table(r) = "template"
      BY <1>1, <2>6 DEF Looking
    <3>2. \A x, y \in rows : x = y
      BY <1>5, <2>4, <3>1, OneOfOne DEF Rows
    <3>3. Single(t.read)
      BY <2>2, <3>1, <3>2 DEF Single, Templates, In
    <3>4. Templates(tx[r].new) # {} => IdsOf(Active(db)) \subseteq HeldBy(tx[r])
      BY <1>1, <3>1, <3>2, OnlyOneActive
    <3>5. QED
      BY <2>2, <3>3, <3>4 DEF Holds, HeldBy
  <2>7. QED
    BY <1>1, <2>2, <2>3, <2>5, <2>6, ReadRenewed DEF p, Reads
<1>6. QED
  BY <1>2, <1>3, <1>4, <1>5

LEMMA DecideRenewed ==
    ASSUME IInv, JInv, KInv, NEW r \in Requests, Decide(r)
    PROVE  KInv'
<1> DEFINE t == Past(r)
<1>1. /\ r \in Open /\ tx[r].todo # <<>> /\ tx[r].todo[1][1] = "not"
      /\ Becomes(r, Refused(tx[r])) \/ Becomes(r, t)
  BY DEF Decide, At
<1>2. CASE Becomes(r, Refused(tx[r]))
  BY <1>1, <1>2, RefusedRenewed DEF Refuses
<1>3. CASE Becomes(r, t)
  <2>1. DOMAIN tx[r] = Fields /\ tx[r].end = "open"
    BY <1>1, OpenFits DEF Good, Shape
  <2>2. /\ t.kind = tx[r].kind /\ t.end = "open" /\ t.todo = Tail(tx[r].todo)
        /\ t.new = tx[r].new /\ t.gone = tx[r].gone /\ t.changed = tx[r].changed
        /\ t.aim = tx[r].aim /\ t.read = tx[r].read
    BY <2>1 DEF Past, Fields
  <2>3. Becomes(r, t)
    BY <1>3
  <2> HIDE DEF t
  <2>4. Numbered(t.read) /\ ~Looking(tx[r].todo[1])
    BY <1>1, <2>2, KFits DEF ReadOne, Looking
  <2>5. QED
    BY <1>1, <2>2, <2>3, <2>4, ReadRenewed DEF Reads
<1>4. QED
  BY <1>1, <1>2, <1>3

LEMMA PickRenewed ==
    ASSUME IInv, JInv, KInv, NEW r \in Requests, Pick(r)
    PROVE  KInv'
<1> DEFINE T(x) == [Past(r) EXCEPT !.read = {y \in @ : y.table = Table(r) => y = x}]
<1>1. /\ r \in Open /\ tx[r].todo # <<>> /\ tx[r].todo[1][1] = "pick"
      /\ Becomes(r, Refused(tx[r])) \/ \E x : Becomes(r, T(x))
  BY DEF Pick, At
<1>2. CASE Becomes(r, Refused(tx[r]))
  BY <1>1, <1>2, RefusedRenewed DEF Refuses
<1>3. ASSUME NEW x, Becomes(r, T(x)) PROVE KInv'
  <2> DEFINE t == T(x)
  <2>1. DOMAIN tx[r] = Fields /\ tx[r].end = "open"
    BY <1>1, OpenFits DEF Good, Shape
  <2>2. /\ t.kind = tx[r].kind /\ t.end = "open" /\ t.todo = Tail(tx[r].todo)
        /\ t.new = tx[r].new /\ t.gone = tx[r].gone /\ t.changed = tx[r].changed
        /\ t.aim = tx[r].aim /\ t.read \subseteq tx[r].read
    BY <2>1 DEF Past, Fields
  <2>3. Becomes(r, t)
    BY <1>3
  <2> HIDE DEF t
  <2>4. Numbered(t.read) /\ ~Looking(tx[r].todo[1])
    BY <1>1, <2>2, KFits DEF ReadOne, Looking, Numbered, Templates, In
  <2>5. QED
    BY <1>1, <2>2, <2>3, <2>4, ReadRenewed DEF Reads
<1>4. QED
  BY <1>1, <1>2, <1>3

LEMMA AdoptRenewed ==
    ASSUME IInv, KInv, NEW r \in Requests, Adopt(r)
    PROVE  KInv'
<1> DEFINE t == [Past(r) EXCEPT !.plan = UNION {x.of : x \in In(tx[r].read, "template")}]
<1>1. /\ r \in Open /\ tx[r].todo # <<>> /\ tx[r].todo[1][1] = "adopt" /\ Becomes(r, t)
  BY DEF Adopt, At
<1>2. DOMAIN tx[r] = Fields /\ tx[r].end = "open"
  BY <1>1, OpenFits DEF Good, Shape
<1>3. /\ t.kind = tx[r].kind /\ t.end = "open" /\ t.todo = Tail(tx[r].todo)
      /\ t.new = tx[r].new /\ t.gone = tx[r].gone /\ t.changed = tx[r].changed
      /\ t.aim = tx[r].aim /\ t.read = tx[r].read
  BY <1>2 DEF Past, Fields
<1> HIDE DEF t
<1>4. Numbered(t.read) /\ ~Looking(tx[r].todo[1])
  BY <1>1, <1>3, KFits DEF ReadOne, Looking
<1>5. QED
  BY <1>1, <1>3, <1>4, ReadRenewed DEF Reads

LEMMA CreateRenewed ==
    ASSUME IInv, KInv, NEW r \in Requests, Create(r)
    PROVE  KInv'
<1> DEFINE t == [Past(r) EXCEPT !.run = IF tx[r].plan # {} THEN tx[r].plan
                                        ELSE {x.by : x \in In(tx[r].read, "step")}]
<1>0. /\ r \in Open /\ tx[r].todo # <<>> /\ tx[r].todo[1][1] = "create"
      /\ Becomes(r, RolledBack(tx[r])) \/ Becomes(r, t)
  BY DEF Create, At
<1> SUFFICES ASSUME Becomes(r, t) PROVE KInv'
  BY <1>0, RolledRenewed
<1>1. /\ r \in Open /\ tx[r].todo # <<>> /\ tx[r].todo[1][1] = "create" /\ Becomes(r, t)
  BY <1>0
<1>2. DOMAIN tx[r] = Fields /\ tx[r].end = "open"
  BY <1>1, OpenFits DEF Good, Shape
<1>3. /\ t.kind = tx[r].kind /\ t.end = "open" /\ t.todo = Tail(tx[r].todo)
      /\ t.new = tx[r].new /\ t.gone = tx[r].gone /\ t.changed = tx[r].changed
      /\ t.aim = tx[r].aim /\ t.read = tx[r].read
  BY <1>2 DEF Past, Fields
<1> HIDE DEF t
<1>4. Numbered(t.read) /\ ~Looking(tx[r].todo[1])
  BY <1>1, <1>3, KFits DEF ReadOne, Looking
<1>5. QED
  BY <1>1, <1>3, <1>4, ReadRenewed DEF Reads

\* Bind and Plan put other statements in the place of theirs, before anything
\* has become of a template.
LEMMA InsteadRenewed ==
    ASSUME IInv, KInv, NEW r \in Open, NEW left, Becomes(r, [tx[r] EXCEPT !.todo = left]),
           tx[r].kind # "analyze", Templates(tx[r].new) = {}, Templates(tx[r].changed) = {},
           ~Inserts(left), ~Retires(left)
    PROVE  KInv'
<1> DEFINE t == [tx[r] EXCEPT !.todo = left]
<1>1. DOMAIN tx[r] = Fields /\ tx[r].end = "open"
  BY OpenFits DEF Good, Shape
<1>2. /\ t.kind = tx[r].kind /\ t.end = "open" /\ t.todo = left
      /\ t.new = tx[r].new /\ t.gone = tx[r].gone /\ t.changed = tx[r].changed
      /\ t.aim = tx[r].aim /\ t.read = tx[r].read
  BY <1>1 DEF Fields
<1>3. Becomes(r, t)
  OBVIOUS
<1> HIDE DEF t
<1>4. /\ Retired(tx[r]) /\ ReadOne(tx[r]) /\ Created(tx[r]) /\ Settled(r, tx[r])
  BY KFits
<1>5. Retired(t) /\ ReadOne(t) /\ Created(t) /\ Holds(t) /\ Takeover(t) /\ Settled(r, t)
  BY <1>2, <1>4 DEF Retired, ReadOne, Created, Holds, Takeover, Settled
<1>6. QED
  BY <1>2, <1>3, <1>5, GoingRenewed DEF Renewed

LEMMA BindRenewed ==
    ASSUME IInv, KInv, NEW r \in Requests, Bind(r)
    PROVE  KInv'
<1> DEFINE left == IF In(tx[r].read, "binding") = {} THEN <<Insert("binding")>>
                   ELSE <<Change("binding", "touch")>>
<1>1. r \in Open /\ tx[r].todo # <<>> /\ tx[r].todo[1][1] = "bind"
  BY DEF Bind, At
<1>2. [Past(r) EXCEPT !.todo = left] = [tx[r] EXCEPT !.todo = left]
  BY DEF Past
<1>3. Becomes(r, [tx[r] EXCEPT !.todo = left])
  BY <1>2 DEF Bind
<1>4. tx[r].kind = "bind"
  <2> DEFINE p == tx[r].todo
  <2>1. p = tx[r].todo /\ p # <<>> /\ p[1][1] = "bind"
    BY <1>1
  <2> HIDE DEF p
  <2>2. InOrder(tx[r].kind, p, 1)
    BY <1>1, <2>1, OpenTail
  <2>3. QED
    BY <2>1, <2>2 DEF InOrder
<1>5. ~Inserts(left) /\ ~Retires(left)
  BY DEF Inserts, Retires, Inserting, Retiring, Insert, Change
<1> HIDE DEF left
<1>6. Templates(tx[r].new) = {}
  BY <1>1, <1>4, OwnTemplates DEF Templates, In
<1>7. Templates(tx[r].changed) = {}
  BY <1>1, <1>4, KFits DEF Retired
<1>8. QED
  BY <1>1, <1>3, <1>4, <1>5, <1>6, <1>7, InsteadRenewed

LEMMA PlanRenewed ==
    ASSUME IInv, KInv, NEW r \in Requests, Plan(r)
    PROVE  KInv'
<1> DEFINE p == tx[r].todo
           adopting == <<<<"adopt">>>> \o CreateRun
<1>1. r \in Open /\ p = tx[r].todo /\ p # <<>> /\ p[1][1] = "plan"
  BY DEF Plan, At
<1>2. PICK first \in {<<>>, Generate}, rest \in {CreateRun, adopting, <<>>} :
        \/ Becomes(r, [tx[r] EXCEPT !.todo = CreateRun])
        \/ Becomes(r, [tx[r] EXCEPT !.todo = first \o rest])
  BY DEF Plan
<1> DEFINE Thinks(left) == left = <<>> \/ left[1][1] \in {"read", "need", "adopt"}
<1>3. Thinks(CreateRun) /\ Thinks(adopting)
  BY DEF CreateRun, Get, Need
<1>4. Thinks(Generate \o CreateRun) /\ Thinks(Generate \o adopting) /\ Thinks(Generate)
  BY DEF Generate, CreateRun, Get, Read
<1>5. IsSeq(CreateRun) /\ IsSeq(adopting) /\ IsSeq(Generate)
  BY CreateFits, AdoptFits, GenerateFits DEF Ordered
<1>6. Thinks(first \o rest)
  <2>1. <<>> \o CreateRun = CreateRun /\ <<>> \o adopting = adopting /\ Generate \o <<>> = Generate
    BY <1>5, Nothing
  <2>2. <<>> \o <<>> = <<>>
    BY NoSeq, Nothing
  <2> HIDE DEF adopting, Thinks
  <2>3. Thinks(<<>>)
    BY DEF Thinks
  <2>4. QED
    BY <1>3, <1>4, <2>1, <2>2, <2>3
<1>7. PICK left : Thinks(left) /\ Becomes(r, [tx[r] EXCEPT !.todo = left])
  BY <1>2, <1>3, <1>6
<1> HIDE DEF p, adopting
<1>8. ~Inserts(left) /\ ~Retires(left)
  BY <1>7 DEF Inserts, Retires, Inserting, Retiring
<1>9. InOrder(tx[r].kind, p, 1)
  BY <1>1, OpenTail
<1>10. tx[r].kind = "run_with"
  BY <1>1, <1>9 DEF InOrder
<1>11. ~Inserts(p) /\ ~Leaves(p[1]) /\ (Quiet(p) => Leaves(p[1]))
  BY <1>1, Heading DEF Inserts, Inserting, Leaves
<1>12. Templates(tx[r].new) = {}
  BY <1>1, <1>11, KFits DEF Created
<1>13. Templates(tx[r].changed) = {}
  BY <1>1, <1>11, <1>12, KFits DEF Retired
<1>14. QED
  BY <1>1, <1>7, <1>8, <1>10, <1>12, <1>13, InsteadRenewed
--------------------------------------------------------------------------------
\* The steps that write.

\* A row that is seen was there, or is of a request that is done, or its own.
LEMMA SeenSettled ==
    ASSUME IInv, NEW r \in Open, NEW x, x \in Visible(r) \/ x \in db
    PROVE  \/ x.id \in 1..6
           \/ \E q \in Requests : /\ x.id \in (10 * q + 1)..(10 * q + 9)
                                  /\ q = r \/ tx[q].end = "done"
<1>1. Rows(Visible(r)) /\ \A y \in Visible(r) : y.by # r => \E z \in db : z.by = y.by
  BY VisibleFits
<1>2. Rows(db) /\ \A y \in db : y.by # 0 => tx[y.by].end = "done"
  BY DEF IInv, WInv, Stored
<1>3. Genuine(x) /\ (x.by = r \/ x.by = 0 \/ tx[x.by].end = "done")
  BY <1>1, <1>2 DEF Rows
<1>4. 0 \notin Requests
  BY Indexes
<1>5. CASE x.by = 0
  BY <1>3, <1>4, <1>5 DEF Genuine
<1>6. CASE x.by # 0
  BY <1>3, <1>6 DEF Genuine
<1>7. QED
  BY <1>5, <1>6

\* Only a statement about the templates deletes or updates a template.
LEMMA TargetsOther ==
    ASSUME IInv, JInv, NEW r \in Open, tx[r].todo # <<>>, NEW h, h = tx[r].todo[1],
           h[1] \in {"clear", "drop", "change"}, h[2] # "template",
           NEW x, Genuine(x), x.table = "template"
    PROVE  x.id \notin Targets(r)
<1> SUFFICES ASSUME x.id \in Targets(r) PROVE FALSE
  OBVIOUS
<1>1. IdIn(x.id, h[2]) \/ IdIn(x.id, "step")
  BY TargetIds
<1>2. QED
  BY <1>1, RowOfId

LEMMA AimRenewed ==
    ASSUME IInv, JInv, KInv, NEW r \in Requests, Aim(r)
    PROVE  KInv'
<1> DEFINE aims == Targets(r)
           t == [tx[r] EXCEPT !.aim = aims]
           h == tx[r].todo[1]
<1>1. /\ r \in Open /\ tx[r].todo # <<>> /\ h = tx[r].todo[1] /\ h[1] = "clear"
      /\ tx[r].aim = {} /\ Becomes(r, t) /\ aims = Targets(r)
      /\ aims = IdsOf(In(Visible(r), h[2]))
  BY DEF Aim, At, Targets, Table
<1>2. DOMAIN tx[r] = Fields /\ tx[r].end = "open"
  BY <1>1, OpenFits DEF Good, Shape
<1>3. /\ t.kind = tx[r].kind /\ t.todo = tx[r].todo /\ t.end = "open"
      /\ t.new = tx[r].new /\ t.gone = tx[r].gone /\ t.changed = tx[r].changed
      /\ t.read = tx[r].read /\ t.aim = aims
  BY <1>2 DEF Fields
<1> HIDE DEF t, aims, h
<1>4. /\ Retired(tx[r]) /\ ReadOne(tx[r]) /\ Created(tx[r]) /\ Holds(tx[r])
      /\ Takeover(tx[r]) /\ Settled(r, tx[r])
  BY <1>1, KFits
<1>5. Retired(t) /\ ReadOne(t) /\ Created(t) /\ Holds(t)
  BY <1>3, <1>4 DEF Retired, ReadOne, Created, Holds, HeldBy
<1>6. ASSUME t.kind = "analyze", 1 \in IdsOf(db), NEW a \in Active(db), a.id \in t.gone \cup aims
      PROVE  IdsOf(Templates(db)) \subseteq t.gone \cup aims
  <2>1. CASE a.id \in t.gone
    BY <1>1, <1>3, <1>4, <1>6, <2>1 DEF Takeover
  <2>2. CASE a.id \in aims
    <3>1. a \in db /\ a.table = "template" /\ Genuine(a)
      BY <1>6 DEF Active, Templates, In, IInv, WInv, Stored, Rows
    <3>2. h[2] = "template"
      <4>1. tx[r].todo # <<>> /\ h = tx[r].todo[1] /\ h[1] \in {"clear", "drop", "change"}
        BY <1>1
      <4>2. a.id \in Targets(r)
        BY <1>1, <2>2
      <4>3. h[2] # "template" => a.id \notin Targets(r)
        BY <1>1, <3>1, <4>1, TargetsOther
      <4>4. QED
        BY <4>2, <4>3
    <3>3. \A x \in In(db, "template") : x.id \in t.gone \cup aims
      BY <1>1, <1>3, <3>2, SeenOrGone
    <3>4. QED
      BY <3>3 DEF Templates, IdsOf
  <2>3. QED
    BY <1>6, <2>1, <2>2
<1>7. Takeover(t)
  BY <1>3, <1>4, <1>6 DEF Takeover
<1>8. Settled(r, t)
  <2>1. \A id \in aims : \E x \in Visible(r) : x.id = id
    BY <1>1 DEF IdsOf, In
  <2>2. QED
    BY <1>1, <1>3, <1>4, <2>1, SeenSettled DEF Settled
<1>9. QED
  BY <1>1, <1>3, <1>5, <1>7, <1>8, GoingRenewed DEF Renewed

LEMMA RemoveRenewed ==
    ASSUME IInv, JInv, KInv, NEW r \in Requests, Remove(r)
    PROVE  KInv'
<1> DEFINE aims == Targets(r)
           t == [Past(r) EXCEPT
                    !.gone = @ \cup (aims \cap IdsOf(db)), !.aim = {},
                    !.new = {x \in @ : x.id \notin aims},
                    !.changed = {x \in @ : x.id \notin aims},
                    !.read = {x \in @ : x.id \notin aims}]
           p == tx[r].todo
           h == p[1]
<1>1. /\ r \in Open /\ p = tx[r].todo /\ p # <<>> /\ h = p[1]
      /\ h[1] \in {"clear", "drop"} /\ Becomes(r, t) /\ aims = Targets(r)
      /\ h[1] = "clear" => aims = IF tx[r].aim # {} THEN tx[r].aim
                                  ELSE IdsOf(In(Visible(r), h[2]))
  BY DEF Remove, At, Targets, Table
<1>2. DOMAIN tx[r] = Fields /\ tx[r].end = "open" /\ RowsFit(r, tx[r]) /\ Swept(r, tx[r])
  BY <1>1, OpenFits DEF Good, Shape
<1>3. /\ t.kind = tx[r].kind /\ t.end = "open" /\ t.todo = Tail(p)
      /\ t.read = {x \in tx[r].read : x.id \notin aims}
      /\ t.new = {x \in tx[r].new : x.id \notin aims}
      /\ t.changed = {x \in tx[r].changed : x.id \notin aims}
      /\ t.gone = tx[r].gone \cup (aims \cap IdsOf(db)) /\ t.aim = {}
  BY <1>2 DEF Past, Fields
<1>4. tx[r].aim # {} => aims = tx[r].aim
  BY <1>1, <1>2 DEF Swept
<1> HIDE DEF t, p, h, aims
<1>5. ~Inserting(h) /\ ~Retiring(h) /\ ~Looking(h)
  BY <1>1 DEF Inserting, Retiring, Looking
<1>6. /\ Inserts(p) <=> Inserting(h)
      /\ InsertsStill(p) <=> Inserting(h) \/ InsertsStill(Tail(p))
      /\ Quiet(p) => Leaves(h)
      /\ Wiping(h) => \/ tx[r].kind \in Deletes
                      \/ tx[r].kind = "analyze" /\ InsertsStill(Tail(p))
      /\ h[1] = "drop" => h[2] # "template"
  BY <1>1, Heading
<1>7. /\ Retired(tx[r]) /\ ReadOne(tx[r]) /\ Created(tx[r])
      /\ Takeover(tx[r]) /\ Settled(r, tx[r])
  BY <1>1, KFits
<1>8. ASSUME NEW x, Genuine(x), x.table = "template", x.id \in aims PROVE Wiping(h)
  <2>1. h[2] = "template"
    <3>1. tx[r].todo # <<>> /\ h = tx[r].todo[1] /\ h[1] \in {"clear", "drop", "change"}
      BY <1>1
    <3>2. h[2] # "template" => x.id \notin Targets(r)
      BY <1>1, <1>8, <3>1, TargetsOther
    <3>3. QED
      BY <1>1, <1>8, <3>2
  <2>2. QED
    BY <1>1, <1>6, <2>1 DEF Wiping
<1>9. Templates(tx[r].new) # {} => ~Wiping(h)
  BY <1>1, <1>6, <1>7 DEF Created, Leaves
<1>10. Templates(tx[r].changed) # {} => ~Wiping(h)
  BY <1>1, <1>5, <1>6, <1>7, <1>9 DEF Retired
<1>11. /\ Templates(t.new) = Templates(tx[r].new)
       /\ Templates(t.changed) = Templates(tx[r].changed)
  BY <1>2, <1>3, <1>8, <1>9, <1>10 DEF RowsFit, Rows, Templates, In
<1>12. Numbered(t.read)
  BY <1>3, <1>7 DEF ReadOne, Numbered, Templates, In
<1>13. HeldBy(tx[r]) \subseteq HeldBy(t)
  BY <1>2, <1>3 DEF HeldBy, RowsFit, IdsOf
<1>14. Takeover(t)
  <2> SUFFICES ASSUME t.kind = "analyze" PROVE Takeover(t)
    BY DEF Takeover
  <2>1. ASSUME 1 \in IdsOf(db), NEW a \in Active(db), a.id \in t.gone
        PROVE  IdsOf(Templates(db)) \subseteq t.gone
    <3>1. CASE a.id \in tx[r].gone \cup tx[r].aim
      <4>1. IdsOf(Templates(db)) \subseteq tx[r].gone \cup tx[r].aim
        BY <1>3, <1>7, <2>1, <3>1 DEF Takeover
      <4>2. IdsOf(Templates(db)) \subseteq IdsOf(db)
        BY DEF Templates, In, IdsOf
      <4>3. QED
        BY <1>3, <1>4, <4>1, <4>2
    <3>2. CASE a.id \notin tx[r].gone \cup tx[r].aim
      <4>1. a.id \in aims /\ tx[r].aim = {}
        BY <1>3, <1>4, <2>1, <3>2
      <4>2. a \in db /\ a.table = "template" /\ Genuine(a)
        BY <2>1 DEF Active, Templates, In, IInv, WInv, Stored, Rows
      <4>3. Wiping(h)
        BY <1>8, <4>1, <4>2
      <4>4. aims = IdsOf(In(Visible(r), "template"))
        BY <1>1, <4>1, <4>3 DEF Wiping
      <4>5. \A x \in In(db, "template") : x.id \in tx[r].gone \cup aims
        BY <1>1, <4>4, SeenOrGone
      <4>6. QED
        BY <1>3, <4>5 DEF Templates, In, IdsOf
    <3>3. QED
      BY <3>1, <3>2
  <2>2. ASSUME NEW x \in Templates(db), x.id \in t.gone
        PROVE  Templates(t.new) # {} \/ InsertsStill(t.todo)
    <3>1. CASE x.id \in tx[r].gone
      BY <1>1, <1>3, <1>5, <1>6, <1>7, <1>11, <2>2, <3>1 DEF Takeover
    <3>2. CASE x.id \in aims
      <4>1. x.table = "template" /\ Genuine(x)
        BY <2>2 DEF Templates, In, IInv, WInv, Stored, Rows
      <4>2. Wiping(h)
        BY <1>8, <3>2, <4>1
      <4>3. QED
        BY <1>3, <1>6, <4>2 DEF Deletes
    <3>3. QED
      BY <1>3, <2>2, <3>1, <3>2
  <2>3. QED
    BY <1>3, <2>1, <2>2 DEF Takeover
<1>15. Settled(r, t)
  <2>1. \A id \in aims \cap IdsOf(db) : \E x \in db : x.id = id
    BY DEF IdsOf
  <2>2. QED
    BY <1>1, <1>3, <1>7, <2>1, SeenSettled DEF Settled
<1>16. QED
  BY <1>1, <1>3, <1>5, <1>11, <1>12, <1>13, <1>14, <1>15, TailRenewed

\* The UPDATE of the template that was read: nothing has become of a template
\* yet, and what it writes is the row that is stored, active no more.
LEMMA Retirement ==
    ASSUME IInv, JInv, KInv, NEW r \in Open, tx[r].todo # <<>>,
           NEW h, h = tx[r].todo[1], Retiring(h)
    PROVE  /\ tx[r].kind = "run_with" /\ Inserts(Tail(tx[r].todo))
           /\ Templates(tx[r].new) = {} /\ Templates(tx[r].changed) = {}
           /\ Single(tx[r].read)
           /\ \A z \in After(r) : \E x \in Templates(db) :
                 /\ x.id \in Targets(r) /\ DOMAIN x = RowFields
                 /\ z = [x EXCEPT !.on = @ \ {"active"}]
<1> DEFINE p == tx[r].todo
<1>1. p = tx[r].todo /\ p # <<>> /\ h = p[1]
  OBVIOUS
<1> HIDE DEF p
<1>2. /\ Inserts(p) <=> Inserting(h)
      /\ Retires(p) <=> Retiring(h)
      /\ Quiet(p) => Leaves(h)
      /\ Retiring(h) => tx[r].kind = "run_with" /\ h[3] = "retire" /\ Inserts(Tail(p))
  BY <1>1, Heading
<1>3. ~Inserts(p) /\ ~Quiet(p)
  BY <1>2 DEF Inserting, Retiring, Leaves
<1>4. Templates(tx[r].new) = {}
  BY <1>1, <1>3, KFits DEF Created
<1>5. Templates(tx[r].changed) = {}
  BY <1>1, <1>3, <1>4, KFits DEF Retired
<1>6. Single(tx[r].read)
  BY <1>1, <1>2, KFits DEF ReadOne
<1>7. ASSUME NEW z \in After(r)
      PROVE  \E x \in Templates(db) :
                 /\ x.id \in Targets(r) /\ DOMAIN x = RowFields
                 /\ z = [x EXCEPT !.on = @ \ {"active"}]
  <2>1. PICK x \in Visible(r) : x.id \in Targets(r) /\ \E old : z = Changed(x, old, h[3])
    BY <1>1 DEF After
  <2>2. z = [x EXCEPT !.on = @ \ {"active"}]
    BY <1>2, <2>1 DEF Changed
  <2>3. Genuine(x)
    BY VisibleFits DEF Rows
  <2>4. h[1] = "change" /\ h[2] = "template"
    BY DEF Retiring
  <2>5. IdIn(x.id, h[2])
    <3>1. tx[r].todo # <<>> /\ tx[r].todo[1][1] \in {"clear", "drop", "change"}
      BY <2>4
    <3>2. QED
      BY <2>1, <2>4, <3>1, TargetIds
  <2>6. x.table = "template"
    BY <2>3, <2>4, <2>5, RowOfId
  <2>7. x \in db
    BY <1>4, <1>5, <2>6 DEF Visible, Templates, In
  <2>8. QED
    BY <2>1, <2>2, <2>3, <2>6, <2>7 DEF Genuine, Templates, In
<1>8. QED
  BY <1>1, <1>2, <1>4, <1>5, <1>6, <1>7

LEMMA UpdateRenewed ==
    ASSUME IInv, JInv, KInv, NEW r \in Requests, Update(r)
    PROVE  KInv'
<1> DEFINE after == After(r)
           aims == Targets(r)
           t == [Past(r) EXCEPT
                    !.changed = {x \in @ : x.id \notin IdsOf(after)} \cup
                                {x \in after : x.id \in IdsOf(db)},
                    !.new = {x \in @ : x.id \notin IdsOf(after)} \cup
                            {x \in after : x.id \notin IdsOf(db)},
                    !.read = {x \in @ : x.id \notin IdsOf(after)} \cup after]
           p == tx[r].todo
           h == p[1]
<1>1. /\ r \in Open /\ p # <<>> /\ h[1] = "change"
      /\ \/ Becomes(r, RolledBack(tx[r]))
         \/ IdsOf(after) = aims /\ Becomes(r, t)
  BY DEF Update, At, After
<1>2. CASE Becomes(r, RolledBack(tx[r]))
  BY <1>1, <1>2, RolledRenewed
<1>3. CASE IdsOf(after) = aims /\ Becomes(r, t)
  <2>1. tx[r].end = "open" /\ DOMAIN tx[r] = Fields /\ RowsFit(r, tx[r])
    BY <1>1, OpenFits DEF Good, Shape
  <2>2. /\ t.kind = tx[r].kind /\ t.todo = Tail(p) /\ t.end = "open"
        /\ t.gone = tx[r].gone /\ t.aim = tx[r].aim
        /\ t.changed = {x \in tx[r].changed : x.id \notin IdsOf(after)} \cup
                       {x \in after : x.id \in IdsOf(db)}
        /\ t.new = {x \in tx[r].new : x.id \notin IdsOf(after)} \cup
                   {x \in after : x.id \notin IdsOf(db)}
        /\ t.read = {x \in tx[r].read : x.id \notin IdsOf(after)} \cup after
    BY <2>1 DEF Past, Fields
  <2>3. Becomes(r, t) /\ IdsOf(after) = aims
    BY <1>3
  <2>4. Rows(after) /\ \A z \in after : z.id \in aims
    BY <1>1, AfterFits
  <2>5. /\ r \in Open /\ p = tx[r].todo /\ p # <<>> /\ h = p[1] /\ h[1] = "change"
        /\ aims = Targets(r) /\ after = After(r)
        /\ aims = IdsOf(In(tx[r].read, h[2]))
    BY <1>1 DEF Targets, Cascaded, At, Table
  <2> HIDE DEF t, after, aims, p, h
  <2>6. /\ Retired(tx[r]) /\ ReadOne(tx[r]) /\ Created(tx[r])
        /\ Takeover(tx[r]) /\ Settled(r, tx[r])
    BY <1>1, KFits
  <2>7. Settled(r, t)
    BY <2>2, <2>6 DEF Settled
  <2>8. CASE h[2] # "template"
    <3>1. ~Inserting(h) /\ ~Retiring(h) /\ ~Looking(h)
      BY <2>5, <2>8 DEF Inserting, Retiring, Looking
    <3>2. ASSUME NEW x, Genuine(x), x.table = "template" PROVE x.id \notin aims
      <4>1. tx[r].todo # <<>> /\ h = tx[r].todo[1] /\ h[1] \in {"clear", "drop", "change"}
        BY <2>5
      <4>2. QED
        BY <2>5, <2>8, <3>2, <4>1, TargetsOther
    <3>3. Templates(after) = {}
      BY <2>4, <3>2 DEF Templates, In, Rows
    <3>4. /\ Templates(t.new) = Templates(tx[r].new)
          /\ Templates(t.changed) = Templates(tx[r].changed)
      BY <2>1, <2>2, <2>3, <3>2, <3>3 DEF RowsFit, Rows, Templates, In
    <3>5. Numbered(t.read)
      BY <2>2, <2>6, <3>3 DEF ReadOne, Numbered, Templates, In
    <3>6. HeldBy(tx[r]) \subseteq HeldBy(t)
      <4>1. ASSUME NEW c \in tx[r].changed PROVE c.id \in IdsOf(t.changed)
        <5>1. c.id \in IdsOf(db)
          BY <2>1 DEF RowsFit
        <5>2. CASE c.id \in IdsOf(after)
          <6>1. PICK z \in after : z.id = c.id
            BY <5>2 DEF IdsOf
          <6>2. z \in t.changed
            BY <2>2, <5>1, <6>1
          <6>3. QED
            BY <6>1, <6>2 DEF IdsOf
        <5>3. CASE c.id \notin IdsOf(after)
          BY <2>2, <5>3 DEF IdsOf
        <5>4. QED
          BY <5>2, <5>3
      <4>2. QED
        BY <2>2, <4>1 DEF HeldBy, IdsOf
    <3>7. InsertsStill(p) => InsertsStill(Tail(p))
      BY <2>5, <3>1, Heading
    <3>8. Takeover(t)
      BY <2>2, <2>5, <2>6, <3>4, <3>7 DEF Takeover
    <3>9. QED
      BY <2>2, <2>3, <2>5, <2>7, <3>1, <3>4, <3>5, <3>6, <3>8, TailRenewed
  <2>9. CASE h[2] = "template"
    <3>1. Retiring(h)
      BY <2>5, <2>9 DEF Retiring
    <3>2. /\ tx[r].kind = "run_with" /\ Inserts(Tail(p))
          /\ Templates(tx[r].new) = {} /\ Templates(tx[r].changed) = {}
          /\ Single(tx[r].read)
          /\ \A z \in after : \E x \in Templates(db) :
                /\ x.id \in aims /\ DOMAIN x = RowFields
                /\ z = [x EXCEPT !.on = @ \ {"active"}]
      BY <2>5, <3>1, Retirement
    <3>3. Keyed(db) /\ Numbered(db) /\ Rows(db)
      BY DEF KInv, IInv, WInv, Stored
    <3>4. ASSUME NEW z \in after
          PROVE  /\ z.table = "template" /\ z.n \in Nat /\ "active" \notin z.on
                 /\ z.id \in IdsOf(db)
                 /\ \A y \in db : y.id = z.id =>
                       y.n = z.n /\ z = [y EXCEPT !.on = @ \ {"active"}]
      <4>1. PICK x \in Templates(db) :
                DOMAIN x = RowFields /\ z = [x EXCEPT !.on = @ \ {"active"}]
        BY <3>2
      <4>2. /\ z.table = x.table /\ z.n = x.n /\ z.id = x.id /\ z.on = x.on \ {"active"}
            /\ x \in db /\ x.table = "template" /\ Genuine(x)
        BY <3>3, <4>1 DEF RowFields, Templates, In, Rows
      <4>3. ASSUME NEW y \in db, y.id = z.id PROVE y = x
        <5>1. Genuine(y) /\ y.id = x.id
          BY <3>3, <4>2, <4>3 DEF Rows
        <5>2. y.table = "template"
          BY <4>2, <5>1, SameRow
        <5>3. QED
          BY <3>3, <4>1, <5>1, <5>2 DEF Keyed, Templates, In
      <4>4. QED
        BY <3>3, <4>1, <4>2, <4>3 DEF Numbered, IdsOf
    <3>5. ASSUME NEW y \in after, NEW z \in after, y.id = z.id PROVE y = z
      <4>1. PICK x \in db : x.id = y.id
        BY <3>4 DEF IdsOf
      <4>2. QED
        BY <3>4, <3>5, <4>1
    <3>6. Templates(t.new) = {} /\ Templates(t.changed) \subseteq after
      BY <2>2, <3>2, <3>4 DEF Templates, In
    <3>7. Templates(t.read) \subseteq after
      <4>1. \A x \in Templates(tx[r].read) : x.id \in IdsOf(after)
        BY <2>3, <2>5, <2>9 DEF Templates, IdsOf
      <4>2. QED
        BY <2>2, <4>1 DEF Templates, In
    <3>8. ASSUME NEW y \in after, NEW z \in after PROVE y = z
      <4>1. PICK a \in Templates(tx[r].read), b \in Templates(tx[r].read) :
                y.id = a.id /\ z.id = b.id
        BY <2>4, <2>5, <2>9 DEF Templates, IdsOf
      <4>2. y.id = z.id
        BY <3>2, <4>1 DEF Single
      <4>3. QED
        BY <3>5, <4>2
    <3>9. Retired(t)
      <4>1. Keyed(t.changed) /\ Numbered(t.changed)
        BY <3>4, <3>6, <3>8 DEF Keyed, Numbered
      <4>2. \A c \in Templates(t.changed) : c \in after /\ c \in t.read
        BY <2>2, <3>6
      <4>3. QED
        BY <2>2, <3>2, <3>4, <3>6, <4>1, <4>2 DEF Retired
    <3>10. ReadOne(t)
      BY <3>4, <3>7, <3>8 DEF ReadOne, Single, Numbered
    <3>11. Created(t) /\ Holds(t) /\ Takeover(t)
      BY <2>2, <3>2, <3>6 DEF Created, Single, Numbered, Holds, Takeover
    <3>12. QED
      BY <2>2, <2>3, <2>5, <2>7, <3>9, <3>10, <3>11, GoingRenewed DEF Renewed
  <2>10. QED
    BY <2>8, <2>9
<1>4. QED
  BY <1>1, <1>2, <1>3

\* The INSERT of a template, of an analysis or of a run with parameters.
LEMMA Insertion ==
    ASSUME IInv, KInv, NEW r \in Open, tx[r].todo # <<>>,
           NEW h, h = tx[r].todo[1], Inserting(h)
    PROVE  /\ tx[r].kind \in {"analyze", "run_with"}
           /\ LooksAgain(Tail(tx[r].todo)) /\ Quiet(Tail(tx[r].todo))
           /\ Templates(tx[r].new) = {} /\ Inserts(tx[r].todo)
           /\ NewRow(r).table = "template" /\ "active" \in NewRow(r).on
           /\ NewRow(r).n \in Nat
           /\ tx[r].kind = "run_with" =>
                 Single(tx[r].read) /\ \A c \in Templates(tx[r].read) : c.n < NewRow(r).n
<1> DEFINE p == tx[r].todo
<1>1. p = tx[r].todo /\ p # <<>> /\ h = p[1] /\ h[2] = "template"
  BY DEF Inserting
<1>2. Table(r) = "template"
  BY <1>1 DEF Table
<1> HIDE DEF p
<1>3. /\ Inserts(p) <=> Inserting(h)
      /\ Quiet(p) => Leaves(h)
      /\ Inserting(h) => /\ tx[r].kind \in {"analyze", "run_with"}
                         /\ LooksAgain(Tail(p)) /\ Quiet(Tail(p))
  BY <1>1, Heading
<1>4. Templates(tx[r].new) = {}
  BY <1>1, <1>3, KFits DEF Created, Leaves
<1> DEFINE old == In(tx[r].read, "template")
           n == IF old = {} THEN 1 ELSE (CHOOSE x \in old : TRUE).n + 1
<1>5. tx[r].kind = "run_with" => Single(tx[r].read)
  BY <1>1, <1>3, KFits DEF ReadOne
<1>6. \A c \in old : c.n \in Nat
  BY KFits DEF ReadOne, Numbered, Templates
<1>7. n \in Nat /\ (Single(tx[r].read) => \A c \in old : c.n < n)
  <2>1. CASE old = {}
    BY <2>1
  <2>2. CASE old # {}
    <3>1. PICK c \in old : c = CHOOSE x \in old : TRUE
      BY <2>2
    <3>2. n = c.n + 1 /\ c.n \in Nat
      BY <1>6, <2>2, <3>1
    <3>3. Single(tx[r].read) => \A d \in old : d = c
      BY <3>1 DEF Single, Templates
    <3>4. QED
      BY <3>2, <3>3
  <2>3. QED
    BY <2>1, <2>2
<1>8. CASE tx[r].kind = "analyze"
  <2>1. NewRow(r) = Row(10 * r + Len(tx[r].todo), "template", r, 1, {"active"}, {})
    BY <1>2, <1>8 DEF NewRow
  <2>2. QED
    BY <1>1, <1>3, <1>4, <1>8, <2>1 DEF Row
<1>9. CASE tx[r].kind = "run_with"
  <2>1. NewRow(r) = Row(10 * r + Len(tx[r].todo), "template", r, n, {"active"},
                        {x.by : x \in In(tx[r].read, "step")})
    BY <1>2, <1>9 DEF NewRow
  <2>2. NewRow(r).table = "template" /\ NewRow(r).on = {"active"} /\ NewRow(r).n = n
    BY <2>1 DEF Row
  <2>3. QED
    BY <1>1, <1>3, <1>4, <1>5, <1>7, <1>9, <2>2 DEF Templates
<1>10. QED
  BY <1>3, <1>8, <1>9

LEMMA AddRenewed ==
    ASSUME IInv, JInv, KInv, NEW r \in Requests, Add(r)
    PROVE  KInv'
<1> DEFINE x == NewRow(r)
           t == [Past(r) EXCEPT !.new = @ \cup {x}]
           p == tx[r].todo
           h == p[1]
<1>1. /\ r \in Open /\ p # <<>> /\ h[1] = "insert"
      /\ Becomes(r, RolledBack(tx[r])) \/ Becomes(r, t)
  BY DEF Add, At
<1>2. CASE Becomes(r, RolledBack(tx[r]))
  BY <1>1, <1>2, RolledRenewed
<1>3. CASE Becomes(r, t)
  <2>1. tx[r].end = "open" /\ DOMAIN tx[r] = Fields
    BY <1>1, OpenFits DEF Good, Shape
  <2>2. /\ t.kind = tx[r].kind /\ t.todo = Tail(p) /\ t.end = "open"
        /\ t.gone = tx[r].gone /\ t.aim = tx[r].aim /\ t.changed = tx[r].changed
        /\ t.read = tx[r].read /\ t.new = tx[r].new \cup {x}
    BY <2>1 DEF Past, Fields
  <2>3. Becomes(r, t)
    BY <1>3
  <2>4. x.table = h[2]
    BY <1>1, NewRowFits DEF Table
  <2>5. /\ r \in Open /\ p = tx[r].todo /\ p # <<>> /\ h = p[1] /\ h[1] = "insert"
        /\ x = NewRow(r)
    BY <1>1
  <2> HIDE DEF t, x, p, h
  <2>6. /\ Retired(tx[r]) /\ ReadOne(tx[r]) /\ Created(tx[r])
        /\ Takeover(tx[r]) /\ Settled(r, tx[r])
    BY <1>1, KFits
  <2>7. Settled(r, t)
    BY <2>2, <2>6 DEF Settled
  <2>8. CASE h[2] # "template"
    <3>1. ~Inserting(h) /\ ~Retiring(h) /\ ~Looking(h)
      BY <2>5, <2>8 DEF Inserting, Retiring, Looking
    <3>2. Templates(t.new) = Templates(tx[r].new)
      BY <2>2, <2>4, <2>8 DEF Templates, In
    <3>3. InsertsStill(p) => InsertsStill(Tail(p))
      BY <2>5, <3>1, Heading
    <3>4. Takeover(t)
      BY <2>2, <2>5, <2>6, <3>2, <3>3 DEF Takeover
    <3>5. Numbered(t.read) /\ HeldBy(tx[r]) \subseteq HeldBy(t)
      BY <2>2, <2>6 DEF ReadOne, HeldBy
    <3>6. QED
      BY <2>2, <2>3, <2>5, <2>7, <3>1, <3>2, <3>4, <3>5, TailRenewed
  <2>9. CASE h[2] = "template"
    <3>1. Inserting(h)
      BY <2>5, <2>9 DEF Inserting
    <3>2. /\ tx[r].kind \in {"analyze", "run_with"}
          /\ LooksAgain(Tail(p)) /\ Quiet(Tail(p))
          /\ Templates(tx[r].new) = {} /\ Inserts(p)
          /\ x.table = "template" /\ "active" \in x.on /\ x.n \in Nat
          /\ tx[r].kind = "run_with" =>
                Single(tx[r].read) /\ \A c \in Templates(tx[r].read) : c.n < x.n
      BY <2>5, <3>1, Insertion
    <3>3. Templates(t.new) = {x}
      BY <2>2, <3>2 DEF Templates, In
    <3>4. Retired(t)
      <4>1. Templates(tx[r].changed) # {} => tx[r].kind = "run_with"
        BY <2>6 DEF Retired
      <4>2. \A c \in Templates(tx[r].changed) : c \in Templates(tx[r].read)
        BY <2>5, <2>6, <3>2 DEF Retired, Templates, In
      <4>3. QED
        BY <2>2, <2>6, <3>2, <3>3, <4>1, <4>2 DEF Retired
    <3>5. ReadOne(t)
      BY <2>2, <2>6, <3>2 DEF ReadOne
    <3>6. Created(t)
      <4>1. x \in t.new
        BY <2>2
      <4>2. QED
        BY <2>2, <3>2, <3>3, <4>1 DEF Created, Single, Numbered, Active
    <3>7. Holds(t) /\ Takeover(t)
      BY <2>2, <2>6, <3>2, <3>3 DEF Holds, Takeover
    <3>8. QED
      BY <2>2, <2>3, <2>5, <2>7, <3>4, <3>5, <3>6, <3>7, GoingRenewed DEF Renewed
  <2>10. QED
    BY <2>8, <2>9
<1>4. QED
  BY <1>1, <1>2, <1>3
--------------------------------------------------------------------------------
\* The commit, and the coming of a request.

\* The templates after a commit.
LEMMA CommitTemplates ==
    ASSUME IInv, KInv, NEW r \in Requests, Commit(r)
    PROVE  /\ r \in Open /\ tx[r].todo = <<>>
           /\ \A x \in Templates(db') :
                 \/ x \in Templates(tx[r].new)
                 \/ /\ x \in Templates(tx[r].changed) /\ "active" \notin x.on
                    /\ x.id \in HeldBy(tx[r])
                    /\ \E y \in Templates(db) : y.id = x.id /\ y.n = x.n
                 \/ x \in Templates(db) /\ x.id \notin HeldBy(tx[r])
           /\ Templates(tx[r].new) \subseteq Templates(db')
           /\ Templates(tx[r].changed) # {} =>
                 tx[r].kind = "run_with" /\ Templates(tx[r].new) # {}
           /\ Templates(tx[r].new) # {} /\ 1 \in IdsOf(db) =>
                 IdsOf(Active(db)) \subseteq HeldBy(tx[r])
<1>1. /\ r \in Open /\ tx[r].todo = <<>>
      /\ db' = {x \in db : x.id \notin Held(r)} \cup tx[r].changed \cup tx[r].new
  BY DEF Commit
<1>2. Held(r) = HeldBy(tx[r])
  BY DEF Held, HeldBy
<1>3. RowsFit(r, tx[r]) /\ tx[r].end = "open" /\ Rows(db)
  BY <1>1, OpenFits DEF Good, IInv, WInv, Stored
<1>4. Retired(tx[r]) /\ Holds(tx[r])
  BY <1>1, KFits
<1>5. ~Inserts(tx[r].todo) /\ ~LooksAgain(tx[r].todo)
  BY <1>1 DEF Inserts, LooksAgain
<1>6. ASSUME NEW c \in Templates(tx[r].changed)
      PROVE  /\ "active" \notin c.on /\ c.id \in HeldBy(tx[r])
             /\ \E y \in Templates(db) : y.id = c.id /\ y.n = c.n
  <2>1. PICK y \in db : y.id = c.id
    BY <1>3, <1>6 DEF RowsFit, Templates, In, IdsOf
  <2>2. Genuine(c) /\ Genuine(y) /\ c.table = "template"
    BY <1>3, <1>6, <2>1 DEF RowsFit, Rows, Templates, In
  <2>3. y.table = "template"
    BY <2>1, <2>2, SameRow
  <2>4. QED
    BY <1>4, <1>6, <2>1, <2>3 DEF Retired, HeldBy, Templates, In, IdsOf
<1>7. \A x \in Templates(db') :
          \/ x \in Templates(tx[r].new) \/ x \in Templates(tx[r].changed)
          \/ x \in Templates(db) /\ x.id \notin HeldBy(tx[r])
  BY <1>1, <1>2 DEF Templates, In
<1>8. QED
  BY <1>1, <1>4, <1>5, <1>6, <1>7 DEF Retired, Holds, Templates, In

\* What a request takes or changes of the templates.
LEMMA HeldTemplate ==
    ASSUME IInv, JInv, KInv, NEW r \in Requests, Commit(r),
           NEW a \in Templates(db), a.id \in HeldBy(tx[r])
    PROVE  \/ \E c \in Templates(tx[r].changed) : c.id = a.id
           \/ a.id \in tx[r].gone /\ (tx[r].kind = "analyze" \/ Deleted(r)')
<1>1. r \in Open /\ RowsFit(r, tx[r]) /\ Genuine(a) /\ a.table = "template"
  BY OpenFits DEF Commit, Good, IInv, WInv, Stored, Rows, Templates, In
<1>2. CASE a.id \in tx[r].gone
  <2>1. Len(tx[r].todo) = 0
    BY DEF Commit
  <2>2. Sound(tx[r]) /\ Deleting(tx[r], 0)
    BY <1>1, <2>1, JLate, JFits
  <2>3. PICK u \in TakenBy(tx[r].kind) : IdIn(a.id, u)
    BY <1>2, <2>2 DEF Sound, Takes
  <2>4. u = "template"
    BY <1>1, <2>3, RowOfId
  <2>5. tx[r].kind = "analyze" \/ tx[r].kind \in Deletes
    BY <2>3, <2>4 DEF TakenBy
  <2>6. tx[r].kind \in Deletes => ~tx[r].refused
    BY <1>2, <2>2 DEF Deleting
  <2>7. tx[r].kind \in Deletes => Deleted(r)'
    BY <2>6, CommitChanges DEF Deleted, Deletes
  <2>8. QED
    BY <1>2, <2>5, <2>7
<1>3. CASE a.id \in IdsOf(tx[r].changed)
  <2>1. PICK c \in tx[r].changed : c.id = a.id
    BY <1>3 DEF IdsOf
  <2>2. Genuine(c)
    BY <1>1, <2>1 DEF RowsFit, Rows
  <2>3. c.table = "template"
    BY <1>1, <2>1, <2>2, SameRow
  <2>4. QED
    BY <2>1, <2>3 DEF Templates, In
<1>4. QED
  BY <1>2, <1>3 DEF HeldBy

LEMMA CommitActive ==
    ASSUME IInv, JInv, KInv, NEW r \in Requests, Commit(r)
    PROVE  OneActive'
<1>1. /\ r \in Open /\ tx[r].todo = <<>>
      /\ \A x \in Templates(db') :
            \/ x \in Templates(tx[r].new)
            \/ /\ x \in Templates(tx[r].changed) /\ "active" \notin x.on
               /\ x.id \in HeldBy(tx[r])
               /\ \E y \in Templates(db) : y.id = x.id /\ y.n = x.n
            \/ x \in Templates(db) /\ x.id \notin HeldBy(tx[r])
      /\ Templates(tx[r].new) \subseteq Templates(db')
      /\ Templates(tx[r].changed) # {} =>
            tx[r].kind = "run_with" /\ Templates(tx[r].new) # {}
      /\ Templates(tx[r].new) # {} /\ 1 \in IdsOf(db) =>
            IdsOf(Active(db)) \subseteq HeldBy(tx[r])
  BY CommitTemplates
<1> DEFINE D == db'
<1>2. SUFFICES ASSUME 1 \in IdsOf(D)
               PROVE  \E a \in Active(D) :
                          \A y \in Templates(D) : y # a => "active" \notin y.on /\ y.n < a.n
  BY DEF OneActive, Active, Templates, In, IdsOf
<1>3. 1 \in IdsOf(db) /\ ~Deleted(r)'
  BY <1>2, CommitLeaves
<1>4. PICK a \in Active(db) :
          \A y \in Templates(db) : y # a => "active" \notin y.on /\ y.n < a.n
  BY <1>3 DEF KInv, OneActive
<1>5. a \in Templates(db) /\ a \in db /\ "active" \in a.on
  BY <1>4 DEF Active, Templates, In
<1>6. Retired(tx[r]) /\ Created(tx[r]) /\ Takeover(tx[r]) /\ tx[r].aim = {}
  BY <1>1, KFits, OpenFits DEF Good, Swept
<1>7. ~InsertsStill(tx[r].todo)
  BY <1>1 DEF InsertsStill
<1>8. \A c \in Templates(tx[r].changed) :
          /\ \A x \in Templates(tx[r].new) : c.n < x.n
          /\ \A y \in db : y.id = c.id => y.n = c.n
  BY <1>6 DEF Retired
<1> HIDE DEF D
<1>9. CASE Templates(tx[r].new) = {}
  <2>1. Templates(tx[r].changed) = {}
    BY <1>1, <1>9
  <2>2. a.id \notin HeldBy(tx[r])
    <3> SUFFICES ASSUME a.id \in HeldBy(tx[r]) PROVE FALSE
      OBVIOUS
    <3>1. a.id \in tx[r].gone /\ tx[r].kind = "analyze"
      BY <1>3, <1>5, <2>1, HeldTemplate
    <3>2. QED
      BY <1>5, <1>6, <1>7, <1>9, <3>1 DEF Takeover
  <2>3. a \in D
    BY <1>1, <1>5, <2>2 DEF D, Commit, Held, HeldBy
  <2>4. a \in Active(D)
    BY <1>5, <2>3 DEF Active, Templates, In
  <2>5. \A y \in Templates(D) : y \in Templates(db)
    BY <1>1, <1>9, <2>1 DEF D
  <2>6. QED
    BY <1>4, <2>4, <2>5
<1>10. CASE Templates(tx[r].new) # {}
  <2>1. PICK x \in Templates(tx[r].new) : TRUE
    BY <1>10
  <2>2. /\ \A y \in Templates(tx[r].new) : y = x
        /\ x.n \in Nat /\ x.table = "template" /\ "active" \in x.on /\ x \in tx[r].new
    BY <1>6, <2>1 DEF Created, Single, Numbered, Active, Templates, In
  <2>3. x \in Active(D)
    BY <1>1, <2>1, <2>2 DEF D, Active
  <2>4. a.id \in HeldBy(tx[r])
    BY <1>1, <1>3, <1>4, <1>10 DEF IdsOf
  <2>5. \A y \in Templates(db) : y.id \notin HeldBy(tx[r]) => y # a
    BY <2>4
  <2>6. ASSUME NEW c \in Templates(tx[r].changed), c.id = a.id,
               NEW y \in Templates(db), y.id \notin HeldBy(tx[r])
        PROVE  "active" \notin y.on /\ y.n < x.n
    <3>1. c.n = a.n /\ c.n < x.n
      BY <1>5, <1>8, <2>1, <2>6
    <3>2. y.n < a.n /\ "active" \notin y.on
      BY <1>4, <2>5, <2>6
    <3>3. y.n \in Nat /\ a.n \in Nat
      BY <1>5, <2>6 DEF KInv, Numbered
    <3>4. QED
      BY <2>2, <3>1, <3>2, <3>3
  <2>7. ASSUME a.id \in tx[r].gone, tx[r].kind = "analyze",
               NEW y \in Templates(db), y.id \notin HeldBy(tx[r])
        PROVE  FALSE
    <3>1. IdsOf(Templates(db)) \subseteq tx[r].gone
      BY <1>3, <1>4, <1>6, <2>7 DEF Takeover
    <3>2. QED
      BY <2>7, <3>1 DEF IdsOf, HeldBy
  <2>8. ASSUME NEW y \in Templates(D), y # x
        PROVE  "active" \notin y.on /\ y.n < x.n
    <3>1. CASE y \in Templates(tx[r].new)
      BY <2>2, <2>8, <3>1
    <3>2. CASE y \in Templates(tx[r].changed) /\ "active" \notin y.on
      BY <1>8, <2>1, <3>2
    <3>3. CASE y \in Templates(db) /\ y.id \notin HeldBy(tx[r])
      BY <1>3, <1>5, <2>4, <2>6, <2>7, <3>3, HeldTemplate
    <3>4. QED
      BY <1>1, <2>8, <3>1, <3>2, <3>3 DEF D
  <2>9. QED
    BY <2>3, <2>8
<1>11. QED
  BY <1>9, <1>10

LEMMA CommitKeyed ==
    ASSUME IInv, JInv, KInv, NEW r \in Requests, Commit(r)
    PROVE  (Keyed(db) /\ Numbered(db))'
<1>1. /\ r \in Open
      /\ \A x \in Templates(db') :
            \/ x \in Templates(tx[r].new)
            \/ x \in Templates(tx[r].changed) /\ x.id \in HeldBy(tx[r])
            \/ x \in Templates(db) /\ x.id \notin HeldBy(tx[r])
  BY CommitTemplates
<1>2. /\ Keyed(db) /\ Numbered(db) /\ Keyed(tx[r].changed) /\ Numbered(tx[r].changed)
      /\ Single(tx[r].new) /\ Numbered(tx[r].new)
  BY <1>1, KFits DEF KInv, Retired, Created
<1>3. ASSUME NEW x \in Templates(tx[r].new)
      PROVE  /\ \A y \in Templates(db) : y.id # x.id
             /\ \A y \in Templates(tx[r].changed) : y.id # x.id
  <2>1. x \in tx[r].new
    BY <1>3 DEF Templates, In
  <2>2. x.id \notin IdsOf(db) /\ \A y \in tx[r].changed : y.id # x.id
    BY <1>1, <2>1, OwnTemplates
  <2>3. QED
    BY <2>2 DEF Templates, In, IdsOf
<1>4. ASSUME NEW x \in Templates(db'), NEW y \in Templates(db'), x.id = y.id
      PROVE  x = y
  BY <1>1, <1>2, <1>3, <1>4 DEF Keyed, Single
<1>5. \A x \in Templates(db') : x.n \in Nat
  BY <1>1, <1>2 DEF Numbered
<1>6. QED
  BY <1>4, <1>5 DEF Keyed, Numbered, Templates, In

\* Nobody else aims at what an open request inserts.
LEMMA NobodyTakes ==
    ASSUME IInv, NEW r \in Open, NEW q \in Open \ {r}, Settled(q, tx[q]),
           NEW x \in tx[r].new
    PROVE  x.id \notin tx[q].gone \cup tx[q].aim
<1> SUFFICES ASSUME x.id \in tx[q].gone \cup tx[q].aim PROVE FALSE
  OBVIOUS
<1>1. x.id \in (10 * r + 1)..(10 * r + 9) /\ r \in Nat \ {0} /\ tx[r].end = "open"
  BY OwnTemplates, OpenFits
<1>2. x.id \notin 1..6
  BY <1>1
<1>3. PICK o \in Requests : /\ x.id \in (10 * o + 1)..(10 * o + 9)
                            /\ o = q \/ tx[o].end = "done"
  BY <1>2 DEF Settled
<1>4. o \in Nat
  BY Indexes
<1>5. o = r
  BY <1>1, <1>3, <1>4
<1>6. QED
  BY <1>1, <1>3, <1>5

LEMMA CommitRenewed ==
    ASSUME IInv, JInv, KInv, NEW r \in Requests, Commit(r)
    PROVE  KInv'
<1>1. /\ r \in Open /\ tx[r].todo = <<>>
      /\ \A x \in Templates(db') :
            \/ x \in Templates(tx[r].new)
            \/ /\ x \in Templates(tx[r].changed) /\ "active" \notin x.on
               /\ x.id \in HeldBy(tx[r])
               /\ \E y \in Templates(db) : y.id = x.id /\ y.n = x.n
            \/ x \in Templates(db) /\ x.id \notin HeldBy(tx[r])
      /\ Templates(tx[r].new) # {} /\ 1 \in IdsOf(db) =>
            IdsOf(Active(db)) \subseteq HeldBy(tx[r])
  BY CommitTemplates
<1>2. /\ Requests' = Requests /\ tx'[r].end = "done"
      /\ \A q \in Requests \ {r} : tx'[q] = tx[q]
  BY CommitChanges
<1>3. 1 \in IdsOf(db') => 1 \in IdsOf(db)
  BY CommitLeaves
<1>4. RowsFit(r, tx[r]) /\ db' = {x \in db : x.id \notin Held(r)} \cup tx[r].changed \cup tx[r].new
  BY <1>1, OpenFits DEF Commit, Good
<1>5. ASSUME NEW q \in Requests \ {r}, tx[q].end = "open"
      PROVE  Renewed(q, tx[q])'
  <2> DEFINE u == tx[q]
  <2>1. q \in Open
    BY <1>5 DEF Open
  <2>2. /\ Retired(u) /\ ReadOne(u) /\ Created(u) /\ Holds(u) /\ Takeover(u) /\ Settled(q, u)
        /\ RowsFit(q, u)
    BY <2>1, KFits, OpenFits DEF Good
  <2>3. HeldBy(tx[r]) \cap HeldBy(u) = {}
    BY <1>1, <2>1 DEF IInv, WInv, Exclusive
  <2>4. \A x \in tx[r].new : x.id \notin u.gone \cup u.aim
    BY <1>1, <2>1, <2>2, NobodyTakes
  <2>5. tx'[q] = u
    BY <1>2
  <2> HIDE DEF u
  <2> SUFFICES ASSUME NEW v, v = u PROVE Renewed(q, v)'
    BY <2>5
  <2>6. ASSUME NEW c \in Templates(v.changed), NEW y \in db', y.id = c.id
        PROVE  y.n = c.n
    <3>1. c.id \in IdsOf(db) /\ c.id \in HeldBy(u)
      <4>1. c \in u.changed /\ u.end = "open"
        BY <1>5, <2>6 DEF Templates, In, u
      <4>2. QED
        BY <2>2, <4>1 DEF RowsFit, HeldBy, IdsOf
    <3>2. y \notin tx[r].new
      <4>1. \A x \in tx[r].new : x.id \notin IdsOf(db)
        BY <1>1, OwnTemplates
      <4>2. QED
        BY <2>6, <3>1, <4>1
    <3>3. y \notin tx[r].changed
      BY <2>3, <2>6, <3>1 DEF HeldBy, IdsOf
    <3>4. y \in db
      BY <1>4, <2>6, <3>2, <3>3
    <3>5. QED
      BY <2>2, <2>6, <3>4 DEF Retired
  <2>7. Retired(v)'
    BY <2>2, <2>6 DEF Retired
  <2>8. ReadOne(v)' /\ Created(v)'
    BY <2>2 DEF ReadOne, Created
  <2>9. ASSUME 1 \in IdsOf(db'), Templates(v.new) # {}, ~LooksAgain(v.todo),
               NEW x \in Templates(db'), "active" \in x.on
        PROVE  x.id \in HeldBy(v)
    <3>1. IdsOf(Active(db)) \subseteq HeldBy(u)
      BY <1>3, <2>2, <2>9 DEF Holds
    <3>2. PICK a \in Active(db) : TRUE
      BY <1>3, <2>9 DEF KInv, OneActive
    <3>3. a.id \notin HeldBy(tx[r])
      BY <2>3, <3>1, <3>2 DEF IdsOf
    <3>4. Templates(tx[r].new) = {}
      BY <1>1, <1>3, <2>9, <3>2, <3>3 DEF IdsOf
    <3>5. x \in Active(db)
      BY <1>1, <2>9, <3>4 DEF Active
    <3>6. QED
      BY <3>1, <3>5 DEF IdsOf
  <2>10. Holds(v)'
    BY <2>9 DEF Holds, Active, Templates, In, IdsOf
  <2>11. ASSUME v.kind = "analyze", 1 \in IdsOf(db'), NEW a \in Templates(db'),
                "active" \in a.on, a.id \in v.gone \cup v.aim, NEW x \in Templates(db')
         PROVE  x.id \in v.gone \cup v.aim
    <3>1. a \notin Templates(tx[r].new)
      BY <2>4, <2>11 DEF Templates, In
    <3>2. a \in Active(db) /\ a.id \notin HeldBy(tx[r])
      BY <1>1, <2>11, <3>1 DEF Active
    <3>3. IdsOf(Templates(db)) \subseteq v.gone \cup v.aim
      BY <1>3, <2>2, <2>11, <3>2 DEF Takeover
    <3>4. Templates(tx[r].new) = {}
      BY <1>1, <1>3, <2>11, <3>2 DEF IdsOf
    <3>5. QED
      BY <1>1, <2>11, <3>3, <3>4 DEF IdsOf
  <2>12. ASSUME v.kind = "analyze", NEW x \in Templates(db'), x.id \in v.gone
         PROVE  Templates(v.new) # {} \/ InsertsStill(v.todo)
    <3>1. x \notin Templates(tx[r].new)
      BY <2>4, <2>12 DEF Templates, In
    <3>2. x.id \notin HeldBy(tx[r])
      BY <2>3, <2>12 DEF HeldBy
    <3>3. x \in Templates(db)
      BY <1>1, <2>12, <3>1, <3>2
    <3>4. QED
      BY <2>2, <2>12, <3>3 DEF Takeover
  <2>13. Takeover(v)'
    BY <2>11, <2>12 DEF Takeover, Active, Templates, In, IdsOf
  <2>14. Settled(q, v)'
    BY <1>2, <2>2 DEF Settled
  <2>15. QED
    BY <2>7, <2>8, <2>10, <2>13, <2>14 DEF Renewed
<1>6. \A q \in Requests' : \A u \in {tx'[q]} : Renewed(q, u)'
  <2> SUFFICES ASSUME NEW q \in Requests, NEW u \in {tx'[q]} PROVE Renewed(q, u)'
    BY <1>2
  <2>1. CASE u.end # "open"
    BY <2>1 DEF Renewed
  <2>2. CASE u.end = "open"
    BY <1>2, <1>5, <2>2
  <2>3. QED
    BY <2>1, <2>2
<1>7. QED
  BY <1>6, CommitActive, CommitKeyed DEF KInv

LEMMA ArriveRenewed ==
    ASSUME IInv, KInv, NEW kind \in Kinds, Arrive(kind)
    PROVE  KInv'
<1>1. PICK t : /\ db' = db /\ tx' = Append(tx, t)
               /\ t.new = {} /\ t.gone = {} /\ t.changed = {} /\ t.read = {} /\ t.aim = {}
  BY DEF Arrive
<1>2. PICK S : tx \in Seq(S)
  BY DEF IInv, IsSeq
<1> PICK n : n = Len(tx) + 1
  OBVIOUS
<1>3. /\ Len(tx) \in Nat /\ Requests = 1..Len(tx)
      /\ Len(tx') = n /\ DOMAIN tx' = 1..n
      /\ tx'[n] = t /\ \A q \in 1..Len(tx) : tx'[q] = tx[q]
  BY <1>1, <1>2 DEF Requests
<1>4. /\ Requests' = Requests \cup {n} /\ n \notin Requests
      /\ tx'[n] = t /\ \A q \in Requests : tx'[q] = tx[q]
  BY <1>3 DEF Requests
<1>5. (OneActive /\ Keyed(db) /\ Numbered(db))'
  BY <1>1 DEF KInv, OneActive, Keyed, Numbered, Templates, Active, In, IdsOf
<1>6. ASSUME NEW q \in Requests, NEW u, Renewed(q, u) PROVE Renewed(q, u)'
  <2> SUFFICES ASSUME u.end = "open"
               PROVE  (/\ Retired(u) /\ ReadOne(u) /\ Created(u) /\ Holds(u) /\ Takeover(u)
                       /\ Settled(q, u))'
    BY DEF Renewed
  <2>1. /\ Retired(u) /\ ReadOne(u) /\ Created(u) /\ Holds(u) /\ Takeover(u) /\ Settled(q, u)
    BY <1>6 DEF Renewed
  <2>2. Retired(u)'
    BY <1>1, <2>1 DEF Retired
  <2>3. Holds(u)'
    BY <1>1, <2>1 DEF Holds, Active, Templates, In, IdsOf
  <2>4. Takeover(u)'
    BY <1>1, <2>1 DEF Takeover, Active, Templates, In, IdsOf
  <2>5. Settled(q, u)'
    BY <1>4, <2>1 DEF Settled
  <2>6. QED
    BY <2>1, <2>2, <2>3, <2>4, <2>5 DEF ReadOne, Created
<1>7. Renewed(n, t)'
  BY <1>1 DEF Renewed, Retired, ReadOne, Created, Holds, Takeover, Settled, Single, Numbered,
     Keyed, Templates, In
<1>8. \A q \in Requests' : \A u \in {tx'[q]} : Renewed(q, u)'
  BY <1>4, <1>6, <1>7 DEF KInv
<1>9. QED
  BY <1>5, <1>8 DEF KInv
--------------------------------------------------------------------------------
LEMMA InitKInv == Init => KInv
<1> SUFFICES ASSUME Init PROVE KInv
  OBVIOUS
<1>1. Requests = {}
  BY DEF Init, Requests
<1> DEFINE a == Row(6, "template", 0, 1, {"active"}, {})
<1>2. Templates(db) = {a}
  BY DEF Init, Row, Templates, In
<1>3. a.n = 1 /\ "active" \in a.on
  BY DEF Row
<1>4. OneActive /\ Keyed(db) /\ Numbered(db)
  BY <1>2, <1>3 DEF OneActive, Active, Keyed, Numbered
<1>5. QED
  BY <1>1, <1>4 DEF KInv

LEMMA NextKInv == IInv /\ JInv /\ KInv /\ [Next]_vars => KInv'
<1> SUFFICES ASSUME IInv, JInv, KInv, [Next]_vars PROVE KInv'
  OBVIOUS
<1>1. ASSUME NEW kind \in Kinds, Arrive(kind) PROVE KInv'
  BY <1>1, ArriveRenewed
<1>2. ASSUME NEW r \in Requests, Load(r) PROVE KInv'
  BY <1>2, LoadRenewed
<1>3. ASSUME NEW r \in Requests, Decide(r) PROVE KInv'
  BY <1>3, DecideRenewed
<1>4. ASSUME NEW r \in Requests, Pick(r) PROVE KInv'
  BY <1>4, PickRenewed
<1>5. ASSUME NEW r \in Requests, Aim(r) PROVE KInv'
  BY <1>5, AimRenewed
<1>6. ASSUME NEW r \in Requests, Remove(r) PROVE KInv'
  BY <1>6, RemoveRenewed
<1>7. ASSUME NEW r \in Requests, Update(r) PROVE KInv'
  BY <1>7, UpdateRenewed
<1>8. ASSUME NEW r \in Requests, Add(r) PROVE KInv'
  BY <1>8, AddRenewed
<1>9. ASSUME NEW r \in Requests, Bind(r) PROVE KInv'
  BY <1>9, BindRenewed
<1>10. ASSUME NEW r \in Requests, Plan(r) PROVE KInv'
  BY <1>10, PlanRenewed
<1>11. ASSUME NEW r \in Requests, Adopt(r) PROVE KInv'
  BY <1>11, AdoptRenewed
<1>12. ASSUME NEW r \in Requests, Create(r) PROVE KInv'
  BY <1>12, CreateRenewed
<1>13. ASSUME NEW r \in Requests, Commit(r) PROVE KInv'
  BY <1>13, CommitRenewed
<1>14. ASSUME NEW r \in Requests, Deadlock(r) PROVE KInv'
  BY <1>14, RolledRenewed DEF Deadlock
<1>15. CASE UNCHANGED vars
  BY <1>15 DEF vars, KInv, OneActive, Keyed, Numbered, Renewed, Retired, ReadOne, Created,
     Holds, Takeover, Settled, Active, Templates, Single, Requests, IdsOf, In
<1>16. QED
  BY <1>1, <1>2, <1>3, <1>4, <1>5, <1>6, <1>7, <1>8, <1>9, <1>10, <1>11, <1>12, <1>13,
     <1>14, <1>15 DEF Next

LEMMA InvKInv == Spec => []KInv
<1>1. Init => KInv
  BY InitKInv
<1>2. IInv /\ JInv /\ KInv /\ [Next]_vars => KInv'
  BY NextKInv
<1>3. QED
  BY <1>1, <1>2, InvIInv, InvJInv, PTL DEF Spec

LEMMA OnlyActive == ASSUME IInv, KInv PROVE OneActiveTemplate
<1> SUFFICES ASSUME In(db, "workflow") # {},
                    NEW x \in Templates(db), NEW y \in Templates(db),
                    "active" \in x.on, x # y
             PROVE  "active" \notin y.on /\ y.n < x.n
  BY DEF OneActiveTemplate, Templates
<1>1. \A z \in db : Genuine(z)
  BY DEF IInv, WInv, Stored, Rows
<1>2. 1 \in IdsOf(db)
  BY <1>1, WorkflowRow DEF In, IdsOf
<1>3. PICK a \in Active(db) :
          \A z \in Templates(db) : z # a => "active" \notin z.on /\ z.n < a.n
  BY <1>2 DEF KInv, OneActive
<1>4. QED
  BY <1>3
--------------------------------------------------------------------------------
(* The end of a run is never undone but by a request that takes the steps   *)
(* (EndsAnyway).  LInv says which statements touch the steps (InSteps), and *)
(* as long as no deletion is through (Together): the ends that have learned *)
(* of steps know of some (Learns), of any two of them one knows all the     *)
(* stored steps that the other one knows (Comparable), a step that was      *)
(* picked is there or somebody took it (Finds), a save that takes the steps *)
(* leaves others (Saving), and who has written steps waits for nobody but   *)
(* as an end (Writing).  So two ends that have both written steps held a    *)
(* step in common, which nobody does: they do not wait for each other.      *)
EndKinds == {"end", "agent_end"}
Savers == {"save", "delete", "delete_all"}

\* The statements that the end of an agent's run has outside of the savepoint.
Base(kind) == IF kind = "agent_end" THEN 3 ELSE 0

Outcomes == {StepStability, ParameterCounts}

\* What holds of statement i of p, of a request of the kind.
StepOrder(kind, p, i) ==
    LET s == p[i]
        n == Len(p) - i + 1
    IN  /\ s[1] = "change" /\ s[2] = "step" =>
              kind \in EndKinds \/ (kind = "edit" /\ n = 1) \/ (kind = "analyze" /\ n = 2)
        /\ kind = "analyze" /\ n = 1 => s = One("template")
        /\ kind = "save" =>
              n <= 3 /\ s = IF n = 3 THEN Need("workflow")
                            ELSE IF n = 2 THEN Clear("step") ELSE Insert("step")
        /\ kind \in EndKinds =>
              /\ n <= 4 + Base(kind)
              /\ n = 4 + Base(kind) => s = Read("step")
              /\ n = 3 + Base(kind) => s = Read("parameter")
              /\ n \in {1 + Base(kind), 2 + Base(kind)} => s \in Outcomes
              /\ n = 2 + Base(kind) => p[i + 1] # s
        /\ kind = "agent_end" =>
              /\ n = 3 => s = Some("step")
              /\ n = 2 => s = <<"pick", "step">>
              /\ n = 1 => s = Change("step", "touch")

InSteps(kind, p) == \A i \in 1..Len(p) : StepOrder(kind, p, i)

\* The steps that a request has written, and read.
Touched(t) == IdsOf(In(t.changed, "step"))
Seen(t) == IdsOf(In(t.read, "step"))
Known(t) == IF Touched(t) # {} THEN Touched(t) ELSE Seen(t)

Learner(t) ==
    /\ t.kind \in EndKinds /\ t.end = "open" /\ t.todo # <<>>
    /\ Len(t.todo) > Base(t.kind) \/ Touched(t) # {}

Learns(t, n) ==
    t.kind \in EndKinds =>
        /\ t.gone = {} /\ t.new = {}
        /\ \A x \in t.read : x.by # 0 => tx[x.by].end = "done"
        /\ n = 4 + Base(t.kind) => t.read = {}
        /\ n >= 2 + Base(t.kind) => t.changed = {}
        /\ n \in (1 + Base(t.kind))..(3 + Base(t.kind)) => Known(t) # {}
        /\ n = 1 + Base(t.kind) =>
              (Touched(t) = {} <=> t.todo[1] = StepStability)
        /\ t.kind = "agent_end" /\ n \in 1..3 => t.changed = {} \/ Touched(t) # {}

Excused(r) == \E o \in Requests : Overlap(r, o) /\ tx[o].kind \in Savers

\* A step that is picked is there, or the run is excused.
Finds(r, t, n) ==
    t.kind = "agent_end" /\ n \in 1..2 => Seen(t) \subseteq IdsOf(db) \/ Excused(r)

Saving(t, n) ==
    t.kind = "save" =>
        /\ n = 3 \/ t.refused => t.gone = {}
        /\ n = 0 /\ ~t.refused => In(t.new, "step") # {}

Writing(t, n) ==
    Touched(t) # {} =>
        t.kind \in EndKinds \/ n = 0 \/ (t.kind = "analyze" /\ n = 1)

Taught(r, t) ==
    t.end = "open" =>
        \A n \in {Len(t.todo)} :
            Learns(t, n) /\ Finds(r, t, n) /\ Saving(t, n) /\ Writing(t, n)

Comparable(t, u) ==
    \/ Known(t) \cap IdsOf(db) \subseteq Known(u)
    \/ Known(u) \cap IdsOf(db) \subseteq Known(t)

Gone == \E d \in Requests : Deleted(d)

Together ==
    /\ In(db, "step") # {}
    /\ \A r \in Requests : \A t \in {tx[r]} : Taught(r, t)
    /\ \A r, o \in Open : r # o /\ Learner(tx[r]) /\ Learner(tx[o]) => Comparable(tx[r], tx[o])

LInv ==
    /\ EndsAnyway
    /\ \A r \in Requests : \A t \in {tx[r]} : InSteps(t.kind, t.todo)
    /\ Gone \/ Together
--------------------------------------------------------------------------------
LEMMA StepsOfSave == InSteps("save", Save)
<1> USE DEF Need, Clear, Insert
<1>1. /\ Len(Save) = 3
      /\ Save[1] = Need("workflow")
      /\ Save[2] = Clear("step")
      /\ Save[3] = Insert("step")
  BY DEF Save, Get, ReplaceSteps
<1>2. \A i \in 1..3 : i = 1 \/ i = 2 \/ i = 3
  OBVIOUS
<1>3. QED
  BY <1>1, <1>2 DEF InSteps, StepOrder, EndKinds

LEMMA StepsOfEdit == InSteps("edit", UpdateStep)
<1> USE DEF Need, Some, Change
<1>1. /\ Len(UpdateStep) = 4
      /\ UpdateStep[1] = Need("workflow")
      /\ UpdateStep[2] = Some("step")
      /\ UpdateStep[3] = <<"pick", "step">>
      /\ UpdateStep[4] = Change("step", "touch")
  BY DEF UpdateStep, Get
<1>2. \A i \in 1..4 : i = 1 \/ i = 2 \/ i = 3 \/ i = 4
  OBVIOUS
<1>3. QED
  BY <1>1, <1>2 DEF InSteps, StepOrder, EndKinds

LEMMA StepsOfAnalysis == InSteps("analyze", Analyze)
<1> SUFFICES ASSUME NEW i \in 1..13 PROVE StepOrder("analyze", Analyze, i)
  BY AnalyzeIs DEF InSteps
<1>1. \/ i = 1 \/ i = 2 \/ i = 3 \/ i = 4 \/ i = 5 \/ i = 6 \/ i = 7 \/ i = 8 \/ i = 9
      \/ i = 10 \/ i = 11 \/ i = 12 \/ i = 13
  OBVIOUS
<1>2. /\ i = 12 \/ Analyze[i][1] # "change"
      /\ i = 13 => Analyze[i] = One("template")
  BY <1>1, AnalyzeIs DEF Need, Read, Clear, One, Drop, Insert
<1>3. QED
  BY <1>1, <1>2, AnalyzeIs DEF StepOrder, EndKinds

LEMMA StepsOfEvolve == InSteps("agent_end", Evolve)
<1> USE DEF Some, Change
<1>1. /\ Len(Evolve) = 3
      /\ Evolve[1] = Some("step")
      /\ Evolve[2] = <<"pick", "step">>
      /\ Evolve[3] = Change("step", "touch")
  BY DEF Evolve
<1>2. \A i \in 1..3 : i = 1 \/ i = 2 \/ i = 3
  OBVIOUS
<1>3. QED
  BY <1>1, <1>2 DEF InSteps, StepOrder, EndKinds, Base

LEMMA StepsOfLearn ==
    ASSUME NEW learned \in Learn
    PROVE  InSteps("end", learned) /\ InSteps("agent_end", learned \o Evolve)
<1>1. PICK order \in {<<StepStability, ParameterCounts>>, <<ParameterCounts, StepStability>>} :
          learned = <<Read("step"), Read("parameter")>> \o order
  BY DEF Learn
<1>2. PICK a \in Outcomes, b \in Outcomes : a # b /\ order = <<a, b>>
  <2>1. StepStability # ParameterCounts
    BY DEF StepStability, ParameterCounts, Change
  <2>2. QED
    BY <1>1, <2>1 DEF Outcomes
<1>3. /\ Len(learned) = 4
      /\ learned[1] = Read("step") /\ learned[2] = Read("parameter")
      /\ learned[3] = a /\ learned[4] = b
  BY <1>1, <1>2
<1>4. /\ Len(learned \o Evolve) = 7
      /\ \A i \in 1..4 : (learned \o Evolve)[i] = learned[i]
      /\ (learned \o Evolve)[5] = Some("step")
      /\ (learned \o Evolve)[6] = <<"pick", "step">>
      /\ (learned \o Evolve)[7] = Change("step", "touch")
  BY <1>1, <1>2 DEF Evolve
<1>5. Read("step")[1] # "change" /\ Read("parameter")[1] # "change"
  BY DEF Read
<1>6. InSteps("end", learned)
  <2>1. \A i \in 1..4 : i = 1 \/ i = 2 \/ i = 3 \/ i = 4
    OBVIOUS
  <2>2. QED
    BY <1>2, <1>3, <1>5, <2>1 DEF InSteps, StepOrder, EndKinds, Base
<1>7. InSteps("agent_end", learned \o Evolve)
  <2> DEFINE p == learned \o Evolve
  <2>1. /\ Len(p) = 7
        /\ p[1] = Read("step") /\ p[2] = Read("parameter") /\ p[3] = a /\ p[4] = b
        /\ p[5] = Some("step") /\ p[6] = <<"pick", "step">> /\ p[7] = Change("step", "touch")
    BY <1>3, <1>4
  <2> HIDE DEF p
  <2>2. \A i \in 1..7 : i = 1 \/ i = 2 \/ i = 3 \/ i = 4 \/ i = 5 \/ i = 6 \/ i = 7
    OBVIOUS
  <2>3. InSteps("agent_end", p)
    BY <1>2, <1>5, <2>1, <2>2 DEF InSteps, StepOrder, EndKinds, Base
  <2>4. QED
    BY <2>3 DEF p
<1>8. QED
  BY <1>6, <1>7

\* The other programs change no step.
NoStep(p) == \A i \in 1..Len(p) : ~(p[i][1] = "change" /\ p[i][2] = "step")

LEMMA StepsOfOthers ==
    ASSUME NEW kind, kind \notin EndKinds \cup {"edit", "analyze", "save"},
           NEW p, NoStep(p)
    PROVE  InSteps(kind, p)
BY DEF NoStep, InSteps, StepOrder, EndKinds

LEMMA NoStepChanged ==
    /\ NoStep(AddStep) /\ NoStep(Archive) /\ NoStep(Describe) /\ NoStep(UpdateAnalysis)
    /\ NoStep(UpdateParameter) /\ NoStep(SaveBinding) /\ NoStep(DeleteBinding)
    /\ NoStep(Promote)
<1> USE DEF Need, Read, Some, One, Not, Clear, Drop, Change, Insert
<1>0. /\ \A i \in 1..2 : i = 1 \/ i = 2
      /\ \A i \in 1..3 : i = 1 \/ i = 2 \/ i = 3
      /\ \A i \in 1..4 : i = 1 \/ i = 2 \/ i = 3 \/ i = 4
      /\ \A i \in 1..5 : i = 1 \/ i = 2 \/ i = 3 \/ i = 4 \/ i = 5
  OBVIOUS
<1>1. NoStep(AddStep)
  <2>1. /\ Len(AddStep) = 2
        /\ AddStep[1] = Need("workflow")
        /\ AddStep[2] = Insert("step")
    BY DEF AddStep, Get, AppendStep
  <2>2. QED
    BY <1>0, <2>1 DEF NoStep
<1>2. NoStep(Archive)
  <2>1. /\ Len(Archive) = 5
        /\ Archive[1] = Need("workflow")
        /\ Archive[2] = Not("workflow", "archived")
        /\ Archive[3] = Need("workflow")
        /\ Archive[4] = Not("workflow", "archived")
        /\ Archive[5] = Change("workflow", "archived")
    BY DEF Archive, UpdateStatus, Get
  <2>2. QED
    BY <1>0, <2>1 DEF NoStep
<1>3. NoStep(Describe)
  <2>1. /\ Len(Describe) = 4
        /\ Describe[1] = Need("workflow")
        /\ Describe[2] = Read("step")
        /\ Describe[3] = Need("workflow")
        /\ Describe[4] = Change("workflow", "touch")
    BY DEF Describe, UpdateWorkflow, Get
  <2>2. QED
    BY <1>0, <2>1 DEF NoStep
<1>4. NoStep(UpdateAnalysis)
  <2>1. /\ Len(UpdateAnalysis) = 2
        /\ UpdateAnalysis[1] = Need("analysis")
        /\ UpdateAnalysis[2] = Change("analysis", "version")
    BY DEF UpdateAnalysis
  <2>2. QED
    BY <1>0, <2>1 DEF NoStep
<1>5. NoStep(UpdateParameter)
  <2>1. /\ Len(UpdateParameter) = 2
        /\ UpdateParameter[1] = Need("parameter")
        /\ UpdateParameter[2] = Change("parameter", "touch")
    BY DEF UpdateParameter
  <2>2. QED
    BY <1>0, <2>1 DEF NoStep
<1>6. NoStep(SaveBinding)
  <2>1. /\ Len(SaveBinding) = 3
        /\ SaveBinding[1] = Need("parameter")
        /\ SaveBinding[2] = One("binding")
        /\ SaveBinding[3] = <<"bind">>
    BY DEF SaveBinding, EnsureParameter
  <2>2. QED
    BY <1>0, <2>1 DEF NoStep
<1>7. NoStep(DeleteBinding)
  <2>1. /\ Len(DeleteBinding) = 2
        /\ DeleteBinding[1] = Need("binding")
        /\ DeleteBinding[2] = Drop("binding")
    BY DEF DeleteBinding
  <2>2. QED
    BY <1>0, <2>1 DEF NoStep
<1>8. NoStep(Promote)
  <2>1. /\ Len(Promote) = 4
        /\ Promote[1] = Need("workflow")
        /\ Promote[2] = Not("workflow", "system")
        /\ Promote[3] = Not("workflow", "archived")
        /\ Promote[4] = Change("workflow", "system")
    BY DEF Promote, Get
  <2>2. QED
    BY <1>0, <2>1 DEF NoStep
<1>9. QED
  BY <1>1, <1>2, <1>3, <1>4, <1>5, <1>6, <1>7, <1>8

\* For the runs and the deletions that is known.
LEMMA OrderedSteps ==
    ASSUME NEW kind \in RunKinds \cup Deletes, NEW p, Ordered(kind, p)
    PROVE  InSteps(kind, p)
<1>1. ASSUME NEW i \in 1..Len(p), p[i][1] = "change" PROVE p[i][2] # "step"
  <2>1. InOrder(kind, p, i)
    BY DEF Ordered
  <2>2. kind \in RunKinds => p[i][2] = "template"
    BY <1>1, <2>1 DEF InOrder
  <2>3. kind \notin Deletes
    <3>1. PICK S : p \in Seq(S)
      BY DEF Ordered, IsSeq
    <3>2. Len(p) - i + 1 \in Nat \ {0}
      BY <3>1
    <3>3. Orderly(kind, p[i], Len(p) - i + 1)
      BY <2>1 DEF InOrder
    <3>4. QED
      BY <3>2, <3>3, <1>1, OfDeletion
  <2>4. QED
    BY <2>2, <2>3
<1>2. QED
  BY <1>1, StepsOfOthers DEF NoStep, RunKinds, Deletes, EndKinds

LEMMA ProgramSteps ==
    ASSUME NEW kind \in Kinds, NEW p \in Programs(kind)
    PROVE  InSteps(kind, p)
<1>1. CASE kind \in RunKinds \cup Deletes
  BY <1>1, ProgramFits, OrderedSteps
<1>2. CASE kind \in {"add", "archive", "describe", "edit_analysis", "edit_parameter", "bind",
                     "unbind", "promote"}
  <2>1. p \in {AddStep, Archive, Describe, UpdateAnalysis, UpdateParameter, SaveBinding,
               DeleteBinding, Promote}
    BY <1>2 DEF Programs
  <2>2. NoStep(p)
    BY <2>1, NoStepChanged
  <2>3. QED
    BY <1>2, <2>2, StepsOfOthers DEF EndKinds
<1>3. CASE kind = "save"
  BY <1>3, StepsOfSave DEF Programs
<1>4. CASE kind = "edit"
  BY <1>4, StepsOfEdit DEF Programs
<1>5. CASE kind = "analyze"
  BY <1>5, StepsOfAnalysis DEF Programs
<1>6. CASE kind = "end"
  <2>1. p \in Learn
    BY <1>6 DEF Programs
  <2>2. QED
    BY <1>6, <2>1, StepsOfLearn
<1>7. CASE kind = "agent_end"
  <2>1. p \in AgentEnd
    BY <1>7 DEF Programs
  <2>2. PICK learned \in Learn : p = learned \o Evolve
    BY <2>1 DEF AgentEnd
  <2>3. QED
    BY <1>7, <2>2, StepsOfLearn
<1>8. QED
  BY <1>1, <1>2, <1>3, <1>4, <1>5, <1>6, <1>7, StoreAssumption DEF RunKinds, Deletes

\* What is left of a program after its first statement.
LEMMA StepsTail ==
    ASSUME NEW kind, NEW p, Ordered(kind, p), p # <<>>, InSteps(kind, p)
    PROVE  InSteps(kind, Tail(p)) /\ StepOrder(kind, p, 1)
<1> DEFINE q == Tail(p)
<1>1. /\ Len(p) \in Nat \ {0} /\ Len(q) = Len(p) - 1
      /\ \A i \in 1..(Len(p) - 1) : q[i] = p[i + 1]
  BY TailFits
<1> HIDE DEF q
<1>2. ASSUME NEW i \in 1..Len(q) PROVE StepOrder(kind, q, i)
  <2>1. StepOrder(kind, p, i + 1)
    BY <1>1 DEF InSteps
  <2>2. /\ q[i] = p[i + 1] /\ Len(q) - i + 1 = Len(p) - (i + 1) + 1
        /\ Len(q) - i + 1 # 1 => q[i + 1] = p[(i + 1) + 1]
    BY <1>1
  <2>3. Base(kind) \in Nat
    BY DEF Base
  <2>4. Len(q) - i + 1 = 2 + Base(kind) => q[i + 1] = p[(i + 1) + 1]
    BY <2>2, <2>3
  <2>5. QED
    BY <2>1, <2>2, <2>4 DEF StepOrder
<1>3. QED
  BY <1>1, <1>2 DEF InSteps, q
--------------------------------------------------------------------------------
LEMMA LFits ==
    ASSUME IInv, LInv, NEW r \in Open, NEW n, n = Len(tx[r].todo)
    PROVE  /\ InSteps(tx[r].kind, tx[r].todo)
           /\ ~Gone => /\ In(db, "step") # {}
                       /\ Learns(tx[r], n) /\ Finds(r, tx[r], n)
                       /\ Saving(tx[r], n) /\ Writing(tx[r], n)
BY OpenFits DEF LInv, Together, Taught

\* The next statement, as far as it touches the steps, when n are left.
StepHead(kind, s, n) ==
    /\ s[1] = "change" /\ s[2] = "step" =>
          kind \in EndKinds \/ (kind = "edit" /\ n = 1) \/ (kind = "analyze" /\ n = 2)
    /\ kind = "analyze" /\ n = 1 => s[1] = "one"
    /\ kind = "save" =>
          /\ n <= 3 /\ (n = 3 => s[1] = "need") /\ (n = 2 => s[1] = "clear")
          /\ n = 1 => s[1] = "insert" /\ s[2] = "step"

LEMMA StepNext ==
    ASSUME IInv, LInv, NEW r \in Open, tx[r].todo # <<>>, NEW n, n = Len(tx[r].todo),
           NEW s, s = tx[r].todo[1]
    PROVE  /\ n \in Nat \ {0} /\ Len(Tail(tx[r].todo)) = n - 1
           /\ (Tail(tx[r].todo) = <<>> <=> n = 1)
           /\ InSteps(tx[r].kind, Tail(tx[r].todo))
           /\ StepHead(tx[r].kind, s, n)
<1> DEFINE p == tx[r].todo
<1>0. p = tx[r].todo /\ p # <<>> /\ n = Len(p) /\ s = p[1]
  OBVIOUS
<1> HIDE DEF p
<1>1. /\ Ordered(tx[r].kind, p) /\ n \in Nat \ {0} /\ Len(Tail(p)) = n - 1
      /\ (Tail(p) = <<>> <=> n = 1)
  BY <1>0, OpenTail, OpenFits DEF Good
<1>2. InSteps(tx[r].kind, Tail(p)) /\ StepOrder(tx[r].kind, p, 1)
  BY <1>0, <1>1, LFits, StepsTail
<1>3. n - 1 + 1 = n
  BY <1>1
<1>4. StepHead(tx[r].kind, s, n)
  <2> DEFINE kind == tx[r].kind
  <2>1. /\ One("template")[1] = "one" /\ Need("workflow")[1] = "need"
        /\ Clear("step")[1] = "clear"
        /\ Insert("step")[1] = "insert" /\ Insert("step")[2] = "step"
    BY DEF One, Need, Clear, Insert
  <2>2. StepOrder(kind, p, 1) /\ Len(p) - 1 + 1 = n /\ p[1] = s
    BY <1>0, <1>2, <1>3
  <2> HIDE DEF kind
  <2>3. /\ s[1] = "change" /\ s[2] = "step" =>
              kind \in EndKinds \/ (kind = "edit" /\ n = 1) \/ (kind = "analyze" /\ n = 2)
        /\ kind = "analyze" /\ n = 1 => s = One("template")
    BY ONLY <2>2 DEF StepOrder
  <2>4. kind = "save" => /\ n <= 3 /\ (n = 3 => s = Need("workflow"))
                         /\ n = 2 => s = Clear("step")
                         /\ n = 1 => s = Insert("step")
    BY ONLY <2>2 DEF StepOrder
  <2>5. StepHead(kind, s, n)
    BY ONLY <2>1, <2>3, <2>4 DEF StepHead
  <2>6. QED
    BY <2>5 DEF kind
<1>5. QED
  BY <1>0, <1>1, <1>2, <1>4

\* The statement that the end of a run begins with, when n are left.
EndHead(s, n, b) ==
    \/ n = 4 + b /\ s[1] = "read" /\ s[2] = "step"
    \/ n = 3 + b /\ s[1] = "read" /\ s[2] = "parameter"
    \/ /\ n \in {1 + b, 2 + b} /\ s[1] = "change"
       /\ \/ s = StepStability /\ s[2] = "step"
          \/ s = ParameterCounts /\ s[2] = "parameter"
    \/ b = 3 /\ n = 3 /\ s[1] = "some" /\ s[2] = "step"
    \/ b = 3 /\ n = 2 /\ s[1] = "pick" /\ s[2] = "step"
    \/ b = 3 /\ n = 1 /\ s[1] = "change" /\ s[2] = "step"

LEMMA EndNext ==
    ASSUME IInv, LInv, NEW r \in Open, tx[r].todo # <<>>, tx[r].kind \in EndKinds,
           NEW n, n = Len(tx[r].todo), NEW s, s = tx[r].todo[1],
           NEW b, b = Base(tx[r].kind)
    PROVE  /\ n \in Nat \ {0} /\ b \in {0, 3} /\ (b = 3 <=> tx[r].kind = "agent_end")
           /\ EndHead(s, n, b)
           /\ n = 2 + b => /\ Tail(tx[r].todo)[1] # s
                           /\ Tail(tx[r].todo)[1] \in Outcomes
<1> DEFINE p == tx[r].todo
<1>0. p = tx[r].todo /\ p # <<>> /\ n = Len(p) /\ s = p[1]
  OBVIOUS
<1> HIDE DEF p
<1>1. /\ Ordered(tx[r].kind, p) /\ n \in Nat \ {0} /\ Len(Tail(p)) = n - 1
      /\ \A i \in 1..(n - 1) : Tail(p)[i] = p[i + 1]
  BY <1>0, OpenTail, OpenFits DEF Good
<1>2. InSteps(tx[r].kind, Tail(p)) /\ StepOrder(tx[r].kind, p, 1)
  BY <1>0, <1>1, LFits, StepsTail
<1>3. n - 1 + 1 = n /\ b \in {0, 3} /\ (b = 3 <=> tx[r].kind = "agent_end")
  BY <1>1 DEF Base, EndKinds
<1>4. /\ n <= 4 + b
      /\ n = 4 + b => s = Read("step")
      /\ n = 3 + b => s = Read("parameter")
      /\ n \in {1 + b, 2 + b} => s \in Outcomes
      /\ n = 2 + b => p[2] # s
  BY <1>0, <1>2, <1>3 DEF StepOrder
<1>5. b = 3 => /\ n = 3 => s = Some("step")
               /\ n = 2 => s = <<"pick", "step">>
               /\ n = 1 => s = Change("step", "touch")
  BY <1>0, <1>2, <1>3 DEF StepOrder
<1>6. \/ n = 4 + b \/ n = 3 + b \/ n \in {1 + b, 2 + b}
      \/ b = 3 /\ n \in {1, 2, 3}
  <2>1. n \in Nat \ {0} /\ b \in {0, 3} /\ n <= 4 + b
    BY <1>1, <1>3, <1>4
  <2>2. QED
    BY ONLY <2>1
<1>7. ASSUME n = 2 + b PROVE Tail(p)[1] # s /\ Tail(p)[1] \in Outcomes
  <2>1. 1 \in 1..(n - 1) /\ 1 \in 1..Len(Tail(p)) /\ Len(Tail(p)) = 1 + b
    <3>1. n \in Nat /\ b \in {0, 3} /\ Len(Tail(p)) = n - 1
      BY <1>1, <1>3
    <3>2. QED
      BY <3>1, <1>7
  <2>2. Tail(p)[1] = p[2]
    BY <1>1, <2>1
  <2>3. StepOrder(tx[r].kind, Tail(p), 1)
    BY <1>2, <2>1 DEF InSteps
  <2>4. Len(Tail(p)) - 1 + 1 = 1 + b
    BY <1>3, <2>1
  <2>5. Tail(p)[1] \in Outcomes
    BY <2>3, <2>4 DEF StepOrder
  <2>6. QED
    BY <1>4, <1>7, <2>2, <2>5
<1>8. EndHead(s, n, b)
  <2>1. /\ s \in Outcomes => /\ s[1] = "change"
                             /\ \/ s = StepStability /\ s[2] = "step"
                                \/ s = ParameterCounts /\ s[2] = "parameter"
        /\ Read("step")[1] = "read" /\ Read("step")[2] = "step"
        /\ Read("parameter")[1] = "read" /\ Read("parameter")[2] = "parameter"
        /\ Some("step")[1] = "some" /\ Some("step")[2] = "step"
        /\ <<"pick", "step">>[1] = "pick" /\ <<"pick", "step">>[2] = "step"
        /\ Change("step", "touch")[1] = "change" /\ Change("step", "touch")[2] = "step"
    BY DEF Read, Some, Change, Outcomes, StepStability, ParameterCounts
  <2>2. CASE n = 4 + b
    BY <1>4, <2>1, <2>2 DEF EndHead
  <2>3. CASE n = 3 + b
    BY <1>4, <2>1, <2>3 DEF EndHead
  <2>4. CASE n \in {1 + b, 2 + b}
    BY <1>4, <2>1, <2>4 DEF EndHead
  <2>5. CASE b = 3 /\ n \in {1, 2, 3}
    BY <1>5, <2>1, <2>5 DEF EndHead
  <2>6. QED
    BY <1>6, <2>2, <2>3, <2>4, <2>5
<1>9. QED
  BY <1>0, <1>1, <1>3, <1>7, <1>8
--------------------------------------------------------------------------------
\* What stays known.
LEMMA GoneStays ==
    ASSUME Later, Gone
    PROVE  Gone'
BY DEF Later, Gone, Deleted

LEMMA ExcusedStays ==
    ASSUME Later, NEW q \in Requests, Excused(q)
    PROVE  Excused(q)'
BY DEF Later, Excused, Overlap

LEMMA TaughtStays ==
    ASSUME Later, NEW q \in Requests, NEW t, Taught(q, t), Rows(t.read),
           Seen(t) \subseteq IdsOf(db) => Seen(t) \subseteq IdsOf(db') \/ Excused(q)'
    PROVE  Taught(q, t)'
<1> SUFFICES ASSUME t.end = "open", NEW n, n = Len(t.todo)
             PROVE  (Learns(t, n) /\ Finds(q, t, n) /\ Saving(t, n) /\ Writing(t, n))'
  BY DEF Taught
<1>1. Learns(t, n) /\ Finds(q, t, n) /\ Saving(t, n) /\ Writing(t, n)
  BY DEF Taught
<1>2. \A x \in t.read : x.by # 0 => x.by \in Requests
  BY DEF Rows, Genuine
<1>3. \A x \in t.read : x.by # 0 /\ tx[x.by].end = "done" => tx'[x.by].end = "done"
  BY <1>2 DEF Later
<1>4. Learns(t, n)'
  BY <1>1, <1>3 DEF Learns, Known, Touched, Seen, IdsOf, In
<1>5. Finds(q, t, n)'
  BY <1>1, ExcusedStays DEF Finds, Seen, IdsOf, In
<1>6. Saving(t, n)' /\ Writing(t, n)'
  BY <1>1 DEF Saving, Writing, Touched, IdsOf, In
<1>7. QED
  BY <1>4, <1>5, <1>6

\* A request that fails may fail.
Anyway(r) == tx[r].kind # "end" /\ (tx[r].kind = "agent_end" => Excused(r) \/ Gone)

LEMMA AnywayIs == EndsAnyway <=> \A r \in Requests : tx[r].end = "failed" => Anyway(r)
BY DEF EndsAnyway, Anyway, Excused, Gone, Savers

LEMMA AnywayStays ==
    ASSUME Later, NEW q \in Requests, Anyway(q)
    PROVE  Anyway(q)'
<1>1. tx'[q].kind = tx[q].kind
  BY DEF Later
<1>2. QED
  BY <1>1, GoneStays, ExcusedStays DEF Anyway

\* A step of one open request that stores nothing.
LEMMA GoingTaught ==
    ASSUME IInv, LInv, NEW r \in Open, NEW t, Becomes(r, t), Rows(t.read),
           t.kind = tx[r].kind, t.before = tx[r].before,
           t.end = "failed" => Anyway(r),
           InSteps(t.kind, t.todo),
           ~Gone => /\ Taught(r, t)
                    /\ Learner(t) => \A o \in Open \ {r} :
                                        Learner(tx[o]) => Comparable(t, tx[o])
    PROVE  LInv'
<1>1. /\ Requests' = Requests /\ r \in Requests /\ db' = db /\ tx[r].end = "open"
      /\ tx'[r] = t /\ \A q \in Requests \ {r} : tx'[q] = tx[q]
  BY OpenFits DEF Becomes, Requests
<1>2. Later
  BY <1>1 DEF Later
<1>3. EndsAnyway'
  <2> SUFFICES ASSUME NEW q \in Requests', tx'[q].end = "failed" PROVE Anyway(q)'
    BY AnywayIs DEF EndsAnyway, Anyway, Excused, Gone, Savers
  <2>1. Anyway(q)
    <3>1. CASE q = r
      BY <3>1, <1>1
    <3>2. CASE q # r
      <4>1. q \in Requests /\ tx[q].end = "failed"
        BY <3>2, <1>1
      <4>2. QED
        BY <4>1, AnywayIs DEF LInv
    <3>3. QED
      BY <3>1, <3>2
  <2>2. QED
    BY <1>1, <1>2, <2>1, AnywayStays
<1>4. \A q \in Requests' : \A u \in {tx'[q]} : InSteps(u.kind, u.todo)'
  <2>1. \A kind, p : InSteps(kind, p)' <=> InSteps(kind, p)
    BY DEF InSteps, StepOrder
  <2>2. ASSUME NEW q \in Requests PROVE InSteps(tx'[q].kind, tx'[q].todo)
    BY <1>1 DEF LInv
  <2>3. QED
    BY <1>1, <2>1, <2>2
<1>5. ASSUME ~Gone' PROVE Together'
  <2>1. ~Gone
    BY <1>2, <1>5, GoneStays
  <2>2. Together
    BY <2>1 DEF LInv
  <2>3. \A q \in Requests' : \A u \in {tx'[q]} : Taught(q, u)'
    <3> SUFFICES ASSUME NEW q \in Requests, NEW u, u = tx'[q] PROVE Taught(q, u)'
      BY <1>1
    <3>1. Taught(q, u) /\ Rows(u.read)
      <4>1. CASE q = r
        BY <4>1, <1>1, <2>1
      <4>2. CASE q # r
        BY <4>2, <1>1, <2>2 DEF Together, IInv, WInv, Good, RowsFit
      <4>3. QED
        BY <4>1, <4>2
    <3>2. QED
      BY <1>1, <1>2, <3>1, TaughtStays
  <2>4. ASSUME NEW p \in Open', NEW o \in Open', p # o, Learner(tx'[p]), Learner(tx'[o])
        PROVE  Comparable(tx'[p], tx'[o])
    <3>1. \A q \in {p, o} \ {r} : q \in Open /\ tx'[q] = tx[q]
      BY <1>1 DEF Open
    <3>2. CASE p # r /\ o # r
      BY <3>1, <3>2, <2>2, <2>4 DEF Together
    <3>3. CASE p = r
      BY <3>1, <3>3, <1>1, <2>1, <2>4
    <3>4. CASE o = r
      <4>1. Comparable(tx'[o], tx'[p])
        BY <3>1, <3>4, <1>1, <2>1, <2>4
      <4>2. QED
        BY <4>1 DEF Comparable
    <3>5. QED
      BY <3>2, <3>3, <3>4
  <2>5. \A p, o \in Open' : p # o /\ Learner(tx'[p]) /\ Learner(tx'[o])
                               => Comparable(tx[p], tx[o])'
    <3>1. \A a, c : Comparable(a, c)' <=> Comparable(a, c)
      BY <1>1 DEF Comparable, Known, Touched, Seen, IdsOf, In
    <3>2. QED
      BY <2>4, <3>1
  <2>6. \A u : Learner(u)' <=> Learner(u)
    BY DEF Learner, Touched, IdsOf, In
  <2>7. QED
    BY <1>1, <2>2, <2>3, <2>5, <2>6 DEF Together, In
<1>6. QED
  BY <1>3, <1>4, <1>5 DEF LInv
--------------------------------------------------------------------------------
\* A request that is not the end of a run, when a statement is done.
LEMMA OtherTaught ==
    ASSUME IInv, LInv, ~Gone, NEW r \in Open, tx[r].todo # <<>>, tx[r].kind \notin EndKinds,
           NEW t, t.kind = tx[r].kind, t.todo = Tail(tx[r].todo), t.refused = FALSE,
           t.kind = "save" /\ tx[r].todo[1][1] = "insert" /\ tx[r].todo[1][2] = "step"
               => In(t.new, "step") # {},
           \/ Touched(t) \subseteq Touched(tx[r])
           \/ tx[r].todo[1][1] = "change" /\ tx[r].todo[1][2] = "step"
    PROVE  Taught(r, t)
<1> DEFINE n == Len(tx[r].todo)
           m == Len(t.todo)
           s == tx[r].todo[1]
<1>1. n = Len(tx[r].todo) /\ m = Len(Tail(tx[r].todo)) /\ s = tx[r].todo[1]
  OBVIOUS
<1> HIDE DEF n, m, s
<1>2. /\ n \in Nat \ {0} /\ m = n - 1
      /\ s[1] = "change" /\ s[2] = "step" =>
            \/ tx[r].kind = "edit" /\ n = 1
            \/ tx[r].kind = "analyze" /\ n = 2
      /\ tx[r].kind = "save" =>
            n <= 3 /\ (n = 1 => s[1] = "insert" /\ s[2] = "step")
  <2>1. n \in Nat \ {0} /\ Len(Tail(tx[r].todo)) = n - 1 /\ StepHead(tx[r].kind, s, n)
    BY <1>1, StepNext
  <2>2. QED
    BY <1>1, <2>1 DEF StepHead
<1>3. Writing(tx[r], n)
  BY <1>1, LFits
<1>4. Learns(t, m) /\ Finds(r, t, m)
  BY DEF Learns, Finds, EndKinds
<1>5. Saving(t, m)
  <2>1. ASSUME t.kind = "save", m = 0 PROVE In(t.new, "step") # {}
    <3>1. n = 1
      BY <1>2, <2>1
    <3>2. QED
      BY <1>1, <1>2, <2>1, <3>1
  <2>2. t.kind = "save" => m # 3
    BY <1>2
  <2>3. QED
    BY <2>1, <2>2 DEF Saving
<1>6. Writing(t, m)
  <2>1. CASE s[1] = "change" /\ s[2] = "step"
    <3>1. \/ t.kind = "edit" /\ n = 1
          \/ t.kind = "analyze" /\ n = 2
      BY <1>2, <2>1
    <3>2. (n = 1 => m = 0) /\ (n = 2 => m = 1)
      BY <1>2
    <3>3. QED
      BY <3>1, <3>2 DEF Writing
  <2>2. CASE Touched(t) \subseteq Touched(tx[r])
    <3> SUFFICES ASSUME Touched(t) # {} PROVE t.kind = "analyze" /\ n = 1
      BY <1>2 DEF Writing
    <3>1. n # 0
      BY <1>2
    <3>2. QED
      BY <1>3, <2>2, <3>1 DEF Writing
  <2>3. QED
    BY <1>1, <2>1, <2>2
<1>7. m = Len(t.todo)
  BY <1>1
<1>8. QED
  BY <1>4, <1>5, <1>6, <1>7 DEF Taught

\* So it goes on.
LEMMA OtherGoes ==
    ASSUME IInv, LInv, NEW r \in Open, tx[r].todo # <<>>, tx[r].kind \notin EndKinds,
           NEW t, Becomes(r, t), Rows(t.read), t.kind = tx[r].kind, t.before = tx[r].before,
           t.end = "open", t.todo = Tail(tx[r].todo), t.refused = tx[r].refused,
           t.kind = "save" /\ tx[r].todo[1][1] = "insert" /\ tx[r].todo[1][2] = "step"
               => In(t.new, "step") # {},
           \/ Touched(t) \subseteq Touched(tx[r])
           \/ tx[r].todo[1][1] = "change" /\ tx[r].todo[1][2] = "step"
    PROVE  LInv'
<1>1. t.refused = FALSE
  BY OpenFits DEF Good, Shape
<1>2. InSteps(t.kind, t.todo)
  BY StepNext
<1>3. ~Learner(t)
  BY DEF Learner
<1>4. ~Gone => Taught(r, t)
  BY <1>1, OtherTaught
<1>5. QED
  BY <1>2, <1>3, <1>4, GoingTaught

LEMMA NothingKnown ==
    /\ \A kind : InSteps(kind, <<>>)
    /\ \A t : t.changed = {} => Touched(t) = {}
    /\ \A t : t.read = {} => Seen(t) = {}
<1>1. Len(<<>>) = 0
  OBVIOUS
<1>2. QED
  BY <1>1 DEF InSteps, Touched, Seen, IdsOf, In

LEMMA RolledTaught ==
    ASSUME IInv, LInv, NEW r \in Open, Becomes(r, RolledBack(tx[r])),
           tx[r].kind = "agent_end" /\ ~Learning(tx[r]) => Excused(r) \/ Gone
    PROVE  LInv'
<1> DEFINE t == RolledBack(tx[r])
<1>1. Good(r, tx[r]) /\ tx[r].end = "open" /\ DOMAIN tx[r] = Fields
  BY OpenFits DEF Good, Shape
<1>2. /\ t.kind = tx[r].kind /\ t.before = tx[r].before
      /\ t.new = {} /\ t.gone = {} /\ t.changed = {} /\ t.read = {}
      /\ t.end = IF Learning(tx[r]) THEN "open" ELSE "failed"
      /\ \/ t.todo = <<>>
         \/ t.todo = Evolve /\ t.kind = "agent_end"
  BY <1>1 DEF RolledBack, Fields
<1>3. Becomes(r, t)
  OBVIOUS
<1> HIDE DEF t
<1>4. Anyway(r) \/ t.end # "failed"
  BY <1>2 DEF Anyway, Learning
<1>5. Touched(t) = {} /\ Seen(t) = {} /\ Rows(t.read)
  BY <1>2, NothingKnown, NoRows
<1>6. InSteps(t.kind, t.todo)
  BY <1>2, NothingKnown, StepsOfEvolve
<1>7. Len(Evolve) = 3 /\ Len(<<>>) = 0
  BY DEF Evolve
<1>8. ~Learner(t)
  <2>1. Base("agent_end") = 3 /\ ~(3 > 3)
    BY DEF Base
  <2>2. t.todo = <<>> \/ ~(Len(t.todo) > Base(t.kind))
    BY <1>2, <1>7, <2>1
  <2>3. QED
    BY <1>5, <2>2 DEF Learner
<1>9. Taught(r, t)
  <2> SUFFICES ASSUME t.end = "open", NEW n, n = Len(t.todo)
               PROVE  Learns(t, n) /\ Finds(r, t, n) /\ Saving(t, n) /\ Writing(t, n)
    BY DEF Taught
  <2>1. t.kind \in EndKinds
    BY <1>2 DEF Learning, EndKinds
  <2>2. \/ n = 0
        \/ n = 3 /\ t.kind = "agent_end"
    BY <1>2, <1>7
  <2>3. Base(t.kind) \in Nat /\ (t.kind = "agent_end" => Base(t.kind) = 3)
    BY DEF Base
  <2>4. n # 4 + Base(t.kind) /\ ~(n >= 2 + Base(t.kind)) /\ n # 1 + Base(t.kind)
        /\ n \notin (1 + Base(t.kind))..(3 + Base(t.kind))
    <3>1. CASE n = 0
      BY <2>3, <3>1
    <3>2. CASE n = 3 /\ Base(t.kind) = 3
      BY <3>2
    <3>3. QED
      BY <2>2, <2>3, <3>1, <3>2
  <2>5. Learns(t, n)
    BY <1>2, <1>5, <2>4 DEF Learns
  <2>6. QED
    BY <1>5, <2>1, <2>5 DEF Finds, Saving, Writing, EndKinds
<1>10. QED
  BY <1>2, <1>3, <1>4, <1>5, <1>6, <1>8, <1>9, GoingTaught

LEMMA RefusedTaught ==
    ASSUME IInv, LInv, NEW r \in Open, Becomes(r, Refused(tx[r])),
           tx[r].todo # <<>>, tx[r].todo[1][1] \in Refuses
    PROVE  LInv'
<1> DEFINE t == Refused(tx[r])
           n == Len(tx[r].todo)
           s == tx[r].todo[1]
<1>1. Good(r, tx[r]) /\ tx[r].end = "open" /\ DOMAIN tx[r] = Fields
  BY OpenFits DEF Good, Shape
<1>2. /\ t.kind = tx[r].kind /\ t.before = tx[r].before /\ t.end = "open"
      /\ t.refused = TRUE /\ t.todo = <<>>
      /\ t.new = tx[r].new /\ t.gone = tx[r].gone /\ t.changed = tx[r].changed
      /\ t.read = tx[r].read
  BY <1>1 DEF Refused, Fields
<1>3. Becomes(r, t) /\ n = Len(tx[r].todo) /\ s = tx[r].todo[1] /\ s[1] \in Refuses
  OBVIOUS
<1> HIDE DEF t, n, s
<1>4. /\ n \in Nat \ {0}
      /\ tx[r].kind = "save" =>
            n <= 3 /\ (n = 2 => s[1] = "clear") /\ (n = 1 => s[1] = "insert")
  <2>1. n \in Nat \ {0} /\ StepHead(tx[r].kind, s, n)
    BY <1>3, StepNext
  <2>2. QED
    BY <2>1 DEF StepHead
<1>5. InSteps(t.kind, t.todo) /\ Rows(t.read) /\ ~Learner(t)
  BY <1>1, <1>2, NothingKnown DEF Learner, Good, RowsFit
<1>6. ASSUME ~Gone PROVE Taught(r, t)
  <2> SUFFICES ASSUME NEW m, m = 0
               PROVE  Learns(t, m) /\ Finds(r, t, m) /\ Saving(t, m) /\ Writing(t, m)
    <3>1. Len(t.todo) = 0
      BY <1>2
    <3>2. QED
      BY <3>1 DEF Taught
  <2>1. Learns(tx[r], n) /\ Saving(tx[r], n)
    BY <1>3, <1>6, LFits
  <2>2. Learns(t, m)
    <3>1. Base(t.kind) \in Nat
      BY DEF Base
    <3>2. m # 4 + Base(t.kind) /\ ~(m >= 2 + Base(t.kind)) /\ m # 1 + Base(t.kind)
          /\ m \notin (1 + Base(t.kind))..(3 + Base(t.kind)) /\ m \notin 1..3
      BY <3>1
    <3>3. QED
      BY <1>2, <2>1, <3>2 DEF Learns
  <2>3. Saving(t, m)
    <3>1. tx[r].kind = "save" => n = 3
      <4>1. s[1] # "clear" /\ s[1] # "insert"
        BY <1>3 DEF Refuses
      <4>2. tx[r].kind = "save" => n \in Nat \ {0} /\ n <= 3 /\ n # 2 /\ n # 1
        BY <1>4, <4>1
      <4>3. QED
        BY <4>2
    <3>2. QED
      BY <1>2, <2>1, <3>1 DEF Saving
  <2>4. QED
    BY <2>2, <2>3 DEF Finds, Writing
<1>7. QED
  BY <1>2, <1>3, <1>5, <1>6, GoingTaught
--------------------------------------------------------------------------------
LEMMA StepOfId ==
    ASSUME IInv, NEW S, NEW T, Rows(S), Rows(T),
           NEW id \in IdsOf(In(S, "step")), id \in IdsOf(T)
    PROVE  id \in IdsOf(In(T, "step"))
<1>1. PICK x \in S : x.id = id /\ x.table = "step"
  BY DEF IdsOf, In
<1>2. PICK y \in T : y.id = id
  BY DEF IdsOf
<1>3. y.table = "step"
  BY <1>1, <1>2, SameRow DEF Rows
<1>4. QED
  BY <1>2, <1>3 DEF IdsOf, In

\* What the end of a run sees is stored.
LEMMA EndSees ==
    ASSUME IInv, NEW r \in Open, tx[r].new = {}, NEW x \in Visible(r)
    PROVE  /\ \E y \in db : y.id = x.id /\ y.by = x.by /\ y.table = x.table
           /\ x.by # 0 => tx[x.by].end = "done"
<1>1. RowsFit(r, tx[r]) /\ Rows(db) /\ tx[r].end = "open"
  BY OpenFits DEF IInv, WInv, Stored, Good
<1>2. x \in db \/ x \in tx[r].changed
  BY DEF Visible
<1>3. PICK y \in db : y.id = x.id
  BY <1>1, <1>2 DEF RowsFit, IdsOf
<1>4. y.by = x.by /\ y.table = x.table
  BY <1>1, <1>2, <1>3, SameRow DEF RowsFit, Rows
<1>5. y.by # 0 => tx[y.by].end = "done"
  BY DEF IInv, WInv, Stored
<1>6. QED
  BY <1>3, <1>4, <1>5

\* Every row that is seen is loaded.
LEMMA SeenIsLoaded ==
    ASSUME NEW r, NEW u, u # "template", NEW x \in In(Visible(r), u)
    PROVE  x.id \in IdsOf(Loaded(r, u))
<1> DEFINE old == {y \in tx[r].read : y.id = x.id}
           z == IF old = {} THEN x ELSE CHOOSE y \in old : TRUE
<1>1. z \in Loaded(r, u)
  BY DEF Loaded
<1>2. z.id = x.id
  OBVIOUS
<1>3. QED
  BY <1>1, <1>2 DEF IdsOf

\* Whoever has read the steps knows all that another one knows.
LEMMA AllKnown ==
    ASSUME IInv, NEW t, NEW o \in Open, IdsOf(In(db, "step")) \subseteq Known(t)
    PROVE  Comparable(t, tx[o])
<1>1. Rows(db) /\ Rows(tx[o].read) /\ Rows(tx[o].changed)
  BY OpenFits DEF IInv, WInv, Stored, Good, RowsFit
<1>2. ASSUME NEW id \in Known(tx[o]) \cap IdsOf(db) PROVE id \in IdsOf(In(db, "step"))
  BY <1>1, <1>2, StepOfId DEF Known, Touched, Seen
<1>3. QED
  BY <1>2 DEF Comparable

\* Whoever knows what it knew is comparable as it was.
LEMMA StillKnown ==
    ASSUME LInv, ~Gone, NEW r \in Open, Learner(tx[r]), NEW t, Known(t) = Known(tx[r]),
           NEW o \in Open \ {r}, Learner(tx[o])
    PROVE  Comparable(t, tx[o])
<1>1. Comparable(tx[r], tx[o])
  BY DEF LInv, Together
<1>2. QED
  BY <1>1 DEF Comparable

\* The end of a run reads the steps or the parameters.
LEMMA EndLoads ==
    ASSUME IInv, LInv, ~Gone, NEW r \in Open, tx[r].todo # <<>>, tx[r].kind \in EndKinds,
           tx[r].todo[1][1] \in {"read", "some"}, NEW u, u = tx[r].todo[1][2],
           NEW t, t.kind = tx[r].kind, t.end = "open", t.todo = Tail(tx[r].todo),
           t.new = tx[r].new, t.gone = tx[r].gone, t.changed = tx[r].changed,
           t.read = {x \in tx[r].read : x.table # u} \cup Loaded(r, u)
    PROVE  /\ Taught(r, t)
           /\ Learner(t) => \A o \in Open \ {r} : Learner(tx[o]) => Comparable(t, tx[o])
<1> DEFINE n == Len(tx[r].todo)
           m == Len(t.todo)
           s == tx[r].todo[1]
           b == Base(tx[r].kind)
<1>1. n = Len(tx[r].todo) /\ m = Len(Tail(tx[r].todo)) /\ s = tx[r].todo[1]
      /\ b = Base(tx[r].kind) /\ m = Len(t.todo)
  OBVIOUS
<1> HIDE DEF n, m, s, b
<1>2. n \in Nat \ {0} /\ m = n - 1
  BY <1>1, StepNext
<1>3. /\ b \in {0, 3} /\ (b = 3 <=> tx[r].kind = "agent_end")
      /\ \/ n = 4 + b /\ u = "step"
         \/ n = 3 + b /\ u = "parameter"
         \/ b = 3 /\ n = 3 /\ u = "step"
  <2>1. b \in {0, 3} /\ (b = 3 <=> tx[r].kind = "agent_end") /\ EndHead(s, n, b)
    BY <1>1, EndNext
  <2>2. QED
    BY <1>1, <2>1 DEF EndHead
<1>4. Learns(tx[r], n)
  BY <1>1, LFits
<1>5. t.gone = {} /\ t.new = {} /\ tx[r].new = {} /\ tx[r].gone = {}
  BY <1>4 DEF Learns
<1>6. ASSUME NEW x \in Loaded(r, u)
      PROVE  x.table = u /\ x.id \in IdsOf(db) /\ (x.by # 0 => tx[x.by].end = "done")
  BY <1>5, LoadedFits, EndSees DEF IdsOf
<1>7. \A x \in t.read : x.by # 0 => tx[x.by].end = "done"
  BY <1>4, <1>6 DEF Learns
<1>8. Touched(t) = Touched(tx[r])
  BY DEF Touched
<1>9. Writing(t, m) /\ Saving(t, m)
  BY DEF Writing, Saving, EndKinds
<1>10. CASE n = 4 + b /\ u = "step"
  <2>1. tx[r].read = {} /\ tx[r].changed = {}
    BY <1>1, <1>3, <1>4, <1>10 DEF Learns
  <2>2. Seen(t) = IdsOf(Loaded(r, u))
    BY <1>6, <1>10, <2>1 DEF Seen, In, IdsOf
  <2>3. IdsOf(In(db, "step")) \subseteq Seen(t)
    <3> SUFFICES ASSUME NEW x \in In(db, "step") PROVE x.id \in Seen(t)
      BY DEF IdsOf
    <3>1. x.id \in IdsOf(In(Visible(r), "step"))
      BY <1>5, SeenOrGone
    <3>2. QED
      BY <1>10, <2>2, <3>1, SeenIsLoaded DEF IdsOf
  <2>4. Touched(t) = {} /\ Known(t) = Seen(t)
    BY <1>8, <2>1, NothingKnown DEF Known
  <2>5. PICK x \in In(db, "step") : TRUE
    BY <1>1, LFits
  <2>6. Known(t) # {}
    <3>1. x.id \in Seen(t)
      BY <2>3, <2>5 DEF IdsOf
    <3>2. QED
      BY <2>4, <3>1
  <2>7. m = 3 + b /\ m # 4 + b /\ m # 1 + b /\ m \notin 1..2 /\ (b = 3 => m \notin 1..3)
    BY <1>2, <1>3, <1>10
  <2>8. Learns(t, m)
    BY <1>1, <1>3, <1>5, <1>7, <2>1, <2>6, <2>7 DEF Learns
  <2>9. Finds(r, t, m)
    BY <2>7 DEF Finds
  <2>10. \A o \in Open : Comparable(t, tx[o])
    BY <2>3, <2>4, AllKnown
  <2>11. QED
    BY <1>1, <1>9, <2>8, <2>9, <2>10 DEF Taught
<1>11. CASE n = 3 + b /\ u = "parameter"
  <2>1. tx[r].changed = {} /\ Known(tx[r]) # {}
    <3>1. n >= 2 + b /\ n \in (1 + b)..(3 + b)
      BY <1>3, <1>11
    <3>2. QED
      BY <1>1, <1>4, <3>1 DEF Learns
  <2>2. Seen(t) = Seen(tx[r])
    BY <1>6, <1>11 DEF Seen, In, IdsOf
  <2>3. Known(t) = Known(tx[r])
    BY <1>8, <2>2 DEF Known
  <2>4. m = 2 + b /\ m # 4 + b /\ m # 1 + b /\ (b = 3 => m \notin 1..3 /\ m \notin 1..2)
    BY <1>2, <1>3, <1>11
  <2>5. Learns(t, m)
    BY <1>1, <1>3, <1>5, <1>7, <2>1, <2>3, <2>4 DEF Learns
  <2>6. Finds(r, t, m)
    <3>1. m \in 1..2 => t.kind # "agent_end"
      BY <1>3, <2>4
    <3>2. QED
      BY <3>1 DEF Finds
  <2>7. Learner(tx[r])
    <3>1. n > b
      BY <1>3, <1>11
    <3>2. QED
      BY <1>1, <3>1, OpenFits DEF Learner
  <2>8. QED
    BY <1>1, <1>9, <2>3, <2>5, <2>6, <2>7, StillKnown DEF Taught
<1>12. CASE b = 3 /\ n = 3 /\ u = "step"
  <2>1. tx[r].changed = {} \/ Touched(tx[r]) # {}
    BY <1>3, <1>4, <1>12 DEF Learns
  <2>2. m = 2 /\ m \in 1..3 /\ m # 4 + b /\ m # 1 + b /\ ~(m >= 2 + b)
        /\ m \notin (1 + b)..(3 + b)
    BY <1>2, <1>12
  <2>3. Learns(t, m)
    BY <1>1, <1>5, <1>7, <1>8, <2>1, <2>2 DEF Learns
  <2>4. Finds(r, t, m)
    <3>1. Seen(t) \subseteq IdsOf(db)
      BY <1>6, <1>12 DEF Seen, In, IdsOf
    <3>2. QED
      BY <3>1 DEF Finds
  <2>5. Learner(t) => Learner(tx[r]) /\ Known(t) = Known(tx[r])
    <3>1. ~(m > b)
      BY <1>12, <2>2
    <3>2. Learner(t) => Touched(t) # {}
      BY <1>1, <3>1 DEF Learner
    <3>3. QED
      BY <1>8, <3>2, OpenFits DEF Learner, Known
  <2>6. QED
    BY <1>1, <1>9, <2>3, <2>4, <2>5, StillKnown DEF Taught
<1>13. QED
  BY <1>3, <1>10, <1>11, <1>12

\* The end of an agent's run picks a step.
LEMMA EndPicks ==
    ASSUME IInv, LInv, ~Gone, NEW r \in Open, tx[r].todo # <<>>, tx[r].kind \in EndKinds,
           tx[r].todo[1][1] = "pick",
           NEW t, t.kind = tx[r].kind, t.end = "open", t.todo = Tail(tx[r].todo),
           t.new = tx[r].new, t.gone = tx[r].gone, t.changed = tx[r].changed,
           t.read \subseteq tx[r].read
    PROVE  /\ Taught(r, t)
           /\ Learner(t) => \A o \in Open \ {r} : Learner(tx[o]) => Comparable(t, tx[o])
<1> DEFINE n == Len(tx[r].todo)
           m == Len(t.todo)
           s == tx[r].todo[1]
           b == Base(tx[r].kind)
<1>1. n = Len(tx[r].todo) /\ m = Len(Tail(tx[r].todo)) /\ s = tx[r].todo[1]
      /\ b = Base(tx[r].kind) /\ m = Len(t.todo)
  OBVIOUS
<1> HIDE DEF n, m, s, b
<1>2. n \in Nat \ {0} /\ m = n - 1
  BY <1>1, StepNext
<1>3. b = 3 /\ n = 2 /\ tx[r].kind = "agent_end"
  <2>1. (b = 3 <=> tx[r].kind = "agent_end") /\ EndHead(s, n, b)
    BY <1>1, EndNext
  <2>2. QED
    BY <1>1, <2>1 DEF EndHead
<1>4. Learns(tx[r], n) /\ Finds(r, tx[r], n)
  BY <1>1, LFits
<1>5. tx[r].changed = {} \/ Touched(tx[r]) # {}
  BY <1>3, <1>4 DEF Learns
<1>6. m = 1 /\ m \in 1..3 /\ m # 4 + b /\ m # 1 + b /\ ~(m >= 2 + b) /\ ~(m > b)
      /\ m \notin (1 + b)..(3 + b)
  BY <1>2, <1>3
<1>7. Touched(t) = Touched(tx[r]) /\ Seen(t) \subseteq Seen(tx[r])
  BY DEF Touched, Seen, In, IdsOf
<1>8. Learns(t, m)
  BY <1>1, <1>4, <1>5, <1>6, <1>7 DEF Learns
<1>9. Finds(r, t, m)
  <2>1. Seen(tx[r]) \subseteq IdsOf(db) \/ Excused(r)
    BY <1>3, <1>4 DEF Finds
  <2>2. QED
    BY <1>7, <2>1 DEF Finds
<1>10. Writing(t, m) /\ Saving(t, m)
  BY DEF Writing, Saving, EndKinds
<1>11. Learner(t) => Learner(tx[r]) /\ Known(t) = Known(tx[r])
  BY <1>1, <1>6, <1>7, OpenFits DEF Learner, Known
<1>12. QED
  BY <1>1, <1>8, <1>9, <1>10, <1>11, StillKnown DEF Taught
--------------------------------------------------------------------------------
\* The rows that an UPDATE writes were read, from its table.
LEMMA AfterIs ==
    ASSUME IInv, NEW r \in Open, tx[r].todo # <<>>, tx[r].todo[1][1] = "change",
           NEW u, u = tx[r].todo[1][2]
    PROVE  /\ Targets(r) = IdsOf(In(tx[r].read, u))
           /\ \A z \in After(r) :
                 z.table = u /\ \E y \in tx[r].read : y.id = z.id /\ y.by = z.by
<1>1. Targets(r) = IdsOf(In(tx[r].read, u))
  BY DEF Targets, Cascaded, At, Table
<1>2. Rows(tx[r].read) /\ Rows(After(r))
  BY OpenFits, AfterFits DEF Good, RowsFit
<1>3. ASSUME NEW z \in After(r)
      PROVE  z.table = u /\ \E y \in tx[r].read : y.id = z.id /\ y.by = z.by
  <2>1. z.id \in Targets(r)
    BY AfterFits
  <2>2. PICK y \in In(tx[r].read, u) : y.id = z.id
    BY <1>1, <2>1 DEF IdsOf
  <2>3. y \in tx[r].read /\ y.table = u /\ Genuine(y) /\ Genuine(z)
    BY <1>2, <2>2 DEF In, Rows
  <2>4. y.by = z.by /\ y.table = z.table
    BY <2>2, <2>3, SameRow
  <2>5. QED
    BY <2>2, <2>3, <2>4
<1>4. QED
  BY <1>1, <1>3

\* The end of a run updates the steps or the parameters that it has read.
LEMMA EndUpdates ==
    ASSUME IInv, LInv, ~Gone, NEW r \in Open, tx[r].todo # <<>>, tx[r].kind \in EndKinds,
           tx[r].todo[1][1] = "change", IdsOf(After(r)) = Targets(r),
           NEW t, t.kind = tx[r].kind, t.end = "open", t.todo = Tail(tx[r].todo),
           t.gone = tx[r].gone,
           t.new = {x \in tx[r].new : x.id \notin IdsOf(After(r))} \cup
                   {x \in After(r) : x.id \notin IdsOf(db)},
           t.changed = {x \in tx[r].changed : x.id \notin IdsOf(After(r))} \cup
                       {x \in After(r) : x.id \in IdsOf(db)},
           t.read = {x \in tx[r].read : x.id \notin IdsOf(After(r))} \cup After(r)
    PROVE  /\ Taught(r, t)
           /\ Learner(t) => \A o \in Open \ {r} : Learner(tx[o]) => Comparable(t, tx[o])
<1> DEFINE n == Len(tx[r].todo)
           m == Len(t.todo)
           s == tx[r].todo[1]
           b == Base(tx[r].kind)
           u == tx[r].todo[1][2]
<1>1. n = Len(tx[r].todo) /\ m = Len(Tail(tx[r].todo)) /\ s = tx[r].todo[1]
      /\ b = Base(tx[r].kind) /\ m = Len(t.todo) /\ u = tx[r].todo[1][2] /\ u = s[2]
  OBVIOUS
<1> HIDE DEF n, m, s, b, u
<1>2. n \in Nat \ {0} /\ m = n - 1 /\ (t.todo = <<>> <=> n = 1)
  BY <1>1, StepNext
<1>3. b \in {0, 3} /\ (b = 3 <=> tx[r].kind = "agent_end") /\ EndHead(s, n, b)
  BY <1>1, EndNext
<1>4. Learns(tx[r], n)
  BY <1>1, LFits
<1>5. tx[r].gone = {} /\ tx[r].new = {}
  BY <1>4 DEF Learns
<1>6. /\ Targets(r) = IdsOf(In(tx[r].read, u))
      /\ \A z \in After(r) :
            z.table = u /\ \E y \in tx[r].read : y.id = z.id /\ y.by = z.by
  BY <1>1, AfterIs
<1>7. IdsOf(After(r)) = Targets(r)
  OBVIOUS
<1>8. \A z \in After(r) : z.id \in IdsOf(db)
  <2> SUFFICES ASSUME NEW z \in After(r) PROVE z.id \in IdsOf(db)
    OBVIOUS
  <2>1. PICK x \in Visible(r) : z.id = x.id
    BY AfterFits
  <2>2. QED
    BY <1>5, <2>1, EndSees DEF IdsOf
<1>9. t.gone = {} /\ t.new = {}
  BY <1>5, <1>8
<1>10. \A x \in t.read : x.by # 0 => tx[x.by].end = "done"
  BY <1>4, <1>6 DEF Learns
<1>11. t.changed = {x \in tx[r].changed : x.id \notin IdsOf(After(r))} \cup After(r)
  BY <1>8
<1>12. Rows(tx[r].changed) /\ Rows(tx[r].read)
  BY OpenFits DEF Good, RowsFit
<1>13. Seen(t) = Seen(tx[r])
  <2>1. CASE u = "step"
    <3>1. IdsOf(After(r)) = Seen(tx[r]) /\ \A z \in After(r) : z.table = "step"
      BY <1>6, <2>1 DEF Seen
    <3>2. QED
      BY <3>1 DEF Seen, IdsOf, In
  <2>2. CASE u # "step"
    <3>1. \A x \in In(tx[r].read, "step") : x.id \notin IdsOf(After(r))
      <4> SUFFICES ASSUME NEW x \in In(tx[r].read, "step"), x.id \in IdsOf(After(r))
                   PROVE  FALSE
        OBVIOUS
      <4>1. x.id \in IdsOf(In(tx[r].read, u))
        BY <1>6, <1>7
      <4>2. PICK y \in tx[r].read : y.id = x.id /\ y.table = u
        BY <4>1 DEF IdsOf, In
      <4>3. QED
        BY <1>12, <2>2, <4>2, SameRow DEF Rows, In
    <3>2. In(t.read, "step") = In(tx[r].read, "step")
      BY <1>6, <2>2, <3>1 DEF In
    <3>3. QED
      BY <3>2 DEF Seen
  <2>3. QED
    BY <2>1, <2>2
<1>14. u = "step" => Touched(t) = Touched(tx[r]) \cup Seen(tx[r])
  <2> SUFFICES ASSUME u = "step" PROVE Touched(t) = Touched(tx[r]) \cup Seen(tx[r])
    OBVIOUS
  <2>1. IdsOf(After(r)) = Seen(tx[r]) /\ \A z \in After(r) : z.table = "step"
    BY <1>6 DEF Seen
  <2>2. QED
    BY <1>11, <2>1 DEF Touched, IdsOf, In
<1>15. u # "step" => Touched(t) = Touched(tx[r])
  <2> SUFFICES ASSUME u # "step" PROVE Touched(t) = Touched(tx[r])
    OBVIOUS
  <2>1. \A x \in In(tx[r].changed, "step") : x.id \notin IdsOf(After(r))
    <3> SUFFICES ASSUME NEW x \in In(tx[r].changed, "step"), x.id \in IdsOf(After(r))
                 PROVE  FALSE
      OBVIOUS
    <3>1. x.id \in IdsOf(In(tx[r].read, u))
      BY <1>6, <1>7
    <3>2. PICK y \in tx[r].read : y.id = x.id /\ y.table = u
      BY <3>1 DEF IdsOf, In
    <3>3. QED
      BY <1>12, <3>2, SameRow DEF Rows, In
  <2>2. In(t.changed, "step") = In(tx[r].changed, "step")
    BY <1>6, <1>11, <2>1 DEF In
  <2>3. QED
    BY <2>2 DEF Touched
<1>16. Writing(t, m) /\ Saving(t, m)
  BY DEF Writing, Saving, EndKinds
<1>17. CASE /\ n \in {1 + b, 2 + b}
            /\ \/ s = StepStability /\ s[2] = "step"
               \/ s = ParameterCounts /\ s[2] = "parameter"
  <2>1. Known(tx[r]) # {}
    <3>1. n \in (1 + b)..(3 + b)
      BY <1>3, <1>17
    <3>2. QED
      BY <1>1, <1>4, <3>1 DEF Learns
  <2>2. n = 2 + b => tx[r].changed = {} /\ Touched(tx[r]) = {}
    <3>1. n = 2 + b => n >= 2 + b
      BY <1>3
    <3>2. QED
      BY <1>1, <1>4, <3>1, NothingKnown DEF Learns
  <2>3. n = 1 + b => (Touched(tx[r]) = {} <=> s = StepStability)
    BY <1>1, <1>4 DEF Learns
  <2>4. StepStability # ParameterCounts
    BY DEF StepStability, ParameterCounts, Change
  <2>5. s = StepStability => Touched(t) = Seen(tx[r]) /\ Known(tx[r]) = Seen(tx[r])
    <3>1. s = StepStability => u = "step" /\ Touched(tx[r]) = {}
      BY <1>1, <1>17, <2>2, <2>3, <2>4
    <3>2. QED
      BY <1>14, <3>1 DEF Known
  <2>6. s = ParameterCounts => Touched(t) = Touched(tx[r])
    BY <1>1, <1>15, <1>17, <2>4
  <2>7. Known(t) = Known(tx[r])
    BY <1>13, <1>17, <2>5, <2>6 DEF Known
  <2>8. n = 1 + b => Touched(t) # {}
    BY <1>17, <2>1, <2>3, <2>4, <2>5, <2>6
  <2>9. n = 2 + b => (Touched(t) = {} <=> t.todo[1] = StepStability)
    <3> SUFFICES ASSUME n = 2 + b PROVE Touched(t) = {} <=> t.todo[1] = StepStability
      OBVIOUS
    <3>1. t.todo[1] # s /\ t.todo[1] \in Outcomes
      BY <1>1, EndNext
    <3>2. QED
      BY <1>17, <2>1, <2>2, <2>4, <2>5, <2>6, <3>1 DEF Outcomes
  <2>10. Learner(tx[r])
    <3>1. n > b
      BY <1>3, <1>17
    <3>2. QED
      BY <1>1, <3>1, OpenFits DEF Learner
  <2>11. Learns(t, m)
    <3>1. CASE n = 2 + b
      <4>1. m = 1 + b /\ m # 4 + b /\ ~(m >= 2 + b) /\ (b = 3 => m \notin 1..3)
        BY <1>2, <1>3, <3>1
      <4>2. QED
        BY <1>1, <1>3, <1>9, <1>10, <2>1, <2>7, <2>9, <3>1, <4>1 DEF Learns
    <3>2. CASE n = 1 + b
      <4>1. m = b /\ m # 4 + b /\ ~(m >= 2 + b) /\ m # 1 + b /\ m \notin (1 + b)..(3 + b)
        BY <1>2, <1>3, <3>2
      <4>2. QED
        BY <1>1, <1>9, <1>10, <2>8, <3>2, <4>1 DEF Learns
    <3>3. QED
      BY <1>17, <3>1, <3>2
  <2>12. Finds(r, t, m)
    <3>1. b = 3 => m \notin 1..2
      BY <1>2, <1>17
    <3>2. QED
      BY <1>3, <3>1 DEF Finds
  <2>13. QED
    BY <1>1, <1>16, <2>7, <2>10, <2>11, <2>12, StillKnown DEF Taught
<1>18. CASE b = 3 /\ n = 1
  <2>1. m = 0 /\ m # 4 + b /\ ~(m >= 2 + b) /\ m # 1 + b /\ m \notin (1 + b)..(3 + b)
        /\ m \notin 1..3 /\ m \notin 1..2
    BY <1>2, <1>18
  <2>2. Learns(t, m)
    BY <1>1, <1>9, <1>10, <2>1 DEF Learns
  <2>3. ~Learner(t)
    BY <1>2, <1>18 DEF Learner
  <2>4. Finds(r, t, m)
    BY <2>1 DEF Finds
  <2>5. QED
    BY <1>1, <1>16, <2>2, <2>3, <2>4 DEF Taught
<1>19. QED
  BY <1>1, <1>3, <1>17, <1>18 DEF EndHead
--------------------------------------------------------------------------------
\* What a step leads to, of rows and of what is left to do.
LEMMA RowsBefore ==
    ASSUME IInv, IInv', NEW r \in Open, NEW t, Becomes(r, t),
           t.kind = tx[r].kind, t.before = tx[r].before
    PROVE  Rows(t.read) /\ Ordered(t.kind, t.todo)
<1>1. /\ Requests' = Requests /\ r \in Requests
      /\ tx'[r] = t /\ \A q \in Requests \ {r} : tx'[q] = tx[q]
  BY OpenFits DEF Becomes, Requests
<1>2. \A q \in Requests : tx'[q].kind = tx[q].kind /\ tx'[q].before = tx[q].before
  BY <1>1
<1>3. \A S : OnePiece(S)' => OnePiece(S)
  <2>1. \A a, b : Overlap(a, b)' <=> Overlap(a, b)
    BY <1>1, <1>2 DEF Overlap
  <2> SUFFICES ASSUME NEW S, OnePiece(S)' PROVE OnePiece(S)
    OBVIOUS
  <2>2. S \subseteq Requests \cup {0}
    BY <1>1 DEF OnePiece
  <2>3. ASSUME NEW a \in S, NEW b \in S, a # b, \A s \in {a, b} \ {0} : tx[s].kind # "add"
        PROVE  Overlap(a, b)
    <3>1. \A s \in {a, b} \ {0} : tx'[s].kind # "add"
      BY <1>2, <2>2, <2>3
    <3>2. QED
      BY <2>1, <2>3, <3>1 DEF OnePiece
  <2>4. QED
    BY <2>2, <2>3 DEF OnePiece
<1>4. ASSUME NEW x, Genuine(x)' PROVE Genuine(x)
  <2>1. OnePiece(x.of)
    BY <1>3, <1>4 DEF Genuine
  <2>2. x.by \in Requests => tx'[x.by].kind = tx[x.by].kind
    BY <1>2
  <2>3. QED
    BY <1>1, <1>4, <2>1, <2>2 DEF Genuine
<1>5. Good(r, t)'
  <2>1. \A q \in Requests' : \A u \in {tx'[q]} : Good(q, u)'
    BY DEF IInv, WInv
  <2>2. QED
    BY <1>1, <2>1
<1>6. Rows(t.read)' /\ Ordered(t.kind, t.todo)
  BY <1>5 DEF Good, RowsFit, Ordered, InOrder
<1>7. QED
  BY <1>4, <1>6 DEF Rows

LEMMA EndOps ==
    ASSUME IInv, LInv, NEW r \in Open, tx[r].todo # <<>>, tx[r].kind \in EndKinds
    PROVE  tx[r].todo[1][1] \in {"read", "some", "pick", "change"}
<1>1. EndHead(tx[r].todo[1], Len(tx[r].todo), Base(tx[r].kind))
  BY EndNext
<1>2. QED
  BY <1>1 DEF EndHead

LEMMA LoadLearns ==
    ASSUME IInv, LInv, NEW r \in Requests, Load(r)
    PROVE  LInv'
<1> DEFINE u == Table(r)
           t == [Past(r) EXCEPT !.read = {x \in @ : x.table # u} \cup Loaded(r, u)]
<1>1. /\ r \in Open /\ tx[r].todo # <<>> /\ u = tx[r].todo[1][2]
      /\ tx[r].todo[1][1] \in {"read", "some", "one", "need"}
      /\ \/ tx[r].todo[1][1] \in {"one", "need"} /\ Becomes(r, RolledBack(tx[r]))
         \/ tx[r].todo[1][1] \in {"some", "need"} /\ Becomes(r, Refused(tx[r]))
         \/ Becomes(r, t)
  BY DEF Load, At, Table
<1>2. CASE tx[r].todo[1][1] \in {"one", "need"} /\ Becomes(r, RolledBack(tx[r]))
  <2>1. tx[r].kind # "agent_end"
    BY <1>1, <1>2, EndOps DEF EndKinds
  <2>2. QED
    BY <1>1, <1>2, <2>1, RolledTaught
<1>3. CASE tx[r].todo[1][1] \in {"some", "need"} /\ Becomes(r, Refused(tx[r]))
  BY <1>1, <1>3, RefusedTaught DEF Refuses
<1>4. CASE Becomes(r, t)
  <2>1. DOMAIN tx[r] = Fields /\ tx[r].end = "open"
    BY <1>1, OpenFits DEF Good, Shape
  <2>2. /\ t.kind = tx[r].kind /\ t.before = tx[r].before /\ t.end = "open"
        /\ t.refused = tx[r].refused /\ t.todo = Tail(tx[r].todo)
        /\ t.new = tx[r].new /\ t.gone = tx[r].gone /\ t.changed = tx[r].changed
        /\ t.read = {x \in tx[r].read : x.table # u} \cup Loaded(r, u)
    BY <2>1 DEF Past, Fields
  <2>3. Becomes(r, t)
    BY <1>4
  <2> HIDE DEF t, u
  <2>4. Rows(t.read)
    BY <1>1, <2>2, <2>3, LoadFits, RowsBefore
  <2>5. CASE tx[r].kind \notin EndKinds
    <3>1. Touched(t) \subseteq Touched(tx[r]) /\ tx[r].todo[1][1] # "insert"
      BY <1>1, <2>2 DEF Touched
    <3>2. QED
      BY <1>1, <2>2, <2>3, <2>4, <2>5, <3>1, OtherGoes
  <2>6. CASE tx[r].kind \in EndKinds
    <3>1. tx[r].todo[1][1] \in {"read", "some"}
      BY <1>1, <2>6, EndOps
    <3>2. InSteps(t.kind, t.todo)
      BY <1>1, <2>2, StepNext
    <3>3. ASSUME ~Gone
          PROVE  /\ Taught(r, t)
                 /\ Learner(t) => \A o \in Open \ {r} :
                                     Learner(tx[o]) => Comparable(t, tx[o])
      BY <1>1, <2>2, <2>6, <3>1, <3>3, EndLoads
    <3>4. t.end # "failed"
      BY <2>2
    <3>5. QED
      BY <1>1, <2>2, <2>3, <2>4, <3>2, <3>3, <3>4, GoingTaught
  <2>7. QED
    BY <2>5, <2>6
<1>5. QED
  BY <1>1, <1>2, <1>3, <1>4

LEMMA DecideLearns ==
    ASSUME IInv, LInv, NEW r \in Requests, Decide(r)
    PROVE  LInv'
<1> DEFINE t == Past(r)
<1>1. /\ r \in Open /\ tx[r].todo # <<>> /\ tx[r].todo[1][1] = "not"
      /\ Becomes(r, Refused(tx[r])) \/ Becomes(r, t)
  BY DEF Decide, At
<1>2. CASE Becomes(r, Refused(tx[r]))
  BY <1>1, <1>2, RefusedTaught DEF Refuses
<1>3. CASE Becomes(r, t)
  <2>1. DOMAIN tx[r] = Fields /\ tx[r].end = "open"
    BY <1>1, OpenFits DEF Good, Shape
  <2>2. /\ t.kind = tx[r].kind /\ t.before = tx[r].before /\ t.end = "open"
        /\ t.refused = tx[r].refused /\ t.todo = Tail(tx[r].todo)
        /\ t.changed = tx[r].changed /\ t.read = tx[r].read
    BY <2>1 DEF Past, Fields
  <2>3. Becomes(r, t)
    BY <1>3
  <2> HIDE DEF t
  <2>4. Rows(t.read)
    BY <1>1, <2>2, OpenFits DEF Good, RowsFit
  <2>5. tx[r].kind \notin EndKinds
    BY <1>1, EndOps
  <2>6. Touched(t) \subseteq Touched(tx[r]) /\ tx[r].todo[1][1] # "insert"
    BY <1>1, <2>2 DEF Touched
  <2>7. QED
    BY <1>1, <2>2, <2>3, <2>4, <2>5, <2>6, OtherGoes
<1>4. QED
  BY <1>1, <1>2, <1>3

LEMMA PickLearns ==
    ASSUME IInv, LInv, NEW r \in Requests, Pick(r)
    PROVE  LInv'
<1> DEFINE T(x) == [Past(r) EXCEPT !.read = {y \in @ : y.table = Table(r) => y = x}]
<1>1. /\ r \in Open /\ tx[r].todo # <<>> /\ tx[r].todo[1][1] = "pick"
      /\ Becomes(r, Refused(tx[r])) \/ \E x : Becomes(r, T(x))
  BY DEF Pick, At
<1>2. CASE Becomes(r, Refused(tx[r]))
  BY <1>1, <1>2, RefusedTaught DEF Refuses
<1>3. ASSUME NEW x, Becomes(r, T(x)) PROVE LInv'
  <2> DEFINE t == T(x)
  <2>1. DOMAIN tx[r] = Fields /\ tx[r].end = "open"
    BY <1>1, OpenFits DEF Good, Shape
  <2>2. /\ t.kind = tx[r].kind /\ t.before = tx[r].before /\ t.end = "open"
        /\ t.refused = tx[r].refused /\ t.todo = Tail(tx[r].todo)
        /\ t.new = tx[r].new /\ t.gone = tx[r].gone /\ t.changed = tx[r].changed
        /\ t.read \subseteq tx[r].read
    BY <2>1 DEF Past, Fields
  <2>3. Becomes(r, t)
    BY <1>3
  <2> HIDE DEF t
  <2>4. Rows(t.read)
    BY <1>1, <2>2, OpenFits, FS_Subset DEF Good, RowsFit, Rows
  <2>5. CASE tx[r].kind \notin EndKinds
    <3>1. Touched(t) \subseteq Touched(tx[r]) /\ tx[r].todo[1][1] # "insert"
      BY <1>1, <2>2 DEF Touched
    <3>2. QED
      BY <1>1, <2>2, <2>3, <2>4, <2>5, <3>1, OtherGoes
  <2>6. CASE tx[r].kind \in EndKinds
    <3>1. InSteps(t.kind, t.todo)
      BY <1>1, <2>2, StepNext
    <3>2. ASSUME ~Gone
          PROVE  /\ Taught(r, t)
                 /\ Learner(t) => \A o \in Open \ {r} :
                                     Learner(tx[o]) => Comparable(t, tx[o])
      BY <1>1, <2>2, <2>6, <3>2, EndPicks
    <3>3. t.end # "failed"
      BY <2>2
    <3>4. QED
      BY <1>1, <2>2, <2>3, <2>4, <3>1, <3>2, <3>3, GoingTaught
  <2>7. QED
    BY <2>5, <2>6
<1>4. QED
  BY <1>1, <1>2, <1>3

LEMMA AdoptLearns ==
    ASSUME IInv, LInv, NEW r \in Requests, Adopt(r)
    PROVE  LInv'
<1> DEFINE t == [Past(r) EXCEPT !.plan = UNION {x.of : x \in In(tx[r].read, "template")}]
<1>1. /\ r \in Open /\ tx[r].todo # <<>> /\ tx[r].todo[1][1] = "adopt" /\ Becomes(r, t)
  BY DEF Adopt, At
<1>2. DOMAIN tx[r] = Fields /\ tx[r].end = "open"
  BY <1>1, OpenFits DEF Good, Shape
<1>3. /\ t.kind = tx[r].kind /\ t.before = tx[r].before /\ t.end = "open"
      /\ t.refused = tx[r].refused /\ t.todo = Tail(tx[r].todo)
      /\ t.changed = tx[r].changed /\ t.read = tx[r].read
  BY <1>2 DEF Past, Fields
<1> HIDE DEF t
<1>4. Rows(t.read)
  BY <1>1, <1>3, OpenFits DEF Good, RowsFit
<1>5. tx[r].kind \notin EndKinds
  BY <1>1, EndOps
<1>6. Touched(t) \subseteq Touched(tx[r]) /\ tx[r].todo[1][1] # "insert"
  BY <1>1, <1>3 DEF Touched
<1>7. QED
  BY <1>1, <1>3, <1>4, <1>5, <1>6, OtherGoes

LEMMA CreateLearns ==
    ASSUME IInv, LInv, NEW r \in Requests, Create(r)
    PROVE  LInv'
<1> DEFINE t == [Past(r) EXCEPT
                    !.run = IF tx[r].plan # {} THEN tx[r].plan
                            ELSE {x.by : x \in In(tx[r].read, "step")}]
<1>0. /\ r \in Open /\ tx[r].todo # <<>> /\ tx[r].todo[1][1] = "create"
      /\ Becomes(r, RolledBack(tx[r])) \/ Becomes(r, t)
  BY DEF Create, At
<1> SUFFICES ASSUME Becomes(r, t) PROVE LInv'
  <2>1. tx[r].kind \notin EndKinds
    BY <1>0, EndOps
  <2>2. QED
    BY <1>0, <2>1, RolledTaught DEF EndKinds
<1>1. /\ r \in Open /\ tx[r].todo # <<>> /\ tx[r].todo[1][1] = "create" /\ Becomes(r, t)
  BY <1>0
<1>2. DOMAIN tx[r] = Fields /\ tx[r].end = "open"
  BY <1>1, OpenFits DEF Good, Shape
<1>3. /\ t.kind = tx[r].kind /\ t.before = tx[r].before /\ t.end = "open"
      /\ t.refused = tx[r].refused /\ t.todo = Tail(tx[r].todo)
      /\ t.changed = tx[r].changed /\ t.read = tx[r].read
  BY <1>2 DEF Past, Fields
<1> HIDE DEF t
<1>4. Rows(t.read)
  BY <1>1, <1>3, OpenFits DEF Good, RowsFit
<1>5. tx[r].kind \notin EndKinds
  BY <1>1, EndOps
<1>6. Touched(t) \subseteq Touched(tx[r]) /\ tx[r].todo[1][1] # "insert"
  BY <1>1, <1>3 DEF Touched
<1>7. QED
  BY <1>1, <1>3, <1>4, <1>5, <1>6, OtherGoes
--------------------------------------------------------------------------------
\* A request that waits for its DELETE, or has other statements before it, has
\* written and read what it had.
LEMMA SameTaught ==
    ASSUME IInv, LInv, NEW r \in Open, NEW t, Becomes(r, t), tx[r].kind \notin EndKinds,
           t.kind = tx[r].kind, t.before = tx[r].before, t.end = "open",
           t.read = tx[r].read, t.changed = tx[r].changed,
           InSteps(t.kind, t.todo), t.kind # "save",
           \/ Len(t.todo) = Len(tx[r].todo)
           \/ tx[r].todo # <<>> /\ t.kind # "analyze"
    PROVE  LInv'
<1>1. Rows(t.read)
  BY OpenFits DEF Good, RowsFit
<1>2. ~Learner(t)
  BY DEF Learner
<1>3. ASSUME ~Gone PROVE Taught(r, t)
  <2> DEFINE n == Len(tx[r].todo)
             m == Len(t.todo)
  <2>1. Writing(tx[r], n)
    BY <1>3, LFits
  <2>2. Touched(t) = Touched(tx[r])
    BY DEF Touched
  <2>3. n = 0 => tx[r].todo = <<>>
    <3>1. IsSeq(tx[r].todo)
      BY OpenFits DEF Good, Ordered
    <3>2. QED
      BY <3>1 DEF IsSeq
  <2>4. m = n \/ (n # 0 /\ t.kind # "analyze")
    BY <2>3
  <2> HIDE DEF n
  <2>5. Writing(t, m)
    BY <2>1, <2>2, <2>4 DEF Writing
  <2>6. QED
    BY <2>5 DEF Taught, Learns, Finds, Saving, EndKinds
<1>4. t.end # "failed"
  OBVIOUS
<1>5. QED
  BY <1>1, <1>2, <1>3, <1>4, GoingTaught

LEMMA SaveAims ==
    ASSUME IInv, LInv, NEW r \in Open, NEW t, Becomes(r, t), tx[r].kind = "save",
           t.kind = tx[r].kind, t.before = tx[r].before, t.end = "open",
           t.read = tx[r].read, t.changed = tx[r].changed, t.todo = tx[r].todo,
           t.new = tx[r].new, t.gone = tx[r].gone, t.refused = tx[r].refused
    PROVE  LInv'
<1>1. Rows(t.read)
  BY OpenFits DEF Good, RowsFit
<1>2. ~Learner(t)
  BY DEF Learner, EndKinds
<1>3. InSteps(t.kind, t.todo)
  BY LFits
<1>4. ASSUME ~Gone PROVE Taught(r, t)
  <2> DEFINE n == Len(tx[r].todo)
  <2>1. Writing(tx[r], n) /\ Saving(tx[r], n)
    BY <1>4, LFits
  <2>2. Touched(t) = Touched(tx[r]) /\ n = Len(t.todo)
    BY DEF Touched
  <2> HIDE DEF n
  <2>3. Writing(t, n) /\ Saving(t, n)
    BY <2>1, <2>2 DEF Writing, Saving
  <2>4. QED
    BY <2>2, <2>3 DEF Taught, Learns, Finds, EndKinds
<1>5. t.end # "failed"
  OBVIOUS
<1>6. QED
  BY <1>1, <1>2, <1>3, <1>4, <1>5, GoingTaught

LEMMA AimLearns ==
    ASSUME IInv, LInv, NEW r \in Requests, Aim(r)
    PROVE  LInv'
<1> DEFINE t == [tx[r] EXCEPT !.aim = Targets(r)]
<1>1. /\ r \in Open /\ tx[r].todo # <<>> /\ tx[r].todo[1][1] = "clear" /\ Becomes(r, t)
  BY DEF Aim, At
<1>2. DOMAIN tx[r] = Fields /\ tx[r].end = "open"
  BY <1>1, OpenFits DEF Good, Shape
<1>3. /\ t.kind = tx[r].kind /\ t.before = tx[r].before /\ t.end = "open"
      /\ t.refused = tx[r].refused /\ t.todo = tx[r].todo /\ t.read = tx[r].read
      /\ t.new = tx[r].new /\ t.gone = tx[r].gone /\ t.changed = tx[r].changed
  BY <1>2 DEF Fields
<1> HIDE DEF t
<1>4. tx[r].kind \notin EndKinds
  BY <1>1, EndOps
<1>5. CASE tx[r].kind = "save"
  BY <1>1, <1>3, <1>5, SaveAims
<1>6. CASE tx[r].kind # "save"
  <2>1. InSteps(t.kind, t.todo)
    BY <1>1, <1>3, LFits
  <2>2. QED
    BY <1>1, <1>3, <1>4, <1>6, <2>1, SameTaught
<1>7. QED
  BY <1>5, <1>6

LEMMA BindLearns ==
    ASSUME IInv, LInv, NEW r \in Requests, Bind(r)
    PROVE  LInv'
<1> DEFINE left == IF In(tx[r].read, "binding") = {} THEN <<Insert("binding")>>
                   ELSE <<Change("binding", "touch")>>
           t == [tx[r] EXCEPT !.todo = left]
<1>1. r \in Open /\ tx[r].todo # <<>> /\ tx[r].todo[1][1] = "bind"
  BY DEF Bind, At
<1>2. [Past(r) EXCEPT !.todo = left] = t
  BY DEF Past
<1>3. Becomes(r, t)
  BY <1>2 DEF Bind
<1>4. tx[r].kind = "bind"
  <2> DEFINE p == tx[r].todo
  <2>1. p = tx[r].todo /\ p # <<>> /\ p[1][1] = "bind"
    BY <1>1
  <2> HIDE DEF p
  <2>2. InOrder(tx[r].kind, p, 1)
    BY <1>1, <2>1, OpenTail
  <2>3. QED
    BY <2>1, <2>2 DEF InOrder
<1>5. NoStep(left)
  BY DEF NoStep, Insert, Change
<1>6. DOMAIN tx[r] = Fields /\ tx[r].end = "open"
  BY <1>1, OpenFits DEF Good, Shape
<1>7. /\ t.kind = tx[r].kind /\ t.before = tx[r].before /\ t.end = "open"
      /\ t.read = tx[r].read /\ t.changed = tx[r].changed /\ t.todo = left
  BY <1>6 DEF Fields
<1> HIDE DEF t, left
<1>8. InSteps(t.kind, t.todo)
  BY <1>4, <1>5, <1>7, StepsOfOthers DEF EndKinds
<1>9. QED
  BY <1>1, <1>3, <1>4, <1>7, <1>8, SameTaught DEF EndKinds

LEMMA PlanLearns ==
    ASSUME IInv, LInv, NEW r \in Requests, Plan(r)
    PROVE  LInv'
<1>1. r \in Open /\ tx[r].todo # <<>> /\ tx[r].todo[1][1] = "plan"
  BY DEF Plan, At
<1>2. PICK left : Becomes(r, [tx[r] EXCEPT !.todo = left])
  BY DEF Plan
<1>3. tx[r].kind = "run_with"
  <2> DEFINE p == tx[r].todo
  <2>1. p = tx[r].todo /\ p # <<>> /\ p[1][1] = "plan"
    BY <1>1
  <2> HIDE DEF p
  <2>2. InOrder(tx[r].kind, p, 1)
    BY <1>1, <2>1, OpenTail
  <2>3. QED
    BY <2>1, <2>2 DEF InOrder
<1> DEFINE t == [tx[r] EXCEPT !.todo = left]
<1>4. DOMAIN tx[r] = Fields /\ tx[r].end = "open"
  BY <1>1, OpenFits DEF Good, Shape
<1>5. /\ t.kind = tx[r].kind /\ t.before = tx[r].before /\ t.end = "open"
      /\ t.read = tx[r].read /\ t.changed = tx[r].changed
  BY <1>4 DEF Fields
<1>6. Becomes(r, t)
  BY <1>2
<1> HIDE DEF t
<1>7. Ordered(t.kind, t.todo)
  BY <1>1, <1>5, <1>6, PlanFits, RowsBefore
<1>8. InSteps(t.kind, t.todo)
  BY <1>3, <1>5, <1>7, OrderedSteps DEF RunKinds
<1>9. QED
  BY <1>1, <1>3, <1>5, <1>6, <1>8, SameTaught DEF EndKinds

LEMMA RemoveLearns ==
    ASSUME IInv, LInv, NEW r \in Requests, Remove(r)
    PROVE  LInv'
<1> DEFINE aims == Targets(r)
           t == [Past(r) EXCEPT
                    !.gone = @ \cup (aims \cap IdsOf(db)), !.aim = {},
                    !.new = {x \in @ : x.id \notin aims},
                    !.changed = {x \in @ : x.id \notin aims},
                    !.read = {x \in @ : x.id \notin aims}]
<1>1. /\ r \in Open /\ tx[r].todo # <<>> /\ tx[r].todo[1][1] \in {"clear", "drop"}
      /\ Becomes(r, t)
  BY DEF Remove, At
<1>2. DOMAIN tx[r] = Fields /\ tx[r].end = "open"
  BY <1>1, OpenFits DEF Good, Shape
<1>3. /\ t.kind = tx[r].kind /\ t.before = tx[r].before /\ t.end = "open"
      /\ t.refused = tx[r].refused /\ t.todo = Tail(tx[r].todo)
      /\ t.changed \subseteq tx[r].changed
  BY <1>2 DEF Past, Fields
<1> HIDE DEF t, aims
<1>4. Rows(t.read)
  BY <1>1, <1>3, RemoveFits, RowsBefore
<1>5. tx[r].kind \notin EndKinds
  BY <1>1, EndOps
<1>6. Touched(t) \subseteq Touched(tx[r]) /\ tx[r].todo[1][1] # "insert"
  BY <1>1, <1>3 DEF Touched, IdsOf, In
<1>7. QED
  BY <1>1, <1>3, <1>4, <1>5, <1>6, OtherGoes

LEMMA AddLearns ==
    ASSUME IInv, LInv, NEW r \in Requests, Add(r)
    PROVE  LInv'
<1> DEFINE t == [Past(r) EXCEPT !.new = @ \cup {NewRow(r)}]
<1>1. /\ r \in Open /\ tx[r].todo # <<>> /\ tx[r].todo[1][1] = "insert"
      /\ Becomes(r, RolledBack(tx[r])) \/ Becomes(r, t)
  BY DEF Add, At
<1>2. tx[r].kind \notin EndKinds
  BY <1>1, EndOps
<1>3. CASE Becomes(r, RolledBack(tx[r]))
  BY <1>1, <1>2, <1>3, RolledTaught DEF EndKinds
<1>4. CASE Becomes(r, t)
  <2>1. DOMAIN tx[r] = Fields /\ tx[r].end = "open"
    BY <1>1, OpenFits DEF Good, Shape
  <2>2. /\ t.kind = tx[r].kind /\ t.before = tx[r].before /\ t.end = "open"
        /\ t.refused = tx[r].refused /\ t.todo = Tail(tx[r].todo)
        /\ t.new = tx[r].new \cup {NewRow(r)}
        /\ t.read = tx[r].read /\ t.changed = tx[r].changed
    BY <2>1 DEF Past, Fields
  <2>3. Becomes(r, t)
    BY <1>4
  <2> HIDE DEF t
  <2>4. Rows(t.read)
    BY <1>1, <2>2, OpenFits DEF Good, RowsFit
  <2>5. NewRow(r).table = tx[r].todo[1][2]
    BY <1>1, NewRowFits DEF Table
  <2>6. tx[r].todo[1][2] = "step" => In(t.new, "step") # {}
    BY <2>2, <2>5 DEF In
  <2>7. Touched(t) \subseteq Touched(tx[r])
    BY <2>2 DEF Touched
  <2>8. QED
    BY <1>1, <1>2, <2>2, <2>3, <2>4, <2>6, <2>7, OtherGoes
<1>5. QED
  BY <1>1, <1>3, <1>4

\* An UPDATE finds the rows that are there.
LEMMA UpdateFinds ==
    ASSUME IInv, LInv, NEW r \in Open, tx[r].todo # <<>>, tx[r].kind = "agent_end",
           tx[r].todo[1][1] = "change", ~Learning(tx[r]), IdsOf(After(r)) # Targets(r)
    PROVE  Excused(r) \/ Gone
<1> SUFFICES ASSUME ~Gone, ~Excused(r) PROVE IdsOf(After(r)) = Targets(r)
  OBVIOUS
<1> DEFINE n == Len(tx[r].todo)
           s == tx[r].todo[1]
           u == tx[r].todo[1][2]
<1>1. n = Len(tx[r].todo) /\ s = tx[r].todo[1] /\ u = s[2] /\ u = tx[r].todo[1][2]
  OBVIOUS
<1> HIDE DEF n, s, u
<1>2. n \in Nat \ {0} /\ ~(n > 3)
  <2>1. Len(Evolve) = 3
    BY DEF Evolve
  <2>2. QED
    BY <1>1, <2>1, StepNext DEF Learning
<1>3. n = 1 /\ u = "step"
  <2>1. EndHead(s, n, 3)
    <3>1. Base("agent_end") = 3
      BY DEF Base
    <3>2. QED
      BY <1>1, <3>1, EndNext DEF EndKinds
  <2>2. s[1] = "change" /\ u = s[2]
    BY <1>1
  <2>3. n = 1 /\ s[2] = "step"
    BY ONLY <1>2, <2>1, <2>2 DEF EndHead
  <2>4. QED
    BY <2>2, <2>3
<1>4. Learns(tx[r], n) /\ Finds(r, tx[r], n)
  BY <1>1, LFits
<1>5. Seen(tx[r]) \subseteq IdsOf(db) /\ tx[r].gone = {}
  BY <1>3, <1>4 DEF Finds, Learns, EndKinds
<1>6. Targets(r) = Seen(tx[r])
  <2>1. Targets(r) = IdsOf(In(tx[r].read, u))
    BY <1>1, AfterIs
  <2>2. QED
    BY <1>3, <2>1 DEF Seen
<1>7. ASSUME NEW id \in Targets(r) PROVE id \in IdsOf(After(r))
  <2>1. Rows(db) /\ Rows(tx[r].read)
    BY OpenFits DEF IInv, WInv, Stored, Good, RowsFit
  <2>2. id \in IdsOf(In(db, "step"))
    BY <1>5, <1>6, <1>7, <2>1, StepOfId DEF Seen
  <2>3. PICK y \in In(db, "step") : y.id = id
    BY <2>2 DEF IdsOf
  <2>4. id \in IdsOf(In(Visible(r), "step"))
    BY <1>5, <2>3, SeenOrGone
  <2>5. PICK x \in Visible(r) : x.id = id
    BY <2>4 DEF IdsOf, In
  <2> DEFINE z == Changed(x, CHOOSE w \in tx[r].read : w.id = x.id, tx[r].todo[1][3])
  <2>6. z \in After(r)
    BY <1>7, <2>5 DEF After
  <2>7. Genuine(x)
    BY <2>5, VisibleFits DEF Rows
  <2>8. z.id = id
    BY <2>5, <2>7, ChangedFits
  <2>9. QED
    BY <2>6, <2>8 DEF IdsOf
<1>8. \A z \in After(r) : z.id \in Targets(r)
  BY AfterFits
<1>9. QED
  BY <1>7, <1>8 DEF IdsOf

LEMMA UpdateLearns ==
    ASSUME IInv, LInv, NEW r \in Requests, Update(r)
    PROVE  LInv'
<1> DEFINE after == After(r)
           t == [Past(r) EXCEPT
                    !.changed = {x \in @ : x.id \notin IdsOf(after)} \cup
                                {x \in after : x.id \in IdsOf(db)},
                    !.new = {x \in @ : x.id \notin IdsOf(after)} \cup
                            {x \in after : x.id \notin IdsOf(db)},
                    !.read = {x \in @ : x.id \notin IdsOf(after)} \cup after]
<1>1. /\ r \in Open /\ tx[r].todo # <<>> /\ tx[r].todo[1][1] = "change"
      /\ \/ IdsOf(after) # Targets(r) /\ Becomes(r, RolledBack(tx[r]))
         \/ IdsOf(after) = Targets(r) /\ Becomes(r, t)
  BY DEF Update, At, After
<1>2. CASE IdsOf(after) # Targets(r) /\ Becomes(r, RolledBack(tx[r]))
  BY <1>1, <1>2, UpdateFinds, RolledTaught
<1>3. CASE IdsOf(after) = Targets(r) /\ Becomes(r, t)
  <2>1. DOMAIN tx[r] = Fields /\ tx[r].end = "open"
    BY <1>1, OpenFits DEF Good, Shape
  <2>2. /\ t.kind = tx[r].kind /\ t.before = tx[r].before /\ t.end = "open"
        /\ t.refused = tx[r].refused /\ t.todo = Tail(tx[r].todo) /\ t.gone = tx[r].gone
        /\ t.new = {x \in tx[r].new : x.id \notin IdsOf(After(r))} \cup
                   {x \in After(r) : x.id \notin IdsOf(db)}
        /\ t.changed = {x \in tx[r].changed : x.id \notin IdsOf(After(r))} \cup
                       {x \in After(r) : x.id \in IdsOf(db)}
        /\ t.read = {x \in tx[r].read : x.id \notin IdsOf(After(r))} \cup After(r)
    BY <2>1 DEF Past, Fields
  <2>3. Becomes(r, t) /\ IdsOf(After(r)) = Targets(r)
    BY <1>3
  <2> HIDE DEF t, after
  <2>4. Rows(t.read)
    BY <1>1, <2>2, <2>3, UpdateFits, RowsBefore
  <2>5. CASE tx[r].kind \notin EndKinds
    <3>1. tx[r].todo[1][2] = "step" \/ Touched(t) \subseteq Touched(tx[r])
      <4> SUFFICES ASSUME tx[r].todo[1][2] # "step" PROVE Touched(t) \subseteq Touched(tx[r])
        OBVIOUS
      <4>1. \A z \in After(r) : z.table # "step"
        BY <1>1, AfterIs
      <4>2. QED
        BY <2>2, <4>1 DEF Touched, IdsOf, In
    <3>2. QED
      BY <1>1, <2>2, <2>3, <2>4, <2>5, <3>1, OtherGoes
  <2>6. CASE tx[r].kind \in EndKinds
    <3>1. InSteps(t.kind, t.todo)
      BY <1>1, <2>2, StepNext
    <3>2. ASSUME ~Gone
          PROVE  /\ Taught(r, t)
                 /\ Learner(t) => \A o \in Open \ {r} :
                                     Learner(tx[o]) => Comparable(t, tx[o])
      BY <1>1, <2>2, <2>3, <2>6, <3>2, EndUpdates
    <3>3. t.end # "failed"
      BY <2>2
    <3>4. QED
      BY <1>1, <2>2, <2>3, <2>4, <3>1, <3>2, <3>3, GoingTaught
  <2>7. QED
    BY <2>5, <2>6
<1>4. QED
  BY <1>1, <1>2, <1>3
--------------------------------------------------------------------------------
\* Who deletes a step replaces all of them, or deletes the workflow.
LEMMA StepTaken ==
    ASSUME IInv, JInv, NEW r \in Open, NEW x, Genuine(x), x.table = "step",
           x.id \in tx[r].gone
    PROVE  tx[r].kind \in Savers
<1>1. PICK u \in TakenBy(tx[r].kind) : IdIn(x.id, u)
  BY JLate DEF Sound, Takes
<1>2. u = "step"
  BY <1>1, RowOfId
<1>3. QED
  BY <1>1, <1>2 DEF TakenBy, Savers, Deletes

LEMMA OpenOverlap ==
    ASSUME IInv, NEW r \in Open, NEW o \in Open
    PROVE  Overlap(r, o)
BY OpenFits DEF Good, Shape, Ended, Overlap

\* Who waits is about to write.
LEMMA Waiting ==
    ASSUME NEW r, WaitsFor(r) # {}
    PROVE  tx[r].todo # <<>> /\ tx[r].todo[1][1] \in {"clear", "drop", "change", "insert", "create"}
<1>1. At(r, {"clear"}) \/ At(r, {"drop", "change"}) \/ At(r, {"insert"}) \/ At(r, {"create"})
  <2>1. At(r, {"clear"}) \/ At(r, {"drop", "change"}) \/ Targets(r) = {}
    BY DEF Targets
  <2>2. At(r, {"insert"}) \/ IdsOf(Rivals(r)) = {}
    BY DEF Rivals, IdsOf
  <2>3. At(r, {"drop"}) => At(r, {"drop", "change"})
    BY DEF At
  <2>4. QED
    BY <2>1, <2>2, <2>3 DEF WaitsFor, AddsChild
<1>2. QED
  BY <1>1 DEF At

\* Two ends that have both written steps do not wait for each other.
LEMMA DeadlockSpares ==
    ASSUME IInv, JInv, LInv, NEW r \in Open, NEW o \in WaitsFor(r),
           WaitsFor(o) # {}, NEW q \in Open, r \in WaitsFor(q),
           tx[r].kind = "agent_end", ~Learning(tx[r])
    PROVE  Excused(r) \/ Gone
<1> SUFFICES ASSUME ~Gone, ~Excused(r) PROVE FALSE
  OBVIOUS
<1> DEFINE n == Len(tx[r].todo)
           m == Len(tx[o].todo)
<1>1. n = Len(tx[r].todo) /\ m = Len(tx[o].todo) /\ o \in Open /\ o # r
  BY DEF WaitsFor
<1> HIDE DEF n, m
<1>2. tx[r].todo # <<>> /\ tx[r].todo[1][1] = "change"
  BY Waiting, EndOps DEF EndKinds
<1>3. n = 1 /\ tx[r].todo[1][2] = "step"
  <2> DEFINE s == tx[r].todo[1]
  <2>1. s = tx[r].todo[1]
    OBVIOUS
  <2> HIDE DEF s
  <2>2. n \in Nat \ {0} /\ ~(n > 3)
    <3>1. Len(Evolve) = 3
      BY DEF Evolve
    <3>2. QED
      BY <1>1, <1>2, <3>1, StepNext DEF Learning
  <2>3. EndHead(s, n, 3)
    <3>1. Base("agent_end") = 3
      BY DEF Base
    <3>2. QED
      BY <1>1, <1>2, <2>1, <3>1, EndNext DEF EndKinds
  <2>4. s[1] = "change"
    BY <1>2, <2>1
  <2>5. n = 1 /\ s[2] = "step"
    BY ONLY <2>2, <2>3, <2>4 DEF EndHead
  <2>6. QED
    BY <2>1, <2>5
<1>4. Learns(tx[r], n) /\ Writing(tx[o], m)
  BY <1>1, LFits
<1>5. tx[r].gone = {} /\ tx[r].new = {}
  BY <1>4 DEF Learns, EndKinds
<1>6. Targets(r) = Seen(tx[r])
  BY <1>2, <1>3, AfterIs DEF Seen
<1>7. PICK id \in Seen(tx[r]) : id \in Held(o)
  <2>1. Targets(r) \cap Held(o) # {}
    BY <1>2 DEF WaitsFor, Rivals, AddsChild, At, IdsOf
  <2>2. QED
    BY <1>6, <2>1
<1>8. PICK x \in tx[r].read : x.id = id /\ x.table = "step" /\ Genuine(x)
  BY <1>7, OpenFits DEF Seen, IdsOf, In, Good, RowsFit, Rows
<1>9. id \notin tx[o].gone
  <2> SUFFICES ASSUME id \in tx[o].gone PROVE FALSE
    OBVIOUS
  <2>1. tx[o].kind \in Savers
    BY <1>1, <1>8, StepTaken
  <2>2. QED
    BY <1>1, <2>1, OpenOverlap, OpenFits DEF Excused
<1>10. Touched(tx[o]) # {}
  <2>1. PICK c \in tx[o].changed : c.id = id
    BY <1>7, <1>9 DEF Held, IdsOf
  <2>2. Genuine(c)
    BY <1>1, OpenFits DEF Good, RowsFit, Rows
  <2>3. c.table = "step"
    BY <1>8, <2>1, <2>2, SameRow
  <2>4. QED
    BY <2>1, <2>3 DEF Touched, IdsOf, In
<1>11. Learner(tx[o])
  <2>1. /\ tx[o].todo # <<>>
        /\ tx[o].todo[1][1] \in {"clear", "drop", "change", "insert", "create"}
    BY Waiting
  <2>2. m \in Nat \ {0} /\ (tx[o].kind = "analyze" /\ m = 1 => tx[o].todo[1][1] = "one")
    BY <1>1, <2>1, StepNext DEF StepHead
  <2>3. tx[o].kind \in EndKinds
    BY <1>4, <1>10, <2>1, <2>2 DEF Writing
  <2>4. QED
    BY <1>1, <1>10, <2>1, <2>3, OpenFits DEF Learner
<1>12. Touched(tx[r]) # {}
  <2>1. ~(At(q, {"drop"}) /\ Table(q) = "workflow")
    <3> SUFFICES ASSUME At(q, {"drop"}), Table(q) = "workflow" PROVE FALSE
      OBVIOUS
    <3>1. tx[q].todo # <<>> /\ tx[q].todo[1][1] = "drop" /\ tx[q].todo[1][2] = "workflow"
      BY DEF At, Table
    <3>2. Orderly(tx[q].kind, tx[q].todo[1], Len(tx[q].todo))
      BY <3>1, NextIs
    <3>3. tx[q].kind \in Savers
      BY <3>1, <3>2 DEF Orderly, TakenBy, Savers, Deletes
    <3>4. QED
      BY <3>3, OpenOverlap, OpenFits DEF Excused
  <2>2. Held(r) # {}
    BY <1>5, <2>1 DEF WaitsFor, Held, In, IdsOf
  <2>3. tx[r].changed # {}
    BY <1>5, <2>2 DEF Held, IdsOf
  <2>4. QED
    BY <1>3, <1>4, <2>3 DEF Learns, EndKinds
<1>13. Learner(tx[r])
  BY <1>2, <1>12, OpenFits DEF Learner, EndKinds
<1>14. Comparable(tx[r], tx[o])
  BY <1>1, <1>11, <1>13 DEF LInv, Together
<1>15. ASSUME NEW a \in Open PROVE Touched(tx[a]) \subseteq IdsOf(db) \cap HeldBy(tx[a])
  BY OpenFits DEF Good, RowsFit, Touched, HeldBy, IdsOf, In
<1>16. PICK k : k \in HeldBy(tx[r]) \cap HeldBy(tx[o])
  <2>1. Known(tx[r]) = Touched(tx[r]) /\ Known(tx[o]) = Touched(tx[o])
    BY <1>10, <1>12 DEF Known
  <2>2. \/ Touched(tx[r]) \subseteq Touched(tx[o])
        \/ Touched(tx[o]) \subseteq Touched(tx[r])
    BY <1>1, <1>14, <1>15, <2>1 DEF Comparable
  <2>3. QED
    BY <1>1, <1>10, <1>12, <1>15, <2>2
<1>17. QED
  BY <1>1, <1>16 DEF IInv, WInv, Exclusive

LEMMA DeadlockLearns ==
    ASSUME IInv, JInv, LInv, NEW r \in Requests, Deadlock(r)
    PROVE  LInv'
<1>1. r \in Open /\ Becomes(r, RolledBack(tx[r]))
  BY DEF Deadlock
<1>2. PICK o \in WaitsFor(r) : \/ r \in WaitsFor(o)
                               \/ \E p \in WaitsFor(o) : r \in WaitsFor(p)
  BY DEF Deadlock
<1>3. PICK q \in Open : r \in WaitsFor(q)
  BY <1>2 DEF WaitsFor
<1>4. WaitsFor(o) # {}
  BY <1>2
<1>5. tx[r].kind = "agent_end" /\ ~Learning(tx[r]) => Excused(r) \/ Gone
  BY <1>1, <1>3, <1>4, DeadlockSpares
<1>6. QED
  BY <1>1, <1>5, RolledTaught
--------------------------------------------------------------------------------
\* A step that is gone when a request commits was taken.
LEMMA CommitTakes ==
    ASSUME IInv, JInv, NEW r \in Requests, Commit(r), NEW y \in In(db, "step"),
           y.id \notin IdsOf(In(db', "step"))
    PROVE  y.id \in tx[r].gone /\ tx[r].kind \in Savers
<1>1. r \in Open
  BY DEF Commit
<1>2. y \in db /\ y.table = "step" /\ Genuine(y)
  BY DEF In, IInv, WInv, Stored, Rows
<1>3. y.id \in Held(r)
  <2> SUFFICES ASSUME y.id \notin Held(r) PROVE FALSE
    OBVIOUS
  <2>1. y \in db'
    BY <1>2 DEF Commit
  <2>2. QED
    BY <1>2, <2>1 DEF IdsOf, In
<1>4. y.id \notin IdsOf(tx[r].changed)
  <2> SUFFICES ASSUME NEW c \in tx[r].changed, c.id = y.id PROVE FALSE
    BY DEF IdsOf
  <2>1. Genuine(c)
    BY <1>1, OpenFits DEF Good, RowsFit, Rows
  <2>2. c.table = "step" /\ c \in db'
    BY <1>2, <2>1, SameRow DEF Commit
  <2>3. QED
    BY <2>2 DEF IdsOf, In
<1>5. y.id \in tx[r].gone
  BY <1>3, <1>4 DEF Held
<1>6. QED
  BY <1>1, <1>2, <1>5, StepTaken

LEMMA CommitLearns ==
    ASSUME IInv, JInv, LInv, NEW r \in Requests, Commit(r)
    PROVE  LInv'
<1>1. /\ r \in Open /\ Requests' = Requests /\ Later /\ tx[r].todo = <<>>
      /\ \A q \in Requests \ {r} : tx'[q] = tx[q]
      /\ tx'[r].kind = tx[r].kind /\ tx'[r].todo = <<>> /\ tx'[r].end = "done"
      /\ tx'[r].refused = tx[r].refused
  BY CommitChanges DEF Commit
<1>2. EndsAnyway'
  <2> SUFFICES ASSUME NEW q \in Requests', tx'[q].end = "failed" PROVE Anyway(q)'
    BY AnywayIs DEF EndsAnyway, Anyway, Excused, Gone, Savers
  <2>1. q \in Requests \ {r} /\ tx[q].end = "failed"
    BY <1>1
  <2>2. Anyway(q)
    BY <2>1, AnywayIs DEF LInv
  <2>3. QED
    BY <1>1, <2>1, <2>2, AnywayStays
<1>3. \A q \in Requests' : \A u \in {tx'[q]} : InSteps(u.kind, u.todo)'
  <2>1. \A kind, p : InSteps(kind, p)' <=> InSteps(kind, p)
    BY DEF InSteps, StepOrder
  <2>2. ASSUME NEW q \in Requests PROVE InSteps(tx'[q].kind, tx'[q].todo)
    <3>1. CASE q = r
      BY <1>1, <3>1, NothingKnown
    <3>2. CASE q # r
      BY <1>1, <3>2 DEF LInv
    <3>3. QED
      BY <3>1, <3>2
  <2>3. QED
    BY <1>1, <2>1, <2>2
<1>4. ASSUME ~Gone' PROVE Together'
  <2>1. ~Gone
    BY <1>1, <1>4, GoneStays
  <2>2. Together
    BY <2>1 DEF LInv
  <2>3. In(db', "step") # {}
    <3>1. PICK y \in In(db, "step") : TRUE
      BY <2>2 DEF Together
    <3> SUFFICES ASSUME In(db', "step") = {} PROVE FALSE
      OBVIOUS
    <3>2. y.id \in tx[r].gone /\ tx[r].kind \in Savers
      BY CommitTakes DEF IdsOf
    <3>3. Deleting(tx[r], 0) /\ Saving(tx[r], 0)
      <4>1. Len(tx[r].todo) = 0
        BY <1>1
      <4>2. QED
        BY <1>1, <2>1, <4>1, JFits, LFits
    <3>4. CASE tx[r].kind \in Deletes
      <4>1. ~tx[r].refused
        BY <3>2, <3>3, <3>4 DEF Deleting
      <4>2. Deleted(r)'
        BY <1>1, <3>4, <4>1 DEF Deleted, Deletes
      <4>3. QED
        BY <1>1, <1>4, <4>2 DEF Gone
    <3>5. CASE tx[r].kind = "save"
      <4>1. ~tx[r].refused
        BY <3>2, <3>3, <3>5 DEF Saving
      <4>2. In(tx[r].new, "step") # {}
        BY <3>3, <3>5, <4>1 DEF Saving
      <4>3. QED
        BY <4>2 DEF Commit, In
    <3>6. QED
      BY <3>2, <3>4, <3>5 DEF Savers, Deletes
  <2>4. \A q \in Requests' : \A u \in {tx'[q]} : Taught(q, u)'
    <3> SUFFICES ASSUME NEW q \in Requests, NEW u, u = tx'[q], u.end = "open"
                 PROVE  Taught(q, u)'
      BY <1>1 DEF Taught
    <3>1. q \in Open /\ q # r /\ u = tx[q]
      BY <1>1 DEF Open
    <3>2. Taught(q, u) /\ Rows(u.read)
      BY <2>2, <3>1, OpenFits DEF Together, Good, RowsFit
    <3>3. ASSUME NEW id \in Seen(u), Seen(u) \subseteq IdsOf(db), id \notin IdsOf(db')
          PROVE  Excused(q)'
      <4>1. Rows(db)
        BY DEF IInv, WInv, Stored
      <4>2. id \in IdsOf(In(db, "step"))
        BY <3>2, <3>3, <4>1, StepOfId DEF Seen
      <4>3. PICK y \in In(db, "step") : y.id = id
        BY <4>2 DEF IdsOf
      <4>4. tx[r].kind \in Savers
        BY <3>3, <4>3, CommitTakes DEF IdsOf, In
      <4>5. Excused(q)
        BY <1>1, <3>1, <4>4, OpenOverlap DEF Excused
      <4>6. QED
        BY <1>1, <4>5, ExcusedStays
    <3>4. Seen(u) \subseteq IdsOf(db) => Seen(u) \subseteq IdsOf(db') \/ Excused(q)'
      BY <3>3
    <3>5. QED
      BY <1>1, <3>2, <3>4, TaughtStays
  <2>5. ASSUME NEW p \in Open', NEW o \in Open', p # o, Learner(tx'[p]), Learner(tx'[o])
        PROVE  Comparable(tx[p], tx[o])' /\ tx'[p] = tx[p] /\ tx'[o] = tx[o]
    <3>1. p \in Open \ {r} /\ o \in Open \ {r} /\ tx'[p] = tx[p] /\ tx'[o] = tx[o]
      BY <1>1 DEF Open
    <3>2. Comparable(tx[p], tx[o])
      BY <2>2, <2>5, <3>1 DEF Together
    <3>3. ASSUME NEW a \in Open \ {r}, Learner(tx[a]),
                 NEW id \in Known(tx[a]), id \in IdsOf(db')
          PROVE  id \in IdsOf(db)
      <4>1. RowsFit(a, tx[a]) /\ tx[a].end = "open" /\ Rows(tx[r].new)
        BY <1>1, OpenFits DEF Good, RowsFit
      <4>2. CASE id \in Touched(tx[a])
        BY <4>1, <4>2 DEF RowsFit, Touched, IdsOf, In
      <4>3. CASE id \notin Touched(tx[a])
        <5>1. PICK x \in tx[a].read : x.id = id /\ Genuine(x)
          BY <3>3, <4>1, <4>3 DEF Known, Seen, RowsFit, Rows, IdsOf, In
        <5>2. PICK z \in db' : z.id = id
          BY <3>3 DEF IdsOf
        <5>3. CASE z \in tx[r].new
          <6>1. z.by = r /\ r # 0 /\ Genuine(z)
            BY <4>1, <5>3, CommitRows DEF Rows
          <6>2. x.by = r
            BY <5>1, <5>2, <6>1, SameRow
          <6>3. tx[r].end = "done"
            <7>1. Learns(tx[a], Len(tx[a].todo))
              BY <2>1, LFits
            <7>2. QED
              BY <3>3, <5>1, <6>1, <6>2, <7>1 DEF Learns, Learner
          <6>4. QED
            BY <1>1, <6>3, OpenFits
        <5>4. CASE z \notin tx[r].new
          BY <5>2, <5>4, CommitRows DEF IdsOf
        <5>5. QED
          BY <5>3, <5>4
      <4>4. QED
        BY <4>2, <4>3
    <3>4. \/ Known(tx[p]) \cap IdsOf(db') \subseteq Known(tx[o])
          \/ Known(tx[o]) \cap IdsOf(db') \subseteq Known(tx[p])
      BY <2>5, <3>1, <3>2, <3>3 DEF Comparable
    <3>5. QED
      BY <3>1, <3>4 DEF Comparable, Known, Touched, Seen, IdsOf, In
  <2>6. \A p, o \in Open' : p # o /\ Learner(tx'[p]) /\ Learner(tx'[o])
                               => Comparable(tx[p], tx[o])'
    BY <2>5
  <2>7. \A u : Learner(u)' <=> Learner(u)
    BY DEF Learner, Touched, IdsOf, In
  <2>8. QED
    BY <1>1, <2>3, <2>4, <2>6, <2>7 DEF Together, In
<1>5. QED
  BY <1>2, <1>3, <1>4 DEF LInv
--------------------------------------------------------------------------------
LEMMA LearnLength ==
    ASSUME NEW kind \in Kinds, kind \in EndKinds, NEW p \in Programs(kind)
    PROVE  Len(p) = 4 + Base(kind)
<1>1. ASSUME NEW learned \in Learn
      PROVE  Len(learned) = 4 /\ Len(learned \o Evolve) = 7
  <2>1. PICK order \in {<<StepStability, ParameterCounts>>, <<ParameterCounts, StepStability>>} :
            learned = <<Read("step"), Read("parameter")>> \o order
    BY DEF Learn
  <2>2. PICK a, b : order = <<a, b>>
    BY <2>1
  <2>3. QED
    BY <2>1, <2>2 DEF Evolve
<1>2. CASE kind = "end"
  BY <1>1, <1>2 DEF Programs, Base
<1>3. CASE kind = "agent_end"
  <2>1. PICK learned \in Learn : p = learned \o Evolve
    BY <1>3 DEF Programs, AgentEnd
  <2>2. 4 + Base(kind) = 7
    BY <1>3 DEF Base
  <2>3. QED
    BY <1>1, <2>1, <2>2
<1>4. QED
  BY <1>2, <1>3 DEF EndKinds

LEMMA ArriveTaught ==
    ASSUME NEW kind \in Kinds, NEW p \in Programs(kind), NEW t, NEW r,
           t.kind = kind, t.todo = p, t.end = "open",
           t.new = {}, t.gone = {}, t.changed = {}, t.read = {}
    PROVE  Taught(r, t)' /\ Known(t) = {} /\ InSteps(t.kind, t.todo)
<1> DEFINE n == Len(t.todo)
           b == Base(kind)
<1>1. Touched(t) = {} /\ Seen(t) = {} /\ Known(t) = {}
  BY NothingKnown DEF Known
<1>2. InSteps(t.kind, t.todo)
  BY ProgramSteps
<1>3. n # 0
  <2>1. Starts(kind, p) /\ IsSeq(p)
    BY ProgramFits DEF Ordered
  <2>2. QED
    BY <2>1 DEF Starts, IsSeq
<1>4. kind \in EndKinds => n = 4 + b
  BY LearnLength
<1>5. b \in {0, 3}
  BY DEF Base
<1> HIDE DEF n, b
<1>6. kind \in EndKinds =>
          n # 1 + b /\ n \notin (1 + b)..(3 + b) /\ n \notin 1..3 /\ n \notin 1..2
  BY <1>4, <1>5
<1>7. Learns(t, n)'
  BY <1>1, <1>6 DEF Learns, Known, Touched, Seen, b
<1>8. Finds(r, t, n)' /\ Saving(t, n)' /\ Writing(t, n)'
  BY <1>1, <1>3, <1>6 DEF Finds, Saving, Writing, Touched, Seen, EndKinds
<1>9. Taught(r, t)'
  BY <1>7, <1>8 DEF Taught, n
<1>10. QED
  BY <1>1, <1>2, <1>9

LEMMA ArriveLearns ==
    ASSUME IInv, LInv, NEW kind \in Kinds, Arrive(kind)
    PROVE  LInv'
<1>1. PICK t : /\ db' = db /\ tx' = Append(tx, t) /\ t.todo \in Programs(kind)
               /\ t.kind = kind /\ t.end = "open"
               /\ t.new = {} /\ t.gone = {} /\ t.changed = {} /\ t.read = {}
  BY DEF Arrive
<1>2. PICK S : tx \in Seq(S)
  BY DEF IInv, IsSeq
<1> PICK n : n = Len(tx) + 1
  OBVIOUS
<1>3. /\ Len(tx) \in Nat /\ Requests = 1..Len(tx)
      /\ Len(tx') = n /\ DOMAIN tx' = 1..n
      /\ tx'[n] = t /\ \A q \in 1..Len(tx) : tx'[q] = tx[q]
  BY <1>1, <1>2 DEF Requests
<1>4. /\ Requests' = Requests \cup {n} /\ n \notin Requests
      /\ tx'[n] = t /\ \A q \in Requests : tx'[q] = tx[q]
  BY <1>3 DEF Requests
<1>5. Later
  BY <1>4 DEF Later
<1>6. Taught(n, t)' /\ Known(t) = {} /\ InSteps(t.kind, t.todo)
  BY <1>1, ArriveTaught
<1>7. EndsAnyway'
  <2> SUFFICES ASSUME NEW q \in Requests', tx'[q].end = "failed" PROVE Anyway(q)'
    BY AnywayIs DEF EndsAnyway, Anyway, Excused, Gone, Savers
  <2>1. q \in Requests /\ tx[q].end = "failed"
    BY <1>1, <1>4
  <2>2. Anyway(q)
    BY <2>1, AnywayIs DEF LInv
  <2>3. QED
    BY <1>5, <2>1, <2>2, AnywayStays
<1>8. \A q \in Requests' : \A u \in {tx'[q]} : InSteps(u.kind, u.todo)'
  <2>1. \A k, s : InSteps(k, s)' <=> InSteps(k, s)
    BY DEF InSteps, StepOrder
  <2>2. ASSUME NEW q \in Requests' PROVE InSteps(tx'[q].kind, tx'[q].todo)
    BY <1>4, <1>6 DEF LInv
  <2>3. QED
    BY <2>1, <2>2
<1>9. ASSUME ~Gone' PROVE Together'
  <2>1. ~Gone
    BY <1>5, <1>9, GoneStays
  <2>2. Together
    BY <2>1 DEF LInv
  <2>3. \A q \in Requests' : \A u \in {tx'[q]} : Taught(q, u)'
    <3>1. ASSUME NEW q \in Requests, NEW u, u = tx[q] PROVE Taught(q, u)'
      <4>1. Taught(q, u) /\ Rows(u.read)
        BY <2>2, <3>1 DEF Together, IInv, WInv, Good, RowsFit
      <4>2. QED
        BY <1>1, <1>5, <4>1, TaughtStays
    <3>2. QED
      BY <1>4, <1>6, <3>1
  <2>4. \A a, c : Comparable(a, c)' <=> Comparable(a, c)
    BY <1>1 DEF Comparable, Known, Touched, Seen, IdsOf, In
  <2>5. ASSUME NEW a \in Open', NEW o \in Open', a # o, Learner(tx'[a]), Learner(tx'[o])
        PROVE  Comparable(tx'[a], tx'[o])
    <3>1. \A q \in {a, o} \ {n} : q \in Open /\ tx'[q] = tx[q]
      BY <1>4 DEF Open
    <3>2. CASE a = n \/ o = n
      BY <1>4, <1>6, <3>2 DEF Comparable
    <3>3. CASE a # n /\ o # n
      BY <2>2, <2>5, <3>1, <3>3 DEF Together
    <3>4. QED
      BY <3>2, <3>3
  <2>6. \A a, o \in Open' : a # o /\ Learner(tx'[a]) /\ Learner(tx'[o])
                               => Comparable(tx[a], tx[o])'
    BY <2>4, <2>5
  <2>7. \A u : Learner(u)' <=> Learner(u)
    BY DEF Learner, Touched, IdsOf, In
  <2>8. QED
    BY <1>1, <2>2, <2>3, <2>6, <2>7 DEF Together, In
<1>10. QED
  BY <1>7, <1>8, <1>9 DEF LInv
--------------------------------------------------------------------------------
LEMMA InitLInv == Init => LInv
<1> SUFFICES ASSUME Init PROVE LInv
  OBVIOUS
<1>1. Requests = {} /\ Open = {}
  BY DEF Init, Requests, Open
<1>2. In(db, "step") # {}
  <2> DEFINE x == Row(2, "step", 0, 0, {}, {})
  <2>1. x \in db
    BY DEF Init
  <2>2. x.table = "step"
    BY DEF Row
  <2>3. QED
    BY <2>1, <2>2 DEF In
<1>3. QED
  BY <1>1, <1>2 DEF LInv, EndsAnyway, Together

LEMMA NextLInv == IInv /\ JInv /\ LInv /\ [Next]_vars => LInv'
<1> SUFFICES ASSUME IInv, JInv, LInv, [Next]_vars PROVE LInv'
  OBVIOUS
<1>1. ASSUME NEW kind \in Kinds, Arrive(kind) PROVE LInv'
  BY <1>1, ArriveLearns
<1>2. ASSUME NEW r \in Requests, Load(r) PROVE LInv'
  BY <1>2, LoadLearns
<1>3. ASSUME NEW r \in Requests, Decide(r) PROVE LInv'
  BY <1>3, DecideLearns
<1>4. ASSUME NEW r \in Requests, Pick(r) PROVE LInv'
  BY <1>4, PickLearns
<1>5. ASSUME NEW r \in Requests, Aim(r) PROVE LInv'
  BY <1>5, AimLearns
<1>6. ASSUME NEW r \in Requests, Remove(r) PROVE LInv'
  BY <1>6, RemoveLearns
<1>7. ASSUME NEW r \in Requests, Update(r) PROVE LInv'
  BY <1>7, UpdateLearns
<1>8. ASSUME NEW r \in Requests, Add(r) PROVE LInv'
  BY <1>8, AddLearns
<1>9. ASSUME NEW r \in Requests, Bind(r) PROVE LInv'
  BY <1>9, BindLearns
<1>10. ASSUME NEW r \in Requests, Plan(r) PROVE LInv'
  BY <1>10, PlanLearns
<1>11. ASSUME NEW r \in Requests, Adopt(r) PROVE LInv'
  BY <1>11, AdoptLearns
<1>12. ASSUME NEW r \in Requests, Create(r) PROVE LInv'
  BY <1>12, CreateLearns
<1>13. ASSUME NEW r \in Requests, Commit(r) PROVE LInv'
  BY <1>13, CommitLearns
<1>14. ASSUME NEW r \in Requests, Deadlock(r) PROVE LInv'
  BY <1>14, DeadlockLearns
<1>15. CASE UNCHANGED vars
  <2>1. tx' = tx /\ db' = db /\ Requests' = Requests /\ Open' = Open
    BY <1>15 DEF vars, Requests, Open
  <2>2. EndsAnyway' /\ (Gone => Gone')
    BY <2>1 DEF LInv, EndsAnyway, Gone, Overlap, Deleted
  <2>3. \A r \in Requests' : \A t \in {tx'[r]} : InSteps(t.kind, t.todo)'
    BY <2>1 DEF LInv, InSteps, StepOrder
  <2>4. ASSUME Together PROVE Together'
    <3>1. \A r, t : Taught(r, t) => Taught(r, t)'
      <4>1. ASSUME NEW t, NEW n, Learns(t, n) PROVE Learns(t, n)'
        BY <2>1, <4>1 DEF Learns, Known, Touched, Seen, IdsOf, In
      <4>2. ASSUME NEW r, NEW t, NEW n, Finds(r, t, n) PROVE Finds(r, t, n)'
        BY <2>1, <4>2 DEF Finds, Seen, Excused, Overlap, IdsOf, In
      <4>3. ASSUME NEW t, NEW n, Saving(t, n), Writing(t, n)
            PROVE  Saving(t, n)' /\ Writing(t, n)'
        BY <4>3 DEF Saving, Writing, Touched, IdsOf, In
      <4>4. QED
        BY <4>1, <4>2, <4>3 DEF Taught
    <3>2. /\ \A t : Learner(t)' <=> Learner(t)
          /\ \A t, u : Comparable(t, u) => Comparable(t, u)'
      BY <2>1 DEF Learner, Comparable, Known, Touched, Seen, IdsOf, In
    <3>3. \A r \in Requests' : \A t \in {tx'[r]} : Taught(r, t)'
      BY <2>1, <2>4, <3>1 DEF Together
    <3>4. \A r, o \in Open' : r # o /\ Learner(tx'[r]) /\ Learner(tx'[o])
                                 => Comparable(tx[r], tx[o])'
      <4>1. \A r, o \in Open : r # o /\ Learner(tx[r]) /\ Learner(tx[o])
                                  => Comparable(tx[r], tx[o])
        BY <2>4 DEF Together
      <4>2. \A r, o : Comparable(tx[r], tx[o]) => Comparable(tx[r], tx[o])'
        BY <2>1 DEF Comparable, Known, Touched, Seen, IdsOf, In
      <4>3. QED
        BY <2>1, <4>1, <4>2
    <3>5. QED
      BY <2>1, <2>4, <3>2, <3>3, <3>4 DEF Together, In
  <2>5. QED
    BY <2>2, <2>3, <2>4 DEF LInv
<1>16. QED
  BY <1>1, <1>2, <1>3, <1>4, <1>5, <1>6, <1>7, <1>8, <1>9, <1>10, <1>11, <1>12, <1>13,
     <1>14, <1>15 DEF Next

LEMMA InvLInv == Spec => []LInv
<1>1. Init => LInv
  BY InitLInv
<1>2. IInv /\ JInv /\ LInv /\ [Next]_vars => LInv'
  BY NextLInv
<1>3. QED
  BY <1>1, <1>2, InvIInv, InvJInv, PTL DEF Spec
--------------------------------------------------------------------------------
\* The stored definition is of one piece: the steps of two saves, and the
\* parameters or actions of two analyses, are found together only if the two
\* requests overlapped (replace_steps, _clear_prior_analysis).
THEOREM DefinitionsOfOnePiece == Spec => []OfOnePiece
<1>1. IInv => OfOnePiece
  BY StoredPiece
<1>2. QED
  BY <1>1, InvIInv, PTL

\* A run repeats steps that were recorded together, whether create_run takes them
\* from the workflow or from a template (the snapshot of the run).
THEOREM RunsOfOnePiece == Spec => []RunOfOnePiece
<1>1. IInv => RunOfOnePiece
  BY DEF IInv, WInv, Good, Repeats, OnePiece, RunOfOnePiece
<1>2. QED
  BY <1>1, InvIInv, PTL

\* DELETE /workflows spares a workflow that was promoted to a system workflow
\* before the request came: the type that it selects by is still right when it
\* deletes.
THEOREM SystemIsSpared == Spec => []SystemSpared
<1>1. IInv => SystemSpared
  <2> SUFFICES ASSUME IInv, NEW r \in Requests, NEW p \in tx[r].before,
                      tx[r].kind = "delete_all", 1 \in tx[r].gone, Promoted(p)
               PROVE  FALSE
    BY DEF SystemSpared, Promoted
  <2>1. Spares(tx[r])
    BY DEF IInv, WInv, Good
  <2>2. QED
    BY <2>1 DEF Spares
<1>2. QED
  BY <1>1, InvIInv, PTL

\* Nothing of a deleted workflow is left but what a request wrote that a deletion
\* overlapped, and bindings of a parameter that such a request left: of
\* delete_workflow and delete_all, which go through the tables one by one, and of
\* save_binding, which asks for the parameter only.  Where the database has the
\* foreign keys of the models, no step is left at all.
THEOREM NothingIsOrphaned == Spec => []NoOrphans
<1>1. IInv /\ JInv /\ CInv => NoOrphans
  BY Orphans
<1>2. QED
  BY <1>1, InvIInv, InvJInv, InvCInv, PTL

\* At most one template of a workflow is active and no other one is newer, though
\* no key says so: generate_template and _persist_analysis retire or delete the
\* template that they read, and read the active one again before they commit.
THEOREM OneTemplateIsActive == Spec => []OneActiveTemplate
<1>1. IInv /\ KInv => OneActiveTemplate
  BY OnlyActive
<1>2. QED
  BY <1>1, InvIInv, InvKInv, PTL

\* The end of a run is undone by none of the requests that come beside it: of a
\* run without an agent never, and of an agent's run only if a save or a deletion
\* takes the steps at the same time, or a deletion of the workflow is through
\* (record_run_outcome in its savepoint, _maybe_persist_plan_mutations outside).
THEOREM EndsAreKept == Spec => []EndsAnyway
<1>1. LInv => EndsAnyway
  BY DEF LInv
<1>2. QED
  BY <1>1, InvLInv, PTL
================================================================================
