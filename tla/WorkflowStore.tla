----------------------------- MODULE WorkflowStore -----------------------------
(***************************************************************************)
(* The stored definition of one workflow - its steps, what the semantic    *)
(* analysis says of it, the templates made from both - and the requests    *)
(* that read and rewrite it.  Nothing locks a workflow: a request is one   *)
(* PostgreSQL transaction at READ COMMITTED, and what keeps two of them    *)
(* apart is what the order of their statements, the row locks and the      *)
(* unique keys give.  So a request is modelled as the sequence of its      *)
(* statements, and the statements of all open requests interleave.         *)
(*                                                                         *)
(* A DELETE aims at the rows that are there when it starts, waits for the  *)
(* transactions that hold them, and removes those that are left; rows that *)
(* the others insert survive it.  An UPDATE of the ORM names one row, and  *)
(* raises when it is gone.  The ORM keeps what it has read: reading a row  *)
(* again does not refresh it.  An exception rolls the request back.        *)
(*                                                                         *)
(* The models and migration 008 declare that the steps and the runs of a   *)
(* workflow go with it (ON DELETE CASCADE).  Their key is a varchar, that  *)
(* of the workflow a uuid, which PostgreSQL does not relate: a database    *)
(* may be without the keys, so both are modelled.                          *)
(***************************************************************************)
EXTENDS Naturals, Sequences, FiniteSets

CONSTANTS Kinds,        \* the requests that come
          ForeignKeys,  \* the database has the declared foreign keys
          MaxRequests,  \* bound: requests in all
          MaxOpen       \* bound: requests at a time

ASSUME StoreAssumption ==
    /\ Kinds \subseteq {"analyze", "save", "add", "edit", "promote", "archive",
                        "describe", "delete", "delete_all", "edit_analysis",
                        "edit_parameter", "bind", "unbind", "run", "run_with", "end",
                        "agent_end"}
    /\ ForeignKeys \in BOOLEAN
    /\ {MaxRequests, MaxOpen} \subseteq Nat

VARIABLES db,   \* the committed rows
          tx    \* the requests, in the order of their arrival

vars == <<db, tx>>

\* A row: by is the request that wrote it (0: it was there), n the version of a
\* template or analysis, on the flag of its table (a template is active, a
\* workflow is a system workflow or archived), of the writers of the steps that
\* a template repeats.
Row(id, table, by, n, on, of) ==
    [id |-> id, table |-> table, by |-> by, n |-> n, on |-> on, of |-> of]

Requests == DOMAIN tx
Open == {r \in Requests : tx[r].end = "open"}
IdsOf(rows) == {x.id : x \in rows}
In(rows, table) == {x \in rows : x.table = table}

Init ==
    /\ tx = <<>>
    /\ db = {Row(1, "workflow", 0, 0, {}, {}), Row(2, "step", 0, 0, {}, {}),
             Row(3, "parameter", 0, 0, {}, {}), Row(4, "action", 0, 0, {}, {}),
             Row(5, "analysis", 0, 1, {}, {}),
             Row(6, "template", 0, 1, {"active"}, {})}
--------------------------------------------------------------------------------
(* The statements of every request, in the order of the code, without the *)
(* reads of which nothing that is modelled depends.                       *)
Read(table) == <<"read", table>>    \* all rows
One(table) == <<"one", table>>      \* two rows are an exception
Some(table) == <<"some", table>>    \* all rows; if there is none, the request is refused
Need(table) == <<"need", table>>    \* both
Not(table, flag) == <<"not", table, flag>>  \* a row read has the flag: refused
Clear(table) == <<"clear", table>>      \* DELETE of all rows of the workflow
Drop(table) == <<"drop", table>>        \* DELETE of the rows read
Change(table, how) == <<"change", table, how>>
Insert(table) == <<"insert", table>>

Get == <<Need("workflow")>>

\* Mutant: the parameters of the analysis before stay.
ClearPriorKeepsParameters ==
    <<Clear("action"), Clear("template"), One("analysis"), Drop("analysis")>>

\* _clear_prior_analysis
ClearPrior ==
    <<Clear("parameter"), Clear("action"), Clear("template"), One("analysis"), Drop("analysis")>>

\* _persist_analysis: the analysis is flushed before its parts.  Phases and the
\* output specification go the way of the actions.
Persist ==
    ClearPrior \o <<Insert("analysis"), Insert("action"), Insert("parameter"),
                    Insert("template")>>

\* _infer_extract_fields, of steps that extract.
InferFields == <<Change("step", "touch")>>
AnalyzeWorkflow == Get \o <<Read("step")>> \o Persist \o InferFields

\* The answer reads the template back.
Analyze == AnalyzeWorkflow \o <<One("template")>>

\* Mutant: the new steps come beside the old ones.
ReplaceAdds == <<Insert("step")>>

ReplaceSteps == <<Clear("step"), Insert("step")>>
AppendStep == <<Insert("step")>>
Save == Get \o ReplaceSteps
AddStep == Get \o AppendStep
UpdateStep ==
    Get \o <<Some("step"), <<"pick", "step">>, Change("step", "touch")>>
Promote ==
    Get \o <<Not("workflow", "system"), Not("workflow", "archived"),
             Change("workflow", "system")>>

\* update_workflow_status asks for the status before update_status does.
UpdateStatus == Get \o <<Not("workflow", "archived"), Change("workflow", "archived")>>
Archive == Get \o <<Not("workflow", "archived")>> \o UpdateStatus

\* generate-prompt writes the prompt with update_workflow.
UpdateWorkflow == Get \o <<Change("workflow", "touch")>>
Describe == Get \o <<Read("step")>> \o UpdateWorkflow

\* Mutant: the connector bindings of a deleted workflow are forgotten.
DependentsButBindings ==
    <<Clear("action"), Clear("parameter"), Clear("analysis"),
      Clear("template"), Clear("step")>>

\* _delete_workflow_dependent_records, in another order than ClearPrior.
Dependents ==
    <<Clear("action"), Clear("parameter"), Clear("analysis"), Clear("binding"),
      Clear("template"), Clear("step")>>

DeleteWorkflow == Get \o Dependents \o <<Drop("workflow")>>

\* Mutant: the bulk delete does not look at the type.
DeleteAllTypes == Get \o Dependents \o <<Drop("workflow")>>

\* delete_all: the type is asked for when the identifiers are selected, not when
\* the rows are deleted.
DeleteAll == Get \o <<Not("workflow", "system")>> \o Dependents \o <<Drop("workflow")>>

UpdateAnalysis == <<Need("analysis"), Change("analysis", "version")>>
UpdateParameter == <<Need("parameter"), Change("parameter", "touch")>>
EnsureParameter == <<Need("parameter")>>
SaveBinding == EnsureParameter \o <<One("binding"), <<"bind">>>>
DeleteBinding == <<Need("binding"), Drop("binding")>>

CreateRun == Get \o <<Read("step"), <<"create">>>>

Startable == Get \o <<Some("step"), Not("workflow", "archived")>>
RunWorkflow == Startable \o CreateRun

\* run-with-params up to the plan that build_execution_plan chooses.
RunWithParams == Startable \o <<One("analysis"), One("template"), <<"plan">>>>

\* Mutant: the old template is not retired, and the new one taken as it is.
GenerateBeside == <<Read("step"), One("template"), Insert("template")>>

\* generate_template, and the plan reads the active template again.
Generate ==
    <<Read("step"), One("template"), Change("template", "retire"), Insert("template"),
      One("template")>>

StepStability == Change("step", "touch")
ParameterCounts == Change("parameter", "touch")

\* record_run_outcome writes the steps and parameters that it read; which table
\* the flush takes first is not said.
Learn ==
    {<<Read("step"), Read("parameter")>> \o order :
        order \in {<<StepStability, ParameterCounts>>, <<ParameterCounts, StepStability>>}}

\* _maybe_persist_plan_mutations: where the agent changed a step of its plan, it
\* changes that step of the workflow.  This is not in the savepoint of Learn.
Evolve == <<Some("step"), <<"pick", "step">>, Change("step", "touch")>>
AgentEnd == {learned \o Evolve : learned \in Learn}

Programs(kind) ==
    CASE kind = "analyze" -> {Analyze}
      [] kind = "save" -> {Save}
      [] kind = "add" -> {AddStep}
      [] kind = "edit" -> {UpdateStep}
      [] kind = "promote" -> {Promote}
      [] kind = "archive" -> {Archive}
      [] kind = "describe" -> {Describe}
      [] kind = "delete" -> {DeleteWorkflow}
      [] kind = "delete_all" -> {DeleteAll}
      [] kind = "edit_analysis" -> {UpdateAnalysis}
      [] kind = "edit_parameter" -> {UpdateParameter}
      [] kind = "bind" -> {SaveBinding}
      [] kind = "unbind" -> {DeleteBinding}
      [] kind = "run" -> {RunWorkflow}
      [] kind = "run_with" -> {RunWithParams}
      [] kind = "end" -> Learn
      [] kind = "agent_end" -> AgentEnd

\* A run whose row goes with the workflow is not there to end.
HasRun(kind) ==
    ForeignKeys /\ kind \in {"end", "agent_end"} =>
        In(db, "workflow") # {} /\ \A o \in Open : 1 \notin tx[o].gone

\* new, gone, changed: what the transaction wrote; read: what the ORM keeps; aim:
\* the rows that the statement it waits in aims at; plan, run: the writers of the
\* steps of the plan and of the run; before: history, the requests it came after.
Arrive(kind) ==
    /\ Len(tx) < MaxRequests /\ Cardinality(Open) < MaxOpen /\ HasRun(kind)
    /\ \E program \in Programs(kind) :
           tx' = Append(tx, [kind |-> kind, todo |-> program, end |-> "open",
                             new |-> {}, gone |-> {}, changed |-> {}, read |-> {},
                             aim |-> {}, plan |-> {}, run |-> {}, refused |-> FALSE,
                             before |-> Requests \ Open])
    /\ UNCHANGED db
--------------------------------------------------------------------------------
\* What the transaction of r sees now.
Visible(r) ==
    {x \in db : x.id \notin tx[r].gone \cup IdsOf(tx[r].changed)}
        \cup tx[r].changed \cup tx[r].new

\* The rows that a SELECT of the table finds: of the templates, the active ones.
\* A row that was read before is still what it was then.
Loaded(r, table) ==
    {LET old == {y \in tx[r].read : y.id = x.id}
     IN  IF old = {} THEN x ELSE CHOOSE y \in old : TRUE :
        x \in {x \in In(Visible(r), table) : table = "template" => "active" \in x.on}}

\* Mutant: what the run learns is not a transaction of its own.
RolledBackWhole(t) ==
    [t EXCEPT !.todo = <<>>, !.new = {}, !.gone = {}, !.changed = {}, !.read = {}, !.aim = {},
              !.plan = {}, !.run = {}, !.end = "failed"]

\* An exception.  What a run learns at its end is a savepoint: it goes alone.
Learning(t) == t.kind = "end" \/ (t.kind = "agent_end" /\ Len(t.todo) > Len(Evolve))

RolledBack(t) ==
    [t EXCEPT !.todo = IF Learning(t) /\ t.kind = "agent_end" THEN Evolve ELSE <<>>,
              !.new = {}, !.gone = {}, !.changed = {}, !.read = {}, !.aim = {},
              !.plan = {}, !.run = {}, !.end = IF Learning(t) THEN "open" ELSE "failed"]

\* The request answers that it will not: what it wrote so far is committed.
Refused(t) == [t EXCEPT !.todo = <<>>, !.refused = TRUE]

Becomes(r, t) == tx' = [tx EXCEPT ![r] = t] /\ UNCHANGED db
At(r, ops) == tx[r].todo # <<>> /\ tx[r].todo[1][1] \in ops /\ r \in Open
Table(r) == tx[r].todo[1][2]
Past(r) == [tx[r] EXCEPT !.todo = Tail(@)]

\* A request for what is not there is refused; two rows for one are an exception.
Load(r) ==
    /\ At(r, {"read", "some", "one", "need"})
    /\ LET rows == Loaded(r, Table(r))
       IN  Becomes(r,
               IF At(r, {"one", "need"}) /\ Cardinality(rows) > 1 THEN RolledBack(tx[r])
               ELSE IF At(r, {"some", "need"}) /\ rows = {} THEN Refused(tx[r])
               ELSE [Past(r) EXCEPT !.read = {x \in @ : x.table # Table(r)} \cup rows])

\* The workflow is not of the right type or status.
Decide(r) ==
    /\ At(r, {"not"})
    /\ Becomes(r, IF \E x \in In(tx[r].read, Table(r)) : tx[r].todo[1][3] \in x.on
                  THEN Refused(tx[r]) ELSE Past(r))

\* Steps of two saves have the same indexes.
Doubled(rows) == \E x, y \in rows : x.by # y.by /\ \A r \in {x.by, y.by} \ {0} : tx[r].kind # "add"

\* update_step changes one of the steps read, and so does the end of an agent's
\* run, which leaves two steps with one index alone.
Pick(r) ==
    /\ At(r, {"pick"})
    /\ LET rows == In(tx[r].read, Table(r))
       IN  IF tx[r].kind = "agent_end" /\ Doubled(rows) THEN Becomes(r, Refused(tx[r]))
           ELSE \E x \in rows :
                    Becomes(r, [Past(r) EXCEPT !.read = {y \in @ : y.table = Table(r) => y = x}])
--------------------------------------------------------------------------------
Held(r) == tx[r].gone \cup IdsOf(tx[r].changed)

\* The steps that go with the workflow; its runs are not rows of db.
Cascaded(r) ==
    IF ForeignKeys /\ At(r, {"drop"}) /\ Table(r) = "workflow"
    THEN IdsOf(In(Visible(r), "step")) ELSE {}

\* The rows that the next statement of r deletes or updates.
Targets(r) ==
    CASE At(r, {"clear"}) -> IF tx[r].aim # {} THEN tx[r].aim
                             ELSE IdsOf(In(Visible(r), Table(r)))
      [] At(r, {"drop", "change"}) -> IdsOf(In(tx[r].read, Table(r))) \cup Cascaded(r)
      [] OTHER -> {}

Unique == {"analysis", "binding"}

\* The rows that the unique key of the table leaves no room beside.
Rivals(r) ==
    IF At(r, {"insert"}) /\ Table(r) \in Unique
    THEN {x \in In(db, Table(r)) : x.id \notin tx[r].gone} ELSE {}

\* A statement that inserts a step or a run locks the key of the workflow's row;
\* a request that ends a run has locked the row of the run.
AddsChild(r) == At(r, {"create"}) \/ (At(r, {"insert"}) /\ Table(r) = "step")

HasChild(o) ==
    tx[o].kind \in {"end", "agent_end"} \/ tx[o].run # {} \/ In(tx[o].new, "step") # {}

\* Mutant: as without the key.
ParentlessNever(r) == FALSE

Parentless(r) == ForeignKeys /\ AddsChild(r) /\ In(db, "workflow") = {}

WaitsFor(r) ==
    {o \in Open \ {r} :
        \/ Targets(r) \cap Held(o) # {}
        \/ IdsOf(Rivals(r)) \cap tx[o].gone # {}
        \/ At(r, {"insert"}) /\ Table(r) \in Unique /\ In(tx[o].new, Table(r)) # {}
        \/ ForeignKeys /\ AddsChild(r) /\ 1 \in tx[o].gone
        \/ ForeignKeys /\ At(r, {"drop"}) /\ Table(r) = "workflow" /\ HasChild(o)}

\* A DELETE that has to wait has chosen its rows.
Aim(r) ==
    /\ At(r, {"clear"}) /\ tx[r].aim = {} /\ WaitsFor(r) # {}
    /\ Becomes(r, [tx[r] EXCEPT !.aim = Targets(r)])

Remove(r) ==
    /\ At(r, {"clear", "drop"}) /\ WaitsFor(r) = {}
    /\ Becomes(r, [Past(r) EXCEPT
           !.gone = @ \cup (Targets(r) \cap IdsOf(db)), !.aim = {},
           !.new = {x \in @ : x.id \notin Targets(r)},
           !.changed = {x \in @ : x.id \notin Targets(r)},
           !.read = {x \in @ : x.id \notin Targets(r)}])

Changed(x, old, how) ==
    CASE how = "version" -> [x EXCEPT !.n = old.n + 1]
      [] how = "retire" -> [x EXCEPT !.on = @ \ {"active"}]
      [] how = "touch" -> x
      [] OTHER -> [x EXCEPT !.on = @ \cup {how}]

\* An UPDATE writes the columns that the request changed over the row as it is.
Update(r) ==
    /\ At(r, {"change"}) /\ WaitsFor(r) = {}
    /\ LET how == tx[r].todo[1][3]
           after == {Changed(x, CHOOSE y \in tx[r].read : y.id = x.id, how) :
                        x \in {x \in Visible(r) : x.id \in Targets(r)}}
       IN  IF IdsOf(after) # Targets(r) THEN Becomes(r, RolledBack(tx[r]))
           ELSE Becomes(r, [Past(r) EXCEPT
                    !.changed = {x \in @ : x.id \notin IdsOf(after)} \cup
                                {x \in after : x.id \in IdsOf(db)},
                    !.new = {x \in @ : x.id \notin IdsOf(after)} \cup
                            {x \in after : x.id \notin IdsOf(db)},
                    !.read = {x \in @ : x.id \notin IdsOf(after)} \cup after])

\* The row that the next statement of r inserts.  A template of generate_template
\* repeats the steps read, one of the analysis has none.
NewRow(r) ==
    LET id == 10 * r + Len(tx[r].todo)
        old == In(tx[r].read, "template")
    IN  IF Table(r) # "template" THEN Row(id, Table(r), r, 1, {}, {})
        ELSE IF tx[r].kind = "analyze" THEN Row(id, "template", r, 1, {"active"}, {})
        ELSE Row(id, "template", r, IF old = {} THEN 1 ELSE (CHOOSE x \in old : TRUE).n + 1,
                 {"active"}, {x.by : x \in In(tx[r].read, "step")})

Add(r) ==
    /\ At(r, {"insert"}) /\ WaitsFor(r) = {}
    /\ Becomes(r, IF Rivals(r) # {} \/ Parentless(r) THEN RolledBack(tx[r])
                  ELSE [Past(r) EXCEPT !.new = @ \cup {NewRow(r)}])

\* save_binding: the binding of the parameter that it read, or a new one.
Bind(r) ==
    /\ At(r, {"bind"})
    /\ Becomes(r, [Past(r) EXCEPT !.todo =
           IF In(tx[r].read, "binding") = {} THEN <<Insert("binding")>>
           ELSE <<Change("binding", "touch")>>])

\* build_execution_plan.  A template of the analysis has no steps: one that has
\* is generated.  Then the run repeats the recorded steps (also when parameters
\* are missing), or those of the template, or the person is asked for a goal.
Plan(r) ==
    /\ At(r, {"plan"})
    /\ LET template == In(tx[r].read, "template")
           first == IF \E x \in template : x.of # {} THEN <<>>
                    ELSE Generate
       IN  IF In(tx[r].read, "analysis") = {}
           THEN Becomes(r, [tx[r] EXCEPT !.todo = CreateRun])
           ELSE \E rest \in {CreateRun, <<<<"adopt">>>> \o CreateRun, <<>>} :
                    Becomes(r, [tx[r] EXCEPT !.todo = first \o rest])

\* The steps of the plan are those of the template.
Adopt(r) ==
    /\ At(r, {"adopt"})
    /\ Becomes(r, [Past(r) EXCEPT
           !.plan = UNION {x.of : x \in In(tx[r].read, "template")}])

\* The snapshot of the run: the steps read, or over them those of the plan.
Create(r) ==
    /\ At(r, {"create"}) /\ WaitsFor(r) = {}
    /\ Becomes(r, IF Parentless(r) THEN RolledBack(tx[r])
                  ELSE [Past(r) EXCEPT
           !.run = IF tx[r].plan # {} THEN tx[r].plan
                   ELSE {x.by : x \in In(tx[r].read, "step")}])

\* get_db commits when the handler has returned.
Commit(r) ==
    /\ r \in Open /\ tx[r].todo = <<>>
    /\ db' = {x \in db : x.id \notin Held(r)} \cup tx[r].changed \cup tx[r].new
    /\ tx' = [tx EXCEPT ![r].end = "done", ![r].read = {}, ![r].changed = {}, ![r].new = {},
                         ![r].gone = @ \cap {1}, ![r].plan = {}]

\* PostgreSQL breaks a cycle of waiting transactions by an exception in one.
Deadlock(r) ==
    /\ r \in Open
    /\ \E o \in WaitsFor(r) : \/ r \in WaitsFor(o)
                              \/ \E p \in WaitsFor(o) : r \in WaitsFor(p)
    /\ Becomes(r, RolledBack(tx[r]))
--------------------------------------------------------------------------------
Next ==
    \/ \E kind \in Kinds : Arrive(kind)
    \/ \E r \in Requests :
           \/ Load(r) \/ Decide(r) \/ Pick(r) \/ Aim(r) \/ Remove(r) \/ Update(r) \/ Add(r)
           \/ Bind(r) \/ Plan(r) \/ Adopt(r) \/ Create(r) \/ Commit(r) \/ Deadlock(r)

Spec == Init /\ [][Next]_vars
--------------------------------------------------------------------------------
\* Types, and: nobody commits a row under an identifier that is taken.
TypeOK ==
    /\ Len(tx) <= MaxRequests
    /\ \A r \in Requests : tx[r].end \in {"open", "done", "failed"}
    /\ \A x, y \in db : x.id = y.id => x = y

Overlap(r, o) == {r, o} \subseteq Requests /\ r \notin tx[o].before /\ o \notin tx[r].before

\* At most one template of a workflow is active, and no other one is newer.
\* No key says so.  Two requests may both have read the old template as the
\* active one; what decides is that both write its row, and that the handlers
\* read the active template again before they commit.  Of a workflow that is
\* deleted meanwhile there is no such row: two runs may then leave two templates.
OneActiveTemplate ==
    In(db, "workflow") # {} =>
    \A x, y \in In(db, "template") :
        "active" \in x.on /\ x # y => "active" \notin y.on /\ y.n < x.n

\* A definition is of one piece: steps of two saves, or parts of two analyses,
\* are found together only if the two requests overlapped.  Replacing the steps
\* and clearing the analysis before are a DELETE and INSERTs, nothing more.
OfOnePiece ==
    \A table \in {"step", "parameter", "action"} : \A x, y \in In(db, table) :
        x.by # y.by /\ (\A r \in {x.by, y.by} \ {0} : tx[r].kind # "add") => Overlap(x.by, y.by)

\* So is a run: the steps of its snapshot, recorded or planned, are of one save
\* unless two saves overlapped.
RunOfOnePiece ==
    \A q \in Requests : \A r, o \in tx[q].run :
        (\A s \in {r, o} \ {0} : tx[s].kind # "add") /\ r # o => Overlap(r, o)

\* Nothing of a deleted workflow is left but what a request wrote that one of
\* its deletions overlapped, and bindings of a parameter that such a request
\* left: saving a binding asks for the parameter only.  With the foreign keys no
\* step is left, whenever it was written.
Deleted(r) == tx[r].kind \in {"delete", "delete_all"} /\ tx[r].end = "done" /\ ~tx[r].refused

NoOrphans ==
    In(db, "workflow") = {} =>
        /\ ForeignKeys => In(db, "step") = {}
        /\ \A x \in db :
              \/ \E r \in Requests : Deleted(r) /\ Overlap(r, x.by)
              \/ x.table = "binding" /\ In(db, "parameter") # {}

\* The bulk delete spares a workflow that was promoted before it came.
SystemSpared ==
    \A r, p \in Requests :
        /\ tx[r].kind = "delete_all" /\ tx[r].end = "done" /\ 1 \in tx[r].gone
        /\ tx[p].kind = "promote" /\ tx[p].end = "done" /\ ~tx[p].refused
        => p \notin tx[r].before

\* A run ends whatever becomes of what it taught: waiting for an analysis, a
\* save or a deletion, deadlocks and rows that are gone do not undo its end.
\* What an agent changed is written outside of the savepoint: the end of its run
\* is undone, but only by a request that deletes the steps at the same time, or
\* of a workflow that is deleted: with what is left of it, two ends may each
\* have a parameter or a step that the other one waits for.
EndsAnyway ==
    \A r \in Requests : tx[r].end = "failed" =>
        /\ tx[r].kind # "end"
        /\ tx[r].kind = "agent_end" =>
               \E o \in Requests :
                   \/ Overlap(r, o) /\ tx[o].kind \in {"save", "delete", "delete_all"}
                   \/ Deleted(o)
================================================================================
