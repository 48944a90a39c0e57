----------------------------- MODULE PlanUpdates -----------------------------
(***************************************************************************)
(* Edits of the plan of a run, as functions on a sequence of steps.  The   *)
(* backend applies them to the snapshot (HealingService.apply_plan_update);*)
(* the extension mirrors those it is told about on its own copy, of which  *)
(* only the length and the current index matter here.                      *)
(*                                                                         *)
(* An edit is a record [op, at, new, with]: at and with are 0-based        *)
(* positions; new is the step a MODIFY or an INSERT brings.                *)
(***************************************************************************)
EXTENDS Integers, Sequences
LOCAL INSTANCE SequencesExt

Clamp(i, lo, hi) == IF i < lo THEN lo ELSE IF i > hi THEN hi ELSE i

\* 0 <= idx < len(steps): every other MODIFY, REMOVE or REORDER is skipped.
Within(i, n) == i \in 0..(n - 1)

\* SIMPLIFY is MODIFY; ADD and SKIP are aliases of INSERT and REMOVE.
EditPlan(plan, e) ==
    LET n == Len(plan)
    IN  CASE e.op = "INSERT" -> InsertAt(plan, Clamp(e.at, 0, n) + 1, e.new)
          [] e.op = "MODIFY" /\ Within(e.at, n) -> ReplaceAt(plan, e.at + 1, e.new)
          [] e.op = "REMOVE" /\ Within(e.at, n) -> RemoveAt(plan, e.at + 1)
          [] e.op = "REORDER" /\ Within(e.at, n) /\ Within(e.with, n) ->
                 [plan EXCEPT ![e.at + 1] = plan[e.with + 1],
                              ![e.with + 1] = plan[e.at + 1]]
          [] OTHER -> plan

\* One batch of edits is one write of the snapshot; total_steps follows.
ApplyPlanUpdate(plan, edits) ==
    IF edits = <<>> THEN plan ELSE FoldLeft(EditPlan, plan, edits)

\* What the extension does with the same edit to its index and the length of its
\* copy, a record [index, len].
MirrorEdit(c, e) ==
    CASE e.op = "INSERT" ->
             [c EXCEPT !.len = @ + 1,
                       !.index = IF @ >= Clamp(e.at, 0, c.len) THEN @ + 1 ELSE @]
      [] e.op = "REMOVE" /\ Within(e.at, c.len) ->
             [c EXCEPT !.len = @ - 1, !.index = IF @ > e.at THEN @ - 1 ELSE @]
      [] OTHER -> c

MirrorEdits(c, edits) == IF edits = <<>> THEN c ELSE FoldLeft(MirrorEdit, c, edits)
================================================================================
