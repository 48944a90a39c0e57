----------------------------- MODULE MCAgentLoop -----------------------------
(* A plan of two steps, the first a checkpoint, and budgets of one or two. *)
EXTENDS AgentLoop

CONSTANTS search, open, extra

TwoSteps == <<search, open>>

Edit(op, at) == [op |-> op, at |-> at, new |-> extra, with |-> 0]

\* The edit drops the last step: the plan may end under the step in hand.
OneProposal == {Edit("REMOVE", 1)}
================================================================================
