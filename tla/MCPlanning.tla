------------------------------ MODULE MCPlanning -------------------------------
(* Values of Planning: a number, the same with a space behind it, and one  *)
(* that two patterns match.                                                *)
EXTENDS Planning

MCValues == {"7", "7 ", "search location"}
MCTrim == [v \in MCValues |-> IF v = "7 " THEN "7" ELSE v]
MCHinted ==
    [v \in MCValues |-> IF v = "search location" THEN <<"search_query", "location">> ELSE <<>>]
================================================================================
