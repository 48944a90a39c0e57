------------------------------ MODULE MCOutreach ------------------------------
(* Two people: one saved by the sourcing, and one who is on the blacklist of    *)
(* Odoo whenever that can be read.  Odoo asks for sends, whole or one person at *)
(* most, and for previews.                                                      *)
EXTENDS Outreach

SendAndPreview == {[send |-> TRUE, cap |-> 0], [send |-> TRUE, cap |-> 1],
                   [send |-> FALSE, cap |-> 0]}
================================================================================
