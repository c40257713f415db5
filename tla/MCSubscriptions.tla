-------------------------- MODULE MCSubscriptions --------------------------
(* Lengths in units that keep their order: the jobs act within a unit of   *)
(* the end, grace and trial are shorter than a month, that than a year.    *)
EXTENDS Subscriptions, TLC

CONSTANTS basic, c1, c2, c3

MCLength == "month" :> 3 @@ "year" :> 4
MCGrants == [c \in Codes |-> CASE c = c1 -> "free_period" [] c = c2 -> basic
                                [] OTHER -> "percent"]
MCCodeLen == [c \in Codes |-> IF c = c1 THEN 2 ELSE 1]
MCMaxUses == [c \in Codes |-> 1]
=============================================================================
