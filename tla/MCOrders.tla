----------------------------- MODULE MCOrders -----------------------------
(* Two orders and the shop itself compete for the units of one variant     *)
(* that starts with an earmark, as the demo seed makes it.                 *)
EXTENDS Orders, TLC

CONSTANT v1

MCOpeningStock == v1 :> 3
MCOpeningReserve == v1 :> 1
MCThreshold == v1 :> 1

Symmetry == Permutations(Reservations) \cup Permutations(Orders)
=============================================================================
