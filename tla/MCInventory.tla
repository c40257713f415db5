---------------------------- MODULE MCInventory ----------------------------
(* A small shop for TLC: one scarce variant that starts with an earmark, as *)
(* the demo seed makes it, and one without stock.                           *)
EXTENDS Inventory, TLC

CONSTANTS v1, v2

MCOpeningStock == v1 :> 3 @@ v2 :> 0
MCOpeningReserve == v1 :> 1 @@ v2 :> 0
MCThreshold == v1 :> 1 @@ v2 :> 0

Symmetry == Permutations(Reservations)
=============================================================================
