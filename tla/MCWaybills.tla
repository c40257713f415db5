----------------------------- MODULE MCWaybills -----------------------------
(* Two parcels of a shop, one of a shop whose key is refused.               *)
EXTENDS Waybills, TLC

CONSTANTS good, old, r1, r2, r3

MCShopOf == [r \in Reservations |-> IF r = r3 THEN old ELSE good]
=============================================================================
