----------------------------- MODULE MCStockTx -----------------------------
(* The sessions, the kinds of requests and the stock differ by run; no     *)
(* units are earmarked in the beginning.                                   *)
EXTENDS StockTx, TLC

CONSTANT Opening    \* units of every variant

MCOpeningStock == [v \in Variants |-> Opening]
MCOpeningReserve == [v \in Variants |-> 0]
MCThreshold == [v \in Variants |-> 1]

\* For the runs without temporal properties.
Symmetry == Permutations(Reservations) \cup Permutations(Sessions)
=============================================================================
