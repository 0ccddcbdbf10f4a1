----------------------------- MODULE MCLifetime -----------------------------
(***************************************************************************)
(* A small instance of a server and its owner: purchases of two sessions,  *)
(* the second of which needs longer vectors, one of a third that memory is *)
(* short of unless the second came first, one whose session's double wraps *)
(* around, and an order.                                                   *)
(***************************************************************************)
EXTENDS Lifetime, TLC

CONSTANT burger

MCItems == {burger}
MCCost == burger :> 2
MCInitialAmount == burger :> 1

R(op, s, n) == [op |-> op, session |-> s, item |-> burger, amount |-> n]

MCRequests ==
  {R("buy", 1, 1), R("buy", 2, 1), R("buy", 3, 1), R("buy", 5, 1), R("remove", 1, 1),
   R("order", 1, 2)}
=============================================================================
