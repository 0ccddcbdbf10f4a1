--------------------------- MODULE MCSerialCalls ---------------------------
(***************************************************************************)
(* Small instances of the service layer with its callers in turn.  One     *)
(* product is enough: what is shown is about order, not about sums.        *)
(***************************************************************************)
EXTENDS SerialCalls, TLC

CONSTANT burger

MCItems == {burger}
MCCost == burger :> 2
MCInitialAmount == burger :> 2

Buy(s, n)    == [op |-> "buy", session |-> s, item |-> burger, amount |-> n]
Remove(s, n) == [op |-> "remove", session |-> s, item |-> burger, amount |-> n]
Order(s, n)  == [op |-> "order", session |-> s, item |-> burger, amount |-> n]

(* Two purchases of session 1 and an order that pays for one or for both.  *)
PurchaseThenOrder == {Buy(1, 1), Order(1, 2), Order(1, 4)}

(* A purchase of one session and an order of another.                      *)
OtherSessionOrders == {Buy(2, 1), Order(1, 2)}

(* Removals with and without a purchase before them.                       *)
BuyAndRemove == {Buy(1, 1), Remove(1, 1)}
=============================================================================
