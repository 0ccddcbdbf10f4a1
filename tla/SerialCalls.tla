---------------------------- MODULE SerialCalls ----------------------------
(***************************************************************************)
(* The service layer called by one thread at a time, the way every caller  *)
(* in the repository uses it: RequestHandler calls the server with         *)
(* server_mutex held, and a test calls it from its only thread.  The calls *)
(* are numbered in the order in which they are made; a call is made when   *)
(* the one before has returned its future, whether or not its task has     *)
(* run.                                                                    *)
(***************************************************************************)
EXTENDS ServerProperties

InTurn(c) == \A d \in Calls : d < c => pc[d] \notin CallerPcs \cup {"new"}

SerialNext == \E c \in Calls : (InTurn(c) /\ Invoke(c)) \/ ThreadStep(c)

SerialSpec == Init /\ [][SerialNext]_vars

SerialFairSpec == SerialSpec /\ \A c \in Calls : WF_vars(ThreadStep(c))

(* A client that asks to buy or remove, and then orders, orders all that   *)
(* it asked for: when an order is charged or refused, every purchase its   *)
(* session called before it has been carried out.                          *)
OrderSeesEarlierPurchases ==
  \A d \in Calls : IsOrder(d) /\ pc[d] \in {"cook", "done"} =>
    \A c \in Calls : c < d /\ IsPurchase(c) /\ SessionOf(c) = SessionOf(d) =>
      pc[c] \in {"tested", "flag", "notify", "return", "done"}

(* Removing takes a product from the cart, so what is in stock is never    *)
(* more than the restaurant began with.                                    *)
StockWithinSupply == \A i \in Items : stock[i] <= InitialAmount[i]
=============================================================================
