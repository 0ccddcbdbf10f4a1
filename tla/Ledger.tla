------------------------------- MODULE Ledger -------------------------------
(***************************************************************************)
(* What the service layer promises its clients, with no threads, locks or  *)
(* pools: every call takes effect once, at one instant between its arrival *)
(* and its answer, on one stock and one cart per session.                  *)
(***************************************************************************)
EXTENDS Menu

CONSTANT Calls    \* the calls that may be made, each at most once

VARIABLES
  stock,     \* stock[i]: how many of item i can still be bought
  carts,     \* carts[s][i]: how many of item i session s has in its cart
  sold,      \* sold[i]: how many of item i left with an order that was paid
  request,   \* request[c]: what call c asks for
  outcome    \* outcome[c]: what has been decided about call c

ledgerVars == <<stock, carts, sold, request, outcome>>

Outcomes == {"absent", "open", "ok", "internal_error", "payment_failure"}

LedgerTypeOK ==
  /\ stock \in [Items -> SizeT]
  /\ carts \in [Sessions -> [Items -> SizeT]]
  /\ sold \in [Items -> SizeT]
  /\ request \in [Calls -> Requests]
  /\ outcome \in [Calls -> Outcomes]

LedgerInit ==
  /\ stock = InitialAmount
  /\ carts = [s \in Sessions |-> EmptyCart]
  /\ sold = [i \in Items |-> 0]
  /\ request \in [Calls -> Requests]
  /\ outcome = [c \in Calls |-> "absent"]

Decide(c, result) ==
  /\ outcome[c] = "open"
  /\ outcome' = [outcome EXCEPT ![c] = result]
  /\ UNCHANGED request

Arrive(c) ==
  /\ outcome[c] = "absent"
  /\ outcome' = [outcome EXCEPT ![c] = "open"]
  /\ UNCHANGED <<stock, carts, sold, request>>

Bought(c) ==
  LET s == request[c].session  i == request[c].item  n == request[c].amount
  IN  /\ request[c].op = "buy"
      /\ stock[i] >= n
      /\ stock' = [stock EXCEPT ![i] = @ - n]
      /\ carts' = [carts EXCEPT ![s][i] = Wrap(@ + n)]
      /\ Decide(c, "ok")
      /\ UNCHANGED sold

SoldOut(c) ==
  /\ request[c].op = "buy"
  /\ stock[request[c].item] < request[c].amount
  /\ Decide(c, "internal_error")
  /\ UNCHANGED <<stock, carts, sold>>

PutBack(c) ==
  LET s == request[c].session  i == request[c].item  n == request[c].amount
  IN  /\ request[c].op = "remove"
      /\ stock' = [stock EXCEPT ![i] = Wrap(@ + n)]
      /\ carts' = [carts EXCEPT ![s][i] = Wrap(@ - n)]
      /\ Decide(c, "ok")
      /\ UNCHANGED sold

Paid(c) ==
  LET s == request[c].session
  IN  /\ request[c].op = "order"
      /\ OrderCost(carts[s]) = request[c].amount
      /\ carts' = [carts EXCEPT ![s] = EmptyCart]
      /\ sold' = [i \in Items |-> Wrap(sold[i] + carts[s][i])]
      /\ Decide(c, "ok")
      /\ UNCHANGED stock

Unpaid(c) ==
  /\ request[c].op = "order"
  /\ OrderCost(carts[request[c].session]) # request[c].amount
  /\ Decide(c, "payment_failure")
  /\ UNCHANGED <<stock, carts, sold>>

Described(c) ==
  /\ request[c].op = "describe"
  /\ Decide(c, "ok")
  /\ UNCHANGED <<stock, carts, sold>>

LedgerNext ==
  \E c \in Calls :
    \/ Arrive(c)
    \/ Bought(c) \/ SoldOut(c) \/ PutBack(c)
    \/ Paid(c) \/ Unpaid(c) \/ Described(c)

LedgerSpec == LedgerInit /\ [][LedgerNext]_ledgerVars
=============================================================================
