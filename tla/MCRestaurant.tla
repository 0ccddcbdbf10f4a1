---------------------------- MODULE MCRestaurant ----------------------------
(***************************************************************************)
(* Small instances of the whole program.                                   *)
(***************************************************************************)
EXTENDS Restaurant, TLC

CONSTANT burger

MCItems == {burger}
MCCost == burger :> 2
MCInitialAmount == burger :> 1

R(op, s, n) == [op |-> op, session |-> s, item |-> burger, amount |-> n]

X(method, target, body, r) ==
  [message |-> [method |-> method, target |-> target, body |-> body], request |-> r]

(* Session 2 needs longer vectors, and session 3 such as there is no       *)
(* memory for.  Session 5 gets too short ones, for 10 wraps around 8.  The *)
(* stock holds one burger.                                                 *)
BuyOne      == X("post", "buy", "good", R("buy", 1, 1))
BuyElsewhere == X("post", "buy", "good", R("buy", 2, 1))
BuyTooFar   == X("post", "buy", "good", R("buy", 3, 1))
BuyBeyond   == X("post", "buy", "good", R("buy", 5, 1))
PutBackOne  == X("delete", "remove", "good", R("remove", 1, 1))
OrderOne    == X("post", "make_order", "good", R("order", 1, 2))
OrderFree   == X("post", "make_order", "good", R("order", 1, 0))
Describe1   == X("get", "get_description", "good", R("describe", 1, 0))
NoSuch      == X("post", "elsewhere", "good", R("describe", 1, 0))
Mistyped    == X("delete", "remove", "mistyped", R("remove", 1, 1))
Lacking     == X("post", "buy", "lacking", R("buy", 1, 0))
Malformed   == X("post", "buy", "malformed", R("buy", 1, 0))

AllExchanges ==
  {BuyOne, BuyElsewhere, BuyTooFar, BuyBeyond, PutBackOne, OrderOne, OrderFree, Describe1, NoSuch,
   Mistyped, Lacking, Malformed}

ProgressExchanges ==
  {BuyOne, BuyElsewhere, BuyTooFar, BuyBeyond, PutBackOne, OrderOne, OrderFree, Describe1, NoSuch}

MCRequests == {e.request : e \in AllExchanges}

CallSymmetry == Permutations(Calls)
=============================================================================
