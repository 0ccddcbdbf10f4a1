------------------------------ MODULE MCServer ------------------------------
(***************************************************************************)
(* Small instances of the service layer for TLC: calls made by independent *)
(* threads, with nothing to keep two callers apart.                        *)
(***************************************************************************)
EXTENDS ServerProperties, TLC

CONSTANTS burger, fries

MCItems == {burger, fries}
MCCost == burger :> 2 @@ fries :> 1
MCInitialAmount == burger :> 2 @@ fries :> 1

Buy(s, i, n)    == [op |-> "buy", session |-> s, item |-> i, amount |-> n]
Remove(s, i, n) == [op |-> "remove", session |-> s, item |-> i, amount |-> n]
Order(s, n)     == [op |-> "order", session |-> s, item |-> burger, amount |-> n]

(* Session 2 is the first that needs longer vectors, and session 3 needs   *)
(* more than memory has, unless session 2 has come before it; the stock    *)
(* holds two burgers, so two purchases can compete for the last one.       *)
(* Session 5 gets vectors of length 2, for 10 wraps around 8: too short    *)
(* for it, and after session 2 too short for what is in the old ones.      *)
MixedRequests ==
  {Buy(1, burger, 1), Buy(2, burger, 2), Buy(3, burger, 1),
   Buy(5, burger, 1), Remove(1, burger, 1), Order(1, 2), Order(2, 4)}

(* For progress: a session that makes the vectors longer, one that cannot, *)
(* one whose double wraps around, and a request that takes no lock.        *)
Description == [op |-> "describe", session |-> 1, item |-> burger, amount |-> 0]

ProgressRequests ==
  {Buy(1, burger, 1), Buy(2, burger, 2), Buy(3, burger, 1), Remove(1, burger, 1),
   Order(1, 2), Order(2, 4), Order(5, 1), Description}

CallSymmetry == Permutations(Calls)
=============================================================================
