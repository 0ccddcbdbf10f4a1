-------------------------------- MODULE Menu --------------------------------
(***************************************************************************)
(* The data the restaurant works on: the items an ItemHolder loads, the    *)
(* requests a client may make, and the size_t arithmetic of the code.      *)
(*                                                                         *)
(* An id that is in no JSON file is an item too: unordered_map::operator[] *)
(* inserts it with amount 0 and a default Item, whose cost is 0.           *)
(***************************************************************************)
EXTENDS Integers, FiniteSetsExt

CONSTANTS
  Items,          \* item ids
  Sessions,       \* session ids: they index vectors, so they are numbers
  Cost,           \* Item::cost of every item
  InitialAmount,  \* items_amount as the ItemHolder constructor leaves it
  Requests,       \* the requests clients may make
  Modulus         \* 2^64 in the build: size_t counts modulo this

Purchases == {"buy", "remove"}
Ops == Purchases \cup {"order", "describe"}

(* amount is itemCount for a purchase and order_sum for an order; the      *)
(* fields an operation does not use are there and ignored.                 *)
Request == [op: Ops, session: Sessions, item: Items, amount: 0 .. Modulus - 1]

(* Ids are of type size_t: there are finitely many, and a session's is any *)
(* number below the modulus.                                               *)
ASSUME MenuAssumption ==
  /\ IsFiniteSet(Items)
  /\ Modulus \in Nat \ {0}
  /\ Sessions \subseteq 0 .. Modulus - 1
  /\ Cost \in [Items -> 0 .. Modulus - 1]
  /\ InitialAmount \in [Items -> 0 .. Modulus - 1]
  /\ Requests \subseteq Request

SizeT == 0 .. Modulus - 1

(* Slip: amounts are signed, and wide enough not to wrap.                  *)
Wrap_Signed(n) == n

(* What size_t keeps of an integer: subtraction and addition wrap around.  *)
Wrap(n) == n % Modulus

EmptyCart == [i \in Items |-> 0]

(* Slip: every item in the cart is charged once, whatever its amount.      *)
OrderCost_OncePerItem(cart) ==
  Wrap(SumFunctionOnSet(Cost, {i \in Items : cart[i] > 0}))

(* What an order has to pay: the size_t sum of cost times amount.          *)
OrderCost(cart) ==
  Wrap(SumFunctionOnSet([i \in Items |-> Cost[i] * cart[i]],
                        {i \in Items : cart[i] > 0}))
=============================================================================
