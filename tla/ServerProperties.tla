-------------------------- MODULE ServerProperties --------------------------
(***************************************************************************)
(* What must hold of the service layer however its threads interleave.     *)
(***************************************************************************)
EXTENDS Server

(* The lengths the vectors can have; no scratch vectors have length 0.     *)
Sizes == {0, MaxUsers} \cup {NewSize(s) : s \in Sessions}

IsVector(v, Element) == \E n \in Sizes : v \in [Index(n) -> Element]

(* Every variable has its type.  That amounts stay in the range of size_t  *)
(* is what Wrap is for; that counters stay above zero without one is       *)
(* CountIsInFlight's to say, so here they are integers.                    *)
TypeOK ==
  /\ pc \in [Calls -> AllPcs]
  /\ request \in [Calls -> Requests]
  /\ reply \in [Calls -> Statuses]
  /\ stock \in [Items -> SizeT]
  /\ carts \in [Sessions -> [Items -> SizeT]]
  /\ sold \in [Items -> SizeT]
  /\ IsVector(allAtomicsCount, Int)
  /\ IsVector(allAtomicsBools, BOOLEAN)
  /\ IsVector(scratch.count, Int)
  /\ IsVector(scratch.bools, BOOLEAN)
  /\ bying_removing_mutex \in Calls \cup {NoCall}
  /\ exclusive \in Calls \cup {NoCall}
  /\ shared \in SUBSET Calls
  /\ mainQueue \in Seq(Calls)
  /\ orderQueue \in Seq(Calls)

(* A lock is held by exactly the calls that are between its lock and its   *)
(* unlock, and resize_atomics_mutex is never held in both ways at once:    *)
(* every early return of Buy, Remove and MakeOrder gives back what it took.*)
LockDiscipline ==
  /\ \A c \in Calls : pc[c] \in CriticalPcs <=> bying_removing_mutex = c
  /\ \A c \in Calls : pc[c] \in ExcludingPcs <=> exclusive = c
  /\ \A c \in Calls : pc[c] \in SharingPcs <=> c \in shared
  /\ exclusive # NoCall => shared = {}

(* The two vectors are never empty and always of one length.               *)
VectorsAgree ==
  \E n \in Sizes \ {0} :
    DOMAIN allAtomicsCount = Index(n) /\ DOMAIN allAtomicsBools = Index(n)

(* A call is only ever where its operation goes.                           *)
OpsAgree ==
  /\ \A c \in Calls :
       /\ pc[c] \in {"check", "copy", "thrown"} \cup StrayPcs => request[c].op # "describe"
       /\ pc[c] \in {"count", "start"} \cup CriticalPcs => IsPurchase(c)
       /\ pc[c] = "take" => request[c].op = "buy"
       /\ pc[c] = "describe" => request[c].op = "describe"
       /\ pc[c] \in OrderPcs => IsOrder(c)
  /\ \A k \in 1 .. Len(mainQueue) : ~IsOrder(mainQueue[k])
  /\ \A k \in 1 .. Len(orderQueue) : IsOrder(orderQueue[k])

(* CheckSessionIdSize has returned to the call, and the call uses or will  *)
(* use the elements of its session.                                        *)
Sized(c) ==
  /\ pc[c] \notin {"new", "check", "copy", "overrun", "thrown"}
  /\ request[c].op # "describe"

(* Is it before its first use of one of them?                              *)
Unindexed(c) ==
  IF IsPurchase(c) THEN pc[c] \in {"count", "astray"}
                   ELSE pc[c] \in {"post", "queued", "await", "wait", "astray"}

Wraps(c) == 2 * SessionOf(c) >= Modulus

(* The elements of the vectors a call uses exist from the moment           *)
(* CheckSessionIdSize has returned to it until the call is over, whatever  *)
(* other calls do to the vectors in between.  Only a session id whose      *)
(* double is no size_t, which nothing keeps from coming this far           *)
(* (RequestHandler.h:126, Server.cpp:129), may have none, and that no      *)
(* later than at its first use: nothing else leads to an access out of     *)
(* bounds.                                                                 *)
IndexInRange ==
  \A c \in Calls :
    /\ Sized(c) =>
         \/ SessionOf(c) \in DOMAIN allAtomicsCount \cap DOMAIN allAtomicsBools
         \/ Wraps(c) /\ Unindexed(c)
    /\ pc[c] \in StrayPcs => Wraps(c)

(* The copies CheckSessionIdSize is about to swap in still agree with the  *)
(* vectors: no increment, decrement or flag set by another thread since    *)
(* the copy is lost by the swap, and no other call has made the vectors    *)
(* longer in the meantime.                                                 *)
CopyIsFresh ==
  \A c \in Calls : pc[c] = "copy" =>
    /\ SessionOf(c) \notin DOMAIN allAtomicsBools
    /\ AllCopied(c)
    /\ scratch.count = Grown(allAtomicsCount, SessionOf(c), 0)
    /\ scratch.bools = Grown(allAtomicsBools, SessionOf(c), FALSE)

(* allAtomicsCount of a session is the number of its purchases that were   *)
(* called and not yet carried out: none is lost to a resize, counted twice *)
(* or forgotten.                                                           *)
CountIsInFlight ==
  \A s \in Sessions : s \in DOMAIN allAtomicsCount =>
    allAtomicsCount[s] = Cardinality(InFlight(s))

(* What Buy read from the stock is still true when it takes from it.       *)
StockCheckHolds == \A c \in Calls : pc[c] = "take" => InStock(c)

CarriedOut(s, labels) ==
  \E c \in Calls : IsPurchase(c) /\ SessionOf(c) = s /\ pc[c] \in labels

FlaggedWhenSettled(s) ==
  /\ CarriedOut(s, {"tested", "flag", "notify", "return", "done"})
  /\ InFlight(s) = {}
  => \/ s \in DOMAIN allAtomicsBools /\ allAtomicsBools[s]
     \/ CarriedOut(s, {"tested", "flag"})

(* Once a purchase of a session has been carried out and none is in        *)
(* flight, the session's flag is up or the thread that will raise it is on *)
(* its way: although -- and the test for zero are two accesses, no         *)
(* interleaving of purchases leaves the flag down for good.                *)
SettledIsFlagged == \A s \in Sessions : FlaggedWhenSettled(s)

(* No order sleeps on a flag that is up, unless a thread that raised it    *)
(* has yet to notify: however many orders of the session fall asleep, wake *)
(* and look again between the store and notify_all, none sleeps on.        *)
NoLostWakeup ==
  \A d \in Calls : pc[d] = "asleep" /\ allAtomicsBools[SessionOf(d)] =>
    \E c \in Calls : pc[c] = "notify" /\ SessionOf(c) = SessionOf(d)

(* A flag is up only if a purchase of its session has been carried out.    *)
FlagHasCause ==
  \A s \in Sessions : s \in DOMAIN allAtomicsBools /\ allAtomicsBools[s] =>
    CarriedOut(s, {"notify", "return", "done"})

(* No order is charged, and none leaves its wait, before a purchase of its *)
(* session has been carried out.                                           *)
OrderFollowsAPurchase ==
  \A d \in Calls : IsOrder(d) /\ pc[d] \in {"pay", "cook", "done"} =>
    CarriedOut(SessionOf(d), {"notify", "return", "done"})

Answered(c) ==
  \/ pc[c] = "done"
  \/ request[c].op = "buy" /\ pc[c] \in {"release", "tested", "flag", "notify", "return"}

(* A callback has been invoked exactly if its call has got past the place  *)
(* where its operation does so, and with a status of that operation.       *)
RepliesAgree ==
  \A c \in Calls :
    /\ reply[c] # "none" <=> Answered(c)
    /\ reply[c] = "internal_error" => request[c].op = "buy"
    /\ reply[c] = "payment_failure" => request[c].op = "order"

InCarts(i) == SumFunctionOnSet([s \in Sessions |-> carts[s][i]], Sessions)

(* Nothing is created or lost: of every item, what is in stock, in the     *)
(* carts and sold adds up, in the arithmetic of size_t, to what there was  *)
(* at first, even while removals and purchases overtake each other.        *)
ItemsConserved ==
  \A i \in Items :
    Wrap(stock[i] + InCarts(i) + sold[i]) = InitialAmount[i]

PaidOrders ==
  {c \in Calls : IsOrder(c) /\ (pc[c] = "cook" \/ reply[c] = "ok")}

(* The orders that were accepted paid for all that was sold, item by item  *)
(* and piece by piece, and for nothing else: two orders of one session     *)
(* never both pay for, or both take, the same cart.                        *)
SalesArePaid ==
  Wrap(SumFunctionOnSet([i \in Items |-> Cost[i] * sold[i]], Items))
    = Wrap(SumFunctionOnSet([c \in Calls |-> request[c].amount], PaidOrders))

-----------------------------------------------------------------------------
(* The service layer implements the ledger.                                *)

Outcome(c) ==
  IF pc[c] = "new" THEN "absent"
  ELSE IF reply[c] # "none" THEN reply[c]
  ELSE IF \/ pc[c] = "cook"
          \/ request[c].op = "remove" /\ pc[c] \in CriticalPcs \ {"body"}
       THEN "ok"
  ELSE "open"

Abstract == INSTANCE Ledger WITH outcome <- [c \in Calls |-> Outcome(c)]

(* Every call takes effect once, in one step between its arrival and its   *)
(* answer, and is answered with what that step decided: the threads, locks *)
(* and queues of Server show nothing a sequential ledger would not.        *)
RefinesLedger == Abstract!LedgerSpec

-----------------------------------------------------------------------------
(* Progress.                                                               *)

Called(c) == pc[c] # "new"

(* Every call that is made is answered.                                    *)
EveryCallAnswered == \A c \in Calls : Called(c) ~> reply[c] # "none"

PurchaseMade(s) ==
  CarriedOut(s, AllPcs \ ({"new", "check", "copy", "count", "thrown"} \cup StrayPcs))

(* No order is made for a session before a purchase of that session has    *)
(* been counted.                                                           *)
OrdersFollowPurchases ==
  \A d \in Calls : Called(d) /\ IsOrder(d) => PurchaseMade(SessionOf(d))

(* May the thread that has call c go on?  What it waits for depends on     *)
(* where it is; an order that sleeps only another thread can wake.         *)
CanStep(c) ==
  /\ Defined
  /\ pc[c] \notin {"new", "thrown", "done", "asleep"}
  /\ pc[c] = "check" => CanExclude
  /\ pc[c] \in {"count", "release", "await"} => CanShare
  /\ pc[c] \in {"start", "pay"} => MutexFree
  /\ pc[c] = "queued" =>
       \/ /\ mainQueue # <<>> /\ Head(mainQueue) = c
          /\ Cardinality(Busy(MainPcs)) < MainThreads
       \/ /\ orderQueue # <<>> /\ Head(orderQueue) = c
          /\ Cardinality(Busy(OrderPcs)) < OrderThreads

Unfinished(c) == pc[c] \notin {"new", "thrown", "done"}

Stuck ==
  /\ Defined
  /\ \E c \in Calls : Unfinished(c)
  /\ \A c \in Calls : ~CanStep(c)

(* Two locks, two queues and two pools, and nobody waits for them in a     *)
(* circle.  Calls are left that wait for ever only where an order sleeps   *)
(* for a session without a purchase; and with them hang only callers who   *)
(* need the lock that it holds, and orders that wait for its thread.  (Of  *)
(* locks that hold back readers for a writer the first half is all that    *)
(* can be said.)                                                           *)
StuckHasCause ==
  Stuck =>
    /\ \E d \in Calls : pc[d] = "asleep"
    /\ ~WriterPreferring =>
         \A c \in Calls : Unfinished(c) =>
           \/ pc[c] = "asleep" /\ ~PurchaseMade(SessionOf(c))
           \/ pc[c] = "check"
           \/ pc[c] = "queued" /\ IsOrder(c)

(* If clients order only what they have asked to buy, every call is        *)
(* answered, or was given an exception: no call of any session waits for   *)
(* ever for a lock, a pool thread or a flag, also when another one threw   *)
(* (nor after an access out of bounds, of which nothing is said).          *)
AnsweredIfOrdersFollow ==
  []OrdersFollowPurchases =>
    \A c \in Calls : Called(c) ~> reply[c] # "none" \/ pc[c] = "thrown" \/ ~Defined
=============================================================================
