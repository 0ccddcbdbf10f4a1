------------------------------- MODULE Server -------------------------------
(***************************************************************************)
(* The service layer: class Server, its two thread pools and its two       *)
(* locks.  A call runs in the thread of its caller until its task is       *)
(* posted to a pool, and in a thread of that pool from then on; pc[c] says *)
(* where call c has got to:                                                *)
(*                                                                         *)
(*   caller    new -> check [-> copy] [-> count] -> post, or check ->      *)
(*               thrown, check -> overrun, count -> astray                 *)
(*   Buy       queued -> start -> body [-> take] -> release -> tested      *)
(*               [-> flag -> notify] -> return -> done                     *)
(*   Remove    the same, without take                                      *)
(*   MakeOrder queued -> await -> wait [<-> asleep] -> pay [-> cook]       *)
(*               -> done, or wait -> astray                                *)
(*   GetAllItemDescription   post -> queued -> describe -> done            *)
(*                                                                         *)
(* The steps are as fine as the code's accesses to what threads share: the *)
(* two vectors of atomics, the two locks, stock and carts, the queues.     *)
(*                                                                         *)
(* A call at overrun or astray has accessed a vector outside its bounds.   *)
(* What the program does from then on is undefined, and nothing is said of *)
(* it: no step follows.                                                    *)
(*                                                                         *)
(* A definition named X_Something stands for X with a slip in it; no       *)
(* specification uses it.  Each is what a property of ServerProperties is  *)
(* tried against, to see that the property would notice.                   *)
(***************************************************************************)
EXTENDS Menu, Sequences

CONSTANTS
  Calls,              \* the calls that may be made, each at most once
  NoCall,             \* what a lock nobody holds is held by
  MaxUsers,           \* the length of the two vectors at construction
  MaxElements,        \* the longest vectors that memory is enough for
  MainThreads,        \* threads of mainThreadPool
  OrderThreads,       \* threads of makeOrderThreadPool
  WriterPreferring    \* does a waiting writer hold back new readers of a
                      \* std::shared_mutex?  FALSE in glibc's default rwlock

ASSUME ServerAssumption ==
  /\ IsFiniteSet(Calls)
  /\ NoCall \notin Calls
  /\ MaxUsers \in Nat \ {0}
  /\ MaxElements \in Nat
  /\ MainThreads \in Nat \ {0}
  /\ OrderThreads \in Nat \ {0}
  /\ WriterPreferring \in BOOLEAN

VARIABLES
  pc,                 \* where each call has got to
  request,            \* what each call asks for
  reply,              \* the status each call's callback was given, or "none"
  stock,              \* itemHolder->GetItemsAmount()
  carts,              \* boughtItems
  sold,               \* history: what paid orders took out of the carts
  allAtomicsCount,    \* per session: purchases called and not yet carried out
  allAtomicsBools,    \* per session: has that count ever come back to 0?
  scratch,            \* the two vectors CheckSessionIdSize is filling
  bying_removing_mutex,   \* the call that holds the mutex, or NoCall
  exclusive,          \* the call that holds resize_atomics_mutex exclusively
  shared,             \* the calls that hold resize_atomics_mutex shared
  mainQueue,          \* tasks posted to mainThreadPool and not yet started
  orderQueue          \* tasks posted to makeOrderThreadPool, likewise

goods   == <<stock, carts, sold>>
atomics == <<allAtomicsCount, allAtomicsBools>>
locks   == <<bying_removing_mutex, exclusive, shared>>
queues  == <<mainQueue, orderQueue>>
vars    == <<pc, request, reply, goods, atomics, scratch, locks, queues>>

-----------------------------------------------------------------------------
(* Calls, their arguments and the pools they use.                          *)

IsPurchase(c) == request[c].op \in Purchases
IsOrder(c)    == request[c].op = "order"
SessionOf(c)  == request[c].session

CallerPcs   == {"check", "copy", "count", "post"}
StrayPcs    == {"overrun", "astray"}
CriticalPcs == {"body", "take", "release", "tested", "flag", "notify", "return"}
OrderPcs    == {"await", "wait", "asleep", "pay", "cook"}
SharingPcs  == {"tested", "flag", "notify", "return", "wait", "asleep", "astray"}
ExcludingPcs == {"copy", "overrun"}
MainPcs     == {"start", "describe"} \cup CriticalPcs
AllPcs      == {"new", "thrown", "queued", "done"}
                 \cup CallerPcs \cup StrayPcs \cup MainPcs \cup OrderPcs

Statuses == {"none", "ok", "internal_error", "payment_failure"}

(* A purchase counts in allAtomicsCount from its increment in the caller's *)
(* thread to its decrement in the pool's.                                  *)
InFlightPcs == {"post", "queued", "start", "body", "take", "release"}

InFlight(s) ==
  {c \in Calls : IsPurchase(c) /\ SessionOf(c) = s /\ pc[c] \in InFlightPcs}

Index(n) == 0 .. n - 1

(* No access has been out of bounds: the code says what happens next.      *)
Defined == \A c \in Calls : pc[c] \notin StrayPcs

(* Call c, which is at one label, goes to another.                         *)
Goto(c, from, to) == pc[c] = from /\ Defined /\ pc' = [pc EXCEPT ![c] = to]

Answer(c, status) == reply' = [reply EXCEPT ![c] = status]

Init ==
  /\ pc = [c \in Calls |-> "new"]
  /\ request \in [Calls -> Requests]
  /\ reply = [c \in Calls |-> "none"]
  /\ stock = InitialAmount
  /\ carts = [s \in Sessions |-> EmptyCart]
  /\ sold = [i \in Items |-> 0]
  /\ allAtomicsCount = [i \in Index(MaxUsers) |-> 0]
  /\ allAtomicsBools = [i \in Index(MaxUsers) |-> FALSE]
  /\ scratch = [count |-> <<>>, bools |-> <<>>]
  /\ bying_removing_mutex = NoCall
  /\ exclusive = NoCall
  /\ shared = {}
  /\ mainQueue = <<>>
  /\ orderQueue = <<>>

-----------------------------------------------------------------------------
(* The two locks.                                                          *)

(* Slip: the mutex is forgotten.                                           *)
MutexFree_Always == TRUE

MutexFree == bying_removing_mutex = NoCall

(* Slip: the shared lock is forgotten.                                     *)
CanShare_Always == TRUE

(* Slip: nothing but the order of the calls keeps a purchase that is about *)
(* to count down from standing behind a resize that waits for an order.    *)
CanShare_WriterFirst ==
  /\ exclusive = NoCall
  /\ \A d \in Calls : pc[d] # "check"

(* May resize_atomics_mutex be locked shared?  And exclusively?            *)
CanShare ==
  /\ exclusive = NoCall
  /\ WriterPreferring => \A d \in Calls : pc[d] # "check"

CanExclude == exclusive = NoCall /\ shared = {}

(* Slip: the lock is kept.                                                 *)
Unshare_Not(c) == UNCHANGED shared

Unshare(c) == shared' = shared \ {c}

-----------------------------------------------------------------------------
(* In the caller's thread.                                                 *)

Invoke(c) ==
  /\ Goto(c, "new", IF request[c].op = "describe" THEN "post" ELSE "check")
  /\ UNCHANGED <<request, reply, goods, atomics, scratch, locks, queues>>

AfterCheck(c) == IF IsPurchase(c) THEN "count" ELSE "post"

(* Slip: > for >= in the comparison with the size.                         *)
Fits_OffByOne(c) == SessionOf(c) <= Cardinality(DOMAIN allAtomicsBools)

(* sessionId < size().                                                     *)
Fits(c) == SessionOf(c) \in DOMAIN allAtomicsBools

(* CheckSessionIdSize when the vectors are long enough: the lock is taken  *)
(* and given back with nothing written.                                    *)
CheckFits(c) ==
  /\ Goto(c, "check", AfterCheck(c))
  /\ CanExclude /\ Fits(c)
  /\ UNCHANGED <<request, reply, goods, atomics, scratch, locks, queues>>

(* sessionId * 2 in size_t: from half the modulus on it is no longer than  *)
(* the id itself.                                                          *)
NewSize(s) == Wrap(2 * s)

CanAllocate(c) == NewSize(SessionOf(c)) <= MaxElements

(* The new vectors do not fit into memory: the lock goes, and the caller   *)
(* gets an exception instead of a future.                                  *)
AllocationThrows(c) ==
  /\ Goto(c, "check", "thrown")
  /\ CanExclude /\ ~Fits(c) /\ ~CanAllocate(c)
  /\ UNCHANGED <<request, reply, goods, atomics, scratch, locks, queues>>

(* Slip: the old elements are not copied.                                  *)
Grown_Empty(vector, s, zero) == [i \in Index(NewSize(s)) |-> zero]

(* The new vectors: the old elements, then value-initialised ones.         *)
Grown(vector, s, zero) ==
  [i \in Index(NewSize(s)) |-> IF i \in DOMAIN vector THEN vector[i] ELSE zero]

(* Have all the old elements a place in the new vectors?                   *)
AllCopied(c) == DOMAIN allAtomicsBools \subseteq Index(NewSize(SessionOf(c)))

CopyVectors(c) ==
  /\ Goto(c, "check", "copy")
  /\ CanExclude /\ ~Fits(c) /\ CanAllocate(c) /\ AllCopied(c)
  /\ exclusive' = c
  /\ scratch' = [count |-> Grown(allAtomicsCount, SessionOf(c), 0),
                 bools |-> Grown(allAtomicsBools, SessionOf(c), FALSE)]
  /\ UNCHANGED <<request, reply, goods, atomics, bying_removing_mutex, shared, queues>>

(* The new vectors are shorter than the old ones, and the loop that copies *)
(* goes on past their end.                                                 *)
CopyOverruns(c) ==
  /\ Goto(c, "check", "overrun")
  /\ CanExclude /\ ~Fits(c) /\ CanAllocate(c) /\ ~AllCopied(c)
  /\ exclusive' = c
  /\ UNCHANGED <<request, reply, goods, atomics, scratch, bying_removing_mutex,
                 shared, queues>>

SwapVectors(c) ==
  /\ Goto(c, "copy", AfterCheck(c))
  /\ allAtomicsCount' = scratch.count
  /\ allAtomicsBools' = scratch.bools
  /\ scratch' = [count |-> <<>>, bools |-> <<>>]
  /\ exclusive' = NoCall
  /\ UNCHANGED <<request, reply, goods, bying_removing_mutex, shared, queues>>

(* Has the vector the element that operator[] of it is asked for?          *)
InRange(vector, c) == SessionOf(c) \in DOMAIN vector

(* lock_shared, ++ and unlock_shared of the caller: one step, for nothing  *)
(* else happens under that lock.                                           *)
CountUp(c) ==
  /\ Goto(c, "count", "post")
  /\ CanShare /\ InRange(allAtomicsCount, c)
  /\ allAtomicsCount' = [allAtomicsCount EXCEPT ![SessionOf(c)] = @ + 1]
  /\ UNCHANGED <<request, reply, goods, allAtomicsBools, scratch, locks, queues>>

(* ++ of an element that CheckSessionIdSize has not made.                  *)
CountAstray(c) ==
  /\ Goto(c, "count", "astray")
  /\ CanShare /\ ~InRange(allAtomicsCount, c)
  /\ shared' = shared \cup {c}
  /\ UNCHANGED <<request, reply, goods, atomics, scratch,
                 bying_removing_mutex, exclusive, queues>>

Post(c) ==
  /\ Goto(c, "post", "queued")
  /\ IF IsOrder(c)
     THEN orderQueue' = Append(orderQueue, c) /\ UNCHANGED mainQueue
     ELSE mainQueue' = Append(mainQueue, c) /\ UNCHANGED orderQueue
  /\ UNCHANGED <<request, reply, goods, atomics, scratch, locks>>

-----------------------------------------------------------------------------
(* In a thread of mainThreadPool.                                          *)

Busy(labels) == {c \in Calls : pc[c] \in labels}

StartMain(c) ==
  /\ Goto(c, "queued", IF IsPurchase(c) THEN "start" ELSE "describe")
  /\ mainQueue # <<>> /\ Head(mainQueue) = c
  /\ Cardinality(Busy(MainPcs)) < MainThreads
  /\ mainQueue' = Tail(mainQueue)
  /\ UNCHANGED <<request, reply, goods, atomics, scratch, locks, orderQueue>>

Describe(c) ==
  /\ Goto(c, "describe", "done")
  /\ Answer(c, "ok")
  /\ UNCHANGED <<request, goods, atomics, scratch, locks, queues>>

LockMutex(c) ==
  /\ Goto(c, "start", "body")
  /\ MutexFree
  /\ bying_removing_mutex' = c
  /\ UNCHANGED <<request, reply, goods, atomics, scratch, exclusive, shared, queues>>

InStock(c) == stock[request[c].item] >= request[c].amount

(* Buy reads the stock ...                                                 *)
BuyTest(c) ==
  /\ Goto(c, "body", "take")
  /\ request[c].op = "buy"
  /\ InStock(c)
  /\ UNCHANGED <<request, reply, goods, atomics, scratch, locks, queues>>

BuyRefuse(c) ==
  /\ Goto(c, "body", "release")
  /\ request[c].op = "buy"
  /\ ~InStock(c)
  /\ Answer(c, "internal_error")
  /\ UNCHANGED <<request, goods, atomics, scratch, locks, queues>>

(* ... and takes from it, relying on what it read.                         *)
BuyTake(c) ==
  LET s == SessionOf(c)  i == request[c].item  n == request[c].amount
  IN  /\ Goto(c, "take", "release")
      /\ stock' = [stock EXCEPT ![i] = Wrap(@ - n)]
      /\ carts' = [carts EXCEPT ![s][i] = Wrap(@ + n)]
      /\ Answer(c, "ok")
      /\ UNCHANGED <<request, sold, atomics, scratch, locks, queues>>

(* Slip: the cart stops at 0 while the stock takes all that is put back.   *)
TakenOut_Clamped(amount, n) == IF amount >= n THEN amount - n ELSE 0

(* What a removal leaves of an amount in the cart, whatever that was.      *)
TakenOut(amount, n) == Wrap(amount - n)

(* Remove asks nothing: neither the cart's amount nor the stock's limits.  *)
RemoveItems(c) ==
  LET s == SessionOf(c)  i == request[c].item  n == request[c].amount
  IN  /\ Goto(c, "body", "release")
      /\ request[c].op = "remove"
      /\ stock' = [stock EXCEPT ![i] = Wrap(@ + n)]
      /\ carts' = [carts EXCEPT ![s][i] = TakenOut(@, n)]
      /\ UNCHANGED <<request, reply, sold, atomics, scratch, locks, queues>>

CountDown(c) ==
  /\ Goto(c, "release", "tested")
  /\ CanShare
  /\ shared' = shared \cup {c}
  /\ allAtomicsCount' = [allAtomicsCount EXCEPT ![SessionOf(c)] = @ - 1]
  /\ UNCHANGED <<request, reply, goods, allAtomicsBools, scratch,
                 bying_removing_mutex, exclusive, queues>>

(* Slip: the test is for the last purchase but one.                        *)
CountsZero_OffByOne(c) == allAtomicsCount[SessionOf(c)] = 1

CountsZero(c) == allAtomicsCount[SessionOf(c)] = 0

(* The decrement and this load are two atomic accesses, not one.           *)
TestZero(c) ==
  /\ Goto(c, "tested", IF CountsZero(c) THEN "flag" ELSE "return")
  /\ UNCHANGED <<request, reply, goods, atomics, scratch, locks, queues>>

SetFlag(c) ==
  /\ Goto(c, "flag", "notify")
  /\ allAtomicsBools' = [allAtomicsBools EXCEPT ![SessionOf(c)] = TRUE]
  /\ UNCHANGED <<request, reply, goods, allAtomicsCount, scratch, locks, queues>>

(* Slip: notify_one.                                                       *)
Woken_One(s) ==
  LET asleep == {d \in Calls : pc[d] = "asleep" /\ SessionOf(d) = s}
  IN  IF asleep = {} THEN {} ELSE {CHOOSE d \in asleep : TRUE}

(* Whom notify_all wakes.                                                  *)
Woken(s) == {d \in Calls : pc[d] = "asleep" /\ SessionOf(d) = s}

NotifyAll(c) ==
  /\ pc[c] = "notify" /\ Defined
  /\ pc' = [d \in Calls |-> IF d = c THEN "return"
                            ELSE IF d \in Woken(SessionOf(c)) THEN "wait"
                            ELSE pc[d]]
  /\ UNCHANGED <<request, reply, goods, atomics, scratch, locks, queues>>

(* The locks go when the task returns; Remove's callback runs before that, *)
(* Buy's has run already.                                                  *)
ReturnTask(c) ==
  /\ Goto(c, "return", "done")
  /\ IF request[c].op = "remove" THEN Answer(c, "ok") ELSE UNCHANGED reply
  /\ Unshare(c)
  /\ bying_removing_mutex' = NoCall
  /\ UNCHANGED <<request, goods, atomics, scratch, exclusive, queues>>

-----------------------------------------------------------------------------
(* In a thread of makeOrderThreadPool.                                     *)

StartOrder(c) ==
  /\ Goto(c, "queued", "await")
  /\ orderQueue # <<>> /\ Head(orderQueue) = c
  /\ Cardinality(Busy(OrderPcs)) < OrderThreads
  /\ orderQueue' = Tail(orderQueue)
  /\ UNCHANGED <<request, reply, goods, atomics, scratch, locks, mainQueue>>

(* From here to the end of atomic::wait the order holds the lock shared.   *)
ShareForWait(c) ==
  /\ Goto(c, "await", "wait")
  /\ CanShare
  /\ shared' = shared \cup {c}
  /\ UNCHANGED <<request, reply, goods, atomics, scratch,
                 bying_removing_mutex, exclusive, queues>>

(* Slip: wait(true), which lets an order pass while the flag is down.      *)
Awaited_Inverted(c) == ~allAtomicsBools[SessionOf(c)]

Awaited(c) == allAtomicsBools[SessionOf(c)]

(* atomic::wait(false): comparing and falling asleep are one step.         *)
FallAsleep(c) ==
  /\ Goto(c, "wait", "asleep")
  /\ InRange(allAtomicsBools, c) /\ ~Awaited(c)
  /\ UNCHANGED <<request, reply, goods, atomics, scratch, locks, queues>>

PassWait(c) ==
  /\ Goto(c, "wait", "pay")
  /\ InRange(allAtomicsBools, c) /\ Awaited(c)
  /\ Unshare(c)
  /\ UNCHANGED <<request, reply, goods, atomics, scratch,
                 bying_removing_mutex, exclusive, queues>>

(* wait on an element that CheckSessionIdSize has not made.                *)
WaitAstray(c) ==
  /\ Goto(c, "wait", "astray")
  /\ ~InRange(allAtomicsBools, c)
  /\ UNCHANGED <<request, reply, goods, atomics, scratch, locks, queues>>

CheckOrderCost(c) == OrderCost(carts[SessionOf(c)]) = request[c].amount

(* The critical section of an order is one step: it touches nothing but    *)
(* the carts, and bying_removing_mutex is free before and after.           *)
PayRefuse(c) ==
  /\ Goto(c, "pay", "done")
  /\ MutexFree
  /\ ~CheckOrderCost(c)
  /\ Answer(c, "payment_failure")
  /\ UNCHANGED <<request, goods, atomics, scratch, locks, queues>>

(* Slip: the cart is not erased.                                           *)
Erased_Not(s) == carts

Erased(s) == [carts EXCEPT ![s] = EmptyCart]

Pay(c) ==
  LET s == SessionOf(c)
  IN  /\ Goto(c, "pay", "cook")
      /\ MutexFree
      /\ CheckOrderCost(c)
      /\ carts' = Erased(s)
      /\ sold' = [i \in Items |-> Wrap(sold[i] + carts[s][i])]
      /\ UNCHANGED <<request, reply, stock, atomics, scratch, locks, queues>>

(* KitchenWorker::MakeProduct sleeps for as long as it takes, unlocked.    *)
Cook(c) ==
  /\ Goto(c, "cook", "done")
  /\ Answer(c, "ok")
  /\ UNCHANGED <<request, goods, atomics, scratch, locks, queues>>

-----------------------------------------------------------------------------
PurchaseStep(c) ==
  \/ LockMutex(c) \/ BuyTest(c) \/ BuyRefuse(c) \/ BuyTake(c) \/ RemoveItems(c)
  \/ CountDown(c) \/ TestZero(c) \/ SetFlag(c) \/ NotifyAll(c) \/ ReturnTask(c)

OrderStep(c) ==
  \/ StartOrder(c) \/ ShareForWait(c) \/ FallAsleep(c) \/ PassWait(c)
  \/ WaitAstray(c) \/ PayRefuse(c) \/ Pay(c) \/ Cook(c)

CallerStep(c) ==
  \/ CheckFits(c) \/ AllocationThrows(c) \/ CopyVectors(c) \/ CopyOverruns(c)
  \/ SwapVectors(c) \/ CountUp(c) \/ CountAstray(c) \/ Post(c)

(* Everything a thread does once a call has been made.                     *)
ThreadStep(c) ==
  CallerStep(c) \/ StartMain(c) \/ Describe(c) \/ PurchaseStep(c) \/ OrderStep(c)

Next == \E c \in Calls : Invoke(c) \/ ThreadStep(c)

Spec == Init /\ [][Next]_vars

(* The threads of the pools and of the callers are scheduled; whether a    *)
(* call is ever made is up to the clients.                                 *)
FairSpec == Spec /\ \A c \in Calls : WF_vars(ThreadStep(c))
=============================================================================
