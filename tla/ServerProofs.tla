---------------------------- MODULE ServerProofs ----------------------------
(***************************************************************************)
(* Theorems about the service layer, for any number of calls, sessions,    *)
(* items and threads.  The invariants are proved one after the other; each *)
(* may use those before it.                                                *)
(***************************************************************************)
EXTENDS ServerProperties, FiniteSetTheorems, TLAPS

(* The arithmetic of size_t stays in its range.                            *)
LEMMA WrapType == \A n \in Int : Wrap(n) \in SizeT
  BY MenuAssumption DEF Wrap, SizeT

(* A request's fields have the types that Menu gives them.                 *)
LEMMA RequestType ==
  ASSUME NEW r \in Requests
  PROVE  /\ r.op \in Ops
         /\ r.session \in Sessions /\ r.session \in Nat
         /\ r.item \in Items
         /\ r.amount \in SizeT
<1>1. r \in Request
  BY MenuAssumption
<1>2. r.session \in 0 .. Modulus - 1
  BY <1>1, MenuAssumption DEF Request
<1> QED
  BY <1>1, <1>2, MenuAssumption DEF Request, SizeT

(* What a call asks for stays as it is.                                    *)
LEMMA RequestsStay == [Next]_vars => request' = request
<1>1. ASSUME UNCHANGED vars PROVE request' = request
  BY <1>1 DEF vars
<1>2. ASSUME NEW c \in Calls, Invoke(c) \/ CallerStep(c) PROVE request' = request
  BY <1>2 DEF Invoke, CallerStep, CheckFits, AllocationThrows, CopyVectors, CopyOverruns, SwapVectors, CountUp, CountAstray, Post
<1>3. ASSUME NEW c \in Calls, StartMain(c) \/ Describe(c) \/ OrderStep(c)
      PROVE  request' = request
  BY <1>3 DEF StartMain, Describe, OrderStep, StartOrder, ShareForWait, FallAsleep,
     PassWait, WaitAstray, PayRefuse, Pay, Cook
<1>4. ASSUME NEW c \in Calls, PurchaseStep(c) PROVE request' = request
  BY <1>4 DEF PurchaseStep, LockMutex, BuyTest, BuyRefuse, BuyTake, RemoveItems,
     CountDown, TestZero, SetFlag, NotifyAll, ReturnTask
<1> QED BY <1>1, <1>2, <1>3, <1>4 DEF Next, ThreadStep

(* A vector stays one when it grows for a session, and when one of its     *)
(* counters moves.                                                         *)
LEMMA GrownType ==
  ASSUME NEW s \in Sessions
  PROVE  /\ \A v : IsVector(v, Int) => IsVector(Grown(v, s, 0), Int)
         /\ \A v : IsVector(v, BOOLEAN) => IsVector(Grown(v, s, FALSE), BOOLEAN)
<1>1. NewSize(s) \in Sizes
  BY DEF Sizes
<1>2. ASSUME NEW v, IsVector(v, Int)
      PROVE  Grown(v, s, 0) \in [Index(NewSize(s)) -> Int]
  BY <1>2 DEF IsVector, Grown
<1>3. ASSUME NEW v, IsVector(v, BOOLEAN)
      PROVE  Grown(v, s, FALSE) \in [Index(NewSize(s)) -> BOOLEAN]
  BY <1>3 DEF IsVector, Grown
<1> QED
  BY <1>1, <1>2, <1>3 DEF IsVector

LEMMA CounterMoves ==
  ASSUME NEW v, IsVector(v, Int), NEW k
  PROVE  /\ IsVector([v EXCEPT ![k] = @ + 1], Int)
         /\ IsVector([v EXCEPT ![k] = @ - 1], Int)
<1>1. PICK n \in Sizes : v \in [Index(n) -> Int]
  BY DEF IsVector
<1>2. k \in Index(n) => v[k] + 1 \in Int /\ v[k] - 1 \in Int
  BY <1>1
<1>3. /\ [v EXCEPT ![k] = @ + 1] \in [Index(n) -> Int]
      /\ [v EXCEPT ![k] = @ - 1] \in [Index(n) -> Int]
  BY <1>1, <1>2
<1> QED
  BY <1>3 DEF IsVector

(* The empty scratch vectors are vectors.                                  *)
LEMMA EmptyVector == \A S : IsVector(<<>>, S)
<1>1. \A S : <<>> \in [Index(0) -> S]
  BY DEF Index
<1> QED
  BY <1>1 DEF IsVector, Sizes

-----------------------------------------------------------------------------
(* Type correctness.  In the initial state every variable has its type.    *)
LEMMA TypeInit == Init => TypeOK
<1> SUFFICES ASSUME Init PROVE TypeOK
  OBVIOUS
<1>1. /\ pc \in [Calls -> AllPcs]
      /\ request \in [Calls -> Requests]
      /\ reply \in [Calls -> Statuses]
  BY DEF Init, AllPcs, Statuses
<1>2. /\ stock \in [Items -> SizeT]
      /\ carts \in [Sessions -> [Items -> SizeT]]
      /\ sold \in [Items -> SizeT]
  BY MenuAssumption DEF Init, SizeT, EmptyCart
<1>3. /\ IsVector(allAtomicsCount, Int)
      /\ IsVector(allAtomicsBools, BOOLEAN)
<2>1. MaxUsers \in Sizes
  BY DEF Sizes
<2>2. /\ allAtomicsCount \in [Index(MaxUsers) -> Int]
      /\ allAtomicsBools \in [Index(MaxUsers) -> BOOLEAN]
  BY DEF Init
<2> QED
  BY <2>1, <2>2 DEF IsVector
<1>4. /\ IsVector(scratch.count, Int)
      /\ IsVector(scratch.bools, BOOLEAN)
<2>1. scratch = [count |-> <<>>, bools |-> <<>>]
  BY DEF Init
<2> QED
  BY <2>1, EmptyVector
<1>5. /\ bying_removing_mutex \in Calls \cup {NoCall}
      /\ exclusive \in Calls \cup {NoCall}
      /\ shared \in SUBSET Calls
      /\ mainQueue \in Seq(Calls)
      /\ orderQueue \in Seq(Calls)
  BY DEF Init
<1> QED
  BY <1>1, <1>2, <1>3, <1>4, <1>5 DEF TypeOK

(* Every step keeps every type.                                            *)
LEMMA TypeStep == TypeOK /\ [Next]_vars => TypeOK'
<1> SUFFICES ASSUME TypeOK, [Next]_vars PROVE TypeOK'
  OBVIOUS
<1> USE DEF TypeOK
<1>1. CASE UNCHANGED vars
  BY <1>1 DEF vars, goods, atomics, locks, queues
<1>2. CASE Next
  <2> PICK c \in Calls : Invoke(c) \/ ThreadStep(c)
    BY <1>2 DEF Next
  <2> USE DEF Goto, Answer, Unshare, goods, atomics, locks, queues, AllPcs, CallerPcs,
              StrayPcs, CriticalPcs, MainPcs, OrderPcs, Statuses
  <2> DEFINE s == SessionOf(c)
  <2>1. /\ s \in Sessions
        /\ request[c].item \in Items
        /\ request[c].amount \in Int
    BY RequestType DEF SessionOf, SizeT
  <2>2. CASE Invoke(c)
    BY <2>2 DEF Invoke
  <2>3. CASE CheckFits(c) \/ AllocationThrows(c)
    BY <2>3 DEF CheckFits, AllocationThrows, AfterCheck
  <2>4. CASE CopyVectors(c)
    <3>1. /\ IsVector(scratch'.count, Int)
          /\ IsVector(scratch'.bools, BOOLEAN)
      <4>1. /\ IsVector(Grown(allAtomicsCount, s, 0), Int)
            /\ IsVector(Grown(allAtomicsBools, s, FALSE), BOOLEAN)
        BY <2>1, GrownType
      <4> QED
        BY <2>4, <4>1 DEF CopyVectors
    <3> QED
      BY <2>4, <3>1 DEF CopyVectors
  <2>24. CASE CopyOverruns(c) \/ CountAstray(c)
    BY <2>24 DEF CopyOverruns, CountAstray
  <2>5. CASE SwapVectors(c)
    <3>1. /\ IsVector(scratch'.count, Int)
          /\ IsVector(scratch'.bools, BOOLEAN)
      BY <2>5, EmptyVector DEF SwapVectors
    <3> QED
      BY <2>5, <3>1 DEF SwapVectors, AfterCheck
  <2>6. CASE CountUp(c)
    <3>1. IsVector(allAtomicsCount', Int)
      BY <2>6, CounterMoves DEF CountUp
    <3> QED
      BY <2>6, <3>1 DEF CountUp
  <2>7. CASE Post(c)
    <3>1. Append(mainQueue, c) \in Seq(Calls) /\ Append(orderQueue, c) \in Seq(Calls)
      OBVIOUS
    <3> QED
      BY <2>7, <3>1 DEF Post
  <2>8. CASE StartMain(c)
    <3>1. mainQueue' \in Seq(Calls)
      BY <2>8 DEF StartMain
    <3>2. pc' \in [Calls -> AllPcs]
      BY <2>8 DEF StartMain
    <3> QED
      BY <2>8, <3>1, <3>2 DEF StartMain
  <2>9. CASE Describe(c)
    BY <2>9 DEF Describe
  <2>10. CASE LockMutex(c)
    BY <2>10 DEF LockMutex
  <2>11. CASE BuyTest(c) \/ BuyRefuse(c)
    BY <2>11 DEF BuyTest, BuyRefuse
  <2>12. CASE BuyTake(c)
    <3> DEFINE i == request[c].item
               n == request[c].amount
    <3>1. /\ Wrap(stock[i] - n) \in SizeT
          /\ Wrap(carts[s][i] + n) \in SizeT
      <4>1. stock[i] \in Int /\ carts[s][i] \in Int
        BY <2>1 DEF SizeT
      <4> QED
        BY <2>1, <4>1, WrapType
    <3>2. stock' = [stock EXCEPT ![i] = Wrap(stock[i] - n)]
      BY <2>12 DEF BuyTake
    <3>3. carts' = [carts EXCEPT ![s][i] = Wrap(carts[s][i] + n)]
      BY <2>12 DEF BuyTake
    <3>4. /\ stock' \in [Items -> SizeT]
          /\ carts' \in [Sessions -> [Items -> SizeT]]
      BY <3>1, <3>2, <3>3
    <3> QED
      BY <2>12, <3>4 DEF BuyTake
  <2>13. CASE RemoveItems(c)
    <3> DEFINE i == request[c].item
               n == request[c].amount
    <3>1. /\ Wrap(stock[i] + n) \in SizeT
          /\ Wrap(carts[s][i] - n) \in SizeT
      <4>1. stock[i] \in Int /\ carts[s][i] \in Int
        BY <2>1 DEF SizeT
      <4> QED
        BY <2>1, <4>1, WrapType
    <3>2. stock' = [stock EXCEPT ![i] = Wrap(stock[i] + n)]
      BY <2>13 DEF RemoveItems
    <3>3. carts' = [carts EXCEPT ![s][i] = Wrap(carts[s][i] - n)]
      BY <2>13 DEF RemoveItems, TakenOut
    <3>4. /\ stock' \in [Items -> SizeT]
          /\ carts' \in [Sessions -> [Items -> SizeT]]
      BY <3>1, <3>2, <3>3
    <3> QED
      BY <2>13, <3>4 DEF RemoveItems
  <2>14. CASE CountDown(c)
    <3>1. IsVector(allAtomicsCount', Int)
      BY <2>14, CounterMoves DEF CountDown
    <3> QED
      BY <2>14, <3>1 DEF CountDown
  <2>15. CASE TestZero(c)
    BY <2>15 DEF TestZero
  <2>16. CASE SetFlag(c)
    <3>1. IsVector(allAtomicsBools', BOOLEAN)
      BY <2>16 DEF SetFlag, IsVector
    <3> QED
      BY <2>16, <3>1 DEF SetFlag
  <2>17. CASE NotifyAll(c)
    BY <2>17 DEF NotifyAll
  <2>18. CASE ReturnTask(c)
    BY <2>18 DEF ReturnTask
  <2>19. CASE StartOrder(c)
    BY <2>19 DEF StartOrder
  <2>20. CASE ShareForWait(c) \/ FallAsleep(c) \/ PassWait(c) \/ WaitAstray(c)
    BY <2>20 DEF ShareForWait, FallAsleep, PassWait, WaitAstray
  <2>21. CASE PayRefuse(c)
    BY <2>21 DEF PayRefuse
  <2>22. CASE Pay(c)
    <3>1. /\ sold' \in [Items -> SizeT]
          /\ carts' \in [Sessions -> [Items -> SizeT]]
      <4>1. EmptyCart \in [Items -> SizeT]
        BY MenuAssumption DEF EmptyCart, SizeT
      <4>2. \A i \in Items : Wrap(sold[i] + carts[s][i]) \in SizeT
        <5>1. \A i \in Items : sold[i] \in Int /\ carts[s][i] \in Int
          BY <2>1 DEF SizeT
        <5> QED
          BY <5>1, WrapType
      <4>3. /\ carts' = [carts EXCEPT ![s] = EmptyCart]
            /\ sold' = [i \in Items |-> Wrap(sold[i] + carts[s][i])]
        BY <2>22 DEF Pay, Erased
      <4> QED
        BY <2>1, <4>1, <4>2, <4>3
    <3> QED
      BY <2>22, <3>1 DEF Pay
  <2>23. CASE Cook(c)
    BY <2>23 DEF Cook
  <2> QED
    BY <2>2, <2>3, <2>4, <2>5, <2>6, <2>7, <2>8, <2>9, <2>10, <2>11, <2>12,
       <2>13, <2>14, <2>15, <2>16, <2>17, <2>18, <2>19, <2>20, <2>21, <2>22,
       <2>23, <2>24 DEF ThreadStep, CallerStep, PurchaseStep, OrderStep
<1> QED
  BY <1>1, <1>2

(* Every variable has its type in every reachable state.                   *)
THEOREM TypeCorrect == Spec => []TypeOK
  BY TypeInit, TypeStep, PTL DEF Spec

-----------------------------------------------------------------------------
(* The locks.                                                              *)
LEMMA LockStep == TypeOK /\ LockDiscipline /\ [Next]_vars => LockDiscipline'
<1> SUFFICES ASSUME TypeOK, LockDiscipline, [Next]_vars PROVE LockDiscipline'
  OBVIOUS
<1>1. CASE UNCHANGED vars
  BY <1>1 DEF LockDiscipline, vars, locks
<1>2. CASE Next
  <2> PICK c \in Calls : Invoke(c) \/ ThreadStep(c)
    BY <1>2 DEF Next
  <2>1. pc \in [Calls -> AllPcs] /\ NoCall \notin Calls
    BY ServerAssumption DEF TypeOK
  <2> USE <2>1 DEF LockDiscipline, Goto, Unshare, locks, CriticalPcs, SharingPcs,
                   ExcludingPcs
  <2>2. CASE \/ Invoke(c) \/ CheckFits(c) \/ AllocationThrows(c) \/ CountUp(c) \/ Post(c)
            \/ StartMain(c) \/ Describe(c) \/ StartOrder(c)
    BY <2>2 DEF Invoke, CheckFits, AllocationThrows, AfterCheck, CountUp, Post, StartMain,
                Describe, StartOrder
  <2>3. CASE CopyVectors(c)
    BY <2>3 DEF CopyVectors, CanExclude
  <2>14. CASE CopyOverruns(c)
    BY <2>14 DEF CopyOverruns, CanExclude
  <2>15. CASE CountAstray(c)
    BY <2>15 DEF CountAstray, CanShare
  <2>4. CASE SwapVectors(c)
    BY <2>4 DEF SwapVectors, AfterCheck
  <2>5. CASE LockMutex(c)
    BY <2>5 DEF LockMutex, MutexFree
  <2>6. CASE BuyTest(c) \/ BuyRefuse(c) \/ BuyTake(c) \/ RemoveItems(c)
    BY <2>6 DEF BuyTest, BuyRefuse, BuyTake, RemoveItems
  <2>7. CASE CountDown(c)
    BY <2>7 DEF CountDown, CanShare
  <2>8. CASE TestZero(c) \/ SetFlag(c) \/ FallAsleep(c) \/ WaitAstray(c)
    BY <2>8 DEF TestZero, SetFlag, FallAsleep, WaitAstray
  <2>9. CASE NotifyAll(c)
    BY <2>9 DEF NotifyAll, Woken
  <2>10. CASE ReturnTask(c)
    BY <2>10 DEF ReturnTask
  <2>11. CASE ShareForWait(c)
    BY <2>11 DEF ShareForWait, CanShare
  <2>12. CASE PassWait(c)
    BY <2>12 DEF PassWait
  <2>13. CASE PayRefuse(c) \/ Pay(c) \/ Cook(c)
    BY <2>13 DEF PayRefuse, Pay, Cook
  <2> QED
    BY <2>2, <2>3, <2>4, <2>5, <2>6, <2>7, <2>8, <2>9, <2>10, <2>11, <2>12,
       <2>13, <2>14, <2>15 DEF ThreadStep, CallerStep, PurchaseStep, OrderStep
<1> QED
  BY <1>1, <1>2

(* In every reachable state the holders of the two locks are the calls     *)
(* between their lock and their unlock.                                    *)
THEOREM LocksAreDisciplined == Spec => []LockDiscipline
<1>1. Init => LockDiscipline
  BY ServerAssumption DEF Init, LockDiscipline, CriticalPcs, SharingPcs, ExcludingPcs
<1> QED
  BY <1>1, LockStep, TypeCorrect, PTL DEF Spec

-----------------------------------------------------------------------------
(* Operations and queues.                                                  *)
LEMMA OpsStep == TypeOK /\ OpsAgree /\ [Next]_vars => OpsAgree'
<1> SUFFICES ASSUME TypeOK, OpsAgree, [Next]_vars PROVE OpsAgree'
  OBVIOUS
<1>1. CASE UNCHANGED vars
  BY <1>1 DEF OpsAgree, IsPurchase, IsOrder, vars, queues
<1>2. CASE Next
  <2> PICK c \in Calls : Invoke(c) \/ ThreadStep(c)
    BY <1>2 DEF Next
  <2>1. /\ pc \in [Calls -> AllPcs]
        /\ mainQueue \in Seq(Calls) /\ orderQueue \in Seq(Calls)
        /\ \A d \in Calls : request[d].op \in Ops
    BY RequestType DEF TypeOK
  <2> USE <2>1 DEF OpsAgree, Goto, queues, IsPurchase, IsOrder, CriticalPcs,
                   OrderPcs, StrayPcs, Purchases, Ops
  <2>2. CASE Invoke(c)
    BY <2>2 DEF Invoke
  <2>3. CASE \/ CheckFits(c) \/ AllocationThrows(c) \/ CopyVectors(c)
            \/ CopyOverruns(c) \/ SwapVectors(c) \/ CountUp(c) \/ CountAstray(c)
    <3>1. CASE CheckFits(c) \/ AllocationThrows(c) \/ SwapVectors(c)
      BY <3>1 DEF CheckFits, AllocationThrows, SwapVectors, AfterCheck
    <3>2. CASE CopyVectors(c)
      BY <3>2 DEF CopyVectors
    <3>3. CASE CountUp(c) \/ CountAstray(c)
      BY <3>3 DEF CountUp, CountAstray
    <3>4. CASE CopyOverruns(c)
      BY <3>4 DEF CopyOverruns
    <3> QED
      BY <2>3, <3>1, <3>2, <3>3, <3>4
  <2>4. CASE Post(c)
    <3>1. \A k \in 1 .. Len(mainQueue') : ~IsOrder(mainQueue'[k])
      BY <2>4 DEF Post
    <3>2. \A k \in 1 .. Len(orderQueue') : IsOrder(orderQueue'[k])
      <4>1. CASE IsOrder(c)
        <5>1. orderQueue' = Append(orderQueue, c) /\ request' = request
          BY <2>4, <4>1 DEF Post
        <5>2. ASSUME NEW k \in 1 .. Len(orderQueue')
              PROVE  orderQueue'[k] = IF k <= Len(orderQueue) THEN orderQueue[k] ELSE c
          BY <5>1
        <5> QED
          BY <4>1, <5>1, <5>2
      <4>2. CASE ~IsOrder(c)
        BY <2>4, <4>2 DEF Post
      <4> QED
        BY <4>1, <4>2
    <3> QED
      BY <2>4, <3>1, <3>2 DEF Post
  <2>5. CASE StartMain(c)
    <3>1. Len(mainQueue) # 0 /\ ~IsOrder(c)
      BY <2>5 DEF StartMain
    <3>2. \A k \in 1 .. Len(mainQueue') : ~IsOrder(mainQueue'[k])
      BY <2>5, <3>1 DEF StartMain
    <3> QED
      BY <2>5, <3>1, <3>2 DEF StartMain
  <2>6. CASE Describe(c) \/ LockMutex(c)
    BY <2>6 DEF Describe, LockMutex
  <2>7. CASE BuyTest(c) \/ BuyRefuse(c) \/ BuyTake(c) \/ RemoveItems(c)
    BY <2>7 DEF BuyTest, BuyRefuse, BuyTake, RemoveItems
  <2>8. CASE CountDown(c) \/ TestZero(c) \/ SetFlag(c)
    BY <2>8 DEF CountDown, TestZero, SetFlag
  <2>9. CASE NotifyAll(c)
    BY <2>9 DEF NotifyAll, Woken
  <2>10. CASE ReturnTask(c)
    BY <2>10 DEF ReturnTask
  <2>11. CASE StartOrder(c)
    BY <2>11 DEF StartOrder
  <2>12. CASE ShareForWait(c) \/ FallAsleep(c) \/ PassWait(c) \/ WaitAstray(c)
    BY <2>12 DEF ShareForWait, FallAsleep, PassWait, WaitAstray
  <2>13. CASE PayRefuse(c)
    BY <2>13 DEF PayRefuse
  <2>14. CASE Pay(c)
    BY <2>14 DEF Pay
  <2>15. CASE Cook(c)
    BY <2>15 DEF Cook
  <2> QED
    BY <2>2, <2>3, <2>4, <2>5, <2>6, <2>7, <2>8, <2>9, <2>10, <2>11, <2>12,
       <2>13, <2>14, <2>15 DEF ThreadStep, CallerStep, PurchaseStep, OrderStep
<1> QED
  BY <1>1, <1>2

(* In every reachable state a call is where its operation goes.            *)
THEOREM OpsAlwaysAgree == Spec => []OpsAgree
<1>1. Init => OpsAgree
  BY DEF Init, OpsAgree, CriticalPcs, OrderPcs, StrayPcs
<1> QED
  BY <1>1, OpsStep, TypeCorrect, PTL DEF Spec

-----------------------------------------------------------------------------
(* The vectors.  While a call is between its copy and its swap no other    *)
(* call can lock resize_atomics_mutex, so none can change the vectors.     *)
LEMMA CopyStep ==
  TypeOK /\ LockDiscipline /\ CopyIsFresh /\ [Next]_vars => CopyIsFresh'
<1> SUFFICES ASSUME TypeOK, LockDiscipline, CopyIsFresh, [Next]_vars
             PROVE  CopyIsFresh'
  OBVIOUS
<1>1. CASE UNCHANGED vars
  BY <1>1 DEF CopyIsFresh, AllCopied, SessionOf, vars, atomics
<1>2. CASE Next
  <2> PICK c \in Calls : Invoke(c) \/ ThreadStep(c)
    BY <1>2 DEF Next
  <2>1. /\ pc \in [Calls -> AllPcs] /\ NoCall \notin Calls
        /\ \A d \in Calls : pc[d] = "copy" => exclusive = d
        /\ pc[c] = "flag" => exclusive = NoCall
    BY ServerAssumption DEF TypeOK, LockDiscipline, SharingPcs, ExcludingPcs
  <2> USE <2>1 DEF CopyIsFresh, AllCopied, SessionOf, Goto, atomics
  <2>2. CASE CopyVectors(c)
    BY <2>2 DEF CopyVectors, CanExclude, Fits, SessionOf
  <2>3. CASE SwapVectors(c)
    <3>1. \A d \in Calls : pc'[d] # "copy"
      BY <2>3 DEF SwapVectors, AfterCheck
    <3> QED
      BY <3>1
  <2>4. CASE CountUp(c) \/ CountDown(c) \/ SetFlag(c)
    <3>1. \A d \in Calls : pc'[d] # "copy"
      BY <2>4 DEF CountUp, CountDown, CanShare, SetFlag
    <3> QED
      BY <3>1
  <2>5. CASE \/ Invoke(c) \/ CheckFits(c) \/ AllocationThrows(c) \/ CopyOverruns(c)
            \/ CountAstray(c) \/ Post(c) \/ StartMain(c) \/ Describe(c)
    BY <2>5 DEF Invoke, CheckFits, AllocationThrows, CopyOverruns, CountAstray, AfterCheck,
                Post, StartMain, Describe
  <2>6. CASE \/ LockMutex(c) \/ BuyTest(c) \/ BuyRefuse(c) \/ BuyTake(c)
            \/ RemoveItems(c) \/ TestZero(c) \/ NotifyAll(c) \/ ReturnTask(c)
    BY <2>6 DEF LockMutex, BuyTest, BuyRefuse, BuyTake, RemoveItems, TestZero,
                NotifyAll, ReturnTask
  <2>7. CASE OrderStep(c)
    BY <2>7 DEF OrderStep, StartOrder, ShareForWait, FallAsleep, PassWait, WaitAstray,
                PayRefuse, Pay, Cook
  <2> QED
    BY <2>2, <2>3, <2>4, <2>5, <2>6, <2>7
       DEF ThreadStep, CallerStep, PurchaseStep
<1> QED
  BY <1>1, <1>2

(* In every reachable state the copies about to be swapped in agree with   *)
(* the vectors, so a resize loses no count and no flag.                    *)
THEOREM CopiesAreFresh == Spec => []CopyIsFresh
<1>1. Init => CopyIsFresh
  BY DEF Init, CopyIsFresh
<1> QED
  BY <1>1, CopyStep, TypeCorrect, LocksAreDisciplined, PTL DEF Spec

(* A swap gives the vectors the length asked for, which is no less than    *)
(* they had, and enough for the session if its double is a size_t.         *)
LEMMA SwapGrows ==
  ASSUME TypeOK, VectorsAgree, CopyIsFresh, NEW c \in Calls, SwapVectors(c)
  PROVE  /\ VectorsAgree'
         /\ DOMAIN allAtomicsCount \subseteq DOMAIN allAtomicsCount'
         /\ ~Wraps(c) => SessionOf(c) \in DOMAIN allAtomicsCount'
         /\ allAtomicsCount' = Grown(allAtomicsCount, SessionOf(c), 0)
         /\ allAtomicsBools' = Grown(allAtomicsBools, SessionOf(c), FALSE)
<1> DEFINE s == SessionOf(c)
<1>1. s \in Sessions /\ s \in Nat
  BY RequestType DEF TypeOK, SessionOf
<1>2. PICK n \in Sizes \ {0} :
        DOMAIN allAtomicsCount = Index(n) /\ DOMAIN allAtomicsBools = Index(n)
  BY DEF VectorsAgree
<1>3. \A t \in Sessions : NewSize(t) \in Nat
  <2>1. \A t \in Sessions : 2 * t \in Int
    BY MenuAssumption
  <2> QED
    BY <2>1, WrapType DEF NewSize, SizeT
<1>4. n \in Nat
  BY <1>2, <1>3, MenuAssumption, ServerAssumption, RequestType DEF Sizes, NewSize
<1>5. /\ s \notin Index(n)
      /\ Index(n) \subseteq Index(NewSize(s))
      /\ allAtomicsCount' = Grown(allAtomicsCount, s, 0)
      /\ allAtomicsBools' = Grown(allAtomicsBools, s, FALSE)
  BY <1>2 DEF SwapVectors, CopyIsFresh, AllCopied, Goto
<1>6. /\ DOMAIN allAtomicsCount' = Index(NewSize(s))
      /\ DOMAIN allAtomicsBools' = Index(NewSize(s))
  BY <1>5 DEF Grown
<1>7. NewSize(s) \in Sizes \ {0}
  <2>1. 0 \in Index(n)
    BY <1>2, <1>4 DEF Index
  <2>2. 0 \in Index(NewSize(s))
    BY <1>5, <2>1
  <2> QED
    BY <1>1, <2>2 DEF Sizes, Index
<1>8. ~Wraps(c) => s \in Index(NewSize(s))
  <2>1. s >= 1
    BY <1>1, <1>2, <1>4, <1>5 DEF Index
  <2>2. ~Wraps(c) => NewSize(s) = 2 * s
    BY <1>1, MenuAssumption DEF Wraps, NewSize, Wrap
  <2> QED
    BY <1>1, <2>1, <2>2 DEF Index
<1> QED
  BY <1>2, <1>5, <1>6, <1>7, <1>8 DEF VectorsAgree

(* The vectors are the same, or have one element changed, or have grown.   *)
LEMMA VectorsStep ==
  ASSUME TypeOK, VectorsAgree, CopyIsFresh, [Next]_vars
  PROVE  VectorsAgree' /\ DOMAIN allAtomicsCount \subseteq DOMAIN allAtomicsCount'
<1>1. CASE UNCHANGED vars
  BY <1>1 DEF VectorsAgree, vars, atomics
<1>2. CASE Next
  <2> PICK c \in Calls : Invoke(c) \/ ThreadStep(c)
    BY <1>2 DEF Next
  <2> USE DEF VectorsAgree, atomics
  <2>1. CASE SwapVectors(c)
    BY <2>1, SwapGrows
  <2>2. CASE CountUp(c) \/ CountDown(c) \/ SetFlag(c)
    BY <2>2 DEF CountUp, CountDown, SetFlag
  <2>3. CASE \/ Invoke(c) \/ CheckFits(c) \/ AllocationThrows(c) \/ CopyVectors(c) \/ CopyOverruns(c)
            \/ CountAstray(c) \/ Post(c) \/ StartMain(c) \/ Describe(c)
    BY <2>3 DEF Invoke, CheckFits, AllocationThrows, CopyVectors, CopyOverruns, CountAstray,
                Post, StartMain, Describe
  <2>4. CASE \/ LockMutex(c) \/ BuyTest(c) \/ BuyRefuse(c) \/ BuyTake(c)
            \/ RemoveItems(c) \/ TestZero(c) \/ NotifyAll(c) \/ ReturnTask(c)
    BY <2>4 DEF LockMutex, BuyTest, BuyRefuse, BuyTake, RemoveItems, TestZero,
                NotifyAll, ReturnTask
  <2>5. CASE OrderStep(c)
    BY <2>5 DEF OrderStep, StartOrder, ShareForWait, FallAsleep, PassWait, WaitAstray,
                PayRefuse, Pay, Cook
  <2> QED
    BY <2>1, <2>2, <2>3, <2>4, <2>5 DEF ThreadStep, CallerStep, PurchaseStep
<1> QED
  BY <1>1, <1>2

(* As long as no access has been out of bounds, the two vectors are never  *)
(* empty, of one length, and never shorter than they were.                 *)
NeverShorter == DOMAIN allAtomicsCount \subseteq DOMAIN allAtomicsCount'

THEOREM VectorsAlwaysAgree == Spec => []VectorsAgree /\ [][NeverShorter]_vars
<1>1. Init => VectorsAgree
  <2>1. MaxUsers \in Sizes \ {0}
    BY ServerAssumption DEF Sizes
  <2> QED
    BY <2>1 DEF Init, VectorsAgree
<1>2. TypeOK /\ CopyIsFresh /\ VectorsAgree /\ [Next]_vars
        => VectorsAgree' /\ NeverShorter
  BY VectorsStep DEF NeverShorter
<1> QED
  BY <1>1, <1>2, TypeCorrect, CopiesAreFresh, PTL DEF Spec

(* Only an id whose double is no size_t gets vectors that are shorter than *)
(* the old ones.                                                           *)
LEMMA OverrunWraps ==
  ASSUME TypeOK, VectorsAgree, NEW c \in Calls, ~Fits(c), ~AllCopied(c)
  PROVE  Wraps(c)
<1> DEFINE s == SessionOf(c)
<1>1. s \in Sessions /\ s \in Nat
  BY RequestType DEF TypeOK, SessionOf
<1>2. PICK n \in Sizes \ {0} : DOMAIN allAtomicsBools = Index(n)
  BY DEF VectorsAgree
<1>3. n \in Nat
  <2>1. \A t \in Sessions : 2 * t \in Int
    BY MenuAssumption
  <2>2. \A t \in Sessions : NewSize(t) \in Nat
    BY <2>1, WrapType DEF NewSize, SizeT
  <2> QED
    BY <1>2, <2>2, ServerAssumption DEF Sizes
<1>4. s >= n
  BY <1>1, <1>2, <1>3 DEF Fits, Index
<1>5. ~Wraps(c) => NewSize(s) = 2 * s
  BY <1>1, MenuAssumption DEF Wraps, NewSize, Wrap
<1>6. NewSize(s) = 2 * s => AllCopied(c)
  BY <1>1, <1>2, <1>3, <1>4 DEF AllCopied, Index
<1> QED
  BY <1>5, <1>6

(* A call uses the vectors only after CheckSessionIdSize has seen to it    *)
(* that they are long enough, and they never get shorter.                  *)
LEMMA IndexStep ==
  ASSUME TypeOK, OpsAgree, VectorsAgree, CopyIsFresh, IndexInRange, [Next]_vars
  PROVE  IndexInRange'
<1>1. /\ VectorsAgree'
      /\ DOMAIN allAtomicsCount \subseteq DOMAIN allAtomicsCount'
  BY VectorsStep
<1>2. /\ DOMAIN allAtomicsBools = DOMAIN allAtomicsCount
      /\ DOMAIN allAtomicsBools' = DOMAIN allAtomicsCount'
  BY <1>1 DEF VectorsAgree
<1>3. pc \in [Calls -> AllPcs] /\ \A d \in Calls : request[d].op \in Ops
  BY RequestType DEF TypeOK
<1>4. request' = request
  BY RequestsStay
<1> DEFINE Kept(d) == /\ Sized(d)' => Sized(d)
                      /\ Sized(d)' /\ Unindexed(d) => Unindexed(d)'
                      /\ pc'[d] \in StrayPcs => pc[d] \in StrayPcs
           Has(d) == SessionOf(d) \in DOMAIN allAtomicsCount
           Entry(d) == /\ Sized(d) => Has(d) \/ (Wraps(d) /\ Unindexed(d))
                       /\ pc[d] \in StrayPcs => Wraps(d)
<1>5. /\ IndexInRange <=> \A d \in Calls : Entry(d)
      /\ IndexInRange' <=> \A d \in Calls : Entry(d)'
  BY <1>2 DEF IndexInRange, SessionOf
<1>6. \A d \in Calls : (Has(d) => Has(d)') /\ (Wraps(d) <=> Wraps(d)')
  BY <1>1, <1>4 DEF SessionOf, Wraps
<1>7. ASSUME NEW d \in Calls, Kept(d) PROVE Entry(d)'
  BY <1>5, <1>6, <1>7
<1>8. CASE UNCHANGED vars
  <2>1. \A d \in Calls : Kept(d)
    BY <1>8 DEF vars, Sized, Unindexed, IsPurchase
  <2> QED
    BY <1>5, <1>7, <2>1
<1>9. CASE Next
  <2> PICK c \in Calls : Invoke(c) \/ ThreadStep(c)
    BY <1>9 DEF Next
  <2> USE <1>3, <1>4 DEF Goto, Sized, Unindexed, StrayPcs, IsPurchase, IsOrder, Purchases, Ops
  <2>1. CASE Invoke(c)
    <3>1. \A d \in Calls : Kept(d)
      BY <2>1 DEF Invoke
    <3> QED
      BY <1>5, <1>7, <3>1
  <2>2. CASE CheckFits(c)
    <3>1. /\ \A d \in Calls \ {c} : Kept(d)
          /\ pc'[c] \notin StrayPcs
      BY <2>2 DEF CheckFits, AfterCheck
    <3>2. Has(c)
      BY <1>2, <2>2 DEF CheckFits, Fits
    <3>3. Entry(c)'
      BY <1>6, <3>1, <3>2
    <3> QED
      BY <1>5, <1>7, <3>1, <3>3
  <2>3. CASE CopyOverruns(c)
    <3>1. \A d \in Calls \ {c} : Kept(d)
      BY <2>3 DEF CopyOverruns
    <3>2. ~Sized(c)' /\ Wraps(c)
      BY <2>3, OverrunWraps DEF CopyOverruns
    <3> QED
      BY <1>5, <1>6, <1>7, <3>1, <3>2
  <2>4. CASE SwapVectors(c)
    <3>1. /\ \A d \in Calls \ {c} : Kept(d)
          /\ Unindexed(c)'
          /\ pc'[c] \notin StrayPcs
      BY <2>4 DEF SwapVectors, AfterCheck, OpsAgree
    <3>2. Wraps(c) \/ Has(c)'
      BY <1>4, <2>4, SwapGrows DEF SessionOf
    <3> QED
      BY <1>5, <1>6, <1>7, <3>1, <3>2
  <2>5. CASE CountAstray(c)
    <3>1. \A d \in Calls \ {c} : Kept(d)
      BY <2>5 DEF CountAstray
    <3>2. IsPurchase(c) /\ Sized(c) /\ ~Has(c) /\ Unindexed(c)'
      BY <2>5 DEF CountAstray, InRange, OpsAgree
    <3> QED
      BY <1>5, <1>6, <1>7, <3>1, <3>2
  <2>6. CASE WaitAstray(c)
    <3>1. \A d \in Calls \ {c} : Kept(d)
      BY <2>6 DEF WaitAstray
    <3>2. IsOrder(c) /\ Sized(c) /\ ~Has(c) /\ Unindexed(c)'
      BY <1>2, <2>6 DEF WaitAstray, InRange, OpsAgree, OrderPcs
    <3> QED
      BY <1>5, <1>6, <1>7, <3>1, <3>2
  <2>7. CASE CountUp(c) \/ FallAsleep(c) \/ PassWait(c)
    <3>1. /\ \A d \in Calls \ {c} : Kept(d)
          /\ pc'[c] \notin StrayPcs
      BY <2>7 DEF CountUp, FallAsleep, PassWait
    <3>2. Has(c)
      BY <1>2, <2>7 DEF CountUp, FallAsleep, PassWait, InRange
    <3>3. Entry(c)'
      BY <1>6, <3>1, <3>2
    <3> QED
      BY <1>5, <1>7, <3>1, <3>3
  <2>8. CASE \/ AllocationThrows(c) \/ CopyVectors(c) \/ Post(c) \/ StartMain(c)
            \/ Describe(c) \/ StartOrder(c) \/ ShareForWait(c)
    <3>1. \A d \in Calls : Kept(d)
      <4>1. CASE AllocationThrows(c)
        BY <4>1 DEF AllocationThrows
      <4>4. CASE CopyVectors(c)
        BY <4>4 DEF CopyVectors
      <4>2. CASE Post(c) \/ Describe(c)
        BY <4>2 DEF Post, Describe, OpsAgree
      <4>3. CASE StartOrder(c) \/ ShareForWait(c)
        BY <4>3 DEF StartOrder, ShareForWait
      <4>5. CASE StartMain(c)
        <5>1. Len(mainQueue) # 0 /\ mainQueue[1] = c /\ Len(mainQueue) \in Nat
          BY <4>5 DEF StartMain, TypeOK
        <5>2. ~IsOrder(c)
          BY <5>1 DEF OpsAgree
        <5> QED
          BY <4>5, <5>2 DEF StartMain
      <4> QED
        BY <2>8, <4>1, <4>2, <4>3, <4>4, <4>5
    <3> QED
      BY <1>5, <1>7, <3>1
  <2>9. CASE PurchaseStep(c)
    <3>1. \A d \in Calls : Kept(d)
      <4>1. CASE LockMutex(c) \/ BuyTest(c) \/ BuyRefuse(c) \/ BuyTake(c) \/ RemoveItems(c)
        BY <4>1 DEF LockMutex, BuyTest, BuyRefuse, BuyTake, RemoveItems, OpsAgree, CriticalPcs
      <4>2. CASE CountDown(c) \/ TestZero(c) \/ SetFlag(c) \/ ReturnTask(c)
        BY <4>2 DEF CountDown, TestZero, SetFlag, ReturnTask, OpsAgree, CriticalPcs
      <4>3. CASE NotifyAll(c)
        BY <4>3 DEF NotifyAll, Woken, OpsAgree, CriticalPcs, OrderPcs
      <4> QED
        BY <2>9, <4>1, <4>2, <4>3 DEF PurchaseStep
    <3> QED
      BY <1>5, <1>7, <3>1
  <2>10. CASE PayRefuse(c) \/ Pay(c) \/ Cook(c)
    <3>1. \A d \in Calls : Kept(d)
      BY <2>10 DEF PayRefuse, Pay, Cook
    <3> QED
      BY <1>5, <1>7, <3>1
  <2> QED
    BY <2>1, <2>2, <2>3, <2>4, <2>5, <2>6, <2>7, <2>8, <2>9, <2>10
       DEF ThreadStep, CallerStep, OrderStep
<1> QED
  BY <1>8, <1>9

(* In every reachable state every element that a call may access exists,   *)
(* or the double of the session's id is no size_t, and the call is still   *)
(* before its first access or has just gone astray with it: no session     *)
(* with a smaller id ever takes a thread out of bounds, whatever ids the   *)
(* other calls come with.                                                  *)
THEOREM IndicesAreInRange == Spec => []IndexInRange
<1>1. Init => IndexInRange
  BY DEF Init, IndexInRange, Sized, StrayPcs
<1>2. TypeOK /\ OpsAgree /\ VectorsAgree /\ CopyIsFresh /\ IndexInRange /\ [Next]_vars
        => IndexInRange'
  BY IndexStep
<1> QED
  BY <1>1, <1>2, TypeCorrect, OpsAlwaysAgree, CopiesAreFresh, VectorsAlwaysAgree, PTL DEF Spec

-----------------------------------------------------------------------------
(* The counters.  The calls in flight are a finite set; one joins at the   *)
(* increment and leaves at the decrement.                                  *)
LEMMA InFlightFinite == \A s : IsFiniteSet(InFlight(s))
  BY ServerAssumption, FS_Subset DEF InFlight

(* No other step puts a purchase in flight or takes it out.                *)
LEMMA InFlightKept ==
  ASSUME TypeOK, OpsAgree, NEW c \in Calls, Invoke(c) \/ ThreadStep(c),
         ~CountUp(c), ~CountDown(c)
  PROVE  \A s : InFlight(s)' = InFlight(s)
<1>1. /\ pc \in [Calls -> AllPcs]
      /\ \A d \in Calls : request[d].op \in Ops
      /\ mainQueue \in Seq(Calls) /\ orderQueue \in Seq(Calls)
  BY RequestType DEF TypeOK
<1>2. /\ request' = request
      /\ \A d \in Calls : IsPurchase(d) =>
           (pc'[d] \in InFlightPcs <=> pc[d] \in InFlightPcs)
  <2> USE <1>1 DEF Goto, IsPurchase, IsOrder, InFlightPcs, Purchases, Ops
  <2>1. CASE Invoke(c)
    BY <2>1 DEF Invoke
  <2>2. CASE CheckFits(c) \/ AllocationThrows(c) \/ SwapVectors(c)
    BY <2>2 DEF CheckFits, AllocationThrows, SwapVectors, AfterCheck
  <2>3. CASE CopyVectors(c) \/ CopyOverruns(c) \/ CountAstray(c) \/ Post(c)
    BY <2>3 DEF CopyVectors, CopyOverruns, CountAstray, Post
  <2>4. CASE StartMain(c)
    BY <2>4 DEF StartMain
  <2>5. CASE Describe(c) \/ LockMutex(c)
    BY <2>5 DEF Describe, LockMutex
  <2>6. CASE BuyTest(c) \/ BuyRefuse(c) \/ BuyTake(c) \/ RemoveItems(c)
    BY <2>6 DEF BuyTest, BuyRefuse, BuyTake, RemoveItems
  <2>7. CASE TestZero(c) \/ SetFlag(c) \/ ReturnTask(c)
    BY <2>7 DEF TestZero, SetFlag, ReturnTask
  <2>8. CASE NotifyAll(c)
    BY <2>8 DEF NotifyAll, Woken
  <2>9. CASE StartOrder(c)
    <3>1. IsOrder(c)
      BY <2>9 DEF StartOrder, OpsAgree
    <3> QED
      BY <2>9, <3>1 DEF StartOrder
  <2>10. CASE \/ ShareForWait(c) \/ FallAsleep(c) \/ PassWait(c) \/ WaitAstray(c)
             \/ PayRefuse(c) \/ Pay(c) \/ Cook(c)
    BY <2>10 DEF ShareForWait, FallAsleep, PassWait, WaitAstray, PayRefuse, Pay, Cook
  <2> QED
    BY <2>1, <2>2, <2>3, <2>4, <2>5, <2>6, <2>7, <2>8, <2>9, <2>10
       DEF ThreadStep, CallerStep, PurchaseStep, OrderStep
<1> QED
  BY <1>2 DEF InFlight, IsPurchase, SessionOf

LEMMA CountStep ==
  ASSUME TypeOK, OpsAgree, VectorsAgree, CopyIsFresh, IndexInRange,
         CountIsInFlight, [Next]_vars
  PROVE  CountIsInFlight'
<1>1. /\ pc \in [Calls -> AllPcs]
      /\ DOMAIN allAtomicsBools = DOMAIN allAtomicsCount
  BY DEF TypeOK, VectorsAgree
<1>2. CASE UNCHANGED vars
  BY <1>2 DEF CountIsInFlight, InFlight, IsPurchase, SessionOf, vars, atomics
<1>3. CASE Next
  <2> PICK c \in Calls : Invoke(c) \/ ThreadStep(c)
    BY <1>3 DEF Next
  <2>0. PICK s \in Sessions : s = SessionOf(c)
    BY RequestType DEF SessionOf, TypeOK
  <2>1. CASE CountUp(c)
    <3>1. /\ IsPurchase(c) /\ c \notin InFlight(s)
          /\ s \in DOMAIN allAtomicsCount
          /\ InFlight(s)' = InFlight(s) \cup {c}
          /\ \A t : t # s => InFlight(t)' = InFlight(t)
      BY <1>1, <2>0, <2>1 DEF CountUp, InRange, OpsAgree, InFlight, InFlightPcs,
                        IsPurchase, Purchases, SessionOf, Goto
    <3>2. Cardinality(InFlight(s)') = Cardinality(InFlight(s)) + 1
      BY <3>1, InFlightFinite, FS_AddElement
    <3>3. allAtomicsCount' = [allAtomicsCount EXCEPT ![s] = @ + 1]
      BY <2>0, <2>1 DEF CountUp
    <3>4. allAtomicsCount[s] = Cardinality(InFlight(s))
      BY <3>1 DEF CountIsInFlight
    <3>5. ASSUME NEW t \in Sessions, t \in DOMAIN allAtomicsCount'
          PROVE  allAtomicsCount'[t] = Cardinality(InFlight(t)')
      <4>1. CASE t = s
        BY <3>1, <3>2, <3>3, <3>4, <4>1
      <4>2. CASE t # s
        BY <3>1, <3>3, <3>5, <4>2 DEF CountIsInFlight
      <4> QED
        BY <4>1, <4>2
    <3> QED
      BY <3>5 DEF CountIsInFlight
  <2>2. CASE CountDown(c)
    <3>1. /\ IsPurchase(c) /\ c \in InFlight(s)
          /\ s \in DOMAIN allAtomicsCount
          /\ InFlight(s)' = InFlight(s) \ {c}
          /\ \A t : t # s => InFlight(t)' = InFlight(t)
      BY <1>1, <2>0, <2>2 DEF CountDown, OpsAgree, CriticalPcs, IndexInRange, Sized,
                        Unindexed, InFlight, InFlightPcs, IsPurchase, Purchases, SessionOf, Goto
    <3>2. Cardinality(InFlight(s)') = Cardinality(InFlight(s)) - 1
      BY <3>1, InFlightFinite, FS_RemoveElement
    <3>3. allAtomicsCount' = [allAtomicsCount EXCEPT ![s] = @ - 1]
      BY <2>0, <2>2 DEF CountDown
    <3>4. allAtomicsCount[s] = Cardinality(InFlight(s))
      BY <3>1 DEF CountIsInFlight
    <3>5. ASSUME NEW t \in Sessions, t \in DOMAIN allAtomicsCount'
          PROVE  allAtomicsCount'[t] = Cardinality(InFlight(t)')
      <4>1. CASE t = s
        BY <3>1, <3>2, <3>3, <3>4, <4>1
      <4>2. CASE t # s
        BY <3>1, <3>3, <3>5, <4>2 DEF CountIsInFlight
      <4> QED
        BY <4>1, <4>2
    <3> QED
      BY <3>5 DEF CountIsInFlight
  <2>3. CASE SwapVectors(c)
    <3>1. \A t : InFlight(t)' = InFlight(t)
      BY <2>3, InFlightKept DEF SwapVectors, CountUp, CountDown, Goto
    <3>2. allAtomicsCount' = Grown(allAtomicsCount, s, 0)
      BY <2>0, <2>3, SwapGrows
    <3>3. \A t \in Sessions \ DOMAIN allAtomicsCount : InFlight(t) = {}
      BY DEF InFlight, IndexInRange, Sized, Unindexed, InFlightPcs, IsPurchase, Purchases
    <3>4. Cardinality({}) = 0
      BY FS_EmptySet
    <3> QED
      BY <3>1, <3>2, <3>3, <3>4 DEF CountIsInFlight, Grown
  <2>4. CASE ~CountUp(c) /\ ~CountDown(c) /\ ~SwapVectors(c)
    <3>1. \A t : InFlight(t)' = InFlight(t)
      BY <2>4, InFlightKept
    <3>2. allAtomicsCount' = allAtomicsCount
      BY <2>4 DEF ThreadStep, CallerStep, PurchaseStep, OrderStep, atomics,
         Invoke, CheckFits, AllocationThrows, CopyVectors, CopyOverruns,
         CountAstray, Post, StartMain, Describe, LockMutex,
         BuyTest, BuyRefuse, BuyTake, RemoveItems, TestZero, SetFlag, NotifyAll,
         ReturnTask, StartOrder, ShareForWait, FallAsleep, PassWait, WaitAstray, PayRefuse,
         Pay, Cook
    <3> QED
      BY <3>1, <3>2 DEF CountIsInFlight
  <2> QED
    BY <2>1, <2>2, <2>3, <2>4
<1> QED
  BY <1>2, <1>3

(* In every reachable state the counter of a session is the number of its  *)
(* purchases in flight.                                                    *)
THEOREM CountsAreInFlight == Spec => []CountIsInFlight
<1>1. Init => CountIsInFlight
  <2> SUFFICES ASSUME Init PROVE CountIsInFlight
    OBVIOUS
  <2>1. \A s : InFlight(s) = {}
    BY DEF Init, InFlight, InFlightPcs
  <2>2. Cardinality({}) = 0
    BY FS_EmptySet
  <2> QED
    BY <2>1, <2>2 DEF Init, CountIsInFlight
<1>2. TypeOK /\ OpsAgree /\ VectorsAgree /\ CopyIsFresh /\ IndexInRange
        /\ CountIsInFlight /\ [Next]_vars => CountIsInFlight'
  BY CountStep
<1> QED
  BY <1>1, <1>2, TypeCorrect, OpsAlwaysAgree, CopiesAreFresh,
     VectorsAlwaysAgree, IndicesAreInRange, PTL DEF Spec

-----------------------------------------------------------------------------
(* The stock.  Who is about to take holds the mutex, and only its holder   *)
(* changes the stock.                                                      *)
LEMMA StockStep ==
  TypeOK /\ LockDiscipline /\ StockCheckHolds /\ [Next]_vars => StockCheckHolds'
<1> SUFFICES ASSUME TypeOK, LockDiscipline, StockCheckHolds, [Next]_vars
             PROVE  StockCheckHolds'
  OBVIOUS
<1>1. CASE UNCHANGED vars
  BY <1>1 DEF StockCheckHolds, InStock, vars, goods
<1>2. CASE Next
  <2> PICK c \in Calls : Invoke(c) \/ ThreadStep(c)
    BY <1>2 DEF Next
  <2>1. /\ pc \in [Calls -> AllPcs]
        /\ \A d, e \in Calls : pc[d] \in CriticalPcs /\ pc[e] \in CriticalPcs => d = e
    BY DEF TypeOK, LockDiscipline
  <2> USE <2>1 DEF StockCheckHolds, InStock, Goto, goods
  <2>2. CASE BuyTest(c)
    BY <2>2 DEF BuyTest
  <2>3. CASE BuyTake(c)
    <3>1. \A d \in Calls : pc'[d] # "take"
      BY <2>3 DEF BuyTake, CriticalPcs
    <3> QED
      BY <3>1
  <2>4. CASE RemoveItems(c)
    <3>1. \A d \in Calls : pc'[d] # "take"
      BY <2>4 DEF RemoveItems, CriticalPcs
    <3> QED
      BY <3>1
  <2>5. CASE Invoke(c) \/ CallerStep(c) \/ StartMain(c) \/ Describe(c)
    BY <2>5 DEF Invoke, CallerStep, CheckFits, AllocationThrows, CopyVectors, CopyOverruns, SwapVectors,
                AfterCheck, CountUp, CountAstray, Post, StartMain, Describe
  <2>6. CASE \/ LockMutex(c) \/ BuyRefuse(c) \/ CountDown(c) \/ TestZero(c)
            \/ SetFlag(c) \/ NotifyAll(c) \/ ReturnTask(c)
    BY <2>6 DEF LockMutex, BuyRefuse, CountDown, TestZero, SetFlag, NotifyAll,
                ReturnTask
  <2>7. CASE OrderStep(c)
    BY <2>7 DEF OrderStep, StartOrder, ShareForWait, FallAsleep, PassWait, WaitAstray,
                PayRefuse, Pay, Cook
  <2> QED
    BY <2>2, <2>3, <2>4, <2>5, <2>6, <2>7 DEF ThreadStep, PurchaseStep
<1> QED
  BY <1>1, <1>2

(* In every reachable state a Buy that found enough in stock still does    *)
(* when it takes.                                                          *)
THEOREM StockChecksHold == Spec => []StockCheckHolds
<1>1. Init => StockCheckHolds
  BY DEF Init, StockCheckHolds
<1> QED
  BY <1>1, StockStep, TypeCorrect, LocksAreDisciplined, PTL DEF Spec

-----------------------------------------------------------------------------
(* Flags and orders.  A purchase that has got as far as notify never goes  *)
(* back.                                                                   *)
LEMMA CarriedOutStays ==
  ASSUME TypeOK, [Next]_vars, NEW s, CarriedOut(s, {"notify", "return", "done"})
  PROVE  CarriedOut(s, {"notify", "return", "done"})'
<1>1. PICK b \in Calls : /\ IsPurchase(b) /\ SessionOf(b) = s
                         /\ pc[b] \in {"notify", "return", "done"}
  BY DEF CarriedOut
<1>2. pc \in [Calls -> AllPcs]
  BY DEF TypeOK
<1>3. request' = request /\ pc'[b] \in {"notify", "return", "done"}
  <2>1. CASE UNCHANGED vars
    BY <1>1, <2>1 DEF vars
  <2>2. CASE Next
    <3> PICK c \in Calls : Invoke(c) \/ ThreadStep(c)
      BY <2>2 DEF Next
    <3> USE <1>1, <1>2 DEF Goto
    <3>1. CASE Invoke(c) \/ CallerStep(c) \/ StartMain(c) \/ Describe(c)
      BY <3>1 DEF Invoke, CallerStep, CheckFits, AllocationThrows, CopyVectors, CopyOverruns, SwapVectors,
                  AfterCheck, CountUp, CountAstray, Post, StartMain, Describe
    <3>2. CASE PurchaseStep(c)
      BY <3>2 DEF PurchaseStep, LockMutex, BuyTest, BuyRefuse, BuyTake,
         RemoveItems, CountDown, TestZero, SetFlag, NotifyAll, Woken, ReturnTask
    <3>3. CASE OrderStep(c)
      BY <3>3 DEF OrderStep, StartOrder, ShareForWait, FallAsleep, PassWait, WaitAstray,
                  PayRefuse, Pay, Cook
    <3> QED
      BY <3>1, <3>2, <3>3 DEF ThreadStep
  <2> QED
    BY <2>1, <2>2
<1> QED
  BY <1>1, <1>3 DEF CarriedOut, IsPurchase, SessionOf

LEMMA FlagStep ==
  ASSUME TypeOK, OpsAgree, VectorsAgree, CopyIsFresh, FlagHasCause, [Next]_vars
  PROVE  FlagHasCause'
<1>1. ASSUME NEW s \in Sessions,
             s \in DOMAIN allAtomicsBools, allAtomicsBools[s]
      PROVE  CarriedOut(s, {"notify", "return", "done"})'
  BY <1>1, CarriedOutStays DEF FlagHasCause
<1>2. CASE UNCHANGED vars
  BY <1>1, <1>2 DEF FlagHasCause, vars, atomics
<1>3. CASE Next
  <2> PICK c \in Calls : Invoke(c) \/ ThreadStep(c)
    BY <1>3 DEF Next
  <2>1. CASE SetFlag(c)
    <3>1. CarriedOut(SessionOf(c), {"notify", "return", "done"})'
      BY <2>1 DEF SetFlag, Goto, OpsAgree, CriticalPcs, CarriedOut, IsPurchase,
                  SessionOf, TypeOK
    <3>2. SessionOf(c)' = SessionOf(c)
      BY <2>1 DEF SetFlag, SessionOf
    <3>3. ASSUME NEW s \in Sessions,
                 s \in DOMAIN allAtomicsBools', allAtomicsBools'[s]
          PROVE  CarriedOut(s, {"notify", "return", "done"})'
      <4>1. CASE s = SessionOf(c)
        BY <2>1, <3>1, <3>2, <4>1 DEF CarriedOut, SetFlag, SessionOf
      <4>2. CASE s # SessionOf(c)
        BY <1>1, <2>1, <3>3, <4>2 DEF SetFlag
      <4> QED
        BY <4>1, <4>2
    <3> QED
      BY <3>3 DEF FlagHasCause
  <2>2. CASE SwapVectors(c)
    <3>1. allAtomicsBools' = Grown(allAtomicsBools, SessionOf(c), FALSE)
      BY <2>2, SwapGrows
    <3> QED
      BY <1>1, <3>1 DEF FlagHasCause, Grown
  <2>3. CASE ~SetFlag(c) /\ ~SwapVectors(c)
    <3>1. allAtomicsBools' = allAtomicsBools
      BY <2>3 DEF ThreadStep, CallerStep, PurchaseStep, OrderStep, atomics,
         Invoke, CheckFits, AllocationThrows, CopyVectors, CopyOverruns, CountUp, CountAstray, Post, StartMain, Describe,
         LockMutex, BuyTest, BuyRefuse, BuyTake, RemoveItems, CountDown,
         TestZero, NotifyAll, ReturnTask, StartOrder, ShareForWait, FallAsleep,
         PassWait, WaitAstray, PayRefuse, Pay, Cook
    <3> QED
      BY <1>1, <3>1 DEF FlagHasCause
  <2> QED
    BY <2>1, <2>2, <2>3
<1> QED
  BY <1>2, <1>3

(* In every reachable state a flag that is up was raised by a purchase of  *)
(* its session.                                                            *)
THEOREM FlagsHaveCauses == Spec => []FlagHasCause
<1>1. Init => FlagHasCause
  BY DEF Init, FlagHasCause
<1>2. TypeOK /\ OpsAgree /\ VectorsAgree /\ CopyIsFresh /\ FlagHasCause
        /\ [Next]_vars => FlagHasCause'
  BY FlagStep
<1> QED
  BY <1>1, <1>2, TypeCorrect, OpsAlwaysAgree, CopiesAreFresh,
     VectorsAlwaysAgree, PTL DEF Spec

LEMMA OrderStepFollows ==
  ASSUME TypeOK, OpsAgree, IndexInRange, FlagHasCause, OrderFollowsAPurchase,
         [Next]_vars
  PROVE  OrderFollowsAPurchase'
<1>1. \A d \in Calls :
        /\ CarriedOut(SessionOf(d), {"notify", "return", "done"})
        => CarriedOut(SessionOf(d), {"notify", "return", "done"})'
<2>1. request' = request
  BY RequestsStay
<2> TAKE d \in Calls
<2>2. PICK s : s = SessionOf(d)
  OBVIOUS
<2>3. SessionOf(d)' = s
  BY <2>1, <2>2 DEF SessionOf
<2> QED
  BY <2>2, <2>3, CarriedOutStays DEF CarriedOut
<1>2. CASE UNCHANGED vars
  BY <1>1, <1>2 DEF OrderFollowsAPurchase, IsOrder, vars
<1>3. CASE Next
  <2> PICK c \in Calls : Invoke(c) \/ ThreadStep(c)
    BY <1>3 DEF Next
  <2>1. /\ pc \in [Calls -> AllPcs]
        /\ \A d \in Calls : IsOrder(d) /\ pc[d] \in {"pay", "cook", "done"} =>
             CarriedOut(SessionOf(d), {"notify", "return", "done"})'
    BY <1>1 DEF TypeOK, OrderFollowsAPurchase
  <2> USE <2>1 DEF OrderFollowsAPurchase, IsOrder, Goto
  <2>2. CASE PassWait(c)
    <3>1. SessionOf(c) \in Sessions /\ SessionOf(c) \in DOMAIN allAtomicsBools
      BY <2>2, RequestType DEF PassWait, InRange, SessionOf, TypeOK
    <3>2. CarriedOut(SessionOf(c), {"notify", "return", "done"})'
      BY <1>1, <2>2, <3>1 DEF PassWait, Awaited, FlagHasCause
    <3> QED
      BY <2>2, <3>2 DEF PassWait
  <2>3. CASE PayRefuse(c) \/ Pay(c) \/ Cook(c)
    BY <2>3 DEF PayRefuse, Pay, Cook
  <2>4. CASE StartOrder(c) \/ ShareForWait(c) \/ FallAsleep(c) \/ WaitAstray(c)
    BY <2>4 DEF StartOrder, ShareForWait, FallAsleep, WaitAstray
  <2>5. CASE Describe(c) \/ ReturnTask(c)
    BY <2>5 DEF Describe, ReturnTask, OpsAgree, CriticalPcs, IsPurchase, Purchases
  <2>6. CASE Invoke(c) \/ CallerStep(c) \/ StartMain(c)
    BY <2>6 DEF Invoke, CallerStep, CheckFits, AllocationThrows, CopyVectors, CopyOverruns, SwapVectors,
                AfterCheck, CountUp, CountAstray, Post, StartMain
  <2>7. CASE \/ LockMutex(c) \/ BuyTest(c) \/ BuyRefuse(c) \/ BuyTake(c)
            \/ RemoveItems(c) \/ CountDown(c) \/ TestZero(c) \/ SetFlag(c)
            \/ NotifyAll(c)
    BY <2>7 DEF LockMutex, BuyTest, BuyRefuse, BuyTake, RemoveItems, CountDown,
                TestZero, SetFlag, NotifyAll, Woken
  <2> QED
    BY <2>2, <2>3, <2>4, <2>5, <2>6, <2>7 DEF ThreadStep, PurchaseStep, OrderStep
<1> QED
  BY <1>2, <1>3

(* In every reachable state an order that has left its wait belongs to a   *)
(* session of which a purchase has been carried out.                       *)
THEOREM OrdersFollowPurchase == Spec => []OrderFollowsAPurchase
<1>1. Init => OrderFollowsAPurchase
  BY DEF Init, OrderFollowsAPurchase
<1>2. TypeOK /\ OpsAgree /\ IndexInRange /\ FlagHasCause
        /\ OrderFollowsAPurchase /\ [Next]_vars => OrderFollowsAPurchase'
  BY OrderStepFollows
<1> QED
  BY <1>1, <1>2, TypeCorrect, OpsAlwaysAgree, IndicesAreInRange,
     FlagsHaveCauses, PTL DEF Spec

-----------------------------------------------------------------------------
(* Wake-ups.                                                               *)
LEMMA WakeupStep ==
  ASSUME TypeOK, LockDiscipline, OpsAgree, VectorsAgree, IndexInRange,
         CopyIsFresh, NoLostWakeup, [Next]_vars
  PROVE  NoLostWakeup'
<1>1. CASE UNCHANGED vars
  BY <1>1 DEF NoLostWakeup, SessionOf, vars, atomics
<1>2. CASE Next
  <2> PICK c \in Calls : Invoke(c) \/ ThreadStep(c)
    BY <1>2 DEF Next
  <2>1. pc \in [Calls -> AllPcs] /\ NoCall \notin Calls
    BY ServerAssumption DEF TypeOK
  <2> USE <2>1 DEF NoLostWakeup, SessionOf, Goto, atomics
  <2>2. CASE SetFlag(c)
    <3>1. \A k : k # SessionOf(c) => allAtomicsBools'[k] = allAtomicsBools[k]
      BY <2>2 DEF SetFlag
    <3> QED
      BY <2>2, <3>1 DEF SetFlag
  <2>3. CASE NotifyAll(c)
    <3>1. \A d \in Calls : pc'[d] = "asleep" =>
            pc[d] = "asleep" /\ SessionOf(d) # SessionOf(c)
      BY <2>3 DEF NotifyAll, Woken
    <3>2. \A d \in Calls : d # c /\ pc[d] = "notify" => pc'[d] = "notify"
      BY <2>3 DEF NotifyAll, Woken
    <3>3. UNCHANGED <<request, allAtomicsBools>>
      BY <2>3 DEF NotifyAll
    <3> QED
      BY <3>1, <3>2, <3>3
  <2>4. CASE FallAsleep(c)
    BY <2>4 DEF FallAsleep, Awaited
  <2>5. CASE SwapVectors(c)
    <3>1. \A d \in Calls : pc[d] # "asleep"
      BY <2>5 DEF SwapVectors, LockDiscipline, SharingPcs, ExcludingPcs
    <3>2. \A d \in Calls : pc'[d] # "asleep"
      BY <2>5, <3>1 DEF SwapVectors, AfterCheck
    <3> QED
      BY <3>2
  <2>6. CASE \/ Invoke(c) \/ CheckFits(c) \/ AllocationThrows(c) \/ CopyVectors(c)
            \/ CopyOverruns(c) \/ CountUp(c) \/ CountAstray(c) \/ Post(c) \/ StartMain(c) \/ Describe(c)
    <3>1. /\ UNCHANGED <<request, allAtomicsBools>>
          /\ \A d \in Calls \ {c} : pc'[d] = pc[d]
          /\ pc[c] # "notify" /\ pc'[c] # "asleep"
      BY <2>6 DEF Invoke, CheckFits, AllocationThrows, CopyVectors, CopyOverruns, AfterCheck, CountUp, CountAstray, Post,
                  StartMain, Describe
    <3> QED
      BY <3>1
  <2>7. CASE \/ LockMutex(c) \/ BuyTest(c) \/ BuyRefuse(c) \/ BuyTake(c)
            \/ RemoveItems(c) \/ CountDown(c) \/ TestZero(c) \/ ReturnTask(c)
    BY <2>7 DEF LockMutex, BuyTest, BuyRefuse, BuyTake, RemoveItems, CountDown,
                TestZero, ReturnTask
  <2>8. CASE \/ StartOrder(c) \/ ShareForWait(c) \/ PassWait(c)
            \/ WaitAstray(c) \/ PayRefuse(c) \/ Pay(c) \/ Cook(c)
    BY <2>8 DEF StartOrder, ShareForWait, PassWait, WaitAstray, PayRefuse, Pay, Cook
  <2> QED
    BY <2>2, <2>3, <2>4, <2>5, <2>6, <2>7, <2>8
       DEF ThreadStep, CallerStep, PurchaseStep, OrderStep
<1> QED
  BY <1>1, <1>2

(* In every reachable state an order asleep on a flag that is up is about  *)
(* to be woken.                                                            *)
THEOREM WakeupsAreNotLost == Spec => []NoLostWakeup
<1>1. Init => NoLostWakeup
  BY DEF Init, NoLostWakeup
<1>2. TypeOK /\ LockDiscipline /\ OpsAgree /\ VectorsAgree /\ IndexInRange
        /\ CopyIsFresh /\ NoLostWakeup /\ [Next]_vars => NoLostWakeup'
  BY WakeupStep
<1> QED
  BY <1>1, <1>2, TypeCorrect, LocksAreDisciplined, OpsAlwaysAgree,
     VectorsAlwaysAgree, IndicesAreInRange, CopiesAreFresh, PTL DEF Spec

-----------------------------------------------------------------------------
(* Settled sessions.  The property of a session survives a step that       *)
(* changes nothing of what it speaks of.                                   *)
LEMMA SettledKept ==
  ASSUME NEW s \in Sessions, FlaggedWhenSettled(s), request' = request,
         InFlight(s)' = InFlight(s),
         \A d \in Calls : IsPurchase(d) /\ SessionOf(d) = s =>
           /\ pc'[d] \in {"tested", "flag", "notify", "return", "done"} =>
                pc[d] \in {"tested", "flag", "notify", "return", "done"}
           /\ pc[d] \in {"tested", "flag"} => pc'[d] \in {"tested", "flag"},
         s \in DOMAIN allAtomicsBools /\ allAtomicsBools[s] =>
           s \in DOMAIN allAtomicsBools' /\ allAtomicsBools'[s]
  PROVE  FlaggedWhenSettled(s)'
<1>1. CarriedOut(s, {"tested", "flag", "notify", "return", "done"})'
        => CarriedOut(s, {"tested", "flag", "notify", "return", "done"})
  BY DEF CarriedOut, IsPurchase, SessionOf
<1>2. CarriedOut(s, {"tested", "flag"}) => CarriedOut(s, {"tested", "flag"})'
  BY DEF CarriedOut, IsPurchase, SessionOf
<1> QED
  BY <1>1, <1>2 DEF FlaggedWhenSettled

LEMMA SettledStep ==
  ASSUME TypeOK, OpsAgree, VectorsAgree, CopyIsFresh, IndexInRange,
         CountIsInFlight, SettledIsFlagged, [Next]_vars
  PROVE  SettledIsFlagged'
<1>1. /\ pc \in [Calls -> AllPcs]
      /\ DOMAIN allAtomicsBools = DOMAIN allAtomicsCount
  BY DEF TypeOK, VectorsAgree
<1>2. SUFFICES ASSUME NEW s \in Sessions PROVE FlaggedWhenSettled(s)'
  BY DEF SettledIsFlagged
<1>3. FlaggedWhenSettled(s)
  BY DEF SettledIsFlagged
<1>4. CASE UNCHANGED vars
  BY <1>3, <1>4 DEF FlaggedWhenSettled, CarriedOut, InFlight, IsPurchase,
                    SessionOf, vars, atomics
<1>5. CASE Next
  <2> PICK c \in Calls : Invoke(c) \/ ThreadStep(c)
    BY <1>5 DEF Next
  <2>1. CASE CountUp(c)
    <3>1. CASE SessionOf(c) = s
      <4>1. c \in InFlight(s)'
        BY <1>1, <2>1, <3>1 DEF CountUp, OpsAgree, InFlight, InFlightPcs,
           IsPurchase, SessionOf, Goto
      <4> QED
        BY <4>1 DEF FlaggedWhenSettled
    <3>2. CASE SessionOf(c) # s
      <4>1. request' = request /\ allAtomicsBools' = allAtomicsBools
        BY <2>1 DEF CountUp
      <4>2. \A d \in Calls \ {c} : pc'[d] = pc[d]
        BY <1>1, <2>1 DEF CountUp, Goto
      <4>3. InFlight(s)' = InFlight(s)
        BY <3>2, <4>1, <4>2 DEF InFlight, IsPurchase, SessionOf
      <4> QED
        BY <1>3, <3>2, <4>1, <4>2, <4>3, SettledKept
    <3> QED
      BY <3>1, <3>2
  <2>2. CASE CountDown(c)
    <3>1. CASE SessionOf(c) = s
      <4>1. CarriedOut(s, {"tested", "flag"})'
        BY <1>1, <2>2, <3>1 DEF CountDown, OpsAgree, CriticalPcs, CarriedOut,
           IsPurchase, SessionOf, Goto
      <4> QED
        BY <4>1 DEF FlaggedWhenSettled
    <3>2. CASE SessionOf(c) # s
      <4>1. request' = request /\ allAtomicsBools' = allAtomicsBools
        BY <2>2 DEF CountDown
      <4>2. \A d \in Calls \ {c} : pc'[d] = pc[d]
        BY <1>1, <2>2 DEF CountDown, Goto
      <4>3. InFlight(s)' = InFlight(s)
        BY <3>2, <4>1, <4>2 DEF InFlight, IsPurchase, SessionOf
      <4> QED
        BY <1>3, <3>2, <4>1, <4>2, <4>3, SettledKept
    <3> QED
      BY <3>1, <3>2
  <2>3. CASE TestZero(c)
    <3>1. /\ request' = request /\ allAtomicsBools' = allAtomicsBools
          /\ InFlight(s)' = InFlight(s)
      BY <2>3, InFlightKept DEF TestZero, atomics, CountUp, CountDown, Goto
    <3>2. CASE SessionOf(c) = s /\ allAtomicsCount[s] # 0
      <4>1. InFlight(s) # {}
        <5>1. s \in DOMAIN allAtomicsCount
          BY <2>3, <3>2 DEF TestZero, Goto, OpsAgree, CriticalPcs, IndexInRange,
             Sized, Unindexed, IsPurchase, Purchases, SessionOf
        <5>2. Cardinality({}) = 0
          BY FS_EmptySet
        <5> QED
          BY <3>2, <5>1, <5>2 DEF CountIsInFlight
      <4> QED
        BY <3>1, <4>1 DEF FlaggedWhenSettled
    <3>3. CASE ~(SessionOf(c) = s /\ allAtomicsCount[s] # 0)
      BY <1>1, <1>3, <2>3, <3>1, <3>3, SettledKept DEF TestZero, CountsZero, Goto
    <3> QED
      BY <3>2, <3>3
  <2>4. CASE SetFlag(c)
    <3>1. /\ request' = request /\ InFlight(s)' = InFlight(s)
          /\ DOMAIN allAtomicsBools' = DOMAIN allAtomicsBools
      BY <2>4, InFlightKept DEF SetFlag, CountUp, CountDown, Goto
    <3>2. CASE SessionOf(c) = s
      <4>1. s \in DOMAIN allAtomicsBools
        BY <2>4, <3>2 DEF SetFlag, Goto, OpsAgree, CriticalPcs, IndexInRange,
           Sized, Unindexed, IsPurchase, Purchases, SessionOf
      <4>2. s \in DOMAIN allAtomicsBools' /\ allAtomicsBools'[s]
        BY <2>4, <3>1, <3>2, <4>1 DEF SetFlag
      <4> QED
        BY <4>2 DEF FlaggedWhenSettled
    <3>3. CASE SessionOf(c) # s
      BY <1>1, <1>3, <2>4, <3>1, <3>3, SettledKept DEF SetFlag, Goto
    <3> QED
      BY <3>2, <3>3
  <2>5. CASE SwapVectors(c)
    <3>1. /\ request' = request /\ InFlight(s)' = InFlight(s)
      BY <2>5, InFlightKept DEF SwapVectors, CountUp, CountDown, Goto
    <3>2. s \in DOMAIN allAtomicsBools /\ allAtomicsBools[s] =>
            s \in DOMAIN allAtomicsBools' /\ allAtomicsBools'[s]
      BY <1>1, <2>5, SwapGrows DEF Grown, VectorsAgree
    <3> QED
      BY <1>1, <1>3, <2>5, <3>1, <3>2, SettledKept
         DEF SwapVectors, AfterCheck, Goto
  <2>6. CASE /\ ~CountUp(c) /\ ~CountDown(c) /\ ~TestZero(c)
             /\ ~SetFlag(c) /\ ~SwapVectors(c)
    <3>1. InFlight(s)' = InFlight(s)
      BY <2>6, InFlightKept
    <3>2. /\ request' = request /\ allAtomicsBools' = allAtomicsBools
          /\ \A d \in Calls : IsPurchase(d) =>
               /\ pc'[d] \in {"tested", "flag", "notify", "return", "done"} =>
                    pc[d] \in {"tested", "flag", "notify", "return", "done"}
               /\ pc[d] \in {"tested", "flag"} => pc'[d] \in {"tested", "flag"}
      <4> USE <1>1 DEF atomics, Goto
      <4>1. CASE \/ Invoke(c) \/ CheckFits(c) \/ AllocationThrows(c) \/ CopyVectors(c)
               \/ CopyOverruns(c) \/ CountAstray(c) \/ Post(c)
        BY <4>1 DEF Invoke, CheckFits, AllocationThrows, CopyVectors, CopyOverruns, AfterCheck,
                    CountAstray, Post
      <4>2. CASE StartMain(c) \/ LockMutex(c)
        BY <4>2 DEF StartMain, LockMutex
      <4>3. CASE Describe(c) \/ PayRefuse(c) \/ Pay(c) \/ Cook(c)
        BY <4>3 DEF Describe, PayRefuse, Pay, Cook, OpsAgree, OrderPcs,
           IsPurchase, Purchases, IsOrder
      <4>4. CASE BuyTest(c) \/ BuyRefuse(c) \/ BuyTake(c) \/ RemoveItems(c)
        BY <4>4 DEF BuyTest, BuyRefuse, BuyTake, RemoveItems
      <4>5. CASE NotifyAll(c)
        BY <4>5 DEF NotifyAll, Woken
      <4>6. CASE ReturnTask(c)
        BY <4>6 DEF ReturnTask
      <4>7. CASE StartOrder(c) \/ ShareForWait(c) \/ FallAsleep(c) \/ PassWait(c) \/ WaitAstray(c)
        BY <4>7 DEF StartOrder, ShareForWait, FallAsleep, PassWait, WaitAstray
      <4> QED
        BY <2>6, <4>1, <4>2, <4>3, <4>4, <4>5, <4>6, <4>7
           DEF ThreadStep, CallerStep, PurchaseStep, OrderStep
    <3> QED
      BY <1>3, <3>1, <3>2, SettledKept
  <2> QED
    BY <2>1, <2>2, <2>3, <2>4, <2>5, <2>6
<1> QED
  BY <1>4, <1>5

(* In every reachable state a session with nothing in flight any more has  *)
(* its flag up, or a thread on its way to raise it.                        *)
THEOREM SettledSessionsAreFlagged == Spec => []SettledIsFlagged
<1>1. Init => SettledIsFlagged
  BY DEF Init, SettledIsFlagged, FlaggedWhenSettled, CarriedOut
<1>2. TypeOK /\ OpsAgree /\ VectorsAgree /\ CopyIsFresh /\ IndexInRange
        /\ CountIsInFlight /\ SettledIsFlagged /\ [Next]_vars
        => SettledIsFlagged'
  BY SettledStep
<1> QED
  BY <1>1, <1>2, TypeCorrect, OpsAlwaysAgree, VectorsAlwaysAgree,
     CopiesAreFresh, IndicesAreInRange, CountsAreInFlight, PTL DEF Spec

-----------------------------------------------------------------------------
(* Answers.  The steps of a task pass its callback once.                   *)
LEMMA ReplyStep == TypeOK /\ OpsAgree /\ RepliesAgree /\ [Next]_vars => RepliesAgree'
<1> SUFFICES ASSUME TypeOK, OpsAgree, RepliesAgree, [Next]_vars
             PROVE  RepliesAgree'
  OBVIOUS
<1>1. CASE UNCHANGED vars
  BY <1>1 DEF RepliesAgree, Answered, vars
<1>2. CASE Next
  <2> PICK c \in Calls : Invoke(c) \/ ThreadStep(c)
    BY <1>2 DEF Next
  <2>1. /\ pc \in [Calls -> AllPcs] /\ reply \in [Calls -> Statuses]
        /\ request[c].op \in Ops
    BY RequestType DEF TypeOK
  <2> USE <2>1 DEF RepliesAgree, Answered, Goto, Answer
  <2>2. CASE Invoke(c) \/ CheckFits(c) \/ AllocationThrows(c) \/ CopyVectors(c) \/ CopyOverruns(c)
    <3>1. CASE Invoke(c)
      BY <3>1 DEF Invoke
    <3>2. CASE CheckFits(c) \/ AllocationThrows(c)
      BY <3>2 DEF CheckFits, AllocationThrows, AfterCheck
    <3>3. CASE CopyVectors(c) \/ CopyOverruns(c)
      BY <3>3 DEF CopyVectors, CopyOverruns
    <3> QED BY <2>2, <3>1, <3>2, <3>3
  <2>3. CASE SwapVectors(c) \/ CountUp(c) \/ CountAstray(c) \/ Post(c) \/ StartMain(c)
    <3>1. CASE SwapVectors(c)
      BY <3>1 DEF SwapVectors, AfterCheck
    <3>2. CASE CountUp(c) \/ CountAstray(c) \/ Post(c)
      BY <3>2 DEF CountUp, CountAstray, Post
    <3>3. CASE StartMain(c)
      BY <3>3 DEF StartMain
    <3> QED
      BY <2>3, <3>1, <3>2, <3>3
  <2>4. CASE Describe(c)
    BY <2>4 DEF Describe, OpsAgree
  <2>5. CASE LockMutex(c) \/ BuyTest(c)
    BY <2>5 DEF LockMutex, BuyTest
  <2>6. CASE BuyRefuse(c)
    BY <2>6 DEF BuyRefuse
  <2>7. CASE BuyTake(c)
    BY <2>7 DEF BuyTake, OpsAgree
  <2>8. CASE RemoveItems(c)
    BY <2>8 DEF RemoveItems
  <2>9. CASE CountDown(c) \/ TestZero(c) \/ SetFlag(c)
    BY <2>9 DEF CountDown, TestZero, SetFlag
  <2>10. CASE NotifyAll(c)
    <3>1. UNCHANGED <<request, reply>>
      BY <2>10 DEF NotifyAll
    <3>2. ASSUME NEW d \in Calls
          PROVE  Answered(d)' <=> Answered(d)
      BY <2>10, <3>1, <3>2 DEF NotifyAll, Woken
    <3> QED
      BY <3>1, <3>2
  <2>11. CASE ReturnTask(c)
    <3>1. request[c].op \in {"buy", "remove"}
      BY <2>11 DEF ReturnTask, OpsAgree, CriticalPcs, IsPurchase, Purchases
    <3> QED
      BY <2>11, <3>1 DEF ReturnTask
  <2>12. CASE StartOrder(c) \/ ShareForWait(c) \/ FallAsleep(c) \/ PassWait(c) \/ WaitAstray(c)
    <3>1. CASE StartOrder(c) \/ ShareForWait(c)
      BY <3>1 DEF StartOrder, ShareForWait
    <3>2. CASE FallAsleep(c) \/ PassWait(c) \/ WaitAstray(c)
      BY <3>2 DEF FallAsleep, PassWait, WaitAstray
    <3> QED
      BY <2>12, <3>1, <3>2
  <2>13. CASE Pay(c)
    BY <2>13 DEF Pay
  <2>14. CASE PayRefuse(c)
    BY <2>14 DEF PayRefuse, OpsAgree, OrderPcs, IsOrder
  <2>15. CASE Cook(c)
    BY <2>15 DEF Cook, OpsAgree, OrderPcs, IsOrder
  <2> QED
    BY <2>2, <2>3, <2>4, <2>5, <2>6, <2>7, <2>8, <2>9, <2>10, <2>11, <2>12,
       <2>13, <2>14, <2>15 DEF ThreadStep, CallerStep, PurchaseStep, OrderStep
<1> QED
  BY <1>1, <1>2

(* In every reachable state a call has been answered exactly if it has got *)
(* past its callback.                                                      *)
THEOREM RepliesAlwaysAgree == Spec => []RepliesAgree
<1>1. Init => RepliesAgree
  BY DEF Init, RepliesAgree, Answered
<1> QED
  BY <1>1, ReplyStep, TypeCorrect, OpsAlwaysAgree, PTL DEF Spec

-----------------------------------------------------------------------------
(* What a step of one call leaves to the modules that build on this one.   *)

(* A step of a call makes no other call, answers none, and undoes nothing. *)
LEMMA ServerStepOf ==
  ASSUME TypeOK, NEW c \in Calls, ThreadStep(c)
  PROVE  /\ pc[c] \notin {"new", "thrown", "done", "overrun", "astray"}
         /\ \A d \in Calls : pc'[d] = "new" <=> pc[d] = "new"
         /\ \A d \in Calls : pc[d] = "done" => pc'[d] = "done"
         /\ \A d \in Calls \ {c} : reply'[d] = reply[d]
         /\ request' = request
<1> USE DEF TypeOK, Goto, Answer
<1>1. CASE CallerStep(c)
  BY <1>1 DEF CallerStep, CheckFits, AllocationThrows, CopyVectors, CopyOverruns, SwapVectors, CountUp, CountAstray, Post, AfterCheck
<1>2. CASE StartMain(c) \/ Describe(c)
  BY <1>2 DEF StartMain, Describe
<1>3. CASE NotifyAll(c)
  BY <1>3 DEF NotifyAll, Woken
<1>4. CASE LockMutex(c) \/ BuyTest(c) \/ BuyRefuse(c) \/ BuyTake(c) \/ RemoveItems(c)
  BY <1>4 DEF LockMutex, BuyTest, BuyRefuse, BuyTake, RemoveItems
<1>5. CASE CountDown(c) \/ TestZero(c) \/ SetFlag(c) \/ ReturnTask(c)
  BY <1>5 DEF CountDown, TestZero, SetFlag, ReturnTask
<1>6. CASE StartOrder(c) \/ ShareForWait(c) \/ FallAsleep(c) \/ PassWait(c) \/ WaitAstray(c)
  BY <1>6 DEF StartOrder, ShareForWait, FallAsleep, PassWait, WaitAstray
<1>7. CASE PayRefuse(c) \/ Pay(c) \/ Cook(c)
  BY <1>7 DEF PayRefuse, Pay, Cook
<1> QED BY <1>1, <1>2, <1>3, <1>4, <1>5, <1>6, <1>7 DEF ThreadStep, PurchaseStep, OrderStep

(* No thread is in a call but the one that made it.                        *)
LEMMA ServerCallers ==
  ASSUME TypeOK, NEW c \in Calls, ThreadStep(c)
  PROVE  \A d \in Calls : pc'[d] \in CallerPcs => pc[d] \in CallerPcs
<1> USE DEF TypeOK, Goto, CallerPcs
<1>1. CASE CallerStep(c)
  BY <1>1 DEF CallerStep, CheckFits, AllocationThrows, CopyVectors, CopyOverruns, SwapVectors, CountUp, CountAstray, Post
<1>2. CASE StartMain(c) \/ Describe(c)
  BY <1>2 DEF StartMain, Describe
<1>3. CASE NotifyAll(c)
  BY <1>3 DEF NotifyAll, Woken
<1>4. CASE LockMutex(c) \/ BuyTest(c) \/ BuyRefuse(c) \/ BuyTake(c) \/ RemoveItems(c)
  BY <1>4 DEF LockMutex, BuyTest, BuyRefuse, BuyTake, RemoveItems
<1>5. CASE CountDown(c) \/ TestZero(c) \/ SetFlag(c) \/ ReturnTask(c)
  BY <1>5 DEF CountDown, TestZero, SetFlag, ReturnTask
<1>6. CASE StartOrder(c) \/ ShareForWait(c) \/ FallAsleep(c) \/ PassWait(c) \/ WaitAstray(c)
  BY <1>6 DEF StartOrder, ShareForWait, FallAsleep, PassWait, WaitAstray
<1>7. CASE PayRefuse(c) \/ Pay(c) \/ Cook(c)
  BY <1>7 DEF PayRefuse, Pay, Cook
<1> QED BY <1>1, <1>2, <1>3, <1>4, <1>5, <1>6, <1>7 DEF ThreadStep, PurchaseStep, OrderStep

(* A call is answered once.                                                *)
LEMMA AnsweredOnce ==
  ASSUME TypeOK, OpsAgree, RepliesAgree, NEW c \in Calls, ThreadStep(c),
         reply'[c] # reply[c]
  PROVE  reply[c] = "none"
<1> USE DEF TypeOK, Goto, Answer, RepliesAgree, Answered
<1>1. CASE CallerStep(c)
  BY <1>1 DEF CallerStep, CheckFits, AllocationThrows, CopyVectors, CopyOverruns, SwapVectors, CountUp, CountAstray, Post
<1>2. CASE StartMain(c) \/ Describe(c)
  BY <1>2 DEF StartMain, Describe, OpsAgree
<1>3. CASE NotifyAll(c)
  BY <1>3 DEF NotifyAll
<1>4. CASE LockMutex(c) \/ BuyTest(c) \/ BuyRefuse(c) \/ BuyTake(c) \/ RemoveItems(c)
  BY <1>4 DEF LockMutex, BuyTest, BuyRefuse, BuyTake, RemoveItems
<1>5. CASE CountDown(c) \/ TestZero(c) \/ SetFlag(c) \/ ReturnTask(c)
  BY <1>5 DEF CountDown, TestZero, SetFlag, ReturnTask
<1>6. CASE StartOrder(c) \/ ShareForWait(c) \/ FallAsleep(c) \/ PassWait(c) \/ WaitAstray(c)
  BY <1>6 DEF StartOrder, ShareForWait, FallAsleep, PassWait, WaitAstray
<1>7. CASE PayRefuse(c) \/ Pay(c) \/ Cook(c)
  BY <1>7 DEF PayRefuse, Pay, Cook, OpsAgree, IsOrder, OrderPcs
<1> QED BY <1>1, <1>2, <1>3, <1>4, <1>5, <1>6, <1>7 DEF ThreadStep, PurchaseStep, OrderStep

(* A queue holds each call once, and only calls that wait in it.           *)
QueueAgrees(queue) ==
  /\ \A k \in 1 .. Len(queue) : pc[queue[k]] = "queued"
  /\ \A k, l \in 1 .. Len(queue) : queue[k] = queue[l] => k = l

QueuesAgree == QueueAgrees(mainQueue) /\ QueueAgrees(orderQueue)

LEMMA QueuesStep == TypeOK /\ OpsAgree /\ QueuesAgree /\ [Next]_vars => QueuesAgree'
<1> SUFFICES ASSUME TypeOK, OpsAgree, QueuesAgree, [Next]_vars
             PROVE  QueuesAgree'
  OBVIOUS
<1>0. mainQueue \in Seq(Calls) /\ orderQueue \in Seq(Calls) /\ pc \in [Calls -> AllPcs]
  BY DEF TypeOK
<1>1. ASSUME UNCHANGED queues, \A d \in Calls : pc[d] = "queued" => pc'[d] = "queued"
      PROVE  QueuesAgree'
  BY <1>0, <1>1 DEF QueuesAgree, QueueAgrees, queues
<1>2. CASE UNCHANGED vars
  BY <1>1, <1>2 DEF vars
<1>3. ASSUME NEW c \in Calls, Post(c)
      PROVE  QueuesAgree'
  <2>1. ASSUME NEW q \in Seq(Calls), QueueAgrees(q)
        PROVE  /\ \A k \in 1 .. Len(q) : pc'[q[k]] = "queued"
               /\ \A k \in 1 .. Len(q) : q[k] # c
    BY <1>0, <1>3, <2>1 DEF Post, Goto, QueueAgrees
  <2>2. ASSUME NEW q \in Seq(Calls), QueueAgrees(q)
        PROVE  /\ \A k \in 1 .. Len(Append(q, c)) : pc'[Append(q, c)[k]] = "queued"
               /\ \A k, l \in 1 .. Len(Append(q, c)) : Append(q, c)[k] = Append(q, c)[l] => k = l
    <3>1. /\ Len(Append(q, c)) = Len(q) + 1 /\ Len(q) \in Nat
          /\ \A k \in 1 .. Len(q) : Append(q, c)[k] = q[k] /\ Append(q, c)[k] # c
          /\ Append(q, c)[Len(q) + 1] = c
      BY <2>1, <2>2
    <3>2. pc'[c] = "queued"
      BY <1>0, <1>3 DEF Post, Goto
    <3>3. \A k \in 1 .. Len(Append(q, c)) : k \in 1 .. Len(q) \/ k = Len(q) + 1
      BY <3>1
    <3>4. \A k \in 1 .. Len(q) : pc'[q[k]] = "queued"
      BY <2>1, <2>2
    <3>5. \A k, l \in 1 .. Len(q) : q[k] = q[l] => k = l
      BY <2>2 DEF QueueAgrees
    <3>6. \A k \in 1 .. Len(Append(q, c)) : pc'[Append(q, c)[k]] = "queued"
      BY <3>1, <3>2, <3>3, <3>4
    <3>7. ASSUME NEW k \in 1 .. Len(Append(q, c)), NEW l \in 1 .. Len(Append(q, c)),
                 Append(q, c)[k] = Append(q, c)[l]
          PROVE  k = l
      BY <3>1, <3>3, <3>5, <3>7
    <3> QED BY <3>6, <3>7
  <2>3. CASE orderQueue' = Append(orderQueue, c) /\ mainQueue' = mainQueue
    BY <1>0, <2>1, <2>2, <2>3 DEF QueuesAgree, QueueAgrees
  <2>4. CASE mainQueue' = Append(mainQueue, c) /\ orderQueue' = orderQueue
    BY <1>0, <2>1, <2>2, <2>4 DEF QueuesAgree, QueueAgrees
  <2> QED BY <1>3, <2>3, <2>4 DEF Post
<1>4. ASSUME NEW c \in Calls, NEW q \in Seq(Calls), NEW r \in Seq(Calls),
             QueueAgrees(q), QueueAgrees(r), q # <<>>, Head(q) = c,
             \A k \in 1 .. Len(r) : r[k] # c,
             \A d \in Calls \ {c} : pc'[d] = pc[d]
      PROVE  /\ \A k \in 1 .. Len(Tail(q)) : pc'[Tail(q)[k]] = "queued"
             /\ \A k, l \in 1 .. Len(Tail(q)) : Tail(q)[k] = Tail(q)[l] => k = l
             /\ \A k \in 1 .. Len(r) : pc'[r[k]] = "queued"
  <2>1. /\ Len(Tail(q)) = Len(q) - 1 /\ Len(q) \in Nat \ {0} /\ q[1] = c
        /\ \A k \in 1 .. Len(Tail(q)) : Tail(q)[k] = q[k + 1]
    BY <1>4
  <2>2. ASSUME NEW k \in 1 .. Len(Tail(q))
        PROVE  /\ k + 1 \in 1 .. Len(q) /\ Tail(q)[k] = q[k + 1] /\ Tail(q)[k] # c
               /\ Tail(q)[k] \in Calls /\ pc[Tail(q)[k]] = "queued"
    BY <1>4, <2>1 DEF QueueAgrees
  <2>3. \A k, l \in 1 .. Len(Tail(q)) : Tail(q)[k] = Tail(q)[l] => k = l
    BY <1>4, <2>2 DEF QueueAgrees
  <2> QED BY <1>4, <2>2, <2>3 DEF QueueAgrees
<1>5. ASSUME NEW c \in Calls, StartMain(c)
      PROVE  QueuesAgree'
  <2>1. ~IsOrder(c)
    <3>1. mainQueue[1] = c /\ Len(mainQueue) >= 1
      BY <1>0, <1>5 DEF StartMain
    <3> QED BY <1>0, <3>1 DEF OpsAgree
  <2>2. \A k \in 1 .. Len(orderQueue) : orderQueue[k] # c
    BY <2>1 DEF OpsAgree
  <2>3. \A d \in Calls \ {c} : pc'[d] = pc[d]
    BY <1>0, <1>5 DEF StartMain, Goto
  <2> QED BY <1>0, <1>4, <1>5, <2>2, <2>3 DEF StartMain, QueuesAgree, QueueAgrees
<1>6. ASSUME NEW c \in Calls, StartOrder(c)
      PROVE  QueuesAgree'
  <2>1. IsOrder(c)
    <3>1. orderQueue[1] = c /\ Len(orderQueue) >= 1
      BY <1>0, <1>6 DEF StartOrder
    <3> QED BY <1>0, <3>1 DEF OpsAgree
  <2>2. \A k \in 1 .. Len(mainQueue) : mainQueue[k] # c
    BY <2>1 DEF OpsAgree
  <2>3. \A d \in Calls \ {c} : pc'[d] = pc[d]
    BY <1>0, <1>6 DEF StartOrder, Goto
  <2> QED BY <1>0, <1>4, <1>6, <2>2, <2>3 DEF StartOrder, QueuesAgree, QueueAgrees
<1>7. ASSUME NEW c \in Calls,
             \/ Invoke(c) \/ CheckFits(c) \/ AllocationThrows(c) \/ CopyVectors(c) \/ CopyOverruns(c)
             \/ SwapVectors(c) \/ CountUp(c) \/ CountAstray(c) \/ Describe(c) \/ LockMutex(c) \/ BuyTest(c) \/ BuyRefuse(c) \/ BuyTake(c)
      PROVE  QueuesAgree'
  BY <1>0, <1>1, <1>7 DEF Goto, queues, Invoke, CheckFits, AllocationThrows, CopyVectors, CopyOverruns,
     SwapVectors, CountUp, CountAstray, Describe, LockMutex, BuyTest, BuyRefuse, BuyTake
<1>8. ASSUME NEW c \in Calls,
             \/ RemoveItems(c) \/ CountDown(c) \/ TestZero(c) \/ SetFlag(c) \/ ReturnTask(c)
             \/ ShareForWait(c) \/ FallAsleep(c) \/ PassWait(c) \/ WaitAstray(c) \/ PayRefuse(c) \/ Pay(c) \/ Cook(c)
      PROVE  QueuesAgree'
  BY <1>0, <1>1, <1>8 DEF Goto, queues, RemoveItems, CountDown, TestZero, SetFlag, ReturnTask,
     ShareForWait, FallAsleep, PassWait, WaitAstray, PayRefuse, Pay, Cook
<1>9. ASSUME NEW c \in Calls, NotifyAll(c)
      PROVE  QueuesAgree'
  BY <1>0, <1>1, <1>9 DEF queues, NotifyAll, Woken
<1> QED
  BY <1>2, <1>3, <1>5, <1>6, <1>7, <1>8, <1>9
  DEF Next, ThreadStep, CallerStep, PurchaseStep, OrderStep

(* No task is posted, or started, twice.                                   *)
THEOREM QueuesAlwaysAgree == Spec => []QueuesAgree
<1>1. Init => QueuesAgree
  BY DEF Init, QueuesAgree, QueueAgrees
<1> QED
  BY <1>1, QueuesStep, TypeCorrect, OpsAlwaysAgree, PTL DEF Spec

(* A call that has been posted is in one of the queues until it starts.    *)
IsIn(c, queue) == \E k \in 1 .. Len(queue) : queue[k] = c

QueuedIsInQueue ==
  \A c \in Calls : pc[c] = "queued" => IsIn(c, mainQueue) \/ IsIn(c, orderQueue)

LEMMA QueueKeeps ==
  ASSUME NEW q \in Seq(Calls), NEW c \in Calls, NEW d \in Calls
  PROVE  /\ IsIn(c, Append(q, c))
         /\ IsIn(d, q) => IsIn(d, Append(q, c))
         /\ IsIn(d, q) /\ d # Head(q) => IsIn(d, Tail(q))
<1>1. /\ Len(Append(q, c)) = Len(q) + 1 /\ Len(q) \in Nat
      /\ \A k \in 1 .. Len(q) : Append(q, c)[k] = q[k] /\ k \in 1 .. Len(q) + 1
      /\ Append(q, c)[Len(q) + 1] = c /\ Len(q) + 1 \in 1 .. Len(q) + 1
  OBVIOUS
<1>2. ASSUME IsIn(d, q), d # Head(q) PROVE IsIn(d, Tail(q))
  <2>1. PICK k \in 1 .. Len(q) : q[k] = d
    BY <1>2 DEF IsIn
  <2>2. q # <<>> /\ Head(q) = q[1] /\ k # 1
    BY <1>2, <2>1
  <2>3. k - 1 \in 1 .. Len(Tail(q)) /\ Tail(q)[k - 1] = q[k]
    BY <2>1, <2>2
  <2> QED BY <2>1, <2>3 DEF IsIn
<1> QED BY <1>1, <1>2 DEF IsIn

LEMMA QueuedStep == TypeOK /\ QueuedIsInQueue /\ [Next]_vars => QueuedIsInQueue'
<1> SUFFICES ASSUME TypeOK, QueuedIsInQueue, [Next]_vars
             PROVE  QueuedIsInQueue'
  OBVIOUS
<1>0. mainQueue \in Seq(Calls) /\ orderQueue \in Seq(Calls) /\ pc \in [Calls -> AllPcs]
  BY DEF TypeOK
<1>1. ASSUME UNCHANGED queues, \A d \in Calls : pc'[d] = "queued" => pc[d] = "queued"
      PROVE  QueuedIsInQueue'
  BY <1>1 DEF QueuedIsInQueue, IsIn, queues
<1>2. CASE UNCHANGED vars
  BY <1>1, <1>2 DEF vars
<1>3. ASSUME NEW c \in Calls, Post(c)
      PROVE  QueuedIsInQueue'
  <2> SUFFICES ASSUME NEW d \in Calls, pc'[d] = "queued"
               PROVE  IsIn(d, mainQueue') \/ IsIn(d, orderQueue')
    BY DEF QueuedIsInQueue, IsIn
  <2>1. d = c \/ IsIn(d, mainQueue) \/ IsIn(d, orderQueue)
    BY <1>0, <1>3 DEF Post, Goto, QueuedIsInQueue
  <2> QED BY <1>0, <1>3, <2>1, QueueKeeps DEF Post
<1>4. ASSUME NEW c \in Calls, StartMain(c) \/ StartOrder(c)
      PROVE  QueuedIsInQueue'
  <2> SUFFICES ASSUME NEW d \in Calls, pc'[d] = "queued"
               PROVE  IsIn(d, mainQueue') \/ IsIn(d, orderQueue')
    BY DEF QueuedIsInQueue, IsIn
  <2>1. d # c /\ (IsIn(d, mainQueue) \/ IsIn(d, orderQueue))
    BY <1>0, <1>4 DEF StartMain, StartOrder, Goto, QueuedIsInQueue
  <2>2. CASE StartMain(c)
    BY <1>0, <2>1, <2>2, QueueKeeps DEF StartMain
  <2>3. CASE StartOrder(c)
    BY <1>0, <2>1, <2>3, QueueKeeps DEF StartOrder
  <2> QED BY <1>4, <2>2, <2>3
<1>5. ASSUME NEW c \in Calls,
             \/ Invoke(c) \/ CheckFits(c) \/ AllocationThrows(c) \/ CopyVectors(c) \/ CopyOverruns(c)
             \/ SwapVectors(c) \/ CountUp(c) \/ CountAstray(c) \/ Describe(c) \/ LockMutex(c) \/ BuyTest(c) \/ BuyRefuse(c) \/ BuyTake(c)
      PROVE  QueuedIsInQueue'
  BY <1>0, <1>1, <1>5 DEF Goto, queues, Invoke, CheckFits, AllocationThrows, CopyVectors, CopyOverruns,
     SwapVectors, CountUp, CountAstray, AfterCheck, Describe, LockMutex, BuyTest, BuyRefuse, BuyTake
<1>6. ASSUME NEW c \in Calls,
             \/ RemoveItems(c) \/ CountDown(c) \/ TestZero(c) \/ SetFlag(c) \/ ReturnTask(c)
             \/ ShareForWait(c) \/ FallAsleep(c) \/ PassWait(c) \/ WaitAstray(c) \/ PayRefuse(c) \/ Pay(c) \/ Cook(c)
      PROVE  QueuedIsInQueue'
  BY <1>0, <1>1, <1>6 DEF Goto, queues, RemoveItems, CountDown, TestZero, SetFlag, ReturnTask,
     ShareForWait, FallAsleep, PassWait, WaitAstray, PayRefuse, Pay, Cook
<1>7. ASSUME NEW c \in Calls, NotifyAll(c)
      PROVE  QueuedIsInQueue'
  BY <1>0, <1>1, <1>7 DEF queues, NotifyAll, Woken
<1> QED
  BY <1>2, <1>3, <1>4, <1>5, <1>6, <1>7
  DEF Next, ThreadStep, CallerStep, PurchaseStep, OrderStep

(* No task is lost between asio::post and the pool's thread.               *)
THEOREM QueuedCallsAreInQueue == Spec => []QueuedIsInQueue
<1>1. Init => QueuedIsInQueue
  BY DEF Init, QueuedIsInQueue
<1> QED
  BY <1>1, QueuedStep, TypeCorrect, PTL DEF Spec

-----------------------------------------------------------------------------
(* Where nothing can step, an order sleeps: it alone can hold what others  *)
(* wait for, and the head of a queue waits for nothing but a thread.       *)
LEMMA StuckMeansAsleep ==
  ASSUME TypeOK, LockDiscipline, OpsAgree, QueuesAgree, QueuedIsInQueue, Stuck
  PROVE  /\ \E d \in Calls : pc[d] = "asleep"
         /\ \A c \in Calls : Unfinished(c) =>
              \/ pc[c] \in {"asleep", "check"}
              \/ pc[c] = "queued" /\ IsOrder(c)
              \/ WriterPreferring /\ pc[c] \in {"count", "release", "await", "start", "pay", "queued"}
<1>1. /\ Defined
      /\ \A c \in Calls : pc[c] \in AllPcs \ StrayPcs /\ ~CanStep(c)
  BY DEF TypeOK, Stuck, Defined
<1>2. \A c \in Calls : Unfinished(c) =>
        pc[c] \in {"asleep", "check", "count", "release", "await", "start", "pay", "queued"}
  BY <1>1 DEF CanStep, Unfinished, AllPcs, CallerPcs, MainPcs, CriticalPcs, OrderPcs
<1>3. exclusive = NoCall
  <2>1. \A c \in Calls : exclusive # c
    BY <1>2 DEF LockDiscipline, ExcludingPcs, Unfinished
  <2> QED BY <2>1 DEF TypeOK
<1>4. ASSUME NEW c \in Calls, pc[c] \in {"count", "release", "await"}
      PROVE  WriterPreferring /\ \E d \in Calls : pc[d] = "check"
  BY <1>1, <1>3, <1>4 DEF CanStep, CanShare
<1>5. ASSUME NEW c \in Calls, pc[c] = "check"
      PROVE  \E d \in Calls : pc[d] = "asleep"
  <2>1. shared # {}
    BY <1>1, <1>3, <1>5 DEF CanStep, CanExclude
  <2>2. PICK d \in Calls : d \in shared
    BY <2>1 DEF TypeOK
  <2>3. pc[d] \in SharingPcs
    BY <2>2 DEF LockDiscipline
  <2> QED BY <1>2, <2>3 DEF SharingPcs, Unfinished
<1>6. ASSUME NEW c \in Calls, pc[c] \in {"start", "pay"}
      PROVE  \E d \in Calls : pc[d] = "release"
  <2>1. PICK d \in Calls : bying_removing_mutex = d
    BY <1>1, <1>6 DEF CanStep, MutexFree, TypeOK
  <2>2. pc[d] \in CriticalPcs
    BY <2>1 DEF LockDiscipline
  <2> QED BY <1>2, <2>2 DEF CriticalPcs, Unfinished
<1>7. ASSUME NEW c \in Calls, pc[c] = "queued", ~IsOrder(c)
      PROVE  \E d \in Calls : pc[d] \in {"start", "release"}
  <2>1. IsIn(c, mainQueue)
    BY <1>7 DEF QueuedIsInQueue, IsIn, OpsAgree
  <2>2. mainQueue # <<>> /\ 1 \in 1 .. Len(mainQueue) /\ Head(mainQueue) = mainQueue[1] /\ Head(mainQueue) \in Calls
    BY <2>1 DEF IsIn, TypeOK
  <2>3. pc[Head(mainQueue)] = "queued"
    BY <2>2 DEF QueuesAgree, QueueAgrees
  <2>4. ~(Cardinality(Busy(MainPcs)) < MainThreads)
    BY <1>1, <2>2, <2>3 DEF CanStep
  <2>5. Busy(MainPcs) # {}
    BY <2>4, FS_EmptySet, ServerAssumption
  <2>6. PICK d \in Calls : pc[d] \in MainPcs
    BY <2>5 DEF Busy
  <2> QED BY <1>2, <2>6 DEF MainPcs, CriticalPcs, Unfinished
<1>8. ASSUME NEW c \in Calls, pc[c] = "queued", IsOrder(c)
      PROVE  \E d \in Calls : pc[d] \in {"asleep", "await", "pay"}
  <2>1. IsIn(c, orderQueue)
    BY <1>8 DEF QueuedIsInQueue, IsIn, OpsAgree
  <2>2. orderQueue # <<>> /\ 1 \in 1 .. Len(orderQueue) /\ Head(orderQueue) = orderQueue[1] /\ Head(orderQueue) \in Calls
    BY <2>1 DEF IsIn, TypeOK
  <2>3. pc[Head(orderQueue)] = "queued"
    BY <2>2 DEF QueuesAgree, QueueAgrees
  <2>4. ~(Cardinality(Busy(OrderPcs)) < OrderThreads)
    BY <1>1, <2>2, <2>3 DEF CanStep
  <2>5. Busy(OrderPcs) # {}
    BY <2>4, FS_EmptySet, ServerAssumption
  <2>6. PICK d \in Calls : pc[d] \in OrderPcs
    BY <2>5 DEF Busy
  <2> QED BY <1>2, <2>6 DEF OrderPcs, Unfinished
<1>9. PICK c \in Calls : Unfinished(c)
  BY DEF Stuck
<1>10. \E d \in Calls : pc[d] = "asleep"
  BY <1>2, <1>4, <1>5, <1>6, <1>7, <1>8, <1>9
<1>11. ASSUME NEW d \in Calls, Unfinished(d), ~WriterPreferring
       PROVE  \/ pc[d] \in {"asleep", "check"}
              \/ pc[d] = "queued" /\ IsOrder(d)
  BY <1>2, <1>4, <1>6, <1>7, <1>11
<1> QED BY <1>2, <1>10, <1>11

(* The threads of the service layer never wait for each other in a circle. *)
THEOREM StuckOnlyForCause == Spec => []StuckHasCause
<1>1. ASSUME TypeOK, LockDiscipline, OpsAgree, QueuesAgree, QueuedIsInQueue, NoLostWakeup, SettledIsFlagged
      PROVE  StuckHasCause
  <2> SUFFICES ASSUME Stuck, ~WriterPreferring, NEW d \in Calls, pc[d] = "asleep"
               PROVE  ~PurchaseMade(SessionOf(d))
    BY <1>1, StuckMeansAsleep DEF StuckHasCause
  <2> DEFINE s == SessionOf(d)
  <2>1. \A c \in Calls : pc[c] \in AllPcs /\ (Unfinished(c) => pc[c] \in {"asleep", "check"} \/ IsOrder(c))
    BY <1>1, StuckMeansAsleep DEF TypeOK
  <2>2. SUFFICES ASSUME PurchaseMade(s)
                 PROVE  FALSE
    OBVIOUS
  <2>3. PICK c \in Calls : IsPurchase(c) /\ SessionOf(c) = s /\ pc[c] \notin {"new", "check", "copy", "count", "thrown"}
    BY <2>2 DEF PurchaseMade, CarriedOut
  <2>4. \A b \in Calls : IsPurchase(b) => ~IsOrder(b) /\ pc[b] # "asleep"
    BY <1>1 DEF IsPurchase, IsOrder, Purchases, OpsAgree, OrderPcs
  <2>5. \A b \in Calls : IsPurchase(b) => pc[b] \in {"new", "check", "thrown", "done"}
    BY <2>1, <2>4 DEF Unfinished
  <2>6. CarriedOut(s, {"tested", "flag", "notify", "return", "done"})
    BY <2>3, <2>5 DEF CarriedOut
  <2>7. InFlight(s) = {} /\ ~CarriedOut(s, {"tested", "flag"})
    BY <2>5 DEF InFlight, InFlightPcs, CarriedOut
  <2>8. s \in Sessions
    BY <1>1, RequestType DEF TypeOK, SessionOf
  <2>9. allAtomicsBools[s]
    BY <1>1, <2>6, <2>7, <2>8 DEF SettledIsFlagged, FlaggedWhenSettled
  <2>10. PICK b \in Calls : pc[b] = "notify"
    BY <1>1, <2>9 DEF NoLostWakeup
  <2>11. IsPurchase(b)
    BY <1>1, <2>10 DEF OpsAgree, CriticalPcs
  <2> QED BY <2>5, <2>10, <2>11
<1> QED
  BY <1>1, TypeCorrect, LocksAreDisciplined, OpsAlwaysAgree, QueuesAlwaysAgree, QueuedCallsAreInQueue,
     WakeupsAreNotLost, SettledSessionsAreFlagged, PTL
=============================================================================
