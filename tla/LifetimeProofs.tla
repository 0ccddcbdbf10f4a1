--------------------------- MODULE LifetimeProofs ---------------------------
(***************************************************************************)
(* What Wait and Join promise, and what ~Server finds, for any number of   *)
(* calls.  The argument is a count of the owners: every call between its   *)
(* posting and its end has a task, and no task outlives its call by more   *)
(* than its own destruction.                                               *)
(***************************************************************************)
EXTENDS Lifetime, ServerProofs

LEMMA ServerSteps == [LifetimeNext]_allVars => [Next]_vars
<1>1. ASSUME UNCHANGED allVars PROVE UNCHANGED vars
  BY <1>1 DEF allVars
<1>2. ASSUME OwnerStep PROVE UNCHANGED vars
  BY <1>2 DEF OwnerStep, Join, JoinOrder, JoinMain, Stop, Release
<1>3. ASSUME NEW c \in Calls, OwnerCalls(c) \/ CallStep(c) \/ DropTask(c)
      PROVE  [Next]_vars
  BY <1>3 DEF OwnerCalls, CallStep, DropTask, Next
<1> QED BY <1>1, <1>2, <1>3 DEF LifetimeNext

(* An owner and its joins add nothing to what the service layer may do.    *)
THEOREM OwnedServerIsServer == LifetimeSpec => Spec
<1>1. LifetimeInit => Init
  BY DEF LifetimeInit
<1> QED BY <1>1, ServerSteps, PTL DEF LifetimeSpec, Spec

ServerFacts == TypeOK /\ OpsAgree /\ LockDiscipline /\ QueuesAgree

LEMMA ServerFactsHold == LifetimeSpec => []ServerFacts
<1>1. Spec => []ServerFacts
  BY TypeCorrect, OpsAlwaysAgree, LocksAreDisciplined, QueuesAlwaysAgree, PTL DEF ServerFacts
<1> QED BY <1>1, OwnedServerIsServer, PTL

-----------------------------------------------------------------------------
(* Where a call has no task: on its caller's way, or off it for good.      *)
Outside == {"new", "thrown", "overrun"} \cup CallerPcs

Finished(c) == pc[c] = "done" /\ c \notin tasks

(* Who owns the server, and what joins have left behind.                   *)
Ownership ==
  /\ owner \in {"free", "joining order", "joining main", "gone"}
  /\ tasks \subseteq Calls /\ joined \subseteq Pools
  /\ owner # "free" => Returned
  /\ destruction # "none" => owner = "gone" /\ tasks = {} /\ Defined
  /\ \A c \in Calls :
       /\ pc[c] \in Outside => c \notin tasks
       /\ c \notin tasks => pc[c] \in Outside \cup {"done", "astray"}
       /\ c \in tasks /\ PoolOf(c) \in joined => pc[c] = "queued"

(* A call that a Join waits for is finished, or is still waited for.       *)
Awaiting ==
  /\ awaited \subseteq Calls
  /\ \A c \in awaited :
       /\ pc[c] \notin Outside
       /\ \/ Finished(c)
          \/ /\ ~stopped /\ PoolOf(c) \notin joined
             /\ \/ owner = "joining order"
                \/ owner = "joining main" /\ PoolOf(c) = "main"

LifeInv == Ownership /\ Awaiting /\ JoinedDiesOutside

(* Of the steps of a call only its posting makes a task, and no thread but *)
(* a pool's goes on with it after that.                                    *)
LEMMA TaskMoves ==
  ASSUME TypeOK, NEW c \in Calls, ThreadStep(c)
  PROVE  /\ pc[c] = "post" => pc'[c] = "queued"
         /\ pc[c] \notin Outside => pc'[c] \notin Outside
         /\ pc[c] \in Outside \ {"post"} => pc'[c] \in Outside \cup {"astray"}
         /\ \A d \in Calls \ {c} : pc'[d] = pc[d] \/ (pc[d] = "asleep" /\ pc'[d] = "wait")
<1>0. pc \in [Calls -> AllPcs]
  BY DEF TypeOK
<1> USE <1>0 DEF Goto, Outside, CallerPcs
<1>1. CASE \/ CheckFits(c) \/ AllocationThrows(c) \/ CopyVectors(c)
           \/ CopyOverruns(c) \/ SwapVectors(c)
  BY <1>1 DEF CheckFits, AllocationThrows, CopyVectors, CopyOverruns, SwapVectors, AfterCheck
<1>2. CASE CountUp(c) \/ CountAstray(c) \/ Post(c) \/ StartMain(c) \/ Describe(c)
  BY <1>2 DEF CountUp, CountAstray, Post, StartMain, Describe
<1>3. CASE NotifyAll(c)
  BY <1>3 DEF NotifyAll, Woken
<1>4. CASE LockMutex(c) \/ BuyTest(c) \/ BuyRefuse(c) \/ BuyTake(c) \/ RemoveItems(c)
  BY <1>4 DEF LockMutex, BuyTest, BuyRefuse, BuyTake, RemoveItems
<1>5. CASE CountDown(c) \/ TestZero(c) \/ SetFlag(c) \/ ReturnTask(c)
  BY <1>5 DEF CountDown, TestZero, SetFlag, ReturnTask
<1>6. CASE StartOrder(c) \/ ShareForWait(c) \/ FallAsleep(c) \/ PassWait(c) \/ WaitAstray(c)
  BY <1>6 DEF StartOrder, ShareForWait, FallAsleep, PassWait, WaitAstray
<1>7. CASE PayRefuse(c) \/ Pay(c) \/ Cook(c)
  BY <1>7 DEF PayRefuse, Pay, Cook
<1> QED BY <1>1, <1>2, <1>3, <1>4, <1>5, <1>6, <1>7
  DEF ThreadStep, CallerStep, PurchaseStep, OrderStep

LEMMA CallKeeps ==
  ASSUME TypeOK, LifeInv, destruction = "none", NEW c \in Calls, CallStep(c)
  PROVE  LifeInv'
<1>1. /\ ThreadStep(c)
      /\ pc[c] = "queued" => Runs(PoolOf(c))
      /\ tasks' = IF pc[c] = "post" THEN tasks \cup {c} ELSE tasks
      /\ UNCHANGED <<owner, stopped, joined, awaited, destruction>>
  BY DEF CallStep
<1>2. /\ pc[c] \notin {"new", "thrown", "done", "overrun", "astray"} /\ request' = request
      /\ \A d \in Calls : pc'[d] = "new" <=> pc[d] = "new"
      /\ \A d \in Calls : pc[d] = "done" => pc'[d] = "done"
  BY <1>1, ServerStepOf
<1>3. /\ pc[c] = "post" => pc'[c] = "queued"
      /\ pc[c] \notin Outside => pc'[c] \notin Outside
      /\ pc[c] \in Outside \ {"post"} => pc'[c] \in Outside \cup {"astray"}
      /\ \A d \in Calls \ {c} : pc'[d] = pc[d] \/ (pc[d] = "asleep" /\ pc'[d] = "wait")
  BY <1>1, TaskMoves
<1>4. \A d \in Calls : PoolOf(d)' = PoolOf(d)
  BY <1>2 DEF PoolOf, IsOrder
<1>5. Outside' = Outside /\ "post" \in Outside /\ {"asleep", "wait", "queued", "done", "astray"} \cap Outside = {}
  BY DEF Outside, CallerPcs
<1>6. Ownership'
  <2>1. owner' # "free" => Returned'
    <3>1. ASSUME owner # "free" PROVE pc[c] \notin Outside
      BY <1>2, <3>1 DEF LifeInv, Ownership, Returned, Outside
    <3> QED BY <1>1, <1>3, <1>5, <3>1 DEF LifeInv, Ownership, Returned, Outside
  <2>2. ASSUME NEW d \in Calls
        PROVE  /\ pc'[d] \in Outside => d \notin tasks'
               /\ d \notin tasks' => pc'[d] \in Outside \cup {"done", "astray"}
               /\ d \in tasks' /\ PoolOf(d)' \in joined' => pc'[d] = "queued"
    <3>1. CASE d = c
      BY <1>1, <1>2, <1>3, <1>4, <1>5, <3>1 DEF LifeInv, Ownership, Runs
    <3>2. CASE d # c
      BY <1>1, <1>3, <1>4, <1>5, <3>2 DEF LifeInv, Ownership
    <3> QED BY <3>1, <3>2
  <2> QED BY <1>1, <1>5, <2>1, <2>2 DEF LifeInv, Ownership, Pools
<1>7. Awaiting'
  <2>1. ASSUME NEW d \in awaited
        PROVE  /\ pc'[d] \notin Outside
               /\ Finished(d) => Finished(d)'
    BY <1>1, <1>2, <1>3, <1>5, <2>1 DEF LifeInv, Awaiting, Finished
  <2> QED BY <1>1, <1>4, <1>5, <2>1 DEF LifeInv, Awaiting
<1> QED BY <1>1, <1>6, <1>7 DEF LifeInv, JoinedDiesOutside, Pools

LEMMA OwnerKeeps ==
  ASSUME LifeInv, destruction = "none", Defined, OwnerStep
  PROVE  LifeInv'
<1> USE DEF LifeInv
<1>0. UNCHANGED vars
  BY DEF OwnerStep, Join, JoinOrder, JoinMain, Stop, Release
<1>1. /\ pc' = pc /\ Returned' = Returned /\ Outside' = Outside /\ Pools' = Pools
      /\ \A c \in Calls : PoolOf(c)' = PoolOf(c)
      /\ \A c \in Calls : tasks' = tasks => Finished(c)' = Finished(c)
      /\ Defined'
  BY <1>0 DEF vars, Defined, Returned, Outside, CallerPcs, Pools, PoolOf, IsOrder, Finished
<1>2. \A c \in Calls : PoolOf(c) \in Pools
  BY DEF PoolOf, Pools
<1>3. CASE Join
  <2>1. Ownership' /\ JoinedDiesOutside'
    BY <1>1, <1>3 DEF Join, Ownership, JoinedDiesOutside
  <2>2. \A c \in Calls : pc[c] \notin {"new", "thrown"} => pc[c] \notin Outside
    BY <1>3 DEF Join, Returned, Outside, Defined, StrayPcs
  <2>3. Awaiting'
    BY <1>1, <1>3, <2>2 DEF Join, Awaiting
  <2> QED BY <2>1, <2>3
<1>4. CASE JoinOrder
  <2>1. ASSUME NEW c \in Calls, PoolOf(c) = "order", c \in tasks
        PROVE  pc[c] = "queued"
    BY <1>4, <2>1 DEF JoinOrder, Idle, AtWork, Ownership
  <2>2. Ownership' /\ JoinedDiesOutside'
    BY <1>1, <1>2, <1>4, <2>1 DEF JoinOrder, Ownership, JoinedDiesOutside, Pools
  <2>3. ASSUME NEW c \in awaited, ~Finished(c), PoolOf(c) = "order"
        PROVE  FALSE
    BY <1>4, <2>1, <2>3 DEF JoinOrder, Idle, QueueDone, Ownership, Awaiting, Finished, Defined,
       StrayPcs
  <2>4. Awaiting'
    BY <1>1, <1>2, <1>4, <2>3 DEF JoinOrder, Awaiting, Pools
  <2> QED BY <2>2, <2>4
<1>5. CASE JoinMain
  <2>1. ASSUME NEW c \in Calls, PoolOf(c) = "main", c \in tasks
        PROVE  pc[c] = "queued"
    BY <1>5, <2>1 DEF JoinMain, Idle, AtWork, Ownership
  <2>2. Ownership' /\ JoinedDiesOutside'
    BY <1>1, <1>2, <1>5, <2>1 DEF JoinMain, Ownership, JoinedDiesOutside, Pools
  <2>3. ASSUME NEW c \in awaited, ~Finished(c)
        PROVE  FALSE
    BY <1>5, <2>1, <2>3 DEF JoinMain, Idle, QueueDone, Ownership, Awaiting, Finished, Defined,
       StrayPcs
  <2>4. Awaiting'
    BY <1>1, <1>5, <2>3 DEF JoinMain, Awaiting
  <2> QED BY <2>2, <2>4
<1>6. CASE Stop
  BY <1>1, <1>6 DEF Stop, Ownership, Awaiting, JoinedDiesOutside
<1>7. CASE Release
  BY <1>1, <1>7 DEF Release, NoTaskHolds, Ownership, Awaiting, JoinedDiesOutside
<1> QED BY <1>3, <1>4, <1>5, <1>6, <1>7 DEF OwnerStep

LEMMA DropKeeps ==
  ASSUME LifeInv, destruction = "none", Defined, NEW c \in Calls, DropTask(c)
  PROVE  LifeInv'
<1> USE DEF LifeInv
<1>1. /\ c \in tasks /\ pc[c] = "done" /\ tasks' = tasks \ {c}
      /\ UNCHANGED <<vars, owner, stopped, joined, awaited>>
      /\ destruction' = IF owner = "gone" /\ tasks' = {} THEN "inside" ELSE "none"
  BY DEF DropTask, NoTaskHolds
<1>2. /\ pc' = pc /\ Returned' = Returned /\ Outside' = Outside /\ Pools' = Pools
      /\ \A d \in Calls : PoolOf(d)' = PoolOf(d)
      /\ \A d \in Calls : Finished(d) => Finished(d)'
      /\ Defined'
  BY <1>1 DEF vars, Defined, Returned, Outside, CallerPcs, Pools, PoolOf, IsOrder, Finished
<1>3. Ownership'
  BY <1>1, <1>2 DEF Ownership
<1>4. Awaiting'
  BY <1>1, <1>2 DEF Awaiting
<1>5. PoolOf(c) \in Pools \ joined
  BY <1>1 DEF Ownership, PoolOf, Pools
<1>6. JoinedDiesOutside'
  BY <1>1, <1>2, <1>5 DEF JoinedDiesOutside
<1> QED BY <1>3, <1>4, <1>6

LEMMA LifeInvHolds == LifetimeSpec => []LifeInv
<1>1. LifetimeInit => LifeInv
  BY DEF LifetimeInit, Init, LifeInv, Ownership, Awaiting, JoinedDiesOutside, Outside
<1>2. ServerFacts /\ LifeInv /\ [LifetimeNext]_allVars => LifeInv'
  <2> SUFFICES ASSUME ServerFacts, LifeInv, [LifetimeNext]_allVars PROVE LifeInv'
    OBVIOUS
  <2>1. ASSUME UNCHANGED allVars PROVE LifeInv'
    BY <2>1 DEF allVars, vars, lifeVars, LifeInv, Ownership, Awaiting, JoinedDiesOutside,
       Defined, Outside, CallerPcs, Finished, Returned, Pools, PoolOf, IsOrder
  <2>2. ASSUME NEW c \in Calls, destruction = "none", OwnerCalls(c) PROVE LifeInv'
    <3>1. /\ owner = "free" /\ UNCHANGED <<lifeVars, request>> /\ pc[c] = "new"
          /\ pc' = [pc EXCEPT ![c] = IF request[c].op = "describe" THEN "post" ELSE "check"]
      BY <2>2 DEF OwnerCalls, Invoke, Goto
    <3>2. pc'[c] \in Outside /\ pc[c] \in Outside /\ \A d \in Calls \ {c} : pc'[d] = pc[d]
      BY <3>1 DEF ServerFacts, TypeOK, Outside, CallerPcs
    <3>3. /\ Outside' = Outside /\ Pools' = Pools
          /\ \A d \in Calls : PoolOf(d)' = PoolOf(d)
      BY <3>1 DEF Outside, CallerPcs, Pools, PoolOf, IsOrder
    <3>4. Ownership'
      BY <3>1, <3>2, <3>3 DEF lifeVars, LifeInv, Ownership
    <3>5. Awaiting'
      BY <3>1, <3>2, <3>3 DEF lifeVars, LifeInv, Awaiting, Finished
    <3> QED BY <3>1, <3>3, <3>4, <3>5 DEF lifeVars, LifeInv, JoinedDiesOutside
  <2> QED BY <2>1, <2>2, CallKeeps, OwnerKeeps, DropKeeps DEF LifetimeNext, ServerFacts
<1> QED BY <1>1, <1>2, ServerFactsHold, PTL DEF LifetimeSpec

-----------------------------------------------------------------------------
(* ~Server stops pools that are at rest and destroys locks that are free   *)
(* (Server.cpp:155-158), in whichever thread it runs.                      *)
THEOREM ServersDieAtRest == LifetimeSpec => []DestroyedAtRest
<1>1. ServerFacts /\ LifeInv => DestroyedAtRest
  <2> SUFFICES ASSUME ServerFacts, LifeInv, destruction # "none"
               PROVE  /\ \A c \in Calls : pc[c] \in {"new", "thrown", "done"}
                      /\ mainQueue = <<>> /\ orderQueue = <<>>
                      /\ bying_removing_mutex = NoCall /\ exclusive = NoCall /\ shared = {}
    BY DEF DestroyedAtRest
  <2>1. tasks = {} /\ Returned /\ Defined
    BY DEF LifeInv, Ownership
  <2>2. \A c \in Calls : pc[c] \in {"new", "thrown", "done"}
    BY <2>1 DEF LifeInv, Ownership, Outside, Returned, Defined, StrayPcs
  <2>3. ASSUME NEW q \in Seq(Calls), QueueAgrees(q) PROVE q = <<>>
    <3>1. ASSUME q # <<>> PROVE FALSE
      <4>1. 1 \in 1 .. Len(q) /\ q[1] \in Calls
        BY <3>1
      <4> QED BY <2>2, <2>3, <4>1 DEF QueueAgrees
    <3> QED BY <3>1
  <2>4. mainQueue = <<>> /\ orderQueue = <<>>
    BY <2>3 DEF ServerFacts, TypeOK, QueuesAgree
  <2>5. /\ bying_removing_mutex \in Calls \cup {NoCall} /\ exclusive \in Calls \cup {NoCall}
        /\ shared \subseteq Calls
    BY DEF ServerFacts, TypeOK
  <2>6. \A c \in Calls : bying_removing_mutex # c /\ exclusive # c /\ c \notin shared
    BY <2>2 DEF ServerFacts, LockDiscipline, CriticalPcs, SharingPcs, ExcludingPcs
  <2> QED BY <2>2, <2>4, <2>5, <2>6
<1> QED BY <1>1, ServerFactsHold, LifeInvHolds, PTL

(* Wait and Join (Server.cpp:140-148) return when all that was called      *)
(* before them is done.                                                    *)
THEOREM JoinsMeanDone == LifetimeSpec => []JoinMeansDone
<1>1. LifeInv => JoinMeansDone
  BY DEF LifeInv, Awaiting, Finished, JoinMeansDone
<1> QED BY <1>1, LifeInvHolds, PTL

(* After a Join the last shared_ptr is not let go of by a thread of the    *)
(* pools that ~Server is about to join.                                    *)
THEOREM JoinedServersDieOutside == LifetimeSpec => []JoinedDiesOutside
<1>1. LifeInv => JoinedDiesOutside
  BY DEF LifeInv
<1> QED BY <1>1, LifeInvHolds, PTL
=============================================================================
