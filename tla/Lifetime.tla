------------------------------ MODULE Lifetime ------------------------------
(***************************************************************************)
(* The life of a Server: Wait, Join, Stop, the shared_ptr's that keep it   *)
(* and its destructor.  One thread owns it, as the fixture of the tests    *)
(* does: it makes calls in turn, may wait for the pools or stop them, and  *)
(* at last lets its shared_ptr go.  Every task holds another, from when it *)
(* is posted to when the pool's thread destroys it, which is after its     *)
(* future is ready.  Who lets go of the last one runs ~Server.             *)
(*                                                                         *)
(* Of boost::asio::thread_pool this is assumed: join and wait return when  *)
(* nothing is queued or running, or, once the pool is stopped, when        *)
(* nothing is running, and at once when repeated; a pool that is stopped   *)
(* or joined starts no task, and keeps those that are queued.              *)
(***************************************************************************)
EXTENDS ServerProperties

VARIABLES
  owner,        \* what the owner does: "free", joining a pool, or "gone"
  stopped,      \* have the pools been stopped?
  joined,       \* the pools that have been joined
  tasks,        \* the calls whose task exists
  awaited,      \* history: what had been called when the first Join began
  destruction   \* ~Server: "none", or run "inside" or "outside" the pools

lifeVars == <<owner, stopped, joined, tasks, awaited, destruction>>
allVars  == <<vars, lifeVars>>

Pools == {"order", "main"}

PoolOf(c) == IF IsOrder(c) THEN "order" ELSE "main"

LifetimeInit ==
  /\ Init
  /\ owner = "free"
  /\ stopped = FALSE
  /\ joined = {}
  /\ tasks = {}
  /\ awaited = {}
  /\ destruction = "none"

(* The owner is in none of the calls it has made.                          *)
Returned == \A c \in Calls : pc[c] \notin CallerPcs

OwnerCalls(c) ==
  /\ owner = "free" /\ Returned
  /\ Invoke(c)
  /\ UNCHANGED lifeVars

Runs(pool) == ~stopped /\ pool \notin joined

(* A step of a call; posted, its task is one more owner.                   *)
CallStep(c) ==
  /\ pc[c] = "queued" => Runs(PoolOf(c))
  /\ ThreadStep(c)
  /\ tasks' = IF pc[c] = "post" THEN tasks \cup {c} ELSE tasks
  /\ UNCHANGED <<owner, stopped, joined, awaited, destruction>>

-----------------------------------------------------------------------------
(* Slip: a task that has returned no longer counts.                        *)
AtWork_Returned(pool) == {c \in tasks : PoolOf(c) = pool /\ pc[c] \notin {"queued", "done"}}

(* The tasks in the hands of a pool's threads.                             *)
AtWork(pool) == {c \in tasks : PoolOf(c) = pool /\ pc[c] # "queued"}

(* Slip: what is queued is not waited for.                                 *)
QueueDone_Any(pool) == TRUE

QueueDone(pool) == \A c \in tasks : PoolOf(c) = pool => pc[c] # "queued"

(* Join of the pool can return.                                            *)
Idle(pool) ==
  \/ pool \in joined
  \/ AtWork(pool) = {} /\ (stopped \/ QueueDone(pool))

(* Server::Wait and Server::Join do the same.                              *)
Join ==
  /\ owner = "free" /\ Returned
  /\ owner' = "joining order"
  /\ awaited' = IF joined = {} /\ ~stopped THEN {c \in Calls : pc[c] \notin {"new", "thrown"}} ELSE awaited
  /\ UNCHANGED <<vars, stopped, joined, tasks, destruction>>

JoinOrder ==
  /\ owner = "joining order" /\ Idle("order")
  /\ owner' = "joining main"
  /\ joined' = joined \cup {"order"}
  /\ UNCHANGED <<vars, stopped, tasks, awaited, destruction>>

JoinMain ==
  /\ owner = "joining main" /\ Idle("main")
  /\ owner' = "free"
  /\ joined' = joined \cup {"main"}
  /\ UNCHANGED <<vars, stopped, tasks, awaited, destruction>>

Stop ==
  /\ owner = "free" /\ Returned
  /\ stopped' = TRUE
  /\ UNCHANGED <<vars, owner, joined, tasks, awaited, destruction>>

-----------------------------------------------------------------------------
(* Slip: the tasks hold plain pointers.                                    *)
NoTaskHolds_Plain(held) == TRUE

NoTaskHolds(held) == held = {}

(* The owner lets its shared_ptr go.                                       *)
Release ==
  /\ owner = "free" /\ Returned
  /\ owner' = "gone"
  /\ destruction' = IF NoTaskHolds(tasks) THEN "outside" ELSE "none"
  /\ UNCHANGED <<vars, stopped, joined, tasks, awaited>>

(* A thread of a pool destroys a task that has returned.                   *)
DropTask(c) ==
  /\ c \in tasks /\ pc[c] = "done"
  /\ tasks' = tasks \ {c}
  /\ destruction' = IF owner = "gone" /\ NoTaskHolds(tasks') THEN "inside" ELSE "none"
  /\ UNCHANGED <<vars, owner, stopped, joined, awaited>>

OwnerStep == Join \/ JoinOrder \/ JoinMain \/ Stop \/ Release

LifetimeNext ==
  /\ destruction = "none" /\ Defined
  /\ OwnerStep \/ \E c \in Calls : OwnerCalls(c) \/ CallStep(c) \/ DropTask(c)

LifetimeSpec == LifetimeInit /\ [][LifetimeNext]_allVars

(* The threads are scheduled; what the owner does is up to it.             *)
LifetimeFairSpec ==
  /\ LifetimeSpec
  /\ \A c \in Calls :
       WF_allVars(destruction = "none" /\ Defined /\ (CallStep(c) \/ DropTask(c)))
  /\ WF_allVars(destruction = "none" /\ Defined /\ (JoinOrder \/ JoinMain))

-----------------------------------------------------------------------------
(* When ~Server runs (Server.cpp:155), whoever runs it, nothing is queued  *)
(* or running in the pools it stops, and the locks it destroys are free:   *)
(* stop() drops no task, and no callback comes after it.                   *)
DestroyedAtRest ==
  destruction # "none" =>
    /\ \A c \in Calls : pc[c] \in {"new", "thrown", "done"}
    /\ mainQueue = <<>> /\ orderQueue = <<>>
    /\ bying_removing_mutex = NoCall /\ exclusive = NoCall /\ shared = {}

(* Once Wait or Join has returned (Server.cpp:140-148), all that had been  *)
(* called is carried out and answered, and its task is gone, although the  *)
(* pools are waited for one after the other.                               *)
JoinMeansDone ==
  owner \in {"free", "gone"} => \A c \in awaited : pc[c] = "done" /\ c \notin tasks

(* Who joins before it lets go never has ~Server run in one of the pools'  *)
(* own threads, which it would then join.                                  *)
JoinedDiesOutside == joined = Pools => destruction # "inside"

(* A task in the queue of a pool that will start no other.                 *)
Stranded(c) == c \in tasks /\ pc[c] = "queued" /\ ~Runs(PoolOf(c))

(* Join returns, also of pools that have been stopped, unless an order was *)
(* made too early, or a stopped pool holds back the purchase that an order *)
(* sleeps for.                                                             *)
JoinReturns ==
  []OrdersFollowPurchases =>
    (owner = "joining order" ~>
       \/ owner = "free" \/ ~Defined
       \/ \E d, c \in Calls :
            /\ pc[d] = "asleep" /\ Stranded(c)
            /\ IsPurchase(c) /\ SessionOf(c) = SessionOf(d))

(* A server that is let go is destroyed: the tasks and the pools they are  *)
(* in keep it, but not for ever, unless one was stranded in the queue of a *)
(* pool that was stopped or joined before.                                 *)
LetGoIsDestroyed ==
  []OrdersFollowPurchases =>
    (owner = "gone" ~>
       destruction # "none" \/ ~Defined \/ \E c \in Calls : Stranded(c))
=============================================================================
