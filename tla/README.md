# Verification of the asynchronous restaurant server

TLA+ models of the program in `src/`, the TLC runs that check them on small
instances, and theorems about them that TLAPS has checked for instances of any
size. `PROJECT.json` lists runs, properties, theorems and the source lines every
definition stands for.

## The system

Clients put products into a cart, take them out, and order, over HTTP.

| component | state | operations | talks to |
|---|---|---|---|
| `ItemHolder` (DataLayer) | cost and cooking time of each item, amount in stock, the JSON text | its constructor loads two JSON files; then it hands out its maps | `json.hpp`; the server writes the amounts directly |
| `json.hpp` (DataLayer, vendored) | while it parses: the lexer's place, the parser's stack, the builder's stack | `parse`, `operator>>`, `contains`, `operator[]`, `get<size_t>`, `dump` | called by `handle_request` and by `ItemHolder` |
| `Server` (ServiceLayer) | `boughtItems` (a cart per session), `allAtomicsCount`, `allAtomicsBools`, the locks `bying_removing_mutex` and `resize_atomics_mutex`, the pools `mainThreadPool` and `makeOrderThreadPool` | `Buy`, `Remove`, `MakeOrder`, `GetAllItemDescription`; `Wait`, `Join`, `Stop`, the destructor | the item holder, the kitchen worker, the callback given with each call |
| `KitchenWorker` (ServiceLayer) | none | `MakeProduct` sleeps | called by a task of `MakeOrder` |
| `RequestHandler` (ControllerLayer) | none of its own; `server_mutex`, shared by all connections | `handle_request`: route, validate, call the server or refuse | the server, and the session's `send_response` as the callback |
| `Session` (ControllerLayer) | the connection, its buffer, request and timer | `run`, `do_read`, `on_read`, `send_response`, `on_write`, `do_close` | the request handler, the io threads |
| `Listener` (ControllerLayer) | the acceptor | `run`, `do_accept`, `on_accept` | makes sessions |
| `main` | the io_context, 15 threads and its own | wires, runs, returns | everything |

A call of the server goes through three threads' hands. Its caller makes sure
that the two vectors of atomics have an element for the session
(`CheckSessionIdSize`, which may replace both by longer ones), counts a purchase
in `allAtomicsCount`, and posts a task. A thread of a pool runs the task: a
purchase takes `bying_removing_mutex`, changes stock and cart, counts down, and
raises the session's flag in `allAtomicsBools` when the count is 0; an order
waits for that flag, compares what it was given with the price of the cart,
empties the cart and cooks. The task answers through its callback.

What is hard about it, and what makes it right:

* **Server.** Two vectors of atomics are replaced while other threads count in
  them; a decrement and a test for zero are two accesses; an order sleeps on an
  atomic while holding a lock that callers need exclusively; amounts are
  `size_t` and `Remove` asks nothing; `sessionId * 2` wraps around. It is right if
  no access is out of bounds but for an id that is too large to be doubled, no count or flag is lost, no wake-up is lost, what was tested is still
  so when it is used, nothing is created or lost or paid twice, each call takes
  effect once, and each is answered.
* **RequestHandler, Session, Listener.** One mutex around every call of the
  server; answers that come from pool threads; a timer that covers the whole
  exchange; exceptions from parsing; a loop that ends at its first error. Right
  if each request gets one answer or the connection ends, if the client is told
  what became of its call, and if one connection cannot stop the others.
* **The server's life.** It is owned by whoever made it and by every task in its
  queues; `Wait` and `Join` wait for two pools in turn, `Stop` lets queued tasks
  lie, and the destructor joins threads of which one may be running it. Right if
  a join means that all is done, and if nothing runs or is held when the
  members go.
* **JSON and ItemHolder.** The parser and the builder of the value keep a stack
  each that only the order of events keeps in step; numbers are sorted into three
  types by how they are written; of two entries with one id the first counts, of
  two members with one name the last. Right if what is read is what RFC 8259 says
  the text means, if what is dumped can be read again, and if requests and menus
  come out as they were written.

The hazards are listed with their lines in `PROJECT.json`, each with the
properties that watch over it.

## The modules

| module | what it is |
|---|---|
| `Menu` | items, costs, requests, and the arithmetic of `size_t` (`Wrap`); a cart's price (`OrderCost`) |
| `Ledger` | the abstract specification: one stock, one cart per session, calls that take effect at one instant |
| `Server` | the service layer, step by step |
| `ServerProperties` | its invariants, the refinement mapping to `Ledger`, and progress |
| `SerialCalls` | `Server` called by one thread at a time, with the expectations that tests and README have of it |
| `Http` | the controller layer: listener, connections, `handle_request`, the io threads |
| `HttpProperties` | its invariants and its progress |
| `Restaurant` | `Http` over `Server`: the io threads are the callers, the tasks answer |
| `Lifetime` | `Server` and the thread that owns it: `Wait`, `Join`, `Stop`, the references, `~Server` |
| `JsonText` | the lexer of `json.hpp`: tokens, strings, numerals, UTF-8; and what `dump` writes of them |
| `JsonParser` | the parser's loop and the builder of the value, event by event |
| `Documents` | what the program reads: the body of a request, the two files of an `ItemHolder` |
| `JsonTokens` | the strings and the numerals of RFC 8259 and the UTF-8 of RFC 3629, over bytes |
| `JsonGrammar` | the grammar of RFC 8259 over tokens, and how the nodes of a value are written in a text |
| `DocumentsProperties` | RFC 8259 as a definition of what a text means, and what is to come of each document |
| `ServerProofs`, `LedgerProofs`, `HttpProofs`, `RestaurantProofs`, `LifetimeProofs`, `JsonTextProofs`, `JsonParserProofs`, `JsonGrammarProofs` | theorems |
| `MCServer`, `MCSerialCalls`, `MCHttp`, `MCRestaurant`, `MCLifetime`, `MCDocuments` | instances for TLC |

Definitions called `X_Something` (`Grown_Empty`, `MutexFree_Always`) are `X`
with a slip in it. No specification uses them; each serves to see that a
property notices when it takes the place of `X`.

### Server and the code

`pc[c]` says where call `c` has got to, from `new` to `done`; `queued` is the way
from its caller's thread to a pool's, `thrown` is a call that its caller has left
by an exception, and at `overrun` and `astray` a call has accessed a vector out of bounds. The variables have the code's names:

| model | code |
|---|---|
| `stock`, `carts` | `*itemHolder->GetItemsAmount()`, `*boughtItems`; an id that is in no map counts as 0, which is what `operator[]` makes of it |
| `allAtomicsCount`, `allAtomicsBools` | the vectors, as functions from `0 .. n - 1` |
| `scratch` | the new vectors of `CheckSessionIdSize`, between the copy and the swap |
| `bying_removing_mutex`, `exclusive`, `shared` | who holds the mutex, and who holds `resize_atomics_mutex` in which way |
| `mainQueue`, `orderQueue` | what was posted and not yet started; `MainThreads` and `OrderThreads` bound what runs |
| `request`, `reply` | arguments of the call, status given to its callback |
| `sold` | a history variable: what paid orders took away |

`Invoke` is the call. `CheckFits`, or `CopyVectors` and `SwapVectors`, are
`CheckSessionIdSize`, and `AllocationThrows` is its exception, when there is no memory
for vectors of `sessionId * 2` elements (more than `MaxElements`): the lock goes with
its scope, nothing has been written, nothing is posted. `NewSize` is `size_t`
arithmetic: nothing between the body of a request and Server.cpp:129 keeps an id of
2^63 or more out, and its double wraps around. The new vectors may then be shorter
than the old ones, and the copying loop runs past their end (`CopyOverruns`); or long
enough for the copy and too short for the session, and the call's first access is out of
bounds (`CountAstray`, `WaitAstray`). Either is undefined behaviour, of which a model can only
say that it is reached: `Defined` is false from then on, and no step follows. `CountUp` is the increment under
the shared lock; `Post` the `asio::post`. `LockMutex`, `BuyTest`, `BuyRefuse`, `BuyTake`, `RemoveItems`,
`CountDown`, `TestZero`, `SetFlag`, `NotifyAll` and `ReturnTask` are the task of
`Buy` and `Remove`, `StartOrder`, `ShareForWait`, `FallAsleep`, `PassWait`,
`PayRefuse`, `Pay` and `Cook` that of `MakeOrder`. Steps are joined only where
nothing shared is touched in between: the copy of the vectors is one step, for
writers need the lock that the copier holds, as `LockDiscipline` and `CopyIsFresh`
confirm from the other side; so is the critical section of an order, which
touches only what the mutex guards. `atomic::wait` compares and falls asleep
in one step, which is what the library promises; a wake-up makes it compare
again. `bying_removing_mutex` and `shared` are released by `ReturnTask`, where
the lock objects go out of scope, after the callback of `Remove`.

`WriterPreferring` says whether a thread waiting to lock a `std::shared_mutex`
exclusively keeps new readers out. The standard leaves that open; glibc's
default does not, and the runs take that. The theorems hold for both. Progress
does not: with writers first, a task that has to count down stands behind a
resize that waits for the order the task would wake.

### Http and the code

A connection carries one request: every response is made with version 10 and no
`Connection` header, so `keep_alive()` is false and `on_write` closes. That makes
the branch of `on_write` that reads again dead, and a `Session` the same thing as
an exchange.

| model | code |
|---|---|
| `accepting` | an `async_accept` is pending |
| `stream` | the operation that is pending on `stream_`: `reading`, `writing`, or none (`idle`); before them `pending` and `accepted`, after them `closed` (`do_close`) or `failed` (`fail`) |
| `timer` | the 30 seconds of `expires_after`, which run on from the read to the write |
| `handler` | how far `handle_request` has got: `entered`, `locked` (has `server_mutex`), `checked` (the body is past `check_params`), `calling` (inside the server), `returned` |
| `service` | the callback: not handed over, handed over, invoked |
| `sent` | a history variable: statuses given to `send_response` |
| `up` | the process runs: no exception has left `io_context::run` (`Throw`), and `main` has not returned (`RunsOut`) |

A body is one of four: every parameter there and unsigned; one that is not
unsigned; one missing that the target needs; no JSON. `handle_request` tells apart
nothing else before it calls the server. Its steps are those of the code in their
order: lock, parse (`ParseThrows`), `check_params` (`InvalidParams`, `PassChecks`),
route (`RefuseRoute`, `MissingParameterThrows`, `CallServer`), return (`CallReturns`). A
GET passes the checks unread. `CallThrows` is an exception that leaves the called
operation, before its callback has been used; the GET's has nothing to throw.

`OnStrand` is what Asio promises: two completion handlers of one connection do not
overlap, and each needs a thread that runs the io_context (`IoIdle`). `Callback` needs
neither, for it runs in a pool's thread and starts the write from there; it may
come before `CallReturns`. `TimesOut` is Beast's timer: it ends the operation that is
pending when it has expired, has nothing to end while none is, and may be
overtaken by the operation's completion. The service layer is left
free to do anything else with a call, so what holds here holds whatever `Server` does.

`RunsOut` is the other end of the process: once the accept loop is dead and no
connection has an operation pending or a handler running, every `ioc.run()`
returns, `main`'s among them, and the vector of its joinable threads calls
`std::terminate` on its way out. A connection that waits for the service layer
has nothing pending and does not keep the process alive. `EndsWithoutListener` says that
this end comes: one failed accept, in a while, ends the process, and no silent
client and no answer that is still owed delays it.

### Restaurant and the code

`Restaurant` extends `Server` and instantiates `Http` with connections for calls.
An exchange is a message and the request it stands for; `OperationOf` is the
routing, `StatusOf` the callback's mapping of a result to a status. The layers
share these steps: `CallServer` is `Http`'s step and `Invoke` at once,
`CallReturns` waits for the caller's part of the call to be over, and `Respond`
is a step of a task in which its callback is invoked and starts the write.
`CallThrows` is `AllocationThrows` seen from both sides, and ends the process. All
other steps are one layer's and leave the other alone. `KeepsHttpContract` is the
refinement: what `Http` assumes of any service layer, this one does.

### Lifetime and the code

| model | code |
|---|---|
| `owner` | the one thread that has a `shared_ptr` of its own: free to act, inside the join of one pool or the other, or without its pointer |
| `tasks` | the calls whose task exists: each captured `shared_from_this()`, is made by `asio::post`, and is destroyed by the pool's thread after it has returned (`DropTask`), which is later than its answer |
| `stopped`, `joined` | the state of the two pools |
| `awaited` | a history variable: what had been called when the first join began |
| `destruction` | `~Server`: not yet, or run outside or inside the pools' threads |

`thread_pool::wait` and `thread_pool::join` do the same, so `Wait` and `Join` are one
action each for their first and second half, `JoinOrder` and `JoinMain`. What is
assumed of `boost::asio::thread_pool` stands at the head of the module; its
destructor, which joins, is part of `~Server`. A run of the tests that waits for its futures and then
resets its pointer (`tests/Server_tests.cpp:81-93`) can leave the last reference to a
task, and so `~Server` to a thread of the pool that `~Server` joins;
`destruction = "inside"` is reached, and the model stops there.
`JoinedDiesOutside` says what keeps that from happening.

### Documents and the code

A text is a sequence of bytes. `JsonText` has the lexer as a function from a text
and a place to the next token (`Scan`), with `get_codepoint`, the byte ranges of
UTF-8 and the numeral's automaton; strings are bytes, numbers are integers or, for
a double, the numeral itself. A `size_t` has the width that `Modulus` gives it and the
largest double is `10^Magnitude`, so that both borders lie among short numerals.

| model | code |
|---|---|
| `text`, `next`, `last_token` | the input adapter, the lexer's place, the parser's token |
| `states` | the `std::vector<bool>` of `sax_parse_internal`: for every open structure, is it an array |
| `dom`, `ref_stack`, `object_element` | the value that `json_sax_dom_parser` builds, its stack of pointers, its pointer to the member read next |
| `phase` | the place in the loop: at its top, after a value, left by return or by exception |
| `job`, `parsed`, `outcome` | what is read and by whom; the first file's value while the second is read; what came of it |

One action is one turn of the loop, with the two or three tokens that the turn
reads. `InvalidParams`, `CallService`, `LackParameter` and `RefuseRest` are what
`handle_request` makes of a body; the loading of the files is `operator>>` twice, the
two loops with their `insert`, and `dump`. `Http` classes bodies by what these
tell apart; here every byte is read.

## The runs

| run | what is checked | instance |
|---|---|---|
| `concurrent` | all safety properties and `RefinesLedger` | 4 interchangeable calls made by independent threads, sessions 1, 2, 3 and 5, 2 threads in each pool; about 694 000 states |
| `progress` | `AnsweredIfOrdersFollow`, `StuckHasCause` | 3 calls, 1 thread in each pool, requests of each kind; about 317 000 states |
| `serial_order` | violated: `OrderSeesEarlierPurchases` | 3 calls in turn |
| `serial_answer` | violated: `EveryCallAnswered` | 2 calls in turn |
| `serial_stock` | violated: `StockWithinSupply` | 2 calls in turn |
| `http` | the safety properties of `Http` | 3 interchangeable connections, 2 io threads, 9 messages; about 2 508 000 states |
| `http_progress` | `EveryConnectionEnds`, `EndsWithoutListener` | 2 connections, 1 io thread, 4 messages; about 15 000 states |
| `http_readme` | violated: `DocumentedFormIsServed` | 2 connections, requests as `README.md` words them |
| `restaurant` | `CallersInTurn`, `ClientToldTruth`, `HungHasCause`, `KeepsHttpContract` | 2 interchangeable connections, 12 exchanges, 2 io threads; about 168 000 states |
| `restaurant_progress` | `EveryExchangeEnds` | 2 connections, 9 exchanges, 1 thread of each kind; about 231 000 states |
| `lifetime` | `DestroyedAtRest`, `JoinMeansDone`, `JoinedDiesOutside`, `JoinReturns`, `LetGoIsDestroyed` | 3 calls, 1 thread in each pool, 6 requests; about 620 000 states |
| `documents` | `StacksAgree`, `ReadsJson`, `DumpReadsBack`, `BodyServedAsMeant`, `LoadedAsWritten` | some thirty thousand documents, each read to its end; about 151 000 states |

Bounds. With `MaxUsers = 2` the vectors have elements 0 and 1, so the first call
for session 2 replaces them, in the middle of whatever session 1 is doing. Session
3 needs six elements, for which `MaxElements = 4` has no room; but when session 2 has been
there the vectors have four, and session 3 fits. Session 5 stands for the ids from 2^63
on: with `Modulus = 8` its double is 2, which is the length of the vectors it finds, so that the
copy succeeds and its own first access does not; after session 2 they are longer, and the
copy fails. Four
calls are enough for a purchase, a second one that overlaps it, an order that
sleeps, and a resize; two of them compete for the last of two burgers. With
`Modulus = 8`, too, amounts of 0 to 7 stand for `size_t`: a removal without a purchase wraps
a cart to 7, and prices wrap too. Pools of two threads are the smallest
in which tasks of one pool interleave; pools of one, in `progress`, are the
smallest in which one waiting order blocks the next. Each call is made at most
once, so the number of calls bounds a behaviour's length; that is the bound
`CHECK_DEADLOCK FALSE` is for: when all calls are done the system stops.

For `Http`, two io threads are the fewest in which one handler waits for
`server_mutex` while another calls, and three connections add one that is read,
written, or timed out at that moment. A single io thread, in `http_progress`, is the
hardest case for progress: whatever blocks it blocks everything. The nine messages take every way
through `handle_request`, and some differ from another in one respect only, so that
a comparison left out is noticed. `CHECK_DEADLOCK FALSE` is for the end of all
connections, and for the end of the process.

For `Restaurant`, two connections are the fewest in which one order waits for
another's purchase, in which two clients compete for the one burger, and in which
a resize, that of session 2, meets a call in progress; the twelve exchanges reach
every status, every exception and both accesses out of bounds of a purchase. With three calls an owner of `Lifetime` can have one
task running, one queued and one yet to be posted when it joins, stops or lets
go. Pools of one thread leave tasks in their queues the longest.

For `Documents` everything that is counted is small enough for short texts to reach
beyond it: with `Modulus = 16` the numeral `16` is too large for a `size_t`, `-9` for the
signed type; with `Magnitude = 3` the numeral `9e9` for a double. The texts are: all of up to
four of eight pieces (the six signs of structure, a string, a number) and of up to
three of twelve (with null, a blank, a NUL and a byte that starts nothing); all
numerals of up to four of seven bytes; strings of up to three bytes from both
ends of every range that UTF-8 tells apart, of four bytes around those of its
longest form, of every short escape, and of one or two code units around the
surrogates; texts with a byte order mark or something behind them; objects in
which each of the four parameters is missing, 1, -1 or a string; a body with
one piece dropped, added or replaced; and files whose entries have as ids, costs
and amounts 1, 2, -1, 1.9, 9e1 or null. Nesting is as deep as four pieces allow, and
in bodies and files as it is there; deeper nesting and longer texts are what the theorems are for.

Fairness. `FairSpec` of `Server` asks weak fairness of each call's thread, and nothing of
`Invoke`: threads of callers and pools are scheduled by the operating system,
but no client has to call. Locks are not assumed to be fair: since calls are
finitely many, whoever waits for a lock in the end has it to himself. An
endless stream of readers could starve a resize under glibc's lock; the
model, with finitely many calls, does not say otherwise.

`FairSpec` of `Http` asks that time passes (`Expire`), that the io threads run
what is ready (`DoRead`, `TimesOut`, `HandlerStep`), and that they and `main` return when
the io_context has nothing left for them (`RunsOut`), which nothing can block. It asks nothing of the clients, who
may say nothing, read nothing or vanish, nor of the service layer.
`EveryConnectionEnds` and `EndsWithoutListener` have a premise, `CallsReturn`, that `serial_answer` shows not to
hold always: an order that sleeps keeps the lock a resize needs, and the resize
keeps its caller; a call that throws ends the process, and all waiting with it. Where it holds, a connection that waits for ever costs no other
anything: it has no io thread and no mutex.

`RestaurantFairSpec` asks both: threads of pools and of the io_context run, time passes.
`CallsReturn` is no premise here, for the service layer is inside; what remains is
`OrdersFollowPurchases`, which is up to the clients, and that none of them ends the
process, or makes it access a vector out of bounds. `LifetimeFairSpec` asks that tasks
run and that a join returns when it can, and nothing of what the owner does next.
`JoinReturns` and `LetGoIsDestroyed` have no premise about what the owner has done before:
they say what a pool that was stopped, or joined before its last task was posted,
can cost. A join waits for ever only if such a pool holds back the very purchase that an
order sleeps for, and a server that is let go lives on only if such a pool has a task
in its queue.

`Documents` needs no fairness: every step of reading uses up text or ends it, and
the run checks deadlock, where only the end (`Ended`) repeats itself. So every
document comes to an outcome.

What the violated properties show of the code:

* the flag is raised once and never lowered, so an order waits for *a* purchase
  of its session, not for those called before it
  (`tests/Server_tests.cpp`, `AsynchronyTest`, orders right after it buys);
* an order without a purchase is never answered, and keeps a thread and a lock
  that later callers need (`tests/Net_tests.cpp`,
  `MakeOrderPaymentNotSufficient`, expects an answer, and gets one only after
  another test has bought for the same session);
* `Remove` takes from carts what is not there (`README.md`);
* `README.md` has other names for the parameters than the code. `check_params` takes a
  parameter that is absent for a good one, and the exception of reading it ends the
  process, for nothing above `handle_request` catches any. `DocumentedFormIsServed`
  is about requests that have been read, so that the counterexample is what becomes of
  one, and not a process that ends for another reason.

## What is proved

`ServerProofs` proves, for all values of the constants that satisfy
`MenuAssumption` and `ServerAssumption`, that each of these is an invariant of
`Spec`. A later one may use those before it:

1. `TypeOK` is inductive by itself, with counters as integers.
2. `LockDiscipline`: lock holders and program counters agree.
3. `OpsAgree`, not a property of interest but needed: a call is only where its
   operation goes, and each queue holds calls of its own pool.
4. `CopyIsFresh` from 2: who is between copy and swap holds the lock
   exclusively, and everyone who writes the vectors holds it shared.
5. `VectorsAgree` from 4: the swap installs `Wrap(2 * sessionId)` elements, and not fewer
   than there were, for the copy has found room. So the vectors never get
   shorter (`NeverShorter`), which is what a task relies on that uses them
   long after its session was checked.
6. `IndexInRange` from 4 and 5. A session whose double is a `size_t` has its element when
   `CheckSessionIdSize` returns, and by 5 keeps it. One whose double wraps around may lack
   it, but only until the call's first access, which is then out of bounds; and
   a copy overruns only for such a session (`OverrunWraps`).
7. `CountIsInFlight` from 3 to 6: a set of calls gains an element exactly where
   the counter goes up. A swap adds zeros for sessions that, by 6, have
   nothing in flight.
8. `StockCheckHolds` from 2.
9. `FlagHasCause`, then `OrderFollowsAPurchase`.
10. `NoLostWakeup`: a swap cannot interfere, for a sleeper holds the lock shared.
11. `SettledIsFlagged` from 7: a purchase that counts down and then reads
    something else than 0 has read the presence of another.
12. `QueuesAgree`, and `QueuedIsInQueue`: a call whose task waits is in a queue.
13. `StuckHasCause`, the absence of deadlock, from all of these. TLC finds a deadlock by
    looking for a step; a prover needs it said of the state. `CanStep(c)` says when the
    thread of call `c` may go on, and that it then does have a step
    is ENABLED, which is beyond the prover; `AnsweredIfOrdersFollow`, which TLC checks, does
    not rest on `CanStep`. Suppose no call can step. Nobody holds `resize_atomics_mutex`
    exclusively, for whoever does is copying, and can. Only a waiting writer
    then keeps anyone from sharing it, so without `WriterPreferring` whoever wants to
    share it gets it, whoever holds `bying_removing_mutex` gets to release it, and
    the head of the main queue finds a thread. What is left are orders
    asleep, calls that want to resize, and queued orders; and the latter two
    are there only because an order sleeps, with the lock or the thread they want.
    A purchase of the sleeper's session that has been counted would be done by now, so
    by 11 the flag would be up, and by 10 somebody about to notify: but he could step.

`HttpProofs` proves, for all values that satisfy `HttpAssumption`, that
`ServerMutexDiscipline` and the safety properties of the run `http` are invariants of `Http`'s `Spec`:

1. `HttpTypeOK` is inductive by itself.
2. `ServerMutexDiscipline` from 1; the run `restaurant` checks what follows of it, `CallersInTurn`.
3. `ExchangeAgrees`, the strengthening: how far a connection's handler has got
   says what its stream does, whether the service has been called, and what has
   been sent. It is needed because the response is started in two ways, by the
   handler that refuses and by the callback, which knows nothing of the handler.
4. `OneAnswer`, `AnswerTellsEffect` and `WaitersStayOpen` follow from 1 and 3;
   `EndsAfterReturn` is inductive with them, because of the strand.

`LedgerProofs` proves that `Server` implements `Ledger`: one lemma for each of the seven
steps at which a call takes effect, one for all other steps, which leave stock,
carts and outcomes alone. What a call was answered has to fit its place
(`RepliesAgree`), and the amount a purchase takes does not wrap, since by
`StockCheckHolds` what was tested is still there. Prices need no reasoning there, for
both layers sum in the same words.

The accounts, which compare sums, then follow from the ledger alone. Whatever happens in
between, each step of `Server` is a step of `Ledger` or leaves stock, carts and sales
alone, so only the seven kinds of ledger steps count:

* `ItemsConserved` is inductive with the invariants that the refinement needs. A
  purchase moves an amount from the stock to one cart, a removal the other way, a
  paid order from one cart to what is sold; and a sum of which one term changes by
  `n` changes by `n`.
* `SalesArePaid` says the same as `Balanced`: what has been sold is worth, modulo
  `Modulus`, what the accepted orders of the ledger were called with (`Takings`). An
  order that is accepted adds its amount to one side, and to the other the price of
  its cart, which `CheckOrderCost` has found to be equal to it; items that are not
  in the cart add zero.

The first part of `LedgerProofs` has what this needs of sums. `SumFunctionOnSet` of the community modules is a
recursive function on the subsets of a set, so a proof has to show that there is
such a function (`TableExists`), that it does not depend on the set it was made for
(`TablesAgree`), and that any element may be taken out first (`SumTakesOut`). The rest
is arithmetic: `size_t` wraps at every step and the properties wrap once, at the
end, so it treats numbers up to `Same`, congruence modulo `Modulus`. The sums are
over finite sets because of `IsFiniteSet(Items)` in `MenuAssumption`, which the code
justifies: an item id is a `size_t`.

`RestaurantProofs` first shows that every step of the program is one of `Server` or
leaves it alone (`ServerInside`), so that all that is proved of `Server` holds of the
program: the ledger, and the accounts (`RestaurantKeepsAccounts`). The converse for `Http` needs an invariant, `Joined`:
connection and call agree on whether the call was made and answered. From it,
and because a call is answered once and with a status of its operation, follows
`HttpContractKept`, and so everything proved of `Http`; then `CallersComeInTurn`, and
`ClientsAreToldTheTruth` with `SentAgrees`, that a response carries the reply.
`HungOnlyForCause` carries `StuckHasCause` over
to the whole program, with `server_mutex` and the io threads: a handler that cannot go on
waits for the mutex or for its call; who has the mutex is inside its call
(`ExchangeAgrees`, `CallersInTurn`), and calls hang for one reason only.

`LifetimeProofs` counts owners: a call that is posted and not over has a task
(`Ownership`), so a server without tasks has no call under way, and by
`LockDiscipline` no lock held; and a call that a join waits for is finished or its
pool has not been joined (`Awaiting`).

`JsonParserProofs` proves four invariants of `Documents`, for texts of any length and depth.
They assume `JsonTextAssumption`, that integers have an even number of values, and
`DocumentsAssumption`, that a text is a sequence of bytes, and that there are two of
them to load and one to serve.

1. `StacksAgree`. Its invariant, `Stacks`, adds the types that a step needs, the value
   being a sequence of pairs, and that before the first value nothing has been built,
   so that the root's node is the first. The lemmas `Refill` and `Grow` say what a
   node more, or another content for one, leaves as it was.
2. `DumpNeverThrows`, the first half of `DumpReadsBack` and the reason why the
   constructor of `ItemHolder` survives any name in its files: `dump` accepts every
   string that was read.
3. `ValueIsTree`: a complete value has a node for every element and member, and it
   comes later than the structure, so that whoever follows the pointers gets to an
   end. While a value is being read there is one exception, the `Hole`: the member
   whose key has been read and whose value has not.
4. `SizesFit`: what a call of the service is given, and what an `ItemHolder` is made
   of, are values of `size_t`, and of finitely many ids. That is what `MenuAssumption`
   takes for granted of `InitialAmount`, `Cost`, `Sessions` and `Requests`, a session id being any
   `size_t`, so nothing is assumed of the input that the code does not establish. `KeysAreMembers` shows on the way
   that a loop over an object visits every member once, in the order of
   `std::map`, which is a linear order on keys (`PrecedesOrders`, `PrecedesTransitive`).

The second to fourth rest on `Reading`: the last token is `WellFormed`, and the value is
a `Tree` up to the hole. That a token is well-formed is what `JsonTextProofs` is
about. The lexer checks UTF-8 by the ranges of the bytes that follow a leading one,
and writes UTF-8 itself for an escape, one code unit or a pair of surrogates;
the serializer runs an automaton of nine states over byte classes. The two were
written apart. `LedDecodes` and `Utf8Decodes` show that the automaton gets from
accepting to accepting through whatever the lexer lets through or writes, and
`DecodedJoins` that this goes on from one character to the next. An integer token
fits its type, because the numeral's automaton lets through only digits and one sign (`Seen`)
unless there is a point or an exponent (`NumeralFits`).

`JsonTextProofs` goes on to compare the lexer with RFC 8259. `JsonTokens` has its strings
and numerals over bytes, as relations: which bytes are a character, and that a string is
characters one after the other; which are the integer, the fraction and the exponent of a
numeral. Four theorems follow, for any bytes in any text, from `JsonTextAssumption` alone:

1. `StringsAreRead`: `scan_string` reads what is a string of RFC 8259, with the UTF-8 of
   its characters as the value, and reports an error for anything else. That the
   lexer's table of ranges lets through the UTF-8 of RFC 3629, no more and no less, are
   the lemmas `LedIsUtf8` and `Utf8IsLed`.
2. `NumeralsAreRead`: the automaton of `scan_number` reads the longest numeral that begins
   there. What it does not read, although a numeral begins there, is followed by a byte
   that could belong to one, as in `1.x`.
3. `StringsReadBack`: a string that `dump` accepts is read back from what `dump_escaped`
   writes. For this the two UTF-8 automata have to agree in the other direction, too:
   wherever the serializer's accepts, a character of the lexer's ends (`CharacterBefore`).
4. `IntegersReadBack`: the same of `dump_integer`. Its digits are the solution of a
   recursion (`DigitsExist`, `DigitsAgree`), and what the lexer makes of them is a sum
   over their places (`DecimalIsSum`), which the recursion turns into the integer again.

The loop of a lexer is taken as data: an invariant says that what has been read so far
is characters, or parts of a numeral; the converse goes through the characters, or the
parts, and shows that the loop gets to the end of each.

`JsonGrammarProofs` compares the parser with the grammar of RFC 8259. `JsonGrammar` has it
over tokens, without a loop or a stack: the rules lead from facts ("from this token to
that place the text is a value", or the rest of an array's items, or of an object's) to
facts, and `Derivable` is the least set that they do not lead out of. Four theorems
follow, for texts of any length and depth:

1. `ParserDecidesGrammar`: `sax_parse_internal` gets to its end exactly if the text
   begins with a value, and then stands at the only place where this value can end.
2. `ParserReadsWhatIsWritten`: the nodes are that value. `IsWritten` says of a node and
   the place where it is written that the scalar, the items or the members agree.
3. `JobsAreJudgedByGrammar`: of the jobs, who gets called, loaded or thrown out, by
   what the texts are.
4. `JobsTakeWhatIsWritten`: what the callee is given stands in the text under that name,
   and the two files of an `ItemHolder` are not mixed up.

No induction over derivations or over depth is needed. A least set is a fixed point of
its rules (`DerivedByRule`), and for every token one rule only applies, so a step of the
parser moves from a fact to the one fact on which it depends. The first invariant,
`Deriving`, keeps one fact for each structure that is open, a chain: each value ends
where the next outer rule says, so what holds of the innermost holds of the text. Taken
forwards the chain says what is accepted, and as it consists of equivalences it also
says, at a token that fits no rule, that nothing is derivable. The second,
`Building`, adds where the nodes have been written so far (`Drafted`): those that are complete
are `IsWritten`; the open ones, which are those on the builder's stack, lack the closing
bracket, and the innermost object may lack one member, whose key has been read. That the
builder's stack and the parser's are about the same structures is what makes a value go
where it stands in the text.

Induction. The induction theorems of the library take a predicate as a parameter,
which no installed prover can instantiate. They were replaced by facts about sets:
`SubsetInduction` (a collection of sets that has each set all of whose one-smaller subsets it
has), `Least` (a set of naturals has a least element), and, for the loops of the lexer,
`LoopEnds` and `LoopKeeps`, in which a loop is a set of states, a step and a bound on what is
left. All three follow from the library's theorems on well-founded orderings.

Only model-checked:

* `ReadsJson`, `BodyServedAsMeant`, `LoadedAsWritten`, and of `DumpReadsBack` that what is
  written means what was read. They compare the program with RFC 8259 byte by byte, and
  `DocumentsProperties` says what bytes mean by RECURSIVE operators (`Values`, `Items`,
  `RestOfString`, `CodePoints`); the prover takes no module that has one. What they say
  is proved in parts that TLC puts together: structure from the tokens on in
  `JsonGrammarProofs`, strings and numerals in `JsonTextProofs`. Left to TLC alone are
  that the two ways to say it (`JsonTokens` with `JsonGrammar`, and `Values`) are the
  same, which bytes are the other tokens and blanks, and that the reading back of strings
  and integers extends to a whole value, which is an induction over its structure.
* Progress: `AnsweredIfOrdersFollow`, `EveryConnectionEnds`, `EndsWithoutListener`,
  `EveryExchangeEnds`, `JoinReturns`, `LetGoIsDestroyed`, and that every document comes to an outcome. The prover knows
  neither fairness nor ENABLED. `StuckOnlyForCause` and `HungOnlyForCause` are the part of it
  that is proved: nobody waits in a circle.
* The four properties that are violated, for which TLC has the counterexamples.

## Not modelled

* Of `json.hpp`, 25 500 lines of vendored code that are most of the repository, the
  program instantiates little, and that is modelled. Not modelled are the digits that
  `dump_float` writes (so `DumpReadsBack` leaves out values with a double in them),
  positions and wording of errors, comments, the serializer's buffers, and what no
  call reaches: binary formats, JSON pointers and patches, parser callbacks,
  iterators beyond those of the two loops, conversions to other types.
* Memory, but for the vectors of `CheckSessionIdSize`: whether they can be allocated
  depends on their length alone (`MaxElements`), and nothing is said of what a write out of
  bounds hits. The index of the copying loop is an `int`, so vectors of 2^31 elements and
  more are left out, too. No other allocation fails, and no task and no
  callback throws; `thread_pool` would end the process if one did. In `Lifetime` the owner
  catches what a call throws; in `Restaurant`, as in the code, nobody does.
* Opening and binding the acceptor, beyond that it may fail; HTTP itself, which is
  Beast's: a request is a method, a target and a body.
* Texts of answers and logs, the contents of the menu, and how long anything
  takes: sleeping and cooking are steps that come at some time.
* The tests, which are not run but read: how they call the server is `SerialCalls`,
  what they expect is in the findings.
* Progress under reader-writer locks that starve writers, and session ids or items
  that the constants do not name.
