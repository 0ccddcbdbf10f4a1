----------------------------- MODULE Restaurant -----------------------------
(***************************************************************************)
(* The whole program: the controller layer over the service layer.  Every  *)
(* connection may make the one call of its request, so connections and     *)
(* calls are the same things.  handle_request calls the server in an io    *)
(* thread with server_mutex held; the callback that goes with the call is  *)
(* invoked by a thread of a pool, and starts the write.                    *)
(***************************************************************************)
EXTENDS ServerProperties

CONSTANTS
  Exchanges,  \* what clients may send: a message, and the request it stands for
  IoThreads   \* threads that run the io_context

VARIABLES
  accepting, stream, timer, handler, message, server_mutex, service, sent, up

Messages == {e.message : e \in Exchanges}

H == INSTANCE HttpProperties WITH Connections <- Calls, NoConnection <- NoCall

httpVars == <<accepting, stream, timer, handler, message, server_mutex, service, sent, up>>
allVars  == <<vars, httpVars>>

(* The operation that handle_request calls for a message that has a route. *)
OperationOf(m) ==
  CASE m.target = "buy" -> "buy"
    [] m.target = "remove" -> "remove"
    [] m.target = "make_order" -> "order"
    [] m.target = "get_description" -> "describe"

ASSUME RestaurantAssumption ==
  /\ IoThreads \in Nat \ {0}
  /\ \A e \in Exchanges :
       /\ e.message \in H!Message
       /\ e.request \in Requests
       /\ H!Serves(e.message) => e.request.op = OperationOf(e.message)

RestaurantInit ==
  /\ Init
  /\ H!Init
  /\ \A c \in Calls : [message |-> message[c], request |-> request[c]] \in Exchanges

(* Slip: a payment refused is reported as a failure of the server.         *)
StatusOf_Merged(status) == IF status = "ok" THEN 200 ELSE 500

(* The status of the response that the callback makes.                     *)
StatusOf(status) ==
  CASE status = "ok" -> 200
    [] status = "internal_error" -> 500
    [] status = "payment_failure" -> 402

-----------------------------------------------------------------------------
(* Steps of one layer that do not concern the other.                       *)
ListenerStep == (H!AcceptFails \/ H!RunsOut) /\ UNCHANGED vars

ConnectionStep(c) ==
  /\ \/ H!ClientStep(c) \/ H!DoRead(c) \/ H!Expire(c) \/ H!TimesOut(c)
     \/ H!HandlerStep(c) /\ ~H!CallServer(c)
  /\ UNCHANGED vars

InnerStep(c) ==
  /\ ThreadStep(c) /\ ~AllocationThrows(c)
  /\ UNCHANGED <<reply, httpVars>>

(* Where the layers meet.                                                  *)
CallServer(c) == H!CallServer(c) /\ Invoke(c)

(* Slip: the handler does not wait for the call to return.                 *)
Returned_Always(c) == TRUE

(* Buy, Remove, MakeOrder and GetAllItemDescription return when they have  *)
(* posted their task.                                                      *)
Returned(c) == pc[c] \notin CallerPcs

CallReturns(c) == H!CallReturns(c) /\ Returned(c) /\ UNCHANGED vars

(* The exception passes handle_request and io_context::run.                *)
CallThrows(c) == H!CallThrows(c) /\ AllocationThrows(c)

(* A task invokes its callback, in a thread of a pool.                     *)
Respond(c) ==
  /\ ThreadStep(c)
  /\ reply'[c] # reply[c]
  /\ H!SendResponse(c, StatusOf(reply'[c]))
  /\ service' = [service EXCEPT ![c] = "answered"]
  /\ UNCHANGED <<accepting, timer, handler, message, server_mutex, up>>

TaskStep(c) == InnerStep(c) \/ Respond(c)

RestaurantNext ==
  /\ up /\ Defined
  /\ \/ ListenerStep
     \/ \E c \in Calls :
          \/ ConnectionStep(c) \/ CallServer(c) \/ CallReturns(c) \/ CallThrows(c)
          \/ TaskStep(c)

RestaurantSpec == RestaurantInit /\ [][RestaurantNext]_allVars

(* Threads are scheduled and time passes; nothing is asked of the clients. *)
IoStep(c) ==
  \/ (H!DoRead(c) \/ H!TimesOut(c)) /\ UNCHANGED vars
  \/ H!HandlerStep(c) /\ ~H!CallServer(c) /\ UNCHANGED vars
  \/ CallServer(c) \/ CallReturns(c) \/ CallThrows(c)

RestaurantFairSpec ==
  /\ RestaurantSpec
  /\ \A c \in Calls :
       /\ WF_allVars(up /\ TaskStep(c))
       /\ WF_allVars(up /\ Defined /\ IoStep(c))
       /\ WF_allVars(up /\ Defined /\ H!Expire(c) /\ UNCHANGED vars)

-----------------------------------------------------------------------------
(* The program keeps what the controller layer asks of a service layer: a  *)
(* callback is invoked once, only after the call that took it, and only    *)
(* with an answer that this call may be given.                             *)
KeepsHttpContract == H!Spec

(* Only one thread at a time is in Buy, Remove, MakeOrder or               *)
(* GetAllItemDescription, and it holds server_mutex: the service layer,    *)
(* written for callers that overlap, is only ever called in turn.          *)
CallersInTurn == \A c \in Calls : pc[c] \in CallerPcs => server_mutex = c

(* What a client reads is what happened: 200 for what was done, 500 and    *)
(* 402 for what was refused with nothing changed, and 4xx otherwise for a  *)
(* request of which the service layer has never heard.                     *)
ClientToldTruth ==
  \A c \in Calls : \A k \in 1 .. Len(sent[c]) :
    /\ sent[c][k] = 200 <=> Outcome(c) = "ok"
    /\ sent[c][k] = 500 <=> Outcome(c) = "internal_error"
    /\ sent[c][k] = 402 <=> Outcome(c) = "payment_failure"
    /\ sent[c][k] \in H!Refusals <=> Outcome(c) = "absent"

(* Does handle_request go on, in the io thread that it is in?              *)
CanHandle(c) ==
  /\ H!InHandler(c)
  /\ handler[c] = "entered" => H!ServerFree
  /\ handler[c] = "calling" => Returned(c)

Hung ==
  /\ up /\ Defined
  /\ \E c \in Calls : H!InHandler(c) \/ Unfinished(c)
  /\ \A c \in Calls : ~CanHandle(c) /\ ~CanStep(c)

(* No thread of the io_context and none of a pool is blocked for good, be  *)
(* it that all of them wait, unless an order sleeps for a session without  *)
(* a purchase: server_mutex and the locks of the server, of which the      *)
(* first is held while the others are waited for (RequestHandler.h:79,     *)
(* Server.cpp:127), are never waited for in a circle.                      *)
HungHasCause ==
  Hung =>
    \E d \in Calls :
      pc[d] = "asleep" /\ (~WriterPreferring => ~PurchaseMade(SessionOf(d)))

Ended(c) == stream[c] \in {"closed", "failed"}

(* If clients order only for sessions that have asked to buy, every        *)
(* connection that is accepted ends, whatever the other clients do, unless *)
(* the process does: no thread of the io_context, of a pool, and no lock   *)
(* is lost to it for ever.  (Nothing is said after an access out of bounds.)*)
EveryExchangeEnds ==
  []OrdersFollowPurchases =>
    \A c \in Calls : stream[c] = "accepted" ~> Ended(c) \/ ~up \/ ~Defined
=============================================================================
