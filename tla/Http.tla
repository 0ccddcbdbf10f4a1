-------------------------------- MODULE Http --------------------------------
(***************************************************************************)
(* The controller layer: Listener, Session and RequestHandler.  A          *)
(* connection carries one request, for every response is of HTTP 1.0 and   *)
(* so ends it.  Its handlers run in its strand, on one of the io threads;  *)
(* the answer of the service layer comes from a thread of a pool.          *)
(*                                                                         *)
(* Of the service layer only this is assumed: a call may return or not,    *)
(* and its callback may be invoked once, before or after that, or never;   *)
(* a call that takes parameters may throw, if it has not been answered.    *)
(***************************************************************************)
EXTENDS Naturals, Sequences, FiniteSets

CONSTANTS
  Connections,  \* what the clients may open
  NoConnection, \* owner of server_mutex when it is free
  Messages,     \* what they may send
  IoThreads     \* threads that run the io_context

Methods == {"get", "post", "delete", "put"}
Targets == {"get_description", "buy", "make_order", "remove", "elsewhere"}

(* What the program tells apart in a body: every parameter is there and    *)
(* unsigned; one is not unsigned; one that the target needs is missing     *)
(* and the others are unsigned; it is no JSON.                             *)
Bodies == {"good", "mistyped", "lacking", "malformed"}

Message == [method : Methods, target : Targets, body : Bodies]

ASSUME HttpAssumption ==
  /\ Messages \subseteq Message
  /\ IoThreads \in Nat \ {0}
  /\ NoConnection \notin Connections

VARIABLES
  accepting,    \* Listener: an accept is pending
  stream,       \* Session: what its connection is doing
  timer,        \* the stream's timer
  handler,      \* where handle_request has got to
  message,      \* the request its client sends, if it sends one
  server_mutex, \* who holds it
  service,      \* the call of the service layer
  sent,         \* statuses of the responses that send_response was given
  up            \* the process runs

connection == <<stream, timer, handler, message, service, sent>>
vars == <<accepting, connection, server_mutex, up>>

-----------------------------------------------------------------------------
(* Routing and validation.  A GET is routed before its body is looked at.  *)
Routes == {<<"get", "get_description">>, <<"post", "buy">>,
           <<"post", "make_order">>, <<"delete", "remove">>}

(* Slip: the method is not compared.                                       *)
Serves_AnyMethod(m) == \E r \in Routes : r[2] = m.target

Serves(m) == <<m.method, m.target>> \in Routes

ReadsBody(m) == m.method # "get"

Invalid(m) == ReadsBody(m) /\ m.body = "mistyped"

(* Slip: a bad request instead of an unprocessable entity.                 *)
RefusalStatus_BadRequest(m) ==
  IF Invalid(m) THEN 400 ELSE IF m.method = "put" THEN 405 ELSE 404

RefusalStatus(m) ==
  IF Invalid(m) THEN 422 ELSE IF m.method = "put" THEN 405 ELSE 404

Refusals == {404, 405, 422}

(* What the callbacks of a target's operation may be given.                *)
Replies(m) ==
  {200} \cup (IF m.target = "buy" THEN {500} ELSE {})
        \cup (IF m.target = "make_order" THEN {402} ELSE {})

Statuses == Refusals \cup {200, 402, 500}

(* handle_request runs to its end, or blocks, in the thread it is in.      *)
InHandler(c) == handler[c] \in {"entered", "locked", "checked", "calling"}

IoIdle == Cardinality({c \in Connections : InHandler(c)}) < IoThreads

(* Slip: completion handlers do not wait for one another.                  *)
OnStrand_Always(c) == TRUE

(* A completion handler of the connection can run: no other does, and      *)
(* there is a thread for it.                                               *)
OnStrand(c) == ~InHandler(c) /\ IoIdle

-----------------------------------------------------------------------------
Init ==
  /\ accepting = TRUE
  /\ stream = [c \in Connections |-> "pending"]
  /\ timer = [c \in Connections |-> "off"]
  /\ handler = [c \in Connections |-> "none"]
  /\ message \in [Connections -> Messages]
  /\ server_mutex = NoConnection
  /\ service = [c \in Connections |-> "none"]
  /\ sent = [c \in Connections |-> <<>>]
  /\ up = TRUE

(* A Session is made for the connection, and the next accept starts.       *)
Accept(c) ==
  /\ accepting /\ IoIdle
  /\ stream[c] = "pending"
  /\ stream' = [stream EXCEPT ![c] = "accepted"]
  /\ UNCHANGED <<accepting, timer, handler, message, server_mutex, service, sent, up>>

(* on_accept with an error returns before it would start the next accept.  *)
AcceptFails ==
  /\ accepting /\ IoIdle
  /\ accepting' = FALSE
  /\ UNCHANGED <<connection, server_mutex, up>>

(* Slip: the read is not given a time.                                     *)
ReadTimer_None == "off"

ReadTimer == "running"

DoRead(c) ==
  /\ stream[c] = "accepted" /\ OnStrand(c)
  /\ stream' = [stream EXCEPT ![c] = "reading"]
  /\ timer' = [timer EXCEPT ![c] = ReadTimer]
  /\ UNCHANGED <<accepting, handler, message, server_mutex, service, sent, up>>

(* Thirty seconds have passed since the read began.                        *)
Expire(c) ==
  /\ timer[c] = "running"
  /\ timer' = [timer EXCEPT ![c] = "expired"]
  /\ UNCHANGED <<accepting, stream, handler, message, server_mutex, service, sent, up>>

End(c, how) ==
  /\ stream' = [stream EXCEPT ![c] = how]
  /\ UNCHANGED <<accepting, timer, handler, message, server_mutex, service, sent, up>>

(* on_read with a request, which it hands to handle_request.               *)
ReadRequest(c) ==
  /\ stream[c] = "reading" /\ OnStrand(c)
  /\ stream' = [stream EXCEPT ![c] = "idle"]
  /\ handler' = [handler EXCEPT ![c] = "entered"]
  /\ UNCHANGED <<accepting, timer, message, server_mutex, service, sent, up>>

(* on_read at the end of the stream: do_close.                             *)
ReadEnds(c) == stream[c] = "reading" /\ OnStrand(c) /\ End(c, "closed")

(* Slip: the timer also cuts a connection that waits for the service.      *)
Pending_Waiting(c) == stream[c] \in {"reading", "idle", "writing"}

(* An operation of the connection is pending.                              *)
Pending(c) == stream[c] \in {"reading", "writing"}

(* The timer ends the operation it covers, and nothing while there is      *)
(* none.  The operation may complete before the timer's handler has run.   *)
TimesOut(c) == Pending(c) /\ timer[c] = "expired" /\ OnStrand(c) /\ End(c, "failed")

(* on_read or on_write with any other error: fail, and the Session goes.   *)
Fails(c) == Pending(c) /\ OnStrand(c) /\ End(c, "failed")

(* on_write: not to be kept alive, so do_close.                            *)
WriteDone(c) == stream[c] = "writing" /\ OnStrand(c) /\ End(c, "closed")

-----------------------------------------------------------------------------
(* handle_request, one thread at a time once it has server_mutex.          *)
SendResponse(c, status) ==
  /\ sent' = [sent EXCEPT ![c] = Append(@, status)]
  /\ stream' = [stream EXCEPT ![c] = "writing"]

ServerFree == server_mutex = NoConnection

LockServer(c) ==
  /\ handler[c] = "entered"
  /\ ServerFree
  /\ server_mutex' = c
  /\ handler' = [handler EXCEPT ![c] = "locked"]
  /\ UNCHANGED <<accepting, stream, timer, message, service, sent, up>>

Return(c) ==
  /\ server_mutex' = NoConnection
  /\ handler' = [handler EXCEPT ![c] = "returned"]

(* An exception finds no handler on its way out of io_context::run: the    *)
(* process ends.                                                           *)
Throw ==
  /\ up' = FALSE
  /\ UNCHANGED <<accepting, connection, server_mutex>>

ParseThrows(c) ==
  /\ handler[c] = "locked"
  /\ ReadsBody(message[c]) /\ message[c].body = "malformed"
  /\ Throw

(* Slip: what was refused is not returned upon.                            *)
Refuse_NoReturn(c) ==
  /\ SendResponse(c, RefusalStatus(message[c]))
  /\ handler' = [handler EXCEPT ![c] = "checked"]
  /\ UNCHANGED <<accepting, timer, message, server_mutex, service, up>>

Refuse(c) ==
  /\ SendResponse(c, RefusalStatus(message[c]))
  /\ Return(c)
  /\ UNCHANGED <<accepting, timer, message, service, up>>

InvalidParams(c) == handler[c] = "locked" /\ Invalid(message[c]) /\ Refuse(c)

(* The body is fit to be routed, or is not looked at.                      *)
PassChecks(c) ==
  /\ handler[c] = "locked"
  /\ ReadsBody(message[c]) => message[c].body \in {"good", "lacking"}
  /\ handler' = [handler EXCEPT ![c] = "checked"]
  /\ UNCHANGED <<accepting, stream, timer, message, server_mutex, service, sent, up>>

(* Nothing is at the target, or the method is not supported.               *)
RefuseRoute(c) == handler[c] = "checked" /\ ~Serves(message[c]) /\ Refuse(c)

(* get<size_t> of a parameter that is not there: check_params lets pass    *)
(* what is absent.                                                         *)
MissingParameterThrows(c) ==
  /\ handler[c] = "checked"
  /\ Serves(message[c])
  /\ ReadsBody(message[c]) /\ message[c].body = "lacking"
  /\ Throw

CallServer(c) ==
  /\ handler[c] = "checked"
  /\ Serves(message[c])
  /\ ReadsBody(message[c]) => message[c].body # "lacking"
  /\ handler' = [handler EXCEPT ![c] = "calling"]
  /\ service' = [service EXCEPT ![c] = "called"]
  /\ UNCHANGED <<accepting, stream, timer, message, server_mutex, sent, up>>

CallReturns(c) ==
  /\ handler[c] = "calling"
  /\ Return(c)
  /\ UNCHANGED <<accepting, stream, timer, message, service, sent, up>>

(* The service layer throws out of the call.                               *)
CallThrows(c) ==
  /\ handler[c] = "calling" /\ service[c] = "called"
  /\ ReadsBody(message[c])
  /\ Throw

(* The service layer answers, in a thread of its own.                      *)
Callback(c) ==
  /\ service[c] = "called"
  /\ service' = [service EXCEPT ![c] = "answered"]
  /\ \E status \in Replies(message[c]) : SendResponse(c, status)
  /\ UNCHANGED <<accepting, timer, handler, message, server_mutex, up>>

-----------------------------------------------------------------------------
(* What the client and the network decide.                                 *)
ClientStep(c) ==
  Accept(c) \/ ReadRequest(c) \/ ReadEnds(c) \/ Fails(c) \/ WriteDone(c)

HandlerStep(c) ==
  \/ LockServer(c) \/ ParseThrows(c) \/ InvalidParams(c) \/ PassChecks(c)
  \/ RefuseRoute(c) \/ MissingParameterThrows(c) \/ CallServer(c)

ServiceStep(c) == CallReturns(c) \/ CallThrows(c) \/ Callback(c)

ConnectionStep(c) ==
  \/ ClientStep(c) \/ HandlerStep(c) \/ ServiceStep(c)
  \/ DoRead(c) \/ Expire(c) \/ TimesOut(c)

(* Slip: a connection counts for as long as it is open.                    *)
OutOfWork_Open ==
  /\ ~accepting
  /\ \A c \in Connections :
       stream[c] \notin {"accepted", "idle"} /\ ~Pending(c) /\ ~InHandler(c)

(* Nothing is pending in the io_context, and no handler of it is running.  *)
(* A connection that waits for the service layer has nothing pending.      *)
OutOfWork ==
  /\ ~accepting
  /\ \A c \in Connections : stream[c] # "accepted" /\ ~Pending(c) /\ ~InHandler(c)

(* Every ioc.run() returns, main's among them; main returns, and the       *)
(* vector of its threads goes while they are joinable: std::terminate.     *)
RunsOut ==
  /\ OutOfWork
  /\ up' = FALSE
  /\ UNCHANGED <<accepting, connection, server_mutex>>

Next == up /\ (AcceptFails \/ RunsOut \/ \E c \in Connections : ConnectionStep(c))

Spec == Init /\ [][Next]_vars

(* Time passes, and the io threads run what is ready, or return from run   *)
(* when nothing is left.  Nothing is asked of the clients, nor of the      *)
(* service layer.                                                          *)
FairSpec ==
  /\ Spec
  /\ WF_vars(up /\ RunsOut)
  /\ \A c \in Connections :
       /\ WF_vars(up /\ Expire(c))
       /\ WF_vars(up /\ (DoRead(c) \/ TimesOut(c) \/ HandlerStep(c)))
=============================================================================
