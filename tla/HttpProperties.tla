--------------------------- MODULE HttpProperties ---------------------------
(***************************************************************************)
(* What the controller layer promises, whatever the clients send and       *)
(* whatever the service layer does with a call.                            *)
(***************************************************************************)
EXTENDS Http

(* The type invariant; the statuses are those that a client can be sent.   *)
HttpTypeOK ==
  /\ accepting \in BOOLEAN
  /\ stream \in [Connections ->
       {"pending", "accepted", "reading", "idle", "writing", "closed", "failed"}]
  /\ timer \in [Connections -> {"off", "running", "expired"}]
  /\ handler \in [Connections ->
       {"none", "entered", "locked", "checked", "calling", "returned"}]
  /\ message \in [Connections -> Messages]
  /\ server_mutex \in Connections \cup {NoConnection}
  /\ service \in [Connections -> {"none", "called", "answered"}]
  /\ sent \in [Connections -> Seq(Statuses)]
  /\ up \in BOOLEAN

(* server_mutex is held by the one handler between its lock and its end,   *)
(* through the whole of the call: the server is called by one thread at a  *)
(* time (RequestHandler.h:79-117).                                         *)
ServerMutexDiscipline ==
  \A c \in Connections :
    handler[c] \in {"locked", "checked", "calling"} <=> server_mutex = c

(* A request is answered at most once, by one of handle_request's many     *)
(* returns or by the callback: a second async_write would run into the     *)
(* first.  While one is being written, or has been, there was one.         *)
OneAnswer ==
  \A c \in Connections :
    /\ Len(sent[c]) <= 1
    /\ stream[c] = "writing" => Len(sent[c]) = 1

(* Client and server agree on what happened: who is told 404, 405 or 422   *)
(* has changed nothing, who is told anything else has been served, and     *)
(* the server is called only for a route it has, with the parameters that  *)
(* the call reads (RequestHandler.h:81-116).                               *)
AnswerTellsEffect ==
  \A c \in Connections :
    /\ \A k \in 1 .. Len(sent[c]) :
         IF sent[c][k] \in Refusals THEN service[c] = "none"
                                    ELSE service[c] = "answered"
    /\ service[c] # "none" =>
         /\ <<message[c].method, message[c].target>> \in Routes
         /\ message[c].method # "get" => message[c].body = "good"

(* A connection whose request is with the service layer stays open, though *)
(* the timer set before the read (Session.cpp:17) may expire meanwhile:    *)
(* with no operation pending there is nothing for it to end.               *)
WaitersStayOpen ==
  \A c \in Connections : service[c] = "called" => stream[c] = "idle"

(* Though the callback starts the write in another thread (Session.cpp:35) *)
(* and may do so before the call has returned, the connection does not end *)
(* while handle_request runs: on_write waits for its strand.               *)
EndsAfterReturn ==
  \A c \in Connections : stream[c] \in {"closed", "failed"} => ~InHandler(c)

(* Every call of the service layer returns, or throws.                     *)
CallsReturn ==
  \A c \in Connections : handler[c] = "calling" ~> handler[c] # "calling" \/ ~up

Ended(c) == stream[c] \in {"closed", "failed"}

Waits(c) == handler[c] = "returned" /\ service[c] = "called"

(* If calls return or throw, every connection that is accepted ends, or    *)
(* waits for an answer that the service layer owes it, or goes with the    *)
(* process: a silent client, one that does not read, an answer that never  *)
(* comes, and an accept loop that has ended hold up no other connection.   *)
EveryConnectionEnds ==
  CallsReturn =>
    \A c \in Connections :
      stream[c] \in {"accepted", "reading", "writing"} ~> Ended(c) \/ Waits(c) \/ ~up

(* One error of the acceptor ends its loop for good (Listener.cpp:49), and *)
(* with that the process, in a while: no silent client keeps the threads   *)
(* of the io_context from returning (main.cpp:60-66), and they do not wait *)
(* for the answers that the service layer owes, so main may return while   *)
(* tasks of the server are queued or running.                              *)
EndsWithoutListener == CallsReturn => (~accepting ~> ~up)

(* A client that sends what README.md:24-31 describes is served: when its  *)
(* request has been read, handle_request comes to its end, and refuses it  *)
(* on no account.                                                          *)
DocumentedFormIsServed ==
  \A c \in Connections :
    /\ InHandler(c) => up
    /\ \A k \in 1 .. Len(sent[c]) : sent[c][k] \notin Refusals
=============================================================================
