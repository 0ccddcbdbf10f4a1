----------------------------- MODULE HttpProofs -----------------------------
(***************************************************************************)
(* Theorems about the controller layer, for any number of connections and  *)
(* io threads and any messages.                                            *)
(***************************************************************************)
EXTENDS HttpProperties, TLAPS

(* The steps, by name.                                                     *)
LEMMA NextCases ==
  ASSUME Next
  PROVE  \/ AcceptFails \/ RunsOut
         \/ \E c \in Connections :
              \/ Accept(c) \/ ReadRequest(c) \/ ReadEnds(c) \/ Fails(c) \/ WriteDone(c)
              \/ LockServer(c) \/ ParseThrows(c) \/ InvalidParams(c) \/ PassChecks(c)
              \/ RefuseRoute(c) \/ MissingParameterThrows(c) \/ CallServer(c)
              \/ CallReturns(c) \/ CallThrows(c) \/ Callback(c) \/ DoRead(c) \/ Expire(c) \/ TimesOut(c)
  BY DEF Next, ConnectionStep, ClientStep, HandlerStep, ServiceStep

(* The two refusals are alike.                                             *)
LEMMA RefusalCases ==
  ASSUME NEW c, InvalidParams(c) \/ RefuseRoute(c)
  PROVE  /\ handler[c] \in {"locked", "checked"}
         /\ SendResponse(c, RefusalStatus(message[c]))
         /\ server_mutex' = NoConnection
         /\ handler' = [handler EXCEPT ![c] = "returned"]
         /\ UNCHANGED <<accepting, timer, message, service, up>>
  BY DEF InvalidParams, RefuseRoute, Refuse, Return

(* handle_request refuses with other statuses than the callbacks send.     *)
LEMMA StatusType ==
  \A m : /\ RefusalStatus(m) \in Refusals
         /\ Replies(m) \subseteq Statuses \ Refusals
         /\ Refusals \subseteq Statuses
  BY DEF RefusalStatus, Replies, Refusals, Statuses

(* A response adds its status to what was sent.                            *)
LEMMA SendType ==
  ASSUME HttpTypeOK, NEW c \in Connections, NEW status \in Statuses,
         SendResponse(c, status)
  PROVE  /\ sent' \in [Connections -> Seq(Statuses)]
         /\ stream' \in [Connections ->
              {"pending", "accepted", "reading", "idle", "writing", "closed", "failed"}]
<1>1. Append(sent[c], status) \in Seq(Statuses)
  BY DEF HttpTypeOK
<1> QED
  BY <1>1 DEF HttpTypeOK, SendResponse

-----------------------------------------------------------------------------
(* Every variable of the controller layer keeps its type, and a client is  *)
(* never sent any other status than the six of handle_request.             *)
THEOREM HttpTypeCorrect == Spec => []HttpTypeOK
<1>1. Init => HttpTypeOK
  BY DEF Init, HttpTypeOK
<1>2. HttpTypeOK /\ [Next]_vars => HttpTypeOK'
  <2> SUFFICES ASSUME HttpTypeOK, [Next]_vars PROVE HttpTypeOK'
    OBVIOUS
  <2>1. CASE UNCHANGED vars
    BY <2>1 DEF HttpTypeOK, vars, connection
  <2>2. CASE AcceptFails \/ RunsOut
    BY <2>2 DEF HttpTypeOK, AcceptFails, RunsOut, connection
  <2>3. ASSUME NEW c \in Connections,
               Accept(c) \/ DoRead(c) \/ Expire(c) \/ ReadRequest(c)
        PROVE  HttpTypeOK'
    BY <2>3 DEF HttpTypeOK, Accept, DoRead, ReadTimer, Expire, ReadRequest
  <2>4. ASSUME NEW c \in Connections,
               ReadEnds(c) \/ Fails(c) \/ WriteDone(c) \/ TimesOut(c)
        PROVE  HttpTypeOK'
    BY <2>4 DEF HttpTypeOK, ReadEnds, Fails, WriteDone, TimesOut, End
  <2>5. ASSUME NEW c \in Connections,
               \/ LockServer(c) \/ PassChecks(c) \/ CallServer(c) \/ CallReturns(c)
        PROVE  HttpTypeOK'
    BY <2>5 DEF HttpTypeOK, LockServer, PassChecks, CallServer, CallReturns, Return
  <2>6. ASSUME NEW c \in Connections, ParseThrows(c) \/ MissingParameterThrows(c) \/ CallThrows(c)
        PROVE  HttpTypeOK'
    BY <2>6 DEF HttpTypeOK, ParseThrows, MissingParameterThrows, CallThrows, Throw, connection
  <2>7. ASSUME NEW c \in Connections, InvalidParams(c) \/ RefuseRoute(c)
        PROVE  HttpTypeOK'
    <3>1. RefusalStatus(message[c]) \in Statuses
      BY StatusType
    <3> QED
      BY <2>7, <3>1, RefusalCases, SendType DEF HttpTypeOK
  <2>8. ASSUME NEW c \in Connections, Callback(c)
        PROVE  HttpTypeOK'
    <3>1. PICK status \in Replies(message[c]) : SendResponse(c, status)
      BY <2>8 DEF Callback
    <3>2. status \in Statuses
      BY StatusType
    <3> QED
      BY <2>8, <3>1, <3>2, SendType DEF HttpTypeOK, Callback
  <2> QED
    BY <2>1, <2>2, <2>3, <2>4, <2>5, <2>6, <2>7, <2>8, NextCases
<1> QED
  BY <1>1, <1>2, PTL DEF Spec

(* The server is called by one thread at a time, the one that holds        *)
(* server_mutex from RequestHandler.h:79 to the end of handle_request.     *)
THEOREM ServerMutexIsDisciplined == Spec => []ServerMutexDiscipline
<1>1. Init => ServerMutexDiscipline
  BY HttpAssumption DEF Init, ServerMutexDiscipline
<1>2. HttpTypeOK /\ ServerMutexDiscipline /\ [Next]_vars => ServerMutexDiscipline'
  <2> SUFFICES ASSUME HttpTypeOK, ServerMutexDiscipline, [Next]_vars
               PROVE  ServerMutexDiscipline'
    OBVIOUS
  <2> USE HttpAssumption DEF HttpTypeOK, ServerMutexDiscipline
  <2>1. CASE UNCHANGED vars
    BY <2>1 DEF vars, connection
  <2>2. CASE AcceptFails \/ RunsOut
    BY <2>2 DEF AcceptFails, RunsOut, connection
  <2>3. ASSUME NEW c \in Connections,
               \/ Accept(c) \/ DoRead(c) \/ Expire(c) \/ ReadEnds(c) \/ Fails(c)
               \/ WriteDone(c) \/ TimesOut(c) \/ Callback(c)
        PROVE  ServerMutexDiscipline'
    BY <2>3 DEF Accept, DoRead, Expire, ReadEnds, Fails, WriteDone, TimesOut, Callback, End
  <2>4. ASSUME NEW c \in Connections, ReadRequest(c)
        PROVE  ServerMutexDiscipline'
    <3>1. handler[c] \notin {"locked", "checked", "calling"}
      BY <2>4 DEF ReadRequest, OnStrand, InHandler
    <3> QED
      BY <2>4, <3>1 DEF ReadRequest
  <2>5. ASSUME NEW c \in Connections, LockServer(c)
        PROVE  ServerMutexDiscipline'
    BY <2>5 DEF LockServer, ServerFree
  <2>6. ASSUME NEW c \in Connections, PassChecks(c) \/ CallServer(c)
        PROVE  ServerMutexDiscipline'
    <3>1. /\ server_mutex' = server_mutex
          /\ handler[c] \in {"locked", "checked"}
          /\ \/ handler' = [handler EXCEPT ![c] = "checked"]
             \/ handler' = [handler EXCEPT ![c] = "calling"]
      BY <2>6 DEF PassChecks, CallServer
    <3> QED
      BY <3>1
  <2>8. ASSUME NEW c \in Connections, InvalidParams(c) \/ RefuseRoute(c) \/ CallReturns(c)
        PROVE  ServerMutexDiscipline'
    <3>1. /\ handler[c] \in {"locked", "checked", "calling"}
          /\ server_mutex' = NoConnection
          /\ handler' = [handler EXCEPT ![c] = "returned"]
      BY <2>8, RefusalCases DEF CallReturns, Return
    <3>2. \A d \in Connections \ {c} : handler[d] \notin {"locked", "checked", "calling"}
      BY <3>1
    <3>3. \A d \in Connections : handler'[d] \notin {"locked", "checked", "calling"}
      BY <3>1, <3>2
    <3> QED
      BY <3>1, <3>3
  <2>7. ASSUME NEW c \in Connections, ParseThrows(c) \/ MissingParameterThrows(c) \/ CallThrows(c)
        PROVE  ServerMutexDiscipline'
    BY <2>7 DEF ParseThrows, MissingParameterThrows, CallThrows, Throw, connection
  <2> QED
    BY <2>1, <2>2, <2>3, <2>4, <2>5, <2>6, <2>7, <2>8, NextCases
<1> QED
  BY <1>1, <1>2, HttpTypeCorrect, PTL DEF Spec

-----------------------------------------------------------------------------
(* The strengthening that the rest needs: how far the handler of a         *)
(* connection has got says what its stream and its call are doing, and     *)
(* what has been sent.                                                     *)
Written(c, S) ==
  /\ stream[c] \in {"writing", "closed", "failed"}
  /\ \E status \in S : sent[c] = <<status>>

NothingSent(c) == stream[c] = "idle" /\ sent[c] = <<>>

Complete(m) == Serves(m) /\ (ReadsBody(m) => m.body = "good")

HandlerAgrees(c) ==
  /\ handler[c] = "none" =>
       /\ stream[c] \in {"pending", "accepted", "reading", "closed", "failed"}
       /\ sent[c] = <<>> /\ service[c] = "none"
  /\ handler[c] \in {"entered", "locked", "checked"} =>
       NothingSent(c) /\ service[c] = "none"
  /\ handler[c] = "checked" =>
       (ReadsBody(message[c]) => message[c].body \in {"good", "lacking"})
  /\ handler[c] = "calling" => service[c] # "none"
  /\ handler[c] = "returned" /\ service[c] = "none" => Written(c, Refusals)

ServiceAgrees(c) ==
  /\ service[c] # "none" =>
       handler[c] \in {"calling", "returned"} /\ Complete(message[c])
  /\ service[c] = "called" => NothingSent(c)
  /\ service[c] = "answered" => Written(c, Statuses \ Refusals)

ExchangeAgrees == \A c \in Connections : HandlerAgrees(c) /\ ServiceAgrees(c)

(* A connection whose variables a step leaves alone still agrees.          *)
LEMMA UnchangedAgrees ==
  ASSUME NEW c, HandlerAgrees(c) /\ ServiceAgrees(c),
         stream'[c] = stream[c], handler'[c] = handler[c], message'[c] = message[c],
         service'[c] = service[c], sent'[c] = sent[c]
  PROVE  (HandlerAgrees(c) /\ ServiceAgrees(c))'
  BY DEF HandlerAgrees, ServiceAgrees, Written, NothingSent

(* So does one that a step ends, for it was reading or writing.            *)
LEMMA EndAgrees ==
  ASSUME HttpTypeOK, NEW c \in Connections, HandlerAgrees(c) /\ ServiceAgrees(c),
         stream[c] \in {"reading", "writing"},
         NEW how \in {"closed", "failed"}, End(c, how)
  PROVE  (HandlerAgrees(c) /\ ServiceAgrees(c))'
<1>1. stream'[c] = how
  BY DEF End, HttpTypeOK
<1>2. UNCHANGED <<handler, message, service, sent>>
  BY DEF End
<1>3. ServiceAgrees(c)'
  BY <1>1, <1>2 DEF ServiceAgrees, Written, NothingSent
<1>4. HandlerAgrees(c)'
  BY <1>1, <1>2 DEF HandlerAgrees, Written, NothingSent
<1> QED
  BY <1>3, <1>4

(* What was sent and is being written is the one response.                 *)
LEMMA SendAgrees ==
  ASSUME HttpTypeOK, NEW c \in Connections, NothingSent(c),
         NEW S, NEW status \in S, SendResponse(c, status)
  PROVE  Written(c, S)'
<1>1. stream'[c] = "writing" /\ sent'[c] = Append(<<>>, status)
  BY DEF HttpTypeOK, SendResponse, NothingSent
<1>2. Append(<<>>, status) = <<status>>
  OBVIOUS
<1> QED
  BY <1>1, <1>2 DEF Written

(* handler, stream, call and what was sent agree in every connection: the  *)
(* steps of Session and RequestHandler come in no other order, though they *)
(* are taken by io threads and pool threads.                               *)
THEOREM ExchangesAgree == Spec => []ExchangeAgrees
<1>1. Init => ExchangeAgrees
  BY DEF Init, ExchangeAgrees, HandlerAgrees, ServiceAgrees
<1>2. HttpTypeOK /\ ExchangeAgrees /\ [Next]_vars => ExchangeAgrees'
  <2> SUFFICES ASSUME HttpTypeOK, ExchangeAgrees, [Next]_vars, NEW d \in Connections
               PROVE  (HandlerAgrees(d) /\ ServiceAgrees(d))'
    BY DEF ExchangeAgrees
  <2>0. HandlerAgrees(d) /\ ServiceAgrees(d)
    BY DEF ExchangeAgrees
  <2>1. CASE UNCHANGED vars
    BY <2>0, <2>1, UnchangedAgrees DEF vars, connection
  <2>2. CASE AcceptFails \/ RunsOut
    BY <2>0, <2>2, UnchangedAgrees DEF AcceptFails, RunsOut, connection
  <2>3. ASSUME NEW c \in Connections, Accept(c) \/ DoRead(c)
        PROVE  (HandlerAgrees(d) /\ ServiceAgrees(d))'
    BY <2>0, <2>3 DEF HttpTypeOK, Accept, DoRead, HandlerAgrees, ServiceAgrees,
                      Written, NothingSent
  <2>4. ASSUME NEW c \in Connections, Expire(c)
        PROVE  (HandlerAgrees(d) /\ ServiceAgrees(d))'
    BY <2>0, <2>4, UnchangedAgrees DEF Expire
  <2>5. ASSUME NEW c \in Connections, ReadRequest(c)
        PROVE  (HandlerAgrees(d) /\ ServiceAgrees(d))'
    BY <2>0, <2>5 DEF HttpTypeOK, ReadRequest, HandlerAgrees, ServiceAgrees,
                      Written, NothingSent
  <2>6. ASSUME NEW c \in Connections,
               ReadEnds(c) \/ Fails(c) \/ WriteDone(c) \/ TimesOut(c)
        PROVE  (HandlerAgrees(d) /\ ServiceAgrees(d))'
    <3>1. PICK how \in {"closed", "failed"} :
            End(c, how) /\ stream[c] \in {"reading", "writing"}
      BY <2>6 DEF ReadEnds, Fails, WriteDone, TimesOut, Pending
    <3>2. CASE d = c
      BY <2>0, <3>1, <3>2, EndAgrees
    <3>3. CASE d # c
      BY <2>0, <3>1, <3>3, UnchangedAgrees DEF HttpTypeOK, End
    <3> QED
      BY <3>2, <3>3
  <2>7. ASSUME NEW c \in Connections, LockServer(c) \/ PassChecks(c)
        PROVE  (HandlerAgrees(d) /\ ServiceAgrees(d))'
    BY <2>0, <2>7 DEF HttpTypeOK, LockServer, PassChecks, HandlerAgrees, ServiceAgrees,
                      Written, NothingSent
  <2>8. ASSUME NEW c \in Connections, ParseThrows(c) \/ MissingParameterThrows(c) \/ CallThrows(c)
        PROVE  (HandlerAgrees(d) /\ ServiceAgrees(d))'
    BY <2>0, <2>8, UnchangedAgrees
       DEF ParseThrows, MissingParameterThrows, CallThrows, Throw, connection
  <2>9. ASSUME NEW c \in Connections, InvalidParams(c) \/ RefuseRoute(c)
        PROVE  (HandlerAgrees(d) /\ ServiceAgrees(d))'
    <3>1. /\ SendResponse(c, RefusalStatus(message[c]))
          /\ handler[c] \in {"locked", "checked"}
          /\ handler' = [handler EXCEPT ![c] = "returned"]
          /\ UNCHANGED <<message, service>>
      BY <2>9, RefusalCases
    <3>2. CASE d = c
      <4>1. Written(d, Refusals)'
        BY <2>0, <3>1, <3>2, SendAgrees, StatusType DEF HandlerAgrees
      <4>2. handler'[d] = "returned" /\ service'[d] = "none"
        BY <2>0, <3>1, <3>2 DEF HttpTypeOK, HandlerAgrees
      <4> QED
        BY <4>1, <4>2 DEF HandlerAgrees, ServiceAgrees
    <3>3. CASE d # c
      BY <2>0, <3>1, <3>3, UnchangedAgrees DEF HttpTypeOK, SendResponse
    <3> QED
      BY <3>2, <3>3
  <2>10. ASSUME NEW c \in Connections, CallServer(c)
         PROVE  (HandlerAgrees(d) /\ ServiceAgrees(d))'
    <3>1. CASE d = c
      <4>1. /\ handler'[d] = "calling" /\ service'[d] = "called"
            /\ UNCHANGED <<stream, message, sent>>
        BY <2>10, <3>1 DEF HttpTypeOK, CallServer
      <4>2. NothingSent(d) /\ Complete(message[d])
        BY <2>0, <2>10, <3>1 DEF HandlerAgrees, CallServer, Complete
      <4> QED
        BY <4>1, <4>2 DEF HandlerAgrees, ServiceAgrees, NothingSent
    <3>2. CASE d # c
      BY <2>0, <2>10, <3>2, UnchangedAgrees DEF HttpTypeOK, CallServer
    <3> QED
      BY <3>1, <3>2
  <2>11. ASSUME NEW c \in Connections, CallReturns(c)
         PROVE  (HandlerAgrees(d) /\ ServiceAgrees(d))'
    BY <2>0, <2>11 DEF HttpTypeOK, CallReturns, Return, HandlerAgrees, ServiceAgrees,
                       Written, NothingSent
  <2>12. ASSUME NEW c \in Connections, Callback(c)
         PROVE  (HandlerAgrees(d) /\ ServiceAgrees(d))'
    <3>1. PICK status \in Statuses \ Refusals : SendResponse(c, status)
      BY <2>12, StatusType DEF Callback
    <3>2. CASE d = c
      <4>1. Written(d, Statuses \ Refusals)'
        BY <2>0, <2>12, <3>1, <3>2, SendAgrees DEF ServiceAgrees, Callback
      <4>2. service'[d] = "answered" /\ UNCHANGED <<handler, message>>
        BY <2>12, <3>2 DEF HttpTypeOK, Callback
      <4>3. handler[d] \in {"calling", "returned"} /\ Complete(message[d])
        BY <2>0, <2>12, <3>2 DEF ServiceAgrees, Callback
      <4> QED
        BY <4>1, <4>2, <4>3 DEF HandlerAgrees, ServiceAgrees
    <3>3. CASE d # c
      BY <2>0, <2>12, <3>1, <3>3, UnchangedAgrees DEF HttpTypeOK, Callback, SendResponse
    <3> QED
      BY <3>2, <3>3
  <2> QED
    BY <2>1, <2>2, <2>3, <2>4, <2>5, <2>6, <2>7, <2>8, <2>9, <2>10, <2>11, <2>12,
       NextCases
<1> QED
  BY <1>1, <1>2, HttpTypeCorrect, PTL DEF Spec

(* No request is answered twice (send_response, Session.cpp:32-36).        *)
THEOREM AnswersAreSingle == Spec => []OneAnswer
<1>1. HttpTypeOK /\ ExchangeAgrees => OneAnswer
  <2> SUFFICES ASSUME HttpTypeOK, ExchangeAgrees, NEW c \in Connections
               PROVE  /\ Len(sent[c]) <= 1
                      /\ (stream[c] = "writing" => Len(sent[c]) = 1)
    BY DEF OneAnswer
  <2>1. \/ sent[c] = <<>> /\ stream[c] # "writing"
        \/ \E status \in Statuses : sent[c] = <<status>>
    BY StatusType
       DEF HttpTypeOK, ExchangeAgrees, HandlerAgrees, ServiceAgrees, Written, NothingSent
  <2>2. ASSUME NEW status \in Statuses, sent[c] = <<status>>
        PROVE  Len(sent[c]) = 1
    BY <2>2
  <2>3. sent[c] = <<>> => Len(sent[c]) = 0
    OBVIOUS
  <2>4. CASE sent[c] = <<>> /\ stream[c] # "writing"
    BY <2>3, <2>4
  <2>5. CASE \E status \in Statuses : sent[c] = <<status>>
    <3>1. Len(sent[c]) = 1
      BY <2>2, <2>5
    <3> QED
      BY <3>1
  <2> QED
    BY <2>1, <2>4, <2>5
<1> QED
  BY <1>1, HttpTypeCorrect, ExchangesAgree, PTL

(* A refused request has not reached the server, another answer is the     *)
(* server's, and only complete requests reach it.                          *)
THEOREM AnswersTellEffects == Spec => []AnswerTellsEffect
<1>1. HttpTypeOK /\ ExchangeAgrees => AnswerTellsEffect
  <2> SUFFICES ASSUME HttpTypeOK, ExchangeAgrees, NEW c \in Connections
               PROVE  /\ \A k \in 1 .. Len(sent[c]) :
                           IF sent[c][k] \in Refusals THEN service[c] = "none"
                                                      ELSE service[c] = "answered"
                      /\ service[c] # "none" =>
                           /\ <<message[c].method, message[c].target>> \in Routes
                           /\ message[c].method # "get" => message[c].body = "good"
    BY DEF AnswerTellsEffect
  <2>1. \/ sent[c] = <<>>
        \/ service[c] = "none" /\ \E status \in Refusals : sent[c] = <<status>>
        \/ service[c] = "answered" /\ \E status \in Statuses \ Refusals : sent[c] = <<status>>
    BY DEF HttpTypeOK, ExchangeAgrees, HandlerAgrees, ServiceAgrees, Written, NothingSent
  <2>2. \A k \in 1 .. Len(sent[c]) :
          IF sent[c][k] \in Refusals THEN service[c] = "none"
                                     ELSE service[c] = "answered"
    BY <2>1
  <2>3. service[c] # "none" => Complete(message[c])
    BY DEF ExchangeAgrees, ServiceAgrees
  <2> QED
    BY <2>2, <2>3 DEF Complete, Serves, ReadsBody
<1> QED
  BY <1>1, HttpTypeCorrect, ExchangesAgree, PTL

(* Nothing ends a connection whose request the service layer has, its      *)
(* timer (Session.cpp:17) included.                                        *)
THEOREM WaitersAreNotCut == Spec => []WaitersStayOpen
<1>1. ExchangeAgrees => WaitersStayOpen
  BY DEF ExchangeAgrees, ServiceAgrees, NothingSent, WaitersStayOpen
<1> QED
  BY <1>1, ExchangesAgree, PTL

(* A connection does not end while its handler runs, for on_write has to   *)
(* wait for the strand (Listener.cpp:42).                                  *)
THEOREM ConnectionsEndAfterReturn == Spec => []EndsAfterReturn
<1>1. Init => EndsAfterReturn
  BY DEF Init, EndsAfterReturn
<1>2. HttpTypeOK /\ ExchangeAgrees /\ EndsAfterReturn /\ [Next]_vars => EndsAfterReturn'
  <2> SUFFICES ASSUME HttpTypeOK, ExchangeAgrees, EndsAfterReturn, [Next]_vars
               PROVE  EndsAfterReturn'
    OBVIOUS
  <2> USE DEF HttpTypeOK, EndsAfterReturn, InHandler
  <2>1. CASE UNCHANGED vars
    BY <2>1 DEF vars, connection
  <2>2. CASE AcceptFails \/ RunsOut
    BY <2>2 DEF AcceptFails, RunsOut, connection
  <2>3. ASSUME NEW c \in Connections,
               Accept(c) \/ DoRead(c) \/ Expire(c) \/ ReadRequest(c)
        PROVE  EndsAfterReturn'
    BY <2>3 DEF Accept, DoRead, Expire, ReadRequest
  <2>4. ASSUME NEW c \in Connections,
               ReadEnds(c) \/ Fails(c) \/ WriteDone(c) \/ TimesOut(c)
        PROVE  EndsAfterReturn'
    BY <2>4 DEF ReadEnds, Fails, WriteDone, TimesOut, End, OnStrand
  <2>5. ASSUME NEW c \in Connections,
               \/ LockServer(c) \/ PassChecks(c) \/ CallServer(c) \/ CallReturns(c)
        PROVE  EndsAfterReturn'
    BY <2>5 DEF LockServer, PassChecks, CallServer, CallReturns, Return
  <2>6. ASSUME NEW c \in Connections, ParseThrows(c) \/ MissingParameterThrows(c) \/ CallThrows(c)
        PROVE  EndsAfterReturn'
    BY <2>6 DEF ParseThrows, MissingParameterThrows, CallThrows, Throw, connection
  <2>7. ASSUME NEW c \in Connections, InvalidParams(c) \/ RefuseRoute(c)
        PROVE  EndsAfterReturn'
    <3>1. /\ stream' = [stream EXCEPT ![c] = "writing"]
          /\ handler' = [handler EXCEPT ![c] = "returned"]
      BY <2>7, RefusalCases DEF SendResponse
    <3> QED
      BY <3>1
  <2>8. ASSUME NEW c \in Connections, Callback(c)
        PROVE  EndsAfterReturn'
    BY <2>8 DEF Callback, SendResponse
  <2> QED
    BY <2>1, <2>2, <2>3, <2>4, <2>5, <2>6, <2>7, <2>8, NextCases
<1> QED
  BY <1>1, <1>2, HttpTypeCorrect, ExchangesAgree, PTL DEF Spec
=============================================================================
