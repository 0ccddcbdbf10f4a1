-------------------------- MODULE RestaurantProofs --------------------------
(***************************************************************************)
(* The layers put together: the service layer still does what Server says, *)
(* the controller layer what Http says, and so all that is proved of each  *)
(* alone holds of the program.                                             *)
(***************************************************************************)
EXTENDS Restaurant, LedgerProofs

HP == INSTANCE HttpProofs WITH Connections <- Calls, NoConnection <- NoCall

-----------------------------------------------------------------------------
(* The service layer inside the program.                                   *)

(* A step of the program is a step of the service layer, or leaves it.     *)
LEMMA ServerSteps == [RestaurantNext]_allVars => [Next]_vars
<1> SUFFICES ASSUME [RestaurantNext]_allVars PROVE [Next]_vars
  OBVIOUS
<1>1. CASE UNCHANGED allVars
  BY <1>1 DEF allVars
<1>2. CASE ListenerStep
  BY <1>2 DEF ListenerStep
<1>3. ASSUME NEW c \in Calls,
             \/ ConnectionStep(c) \/ CallServer(c) \/ CallReturns(c) \/ CallThrows(c)
             \/ TaskStep(c)
      PROVE  [Next]_vars
  BY <1>3 DEF ConnectionStep, CallServer, CallReturns, CallThrows, ThreadStep, CallerStep,
     TaskStep, InnerStep, Respond, Next
<1> QED BY <1>1, <1>2, <1>3 DEF RestaurantNext

(* The service layer of the program behaves as Server says, with callers   *)
(* that are threads of the io_context (RequestHandler.h:81-114).           *)
THEOREM ServerInside == RestaurantSpec => Spec
<1>1. RestaurantInit => Init
  BY DEF RestaurantInit
<1> QED BY <1>1, ServerSteps, PTL DEF RestaurantSpec, Spec

(* So the program sells what the ledger says, to clients of any number.    *)
THEOREM RestaurantIsALedger == RestaurantSpec => RefinesLedger
  BY ServerInside, LedgerIsRefined, PTL

(* Nor does anything that HTTP clients can do together lose or make items, *)
(* and what they have paid is what the accounts say (Server.cpp:23-97).    *)
THEOREM RestaurantKeepsAccounts == RestaurantSpec => [](ItemsConserved /\ SalesArePaid)
  BY ServerInside, ItemsAreConserved, SalesAreAlwaysPaid, PTL

ServerFacts == TypeOK /\ OpsAgree /\ RepliesAgree /\ LockDiscipline

LEMMA ServerFactsHold == RestaurantSpec => []ServerFacts
<1>1. Spec => []ServerFacts
  BY TypeCorrect, OpsAlwaysAgree, RepliesAlwaysAgree, LocksAreDisciplined, PTL DEF ServerFacts
<1> QED BY <1>1, ServerInside, PTL

-----------------------------------------------------------------------------
(* The controller layer inside the program.                                *)

(* What a call asks of the service layer is what its connection's message  *)
(* says, and both layers know alike whether it was made and answered.      *)
Joined ==
  /\ service \in [Calls -> {"none", "called", "answered"}]
  /\ \A c \in Calls :
       /\ [message |-> message[c], request |-> request[c]] \in Exchanges
       /\ service[c] = "none" <=> pc[c] = "new"
       /\ service[c] = "answered" <=> reply[c] # "none"
       /\ service[c] # "none" => H!Serves(message[c])

LEMMA JoinedInit == RestaurantInit => Joined
  BY DEF RestaurantInit, Init, H!Init, Joined

(* What a step of the program does to the service layer, and to what the   *)
(* controller layer knows of it.                                           *)
LEMMA LayersStep ==
  ASSUME TypeOK, OpsAgree, RepliesAgree, Joined, NEW c \in Calls, TaskStep(c)
  PROVE  \/ UNCHANGED httpVars /\ reply' = reply
         \/ /\ H!Callback(c)
            /\ service[c] = "called" /\ reply'[c] # "none"
            /\ sent' = [sent EXCEPT ![c] = Append(@, StatusOf(reply'[c]))]
<1>1. CASE InnerStep(c)
  BY <1>1 DEF InnerStep, httpVars
<1>2. CASE Respond(c)
  <2>1. ThreadStep(c) /\ reply'[c] # reply[c]
    BY <1>2 DEF Respond
  <2>2. reply[c] = "none" /\ pc[c] # "new"
    BY <2>1, AnsweredOnce, ServerStepOf
  <2>3. service[c] = "called"
    BY <2>2 DEF Joined
  <2>4. TypeOK' /\ RepliesAgree' /\ request' = request
    BY <2>1, TypeStep, ReplyStep, ServerStepOf DEF Next
  <2>5. /\ reply'[c] \in {"ok", "internal_error", "payment_failure"}
        /\ reply'[c] = "internal_error" => request[c].op = "buy"
        /\ reply'[c] = "payment_failure" => request[c].op = "order"
    BY <2>1, <2>2, <2>4 DEF TypeOK, Statuses, RepliesAgree
  <2>6. H!Serves(message[c]) /\ request[c].op = OperationOf(message[c])
    BY <2>3, RestaurantAssumption DEF Joined
  <2>7. StatusOf(reply'[c]) \in H!Replies(message[c])
    BY <2>5, <2>6 DEF StatusOf, OperationOf, H!Serves, H!Routes, H!Replies
  <2>8. H!Callback(c)
    BY <1>2, <2>3, <2>7 DEF Respond, H!Callback
  <2> QED
    BY <1>2, <2>2, <2>3, <2>5, <2>8 DEF Respond, H!SendResponse
<1> QED BY <1>1, <1>2 DEF TaskStep

LEMMA JoinedStep ==
  TypeOK /\ OpsAgree /\ RepliesAgree /\ Joined /\ [RestaurantNext]_allVars => Joined'
<1> SUFFICES ASSUME TypeOK, OpsAgree, RepliesAgree, Joined, [RestaurantNext]_allVars
             PROVE  Joined'
  OBVIOUS
<1>1. ASSUME UNCHANGED <<pc, request, reply>>, UNCHANGED <<message, service>>
      PROVE  Joined'
  BY <1>1 DEF Joined
<1>2. CASE UNCHANGED allVars
  BY <1>1, <1>2 DEF allVars, vars, httpVars
<1>3. CASE ListenerStep
  BY <1>1, <1>3 DEF ListenerStep, vars, H!AcceptFails, H!RunsOut, H!connection
<1>4. ASSUME NEW c \in Calls, ConnectionStep(c)
      PROVE  Joined'
  <2>1. UNCHANGED <<message, service>>
    <3>1. CASE H!ClientStep(c)
      BY <3>1 DEF H!ClientStep, H!Accept, H!ReadRequest, H!ReadEnds, H!Fails, H!WriteDone, H!End
    <3>2. CASE H!DoRead(c) \/ H!Expire(c) \/ H!TimesOut(c)
      BY <3>2 DEF H!DoRead, H!Expire, H!TimesOut, H!End
    <3>3. CASE H!HandlerStep(c) /\ ~H!CallServer(c)
      BY <3>3 DEF H!HandlerStep, H!LockServer, H!ParseThrows, H!InvalidParams, H!PassChecks,
           H!RefuseRoute, H!MissingParameterThrows, H!Refuse, H!Throw, H!connection
    <3> QED BY <1>4, <3>1, <3>2, <3>3 DEF ConnectionStep
  <2> QED BY <1>1, <1>4, <2>1 DEF ConnectionStep, vars
<1>5. ASSUME NEW c \in Calls, CallServer(c)
      PROVE  Joined'
  <2>1. /\ pc[c] = "new" /\ pc' = [pc EXCEPT ![c] = IF request[c].op = "describe" THEN "post" ELSE "check"]
        /\ UNCHANGED <<request, reply>>
    BY <1>5 DEF CallServer, Invoke, Goto
  <2>2. /\ service' = [service EXCEPT ![c] = "called"] /\ UNCHANGED message
        /\ H!Serves(message[c])
    BY <1>5 DEF CallServer, H!CallServer
  <2>3. pc \in [Calls -> AllPcs] /\ reply[c] = "none"
    BY <2>1 DEF TypeOK, RepliesAgree, Answered
  <2>4. ASSUME NEW d \in Calls \ {c}
        PROVE  service'[d] = service[d] /\ pc'[d] = pc[d]
    BY <2>1, <2>2, <2>3
  <2>5. pc'[c] # "new" /\ service'[c] \in {"called", service[c]}
    BY <2>1, <2>2, <2>3
  <2> QED BY <2>1, <2>2, <2>3, <2>4, <2>5 DEF Joined
<1>6. ASSUME NEW c \in Calls, CallReturns(c)
      PROVE  Joined'
  BY <1>1, <1>6 DEF CallReturns, H!CallReturns, H!Return, vars
<1>8. ASSUME NEW c \in Calls, CallThrows(c)
      PROVE  Joined'
  <2>1. UNCHANGED <<message, service, request, reply>>
    BY <1>8 DEF CallThrows, H!CallThrows, H!Throw, H!connection, AllocationThrows
  <2>2. \A d \in Calls : pc'[d] = "new" <=> pc[d] = "new"
    BY <1>8, ServerStepOf DEF CallThrows, ThreadStep, CallerStep
  <2> QED BY <2>1, <2>2 DEF Joined
<1>7. ASSUME NEW c \in Calls, TaskStep(c)
      PROVE  Joined'
  <2>1. ThreadStep(c)
    BY <1>7 DEF TaskStep, InnerStep, Respond
  <2>2. /\ pc[c] # "new" /\ request' = request
        /\ \A d \in Calls : pc'[d] = "new" <=> pc[d] = "new"
        /\ \A d \in Calls \ {c} : reply'[d] = reply[d]
    BY <2>1, ServerStepOf
  <2>3. CASE UNCHANGED httpVars /\ reply' = reply
    BY <2>2, <2>3 DEF httpVars, Joined
  <2>4. CASE /\ H!Callback(c) /\ service[c] = "called" /\ reply'[c] # "none"
    <3>1. service' = [service EXCEPT ![c] = "answered"] /\ message' = message
      BY <2>4 DEF H!Callback
    <3> QED BY <2>2, <2>4, <3>1 DEF Joined
  <2> QED BY <1>7, <2>3, <2>4, LayersStep
<1> QED BY <1>2, <1>3, <1>4, <1>5, <1>6, <1>7, <1>8 DEF RestaurantNext

LEMMA JoinedHolds == RestaurantSpec => [](ServerFacts /\ Joined)
<1>1. RestaurantInit => Joined
  BY JoinedInit
<1>2. ServerFacts /\ Joined /\ [RestaurantNext]_allVars => Joined'
  BY JoinedStep DEF ServerFacts
<1> QED BY <1>1, <1>2, ServerFactsHold, PTL DEF RestaurantSpec

LEMMA HttpSteps ==
  ServerFacts /\ Joined /\ [RestaurantNext]_allVars => [H!Next]_(H!vars)
<1> SUFFICES ASSUME ServerFacts, Joined, [RestaurantNext]_allVars
             PROVE  [H!Next]_(H!vars)
  OBVIOUS
<1>1. ASSUME UNCHANGED httpVars
      PROVE  UNCHANGED H!vars
  BY <1>1 DEF httpVars, H!vars, H!connection
<1>2. CASE UNCHANGED allVars
  BY <1>1, <1>2 DEF allVars
<1>3. CASE up /\ ListenerStep
  BY <1>3 DEF ListenerStep, H!Next
<1>4. ASSUME up, NEW c \in Calls,
             ConnectionStep(c) \/ CallServer(c) \/ CallReturns(c) \/ CallThrows(c)
      PROVE  H!Next
  <2>1. H!ConnectionStep(c)
    BY <1>4 DEF ConnectionStep, CallServer, CallReturns, CallThrows, H!ConnectionStep, H!HandlerStep,
         H!ServiceStep
  <2> QED BY <1>4, <2>1 DEF H!Next
<1>5. ASSUME up, NEW c \in Calls, TaskStep(c)
      PROVE  [H!Next]_(H!vars)
  <2>1. UNCHANGED httpVars \/ H!Callback(c)
    BY <1>5, LayersStep DEF ServerFacts
  <2> QED BY <1>1, <1>5, <2>1 DEF H!Next, H!ConnectionStep, H!ServiceStep
<1> QED BY <1>2, <1>3, <1>4, <1>5 DEF RestaurantNext

(* The service layer of the program does what the controller layer asks of *)
(* any: it answers a call once, and as its operation may answer            *)
(* (RequestHandler.h:63-68, Server.cpp:23-97).                             *)
THEOREM HttpContractKept == RestaurantSpec => KeepsHttpContract
<1>1. RestaurantInit => H!Init
  BY DEF RestaurantInit
<1>2. RestaurantSpec => H!Spec
  BY <1>1, JoinedHolds, HttpSteps, PTL DEF RestaurantSpec, H!Spec
<1> QED BY <1>2 DEF KeepsHttpContract

-----------------------------------------------------------------------------
(* What is proved of the controller layer alone holds of it here.          *)
HttpFacts == HP!HttpTypeOK /\ HP!ServerMutexDiscipline /\ HP!OneAnswer /\ HP!AnswerTellsEffect

LEMMA HttpAssumptionHolds == HP!HttpAssumption
  BY RestaurantAssumption, ServerAssumption
  DEF HP!HttpAssumption, HP!Message, HP!Methods, HP!Targets, HP!Bodies,
      H!Message, H!Methods, H!Targets, H!Bodies, Messages

LEMMA SameIdle == H!IoIdle <=> HP!IoIdle
<1>1. {c \in Calls : H!InHandler(c)} = {c \in Calls : HP!InHandler(c)}
  BY DEF H!InHandler, HP!InHandler
<1>2. \A S : H!Cardinality(S) = HP!Cardinality(S)
  BY DEF H!Cardinality, HP!Cardinality
<1> QED BY <1>1, <1>2 DEF H!IoIdle, HP!IoIdle

LEMMA SameStep == \A c \in Calls : H!ConnectionStep(c) => HP!ConnectionStep(c)
<1> SUFFICES ASSUME NEW c \in Calls PROVE H!ConnectionStep(c) => HP!ConnectionStep(c)
  OBVIOUS
<1>1. H!ClientStep(c) => HP!ClientStep(c)
  BY SameIdle DEF H!ClientStep, HP!ClientStep, H!Accept, HP!Accept, H!ReadRequest,
    HP!ReadRequest, H!ReadEnds, HP!ReadEnds, H!Fails, HP!Fails, H!WriteDone,
    HP!WriteDone, H!End, HP!End, H!Pending, HP!Pending, H!OnStrand,
    HP!OnStrand, H!InHandler, HP!InHandler
<1>2. H!DoRead(c) \/ H!Expire(c) \/ H!TimesOut(c)
      => HP!DoRead(c) \/ HP!Expire(c) \/ HP!TimesOut(c)
  BY SameIdle DEF H!DoRead, HP!DoRead, H!ReadTimer, HP!ReadTimer, H!Expire, HP!Expire,
    H!TimesOut, HP!TimesOut, H!End, HP!End, H!Pending, HP!Pending, H!OnStrand,
    HP!OnStrand, H!InHandler, HP!InHandler
<1>3. H!Refuse(c) => HP!Refuse(c)
  BY DEF H!Refuse, HP!Refuse, H!SendResponse, HP!SendResponse, H!Return, HP!Return,
    H!RefusalStatus, HP!RefusalStatus, H!Invalid, HP!Invalid, H!ReadsBody,
    HP!ReadsBody
<1>4. H!LockServer(c) \/ H!ParseThrows(c) \/ H!PassChecks(c) \/ H!MissingParameterThrows(c)
      => HP!LockServer(c) \/ HP!ParseThrows(c) \/ HP!PassChecks(c) \/ HP!MissingParameterThrows(c)
  BY DEF H!LockServer, HP!LockServer, H!ServerFree, HP!ServerFree, H!ParseThrows,
    HP!ParseThrows, H!ReadsBody, HP!ReadsBody, H!PassChecks, HP!PassChecks,
    H!MissingParameterThrows, HP!MissingParameterThrows, H!Serves, HP!Serves,
    H!Routes, HP!Routes, H!Throw, HP!Throw, H!connection, HP!connection
<1>5. H!InvalidParams(c) \/ H!RefuseRoute(c) => HP!InvalidParams(c) \/ HP!RefuseRoute(c)
  BY <1>3 DEF H!InvalidParams, HP!InvalidParams, H!RefuseRoute, HP!RefuseRoute, H!Invalid,
    HP!Invalid, H!ReadsBody, HP!ReadsBody, H!Serves, HP!Serves, H!Routes, HP!Routes
<1>6. H!CallServer(c) => HP!CallServer(c)
  BY DEF H!CallServer, HP!CallServer, H!Serves, HP!Serves, H!Routes, HP!Routes,
    H!ReadsBody, HP!ReadsBody
<1>7. H!ServiceStep(c) => HP!ServiceStep(c)
  BY DEF H!ServiceStep, HP!ServiceStep, H!CallReturns, HP!CallReturns, H!Return,
    HP!Return, H!CallThrows, HP!CallThrows, H!Throw, HP!Throw, H!connection,
    HP!connection, H!ReadsBody, HP!ReadsBody, H!Callback, HP!Callback, H!SendResponse, HP!SendResponse,
    H!Replies, HP!Replies
<1> QED BY <1>1, <1>2, <1>4, <1>5, <1>6, <1>7
  DEF H!ConnectionStep, HP!ConnectionStep, H!HandlerStep, HP!HandlerStep

LEMMA SameHttp == H!Spec => HP!Spec
<1>1. H!Init => HP!Init
  BY DEF H!Init, HP!Init
<1>2. H!AcceptFails \/ H!RunsOut => HP!AcceptFails \/ HP!RunsOut
  BY SameIdle DEF H!AcceptFails, HP!AcceptFails, H!RunsOut, HP!RunsOut, H!OutOfWork,
    HP!OutOfWork, H!InHandler, HP!InHandler, H!Pending,
    HP!Pending, H!connection, HP!connection
<1>3. H!Next => HP!Next
  BY <1>2, SameStep DEF H!Next, HP!Next
<1>4. UNCHANGED H!vars => UNCHANGED HP!vars
  BY DEF H!vars, HP!vars, H!connection, HP!connection
<1>5. [H!Next]_(H!vars) => [HP!Next]_(HP!vars)
  BY <1>3, <1>4
<1> QED BY <1>1, <1>5, PTL DEF H!Spec, HP!Spec

LEMMA HttpFactsHold == RestaurantSpec => []HttpFacts
<1>1. HP!Spec => []HP!HttpTypeOK
  BY HttpAssumptionHolds, HP!HttpTypeCorrect
<1>2. HP!Spec => []HP!ServerMutexDiscipline
  BY HttpAssumptionHolds, HP!ServerMutexIsDisciplined
<1>3. HP!Spec => []HP!OneAnswer
  BY HttpAssumptionHolds, HP!AnswersAreSingle
<1>4. HP!Spec => []HP!AnswerTellsEffect
  BY HttpAssumptionHolds, HP!AnswersTellEffects
<1>5. RestaurantSpec => HP!Spec
  BY HttpContractKept, SameHttp DEF KeepsHttpContract
<1> QED BY <1>1, <1>2, <1>3, <1>4, <1>5, PTL DEF HttpFacts

-----------------------------------------------------------------------------
(* A call that is in its caller's hands is one that a handler is making.   *)
CallersCall == \A c \in Calls : pc[c] \in CallerPcs => handler[c] = "calling"

LEMMA CallersStep ==
  TypeOK /\ HP!HttpTypeOK /\ CallersCall /\ [RestaurantNext]_allVars => CallersCall'
<1> SUFFICES ASSUME TypeOK, HP!HttpTypeOK, CallersCall, [RestaurantNext]_allVars
             PROVE  CallersCall'
  OBVIOUS
<1> USE DEF CallersCall, CallerPcs
<1>1. CASE UNCHANGED allVars
  BY <1>1 DEF allVars, vars, httpVars
<1>2. CASE ListenerStep
  BY <1>2 DEF ListenerStep, vars, H!AcceptFails, H!RunsOut, H!connection
<1>3. ASSUME NEW c \in Calls, ConnectionStep(c)
      PROVE  CallersCall'
  <2>1. \A d \in Calls : handler[d] = "calling" => handler'[d] = "calling"
    <3>1. CASE H!ClientStep(c)
      BY <3>1 DEF H!ClientStep, H!Accept, H!ReadRequest, H!ReadEnds, H!Fails, H!WriteDone,
           H!End, H!OnStrand, H!InHandler, HP!HttpTypeOK
    <3>2. CASE H!DoRead(c) \/ H!Expire(c) \/ H!TimesOut(c)
      BY <3>2 DEF H!DoRead, H!Expire, H!TimesOut, H!End
    <3>3. CASE H!HandlerStep(c) /\ ~H!CallServer(c)
      BY <3>3 DEF H!HandlerStep, H!LockServer, H!ParseThrows, H!InvalidParams, H!PassChecks,
           H!RefuseRoute, H!MissingParameterThrows, H!Refuse, H!Return, H!Throw, H!connection,
           HP!HttpTypeOK
    <3> QED BY <1>3, <3>1, <3>2, <3>3 DEF ConnectionStep
  <2> QED BY <1>3, <2>1 DEF ConnectionStep, vars
<1>4. ASSUME NEW c \in Calls, CallServer(c)
      PROVE  CallersCall'
  BY <1>4 DEF CallServer, H!CallServer, Invoke, Goto, TypeOK, HP!HttpTypeOK
<1>5. ASSUME NEW c \in Calls, CallReturns(c)
      PROVE  CallersCall'
  BY <1>5 DEF CallReturns, H!CallReturns, H!Return, Returned, vars, TypeOK, HP!HttpTypeOK
<1>7. ASSUME NEW c \in Calls, CallThrows(c)
      PROVE  CallersCall'
  BY <1>7 DEF CallThrows, H!CallThrows, H!Throw, H!connection, AllocationThrows, Goto, TypeOK
<1>6. ASSUME NEW c \in Calls, TaskStep(c)
      PROVE  CallersCall'
  <2>1. ThreadStep(c) /\ UNCHANGED handler
    BY <1>6 DEF TaskStep, InnerStep, Respond, httpVars
  <2>2. \A d \in Calls : pc'[d] \in CallerPcs => pc[d] \in CallerPcs
    BY <2>1, ServerCallers
  <2> QED BY <2>1, <2>2
<1> QED BY <1>1, <1>2, <1>3, <1>4, <1>5, <1>6, <1>7 DEF RestaurantNext

(* The service layer is only ever called in turn: while a thread is in one *)
(* of its calls, it holds server_mutex (RequestHandler.h:79).              *)
THEOREM CallersComeInTurn == RestaurantSpec => []CallersInTurn
<1>1. RestaurantInit => CallersCall
  BY DEF RestaurantInit, Init, CallersCall, CallerPcs
<1>2. HttpFacts /\ CallersCall => CallersInTurn
  BY DEF HttpFacts, CallersCall, CallersInTurn, HP!ServerMutexDiscipline
<1>3. ServerFacts /\ HttpFacts /\ CallersCall /\ [RestaurantNext]_allVars => CallersCall'
  BY CallersStep DEF ServerFacts, HttpFacts
<1> QED
  BY <1>1, <1>2, <1>3, ServerFactsHold, HttpFactsHold, PTL DEF RestaurantSpec

-----------------------------------------------------------------------------
(* Every response that is no refusal carries the answer the call was given.*)
SentAgrees ==
  \A c \in Calls : \A k \in 1 .. Len(sent[c]) :
    sent[c][k] \notin H!Refusals =>
      reply[c] # "none" /\ sent[c][k] = StatusOf(reply[c])

(* A response is added at the end.                                         *)
LEMMA SentAppend ==
  ASSUME HP!HttpTypeOK, NEW c \in Calls, NEW status \in HP!Statuses,
         sent' = [sent EXCEPT ![c] = Append(@, status)]
  PROVE  /\ \A d \in Calls \ {c} : sent'[d] = sent[d]
         /\ Len(sent'[c]) = Len(sent[c]) + 1 /\ Len(sent[c]) \in Nat
         /\ sent'[c][Len(sent[c]) + 1] = status
         /\ \A k \in 1 .. Len(sent[c]) : sent'[c][k] = sent[c][k]
<1>1. sent[c] \in Seq(HP!Statuses) /\ sent'[c] = Append(sent[c], status)
  BY DEF HP!HttpTypeOK
<1> QED BY <1>1 DEF HP!HttpTypeOK

LEMMA SentStep ==
  ServerFacts /\ HttpFacts /\ Joined /\ SentAgrees /\ [RestaurantNext]_allVars => SentAgrees'
<1> SUFFICES ASSUME ServerFacts, HttpFacts, Joined, SentAgrees, [RestaurantNext]_allVars
             PROVE  SentAgrees'
  OBVIOUS
<1>1. ASSUME UNCHANGED <<reply, sent>>
      PROVE  SentAgrees'
  BY <1>1 DEF SentAgrees
<1>2. CASE UNCHANGED allVars
  BY <1>1, <1>2 DEF allVars, vars, httpVars
<1>3. CASE ListenerStep
  BY <1>1, <1>3 DEF ListenerStep, vars, H!AcceptFails, H!RunsOut, H!connection
<1>4. ASSUME NEW c \in Calls, H!Refuse(c), UNCHANGED vars
      PROVE  SentAgrees'
  <2>1. /\ sent' = [sent EXCEPT ![c] = Append(@, H!RefusalStatus(message[c]))]
        /\ reply' = reply
    BY <1>4 DEF H!Refuse, H!SendResponse, vars
  <2>2. H!RefusalStatus(message[c]) \in H!Refusals \cap HP!Statuses
    BY DEF H!RefusalStatus, H!Refusals, HP!Statuses, HP!Refusals
  <2>3. /\ \A d \in Calls \ {c} : sent'[d] = sent[d]
        /\ Len(sent'[c]) = Len(sent[c]) + 1 /\ Len(sent[c]) \in Nat
        /\ sent'[c][Len(sent[c]) + 1] \in H!Refusals
        /\ \A k \in 1 .. Len(sent[c]) : sent'[c][k] = sent[c][k]
    BY <2>1, <2>2, SentAppend DEF HttpFacts
  <2>4. H!Refusals' = H!Refusals
    BY DEF H!Refusals
  <2>5. ASSUME NEW k \in 1 .. Len(sent'[c])
        PROVE  k \in 1 .. Len(sent[c]) \/ k = Len(sent[c]) + 1
    BY <2>3
  <2> QED BY <2>1, <2>3, <2>4, <2>5 DEF SentAgrees
<1>5. ASSUME NEW c \in Calls, ConnectionStep(c)
      PROVE  SentAgrees'
  <2>1. CASE H!ClientStep(c)
    BY <1>1, <1>5, <2>1 DEF ConnectionStep, vars, H!ClientStep, H!Accept, H!ReadRequest,
       H!ReadEnds, H!Fails, H!WriteDone, H!End
  <2>2. CASE H!DoRead(c) \/ H!Expire(c) \/ H!TimesOut(c)
    BY <1>1, <1>5, <2>2 DEF ConnectionStep, vars, H!DoRead, H!Expire, H!TimesOut, H!End
  <2>3. CASE H!InvalidParams(c) \/ H!RefuseRoute(c)
    BY <1>4, <1>5, <2>3 DEF ConnectionStep, H!InvalidParams, H!RefuseRoute
  <2>4. CASE H!LockServer(c) \/ H!ParseThrows(c) \/ H!PassChecks(c) \/ H!MissingParameterThrows(c)
    BY <1>1, <1>5, <2>4 DEF ConnectionStep, vars, H!LockServer, H!ParseThrows, H!PassChecks,
       H!MissingParameterThrows, H!Throw, H!connection
  <2> QED BY <1>5, <2>1, <2>2, <2>3, <2>4 DEF ConnectionStep, H!HandlerStep
<1>6. ASSUME NEW c \in Calls, CallServer(c) \/ CallReturns(c) \/ CallThrows(c)
      PROVE  SentAgrees'
  BY <1>1, <1>6 DEF CallServer, CallReturns, CallThrows, H!CallServer, H!CallReturns, H!Return,
     H!CallThrows, H!Throw, H!connection, Invoke, AllocationThrows, vars
<1>7. ASSUME NEW c \in Calls, TaskStep(c)
      PROVE  SentAgrees'
  <2>1. CASE UNCHANGED httpVars /\ reply' = reply
    BY <1>1, <2>1 DEF httpVars
  <2>2. CASE /\ service[c] = "called" /\ reply'[c] # "none" /\ H!Callback(c)
             /\ sent' = [sent EXCEPT ![c] = Append(@, StatusOf(reply'[c]))]
    <3>1. ThreadStep(c) /\ TypeOK'
      BY <1>7, TypeStep DEF TaskStep, InnerStep, Respond, Next, ServerFacts
    <3>2. \A d \in Calls \ {c} : reply'[d] = reply[d]
      BY <3>1, ServerStepOf DEF ServerFacts
    <3>3. StatusOf(reply'[c]) \in HP!Statuses
      BY <2>2, <3>1 DEF TypeOK, Statuses, StatusOf, HP!Statuses
    <3>4. /\ \A d \in Calls \ {c} : sent'[d] = sent[d]
          /\ Len(sent'[c]) = Len(sent[c]) + 1 /\ Len(sent[c]) \in Nat
          /\ sent'[c][Len(sent[c]) + 1] = StatusOf(reply'[c])
          /\ \A k \in 1 .. Len(sent[c]) : sent'[c][k] = sent[c][k]
      BY <2>2, <3>3, SentAppend DEF HttpFacts
    <3>5. ASSUME NEW k \in 1 .. Len(sent[c]) PROVE FALSE
      BY <2>2 DEF HttpFacts, HP!AnswerTellsEffect
    <3>6. ASSUME NEW k \in 1 .. Len(sent'[c])
          PROVE  sent'[c][k] = StatusOf(reply'[c])
      BY <3>4, <3>5
    <3>7. ASSUME NEW d \in Calls, NEW k \in 1 .. Len(sent'[d]), sent'[d][k] \notin H!Refusals
          PROVE  reply'[d] # "none" /\ sent'[d][k] = StatusOf(reply'[d])
      <4>1. CASE d = c
        BY <2>2, <3>6, <4>1
      <4>2. CASE d # c
        BY <3>2, <3>4, <3>7, <4>2 DEF SentAgrees
      <4> QED BY <4>1, <4>2
    <3> QED BY <3>7 DEF SentAgrees, H!Refusals, StatusOf
  <2> QED BY <1>7, <2>1, <2>2, LayersStep DEF ServerFacts
<1> QED BY <1>2, <1>3, <1>5, <1>6, <1>7 DEF RestaurantNext

(* What a client is told is what became of its call: 200, 402 and 500 are  *)
(* the service layer's answers to it (RequestHandler.h:63-75), and who is  *)
(* refused has never reached the service layer (RequestHandler.h:84-117).  *)
THEOREM ClientsAreToldTheTruth == RestaurantSpec => []ClientToldTruth
<1>1. RestaurantInit => SentAgrees
  BY DEF RestaurantInit, H!Init, SentAgrees
<1>2. ServerFacts /\ HttpFacts /\ Joined /\ SentAgrees => ClientToldTruth
  <2> SUFFICES ASSUME ServerFacts, HttpFacts, Joined, SentAgrees,
                      NEW c \in Calls, NEW k \in 1 .. Len(sent[c])
               PROVE  /\ sent[c][k] = 200 <=> Outcome(c) = "ok"
                      /\ sent[c][k] = 500 <=> Outcome(c) = "internal_error"
                      /\ sent[c][k] = 402 <=> Outcome(c) = "payment_failure"
                      /\ sent[c][k] \in H!Refusals <=> Outcome(c) = "absent"
    BY DEF ClientToldTruth
  <2>0. IF sent[c][k] \in H!Refusals THEN service[c] = "none" ELSE service[c] = "answered"
    <3>1. HP!AnswerTellsEffect
      BY DEF HttpFacts
    <3>2. IF sent[c][k] \in HP!Refusals THEN service[c] = "none" ELSE service[c] = "answered"
      BY <3>1 DEF HP!AnswerTellsEffect
    <3>3. HP!Refusals = H!Refusals
      BY DEF HP!Refusals, H!Refusals
    <3> QED BY <3>2, <3>3
  <2>1. CASE sent[c][k] \in H!Refusals
    <3>1. service[c] = "none"
      BY <2>1, <2>0
    <3>2. Outcome(c) = "absent"
      BY <3>1 DEF Joined, Outcome
    <3> QED BY <2>1, <3>2 DEF H!Refusals
  <2>2. CASE sent[c][k] \notin H!Refusals
    <3>1. service[c] = "answered"
      BY <2>2, <2>0
    <3>2. Outcome(c) = reply[c] /\ reply[c] # "none"
      BY <3>1 DEF Joined, Outcome
    <3>3. reply[c] \in {"ok", "internal_error", "payment_failure"}
      BY <3>2 DEF ServerFacts, TypeOK, Statuses
    <3>4. sent[c][k] = StatusOf(reply[c])
      BY <2>2 DEF SentAgrees
    <3> QED BY <2>2, <3>2, <3>3, <3>4 DEF StatusOf
  <2> QED BY <2>1, <2>2
<1> QED
  BY <1>1, <1>2, SentStep, JoinedHolds, HttpFactsHold, PTL DEF RestaurantSpec

-----------------------------------------------------------------------------
(* Neither of the layers makes a circle of what its threads wait for, and  *)
(* together they make none: an io thread waits for server_mutex, whoever   *)
(* has that for the locks of the server, and the tasks that hold those for *)
(* nothing of the io threads (RequestHandler.h:79-117, Server.cpp:5-138).  *)
THEOREM HungOnlyForCause == RestaurantSpec => []HungHasCause
<1>1. ASSUME TypeOK, StuckHasCause, HttpFacts
      PROVE  HungHasCause
  <2> SUFFICES ASSUME Hung
               PROVE  \E d \in Calls :
                        pc[d] = "asleep" /\ (~WriterPreferring => ~PurchaseMade(SessionOf(d)))
    BY DEF HungHasCause
  <2>1. CASE \E c \in Calls : Unfinished(c)
    <3>1. StuckHasCause /\ Stuck
      BY <1>1, <2>1 DEF Hung, Stuck
    <3>2. PICK d \in Calls : pc[d] = "asleep"
      BY <3>1 DEF StuckHasCause
    <3>3. ~WriterPreferring => ~PurchaseMade(SessionOf(d))
      BY <3>1, <3>2 DEF StuckHasCause, Unfinished
    <3> QED BY <3>2, <3>3
  <2>2. CASE \A c \in Calls : ~Unfinished(c)
    <3>1. \A c \in Calls : Returned(c) /\ ~CanHandle(c)
      BY <2>2 DEF Unfinished, Returned, CallerPcs, Hung
    <3>2. PICK c \in Calls : H!InHandler(c)
      BY <2>2 DEF Hung
    <3>3. \A d \in Calls : H!InHandler(d) => handler[d] = "entered" /\ ~H!ServerFree
      BY <3>1 DEF CanHandle, H!InHandler
    <3>4. PICK d \in Calls : server_mutex = d
      BY <1>1, <3>2, <3>3 DEF H!ServerFree, HttpFacts, HP!HttpTypeOK
    <3>5. handler[d] \in {"locked", "checked", "calling"}
      BY <1>1, <3>4 DEF HttpFacts, HP!ServerMutexDiscipline
    <3> QED BY <3>3, <3>5 DEF H!InHandler
  <2> QED BY <2>1, <2>2
<1>2. Spec => [](TypeOK /\ StuckHasCause)
  BY TypeCorrect, StuckOnlyForCause, PTL
<1> QED BY <1>1, <1>2, ServerInside, HttpFactsHold, PTL
=============================================================================
