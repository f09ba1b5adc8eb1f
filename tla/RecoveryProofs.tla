--------------------------- MODULE RecoveryProofs ---------------------------
(***************************************************************************)
(* What is true of the framework over any number of crashes of its broker. *)
(* The invariant of RSFProofs survives a crash because a new broker gives  *)
(* the only service the port the old one gave it; that of CallProofs does  *)
(* in its weaker form, in which a waiting client may have lost its call.   *)
(***************************************************************************)
EXTENDS Recovery, CallProofs

(* A registration that is waited for is on its way or lost, also while     *)
(* there is no broker.                                                     *)
InFlight ==
  \A k \in Copy :
    server[k].send_reg => k \in lost \/ <<k, TRUE>> \in reg_req \/ reg_rep[k] # NoReply

(* A killed broker has left nothing in the table of its successor, and has *)
(* been counted.                                                           *)
Forgotten == broker = "killed" => Registered = {} /\ crashes > 0

RecoveryInv ==
  /\ IndInv
  /\ ConnectedLive
  /\ Calls(crashes > 0)
  /\ Forgotten
  /\ InFlight
  /\ crashes \in Nat

LEMMA LossOrNot ==
  ASSUME crashes \in Nat
  PROVE  \E loss \in BOOLEAN : loss = (crashes > 0) /\ (crashes = 0 => ~loss)
<1>1. (crashes > 0) = TRUE \/ ((crashes > 0) = FALSE)
  OBVIOUS
<1>2. crashes = 0 => ~(crashes > 0)
  OBVIOUS
<1> QED
  BY <1>1, <1>2, Zenon

LEMMA SingleService == ASSUME OneService PROVE \E s : Service = {s}
<1>1. Service \in SUBSET Nat /\ \A s \in Service : s <= 2
  BY ServiceAssumption DEF INCREMENT, DECREMENT, MULTIPLY2
<1>2. IsFiniteSet(Service)
  BY <1>1, FS_BoundedSetOfNaturals
<1> QED
  BY <1>2, FS_Singleton DEF OneService

(* With one service, an expired request is always deleted from the right   *)
(* one.                                                                    *)
LEMMA OneServiceRight == ASSUME OneService PROVE TypeOK => RightService
<1> SUFFICES ASSUME TypeOK, NEW i \in DOMAIN available_services,
                    ExpiredFrom(i) \in Registered
             PROVE  ExpiredFrom(i) = available_services[i]
  BY DEF RightService
<1>1. available_services[i] \in Service /\ Registered \subseteq Service
  BY DEF TypeOK, BrokerTypeOK, Registered
<1> QED
  BY <1>1, SingleService

(* The invariant holds at the start.                                       *)
LEMMA InitRecovery == RecoveryInit => RecoveryInv
<1> SUFFICES ASSUME RecoveryInit PROVE RecoveryInv
  OBVIOUS
<1>1. Init /\ crashes = 0
  BY DEF RecoveryInit
<1>2. IndInv /\ CallInv
  BY <1>1, InitIndInv, InitCalls
<1>3. InOrder
  BY <1>1 DEF Init, BrokerInit, InOrder
<1>4. (crashes > 0) = FALSE
  BY <1>1
<1>5. Forgotten /\ InFlight
  BY <1>1 DEF Init, BrokerInit, ServerInit, Started, Forgotten, InFlight
<1> QED
  BY <1>1, <1>2, <1>3, <1>4, <1>5 DEF RecoveryInv, CallInv

-----------------------------------------------------------------------------
(* The end of the broker *)

(* Cutting a queue at either end, and taking the identities away.          *)
LEMMA CutType ==
  ASSUME NEW S, NEW q \in Seq(S), NEW n \in 0..Len(q)
  PROVE  SubSeq(q, 1, n) \in Seq(S) /\ SubSeq(q, n + 1, Len(q)) \in Seq(S)
<1>1. \A i \in 1..Len(q) : q[i] \in S
  OBVIOUS
<1> QED
  BY <1>1, SubSeqProperties

LEMMA AnonymousType ==
  /\ \A q \in Seq(service_module) : Anonymous(q) \in Seq(service_module)
  /\ \A q \in Seq(server_reply_t) : Anonymous(q) \in Seq(server_reply_t)
<1>1. \A m \in service_module : [m EXCEPT !.client = NoClient] \in service_module
  BY DEF service_module
<1>2. \A m \in server_reply_t : [m EXCEPT !.client = NoClient] \in server_reply_t
  BY DEF server_reply_t
<1>3. ASSUME NEW S, \A m \in S : [m EXCEPT !.client = NoClient] \in S, NEW q \in Seq(S)
      PROVE  Anonymous(q) \in Seq(S)
  <2>1. Len(q) \in Nat /\ DOMAIN q = 1..Len(q) /\ \A i \in 1..Len(q) : q[i] \in S
    OBVIOUS
  <2>2. Anonymous(q) = [i \in 1..Len(q) |-> [q[i] EXCEPT !.client = NoClient]]
    BY <2>1 DEF Anonymous
  <2>3. Anonymous(q) \in [1..Len(q) -> S]
    BY <1>3, <2>1, <2>2
  <2> QED
    BY <2>1, <2>3
<1> QED
  BY <1>1, <1>2, <1>3

LEMMA CutsType ==
  ASSUME NEW S, NEW queues \in [Copy -> Seq(S)], NEW n \in Cuts(queues), NEW k \in Copy
  PROVE  n[k] \in 0..Len(queues[k])
<1>1. \A x \in Copy : Len(queues[x]) \in Nat
  OBVIOUS
<1>2. n[k] \in UNION {0..Len(queues[x]) : x \in Copy} /\ n[k] <= Len(queues[k])
  BY DEF Cuts
<1>3. PICK x \in Copy : n[k] \in 0..Len(queues[x])
  BY <1>2
<1> QED
  BY <1>1, <1>2, <1>3

(* Nobody is told, and nobody loses a port.                                *)
LEMMA BrokerDiesInd == ASSUME OneService PROVE IndInv /\ BrokerDies => IndInv'
<1> SUFFICES ASSUME IndInv, BrokerDies PROVE IndInv'
  OBVIOUS
<1>1. /\ Registered' = {} /\ broker' = "killed" /\ lb' = <<>> /\ dealer' = <<>>
      /\ available_services' = <<>> /\ available_dealer_port' = DEALER_START_PORT
      /\ next_dealer_skt_index' = 0
      /\ UNCHANGED <<connected, client>>
  BY DEF BrokerDies, Forgets, Registered
<1>2. BrokerTypeOK'
  BY <1>1 DEF BrokerDies, Forgets, BrokerTypeOK, Ends, DEALER_START_PORT, Registered
<1>3. NetTypeOK /\ ServerTypeOK /\ LossBound /\ Ports /\ PortsKnown
  BY DEF IndInv, TypeOK, Route
<1>4. \A k \in Copy : reg_rep'[k] \in {reg_rep[k], NoReply}
  BY DEF BrokerDies
<1>5. server' = [k \in Copy |-> [server[k] EXCEPT !.client = NoClient]]
  BY DEF BrokerDies
<1>6. ServerTypeOK' /\ LossBound'
  <2>1. ASSUME NEW k \in Copy
        PROVE  /\ [server[k] EXCEPT !.client = NoClient] \in Process
               /\ server'[k].reg_ok = server[k].reg_ok
               /\ server'[k].ping_loss = server[k].ping_loss
    BY <1>3, <1>5 DEF ServerTypeOK, Process
  <2> QED
    BY <1>3, <1>5, <2>1 DEF ServerTypeOK, LossBound
<1>7. NetTypeOK'
  <2>1. inbox' \in [Copy -> Seq(service_module)]
    <3>1. PICK n \in Cuts(inbox) :
            inbox' = [k \in Copy |-> Anonymous(SubSeq(inbox[k], 1, n[k]))]
      BY DEF BrokerDies
    <3>2. inbox \in [Copy -> Seq(service_module)]
      BY <1>3 DEF NetTypeOK
    <3>3. ASSUME NEW k \in Copy
          PROVE  Anonymous(SubSeq(inbox[k], 1, n[k])) \in Seq(service_module)
      <4>1. n[k] \in 0..Len(inbox[k]) /\ inbox[k] \in Seq(service_module)
        BY <3>2, CutsType
      <4> QED
        BY <4>1, CutType, AnonymousType
    <3> QED
      BY <3>1, <3>3
  <2>2. outbox' \in [Copy -> Seq(server_reply_t)]
    <3>1. PICK n \in Cuts(outbox) :
            outbox' = [k \in Copy |-> Anonymous(SubSeq(outbox[k], n[k] + 1, Len(outbox[k])))]
      BY DEF BrokerDies
    <3>2. outbox \in [Copy -> Seq(server_reply_t)]
      BY <1>3 DEF NetTypeOK
    <3>3. ASSUME NEW k \in Copy
          PROVE  Anonymous(SubSeq(outbox[k], n[k] + 1, Len(outbox[k]))) \in Seq(server_reply_t)
      <4>1. n[k] \in 0..Len(outbox[k]) /\ outbox[k] \in Seq(server_reply_t)
        BY <3>2, CutsType
      <4> QED
        BY <4>1, CutType, AnonymousType
    <3> QED
      BY <3>1, <3>3
  <2>3. /\ router_in' \in [Client -> Seq(request_module)]
        /\ router_out' \in [Client -> Seq(response_module)]
    BY <1>3 DEF NetTypeOK, BrokerDies
  <2>4. reg_req' \subseteq Copy \X BOOLEAN /\ reg_rep' \in [Copy -> Nat \cup {NoReply}]
    BY <1>3 DEF NetTypeOK, BrokerDies
  <2> QED
    BY <1>1, <1>3, <2>1, <2>2, <2>3, <2>4 DEF NetTypeOK
<1>8. TypeOK'
  BY <1>1, <1>2, <1>6, <1>7 DEF IndInv, TypeOK, ClientTypeOK
<1>9. Records' /\ Tables' /\ Ports' /\ Connections'
  BY <1>1 DEF Records, Tables, Ports, Connections, DEALER_START_PORT
<1>10. PortsKnown'
  <2>1. PICK s : Service = {s}
    BY SingleService
  <2>2. ASSUME NEW k \in Copy PROVE k[1] = s
    BY <2>1 DEF Copy
  <2>3. Registered \in {{}, {s}}
    BY <2>1 DEF IndInv, TypeOK, BrokerTypeOK, Registered
  <2>4. ASSUME NEW k \in Copy, NEW p, PortOf(k, p) PROVE p = DEALER_START_PORT
    BY <1>3, <2>2, <2>3, <2>4 DEF PortOf, Ports
  <2>5. ASSUME NEW k \in Copy PROVE PortOf(k, DEALER_START_PORT)'
    BY <1>1, <2>1, <2>2 DEF PortOf, DEALER_START_PORT
  <2>6. \A k \in Copy : server'[k].broker_port = server[k].broker_port
    BY <1>3, <1>5 DEF ServerTypeOK, Process
  <2> QED
    BY <1>3, <1>4, <2>4, <2>5, <2>6 DEF PortsKnown
<1> QED
  BY <1>6, <1>8, <1>9, <1>10 DEF IndInv, Route

(* The calls in the table are lost, and perhaps some in the queues.        *)
LEMMA BrokerDiesInv == ASSUME OneService PROVE RecoveryInv /\ BrokerDies => RecoveryInv'
<1> SUFFICES ASSUME RecoveryInv, BrokerDies PROVE RecoveryInv'
  OBVIOUS
<1>1. IndInv'
  BY BrokerDiesInd DEF RecoveryInv
<1>2. ConnectedLive'
  BY DEF RecoveryInv, ConnectedLive, BrokerDies
<1>3. Calls(crashes > 0)'
  <2>1. \A c \in Client : QueueState(c)
    BY CallQueues DEF RecoveryInv
  <2>2. /\ \A c \in Client : router_in'[c] \in {router_in[c], <<>>}
        /\ \A c \in Client : router_out'[c] \in {router_out[c], <<>>}
        /\ UNCHANGED client
        /\ broker' # "up"
    BY DEF BrokerDies
  <2>3. \A c \in Client : QueueState(c)'
    BY <2>1, <2>2 DEF QueueState
  <2> QED
    BY <2>2, <2>3 DEF Calls
<1>4. crashes' \in Nat /\ crashes' > 0 /\ Registered' = {}
  BY DEF RecoveryInv, BrokerDies, Forgets, Registered
<1>5. InFlight'
  <2>1. ASSUME NEW k \in Copy
        PROVE  /\ k \in lost => k \in lost'
               /\ <<k, TRUE>> \in reg_req => <<k, TRUE>> \in reg_req' \/ k \in lost'
               /\ reg_rep[k] # NoReply => reg_rep'[k] # NoReply \/ k \in lost'
    BY DEF BrokerDies
  <2>2. ASSUME NEW k \in Copy PROVE server'[k].send_reg = server[k].send_reg
    BY DEF RecoveryInv, IndInv, TypeOK, ServerTypeOK, Process, BrokerDies
  <2>3. ASSUME NEW k \in Copy, server[k].send_reg
        PROVE  k \in lost' \/ <<k, TRUE>> \in reg_req' \/ reg_rep'[k] # NoReply
    <3>1. k \in lost \/ <<k, TRUE>> \in reg_req \/ reg_rep[k] # NoReply
      BY <2>3 DEF RecoveryInv, InFlight
    <3> QED
      BY <2>1, <3>1
  <2> QED
    BY <2>2, <2>3 DEF InFlight
<1> QED
  BY <1>1, <1>2, <1>3, <1>4, <1>5 DEF RecoveryInv, Forgotten

(* The new broker finds the clients as they are.                           *)
LEMMA RestartBrokerInv == RecoveryInv /\ RestartBroker => RecoveryInv'
<1> SUFFICES ASSUME RecoveryInv, RestartBroker PROVE RecoveryInv'
  OBVIOUS
<1>1. /\ broker = "killed" /\ broker' = "up"
      /\ UNCHANGED <<services_db, next_dealer_skt_index, available_dealer_port,
                     available_services, dealer, server, client, crashes, lost>>
      /\ UNCHANGED <<connected, router_in, router_out, reg_req, reg_rep, lb, inbox, outbox>>
  BY DEF RestartBroker, netVars
<1>2. TypeOK'
  BY <1>1 DEF RecoveryInv, IndInv, TypeOK, NetTypeOK, BrokerTypeOK, ServerTypeOK, ClientTypeOK
<1>3. Records' /\ LossBound'
  BY <1>1, RecordsFrame DEF RecoveryInv, IndInv, LossBound
<1>4. Route'
  BY <1>1 DEF RecoveryInv, IndInv, Route, Tables, Ports, PortsKnown, PortOf, Connections, Registered, Distinct
<1>5. ConnectedLive' /\ InFlight' /\ crashes' \in Nat /\ Forgotten'
  BY <1>1 DEF RecoveryInv, ConnectedLive, InFlight, Forgotten
<1>6. Calls(crashes > 0)'
  <2>1. Registered' = {} /\ (crashes' > 0) = TRUE
    BY <1>1 DEF RecoveryInv, Forgotten, Registered
  <2>2. ASSUME NEW c \in Client PROVE CallState(c, TRUE)'
    <3>1. QueueState(c)
      BY <1>1 DEF RecoveryInv, Calls
    <3>2. Pending(c)' = {}
      BY <2>1 DEF Pending
    <3> QED
      BY <1>1, <3>1, <3>2 DEF QueueState, CallState
  <2> QED
    BY <1>1, <2>1, <2>2 DEF Calls, Undecided
<1> QED
  BY <1>2, <1>3, <1>4, <1>5, <1>6 DEF RecoveryInv, IndInv

-----------------------------------------------------------------------------
(* The other steps *)

LEMMA StartedWaitsNot == ~Started.send_reg
BY DEF Started

(* A step of a copy: it sends a registration or stops waiting for one.     *)
LEMMA CopyInFlight ==
  ASSUME TypeOK, InFlight, NEW k \in Copy,
         ServerStep(k) \/ MissesPing(k) \/ Kill(k) \/ Relaunch(k),
         lost' = {x \in lost : server'[x].send_reg}
  PROVE  InFlight'
<1>1. server \in [Copy -> Process]
  BY DEF TypeOK, ServerTypeOK
<1>2. CASE Dies(k) \/ Relaunch(k)
  <2>1. ~server'[k].send_reg /\ \A x \in Copy \ {k} : server'[x] = server[x]
    BY <1>1, <1>2, StartedWaitsNot, ZenonT(60) DEF Dies, Relaunch, Started
  <2>2. \A x \in Copy \ {k} :
          /\ <<x, TRUE>> \in reg_req => <<x, TRUE>> \in reg_req'
          /\ reg_rep'[x] = reg_rep[x]
    BY <1>2 DEF TypeOK, NetTypeOK, Dies, Relaunch, netVars
  <2> QED
    BY <2>1, <2>2 DEF InFlight
<1>3. CASE SendRegistration(k)
  <2>1. /\ \A x \in Copy \ {k} : server'[x] = server[x]
        /\ reg_req' = reg_req \cup {<<k, TRUE>>} /\ reg_rep' = reg_rep
    BY <1>1, <1>3 DEF SendRegistration
  <2> QED
    BY <2>1 DEF InFlight
<1>4. CASE RegistrationOk(k)
  <2>1. \A x \in Copy \ {k} : server'[x] = server[x] /\ reg_rep'[x] = reg_rep[x]
    BY <1>1, <1>4 DEF RegistrationOk, TypeOK, NetTypeOK
  <2>2. reg_req' = reg_req /\ ~server'[k].send_reg
    BY <1>1, <1>4 DEF RegistrationOk, Idle, Process
  <2> QED
    BY <2>1, <2>2 DEF InFlight
<1>5. CASE PongBroker(k) \/ CreateThread(k) \/ DuplicateRequest(k) \/ TaskDone(k)
           \/ OrphanAnswers(k) \/ PingTimeout(k)
  <2>1. UNCHANGED <<reg_req, reg_rep>>
    BY <1>5 DEF PongBroker, CreateThread, DuplicateRequest, TaskDone, OrphanAnswers,
                PingTimeout, netVars
  <2>2. \A x \in Copy : server'[x].send_reg = server[x].send_reg
    <3>1. server[k] \in Process
      BY <1>1
    <3>2. CASE PongBroker(k) \/ DuplicateRequest(k)
      BY <3>2 DEF PongBroker, DuplicateRequest
    <3>3. CASE CreateThread(k)
      BY <1>1, <3>1, <3>3 DEF CreateThread, Process
    <3>4. CASE TaskDone(k)
      BY <1>1, <3>1, <3>4 DEF TaskDone, Idle, Process
    <3>5. CASE OrphanAnswers(k)
      BY <1>1, <3>1, <3>5 DEF OrphanAnswers, Idle, Process
    <3>6. CASE PingTimeout(k)
      BY <1>1, <3>1, <3>6 DEF PingTimeout, Process
    <3> QED
      BY <1>5, <3>2, <3>3, <3>4, <3>5, <3>6
  <2> QED
    BY <2>1, <2>2 DEF InFlight
<1> QED
  BY <1>2, <1>3, <1>4, <1>5
     DEF ServerStep, MissesPing, Kill, OrphanThrows, RegistrationError

(* The broker answers every registration it takes from its REG socket, the *)
(* refused ones too.                                                       *)
LEMMA BrokerInFlight ==
  ASSUME TypeOK, InFlight, BrokerStep, UNCHANGED server,
         lost' = {x \in lost : server'[x].send_reg}
  PROVE  InFlight'
<1>1. CASE get_registration
  <2>1. PICK k \in Copy, live \in BOOLEAN :
          \/ GetFirstRegistration(k, live)
          \/ GetFurtherRegistration(k, live)
          \/ RefuseRegistration(k, live)
    BY <1>1 DEF get_registration
  <2>2. \E port \in Nat : TakeRegistration(k, live, port)
    <3>1. CASE GetFirstRegistration(k, live)
      BY <3>1 DEF GetFirstRegistration, TypeOK, BrokerTypeOK
    <3>2. CASE GetFurtherRegistration(k, live)
      <4>1. services_db[k[1]] \in service_record
        BY <3>2 DEF GetFurtherRegistration, TypeOK, BrokerTypeOK, Registered
      <4>2. FurtherCopy(services_db[k[1]]).dealer_socket \in Nat
        BY <4>1 DEF FurtherCopy, service_record
      <4> QED
        BY <3>2, <4>2 DEF GetFurtherRegistration
    <3>3. CASE RefuseRegistration(k, live)
      BY <3>3 DEF RefuseRegistration, REG_FAIL
    <3> QED
      BY <2>1, <3>1, <3>2, <3>3
  <2>3. PICK port \in Nat : TakeRegistration(k, live, port)
    BY <2>2
  <2>4. ASSUME NEW x \in Copy
        PROVE  /\ reg_rep[x] # NoReply => reg_rep'[x] # NoReply
               /\ <<x, TRUE>> \in reg_req => <<x, TRUE>> \in reg_req' \/ reg_rep'[x] # NoReply
    <3>1. port # NoReply
      BY DEF NoReply
    <3>2. /\ reg_req' = reg_req \ {<<k, live>>}
          /\ reg_rep' = IF live THEN [reg_rep EXCEPT ![k] = port] ELSE reg_rep
          /\ reg_rep \in [Copy -> Nat \cup {NoReply}]
      BY <2>3 DEF TakeRegistration, TypeOK, NetTypeOK
    <3>3. CASE live /\ x = k
      BY <3>1, <3>2, <3>3
    <3>4. CASE ~(live /\ x = k)
      <4>1. <<x, TRUE>> # <<k, live>> /\ reg_rep'[x] = reg_rep[x]
        BY <3>2, <3>4
      <4> QED
        BY <3>2, <4>1
    <3> QED
      BY <3>3, <3>4
  <2> QED
    BY <2>4 DEF InFlight
<1>2. CASE ~get_registration
  <2>1. UNCHANGED <<reg_req, reg_rep>>
    BY <1>2 DEF BrokerStep, get_request, GetRequestNotAvailable, GetRequest,
                GetRequestUndefined, TakeRequest, get_response, GetPong, GetDuplicate,
                GetResult, TakeReply, Heartbeat, HeartbeatTimeout,
                check_pending_requests, CheckPendingRequest
  <2> QED
    BY <2>1 DEF InFlight
<1> QED
  BY <1>1, <1>2

LEMMA NextInFlight ==
  ASSUME TypeOK, InFlight, Next, lost' = {x \in lost : server'[x].send_reg}
  PROVE  InFlight'
<1>1. CASE BrokerStep /\ UNCHANGED <<server, client>>
  BY <1>1, BrokerInFlight
<1>2. CASE CopyStep
  BY <1>2, CopyInFlight DEF CopyStep, Revive, Restart
<1>3. CASE UNCHANGED <<reg_req, reg_rep, server>>
  BY <1>3 DEF InFlight
<1> QED
  BY <1>1, <1>2, <1>3
     DEF Next, ClientStep, RequestService, ReceiveResponse, Leave, AttachTo

(* A broker that is down takes no step, and none kills itself.             *)
LEMMA NextForgotten == Forgotten /\ Next /\ UNCHANGED crashes => Forgotten'
<1> SUFFICES ASSUME Forgotten, Next, UNCHANGED crashes, broker' = "killed"
             PROVE  Registered' = {} /\ crashes' > 0
  BY DEF Forgotten
<1>1. UNCHANGED <<broker, services_db>>
  <2>1. CASE BrokerStep
    <3>1. broker = "up" /\ broker' \in {"up", "exit", "uncaught", "undefined"}
      BY <2>1, ZenonT(60)
         DEF BrokerStep, get_registration, GetFirstRegistration,
             GetFurtherRegistration, RefuseRegistration, TakeRegistration,
             get_request, GetRequestNotAvailable, GetRequest, GetRequestUndefined,
             TakeRequest, get_response, GetPong, GetDuplicate, GetResult, TakeReply,
             Heartbeat, HeartbeatTimeout, check_pending_requests, CheckPendingRequest,
             AfterResponse
    <3> QED
      BY <3>1
  <2> QED
    BY <2>1 DEF Next, AttachTo, brokerVars
<1> QED
  BY <1>1 DEF Forgotten, Registered

(* Every step of the framework, and of the health checker of a copy.       *)
LEMMA OrdinaryInv ==
  ASSUME OneService, RecoveryInv, Ordinary(Next) \/ \E k \in Copy : Ordinary(RelaunchCopy(k))
  PROVE  RecoveryInv'
<1>1. UNCHANGED crashes /\ lost' = {x \in lost : server'[x].send_reg}
  BY DEF Ordinary
<1>2. IndInv /\ ConnectedLive /\ TypeOK /\ InFlight /\ Forgotten /\ crashes \in Nat
  BY DEF RecoveryInv, IndInv
<1>3. PICK loss \in BOOLEAN : loss = (crashes > 0) /\ (crashes = 0 => ~loss)
  BY LossOrNot DEF RecoveryInv
<1>4. Calls(loss)
  BY <1>3 DEF RecoveryInv
<1>5. CASE Next
  <2>1. IndInv' /\ ConnectedLive' /\ Calls(loss)'
    BY <1>2, <1>4, <1>5, NextIndInv, NextCalls, OneServiceRight
  <2>2. InFlight' /\ Forgotten'
    BY <1>1, <1>2, <1>5, NextInFlight, NextForgotten
  <2> QED
    BY <1>1, <1>2, <1>3, <2>1, <2>2 DEF RecoveryInv
<1>6. CASE \E k \in Copy : RelaunchCopy(k)
  <2>1. PICK k \in Copy : Relaunch(k) /\ UNCHANGED <<brokerVars, client>>
    BY <1>6 DEF RelaunchCopy
  <2>2. IndInv'
    BY <1>2, <2>1, RelaunchInv
  <2>3. InFlight'
    BY <1>1, <1>2, <2>1, CopyInFlight
  <2>4. UNCHANGED <<broker, services_db, connected, router_in, router_out, client>>
    BY <2>1 DEF Relaunch, netVars, brokerVars
  <2>5. ConnectedLive' /\ Calls(loss)'
    BY <1>2, <1>4, <2>4, CallStutter
  <2>6. Forgotten'
    BY <1>1, <1>2, <2>4 DEF Forgotten, Registered
  <2> QED
    BY <1>1, <1>2, <1>3, <2>2, <2>3, <2>5, <2>6 DEF RecoveryInv
<1> QED
  BY <1>5, <1>6 DEF Ordinary

LEMMA StutterRecovery == RecoveryInv /\ UNCHANGED recoveryVars => RecoveryInv'
<1> SUFFICES ASSUME RecoveryInv, UNCHANGED recoveryVars PROVE RecoveryInv'
  OBVIOUS
<1>1. UNCHANGED <<vars, crashes, lost>>
  BY DEF recoveryVars
<1>2. IndInv'
  BY <1>1, NextIndInv DEF RecoveryInv
<1>3. UNCHANGED <<broker, services_db, connected, router_in, router_out, client, reg_req,
                  reg_rep, server>>
  BY <1>1 DEF vars, netVars, brokerVars
<1>4. PICK loss \in BOOLEAN : loss = (crashes > 0) /\ (crashes = 0 => ~loss)
  BY LossOrNot DEF RecoveryInv
<1>5. ConnectedLive' /\ Calls(loss)'
  BY <1>3, <1>4, CallStutter DEF RecoveryInv
<1>6. InFlight' /\ Forgotten' /\ crashes' \in Nat
  BY <1>1, <1>3 DEF RecoveryInv, InFlight, Forgotten, Registered
<1> QED
  BY <1>1, <1>2, <1>4, <1>5, <1>6 DEF RecoveryInv

LEMMA NextRecovery ==
  ASSUME OneService PROVE RecoveryInv /\ [RecoveryNext]_recoveryVars => RecoveryInv'
BY BrokerDiesInv, RestartBrokerInv, OrdinaryInv, StutterRecovery DEF RecoveryNext

-----------------------------------------------------------------------------
(* Every variable keeps its type over crashes of the broker, what is cut   *)
(* off the queues included.                                                *)
THEOREM RecoveryTypeCorrect == ASSUME OneService PROVE RecoverySpec => []TypeOK
<1>1. RecoveryInv => TypeOK
  BY DEF RecoveryInv, IndInv
<1> QED
  BY <1>1, InitRecovery, NextRecovery, PTL DEF RecoverySpec

(* A call of request_service is in at most one place, over any number of   *)
(* crashes of the broker: late results in the envelope of a request that   *)
(* went down with a broker answer nobody.                                  *)
THEOREM CallOnceCorrect == ASSUME OneService PROVE RecoverySpec => []CallOnce
<1>1. RecoveryInv => CallOnce
  <2> SUFFICES ASSUME RecoveryInv, broker = "up", NEW c \in connected
               PROVE  LET places == Len(router_in[c]) + Cardinality(Pending(c)) + Len(router_out[c])
                      IN  IF client[c].status = "waiting"
                          THEN places <= 1 /\ (crashes = 0 => places = 1)
                          ELSE places = 0
    BY DEF CallOnce
  <2>1. PICK loss \in BOOLEAN : loss = (crashes > 0) /\ (crashes = 0 => ~loss)
    BY LossOrNot DEF RecoveryInv
  <2>2. CallState(c, loss) /\ TypeOK /\ ConnectedLive
    BY <2>1 DEF RecoveryInv, IndInv, Calls, TypeOK, NetTypeOK
  <2> DEFINE places == Len(router_in[c]) + Cardinality(Pending(c)) + Len(router_out[c])
  <2>3. \/ places = (IF client[c].status = "waiting" THEN 1 ELSE 0)
        \/ loss /\ places = 0
    BY <2>2, CallPlaces
  <2> HIDE DEF places
  <2>4. crashes = 0 => ~loss
    BY <2>1
  <2>5. IF client[c].status = "waiting"
        THEN places <= 1 /\ (crashes = 0 => places = 1)
        ELSE places = 0
    <3>1. CASE client[c].status = "waiting"
      <4>1. places = 1 \/ (loss /\ places = 0)
        BY <2>3, <3>1
      <4> QED
        BY <2>4, <3>1, <4>1
    <3>2. CASE client[c].status # "waiting"
      BY <2>3, <3>2
    <3> QED
      BY <3>1, <3>2
  <2> QED
    BY <2>5 DEF places
<1> QED
  BY <1>1, InitRecovery, NextRecovery, PTL DEF RecoverySpec

(* A copy that waits for the answer to its registration gets one, refused  *)
(* or not, unless the registration or the answer went down with a broker.  *)
THEOREM RegistrationCorrect == ASSUME OneService PROVE RecoverySpec => []RegistrationInFlight
<1>1. RecoveryInv => RegistrationInFlight
  BY DEF RecoveryInv, InFlight, RegistrationInFlight
<1> QED
  BY <1>1, InitRecovery, NextRecovery, PTL DEF RecoverySpec
=============================================================================
