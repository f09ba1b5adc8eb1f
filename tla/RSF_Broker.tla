----------------------------- MODULE RSF_Broker -----------------------------
(***************************************************************************)
(* class RSF_Broker.  step() is an endless loop around zmq::poll that      *)
(* calls one handler per readable socket and then looks at the clock.  The *)
(* process has one thread, so every handler is an atomic action; as        *)
(* messages arrive and deadlines pass at any moment, any order of handlers *)
(* is an order of some iterations of the loop.                             *)
(*                                                                         *)
(* A deadline is abstracted to the moment at which the broker sees it      *)
(* passed: HeartbeatTimeout and CheckPendingRequest may occur at any time. *)
(***************************************************************************)
EXTENDS ServiceDatabase, ZMQ

CONSTANTS
  MaxHeartbeats,   \* bound: heartbeat rounds per service
  MaxAnswers       \* bound: unread responses per client

VARIABLES
  broker,                 \* "up", or how the process has ended
  services_db,            \* the ServiceDatabase
  next_dealer_skt_index,
  available_dealer_port,
  available_services,     \* services whose copies have all registered, in order
  dealer                  \* ports of the DEALER sockets, parallel to the above

brokerVars == <<broker, services_db, next_dealer_skt_index,
                available_dealer_port, available_services, dealer>>

(* exit(EXIT_FAILURE), an exception nobody catches, undefined behaviour,   *)
(* or a signal from outside.                                               *)
Ends == {"exit", "uncaught", "undefined", "killed"}

BrokerTypeOK ==
  /\ broker \in {"up"} \cup Ends
  /\ DOMAIN services_db \subseteq Service
  /\ services_db \in [DOMAIN services_db -> service_record]
  /\ next_dealer_skt_index \in Nat
  /\ available_dealer_port \in Nat
  /\ available_services \in Seq(Service)
  /\ dealer \in Seq(Nat)

BrokerInit ==
  /\ broker = "up"
  /\ services_db = [s \in {} |-> FirstCopy(0, 0)]
  /\ next_dealer_skt_index = 0
  /\ available_dealer_port = DEALER_START_PORT
  /\ available_services = <<>>
  /\ dealer = <<>>

Registered == DOMAIN services_db
AvailableServices == {available_services[i] : i \in DOMAIN available_services}

(* send_multi_msg(router, ...): it throws if the client has disconnected.  *)
Respond(c, response) ==
  router_out' = IF c \in connected
                THEN [router_out EXCEPT ![c] = Append(@, response)]
                ELSE router_out

AfterResponse(c) == IF c \in connected THEN broker ELSE "uncaught"

-----------------------------------------------------------------------------
(* get_registration().  The REG socket is a ROUTER without the mandatory   *)
(* option: the reply to a copy that has died meanwhile is dropped.         *)
TakeRegistration(k, live, port) ==
  /\ broker = "up"
  /\ <<k, live>> \in reg_req
  /\ reg_req' = reg_req \ {<<k, live>>}
  /\ reg_rep' = IF live THEN [reg_rep EXCEPT ![k] = port] ELSE reg_rep
  /\ UNCHANGED <<broker, connected, router_in, router_out, inbox, outbox>>

(* push_registration, service not in the table.                            *)
GetFirstRegistration(k, live) ==
  LET s == k[1] IN
  /\ s \notin Registered
  /\ TakeRegistration(k, live, available_dealer_port)
  /\ services_db' = [x \in Registered \cup {s} |->
                       IF x = s
                       THEN FirstCopy(available_dealer_port, next_dealer_skt_index)
                       ELSE services_db[x]]
  /\ next_dealer_skt_index' = next_dealer_skt_index + 1
  /\ available_dealer_port' = available_dealer_port + 1
  /\ UNCHANGED <<available_services, dealer, lb>>

(* push_registration, one more copy.  The one that completes the group     *)
(* makes the service available (only once) and adds its DEALER socket.     *)
GetFurtherRegistration(k, live) ==
  LET s == k[1]
      record == FurtherCopy(services_db[s])
      ready == record.num_copies_registered = NMR
      already_registered == s \in AvailableServices
  IN
  /\ s \in Registered
  /\ services_db[s].num_copies_registered < NMR
  /\ TakeRegistration(k, live, record.dealer_socket)
  /\ services_db' = [services_db EXCEPT ![s] = record]
  /\ IF ready /\ ~already_registered
     THEN /\ available_services' = Append(available_services, s)
          /\ dealer' = Append(dealer, record.dealer_socket)
          /\ lb' = Append(lb, [pipes |-> <<>>, current |-> 1])
     ELSE UNCHANGED <<available_services, dealer, lb>>
  /\ UNCHANGED <<next_dealer_skt_index, available_dealer_port>>

RefuseRegistration_Silent(k, live) ==      \* mutant: no answer, -1 is no port
  /\ k[1] \in Registered
  /\ services_db[k[1]].num_copies_registered >= NMR
  /\ TakeRegistration(k, live, NoReply)
  /\ UNCHANGED <<services_db, next_dealer_skt_index, available_dealer_port,
                 available_services, dealer, lb>>

(* push_registration, the group is full.                                   *)
RefuseRegistration(k, live) ==
  /\ k[1] \in Registered
  /\ services_db[k[1]].num_copies_registered >= NMR
  /\ TakeRegistration(k, live, REG_FAIL)
  /\ UNCHANGED <<services_db, next_dealer_skt_index, available_dealer_port,
                 available_services, dealer, lb>>

-----------------------------------------------------------------------------
(* get_request(): the request of client c that is next in its queue.       *)
TakeRequest(c) ==
  /\ broker = "up"
  /\ router_in[c] # <<>>
  /\ router_in' = [router_in EXCEPT ![c] = Tail(@)]
  /\ UNCHANGED <<connected, reg_req, reg_rep, outbox, next_dealer_skt_index,
                 available_dealer_port, available_services, dealer>>

(* find_registration: the DEALER index, or -1.                             *)
find_registration(s) ==
  IF s \in Registered THEN services_db[s].dealer_skt_index ELSE SERVICE_NOT_FOUND

GetRequestNotAvailable(c) ==
  /\ TakeRequest(c)
  /\ find_registration(Head(router_in[c]).service) = SERVICE_NOT_FOUND
  /\ Respond(c, Failure("NOT_AVAILABLE"))
  /\ broker' = AfterResponse(c)
  /\ UNCHANGED <<services_db, lb, inbox>>

(* dealer[ret] and timeout[i] are vector accesses without a bounds check.  *)
(* DEALER sockets and timeouts exist for available services only, while    *)
(* find_registration knows a service from its first copy on.               *)
OutOfBounds(s) ==
  \/ s \notin AvailableServices
  \/ /\ services_db[s].num_copies_reliable > 0
     /\ find_registration(s) + 1 \notin DOMAIN dealer

GetRequest(c) ==
  LET s == Head(router_in[c]).service
      record == services_db[s]
      sm == [heartbeat |-> FALSE, seq_id |-> record.seq_id_request,
             client |-> c, parameters |-> Head(router_in[c]).parameters]
  IN
  /\ TakeRequest(c)
  /\ find_registration(s) # SERVICE_NOT_FOUND
  /\ ~OutOfBounds(s)
  /\ DealerSend(find_registration(s) + 1, sm, record.num_copies_reliable)
  /\ services_db' = [services_db EXCEPT ![s] =
                       push_request([record EXCEPT !.seq_id_request = @ + 1], c)]
  /\ UNCHANGED <<broker, router_out>>

GetRequestUndefined(c) ==
  LET s == Head(router_in[c]).service IN
  /\ TakeRequest(c)
  /\ find_registration(s) # SERVICE_NOT_FOUND
  /\ OutOfBounds(s)
  /\ broker' = "undefined"
  /\ UNCHANGED <<services_db, lb, inbox, router_out>>

-----------------------------------------------------------------------------
(* get_response(): a reply of copy k, on a DEALER socket of the poll set.  *)
TakeReply(k) ==
  /\ broker = "up"
  /\ dealer # <<>>
  /\ outbox[k] # <<>>
  /\ outbox' = [outbox EXCEPT ![k] = Tail(@)]
  /\ UNCHANGED <<connected, router_in, reg_req, reg_rep, lb, inbox,
                 next_dealer_skt_index, available_dealer_port,
                 available_services, dealer>>

GetPong(k) ==
  LET s == k[1] IN
  /\ outbox[k] # <<>> /\ Head(outbox[k]).heartbeat
  /\ TakeReply(k)
  /\ IF s \in Registered
     THEN /\ services_db' = [services_db EXCEPT ![s] = register_pong(@, k[2])]
          /\ UNCHANGED broker
     ELSE broker' = "exit" /\ UNCHANGED services_db
  /\ UNCHANGED router_out

GetDuplicate(k) ==
  /\ outbox[k] # <<>> /\ ~Head(outbox[k]).heartbeat /\ Head(outbox[k]).duplicated
  /\ TakeReply(k)
  /\ UNCHANGED <<broker, services_db, router_out>>

Answerable_All(results) == Len(results) = NMR      \* mutant: waits for all copies

(* A result is voted on as soon as more than half of NMR are in.  The      *)
(* client is answered with the majority value, or with NOT_RELIABLE when   *)
(* NMR results are in and there is none.                                   *)
Answerable(results) ==
  Len(results) > NMR \div 2 /\ (vote(results) >= 0 \/ Len(results) = NMR)

GetResult(k) ==
  LET s == k[1]
      reply == Head(outbox[k])
      c == reply.client
      records == push_result(services_db[s].request_records, c, reply.result)
      results == get_result(records, c)
      ret == vote(results)
  IN
  /\ outbox[k] # <<>> /\ ~Head(outbox[k]).heartbeat /\ ~Head(outbox[k]).duplicated
  /\ TakeReply(k)
  /\ IF s \notin Registered
     THEN broker' = "exit" /\ UNCHANGED <<services_db, router_out>>
     ELSE IF Answerable(results)
     THEN /\ Respond(c, IF ret >= 0 THEN Available(results[ret + 1])
                                    ELSE Failure("NOT_RELIABLE"))
          /\ broker' = AfterResponse(c)
          /\ services_db' = [services_db EXCEPT ![s].request_records =
                               delete_request(records, c)]
     ELSE /\ services_db' = [services_db EXCEPT ![s].request_records = records]
          /\ UNCHANGED <<broker, router_out>>

-----------------------------------------------------------------------------
(* The loop over timeout[]: check_pong, ping_server and update_timeout.    *)
HeartbeatTimeout(i) ==
  LET s == available_services[i]
      record == check_pong(services_db[s])
      ping == [heartbeat |-> TRUE, seq_id |-> record.seq_id_ping,
               client |-> NoClient, parameters |-> 0]
  IN
  /\ broker = "up"
  /\ i \in DOMAIN available_services
  /\ record.seq_id_ping < MaxHeartbeats
  /\ services_db' = [services_db EXCEPT ![s] = record]
  /\ DealerSend(i, ping, record.num_copies_reliable)
  /\ UNCHANGED <<broker, next_dealer_skt_index, available_dealer_port,
                 available_services, dealer, connected, router_in, router_out,
                 reg_req, reg_rep, outbox>>

(* One round of the inner loop of check_pending_requests(): the deadline   *)
(* of request q has passed.  Deadlines pass in the order of the vector.    *)
(* The code works on a copy of the pending requests, which differs from    *)
(* the table only when one client has two of them: a client waits for its  *)
(* answer, so that it takes a record left behind by ExpiredFrom.           *)
(* The request is deleted from service (service_type_t) i, where i counts  *)
(* available_services from 0.                                              *)
ExpiredFrom(i) == i - 1

Expire(records, q) == (records \ {q}) \cup {[q EXCEPT !.expired = TRUE]}

CheckPendingRequest(i, q) ==
  LET s == available_services[i]
      c == q.client_id
      ret == vote(q.results)
      expired == [services_db EXCEPT ![s].request_records = Expire(@, q)]
  IN
  /\ broker = "up"
  /\ \A r \in services_db[s].request_records : r.seq < q.seq => r.expired
  /\ Len(router_out[c]) < MaxAnswers
  /\ Respond(c, IF ret >= 0 THEN Available(q.results[ret + 1])
                            ELSE Failure("NOT_RELIABLE"))
  /\ IF ExpiredFrom(i) \in Registered
     THEN /\ services_db' = [expired EXCEPT ![ExpiredFrom(i)].request_records =
                               delete_request(@, c)]
          /\ broker' = AfterResponse(c)
     ELSE /\ services_db' = expired
          /\ broker' = IF c \in connected THEN "exit" ELSE "uncaught"
  /\ UNCHANGED <<next_dealer_skt_index, available_dealer_port,
                 available_services, dealer, connected, router_in, reg_req,
                 reg_rep, lb, inbox, outbox>>

-----------------------------------------------------------------------------
(* One handler call of step() per socket, and the two clocks.              *)
get_registration ==
  \E k \in Copy, live \in BOOLEAN :
     \/ GetFirstRegistration(k, live)
     \/ GetFurtherRegistration(k, live)
     \/ RefuseRegistration(k, live)

get_request(c) ==
  \/ GetRequestNotAvailable(c)
  \/ GetRequest(c)
  \/ GetRequestUndefined(c)

get_response(k) ==
  \/ GetPong(k)
  \/ GetDuplicate(k)
  \/ GetResult(k)

check_pending_requests ==
  \E i \in DOMAIN available_services :
    \E q \in services_db[available_services[i]].request_records :
       CheckPendingRequest(i, q)
=============================================================================
