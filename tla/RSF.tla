-------------------------------- MODULE RSF --------------------------------
(***************************************************************************)
(* The whole framework: one broker, NMR copies of every service, clients,  *)
(* and the ZeroMQ connections between them.                                *)
(***************************************************************************)
EXTENDS RSF_Broker, RSF_Server, RSF_Client

CONSTANT Timely   \* TRUE: the timing the intervals of the code are meant for

ASSUME TimelyAssumption == Timely \in BOOLEAN

vars == <<netVars, brokerVars, server, client>>

Init == NetInit /\ BrokerInit /\ ServerInit /\ ClientInit

-----------------------------------------------------------------------------
(* ZeroMQ: the connect of a REP socket succeeds once the broker has bound  *)
(* the port.  It is retried until then, and one connect is one peer.       *)
AttachTo(k, i) ==
  /\ broker = "up"
  /\ server[k].up
  /\ server[k].broker_port = dealer[i]
  /\ k \notin Peers(i)
  /\ lb' = Attached(i, k)
  /\ UNCHANGED <<connected, router_in, router_out, reg_req, reg_rep, inbox,
                 outbox, brokerVars, server, client>>

-----------------------------------------------------------------------------
(* Timing.  A heartbeat round is 2 s, a ping or a request takes about half *)
(* a second, a copy gives its broker up after 3 x 2.5 s and the health     *)
(* checker restarts a dead process after 3 x 5 s.  UpToDate, Settled and   *)
(* GivenUp translate no line of the code; they are what is assumed of its  *)
(* clocks with Timely:                                                     *)
(* - a live copy is at most LIVENESS - 1 rounds late: when one more missed *)
(*   pong would give it up, everything it has been sent is answered before *)
(*   the round, and a round earlier it has its socket and is connected;    *)
(* - a copy misses pings only while its service sends none;                *)
(* - a dead copy comes back only after the broker has given it up (which   *)
(*   requests that postpone the heartbeat may delay).                      *)
Joined(i, k) == server[k].up => server[k].reg_ok /\ k \in Peers(i)

UpToDate(i, k) ==
  /\ Joined(i, k)
  /\ server[k].up => inbox[k] = <<>> /\ ~server[k].busy
  /\ outbox[k] = <<>>

Settled(i) ==
  LET s == available_services[i] IN
  \A id \in CopyId :
    /\ services_db[s].lost_pong[id] = LIVENESS - 2 => Joined(i, <<s, id>>)
    /\ services_db[s].lost_pong[id] = LIVENESS - 1 => UpToDate(i, <<s, id>>)

Heartbeat(i) == (Timely => Settled(i)) /\ HeartbeatTimeout(i)

MissesPing(k) ==
  /\ Timely => k[1] \notin AvailableServices
  /\ PingTimeout(k)

GivenUp(k) ==
  k[1] \in AvailableServices => services_db[k[1]].lost_pong[k[2]] = LIVENESS

Revive(k) == (Timely => GivenUp(k)) /\ Restart(k)

-----------------------------------------------------------------------------
BrokerStep ==
  \/ get_registration
  \/ \E c \in Client : get_request(c)
  \/ \E k \in Copy : get_response(k)
  \/ \E i \in DOMAIN available_services : Heartbeat(i)
  \/ check_pending_requests

CopyStep ==
  \E k \in Copy :
    \/ ServerStep(k)
    \/ MissesPing(k)
    \/ Kill(k)
    \/ Revive(k)

ClientStep ==
  \E c \in Client :
    \/ \E s \in Service, p \in Parameters[c] : RequestService(c, s, p)
    \/ ReceiveResponse(c)
    \/ Leave(c)

Next ==
  \/ BrokerStep /\ UNCHANGED <<server, client>>
  \/ CopyStep /\ UNCHANGED <<brokerVars, client>>
  \/ ClientStep /\ UNCHANGED <<brokerVars, server>>
  \/ \E k \in Copy : \E i \in DOMAIN dealer : AttachTo(k, i)

Spec == Init /\ [][Next]_vars

(* step() polls every socket in every iteration, ROUTER and DEALER sockets *)
(* take turns among their peers, and the clock is read in every iteration: *)
(* no handler of the broker is put off for ever.  A waiting client sits in *)
(* recv.  Nothing is assumed of the copies.                                *)
Fairness ==
  /\ \A c \in Client :
       /\ WF_vars(get_request(c) /\ UNCHANGED <<server, client>>)
       /\ WF_vars(ReceiveResponse(c) /\ UNCHANGED <<brokerVars, server>>)
  /\ \A k \in Copy : WF_vars(get_response(k) /\ UNCHANGED <<server, client>>)
  /\ WF_vars(check_pending_requests /\ UNCHANGED <<server, client>>)

FairSpec == Spec /\ Fairness

-----------------------------------------------------------------------------
(* Every variable keeps its type; lost_pong stays within int8_t, the copy  *)
(* counters within uint8_t.                                                *)
TypeOK == NetTypeOK /\ BrokerTypeOK /\ ServerTypeOK /\ ClientTypeOK

-----------------------------------------------------------------------------
(* Safety *)

(* The port of a group is handed out with its first registration, its      *)
(* DEALER socket is bound with the last one, and available_services and    *)
(* dealer are filled in that later order: whatever the order in which the  *)
(* groups of several services register, a copy that has a REP socket uses  *)
(* the port of its own service, and each DEALER socket has copies of its   *)
(* own service for peers.  ping_server(i, s) therefore pings copies of s,  *)
(* and what comes back on dealer[i] comes from one of them.                *)
RoutingSafe ==
  /\ \A i \in DOMAIN lb :
       /\ i \in DOMAIN available_services
       /\ \A k \in Peers(i) : k[1] = available_services[i]
  /\ \A k \in Copy : \A i \in DOMAIN available_services :
       k[1] = available_services[i] => server[k].broker_port \in {0, dealer[i]}

(* For the properties: check_pending_requests() deletes from service i     *)
(* where it means available_services[i], which is right when the services  *)
(* have become available in the order of their service_type_t.             *)
InOrder == \A i \in DOMAIN available_services : available_services[i] = i - 1

(* For the properties: the pending requests of a client.                   *)
Pending(c) ==
  UNION {{<<s, r>> : r \in Matching(services_db[s].request_records, c)} :
           s \in Registered}

(* A call of request_service is, at every moment, in exactly one place: in *)
(* the queue of the ROUTER socket, in the table of pending requests, or    *)
(* answered.  Between calls it is in none, so that no answer is left over  *)
(* for the next call: a timeout racing the last result never answers       *)
(* twice, and get_response and check_pending_requests never both drop it.  *)
OneAnswer ==
  broker = "up" /\ InOrder =>
    \A c \in connected :
      Len(router_in[c]) + Cardinality(Pending(c)) + Len(router_out[c])
        = IF client[c].status = "waiting" THEN 1 ELSE 0

(* A request waits only as long as its results are undecided: a majority,  *)
(* or NMR results without one, is answered by the handler of the result    *)
(* that completes it.  check_pending_requests() thus never finds the       *)
(* majority its first branch (ret >= 0) looks for.                         *)
NoSilentMajority ==
  broker = "up" /\ InOrder =>
    \A s \in Registered : \A r \in services_db[s].request_records :
      Len(r.results) < NMR /\ vote(r.results) = NO_MAJORITY

(* The results stored for a request are results for the parameters of that *)
(* client: copies serve the requests of several clients over one socket    *)
(* and answers come back in any order, but they are filed by the client    *)
(* identity in the envelope.                                               *)
Isolation ==
  \A c \in Client : client[c].status = "waiting" =>
    \A s \in Registered :
      \A r \in Matching(services_db[s].request_records, c) :
        \A x \in DOMAIN r.results :
          r.results[x] = service_body(s, client[c].parameters)

(* request_service returns true only with the value the service body has   *)
(* for its arguments.                                                      *)
ReliableResult ==
  \A c \in Client :
    LET call == client[c] IN
    call.status = "waiting" /\ router_out[c] # <<>> =>
      Head(router_out[c]) \in
        {Available(service_body(call.service, call.parameters)),
         Failure("NOT_AVAILABLE"), Failure("NOT_RELIABLE")}

(* ping_server() sends num_copies_reliable pings, which the DEALER socket  *)
(* deals out in turn: no connected copy is left out of a round.            *)
PingsReachAll ==
  \A i \in DOMAIN lb :
    Len(lb[i].pipes) <= services_db[available_services[i]].num_copies_reliable

(* A copy that is connected and registered is never given up: when a copy  *)
(* reaches LIVENESS lost pongs, it is not serving.                         *)
Serving(k) ==
  server[k].up /\ server[k].reg_ok /\ \E i \in DOMAIN lb : k \in Peers(i)

NoFalseAlarm ==
  [][\A k \in Copy :
       Serving(k) /\ k[1] \in Registered
         /\ services_db'[k[1]].lost_pong[k[2]] = LIVENESS
       => services_db[k[1]].lost_pong[k[2]] = LIVENESS]_vars

(* A copy answers "duplicated" only to a request that it has served: the   *)
(* number it expects next, which it takes from the first request that it   *)
(* sees and keeps for good, never falls behind the requests of the broker. *)
(* With one copy dead, counted out or back again, none of the others is    *)
(* ever left out when a request is dealt.                                  *)
RefusedOnlyIfServed ==
  [][\A k \in Copy :
       DuplicateRequest(k) => Head(inbox[k]).seq_id < server[k].request_id]_vars

(* num_copies_reliable: "Copies of the group that are working correctly",  *)
(* of which there are at most NMR.                                         *)
NoUnderflow == \A s \in Registered : services_db[s].num_copies_reliable <= NMR

(* dealer_skt_index: "Index to access in the dealer socket list to the     *)
(* dealer socket for this service".                                        *)
DealerIndexRight ==
  \A i \in DOMAIN available_services :
    services_db[available_services[i]].dealer_skt_index = i - 1

(* A request for a service is answered or forwarded, and never makes the   *)
(* broker index its vectors out of bounds.                                 *)
NoOutOfBounds == broker # "undefined"

(* Deleting an expired request never ends the broker.                      *)
NoExit == broker # "exit"

-----------------------------------------------------------------------------
(* Liveness *)

(* Every call of request_service returns, whatever the copies do, as long  *)
(* as the broker runs and the client stays: recv has no timeout, so the    *)
(* client depends on the request timeout of the broker.                    *)
Answered ==
  \A c \in Client :
    client[c].status = "waiting" ~> (client[c].status # "waiting" \/ broker # "up")
=============================================================================
