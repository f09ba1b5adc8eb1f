----------------------------- MODULE RSF_Client -----------------------------
(***************************************************************************)
(* class RSF_Client: request_service sends a request on a REQ socket and   *)
(* blocks until a response arrives, without a timeout.                     *)
(***************************************************************************)
EXTENDS ZMQ

CONSTANTS
  Parameters,      \* Parameters[c]: what client c may pass to a service
  Leaving,         \* clients whose process may end while it waits
  MaxRequests      \* bound: calls of request_service per client

ASSUME ParametersAssumption ==
  Parameters \in [Client -> SUBSET Int] /\ Leaving \subseteq Client

(* client[c]: what client c is doing, the arguments of the call it waits   *)
(* in and the number of calls made.                                        *)
VARIABLE client

ClientTypeOK ==
  client \in [Client -> [status: {"idle", "waiting", "gone"},
                         service: Service \cup {SERVICE_NOT_FOUND},
                         parameters: Int, requests: Nat]]

ClientInit ==
  client = [c \in Client |->
              [status |-> "idle", service |-> SERVICE_NOT_FOUND, parameters |-> 0,
               requests |-> 0]]

(* request_service up to recv.  What the socket still holds from earlier   *)
(* calls is dropped by the REQ socket.                                     *)
RequestService(c, s, p) ==
  /\ client[c].status = "idle"
  /\ client[c].requests < MaxRequests
  /\ client' = [client EXCEPT ![c] =
                  [status |-> "waiting", service |-> s, parameters |-> p,
                   requests |-> @.requests + 1]]
  /\ router_in' = [router_in EXCEPT ![c] =
                     Append(@, [service |-> s, parameters |-> p])]
  /\ router_out' = [router_out EXCEPT ![c] = <<>>]
  /\ UNCHANGED <<connected, reg_req, reg_rep, lb, inbox, outbox>>

(* ... and from recv on: it returns true and the result if the status of   *)
(* the first response in the queue is AVAILABLE, false otherwise.          *)
ReceiveResponse(c) ==
  /\ client[c].status = "waiting"
  /\ router_out[c] # <<>>
  /\ client' = [client EXCEPT ![c] =
                  [@ EXCEPT !.status = "idle", !.service = SERVICE_NOT_FOUND,
                            !.parameters = 0]]
  /\ router_out' = [router_out EXCEPT ![c] = Tail(@)]
  /\ UNCHANGED <<connected, router_in, reg_req, reg_rep, lb, inbox, outbox>>

(* The process ends; requests it has sent are still delivered.             *)
Leave(c) ==
  /\ c \in Leaving
  /\ client[c].status # "gone"
  /\ client' = [client EXCEPT ![c].status = "gone"]
  /\ connected' = connected \ {c}
  /\ router_out' = [router_out EXCEPT ![c] = <<>>]
  /\ UNCHANGED <<router_in, reg_req, reg_rep, lb, inbox, outbox>>
=============================================================================
