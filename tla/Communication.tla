--------------------------- MODULE Communication ---------------------------
(***************************************************************************)
(* Parameters and message formats shared by every process of the framework *)
(* (include/communication.hpp, include/test.hpp, include/service.hpp) and  *)
(* the service bodies of src/server/service.cpp.  Byte order conversions   *)
(* cancel out between the two ends of a connection and are left out.       *)
(***************************************************************************)
EXTENDS Integers, Sequences, FiniteSets

CONSTANTS
  Service,    \* deployed service_type_t values: INCREMENT, DECREMENT, MULTIPLY2
  Client,     \* identities the ROUTER socket gives to client connections
  NoClient,   \* the made-up identity that pings carry ("aaaa")
  CopyId,     \* identities of the copies of one service (0 .. nmr - 1 in the code)
  NMR,        \* redundancy: copies per service
  LIVENESS    \* lost pings or pongs after which a peer is given up

INCREMENT == 0
DECREMENT == 1
MULTIPLY2 == 2

ASSUME ServiceAssumption == Service \subseteq {INCREMENT, DECREMENT, MULTIPLY2}
ASSUME ClientAssumption == NoClient \notin Client
ASSUME NMRAssumption == NMR \in 1..255            \* uint8_t nmr
ASSUME CopyIdAssumption == IsFiniteSet(CopyId) /\ Cardinality(CopyId) = NMR
ASSUME LivenessAssumption == LIVENESS \in 1..127  \* compared with an int8_t

Copy == Service \X CopyId      \* a server process: <<service_type, id>>

DEALER_START_PORT == 6000
REG_FAIL == 0                  \* "port" that refuses a registration
SERVICE_NOT_FOUND == -1
NO_MAJORITY == -1

(* Status values of a response_module. *)
Status == {"AVAILABLE", "NOT_AVAILABLE", "NOT_RELIABLE"}

(* A request of a client; REQ and ROUTER add the identity of the client.   *)
request_module == [service: Service, parameters: Int]

(* The answer to a client.  In the two failure cases the code sends an     *)
(* indeterminate result, which the client never reads: 0 here.             *)
response_module == [service_status: Status, result: Int]
Failure(status) == [service_status |-> status, result |-> 0]
Available(value) == [service_status |-> "AVAILABLE", result |-> value]

(* What the broker sends to a copy, with the identity in the envelope.     *)
service_module == [heartbeat: BOOLEAN, seq_id: Nat,
                   client: Client \cup {NoClient}, parameters: Int]

(* What a copy sends back in the same envelope.  The fields service and id *)
(* of the struct are those of the sending copy.                            *)
server_reply_t == [heartbeat: BOOLEAN, duplicated: BOOLEAN, result: Int,
                   client: Client \cup {NoClient}]

(* get_service_body(service)(x)                                            *)
service_body(service, x) ==
  CASE service = INCREMENT -> x + 1
    [] service = DECREMENT -> x - 1
    [] service = MULTIPLY2 -> x * 2
=============================================================================
