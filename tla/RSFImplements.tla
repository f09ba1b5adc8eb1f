--------------------------- MODULE RSFImplements ---------------------------
(***************************************************************************)
(* The framework implements ReliableService.  A call is pending from       *)
(* request_service on, wherever the request or its results are, and        *)
(* answered once a response is on its way to the client.                   *)
(***************************************************************************)
EXTENDS RSF

Where(c) ==
  IF client[c].status # "waiting" THEN client[c].status
  ELSE IF router_out[c] = <<>> THEN "pending" ELSE "answered"

CallOf(c) ==
  [status |-> Where(c),
   service |-> IF Where(c) = "gone" THEN SERVICE_NOT_FOUND ELSE client[c].service,
   parameters |-> IF Where(c) = "gone" THEN 0 ELSE client[c].parameters,
   answer |-> IF Where(c) = "answered" THEN {Head(router_out[c])} ELSE {}]

Abstract ==
  INSTANCE ReliableService
    WITH call <- [c \in Client |-> CallOf(c)], alive <- (broker = "up"),
         Arguments <- UNION {Parameters[c] : c \in Client}

(* Every step of broker, copies, clients and network is a step of          *)
(* ReliableService or invisible to the clients: NMR-fold execution with a  *)
(* faulty copy, crashes and request timeouts looks like one reliable       *)
(* service that answers each call once.                                    *)
Implements == Abstract!Spec
=============================================================================
