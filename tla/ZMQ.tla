-------------------------------- MODULE ZMQ --------------------------------
(***************************************************************************)
(* What the framework relies on from ZeroMQ: the queues of its sockets and *)
(* the way a DEALER socket deals messages out.  The library is not part of *)
(* the repository; it is modelled from how src/ uses it.                   *)
(*                                                                         *)
(* - A REQ socket (client, Registrator) has one request outstanding; what  *)
(*   still sits in its queue is dropped when it sends the next request.    *)
(* - A ROUTER socket with ZMQ_ROUTER_MANDATORY throws when it is to send   *)
(*   to an identity that has disconnected.                                 *)
(* - A DEALER socket sends each message to one connected peer, in turn,    *)
(*   and (ZMQ_DONTWAIT) drops it when there is none.                       *)
(* - A REP socket has to answer a message before it receives the next one. *)
(***************************************************************************)
EXTENDS Communication

VARIABLES
  connected,   \* clients with an open connection to the ROUTER socket
  router_in,   \* router_in[c]: requests of client c waiting at the ROUTER socket
  router_out,  \* router_out[c]: responses on their way to client c
  reg_req,     \* registrations <<k, live>> waiting at the broker's REG socket;
               \* live: the process of copy k that sent it is still connected
  reg_rep,     \* reg_rep[k]: the port on its way to copy k, or NoReply
  lb,          \* lb[i]: peers of the i-th DEALER socket and whose turn it is
  inbox,       \* inbox[k]: messages on their way to the REP socket of copy k
  outbox       \* outbox[k]: replies of copy k on their way to the broker

netVars == <<connected, router_in, router_out, reg_req, reg_rep, lb, inbox, outbox>>

NoReply == -1

(* A DEALER socket: its peers and the position of the next one to be dealt *)
(* a message.                                                              *)
Socket == [pipes: Seq(Copy), current: Nat \ {0}]

NetTypeOK ==
  /\ connected \subseteq Client
  /\ router_in \in [Client -> Seq(request_module)]
  /\ router_out \in [Client -> Seq(response_module)]
  /\ reg_req \subseteq Copy \X BOOLEAN
  /\ reg_rep \in [Copy -> Nat \cup {NoReply}]
  /\ lb \in Seq(Socket)
  /\ inbox \in [Copy -> Seq(service_module)]
  /\ outbox \in [Copy -> Seq(server_reply_t)]

NetInit ==
  /\ connected = Client
  /\ router_in = [c \in Client |-> <<>>]
  /\ router_out = [c \in Client |-> <<>>]
  /\ reg_req = {}
  /\ reg_rep = [k \in Copy |-> NoReply]
  /\ lb = <<>>
  /\ inbox = [k \in Copy |-> <<>>]
  /\ outbox = [k \in Copy |-> <<>>]

(* How many of n consecutive messages on the i-th DEALER copy k is dealt.  *)
Share(i, k, n) ==
  LET pipes == lb[i].pipes
  IN  IF pipes = <<>> THEN 0
      ELSE Cardinality({j \in 0..(n - 1) :
             pipes[((lb[i].current - 1 + j) % Len(pipes)) + 1] = k})

DealerSend(i, message, n) ==
  IF n = 0 THEN UNCHANGED <<inbox, lb>>
  ELSE /\ inbox' = [k \in Copy |->
                      inbox[k] \o [j \in 1..Share(i, k, n) |-> message]]
       /\ lb' = [lb EXCEPT ![i].current =
                   IF lb[i].pipes = <<>> THEN @
                   ELSE ((@ - 1 + n) % Len(lb[i].pipes)) + 1]

Peers(i) == {lb[i].pipes[x] : x \in DOMAIN lb[i].pipes}

(* A new peer comes last; a peer that leaves is replaced by the last one.  *)
Attached(i, k) == [lb EXCEPT ![i].pipes = Append(@, k)]

Without(socket, k) ==
  LET pipes == socket.pipes
      n == Len(pipes)
      x == CHOOSE y \in DOMAIN pipes : pipes[y] = k
  IN  IF \A y \in DOMAIN pipes : pipes[y] # k THEN socket
      ELSE [pipes |-> [y \in 1..(n - 1) |-> IF y = x THEN pipes[n] ELSE pipes[y]],
            current |-> IF socket.current = n THEN 1 ELSE socket.current]

Detached(k) == [i \in DOMAIN lb |-> Without(lb[i], k)]
=============================================================================
