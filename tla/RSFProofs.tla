----------------------------- MODULE RSFProofs -----------------------------
(***************************************************************************)
(* Proofs about the composition RSF, for any number of services, copies    *)
(* and clients, with and without crashes, faults and the timing assumption *)
(***************************************************************************)
EXTENDS RSF, VoterProofs

-----------------------------------------------------------------------------
(* Operations of the ServiceDatabase *)

(* The record of a first copy.                                             *)
LEMMA FirstCopyType ==
  ASSUME NEW port \in Nat, NEW index \in Nat
  PROVE  /\ FirstCopy(port, index) \in service_record
         /\ FirstCopy(port, index).dealer_socket = port
         /\ FirstCopy(port, index).num_copies_registered
              = FirstCopy(port, index).num_copies_reliable
         /\ FirstCopy(port, index).request_records = {}
BY LivenessAssumption DEF FirstCopy, service_record

(* The record after one more copy has been admitted.                       *)
LEMMA FurtherCopyType ==
  ASSUME NEW r \in service_record,
         r.num_copies_registered = r.num_copies_reliable,
         r.num_copies_registered < NMR
  PROVE  /\ FurtherCopy(r) \in service_record
         /\ FurtherCopy(r).dealer_socket = r.dealer_socket
         /\ FurtherCopy(r).num_copies_registered = FurtherCopy(r).num_copies_reliable
         /\ FurtherCopy(r).request_records = r.request_records
         /\ FurtherCopy(r).seq_id_request = r.seq_id_request
<1>1. r.num_copies_registered + 1 \in 0..255 /\ r.num_copies_reliable + 1 \in 0..255
  BY NMRAssumption DEF service_record
<1> QED
  BY <1>1 DEF FurtherCopy, service_record

(* The record after a request has been numbered and stored.                *)
LEMMA PushRequestType ==
  ASSUME NEW r \in service_record, NEW c \in Client,
         \A q \in r.request_records : q.seq < r.seq_id_request
  PROVE  LET n == push_request([r EXCEPT !.seq_id_request = @ + 1], c)
         IN  /\ n \in service_record
             /\ n.dealer_socket = r.dealer_socket
             /\ n.num_copies_registered = r.num_copies_registered
             /\ n.num_copies_reliable = r.num_copies_reliable
             /\ \A q \in n.request_records : q.seq < n.seq_id_request
<1> DEFINE a == [r EXCEPT !.seq_id_request = @ + 1]
           q == NewRequest(r.seq_id_request, c)
           n == [a EXCEPT !.request_records = @ \cup {q}]
<1>1. a \in service_record /\ a.seq_id_request = r.seq_id_request + 1
      /\ a.request_records = r.request_records
      /\ a.dealer_socket = r.dealer_socket
      /\ a.num_copies_registered = r.num_copies_registered
      /\ a.num_copies_reliable = r.num_copies_reliable
  BY DEF service_record
<1>2. r.seq_id_request \in Nat /\ r.request_records \subseteq request_record_t
  BY DEF service_record
<1>3. q \in request_record_t /\ q.seq = r.seq_id_request
  BY <1>2 DEF NewRequest, request_record_t
<1>4. push_request(a, c) = n
  <2>1. a.seq_id_request - 1 = r.seq_id_request
    BY <1>1, <1>2
  <2> QED
    BY <2>1 DEF push_request
<1> HIDE DEF a, q
<1>5. /\ n \in service_record
      /\ n.dealer_socket = r.dealer_socket
      /\ n.num_copies_registered = r.num_copies_registered
      /\ n.num_copies_reliable = r.num_copies_reliable
      /\ n.request_records = r.request_records \cup {q}
      /\ n.seq_id_request = r.seq_id_request + 1
  BY <1>1, <1>3 DEF service_record
<1>6. \A x \in n.request_records : x.seq \in Nat /\ x.seq < n.seq_id_request
  BY <1>2, <1>3, <1>5 DEF request_record_t
<1> QED
  BY <1>4, <1>5, <1>6 DEF a

(* Deleting only removes records.                                          *)
LEMMA DeleteRequestType ==
  ASSUME NEW R, NEW c
  PROVE  delete_request(R, c) \subseteq R
BY DEF delete_request

(* Storing a result changes results only.                                  *)
LEMMA PushResultType ==
  ASSUME NEW R \in SUBSET request_record_t, NEW c, NEW v \in Int
  PROVE  /\ push_result(R, c, v) \in SUBSET request_record_t
         /\ \A q \in push_result(R, c, v) : \E r \in R : q.seq = r.seq
<1> SUFFICES ASSUME NEW q \in push_result(R, c, v)
             PROVE  q \in request_record_t /\ \E r \in R : q.seq = r.seq
  OBVIOUS
<1>1. PICK r \in R : q = IF r.client_id = c
                         THEN [r EXCEPT !.results = Append(@, v)] ELSE r
  BY DEF push_result
<1>2. r \in request_record_t
  OBVIOUS
<1>3. [r EXCEPT !.results = Append(@, v)] \in request_record_t
      /\ [r EXCEPT !.results = Append(@, v)].seq = r.seq
  BY <1>2 DEF request_record_t
<1> QED
  BY <1>1, <1>2, <1>3

(* The results of the latest request of a client exist.                    *)
LEMMA GetResultType ==
  ASSUME NEW R \in SUBSET request_record_t, NEW c, NEW n \in Nat,
         \A q \in R : q.seq < n
  PROVE  get_result(R, c) \in Seq(Int)
<1> DEFINE M == Matching(R, c)
           Rest == {n - q.seq : q \in M}
<1>1. CASE M = {}
  BY <1>1 DEF get_result
<1>2. CASE M # {}
  <2>1. \A q \in M : q \in request_record_t /\ q.seq \in Nat /\ q.seq < n
    BY DEF Matching, request_record_t
  <2>2. Rest \in SUBSET Nat /\ Rest # {}
    BY <1>2, <2>1
  <2>3. PICK m \in Rest : \A y \in Rest : m <= y
    BY <2>2, LeastNat
  <2>4. PICK q \in M : m = n - q.seq
    BY <2>3
  <2>5. \A x \in M : x.seq <= q.seq
    BY <2>1, <2>3, <2>4
  <2> DEFINE last == CHOOSE r \in M : \A x \in M : x.seq <= r.seq
  <2>6. last \in M
    BY <2>4, <2>5
  <2>7. get_result(R, c) = last.results
    BY <1>2 DEF get_result
  <2> HIDE DEF last
  <2> QED
    BY <2>1, <2>6, <2>7 DEF request_record_t
<1> QED
  BY <1>1, <1>2

(* A pong is registered without touching anything else.                    *)
LEMMA RegisterPongType ==
  ASSUME NEW r \in service_record, NEW id \in CopyId
  PROVE  /\ register_pong(r, id) \in service_record
         /\ register_pong(r, id).dealer_socket = r.dealer_socket
         /\ register_pong(r, id).num_copies_registered = r.num_copies_registered
         /\ register_pong(r, id).num_copies_reliable = r.num_copies_reliable
         /\ register_pong(r, id).request_records = r.request_records
         /\ register_pong(r, id).seq_id_request = r.seq_id_request
BY DEF register_pong, service_record

(* uint8_t arithmetic stays in uint8_t.                                    *)
LEMMA Minus8Type ==
  ASSUME NEW n \in Int, NEW m \in Int
  PROVE  Minus8(n, m) \in 0..255
BY DEF Minus8

(* A heartbeat round keeps lost_pong within -1..LIVENESS and both counters *)
(* equal, wrapped around or not.                                           *)
LEMMA CheckPongType ==
  ASSUME NEW r \in service_record,
         r.num_copies_registered = r.num_copies_reliable
  PROVE  /\ check_pong(r) \in service_record
         /\ check_pong(r).dealer_socket = r.dealer_socket
         /\ check_pong(r).num_copies_registered = check_pong(r).num_copies_reliable
         /\ check_pong(r).request_records = r.request_records
         /\ check_pong(r).seq_id_request = r.seq_id_request
         /\ check_pong(r).seq_id_ping \in Nat
<1> DEFINE U == Cardinality(Unreliable(r))
           lost == [id \in CopyId |->
                      IF id \in PongLost(r) THEN r.lost_pong[id] + 1
                      ELSE IF r.new_pong[id] THEN 0 ELSE r.lost_pong[id]]
<1>1. U \in Nat
  <2>1. Unreliable(r) \in SUBSET CopyId
    BY DEF Unreliable, PongLost
  <2> QED
    BY <2>1, CopyIdAssumption, FS_Subset, FS_CardinalityType
<1>2. lost \in [CopyId -> -1..LIVENESS]
  <2>1. r.lost_pong \in [CopyId -> -1..LIVENESS]
    BY DEF service_record
  <2>2. ASSUME NEW id \in CopyId
        PROVE  lost[id] \in -1..LIVENESS
    <3>1. r.lost_pong[id] \in -1..LIVENESS
      BY <2>1
    <3>2. id \in PongLost(r) => r.lost_pong[id] < LIVENESS
      BY DEF PongLost
    <3> QED
      BY <3>1, <3>2, LivenessAssumption
  <2> QED
    BY <2>2
<1>3. Minus8(r.num_copies_reliable, U) \in 0..255
  <2>1. r.num_copies_reliable \in Int
    BY DEF service_record
  <2>2. U \in Int
    BY <1>1
  <2> QED
    BY <2>1, <2>2, Minus8Type
<1> HIDE DEF U, lost
<1> DEFINE none == [id \in CopyId |-> FALSE]
           n == [r EXCEPT !.lost_pong = lost, !.new_pong = none,
                          !.num_copies_reliable = Minus8(r.num_copies_reliable, U),
                          !.num_copies_registered = Minus8(r.num_copies_registered, U),
                          !.seq_id_ping = @ + 1]
<1>4. check_pong(r) = n
  BY Zenon DEF check_pong, U, lost
<1>5. none \in [CopyId -> BOOLEAN]
  OBVIOUS
<1> DEFINE d == Minus8(r.num_copies_reliable, U)
<1>6. n = [r EXCEPT !.lost_pong = lost, !.new_pong = none,
                    !.num_copies_reliable = d, !.num_copies_registered = d,
                    !.seq_id_ping = @ + 1]
  OBVIOUS
<1>7. d \in 0..255
  BY <1>3
<1> HIDE DEF none, d, n
<1>8. r.seq_id_ping + 1 \in Nat
  BY DEF service_record
<1>9. n \in service_record
  BY <1>2, <1>5, <1>6, <1>7, <1>8 DEF service_record
<1>10. /\ n.dealer_socket = r.dealer_socket
       /\ n.num_copies_registered = n.num_copies_reliable
       /\ n.request_records = r.request_records
       /\ n.seq_id_request = r.seq_id_request
       /\ n.seq_id_ping \in Nat
  BY <1>6, <1>8 DEF service_record
<1> QED
  BY <1>4, <1>9, <1>10

-----------------------------------------------------------------------------
(* DEALER sockets *)

Distinct(pipes) == \A x, y \in DOMAIN pipes : pipes[x] = pipes[y] => x = y

(* A peer is dealt a natural number of n messages.                         *)
LEMMA ShareType ==
  ASSUME NEW i, NEW k, NEW n \in Nat
  PROVE  Share(i, k, n) \in Nat
<1> DEFINE T == {j \in 0..(n - 1) :
                   lb[i].pipes[((lb[i].current - 1 + j) % Len(lb[i].pipes)) + 1] = k}
<1>1. IsFiniteSet(0..(n - 1))
  BY FS_Interval
<1>2. T \in SUBSET (0..(n - 1))
  OBVIOUS
<1>3. Cardinality(T) \in Nat
  <2> HIDE DEF T
  <2> QED
    BY <1>1, <1>2, FS_Subset, FS_CardinalityType
<1> QED
  BY <1>3 DEF Share

(* Dealing out messages keeps the types, and the peers of every socket.    *)
LEMMA DealerSendType ==
  ASSUME inbox \in [Copy -> Seq(service_module)], lb \in Seq(Socket),
         NEW i, NEW m \in service_module, NEW n \in Nat, DealerSend(i, m, n)
  PROVE  /\ inbox' \in [Copy -> Seq(service_module)]
         /\ lb' \in Seq(Socket)
         /\ Len(lb') = Len(lb)
         /\ \A j \in 1..Len(lb) : lb'[j].pipes = lb[j].pipes
<1>1. CASE n = 0
  BY <1>1 DEF DealerSend
<1>2. CASE n # 0
  <2>1. inbox' \in [Copy -> Seq(service_module)]
    <3>1. ASSUME NEW k \in Copy
          PROVE  inbox[k] \o [j \in 1..Share(i, k, n) |-> m] \in Seq(service_module)
      <4>1. Share(i, k, n) \in Nat
        BY ShareType
      <4>2. [j \in 1..Share(i, k, n) |-> m] \in Seq(service_module)
        BY <4>1, IsASeq
      <4> QED
        BY <4>2, ConcatProperties
    <3> QED
      BY <1>2, <3>1 DEF DealerSend
  <2> DEFINE next == IF lb[i].pipes = <<>> THEN lb[i].current
                     ELSE ((lb[i].current - 1 + n) % Len(lb[i].pipes)) + 1
  <2>2. lb' = [lb EXCEPT ![i].current = next]
    BY <1>2 DEF DealerSend
  <2>3. CASE i \in 1..Len(lb)
    <3>1. lb[i] \in Socket
      BY <2>3
    <3>2. next \in Nat \ {0}
      <4>1. lb[i].current \in Nat \ {0} /\ lb[i].pipes \in Seq(Copy)
        BY <3>1 DEF Socket
      <4>2. CASE lb[i].pipes = <<>>
        BY <4>1, <4>2
      <4>3. CASE lb[i].pipes # <<>>
        <5>1. Len(lb[i].pipes) \in Nat \ {0}
          BY <4>1, <4>3, EmptySeq
        <5>2. lb[i].current - 1 + n \in Nat
          BY <4>1
        <5>3. \A x \in Nat, y \in Nat \ {0} : (x % y) + 1 \in Nat \ {0}
          OBVIOUS
        <5> QED
          BY <4>3, <5>1, <5>2, <5>3
      <4> QED
        BY <4>2, <4>3
    <3> HIDE DEF next
    <3>3. [lb[i] EXCEPT !.current = next] \in Socket
          /\ [lb[i] EXCEPT !.current = next].pipes = lb[i].pipes
      BY <3>1, <3>2 DEF Socket
    <3>4. lb' = [lb EXCEPT ![i] = [lb[i] EXCEPT !.current = next]]
      BY <2>2
    <3>5. /\ lb' \in Seq(Socket) /\ Len(lb') = Len(lb)
          /\ \A j \in 1..Len(lb) :
               lb'[j] = IF j = i THEN [lb[i] EXCEPT !.current = next] ELSE lb[j]
      BY <2>3, <3>3, <3>4, ExceptSeq
    <3> QED
      BY <2>1, <3>3, <3>5
  <2>4. CASE i \notin 1..Len(lb)
    <3>1. lb' = lb
      BY <2>2, <2>4
    <3> QED
      BY <2>1, <3>1
  <2> QED
    BY <2>3, <2>4
<1> QED
  BY <1>1, <1>2

(* A peer leaves a socket.                                                 *)
LEMMA WithoutType ==
  ASSUME NEW sk \in Socket, NEW k
  PROVE  LET w == Without(sk, k)
         IN  /\ w \in Socket
             /\ \A y \in DOMAIN w.pipes : \E x \in DOMAIN sk.pipes : w.pipes[y] = sk.pipes[x]
             /\ Distinct(sk.pipes) =>
                  Distinct(w.pipes) /\ \A y \in DOMAIN w.pipes : w.pipes[y] # k
<1> DEFINE w == Without(sk, k)
           p == sk.pipes
           n == Len(p)
           x0 == CHOOSE y \in DOMAIN p : p[y] = k
           rest == [y \in 1..(n - 1) |-> IF y = x0 THEN p[n] ELSE p[y]]
           cur == IF sk.current = n THEN 1 ELSE sk.current
<1>1. p \in Seq(Copy) /\ n \in Nat /\ DOMAIN p = 1..n /\ sk.current \in Nat \ {0}
  BY LenProperties DEF Socket
<1>2. CASE \A y \in DOMAIN p : p[y] # k
  <2>1. w = sk
    BY <1>2 DEF Without
  <2> QED
    BY <1>2, <2>1
<1>3. CASE ~\A y \in DOMAIN p : p[y] # k
  <2>1. w = [pipes |-> rest, current |-> cur]
    BY <1>3 DEF Without
  <2>2. x0 \in 1..n /\ p[x0] = k
    BY <1>1, <1>3
  <2> HIDE DEF x0
  <2>3. n - 1 \in Nat /\ n \in 1..n
    BY <1>1, <2>2
  <2>4. \A y \in 1..(n - 1) : rest[y] = IF y = x0 THEN p[n] ELSE p[y]
    OBVIOUS
  <2>5. rest \in Seq(Copy) /\ DOMAIN rest = 1..(n - 1)
    <3>1. \A y \in 1..n : p[y] \in Copy
      BY <1>1, ElementOfSeq
    <3>2. \A y \in 1..(n - 1) : rest[y] \in Copy
      BY <1>1, <2>3, <2>4, <3>1
    <3>3. rest \in [1..(n - 1) -> Copy]
      BY <3>2
    <3> QED
      BY <2>3, <3>3
  <2>6. cur \in Nat \ {0}
    BY <1>1
  <2> HIDE DEF rest, cur
  <2>7. w \in Socket /\ w.pipes = rest
    BY <2>1, <2>5, <2>6 DEF Socket
  <2>8. \A y \in 1..(n - 1) : \E x \in 1..n : rest[y] = p[x]
    BY <1>1, <2>3, <2>4
  <2>9. Distinct(p) => Distinct(rest) /\ \A y \in 1..(n - 1) : rest[y] # k
    <3> SUFFICES ASSUME Distinct(p)
                 PROVE  Distinct(rest) /\ \A y \in 1..(n - 1) : rest[y] # k
      OBVIOUS
    <3>1. \A x, y \in 1..n : p[x] = p[y] => x = y
      BY <1>1 DEF Distinct
    <3> HIDE DEF p, n
    <3>2. ASSUME NEW y \in 1..(n - 1) PROVE rest[y] # k
      <4>1. y \in 1..n /\ y # n
        BY <1>1
      <4>2. CASE y = x0
        BY <2>2, <2>3, <2>4, <3>1, <4>1, <4>2
      <4>3. CASE y # x0
        BY <2>2, <2>4, <3>1, <4>1, <4>3
      <4> QED
        BY <4>2, <4>3
    <3>3. ASSUME NEW x \in 1..(n - 1), NEW y \in 1..(n - 1), rest[x] = rest[y]
          PROVE  x = y
      <4>1. x \in 1..n /\ x # n /\ y \in 1..n /\ y # n
        BY <1>1
      <4> QED
        BY <2>3, <2>4, <3>1, <3>3, <4>1
    <3> QED
      BY <2>5, <3>2, <3>3 DEF Distinct
  <2>10. /\ w \in Socket
         /\ \A y \in DOMAIN w.pipes : \E x \in DOMAIN p : w.pipes[y] = p[x]
         /\ Distinct(p) => Distinct(w.pipes) /\ \A y \in DOMAIN w.pipes : w.pipes[y] # k
    BY <1>1, <2>5, <2>7, <2>8, <2>9
  <2> QED
    BY <2>10
<1> QED
  BY <1>2, <1>3

-----------------------------------------------------------------------------
(* The inductive invariant *)

(* The two copy counters of a service move together, so that neither       *)
(* leaves uint8_t, and the requests in its table carry numbers that have   *)
(* already been handed out.                                                *)
GoodRecord(r) ==
  /\ r \in service_record
  /\ r.num_copies_registered = r.num_copies_reliable
  /\ \A q \in r.request_records : q.seq < r.seq_id_request

Records == \A s \in Registered : GoodRecord(services_db[s])

(* A copy that is registered has not yet counted LIVENESS lost pings.      *)
LossBound == \A k \in Copy : server[k].reg_ok => server[k].ping_loss < LIVENESS

(* The i-th DEALER socket is bound to the port of the i-th available       *)
(* service.                                                                *)
Tables ==
  /\ Len(dealer) = Len(lb)
  /\ Len(available_services) = Len(lb)
  /\ \A i \in 1..Len(lb) :
       /\ available_services[i] \in Registered
       /\ dealer[i] = services_db[available_services[i]].dealer_socket

(* No two services share a port, and the first to register gets the first. *)
Ports ==
  /\ available_dealer_port >= DEALER_START_PORT
  /\ \A s \in Registered :
       /\ services_db[s].dealer_socket >= DEALER_START_PORT
       /\ services_db[s].dealer_socket < available_dealer_port
       /\ \A t \in Registered :
            services_db[t].dealer_socket = services_db[s].dealer_socket => t = s
  /\ Registered = {} => available_dealer_port = DEALER_START_PORT
  /\ \A s \in Registered :
       Registered = {s} => services_db[s].dealer_socket = DEALER_START_PORT

(* A port that a copy has been sent, or uses, is that of its service.  A   *)
(* broker that replaces another may not know the service yet; if it is the *)
(* only one, it will give it the same port again.                          *)
PortOf(k, port) ==
  IF k[1] \in Registered THEN port = services_db[k[1]].dealer_socket
                         ELSE Service = {k[1]} /\ port = available_dealer_port

PortsKnown ==
  \A k \in Copy :
    /\ reg_rep[k] \notin {NoReply, REG_FAIL} => PortOf(k, reg_rep[k])
    /\ server[k].broker_port # 0 => PortOf(k, server[k].broker_port)

(* The peers of a DEALER socket are live copies that use its port.         *)
Connections ==
  \A i \in 1..Len(lb) :
    /\ Distinct(lb[i].pipes)
    /\ \A x \in DOMAIN lb[i].pipes :
         /\ server[lb[i].pipes[x]].up
         /\ server[lb[i].pipes[x]].broker_port = dealer[i]

Route == Tables /\ Ports /\ PortsKnown /\ Connections

IndInv == TypeOK /\ Records /\ LossBound /\ Route

(* A DEALER socket has copies of its own service for peers.                *)
LEMMA PeersOfService ==
  ASSUME IndInv, NEW i \in DOMAIN lb
  PROVE  /\ i \in DOMAIN available_services
         /\ \A k \in Peers(i) : k[1] = available_services[i]
<1>1. /\ lb \in Seq(Socket) /\ dealer \in Seq(Nat) /\ available_services \in Seq(Service)
      /\ DOMAIN lb = 1..Len(lb) /\ DOMAIN dealer = 1..Len(lb)
      /\ DOMAIN available_services = 1..Len(lb)
  BY LenProperties DEF IndInv, TypeOK, NetTypeOK, BrokerTypeOK, Route, Tables
<1>2. ASSUME NEW k \in Peers(i)
      PROVE  k[1] = available_services[i]
  <2>1. PICK x \in DOMAIN lb[i].pipes : k = lb[i].pipes[x]
    BY DEF Peers
  <2>2. k \in Copy
    <3>1. lb[i] \in Socket
      BY <1>1
    <3>2. lb[i].pipes \in Seq(Copy)
      BY <3>1 DEF Socket
    <3> QED
      BY <2>1, <3>2
  <2>3. server[k].up /\ server[k].broker_port = dealer[i]
    BY <1>1, <2>1 DEF IndInv, Route, Connections
  <2>4. /\ available_services[i] \in Registered
        /\ dealer[i] = services_db[available_services[i]].dealer_socket
    BY <1>1 DEF IndInv, Route, Tables
  <2>5. dealer[i] >= DEALER_START_PORT
    BY <2>4 DEF IndInv, Route, Ports
  <2>6. dealer[i] # 0
    BY <1>1, <2>5 DEF DEALER_START_PORT
  <2>7. PortOf(k, server[k].broker_port)
    BY <2>2, <2>3, <2>6 DEF IndInv, Route, PortsKnown
  <2>8. k[1] \in Registered
    BY <1>1, <2>4, <2>7 DEF IndInv, TypeOK, BrokerTypeOK, Registered, PortOf
  <2> QED
    BY <2>3, <2>4, <2>7, <2>8 DEF IndInv, Route, Ports, PortOf
<1> QED
  BY <1>1, <1>2

(* The invariant implies that copies and sockets agree on the ports.       *)
LEMMA RoutingFromIndInv == IndInv => RoutingSafe
<1> SUFFICES ASSUME IndInv PROVE RoutingSafe
  OBVIOUS
<1>1. \A i \in DOMAIN lb :
        /\ i \in DOMAIN available_services
        /\ \A k \in Peers(i) : k[1] = available_services[i]
  BY PeersOfService
<1>2. ASSUME NEW k \in Copy, NEW i \in DOMAIN available_services,
             k[1] = available_services[i]
      PROVE  server[k].broker_port \in {0, dealer[i]}
  <2>1. i \in 1..Len(lb)
    BY LenProperties DEF IndInv, TypeOK, NetTypeOK, BrokerTypeOK, Route, Tables
  <2>2. /\ available_services[i] \in Registered
        /\ dealer[i] = services_db[available_services[i]].dealer_socket
    BY <2>1 DEF IndInv, Route, Tables
  <2>3. server[k].broker_port # 0 => PortOf(k, server[k].broker_port)
    BY DEF IndInv, Route, PortsKnown
  <2> QED
    BY <1>2, <2>2, <2>3 DEF PortOf
<1> QED
  BY <1>1, <1>2 DEF RoutingSafe

(* The invariant holds at the start.                                       *)
LEMMA InitIndInv == Init => IndInv
<1> SUFFICES ASSUME Init PROVE IndInv
  OBVIOUS
<1>1. NetTypeOK
  BY DEF Init, NetInit, NetTypeOK, NoReply
<1>2. BrokerTypeOK /\ Registered = {}
  BY DEF Init, BrokerInit, BrokerTypeOK, Registered, DEALER_START_PORT
<1>3. ServerTypeOK /\ LossBound
  BY LivenessAssumption DEF Init, ServerInit, ServerTypeOK, Process, Started, LossBound
<1>4. ClientTypeOK
  BY DEF Init, ClientInit, ClientTypeOK
<1>5. Records
  BY <1>2 DEF Records
<1>6. Route
  BY <1>2, LivenessAssumption
     DEF Init, NetInit, BrokerInit, ServerInit, Started, Route, Tables, Ports,
         PortsKnown, Connections, DEALER_START_PORT
<1> QED
  BY <1>1, <1>2, <1>3, <1>4, <1>5, <1>6 DEF IndInv, TypeOK

-----------------------------------------------------------------------------
(* What actions leave alone *)

(* Every registered service keeps its record's port.                       *)
SamePorts ==
  /\ Registered' = Registered
  /\ \A s \in Registered :
       services_db'[s].dealer_socket = services_db[s].dealer_socket

(* The peers of a socket after a step were peers before, still live and    *)
(* still use the same port.                                                *)
FewerPeers ==
  /\ Len(lb') = Len(lb)
  /\ \A i \in 1..Len(lb) :
       /\ Distinct(lb'[i].pipes)
       /\ \A y \in DOMAIN lb'[i].pipes :
            LET k == lb'[i].pipes[y] IN
            /\ \E x \in DOMAIN lb[i].pipes : k = lb[i].pipes[x]
            /\ server'[k].up
            /\ server'[k].broker_port = server[k].broker_port

(* Routing survives every step that binds no socket and connects nobody.   *)
LEMMA RouteFrame ==
  ASSUME Route, SamePorts, FewerPeers,
         UNCHANGED <<dealer, available_services, available_dealer_port>>,
         \A k \in Copy : reg_rep'[k] \in {reg_rep[k], NoReply, REG_FAIL},
         \A k \in Copy :
            \/ server'[k].broker_port \in {server[k].broker_port, 0}
            \/ /\ reg_rep[k] \notin {NoReply, REG_FAIL}
               /\ server'[k].broker_port = reg_rep[k]
  PROVE  Route'
<1>1. Tables'
  BY DEF Route, Tables, SamePorts, FewerPeers
<1>2. Ports'
  BY DEF Route, Ports, SamePorts
<1>3. PortsKnown'
  BY DEF Route, PortsKnown, PortOf, SamePorts
<1>4. Connections'
  BY DEF Route, Connections, FewerPeers
<1> QED
  BY <1>1, <1>2, <1>3, <1>4 DEF Route

(* Replacing the record of a service by a good one.                        *)
LEMMA RecordUpdate ==
  ASSUME BrokerTypeOK, Records, NEW s \in Registered, NEW r, GoodRecord(r),
         r.dealer_socket = services_db[s].dealer_socket,
         services_db' = [services_db EXCEPT ![s] = r]
  PROVE  /\ DOMAIN services_db' \subseteq Service
         /\ services_db' \in [DOMAIN services_db' -> service_record]
         /\ Records'
         /\ SamePorts
<1>1. services_db \in [Registered -> service_record] /\ Registered \subseteq Service
  BY DEF BrokerTypeOK, Registered
<1>2. Registered' = Registered
  BY DEF Registered
<1>3. r \in service_record
  BY DEF GoodRecord
<1>4. services_db' \in [Registered -> service_record]
  BY <1>1, <1>3
<1>5. \A x \in Registered : services_db'[x] = IF x = s THEN r ELSE services_db[x]
  BY <1>1
<1>6. Records'
  BY <1>2, <1>5 DEF Records, GoodRecord
<1> QED
  BY <1>1, <1>2, <1>4, <1>5, <1>6 DEF SamePorts, Registered

(* Nothing changes in the table.                                           *)
LEMMA RecordsFrame ==
  ASSUME Records, UNCHANGED services_db
  PROVE  Records' /\ SamePorts
BY DEF Records, GoodRecord, SamePorts, Registered

(* Nothing changes in the peers.                                           *)
LEMMA PeersFrame ==
  ASSUME Connections, Len(lb') = Len(lb),
         \A i \in 1..Len(lb) : lb'[i].pipes = lb[i].pipes,
         \A k \in Copy : server'[k].up = server[k].up
                         /\ server'[k].broker_port = server[k].broker_port,
         lb \in Seq(Socket)
  PROVE  FewerPeers
<1> SUFFICES ASSUME NEW i \in 1..Len(lb), NEW y \in DOMAIN lb[i].pipes
             PROVE  lb[i].pipes[y] \in Copy
  BY DEF Connections, FewerPeers
<1>1. lb[i] \in Socket
  OBVIOUS
<1>2. lb[i].pipes \in Seq(Copy)
  BY <1>1 DEF Socket
<1> QED
  BY <1>2

-----------------------------------------------------------------------------
(* The broker *)

(* A step of the broker leaves the copies and the clients alone.           *)
LEMMA OthersFrame ==
  ASSUME IndInv, UNCHANGED <<server, client>>
  PROVE  ServerTypeOK' /\ ClientTypeOK' /\ LossBound'
BY DEF IndInv, TypeOK, ServerTypeOK, ClientTypeOK, LossBound

(* A response to a client is queued or lost.                               *)
LEMMA RespondType ==
  ASSUME NetTypeOK, NEW c, NEW m \in response_module, Respond(c, m)
  PROVE  router_out' \in [Client -> Seq(response_module)]
BY DEF NetTypeOK, Respond

(* The port a registration is answered with.                               *)
LEMMA TakeRegistrationType ==
  ASSUME NetTypeOK, NEW k \in Copy, NEW live \in BOOLEAN, NEW port \in Nat,
         TakeRegistration(k, live, port)
  PROVE  /\ reg_req' \subseteq Copy \X BOOLEAN
         /\ reg_rep' \in [Copy -> Nat \cup {NoReply}]
         /\ \A x \in Copy : reg_rep'[x] \in {reg_rep[x], IF x = k THEN port ELSE NoReply}
BY DEF NetTypeOK, TakeRegistration

(* The first copy of a service gets the next free port.                    *)
LEMMA GetFirstRegistrationInv ==
  ASSUME IndInv, UNCHANGED <<server, client>>, NEW k \in Copy, NEW live \in BOOLEAN,
         GetFirstRegistration(k, live)
  PROVE  IndInv'
<1> DEFINE s == k[1]
           port == available_dealer_port
           r == FirstCopy(port, next_dealer_skt_index)
<1>1. s \in Service /\ s \notin Registered
  BY DEF GetFirstRegistration, Copy
<1>2. port \in Nat /\ next_dealer_skt_index \in Nat
      /\ services_db \in [Registered -> service_record] /\ Registered \subseteq Service
  BY DEF IndInv, TypeOK, BrokerTypeOK, Registered
<1>3. GoodRecord(r) /\ r.dealer_socket = port
  BY <1>2, FirstCopyType DEF GoodRecord
<1>4. /\ Registered' = Registered \cup {s}
      /\ services_db' = [x \in Registered \cup {s} |-> IF x = s THEN r ELSE services_db[x]]
  BY DEF GetFirstRegistration, Registered
<1>5. TakeRegistration(k, live, port)
  BY DEF GetFirstRegistration
<1> HIDE DEF r, s
<1>6. services_db' \in [Registered' -> service_record]
  BY <1>2, <1>3, <1>4 DEF GoodRecord
<1>7. services_db'[s] = r /\ \A x \in Registered : services_db'[x] = services_db[x] /\ x # s
  BY <1>1, <1>4
<1>8. NetTypeOK'
  BY <1>2, <1>5, TakeRegistrationType
     DEF IndInv, TypeOK, NetTypeOK, TakeRegistration, GetFirstRegistration
<1>9. BrokerTypeOK'
  BY <1>1, <1>2, <1>4, <1>6
     DEF IndInv, TypeOK, BrokerTypeOK, TakeRegistration, GetFirstRegistration, Registered
<1>10. Records'
  BY <1>3, <1>4, <1>7 DEF IndInv, Records, GoodRecord
<1>11. Route'
  <2>1. Tables'
    BY <1>4, <1>7 DEF IndInv, Route, Tables, GetFirstRegistration
  <2>2. Ports'
    <3>1. available_dealer_port' = port + 1
      BY DEF GetFirstRegistration
    <3>2. \A x \in Registered : services_db[x].dealer_socket \in Nat
      BY <1>2 DEF service_record
    <3> QED
      BY <1>2, <1>3, <1>4, <1>7, <3>1, <3>2
         DEF IndInv, Route, Ports, DEALER_START_PORT
  <2>3. PortsKnown'
    <3>1. ASSUME NEW x \in Copy, NEW p, PortOf(x, p) PROVE PortOf(x, p)'
      <4>1. CASE x[1] \in Registered
        BY <1>4, <1>7, <3>1, <4>1 DEF PortOf
      <4>2. CASE x[1] \notin Registered
        <5>1. x[1] = s /\ p = port
          BY <1>1, <3>1, <4>2 DEF PortOf
        <5> QED
          BY <1>3, <1>4, <1>7, <5>1 DEF PortOf
      <4> QED
        BY <4>1, <4>2
    <3>2. \A p : p = port => PortOf(k, p)'
      BY <1>3, <1>4, <1>7 DEF PortOf, s
    <3>3. \A x \in Copy : reg_rep'[x] \in {reg_rep[x], IF x = k THEN port ELSE NoReply}
      BY <1>2, <1>5, TakeRegistrationType DEF IndInv, TypeOK
    <3>4. \A x \in Copy :
            /\ reg_rep[x] \notin {NoReply, REG_FAIL} => PortOf(x, reg_rep[x])
            /\ server[x].broker_port # 0 => PortOf(x, server[x].broker_port)
      BY DEF IndInv, Route, PortsKnown
    <3> QED
      BY <3>1, <3>2, <3>3, <3>4 DEF PortsKnown
  <2>4. Connections'
    BY DEF IndInv, Route, Connections, GetFirstRegistration
  <2> QED
    BY <2>1, <2>2, <2>3, <2>4 DEF Route
<1> QED
  BY <1>8, <1>9, <1>10, <1>11, OthersFrame DEF IndInv, TypeOK

(* A further copy gets the port of its service; the one that completes the *)
(* group binds a socket to that port.                                      *)
LEMMA GetFurtherRegistrationInv ==
  ASSUME IndInv, UNCHANGED <<server, client>>, NEW k \in Copy, NEW live \in BOOLEAN,
         GetFurtherRegistration(k, live)
  PROVE  IndInv'
<1> DEFINE s == k[1]
           r == FurtherCopy(services_db[s])
           port == services_db[s].dealer_socket
           socket == [pipes |-> <<>>, current |-> 1]
<1>1. s \in Registered
  BY DEF GetFurtherRegistration
<1>2. services_db \in [Registered -> service_record] /\ Registered \subseteq Service
  BY DEF IndInv, TypeOK, BrokerTypeOK, Registered
<1>3. services_db[s] \in service_record /\ GoodRecord(services_db[s])
  BY <1>1, <1>2 DEF IndInv, Records
<1>4. GoodRecord(r) /\ r.dealer_socket = port
  BY <1>3, FurtherCopyType DEF GoodRecord, GetFurtherRegistration
<1>5. /\ services_db' = [services_db EXCEPT ![s] = r]
      /\ TakeRegistration(k, live, r.dealer_socket)
  BY DEF GetFurtherRegistration
<1>6. \/ UNCHANGED <<available_services, dealer, lb>>
      \/ /\ available_services' = Append(available_services, s)
         /\ dealer' = Append(dealer, r.dealer_socket)
         /\ lb' = Append(lb, socket)
  BY DEF GetFurtherRegistration
<1>7. UNCHANGED <<next_dealer_skt_index, available_dealer_port>>
  BY DEF GetFurtherRegistration
<1> HIDE DEF r, s, port
<1>8. port \in Nat /\ s \in Service
  BY <1>1, <1>2, <1>3 DEF port, service_record
<1>9. /\ DOMAIN services_db' \subseteq Service
      /\ services_db' \in [DOMAIN services_db' -> service_record]
      /\ Records'
      /\ SamePorts
  BY <1>1, <1>4, <1>5, RecordUpdate DEF IndInv, TypeOK, port
<1>10. socket \in Socket
  BY DEF Socket
<1>11. /\ lb \in Seq(Socket) /\ dealer \in Seq(Nat)
       /\ available_services \in Seq(Service)
  BY DEF IndInv, TypeOK, NetTypeOK, BrokerTypeOK
<1>12. /\ lb' \in Seq(Socket) /\ dealer' \in Seq(Nat)
       /\ available_services' \in Seq(Service)
  <2> HIDE DEF socket
  <2>1. Append(lb, socket) \in Seq(Socket)
    BY <1>10, <1>11, AppendProperties
  <2>2. Append(dealer, r.dealer_socket) \in Seq(Nat)
    BY <1>4, <1>8, <1>11, AppendProperties
  <2>3. Append(available_services, s) \in Seq(Service)
    BY <1>8, <1>11, AppendProperties
  <2> QED
    BY <1>6, <1>11, <2>1, <2>2, <2>3
<1>13. NetTypeOK'
  BY <1>4, <1>5, <1>8, <1>12, TakeRegistrationType
     DEF IndInv, TypeOK, NetTypeOK, TakeRegistration
<1>14. BrokerTypeOK'
  BY <1>5, <1>7, <1>9, <1>12 DEF IndInv, TypeOK, BrokerTypeOK, TakeRegistration
<1>15. Tables' /\ Connections'
  <2>1. CASE UNCHANGED <<available_services, dealer, lb>>
    BY <1>9, <2>1 DEF IndInv, Route, Tables, Connections, SamePorts
  <2>2. CASE /\ available_services' = Append(available_services, s)
             /\ dealer' = Append(dealer, r.dealer_socket)
             /\ lb' = Append(lb, socket)
    <3> DEFINE n == Len(lb)
    <3>1. n \in Nat /\ Len(dealer) = n /\ Len(available_services) = n
      BY <1>11 DEF IndInv, Route, Tables
    <3> HIDE DEF n
    <3>2. Len(lb') = n + 1 /\ Len(dealer') = n + 1 /\ Len(available_services') = n + 1
      BY <1>4, <1>8, <1>10, <1>11, <2>2, <3>1 DEF n
    <3>3. /\ lb'[n + 1] = socket /\ dealer'[n + 1] = port
          /\ available_services'[n + 1] = s
          /\ \A i \in 1..n : /\ lb'[i] = lb[i] /\ dealer'[i] = dealer[i]
                             /\ available_services'[i] = available_services[i]
      BY <1>4, <1>8, <1>10, <1>11, <2>2, <3>1 DEF n
    <3>4. \A i \in 1..(n + 1) : i \in 1..n \/ i = n + 1
      BY <3>1
    <3>5. Tables'
      <4>1. \A i \in 1..n : /\ available_services[i] \in Registered
                            /\ dealer[i] = services_db[available_services[i]].dealer_socket
        BY DEF IndInv, Route, Tables, n
      <4> QED
        BY <1>1, <1>9, <3>2, <3>3, <3>4, <4>1 DEF Tables, SamePorts, port
    <3>6. Connections'
      <4>1. \A i \in 1..n :
              /\ Distinct(lb[i].pipes)
              /\ \A x \in DOMAIN lb[i].pipes :
                   /\ server[lb[i].pipes[x]].up
                   /\ server[lb[i].pipes[x]].broker_port = dealer[i]
        BY DEF IndInv, Route, Connections, n
      <4>2. DOMAIN socket.pipes = {} /\ Distinct(socket.pipes)
        BY DEF Distinct
      <4> SUFFICES ASSUME NEW i \in 1..(n + 1)
                   PROVE  /\ Distinct(lb'[i].pipes)
                          /\ \A x \in DOMAIN lb'[i].pipes :
                               /\ server'[lb'[i].pipes[x]].up
                               /\ server'[lb'[i].pipes[x]].broker_port = dealer'[i]
        BY <3>2 DEF Connections, Distinct
      <4>3. CASE i \in 1..n
        BY <3>3, <4>1, <4>3
      <4>4. CASE i = n + 1
        BY <3>3, <4>2, <4>4
      <4> QED
        BY <3>4, <4>3, <4>4
    <3> QED
      BY <3>5, <3>6
  <2> QED
    BY <1>6, <2>1, <2>2
<1>16. Ports'
  BY <1>7, <1>9 DEF IndInv, Route, Ports, SamePorts
<1>17. PortsKnown'
  <2>1. ASSUME NEW x \in Copy, NEW p, PortOf(x, p) PROVE PortOf(x, p)'
    BY <1>7, <1>9, <2>1 DEF PortOf, SamePorts
  <2>2. \A p : p = port => PortOf(k, p)'
    BY <1>1, <1>9 DEF PortOf, SamePorts, port, s
  <2>3. \A x \in Copy : reg_rep'[x] \in {reg_rep[x], IF x = k THEN port ELSE NoReply}
    BY <1>4, <1>5, <1>8, TakeRegistrationType DEF IndInv, TypeOK
  <2> QED
    BY <2>1, <2>2, <2>3 DEF IndInv, Route, PortsKnown
<1> QED
  BY <1>9, <1>13, <1>14, <1>15, <1>16, <1>17, OthersFrame DEF IndInv, TypeOK, Route

(* A handler that binds no socket and sends nobody a port: it is enough    *)
(* that it keeps the types and the ports of the table.                     *)
LEMMA BrokerFrame ==
  ASSUME IndInv, UNCHANGED <<server, client>>,
         UNCHANGED <<next_dealer_skt_index, available_dealer_port,
                     available_services, dealer>>,
         NetTypeOK', broker' \in {"up"} \cup Ends,
         DOMAIN services_db' \subseteq Service,
         services_db' \in [DOMAIN services_db' -> service_record],
         Records', SamePorts,
         \A k \in Copy : reg_rep'[k] \in {reg_rep[k], NoReply, REG_FAIL},
         Len(lb') = Len(lb),
         \A i \in 1..Len(lb) : lb'[i].pipes = lb[i].pipes
  PROVE  IndInv'
<1>1. BrokerTypeOK'
  BY DEF IndInv, TypeOK, BrokerTypeOK
<1>2. FewerPeers
  BY PeersFrame DEF IndInv, TypeOK, NetTypeOK, Route
<1>3. Route'
  BY <1>2, RouteFrame DEF IndInv
<1> QED
  BY <1>1, <1>3, OthersFrame DEF IndInv, TypeOK

(* The table as it was.                                                    *)
LEMMA TableFrame ==
  ASSUME IndInv, UNCHANGED services_db
  PROVE  /\ DOMAIN services_db' \subseteq Service
         /\ services_db' \in [DOMAIN services_db' -> service_record]
         /\ Records'
         /\ SamePorts
BY RecordsFrame DEF IndInv, TypeOK, BrokerTypeOK

(* A full group refuses.                                                   *)
LEMMA RefuseRegistrationInv ==
  ASSUME IndInv, UNCHANGED <<server, client>>, NEW k \in Copy, NEW live \in BOOLEAN,
         RefuseRegistration(k, live)
  PROVE  IndInv'
<1>1. REG_FAIL \in Nat
  BY DEF REG_FAIL
<1>2. TakeRegistration(k, live, REG_FAIL)
      /\ UNCHANGED <<services_db, next_dealer_skt_index, available_dealer_port,
                     available_services, dealer, lb>>
  BY DEF RefuseRegistration
<1>3. NetTypeOK' /\ \A x \in Copy : reg_rep'[x] \in {reg_rep[x], NoReply, REG_FAIL}
  BY <1>1, <1>2, TakeRegistrationType DEF IndInv, TypeOK, NetTypeOK, TakeRegistration
<1>4. broker' \in {"up"} \cup Ends
  BY <1>2 DEF IndInv, TypeOK, BrokerTypeOK, TakeRegistration
<1> QED
  BY <1>2, <1>3, <1>4, TableFrame, BrokerFrame

(* Responses are well formed.                                              *)
LEMMA ResponseType ==
  /\ \A v \in Int : Available(v) \in response_module
  /\ \A st \in Status : Failure(st) \in response_module
BY DEF Available, Failure, response_module, Status

(* The value that a successful vote selects is one of the results.         *)
LEMMA VotedType ==
  ASSUME NEW results \in Seq(Int)
  PROVE  (IF vote(results) >= 0 THEN Available(results[vote(results) + 1])
                                ELSE Failure("NOT_RELIABLE")) \in response_module
<1>1. CASE vote(results) >= 0
  <2>1. vote(results) + 1 \in 1..Len(results)
    <3>1. vote(results) # NO_MAJORITY
      BY <1>1 DEF NO_MAJORITY
    <3> QED
      BY <3>1, VoteIndex, LenProperties
  <2>2. results[vote(results) + 1] \in Int
    BY <2>1, ElementOfSeq
  <2> QED
    BY <1>1, <2>2, ResponseType
<1>2. CASE ~(vote(results) >= 0)
  BY <1>2, ResponseType DEF Status
<1> QED
  BY <1>1, <1>2

(* Whether or not the client is still there.                               *)
LEMMA AfterResponseType ==
  ASSUME IndInv, NEW c
  PROVE  AfterResponse(c) \in {"up"} \cup Ends
BY DEF IndInv, TypeOK, BrokerTypeOK, AfterResponse, Ends

(* A request leaves the queue of its client.                               *)
LEMMA TakeRequestType ==
  ASSUME IndInv, NEW c \in Client, TakeRequest(c)
  PROVE  /\ router_in' \in [Client -> Seq(request_module)]
         /\ Head(router_in[c]) \in request_module
<1>1. router_in[c] \in Seq(request_module) /\ router_in[c] # <<>>
  BY DEF IndInv, TypeOK, NetTypeOK, TakeRequest
<1>2. Head(router_in[c]) \in request_module /\ Tail(router_in[c]) \in Seq(request_module)
  BY <1>1
<1> QED
  BY <1>2 DEF IndInv, TypeOK, NetTypeOK, TakeRequest

(* An unknown service is refused.                                          *)
LEMMA GetRequestNotAvailableInv ==
  ASSUME IndInv, UNCHANGED <<server, client>>, NEW c \in Client,
         GetRequestNotAvailable(c)
  PROVE  IndInv'
<1>1. /\ TakeRequest(c) /\ Respond(c, Failure("NOT_AVAILABLE"))
      /\ broker' = AfterResponse(c) /\ UNCHANGED <<services_db, lb, inbox>>
  BY DEF GetRequestNotAvailable
<1>2. Failure("NOT_AVAILABLE") \in response_module
  BY ResponseType DEF Status
<1>3. router_out' \in [Client -> Seq(response_module)]
  BY <1>1, <1>2, RespondType DEF IndInv, TypeOK
<1>4. NetTypeOK'
  BY <1>1, <1>3, TakeRequestType DEF IndInv, TypeOK, NetTypeOK, TakeRequest
<1>5. broker' \in {"up"} \cup Ends
  BY <1>1, AfterResponseType
<1> QED
  BY <1>1, <1>4, <1>5, TableFrame, BrokerFrame DEF TakeRequest

(* A request for a service without a DEALER socket.                        *)
LEMMA GetRequestUndefinedInv ==
  ASSUME IndInv, UNCHANGED <<server, client>>, NEW c \in Client,
         GetRequestUndefined(c)
  PROVE  IndInv'
<1>1. /\ TakeRequest(c) /\ broker' = "undefined"
      /\ UNCHANGED <<services_db, lb, inbox, router_out>>
  BY DEF GetRequestUndefined
<1>2. NetTypeOK'
  BY <1>1, TakeRequestType DEF IndInv, TypeOK, NetTypeOK, TakeRequest
<1>3. broker' \in {"up"} \cup Ends
  BY <1>1 DEF Ends
<1> QED
  BY <1>1, <1>2, <1>3, TableFrame, BrokerFrame DEF TakeRequest

(* A request is dealt to the copies and stored.                            *)
LEMMA GetRequestInv ==
  ASSUME IndInv, UNCHANGED <<server, client>>, NEW c \in Client, GetRequest(c)
  PROVE  IndInv'
<1> DEFINE s == Head(router_in[c]).service
           r == services_db[s]
           n == push_request([r EXCEPT !.seq_id_request = @ + 1], c)
           sm == [heartbeat |-> FALSE, seq_id |-> r.seq_id_request,
                  client |-> c, parameters |-> Head(router_in[c]).parameters]
           i == find_registration(s) + 1
<1>1. /\ TakeRequest(c) /\ find_registration(s) # SERVICE_NOT_FOUND
      /\ DealerSend(i, sm, r.num_copies_reliable)
      /\ services_db' = [services_db EXCEPT ![s] = n]
      /\ UNCHANGED <<broker, router_out>>
  <2>1. TakeRequest(c) /\ find_registration(s) # SERVICE_NOT_FOUND
        /\ UNCHANGED <<broker, router_out>>
    BY DEF GetRequest
  <2>2. DealerSend(i, sm, r.num_copies_reliable)
    BY DEF GetRequest
  <2>3. services_db' = [services_db EXCEPT ![s] = n]
    BY DEF GetRequest
  <2> QED
    BY <2>1, <2>2, <2>3
<1>2. Head(router_in[c]) \in request_module
  BY <1>1, TakeRequestType
<1>3. s \in Registered
  BY <1>1 DEF find_registration
<1>4. GoodRecord(r)
  BY <1>3 DEF IndInv, Records
<1>5. GoodRecord(n) /\ n.dealer_socket = r.dealer_socket
  BY <1>4, PushRequestType DEF GoodRecord
<1> HIDE DEF r
<1>6. sm \in service_module /\ r.num_copies_reliable \in Nat
  <2>1. r.seq_id_request \in Nat /\ r.num_copies_reliable \in Nat
    BY <1>4 DEF GoodRecord, service_record
  <2>2. Head(router_in[c]).parameters \in Int
    BY <1>2 DEF request_module
  <2> QED
    BY <2>1, <2>2 DEF service_module
<1> HIDE DEF sm, n, i
<1>7. /\ DOMAIN services_db' \subseteq Service
      /\ services_db' \in [DOMAIN services_db' -> service_record]
      /\ Records'
      /\ SamePorts
  BY <1>1, <1>3, <1>5, RecordUpdate DEF IndInv, TypeOK, r
<1>8. /\ inbox' \in [Copy -> Seq(service_module)]
      /\ lb' \in Seq(Socket)
      /\ Len(lb') = Len(lb)
      /\ \A j \in 1..Len(lb) : lb'[j].pipes = lb[j].pipes
  BY <1>1, <1>6, DealerSendType DEF IndInv, TypeOK, NetTypeOK
<1>9. NetTypeOK'
  BY <1>1, <1>8, TakeRequestType DEF IndInv, TypeOK, NetTypeOK, TakeRequest
<1>10. broker' \in {"up"} \cup Ends
  BY <1>1 DEF IndInv, TypeOK, BrokerTypeOK
<1> QED
  BY <1>1, <1>7, <1>8, <1>9, <1>10, BrokerFrame DEF TakeRequest

(* A reply leaves the queue of its copy.                                   *)
LEMMA TakeReplyType ==
  ASSUME IndInv, NEW k \in Copy, TakeReply(k)
  PROVE  /\ outbox' \in [Copy -> Seq(server_reply_t)]
         /\ Head(outbox[k]) \in server_reply_t
         /\ k[1] \in Service /\ k[2] \in CopyId
<1>1. outbox[k] \in Seq(server_reply_t) /\ outbox[k] # <<>>
  BY DEF IndInv, TypeOK, NetTypeOK, TakeReply
<1>2. Head(outbox[k]) \in server_reply_t /\ Tail(outbox[k]) \in Seq(server_reply_t)
  BY <1>1
<1> QED
  BY <1>2 DEF IndInv, TypeOK, NetTypeOK, TakeReply, Copy

(* A pong.                                                                 *)
LEMMA GetPongInv ==
  ASSUME IndInv, UNCHANGED <<server, client>>, NEW k \in Copy, GetPong(k)
  PROVE  IndInv'
<1> DEFINE s == k[1]
           r == register_pong(services_db[s], k[2])
<1>1. TakeReply(k) /\ UNCHANGED router_out
  BY DEF GetPong
<1>2. NetTypeOK'
  BY <1>1, TakeReplyType DEF IndInv, TypeOK, NetTypeOK, TakeReply
<1>3. CASE s \in Registered
  <2>1. services_db' = [services_db EXCEPT ![s] = r] /\ UNCHANGED broker
    BY <1>3 DEF GetPong
  <2>2. GoodRecord(services_db[s])
    BY <1>3 DEF IndInv, Records
  <2>3. GoodRecord(r) /\ r.dealer_socket = services_db[s].dealer_socket
    BY <1>1, <2>2, TakeReplyType, RegisterPongType DEF GoodRecord
  <2> HIDE DEF r
  <2>4. /\ DOMAIN services_db' \subseteq Service
        /\ services_db' \in [DOMAIN services_db' -> service_record]
        /\ Records'
        /\ SamePorts
    BY <1>3, <2>1, <2>3, RecordUpdate DEF IndInv, TypeOK
  <2>5. broker' \in {"up"} \cup Ends
    BY <2>1 DEF IndInv, TypeOK, BrokerTypeOK
  <2> QED
    BY <1>1, <1>2, <2>4, <2>5, BrokerFrame DEF TakeReply
<1>4. CASE s \notin Registered
  <2>1. broker' = "exit" /\ UNCHANGED services_db
    BY <1>4 DEF GetPong
  <2>2. broker' \in {"up"} \cup Ends
    BY <2>1 DEF Ends
  <2> QED
    BY <1>1, <1>2, <2>1, <2>2, TableFrame, BrokerFrame DEF TakeReply
<1> QED
  BY <1>3, <1>4

(* The answer to a duplicate is dropped.                                   *)
LEMMA GetDuplicateInv ==
  ASSUME IndInv, UNCHANGED <<server, client>>, NEW k \in Copy, GetDuplicate(k)
  PROVE  IndInv'
<1>1. TakeReply(k) /\ UNCHANGED <<broker, services_db, router_out>>
  BY DEF GetDuplicate
<1>2. NetTypeOK'
  BY <1>1, TakeReplyType DEF IndInv, TypeOK, NetTypeOK, TakeReply
<1>3. broker' \in {"up"} \cup Ends
  BY <1>1 DEF IndInv, TypeOK, BrokerTypeOK
<1> QED
  BY <1>1, <1>2, <1>3, TableFrame, BrokerFrame DEF TakeReply

(* A table of well-formed records.                                         *)
GoodTable(db) ==
  /\ DOMAIN db \subseteq Service
  /\ db \in [DOMAIN db -> service_record]
  /\ \A s \in DOMAIN db : GoodRecord(db[s])

WithRequests(db, s, R) == [db EXCEPT ![s].request_records = R]

(* Replacing the requests of a service by requests with the same numbers.  *)
LEMMA WithRequestsType ==
  ASSUME NEW db, GoodTable(db), NEW s \in DOMAIN db,
         NEW R \in SUBSET request_record_t,
         \A q \in R : \E p \in db[s].request_records : q.seq = p.seq
  PROVE  /\ GoodTable(WithRequests(db, s, R))
         /\ DOMAIN WithRequests(db, s, R) = DOMAIN db
         /\ \A t \in DOMAIN db :
              WithRequests(db, s, R)[t].dealer_socket = db[t].dealer_socket
<1> DEFINE r == db[s]
           n == [r EXCEPT !.request_records = R]
           w == [db EXCEPT ![s] = n]
<1>1. GoodRecord(r) /\ r \in service_record
  BY DEF GoodTable
<1>2. /\ n \in service_record /\ n.dealer_socket = r.dealer_socket
      /\ n.num_copies_registered = r.num_copies_registered
      /\ n.num_copies_reliable = r.num_copies_reliable
      /\ n.request_records = R /\ n.seq_id_request = r.seq_id_request
  BY <1>1 DEF service_record
<1>3. GoodRecord(n)
  BY <1>1, <1>2 DEF GoodRecord
<1>4. WithRequests(db, s, R) = w
  BY DEF WithRequests
<1> HIDE DEF n
<1>5. /\ DOMAIN w = DOMAIN db
      /\ \A t \in DOMAIN db : w[t] = IF t = s THEN n ELSE db[t]
  BY DEF GoodTable
<1>6. w \in [DOMAIN db -> service_record]
  BY <1>2 DEF GoodTable
<1>7. GoodTable(w)
  BY <1>3, <1>5, <1>6 DEF GoodTable
<1> QED
  BY <1>2, <1>4, <1>5, <1>7

(* The table is well formed before and after a step.                       *)
LEMMA GoodTableNow ==
  ASSUME IndInv
  PROVE  GoodTable(services_db)
BY DEF IndInv, TypeOK, BrokerTypeOK, Records, GoodTable, Registered

(* It is enough to know the next table and that it keeps the ports.        *)
LEMMA GoodTableNext ==
  ASSUME NEW db, GoodTable(db), services_db' = db, DOMAIN db = Registered,
         \A t \in Registered : db[t].dealer_socket = services_db[t].dealer_socket
  PROVE  /\ DOMAIN services_db' \subseteq Service
         /\ services_db' \in [DOMAIN services_db' -> service_record]
         /\ Records'
         /\ SamePorts
<1>1. Registered' = DOMAIN db
  BY DEF Registered
<1>2. Records'
  BY <1>1 DEF GoodTable, Records, GoodRecord
<1> QED
  BY <1>1, <1>2 DEF GoodTable, SamePorts

(* A result: the request is answered and deleted, or goes on waiting.      *)
LEMMA GetResultInv ==
  ASSUME IndInv, UNCHANGED <<server, client>>, NEW k \in Copy, GetResult(k)
  PROVE  IndInv'
<1> DEFINE s == k[1]
           reply == Head(outbox[k])
           c == reply.client
           before == services_db[s].request_records
           records == push_result(before, c, reply.result)
           results == get_result(records, c)
           response == IF vote(results) >= 0 THEN Available(results[vote(results) + 1])
                       ELSE Failure("NOT_RELIABLE")
<1>1. TakeReply(k)
  BY DEF GetResult
<1>2. reply.result \in Int
  BY <1>1, TakeReplyType DEF server_reply_t
<1>3. CASE s \notin Registered
  <2>1. broker' = "exit" /\ UNCHANGED <<services_db, router_out>>
    BY <1>3 DEF GetResult
  <2>2. NetTypeOK'
    BY <1>1, <2>1, TakeReplyType DEF IndInv, TypeOK, NetTypeOK, TakeReply
  <2>3. broker' \in {"up"} \cup Ends
    BY <2>1 DEF Ends
  <2> QED
    BY <1>1, <2>1, <2>2, <2>3, TableFrame, BrokerFrame DEF TakeReply
<1>4. CASE s \in Registered
  <2>1. GoodRecord(services_db[s])
    BY <1>4 DEF IndInv, Records
  <2>2. /\ before \in SUBSET request_record_t
        /\ services_db[s].seq_id_request \in Nat
        /\ \A q \in before : q.seq < services_db[s].seq_id_request
    BY <2>1 DEF GoodRecord, service_record
  <2>3. /\ records \in SUBSET request_record_t
        /\ \A q \in records : \E p \in before : q.seq = p.seq
    <3> HIDE DEF before
    <3> QED
      BY <1>2, <2>2, PushResultType
  <2> HIDE DEF records, c
  <2>4. results \in Seq(Int)
    BY <2>2, <2>3, GetResultType
  <2>5. response \in response_module
    <3> HIDE DEF results
    <3> QED
      BY <2>4, VotedType
  <2> HIDE DEF results, response
  <2>6. CASE Answerable(results)
    <3>1. /\ Respond(c, response) /\ broker' = AfterResponse(c)
          /\ services_db' = WithRequests(services_db, s, delete_request(records, c))
      BY <1>4, <2>6 DEF GetResult, WithRequests, records, results, c, response
    <3>2. delete_request(records, c) \subseteq records
      BY DeleteRequestType
    <3>3. /\ DOMAIN services_db' \subseteq Service
          /\ services_db' \in [DOMAIN services_db' -> service_record]
          /\ Records'
          /\ SamePorts
      <4> DEFINE R == delete_request(records, c)
      <4>1. R \in SUBSET request_record_t
            /\ \A q \in R : \E p \in services_db[s].request_records : q.seq = p.seq
        BY <2>3, <3>2
      <4> HIDE DEF R
      <4>2. /\ GoodTable(WithRequests(services_db, s, R))
            /\ DOMAIN WithRequests(services_db, s, R) = Registered
            /\ \A t \in Registered : WithRequests(services_db, s, R)[t].dealer_socket
                                       = services_db[t].dealer_socket
        BY <1>4, <4>1, GoodTableNow, WithRequestsType DEF Registered
      <4> QED
        BY <3>1, <4>2, GoodTableNext DEF R
    <3>4. router_out' \in [Client -> Seq(response_module)]
      BY <2>5, <3>1, RespondType DEF IndInv, TypeOK
    <3>5. NetTypeOK'
      BY <1>1, <3>4, TakeReplyType DEF IndInv, TypeOK, NetTypeOK, TakeReply
    <3>6. broker' \in {"up"} \cup Ends
      BY <3>1, AfterResponseType
    <3> QED
      BY <1>1, <3>3, <3>5, <3>6, BrokerFrame DEF TakeReply
  <2>7. CASE ~Answerable(results)
    <3>1. /\ services_db' = WithRequests(services_db, s, records)
          /\ UNCHANGED <<broker, router_out>>
      BY <1>4, <2>7 DEF GetResult, WithRequests, records, results, c
    <3>2. /\ GoodTable(WithRequests(services_db, s, records))
          /\ DOMAIN WithRequests(services_db, s, records) = Registered
          /\ \A t \in Registered : WithRequests(services_db, s, records)[t].dealer_socket
                                     = services_db[t].dealer_socket
      BY <1>4, <2>3, GoodTableNow, WithRequestsType DEF Registered
    <3>3. /\ DOMAIN services_db' \subseteq Service
          /\ services_db' \in [DOMAIN services_db' -> service_record]
          /\ Records'
          /\ SamePorts
      BY <3>1, <3>2, GoodTableNext
    <3>4. NetTypeOK'
      BY <1>1, <3>1, TakeReplyType DEF IndInv, TypeOK, NetTypeOK, TakeReply
    <3>5. broker' \in {"up"} \cup Ends
      BY <3>1 DEF IndInv, TypeOK, BrokerTypeOK
    <3> QED
      BY <1>1, <3>3, <3>4, <3>5, BrokerFrame DEF TakeReply
  <2> QED
    BY <2>6, <2>7
<1> QED
  BY <1>3, <1>4

(* A heartbeat round.                                                      *)
LEMMA HeartbeatInv ==
  ASSUME IndInv, UNCHANGED <<server, client>>, NEW i \in DOMAIN available_services,
         Heartbeat(i)
  PROVE  IndInv'
<1> DEFINE s == available_services[i]
           r == check_pong(services_db[s])
           ping == [heartbeat |-> TRUE, seq_id |-> r.seq_id_ping,
                    client |-> NoClient, parameters |-> 0]
<1>1. /\ services_db' = [services_db EXCEPT ![s] = r]
      /\ DealerSend(i, ping, r.num_copies_reliable)
      /\ UNCHANGED <<broker, next_dealer_skt_index, available_dealer_port,
                     available_services, dealer, connected, router_in, router_out,
                     reg_req, reg_rep, outbox>>
  BY DEF Heartbeat, HeartbeatTimeout
<1>2. s \in Registered
  BY LenProperties DEF IndInv, TypeOK, BrokerTypeOK, Route, Tables
<1>3. GoodRecord(services_db[s])
  BY <1>2 DEF IndInv, Records
<1>4. GoodRecord(r) /\ r.dealer_socket = services_db[s].dealer_socket
      /\ r.seq_id_ping \in Nat
  BY <1>3, CheckPongType DEF GoodRecord
<1> HIDE DEF r, s
<1>5. r.seq_id_ping \in Nat /\ r.num_copies_reliable \in Nat
  BY <1>4 DEF GoodRecord, service_record
<1>6. ping \in service_module
  BY <1>5 DEF service_module
<1> HIDE DEF ping
<1>7. /\ DOMAIN services_db' \subseteq Service
      /\ services_db' \in [DOMAIN services_db' -> service_record]
      /\ Records'
      /\ SamePorts
  BY <1>1, <1>2, <1>4, RecordUpdate DEF IndInv, TypeOK
<1>8. /\ inbox' \in [Copy -> Seq(service_module)]
      /\ lb' \in Seq(Socket)
      /\ Len(lb') = Len(lb)
      /\ \A j \in 1..Len(lb) : lb'[j].pipes = lb[j].pipes
  BY <1>1, <1>5, <1>6, DealerSendType DEF IndInv, TypeOK, NetTypeOK
<1>9. NetTypeOK' /\ broker' \in {"up"} \cup Ends
  BY <1>1, <1>8 DEF IndInv, TypeOK, NetTypeOK, BrokerTypeOK
<1> QED
  BY <1>1, <1>7, <1>8, <1>9, BrokerFrame

(* A request has expired: it is marked, answered, and deleted from the     *)
(* service that the code computes, registered or not.                      *)
LEMMA CheckPendingRequestInv ==
  ASSUME IndInv, UNCHANGED <<server, client>>, NEW i \in DOMAIN available_services,
         NEW q \in services_db[available_services[i]].request_records,
         CheckPendingRequest(i, q)
  PROVE  IndInv'
<1> DEFINE s == available_services[i]
           c == q.client_id
           e == ExpiredFrom(i)
           R1 == Expire(services_db[s].request_records, q)
           db1 == WithRequests(services_db, s, R1)
           R2 == delete_request(db1[e].request_records, c)
           db2 == WithRequests(db1, e, R2)
           response == IF vote(q.results) >= 0 THEN Available(q.results[vote(q.results) + 1])
                       ELSE Failure("NOT_RELIABLE")
<1>1. /\ Respond(c, response)
      /\ UNCHANGED <<next_dealer_skt_index, available_dealer_port,
                     available_services, dealer, connected, router_in, reg_req,
                     reg_rep, lb, inbox, outbox>>
  BY DEF CheckPendingRequest
<1>2. broker' \in {"up"} \cup Ends
  BY AfterResponseType DEF CheckPendingRequest, Ends
<1>3. s \in Registered
  BY LenProperties DEF IndInv, TypeOK, BrokerTypeOK, Route, Tables
<1>4. GoodRecord(services_db[s])
  BY <1>3 DEF IndInv, Records
<1>5. services_db[s].request_records \in SUBSET request_record_t
      /\ q \in request_record_t /\ q \in services_db[s].request_records
  BY <1>4 DEF GoodRecord, service_record
<1>6. [q EXCEPT !.expired = TRUE] \in request_record_t
      /\ [q EXCEPT !.expired = TRUE].seq = q.seq /\ q.results \in Seq(Int)
  BY <1>5 DEF request_record_t
<1>7. R1 \in SUBSET request_record_t
      /\ \A x \in R1 : \E p \in services_db[s].request_records : x.seq = p.seq
  BY <1>5, <1>6 DEF Expire
<1>8. response \in response_module
  BY <1>6, VotedType
<1>9. router_out' \in [Client -> Seq(response_module)]
  <2> HIDE DEF response
  <2> QED
    BY <1>1, <1>8, RespondType DEF IndInv, TypeOK
<1>10. NetTypeOK'
  BY <1>1, <1>9 DEF IndInv, TypeOK, NetTypeOK
<1>11. services_db' = IF e \in Registered THEN db2 ELSE db1
  BY DEF CheckPendingRequest, WithRequests
<1> HIDE DEF R1, e, s, c
<1>12. /\ GoodTable(db1) /\ DOMAIN db1 = Registered
       /\ \A t \in Registered : db1[t].dealer_socket = services_db[t].dealer_socket
  BY <1>3, <1>7, GoodTableNow, WithRequestsType DEF Registered
<1> HIDE DEF db1
<1>13. CASE e \notin Registered
  <2>1. services_db' = db1
    BY <1>11, <1>13
  <2> QED
    BY <1>1, <1>2, <1>10, <1>12, <2>1, GoodTableNext, BrokerFrame
<1>14. CASE e \in Registered
  <2>1. R2 \subseteq db1[e].request_records
    BY DeleteRequestType
  <2>2. db1[e].request_records \in SUBSET request_record_t
    BY <1>12, <1>14 DEF GoodTable, service_record
  <2>3. R2 \in SUBSET request_record_t
        /\ \A x \in R2 : \E p \in db1[e].request_records : x.seq = p.seq
    BY <2>1, <2>2
  <2> HIDE DEF R2
  <2>4. /\ GoodTable(db2) /\ DOMAIN db2 = Registered
        /\ \A t \in Registered : db2[t].dealer_socket = services_db[t].dealer_socket
    BY <1>12, <1>14, <2>3, WithRequestsType
  <2>5. services_db' = db2
    BY <1>11, <1>14
  <2> HIDE DEF db2
  <2> QED
    BY <1>1, <1>2, <1>10, <2>4, <2>5, GoodTableNext, BrokerFrame
<1> QED
  BY <1>13, <1>14

-----------------------------------------------------------------------------
(* The copies *)

(* A step of the copies that keeps the types and connects nobody.          *)
LEMMA CopyFrame ==
  ASSUME IndInv, UNCHANGED <<brokerVars, client>>, NetTypeOK', ServerTypeOK',
         LossBound', FewerPeers,
         \A k \in Copy : reg_rep'[k] \in {reg_rep[k], NoReply, REG_FAIL},
         \A k \in Copy :
            \/ server'[k].broker_port \in {server[k].broker_port, 0}
            \/ /\ reg_rep[k] \notin {NoReply, REG_FAIL}
               /\ server'[k].broker_port = reg_rep[k]
  PROVE  IndInv'
<1>1. UNCHANGED <<broker, services_db, next_dealer_skt_index, available_dealer_port,
                  available_services, dealer>>
  BY DEF brokerVars
<1>2. BrokerTypeOK' /\ ClientTypeOK'
  BY <1>1 DEF IndInv, TypeOK, BrokerTypeOK, ClientTypeOK
<1>3. Records' /\ SamePorts
  BY <1>1, RecordsFrame DEF IndInv
<1>4. Route'
  BY <1>1, <1>3, RouteFrame DEF IndInv
<1> QED
  BY <1>2, <1>3, <1>4 DEF IndInv, TypeOK

(* One process changes its state.                                          *)
LEMMA ServerUpdate ==
  ASSUME IndInv, NEW k \in Copy, NEW p \in Process,
         p.reg_ok => p.ping_loss < LIVENESS,
         server' = [server EXCEPT ![k] = p]
  PROVE  /\ ServerTypeOK' /\ LossBound'
         /\ \A x \in Copy : server'[x] = IF x = k THEN p ELSE server[x]
<1>1. server \in [Copy -> Process]
  BY DEF IndInv, TypeOK, ServerTypeOK
<1>2. \A x \in Copy : server'[x] = IF x = k THEN p ELSE server[x]
  BY <1>1
<1>3. server' \in [Copy -> Process]
  BY <1>1
<1> QED
  BY <1>2, <1>3 DEF IndInv, LossBound, ServerTypeOK

(* The processes and their connections as they were.                       *)
LEMMA ServerFrame ==
  ASSUME IndInv, UNCHANGED <<server, lb>>
  PROVE  ServerTypeOK' /\ LossBound' /\ FewerPeers
<1>1. FewerPeers
  BY PeersFrame DEF IndInv, TypeOK, NetTypeOK, Route
<1> QED
  BY <1>1 DEF IndInv, TypeOK, ServerTypeOK, LossBound

(* Messages leave the inbox, and replies enter the outbox, of a copy.      *)
LEMMA ReceiveRequestType ==
  ASSUME IndInv, NEW k \in Copy, receive_request(k)
  PROVE  /\ inbox' \in [Copy -> Seq(service_module)]
         /\ Head(inbox[k]) \in service_module
<1>1. inbox[k] \in Seq(service_module) /\ inbox[k] # <<>>
  BY DEF IndInv, TypeOK, NetTypeOK, receive_request, Readable
<1>2. Head(inbox[k]) \in service_module /\ Tail(inbox[k]) \in Seq(service_module)
  BY <1>1
<1> QED
  BY <1>2 DEF IndInv, TypeOK, NetTypeOK, receive_request

(* A reply that is put into the outbox of a copy is well formed.           *)
LEMMA ReplyType ==
  ASSUME IndInv, NEW k \in Copy, NEW m \in server_reply_t, Reply(k, m)
  PROVE  outbox' \in [Copy -> Seq(server_reply_t)]
<1>1. outbox \in [Copy -> Seq(server_reply_t)]
  BY DEF IndInv, TypeOK, NetTypeOK
<1>2. Append(outbox[k], m) \in Seq(server_reply_t)
  BY <1>1, AppendProperties
<1> QED
  BY <1>1, <1>2 DEF Reply

(* The answers that need no thread: a pong, and "duplicated".              *)
LEMMA AnswerAtOnceInv ==
  ASSUME IndInv, UNCHANGED <<brokerVars, client>>, NEW k \in Copy,
         PongBroker(k) \/ DuplicateRequest(k)
  PROVE  IndInv'
<1>1. /\ receive_request(k)
      /\ UNCHANGED <<server, connected, router_in, router_out, reg_req, reg_rep, lb>>
      /\ \E h, d \in BOOLEAN :
           Reply(k, [heartbeat |-> h, duplicated |-> d, result |-> 0,
                     client |-> Head(inbox[k]).client])
  BY DEF PongBroker, DuplicateRequest
<1>2. PICK h \in BOOLEAN, d \in BOOLEAN :
        Reply(k, [heartbeat |-> h, duplicated |-> d, result |-> 0,
                  client |-> Head(inbox[k]).client])
  BY <1>1
<1>3. Head(inbox[k]).client \in Client \cup {NoClient}
  BY <1>1, ReceiveRequestType DEF service_module
<1>4. [heartbeat |-> h, duplicated |-> d, result |-> 0,
       client |-> Head(inbox[k]).client] \in server_reply_t
  BY <1>3 DEF server_reply_t
<1>5. outbox' \in [Copy -> Seq(server_reply_t)]
  BY <1>2, <1>4, ReplyType
<1>6. NetTypeOK'
  BY <1>1, <1>5, ReceiveRequestType DEF IndInv, TypeOK, NetTypeOK
<1> QED
  BY <1>1, <1>6, ServerFrame, CopyFrame

(* A copy changes its state, neither its connections nor its port.         *)
LEMMA SameConnections ==
  ASSUME IndInv, NEW k \in Copy, NEW p \in Process, UNCHANGED lb,
         p.up = server[k].up, p.broker_port = server[k].broker_port,
         p.reg_ok => p.ping_loss < LIVENESS,
         server' = [server EXCEPT ![k] = p]
  PROVE  /\ ServerTypeOK' /\ LossBound' /\ FewerPeers
         /\ \A x \in Copy : server'[x].broker_port = server[x].broker_port
<1>1. /\ ServerTypeOK' /\ LossBound'
      /\ \A x \in Copy : server'[x] = IF x = k THEN p ELSE server[x]
  BY ServerUpdate
<1>2. FewerPeers
  BY <1>1, PeersFrame DEF IndInv, TypeOK, NetTypeOK, Route
<1> QED
  BY <1>1, <1>2

(* A request is accepted.                                                  *)
LEMMA CreateThreadInv ==
  ASSUME IndInv, UNCHANGED <<brokerVars, client>>, NEW k \in Copy, CreateThread(k)
  PROVE  IndInv'
<1> DEFINE m == Head(inbox[k])
           p == [server[k] EXCEPT !.request_id = Expected(k) + 1, !.busy = TRUE,
                                  !.client = m.client, !.parameters = m.parameters]
<1>1. /\ receive_request(k) /\ m.seq_id = Expected(k) /\ ~m.heartbeat
      /\ server' = [server EXCEPT ![k] = p]
      /\ UNCHANGED <<connected, router_in, router_out, reg_req, reg_rep, lb, outbox>>
  BY DEF CreateThread
<1>2. m \in service_module /\ inbox' \in [Copy -> Seq(service_module)]
  BY <1>1, ReceiveRequestType
<1>3. server[k] \in Process /\ (server[k].reg_ok => server[k].ping_loss < LIVENESS)
  BY DEF IndInv, TypeOK, ServerTypeOK, LossBound
<1>4. Expected(k) + 1 \in Nat
  BY <1>1, <1>2 DEF service_module
<1>5. m.client \in Client \cup {NoClient} /\ m.parameters \in Int
  BY <1>2 DEF service_module
<1> HIDE DEF m
<1>6. /\ p \in Process /\ p.up = server[k].up /\ p.broker_port = server[k].broker_port
      /\ p.reg_ok = server[k].reg_ok /\ p.ping_loss = server[k].ping_loss
  BY <1>3, <1>4, <1>5 DEF Process
<1> HIDE DEF p
<1>7. NetTypeOK'
  BY <1>1, <1>2 DEF IndInv, TypeOK, NetTypeOK
<1> QED
  BY <1>1, <1>3, <1>6, <1>7, SameConnections, CopyFrame

(* What a thread computes.                                                 *)
LEMMA ResultType ==
  ASSUME NEW k \in Copy, NEW p \in Int
  PROVE  Result(k, p) \subseteq Int
<1>1. k[1] \in {INCREMENT, DECREMENT, MULTIPLY2}
  BY ServiceAssumption DEF Copy
<1>2. service_body(k[1], p) \in Int
  BY <1>1 DEF service_body, INCREMENT, DECREMENT, MULTIPLY2
<1> QED
  BY <1>2, FaultAssumption DEF Result

(* The answer of a request thread is well formed.                          *)
LEMMA AnswerType ==
  ASSUME IndInv, NEW k \in Copy, NEW v \in Int, Answer(k, v)
  PROVE  outbox' \in [Copy -> Seq(server_reply_t)]
<1>1. server[k].client \in Client \cup {NoClient}
  BY DEF IndInv, TypeOK, ServerTypeOK, Process
<1>2. [heartbeat |-> FALSE, duplicated |-> FALSE, result |-> v,
       client |-> server[k].client] \in server_reply_t
  BY <1>1 DEF server_reply_t
<1> QED
  BY <1>2, ReplyType DEF Answer

(* A process without a request.                                            *)
LEMMA IdleType ==
  ASSUME NEW p \in Process
  PROVE  /\ Idle(p) \in Process /\ Idle(p).up = p.up
         /\ Idle(p).broker_port = p.broker_port /\ Idle(p).reg_ok = p.reg_ok
         /\ Idle(p).ping_loss = p.ping_loss /\ Idle(p).orphans = p.orphans
<1>1. Idle(p) \in Process
  <2>1. [p EXCEPT !.busy = FALSE] \in Process
    BY DEF Process
  <2>2. \A q \in Process : [q EXCEPT !.client = NoClient] \in Process
    BY DEF Process
  <2>3. \A q \in Process : [q EXCEPT !.parameters = 0] \in Process
    BY DEF Process
  <2>4. Idle(p) = [[[p EXCEPT !.busy = FALSE] EXCEPT !.client = NoClient]
                      EXCEPT !.parameters = 0]
    BY DEF Idle
  <2> QED
    BY <2>1, <2>2, <2>3, <2>4
<1>2. Idle(p).up = p.up /\ Idle(p).broker_port = p.broker_port
  BY DEF Idle, Process
<1>3. Idle(p).reg_ok = p.reg_ok /\ Idle(p).ping_loss = p.ping_loss
  BY DEF Idle, Process
<1>4. Idle(p).orphans = p.orphans
  BY DEF Idle, Process
<1> QED
  BY <1>1, <1>2, <1>3, <1>4

(* A thread answers.                                                       *)
LEMMA TaskDoneInv ==
  ASSUME IndInv, UNCHANGED <<brokerVars, client>>, NEW k \in Copy, TaskDone(k)
  PROVE  IndInv'
<1>1. server[k] \in Process /\ (server[k].reg_ok => server[k].ping_loss < LIVENESS)
  BY DEF IndInv, TypeOK, ServerTypeOK, LossBound
<1>2. PICK v \in Result(k, server[k].parameters) : Answer(k, v)
  BY DEF TaskDone
<1>3. v \in Int
  BY <1>1, ResultType DEF Process
<1>4. outbox' \in [Copy -> Seq(server_reply_t)]
  BY <1>2, <1>3, AnswerType
<1>5. /\ server' = [server EXCEPT ![k] = Idle(server[k])]
      /\ UNCHANGED <<connected, router_in, router_out, reg_req, reg_rep, lb, inbox>>
  BY DEF TaskDone
<1>6. NetTypeOK'
  BY <1>4, <1>5 DEF IndInv, TypeOK, NetTypeOK
<1> QED
  BY <1>1, <1>5, <1>6, IdleType, SameConnections, CopyFrame

(* A thread answers on a socket that is no longer its own.                 *)
LEMMA OrphanAnswersInv ==
  ASSUME IndInv, UNCHANGED <<brokerVars, client>>, NEW k \in Copy, OrphanAnswers(k)
  PROVE  IndInv'
<1>1. server[k] \in Process /\ (server[k].reg_ok => server[k].ping_loss < LIVENESS)
  BY DEF IndInv, TypeOK, ServerTypeOK, LossBound
<1>2. PICK x \in server[k].orphans :
        /\ \E v \in Result(k, x) : Answer(k, v)
        /\ server' = [server EXCEPT ![k] =
             [Idle(server[k]) EXCEPT !.orphans = (@ \ {x}) \cup {server[k].parameters}]]
  BY DEF OrphanAnswers
<1> DEFINE left == (Idle(server[k]).orphans \ {x}) \cup {server[k].parameters}
           p == [Idle(server[k]) EXCEPT !.orphans = left]
<1>3. x \in Int /\ server[k].parameters \in Int /\ server[k].orphans \subseteq Int
  BY <1>1 DEF Process
<1>4. left \in SUBSET Int
  BY <1>1, <1>3, IdleType
<1>5. server' = [server EXCEPT ![k] = p]
  BY <1>2
<1> HIDE DEF left
<1>6. /\ Idle(server[k]) \in Process /\ Idle(server[k]).up = server[k].up
      /\ Idle(server[k]).broker_port = server[k].broker_port
      /\ Idle(server[k]).reg_ok = server[k].reg_ok
      /\ Idle(server[k]).ping_loss = server[k].ping_loss
  BY <1>1, IdleType
<1>7. /\ p \in Process /\ p.up = server[k].up /\ p.broker_port = server[k].broker_port
      /\ p.reg_ok = server[k].reg_ok /\ p.ping_loss = server[k].ping_loss
  BY <1>4, <1>6 DEF Process
<1> HIDE DEF p
<1>8. PICK v \in Result(k, x) : Answer(k, v)
  BY <1>2
<1>9. outbox' \in [Copy -> Seq(server_reply_t)]
  BY <1>3, <1>8, ResultType, AnswerType
<1>10. UNCHANGED <<connected, router_in, router_out, reg_req, reg_rep, lb, inbox>>
  BY DEF OrphanAnswers
<1>11. NetTypeOK'
  BY <1>9, <1>10 DEF IndInv, TypeOK, NetTypeOK
<1> QED
  BY <1>1, <1>5, <1>7, <1>10, <1>11, SameConnections, CopyFrame

(* The process that never was.                                             *)
LEMMA StartedType ==
  /\ Started \in Process
  /\ [Started EXCEPT !.up = FALSE] \in Process
  /\ Started.broker_port = 0 /\ [Started EXCEPT !.up = FALSE].broker_port = 0
  /\ Started.reg_ok = FALSE /\ [Started EXCEPT !.up = FALSE].reg_ok = FALSE
<1>1. 0 \in 0..LIVENESS
  BY LivenessAssumption
<1>2. Started \in Process /\ Started.broker_port = 0 /\ Started.reg_ok = FALSE
  BY <1>1 DEF Started, Process
<1>3. \A p \in Process :
        /\ [p EXCEPT !.up = FALSE] \in Process
        /\ [p EXCEPT !.up = FALSE].broker_port = p.broker_port
        /\ [p EXCEPT !.up = FALSE].reg_ok = p.reg_ok
  BY DEF Process
<1> QED
  BY <1>2, <1>3

(* A copy loses its connections; those of the others stay.                 *)
LEMMA DetachedType ==
  ASSUME IndInv, NEW k \in Copy, lb' = Detached(k),
         \A x \in Copy \ {k} : /\ server'[x].up = server[x].up
                               /\ server'[x].broker_port = server[x].broker_port
  PROVE  lb' \in Seq(Socket) /\ FewerPeers
<1>1. lb \in Seq(Socket) /\ DOMAIN lb = 1..Len(lb) /\ Len(lb) \in Nat
  BY LenProperties DEF IndInv, TypeOK, NetTypeOK
<1>2. ASSUME NEW i \in 1..Len(lb)
      PROVE  /\ lb'[i] \in Socket
             /\ Distinct(lb'[i].pipes)
             /\ \A y \in DOMAIN lb'[i].pipes :
                  /\ \E x \in DOMAIN lb[i].pipes : lb'[i].pipes[y] = lb[i].pipes[x]
                  /\ server'[lb'[i].pipes[y]].up
                  /\ server'[lb'[i].pipes[y]].broker_port
                       = server[lb'[i].pipes[y]].broker_port
  <2>1. lb[i] \in Socket
    BY <1>1
  <2>2. lb'[i] = Without(lb[i], k)
    BY <1>1 DEF Detached
  <2>3. /\ Distinct(lb[i].pipes)
        /\ \A x \in DOMAIN lb[i].pipes : server[lb[i].pipes[x]].up
    BY DEF IndInv, Route, Connections
  <2>4. /\ lb'[i] \in Socket /\ Distinct(lb'[i].pipes)
        /\ \A y \in DOMAIN lb'[i].pipes :
             /\ \E x \in DOMAIN lb[i].pipes : lb'[i].pipes[y] = lb[i].pipes[x]
             /\ lb'[i].pipes[y] # k
    BY <2>1, <2>2, <2>3, WithoutType
  <2>5. \A x \in DOMAIN lb[i].pipes : lb[i].pipes[x] \in Copy
    <3>1. lb[i].pipes \in Seq(Copy)
      BY <2>1 DEF Socket
    <3> QED
      BY <3>1
  <2> QED
    BY <2>3, <2>4, <2>5
<1>3. lb' \in Seq(Socket) /\ Len(lb') = Len(lb)
  <2>1. lb' = [i \in 1..Len(lb) |-> Without(lb[i], k)]
    BY <1>1 DEF Detached
  <2>2. \A i \in 1..Len(lb) : Without(lb[i], k) \in Socket
    BY <1>2, <2>1
  <2> QED
    BY <1>1, <2>1, <2>2, IsASeq, LenProperties
<1> QED
  BY <1>2, <1>3 DEF FewerPeers

(* The process of a copy ends.                                             *)
LEMMA DiesInv ==
  ASSUME IndInv, UNCHANGED <<brokerVars, client>>, NEW k \in Copy, Dies(k)
  PROVE  IndInv'
<1> DEFINE p == [Started EXCEPT !.up = FALSE]
<1>1. server' = [server EXCEPT ![k] = p] /\ lb' = Detached(k)
  BY DEF Dies
<1>2. p \in Process /\ p.broker_port = 0 /\ p.reg_ok = FALSE
  BY StartedType
<1> HIDE DEF p
<1>3. /\ ServerTypeOK' /\ LossBound'
      /\ \A x \in Copy : server'[x] = IF x = k THEN p ELSE server[x]
  BY <1>1, <1>2, ServerUpdate
<1>4. lb' \in Seq(Socket) /\ FewerPeers
  BY <1>1, <1>3, DetachedType
<1>5. inbox' \in [Copy -> Seq(service_module)]
  BY DEF Dies, IndInv, TypeOK, NetTypeOK
<1>6. outbox' \in [Copy -> Seq(server_reply_t)]
  <2>1. PICK n \in 0..Len(outbox[k]) : outbox' = [outbox EXCEPT ![k] = SubSeq(@, 1, n)]
    BY DEF Dies
  <2>2. outbox \in [Copy -> Seq(server_reply_t)]
    BY DEF IndInv, TypeOK, NetTypeOK
  <2>3. SubSeq(outbox[k], 1, n) \in Seq(server_reply_t)
    BY <2>2
  <2> QED
    BY <2>1, <2>2, <2>3
<1>7. /\ reg_req' \subseteq Copy \X BOOLEAN
      /\ reg_rep' \in [Copy -> Nat \cup {NoReply}]
      /\ \A x \in Copy : reg_rep'[x] \in {reg_rep[x], NoReply, REG_FAIL}
  <2>1. reg_req' \subseteq reg_req \cup {<<k, FALSE>>}
    BY DEF Dies
  <2>2. <<k, FALSE>> \in Copy \X BOOLEAN
    OBVIOUS
  <2>3. reg_req' \subseteq Copy \X BOOLEAN
    BY <2>1, <2>2 DEF IndInv, TypeOK, NetTypeOK
  <2> QED
    BY <2>3 DEF Dies, IndInv, TypeOK, NetTypeOK
<1>8. NetTypeOK'
  BY <1>4, <1>5, <1>6, <1>7 DEF Dies, IndInv, TypeOK, NetTypeOK
<1> QED
  BY <1>2, <1>3, <1>4, <1>7, <1>8, CopyFrame

(* A new process for a copy that had none.                                 *)
LEMMA RelaunchInv ==
  ASSUME IndInv, UNCHANGED <<brokerVars, client>>, NEW k \in Copy, Relaunch(k)
  PROVE  IndInv'
<1>1. ~server[k].up /\ server' = [server EXCEPT ![k] = Started] /\ UNCHANGED netVars
  BY DEF Relaunch
<1>2. /\ ServerTypeOK' /\ LossBound'
      /\ \A x \in Copy : server'[x] = IF x = k THEN Started ELSE server[x]
  BY <1>1, StartedType, ServerUpdate
<1>3. UNCHANGED <<connected, router_in, router_out, reg_req, reg_rep, lb, inbox, outbox>>
  BY <1>1 DEF netVars
<1>4. NetTypeOK'
  BY <1>3 DEF IndInv, TypeOK, NetTypeOK
<1>5. FewerPeers
  <2>1. lb \in Seq(Socket)
    BY DEF IndInv, TypeOK, NetTypeOK
  <2>2. ASSUME NEW i \in 1..Len(lb), NEW y \in DOMAIN lb[i].pipes
        PROVE  lb[i].pipes[y] \in Copy /\ lb[i].pipes[y] # k
    <3>1. lb[i] \in Socket
      BY <2>1
    <3>2. lb[i].pipes \in Seq(Copy)
      BY <3>1 DEF Socket
    <3>3. server[lb[i].pipes[y]].up
      BY DEF IndInv, Route, Connections
    <3> QED
      BY <1>1, <3>2, <3>3
  <2> QED
    BY <1>2, <1>3, <2>2 DEF FewerPeers, IndInv, Route, Connections
<1> QED
  BY <1>2, <1>3, <1>4, <1>5, StartedType, CopyFrame

(* A registration is sent.                                                 *)
LEMMA SendRegistrationInv ==
  ASSUME IndInv, UNCHANGED <<brokerVars, client>>, NEW k \in Copy, SendRegistration(k)
  PROVE  IndInv'
<1> DEFINE p == [server[k] EXCEPT !.send_reg = TRUE]
<1>1. /\ server' = [server EXCEPT ![k] = p] /\ reg_req' = reg_req \cup {<<k, TRUE>>}
      /\ UNCHANGED <<connected, router_in, router_out, reg_rep, lb, inbox, outbox>>
  BY DEF SendRegistration
<1>2. server[k] \in Process /\ (server[k].reg_ok => server[k].ping_loss < LIVENESS)
  BY DEF IndInv, TypeOK, ServerTypeOK, LossBound
<1>3. /\ p \in Process /\ p.up = server[k].up /\ p.broker_port = server[k].broker_port
      /\ p.reg_ok = server[k].reg_ok /\ p.ping_loss = server[k].ping_loss
  BY <1>2 DEF Process
<1> HIDE DEF p
<1>4. NetTypeOK'
  <2>1. <<k, TRUE>> \in Copy \X BOOLEAN
    OBVIOUS
  <2>2. reg_req' \subseteq Copy \X BOOLEAN
    BY <1>1, <2>1 DEF IndInv, TypeOK, NetTypeOK
  <2> QED
    BY <1>1, <2>2 DEF IndInv, TypeOK, NetTypeOK
<1> QED
  BY <1>1, <1>2, <1>3, <1>4, SameConnections, CopyFrame

(* The port arrives and a new socket is created.                           *)
LEMMA RegistrationOkInv ==
  ASSUME IndInv, UNCHANGED <<brokerVars, client>>, NEW k \in Copy, RegistrationOk(k)
  PROVE  IndInv'
<1> DEFINE orphans == IF server[k].busy
                      THEN Idle(server[k]).orphans \cup {server[k].parameters}
                      ELSE Idle(server[k]).orphans
           p == [Idle(server[k]) EXCEPT !.reg_ok = TRUE, !.send_reg = FALSE,
                   !.ping_loss = 0, !.broker_port = reg_rep[k], !.orphans = orphans]
<1>1. /\ server' = [server EXCEPT ![k] = p] /\ lb' = Detached(k)
      /\ reg_rep[k] \notin {NoReply, REG_FAIL}
      /\ reg_rep' = [reg_rep EXCEPT ![k] = NoReply]
      /\ inbox' = [inbox EXCEPT ![k] = <<>>]
      /\ UNCHANGED <<connected, router_in, router_out, reg_req, outbox>>
  BY DEF RegistrationOk
<1>2. server[k] \in Process /\ reg_rep[k] \in Nat
  BY <1>1 DEF IndInv, TypeOK, ServerTypeOK, NetTypeOK
<1>3. orphans \in SUBSET Int
  BY <1>2, IdleType DEF Process
<1> HIDE DEF orphans
<1> DEFINE q == [Idle(server[k]) EXCEPT !.reg_ok = TRUE, !.send_reg = FALSE]
<1>4. q \in Process
  BY <1>2, IdleType DEF Process
<1>5. p = [q EXCEPT !.ping_loss = 0, !.broker_port = reg_rep[k], !.orphans = orphans]
  OBVIOUS
<1>6. q.reg_ok = TRUE
  BY <1>2, IdleType DEF Process
<1> HIDE DEF q, p
<1>7. /\ p \in Process /\ p.ping_loss = 0 /\ p.broker_port = reg_rep[k]
  <2>1. 0 \in 0..LIVENESS
    BY LivenessAssumption
  <2> DEFINE q1 == [q EXCEPT !.ping_loss = 0]
             q2 == [q1 EXCEPT !.broker_port = reg_rep[k]]
             q3 == [q2 EXCEPT !.orphans = orphans]
  <2>2. q1 \in Process /\ q1.ping_loss = 0
    BY <1>4, <2>1 DEF Process
  <2>3. p = [q1 EXCEPT !.broker_port = reg_rep[k], !.orphans = orphans]
    BY <1>5
  <2> HIDE DEF q1
  <2>4. q2 \in Process /\ q2.ping_loss = 0 /\ q2.broker_port = reg_rep[k]
    BY <1>2, <2>2 DEF Process
  <2>5. p = [q2 EXCEPT !.orphans = orphans]
    BY <2>3
  <2> HIDE DEF q2
  <2>6. q3 \in Process /\ q3.ping_loss = 0 /\ q3.broker_port = reg_rep[k]
    BY <1>3, <2>4 DEF Process
  <2> QED
    BY <2>5, <2>6
<1>8. /\ ServerTypeOK' /\ LossBound'
      /\ \A x \in Copy : server'[x] = IF x = k THEN p ELSE server[x]
  <2>1. p.ping_loss < LIVENESS
    BY <1>7, LivenessAssumption
  <2> QED
    BY <1>1, <1>7, <2>1, ServerUpdate
<1>9. lb' \in Seq(Socket) /\ FewerPeers
  BY <1>1, <1>8, DetachedType
<1>10. NetTypeOK' /\ \A x \in Copy : reg_rep'[x] \in {reg_rep[x], NoReply, REG_FAIL}
  BY <1>1, <1>9 DEF IndInv, TypeOK, NetTypeOK
<1> QED
  BY <1>1, <1>7, <1>8, <1>9, <1>10, CopyFrame

(* A ping is missed: LossBound keeps ping_loss from going past LIVENESS.   *)
LEMMA PingTimeoutInv ==
  ASSUME IndInv, UNCHANGED <<brokerVars, client>>, NEW k \in Copy, PingTimeout(k)
  PROVE  IndInv'
<1> DEFINE loss == server[k].ping_loss + 1
           p == [server[k] EXCEPT !.ping_loss = @ + 1,
                                  !.reg_ok = server[k].ping_loss + 1 # LIVENESS]
<1>1. /\ server' = [server EXCEPT ![k] = p] /\ server[k].reg_ok /\ UNCHANGED netVars
  BY DEF PingTimeout
<1>2. server[k] \in Process /\ (server[k].reg_ok => server[k].ping_loss < LIVENESS)
  BY DEF IndInv, TypeOK, ServerTypeOK, LossBound
<1>3. server[k].ping_loss \in 0..LIVENESS /\ loss \in 0..LIVENESS
  BY <1>1, <1>2, LivenessAssumption DEF Process
<1>4. /\ p \in Process /\ p.up = server[k].up /\ p.broker_port = server[k].broker_port
      /\ p.reg_ok = (loss # LIVENESS) /\ p.ping_loss = loss
  BY <1>2, <1>3 DEF Process
<1> HIDE DEF p, loss
<1>5. p.reg_ok => p.ping_loss < LIVENESS
  <2>1. p.reg_ok => loss # LIVENESS
    BY <1>4, Zenon
  <2>2. loss # LIVENESS => loss < LIVENESS
    BY <1>3, LivenessAssumption
  <2> QED
    BY <1>4, <2>1, <2>2
<1>6. UNCHANGED <<connected, router_in, router_out, reg_req, reg_rep, lb, inbox, outbox>>
  BY <1>1 DEF netVars
<1>7. NetTypeOK'
  BY <1>6 DEF IndInv, TypeOK, NetTypeOK
<1> QED
  BY <1>1, <1>4, <1>5, <1>6, <1>7, SameConnections, CopyFrame

-----------------------------------------------------------------------------
(* The clients *)

(* A step of the clients reaches neither the copies nor the broker.        *)
LEMMA ClientFrame ==
  ASSUME IndInv, UNCHANGED <<brokerVars, server>>, ClientTypeOK',
         connected' \subseteq Client,
         router_in' \in [Client -> Seq(request_module)],
         router_out' \in [Client -> Seq(response_module)],
         UNCHANGED <<reg_req, reg_rep, lb, inbox, outbox>>
  PROVE  IndInv'
<1>1. UNCHANGED <<broker, services_db, next_dealer_skt_index, available_dealer_port,
                  available_services, dealer>>
  BY DEF brokerVars
<1>2. BrokerTypeOK' /\ NetTypeOK'
  BY <1>1 DEF IndInv, TypeOK, BrokerTypeOK, NetTypeOK
<1>3. ServerTypeOK' /\ LossBound' /\ FewerPeers
  BY ServerFrame
<1>4. Records' /\ SamePorts
  BY <1>1, RecordsFrame DEF IndInv
<1>5. Route'
  BY <1>1, <1>3, <1>4, RouteFrame DEF IndInv
<1> QED
  BY <1>2, <1>3, <1>4, <1>5 DEF IndInv, TypeOK

(* A call of request_service.                                              *)
LEMMA RequestServiceInv ==
  ASSUME IndInv, UNCHANGED <<brokerVars, server>>, NEW c \in Client,
         NEW s \in Service, NEW p \in Parameters[c], RequestService(c, s, p)
  PROVE  IndInv'
<1>1. p \in Int
  BY ParametersAssumption
<1>2. [service |-> s, parameters |-> p] \in request_module
  BY <1>1 DEF request_module
<1>3. router_in' \in [Client -> Seq(request_module)]
  <2>1. router_in \in [Client -> Seq(request_module)]
    BY DEF IndInv, TypeOK, NetTypeOK
  <2>2. Append(router_in[c], [service |-> s, parameters |-> p]) \in Seq(request_module)
    BY <1>2, <2>1, AppendProperties
  <2> QED
    BY <2>1, <2>2 DEF RequestService
<1>4. router_out' \in [Client -> Seq(response_module)]
  BY DEF IndInv, TypeOK, NetTypeOK, RequestService
<1>5. ClientTypeOK'
  <2> DEFINE n == client[c].requests + 1
  <2>1. n \in Nat
    BY DEF IndInv, TypeOK, ClientTypeOK
  <2>2. client' = [client EXCEPT ![c] =
                     [status |-> "waiting", service |-> s, parameters |-> p,
                      requests |-> n]]
    BY DEF RequestService
  <2> HIDE DEF n
  <2> QED
    BY <1>1, <2>1, <2>2 DEF IndInv, TypeOK, ClientTypeOK
<1> QED
  BY <1>3, <1>4, <1>5, ClientFrame DEF RequestService, IndInv, TypeOK, NetTypeOK

(* Its return.                                                             *)
LEMMA ReceiveResponseInv ==
  ASSUME IndInv, UNCHANGED <<brokerVars, server>>, NEW c \in Client,
         ReceiveResponse(c)
  PROVE  IndInv'
<1>1. router_out' \in [Client -> Seq(response_module)]
  <2>1. router_out \in [Client -> Seq(response_module)] /\ router_out[c] # <<>>
    BY DEF IndInv, TypeOK, NetTypeOK, ReceiveResponse
  <2>2. Tail(router_out[c]) \in Seq(response_module)
    BY <2>1
  <2> QED
    BY <2>1, <2>2 DEF ReceiveResponse
<1>2. ClientTypeOK'
  <2> DEFINE n == [client[c] EXCEPT !.status = "idle", !.service = SERVICE_NOT_FOUND,
                                    !.parameters = 0]
             Call == [status: {"idle", "waiting", "gone"},
                      service: Service \cup {SERVICE_NOT_FOUND},
                      parameters: Int, requests: Nat]
  <2>1. client \in [Client -> Call] /\ client' = [client EXCEPT ![c] = n]
    BY DEF IndInv, TypeOK, ClientTypeOK, ReceiveResponse
  <2>2. client[c] \in Call
    BY <2>1
  <2>3. n \in Call
    <3>1. \A q \in Call : [q EXCEPT !.status = "idle"] \in Call
      OBVIOUS
    <3>2. \A q \in Call : [q EXCEPT !.service = SERVICE_NOT_FOUND] \in Call
      OBVIOUS
    <3>3. \A q \in Call : [q EXCEPT !.parameters = 0] \in Call
      OBVIOUS
    <3>4. n = [[[client[c] EXCEPT !.status = "idle"]
                   EXCEPT !.service = SERVICE_NOT_FOUND] EXCEPT !.parameters = 0]
      OBVIOUS
    <3> HIDE DEF Call, n
    <3> QED
      BY <2>2, <3>1, <3>2, <3>3, <3>4
  <2> HIDE DEF n
  <2>4. client' \in [Client -> Call]
    <3> HIDE DEF Call
    <3> QED
      BY <2>1, <2>3
  <2> QED
    BY <2>4 DEF ClientTypeOK
<1> QED
  BY <1>1, <1>2, ClientFrame DEF ReceiveResponse, IndInv, TypeOK, NetTypeOK

(* A client leaves.                                                        *)
LEMMA LeaveInv ==
  ASSUME IndInv, UNCHANGED <<brokerVars, server>>, NEW c \in Client, Leave(c)
  PROVE  IndInv'
<1>1. router_out' \in [Client -> Seq(response_module)] /\ connected' \subseteq Client
  BY DEF IndInv, TypeOK, NetTypeOK, Leave
<1>2. ClientTypeOK'
  BY DEF IndInv, TypeOK, ClientTypeOK, Leave
<1> QED
  BY <1>1, <1>2, ClientFrame DEF Leave, IndInv, TypeOK, NetTypeOK

-----------------------------------------------------------------------------
(* Connections *)

(* A live copy that uses the port of a socket joins its peers.             *)
LEMMA AttachToInv ==
  ASSUME IndInv, NEW k \in Copy, NEW i \in DOMAIN dealer, AttachTo(k, i)
  PROVE  IndInv'
<1> DEFINE pipes == Append(lb[i].pipes, k)
           n == Len(lb[i].pipes)
           socket == [lb[i] EXCEPT !.pipes = pipes]
<1>1. /\ server[k].up /\ server[k].broker_port = dealer[i] /\ k \notin Peers(i)
      /\ lb' = [lb EXCEPT ![i] = socket]
      /\ UNCHANGED <<connected, router_in, router_out, reg_req, reg_rep, inbox,
                     outbox, server, client>>
      /\ UNCHANGED <<broker, services_db, next_dealer_skt_index,
                     available_dealer_port, available_services, dealer>>
  BY DEF AttachTo, Attached, brokerVars
<1>2. lb \in Seq(Socket) /\ i \in 1..Len(lb)
  BY LenProperties DEF IndInv, TypeOK, NetTypeOK, BrokerTypeOK, Route, Tables
<1>3. lb[i] \in Socket
  BY <1>2
<1>4. lb[i].pipes \in Seq(Copy) /\ n \in Nat /\ DOMAIN lb[i].pipes = 1..n
  BY <1>3, LenProperties DEF Socket
<1>5. /\ pipes \in Seq(Copy) /\ DOMAIN pipes = 1..(n + 1) /\ pipes[n + 1] = k
      /\ \A x \in 1..n : pipes[x] = lb[i].pipes[x]
  BY <1>4, AppendProperties, LenProperties
<1> HIDE DEF pipes, n
<1>6. socket \in Socket /\ socket.pipes = pipes
  BY <1>3, <1>5 DEF Socket
<1> HIDE DEF socket
<1>7. /\ lb' \in Seq(Socket) /\ Len(lb') = Len(lb)
      /\ \A j \in 1..Len(lb) : lb'[j] = IF j = i THEN socket ELSE lb[j]
  BY <1>1, <1>2, <1>6, ExceptSeq
<1>8. TypeOK'
  BY <1>1, <1>7
     DEF IndInv, TypeOK, NetTypeOK, BrokerTypeOK, ServerTypeOK, ClientTypeOK
<1>9. LossBound' /\ Records'
  BY <1>1, RecordsFrame DEF IndInv, LossBound
<1>10. Tables' /\ Ports'
  BY <1>1, <1>7 DEF IndInv, Route, Tables, Ports, Registered
<1>11. PortsKnown'
  BY <1>1 DEF IndInv, Route, PortsKnown, PortOf, Registered
<1>12. Connections'
  <2>1. /\ Distinct(lb[i].pipes)
        /\ \A x \in 1..n : /\ server[lb[i].pipes[x]].up
                           /\ server[lb[i].pipes[x]].broker_port = dealer[i]
                           /\ lb[i].pipes[x] # k
    BY <1>1, <1>2, <1>4, SMTT(30) DEF IndInv, Route, Connections, Peers
  <2>2. \A x \in 1..(n + 1) : x \in 1..n \/ x = n + 1
    BY <1>4
  <2>3. Distinct(pipes)
    BY <1>4, <1>5, <2>1, <2>2 DEF Distinct
  <2>4. \A x \in DOMAIN pipes : server[pipes[x]].up /\ server[pipes[x]].broker_port = dealer[i]
    BY <1>1, <1>5, <2>1, <2>2
  <2> SUFFICES ASSUME NEW j \in 1..Len(lb)
               PROVE  /\ Distinct(lb'[j].pipes)
                      /\ \A x \in DOMAIN lb'[j].pipes :
                           /\ server'[lb'[j].pipes[x]].up
                           /\ server'[lb'[j].pipes[x]].broker_port = dealer'[j]
    BY <1>7 DEF Connections, Distinct
  <2>5. CASE j = i
    BY <1>1, <1>6, <1>7, <2>3, <2>4, <2>5
  <2>6. CASE j # i
    BY <1>1, <1>7, <2>6 DEF IndInv, Route, Connections
  <2> QED
    BY <2>5, <2>6
<1> QED
  BY <1>8, <1>9, <1>10, <1>11, <1>12 DEF IndInv, Route

-----------------------------------------------------------------------------
(* Every step keeps the invariant.                                         *)
LEMMA NextIndInv == IndInv /\ [Next]_vars => IndInv'
<1> SUFFICES ASSUME IndInv, [Next]_vars PROVE IndInv'
  OBVIOUS
<1>1. CASE BrokerStep /\ UNCHANGED <<server, client>>
  <2>1. CASE get_registration
    BY <1>1, <2>1, GetFirstRegistrationInv, GetFurtherRegistrationInv,
       RefuseRegistrationInv DEF get_registration
  <2>2. CASE \E c \in Client : get_request(c)
    BY <1>1, <2>2, GetRequestNotAvailableInv, GetRequestInv, GetRequestUndefinedInv
       DEF get_request
  <2>3. CASE \E k \in Copy : get_response(k)
    BY <1>1, <2>3, GetPongInv, GetDuplicateInv, GetResultInv DEF get_response
  <2>4. CASE \E i \in DOMAIN available_services : Heartbeat(i)
    BY <1>1, <2>4, HeartbeatInv
  <2>5. CASE check_pending_requests
    BY <1>1, <2>5, CheckPendingRequestInv DEF check_pending_requests
  <2> QED
    BY <1>1, <2>1, <2>2, <2>3, <2>4, <2>5 DEF BrokerStep
<1>2. CASE CopyStep /\ UNCHANGED <<brokerVars, client>>
  <2>1. PICK k \in Copy : ServerStep(k) \/ MissesPing(k) \/ Kill(k) \/ Revive(k)
    BY <1>2 DEF CopyStep
  <2>2. CASE PongBroker(k) \/ DuplicateRequest(k)
    BY <1>2, <2>2, AnswerAtOnceInv
  <2>3. CASE CreateThread(k)
    BY <1>2, <2>3, CreateThreadInv
  <2>4. CASE TaskDone(k)
    BY <1>2, <2>4, TaskDoneInv
  <2>5. CASE OrphanAnswers(k)
    BY <1>2, <2>5, OrphanAnswersInv
  <2>6. CASE OrphanThrows(k) \/ RegistrationError(k) \/ Kill(k)
    BY <1>2, <2>6, DiesInv DEF OrphanThrows, RegistrationError, Kill
  <2>7. CASE SendRegistration(k)
    BY <1>2, <2>7, SendRegistrationInv
  <2>8. CASE RegistrationOk(k)
    BY <1>2, <2>8, RegistrationOkInv
  <2>9. CASE MissesPing(k)
    BY <1>2, <2>9, PingTimeoutInv DEF MissesPing
  <2>10. CASE Revive(k)
    BY <1>2, <2>10, RelaunchInv DEF Revive, Restart
  <2> QED
    BY <2>1, <2>2, <2>3, <2>4, <2>5, <2>6, <2>7, <2>8, <2>9, <2>10 DEF ServerStep
<1>3. CASE ClientStep /\ UNCHANGED <<brokerVars, server>>
  BY <1>3, RequestServiceInv, ReceiveResponseInv, LeaveInv DEF ClientStep
<1>4. CASE \E k \in Copy : \E i \in DOMAIN dealer : AttachTo(k, i)
  BY <1>4, AttachToInv
<1>5. CASE UNCHANGED vars
  <2>1. UNCHANGED <<connected, router_in, router_out, reg_req, reg_rep, lb, inbox, outbox>>
        /\ UNCHANGED <<brokerVars, server, client>>
    BY <1>5 DEF vars, netVars
  <2>2. NetTypeOK'
    BY <2>1 DEF IndInv, TypeOK, NetTypeOK
  <2> QED
    BY <2>1, <2>2, ServerFrame, CopyFrame
<1> QED
  BY <1>1, <1>2, <1>3, <1>4, <1>5 DEF Next

(* Every variable keeps its type, whatever the bounds: lost_pong never     *)
(* leaves -1..LIVENESS, ping_loss never passes LIVENESS, and the copy      *)
(* counters stay in uint8_t (where they may wrap around).                  *)
THEOREM TypeCorrect == Spec => []TypeOK
<1>1. IndInv => TypeOK
  BY DEF IndInv
<1> QED
  BY <1>1, InitIndInv, NextIndInv, PTL DEF Spec

(* For any number of services, copies and clients, under every             *)
(* interleaving of registrations, crashes, restarts and re-registrations,  *)
(* copies use the port of their own service and a DEALER socket serves     *)
(* copies of its own service only.                                         *)
THEOREM RoutingCorrect == Spec => []RoutingSafe
BY InitIndInv, NextIndInv, RoutingFromIndInv, PTL DEF Spec
=============================================================================
