----------------------------- MODULE CallProofs -----------------------------
(***************************************************************************)
(* Proofs about the calls of the clients: where a call is while its client *)
(* waits, and how long the broker may hold it.  For any number of          *)
(* services, copies and clients, with crashes of copies, clients that      *)
(* leave and any timing.                                                   *)
(***************************************************************************)
EXTENDS RSFProofs

-----------------------------------------------------------------------------
(* Requests in the table *)

(* Pending(c) as a function of the table.                                  *)
Held(db, c) ==
  UNION {{<<s, r>> : r \in Matching(db[s].request_records, c)} : s \in DOMAIN db}

(* What it contains.                                                       *)
LEMMA HeldElement ==
  ASSUME NEW db, NEW c, NEW x
  PROVE  x \in Held(db, c) <=>
           \E s \in DOMAIN db : \E r \in db[s].request_records :
              r.client_id = c /\ x = <<s, r>>
BY DEF Held, Matching

(* The pending requests of a state and of the next one.                    *)
LEMMA PendingHeld ==
  ASSUME NEW c
  PROVE  Pending(c) = Held(services_db, c) /\ Pending(c)' = Held(services_db', c)
BY DEF Pending, Held, Registered

(* A table with the same requests, perhaps with services that have none,   *)
(* holds the same requests of every client.                                *)
LEMMA HeldFrame ==
  ASSUME NEW db, NEW db2, DOMAIN db \subseteq DOMAIN db2,
         \A s \in DOMAIN db : db2[s].request_records = db[s].request_records,
         \A s \in DOMAIN db2 \ DOMAIN db : db2[s].request_records = {},
         NEW c
  PROVE  Held(db2, c) = Held(db, c)
<1>1. ASSUME NEW x PROVE x \in Held(db2, c) <=> x \in Held(db, c)
  <2>1. x \in Held(db2, c) => x \in Held(db, c)
    <3> SUFFICES ASSUME x \in Held(db2, c) PROVE x \in Held(db, c)
      OBVIOUS
    <3>1. PICK s \in DOMAIN db2 : \E r \in db2[s].request_records :
                                     r.client_id = c /\ x = <<s, r>>
      BY HeldElement
    <3>2. s \in DOMAIN db
      BY <3>1
    <3> QED
      BY <3>1, <3>2, HeldElement
  <2>2. x \in Held(db, c) => x \in Held(db2, c)
    BY HeldElement
  <2> QED
    BY <2>1, <2>2
<1> QED
  BY <1>1

(* Service s, which holds all requests of client c, replaces them by New.  *)
Replaces(db, db2, s, c, New) ==
  /\ DOMAIN db2 = DOMAIN db /\ s \in DOMAIN db
  /\ \A t \in DOMAIN db \ {s} : db2[t].request_records = db[t].request_records
  /\ Held(db, c) \subseteq {<<s, r>> : r \in db[s].request_records}
  /\ \A r \in New : r.client_id = c
  /\ db2[s].request_records = {r \in db[s].request_records : r.client_id # c} \cup New

(* Then these are the requests of c, and those of other clients stay.      *)
LEMMA HeldReplace ==
  ASSUME NEW db, NEW db2, NEW s, NEW c, NEW New, Replaces(db, db2, s, c, New)
  PROVE  /\ Held(db2, c) = {<<s, r>> : r \in New}
         /\ \A d : d # c => Held(db2, d) = Held(db, d)
<1>1. /\ DOMAIN db2 = DOMAIN db /\ s \in DOMAIN db
      /\ \A t \in DOMAIN db \ {s} : db2[t].request_records = db[t].request_records
      /\ Held(db, c) \subseteq {<<s, r>> : r \in db[s].request_records}
      /\ \A r \in New : r.client_id = c
      /\ db2[s].request_records = {r \in db[s].request_records : r.client_id # c} \cup New
  BY DEF Replaces
<1>2. ASSUME NEW x
      PROVE  x \in Held(db2, c) <=> x \in {<<s, r>> : r \in New}
  <2>1. x \in {<<s, r>> : r \in New} => x \in Held(db2, c)
    BY <1>1, HeldElement
  <2>2. ASSUME x \in Held(db2, c)
        PROVE  x \in {<<s, r>> : r \in New}
    <3>1. PICK t \in DOMAIN db : \E r \in db2[t].request_records :
                                    r.client_id = c /\ x = <<t, r>>
      BY <1>1, <2>2, HeldElement
    <3>2. PICK r \in db2[t].request_records : r.client_id = c /\ x = <<t, r>>
      BY <3>1
    <3>3. CASE t = s
      BY <1>1, <3>2, <3>3
    <3>4. CASE t # s
      <4>1. x \in Held(db, c)
        BY <1>1, <3>2, <3>4, HeldElement
      <4> QED
        BY <1>1, <3>2, <3>4, <4>1
    <3> QED
      BY <3>3, <3>4
  <2> QED
    BY <2>1, <2>2
<1>3. ASSUME NEW d, d # c
      PROVE  Held(db2, d) = Held(db, d)
  <2>1. \A t \in DOMAIN db : \A r : r.client_id = d =>
          (r \in db2[t].request_records <=> r \in db[t].request_records)
    BY <1>1, <1>3
  <2>2. ASSUME NEW x PROVE x \in Held(db2, d) <=> x \in Held(db, d)
    <3>1. x \in Held(db2, d) => x \in Held(db, d)
      <4> SUFFICES ASSUME x \in Held(db2, d) PROVE x \in Held(db, d)
        OBVIOUS
      <4>1. PICK t \in DOMAIN db : \E r \in db2[t].request_records :
                                      r.client_id = d /\ x = <<t, r>>
        BY <1>1, HeldElement
      <4> QED
        BY <2>1, <4>1, HeldElement
    <3>2. x \in Held(db, d) => x \in Held(db2, d)
      <4> SUFFICES ASSUME x \in Held(db, d) PROVE x \in Held(db2, d)
        OBVIOUS
      <4>1. PICK t \in DOMAIN db : \E r \in db[t].request_records :
                                      r.client_id = d /\ x = <<t, r>>
        BY HeldElement
      <4> QED
        BY <1>1, <2>1, <4>1, HeldElement
    <3> QED
      BY <3>1, <3>2
  <2> QED
    BY <2>2
<1>4. \A d : d # c => Held(db2, d) = Held(db, d)
  BY <1>3
<1> QED
  BY <1>2, <1>4

(* The only request of client c in a vector R is q.                        *)
Only(R, c, q) == Matching(R, c) = {q}

(* delete_request deletes the only request of a client, whatever stands    *)
(* around it in the vector.                                                *)
LEMMA DeleteOnly ==
  ASSUME NEW R, NEW c, NEW q, q.seq \in Nat, Only(R, c, q)
  PROVE  delete_request(R, c) = R \ {q}
<1> DEFINE RunBefore(r) ==
             {m \in {q} : m.seq < r.seq /\
                \A n \in R : m.seq < n.seq /\ n.seq < r.seq => n \in {q}}
<1>1. Erased(R, c) = {r \in {q} : Cardinality(RunBefore(r)) % 2 = 0}
  BY Zenon DEF Erased, Only
<1>2. RunBefore(q) = {}
  OBVIOUS
<1>3. Cardinality(RunBefore(q)) % 2 = 0
  BY <1>2, FS_EmptySet
<1>4. Erased(R, c) = {q}
  BY <1>1, <1>3
<1> QED
  BY <1>4 DEF delete_request

(* get_result finds the only request of a client.                          *)
LEMMA GetOnly ==
  ASSUME NEW R, NEW c, NEW q, q.seq \in Nat, Only(R, c, q)
  PROVE  get_result(R, c) = q.results
<1>1. (CHOOSE r \in {q} : \A m \in {q} : m.seq <= r.seq) = q
  OBVIOUS
<1> QED
  BY <1>1 DEF get_result, Only

(* push_result changes nothing when the client has no request ...          *)
LEMMA PushNone ==
  ASSUME NEW R, NEW c, NEW v, Matching(R, c) = {}
  PROVE  push_result(R, c, v) = R /\ get_result(R, c) = <<>>
BY DEF push_result, get_result, Matching

WithResult(q, v) == [q EXCEPT !.results = Append(@, v)]

(* One more result for a request.                                          *)
LEMMA WithResultType ==
  ASSUME NEW q \in request_record_t, NEW v \in Int
  PROVE  /\ WithResult(q, v) \in request_record_t
         /\ WithResult(q, v).client_id = q.client_id
         /\ WithResult(q, v).results = Append(q.results, v)
BY DEF request_record_t, WithResult

(* ... and replaces its only one.                                          *)
LEMMA PushOnly ==
  ASSUME NEW R \in SUBSET request_record_t, NEW c, NEW q, NEW v \in Int,
         Only(R, c, q)
  PROVE  /\ push_result(R, c, v) = (R \ {q}) \cup {WithResult(q, v)}
         /\ Only(push_result(R, c, v), c, WithResult(q, v))
         /\ WithResult(q, v) \notin R \ {q}
<1> DEFINE p == WithResult(q, v)
<1>1. q \in R /\ q \in request_record_t /\ q.client_id = c
      /\ \A r \in R : r.client_id = c => r = q
  BY DEF Matching, Only
<1>2. p.client_id = c
  BY <1>1, WithResultType
<1>3. ASSUME NEW x PROVE x \in push_result(R, c, v) <=> x \in (R \ {q}) \cup {p}
  BY <1>1 DEF push_result, WithResult
<1> HIDE DEF p
<1>4. push_result(R, c, v) = (R \ {q}) \cup {p}
  BY <1>3
<1>5. p \notin R \ {q}
  BY <1>1, <1>2
<1>6. Matching((R \ {q}) \cup {p}, c) = {p}
  BY <1>1, <1>2 DEF Matching
<1> QED
  BY <1>4, <1>5, <1>6 DEF p, Only

-----------------------------------------------------------------------------
(* Undecided results *)

(* No more than half of NMR results never look like a majority.            *)
LEMMA FewUndecided ==
  ASSUME NEW results \in Seq(Int), Len(results) <= NMR \div 2
  PROVE  vote(results) = NO_MAJORITY /\ Len(results) < NMR
<1>1. Len(results) \in Nat /\ NMR \div 2 \in Nat /\ NMR \div 2 < NMR
  BY NMRAssumption
<1>2. results # <<>> => count(results)[max(results)] \in 0..Len(results)
  BY MaxExists
<1> DEFINE votes == count(results)[max(results)]
           half == NMR \div 2
<1>3. results # <<>> => ~(votes > half)
  <2> HIDE DEF votes, half
  <2> QED
    BY <1>1, <1>2 DEF votes, half
<1>4. vote(results) = NO_MAJORITY
  BY <1>3 DEF vote
<1> QED
  BY <1>1, <1>4, NMRAssumption

(* What get_response does not answer is undecided.                         *)
LEMMA NotAnswerable ==
  ASSUME NEW results \in Seq(Int), Len(results) <= NMR, ~Answerable(results)
  PROVE  vote(results) = NO_MAJORITY /\ Len(results) < NMR
<1>1. CASE Len(results) <= NMR \div 2
  BY <1>1, FewUndecided
<1>2. CASE ~(Len(results) <= NMR \div 2)
  <2>1. Len(results) \in Nat /\ NMR \div 2 \in Nat
    BY NMRAssumption
  <2>2. ~(vote(results) >= 0) /\ Len(results) # NMR
    BY <1>2, <2>1 DEF Answerable
  <2>3. vote(results) = NO_MAJORITY
    <3>1. DOMAIN results = 1..Len(results)
      OBVIOUS
    <3>2. vote(results) \in Int
      BY MaxExists DEF vote, NO_MAJORITY
    <3> QED
      BY <2>1, <2>2, <3>1, <3>2, VoteIndex
  <2> QED
    BY <2>1, <2>2, <2>3, NMRAssumption
<1> QED
  BY <1>1, <1>2

(* Without results nothing is answered.                                    *)
LEMMA NoneUndecided ==
  vote(<<>>) = NO_MAJORITY /\ Len(<<>>) < NMR /\ ~Answerable(<<>>)
BY NMRAssumption DEF vote, Answerable
-----------------------------------------------------------------------------
(* The inductive invariant *)

(* A call that has not returned is in one place: in no place between       *)
(* calls, at the ROUTER socket, in the table or in the response queue.     *)
(* With loss, calls that went down with a broker are in none.              *)
CallState(c, loss) ==
  \/ /\ router_in[c] = <<>> /\ Pending(c) = {} /\ router_out[c] = <<>>
     /\ client[c].status = "waiting" => loss
  \/ /\ Len(router_in[c]) = 1 /\ Pending(c) = {} /\ router_out[c] = <<>>
     /\ client[c].status # "idle"
  \/ /\ router_in[c] = <<>> /\ (\E x \in Pending(c) : Pending(c) = {x}) /\ router_out[c] = <<>>
     /\ client[c].status # "idle"
  \/ /\ router_in[c] = <<>> /\ Pending(c) = {} /\ Len(router_out[c]) = 1
     /\ client[c].status = "waiting"

(* What is left of this when the broker has ended.                         *)
QueueState(c) ==
  \/ router_in[c] = <<>> /\ router_out[c] = <<>>
  \/ Len(router_in[c]) = 1 /\ router_out[c] = <<>> /\ client[c].status # "idle"
  \/ router_in[c] = <<>> /\ Len(router_out[c]) = 1 /\ client[c].status = "waiting"

Undecided ==
  \A s \in Registered : \A r \in services_db[s].request_records :
    Len(r.results) < NMR /\ vote(r.results) = NO_MAJORITY

Calls(loss) ==
  IF broker = "up" THEN (\A c \in Client : CallState(c, loss)) /\ Undecided
                   ELSE \A c \in Client : QueueState(c)

(* The ROUTER socket knows exactly the clients that have not left.         *)
ConnectedLive == \A c \in Client : c \in connected <=> client[c].status # "gone"

(* check_pending_requests deletes from the right service, or from one that *)
(* is not registered, which ends the broker.                               *)
RightService ==
  \A i \in DOMAIN available_services :
    ExpiredFrom(i) \in Registered => ExpiredFrom(i) = available_services[i]

CallInv == ConnectedLive /\ (InOrder => Calls(FALSE))

(* A call is still in at most one queue when the table is forgotten.       *)
LEMMA CallQueues ==
  ASSUME NEW loss, Calls(loss)
  PROVE  \A c \in Client : QueueState(c)
BY DEF Calls, CallState, QueueState

(* The order of the services is only extended.                             *)
LEMMA OrderRight ==
  ASSUME InOrder
  PROVE  RightService
BY DEF InOrder, RightService, ExpiredFrom

(* The invariant holds at the start.                                       *)
LEMMA InitCalls == Init => CallInv
<1> SUFFICES ASSUME Init PROVE CallInv
  OBVIOUS
<1>1. Registered = {} /\ broker = "up"
  BY DEF Init, BrokerInit, Registered
<1>2. ConnectedLive
  BY DEF Init, NetInit, ClientInit, ConnectedLive
<1>3. ASSUME NEW c \in Client PROVE CallState(c, FALSE)
  <2>1. Pending(c) = {}
    BY <1>1 DEF Pending
  <2> QED
    BY <2>1 DEF Init, NetInit, ClientInit, CallState
<1> QED
  BY <1>1, <1>2, <1>3 DEF CallInv, Calls, Undecided

-----------------------------------------------------------------------------
(* Steps that leave the calls alone *)

(* Nothing happens at the front of the broker, and the table holds the     *)
(* same requests.                                                          *)
LEMMA CallFrame ==
  ASSUME NEW loss, ConnectedLive, Calls(loss),
         UNCHANGED <<broker, connected, router_in, router_out, client>>,
         Registered \subseteq Registered',
         \A s \in Registered :
            services_db'[s].request_records = services_db[s].request_records,
         \A s \in Registered' \ Registered : services_db'[s].request_records = {}
  PROVE  ConnectedLive' /\ Calls(loss)'
<1>1. ConnectedLive'
  BY DEF ConnectedLive
<1>2. ASSUME NEW c PROVE Pending(c)' = Pending(c)
  <2>1. Held(services_db', c) = Held(services_db, c)
    BY HeldFrame DEF Registered
  <2> QED
    BY <2>1, PendingHeld
<1>3. ASSUME NEW c \in Client, CallState(c, loss) PROVE CallState(c, loss)'
  BY <1>2, <1>3 DEF CallState
<1>4. Undecided => Undecided'
  BY DEF Undecided
<1>5. ASSUME NEW c \in Client, QueueState(c) PROVE QueueState(c)'
  BY <1>5 DEF QueueState
<1>6. Calls(loss)'
  <2>1. CASE broker = "up"
    BY <1>3, <1>4, <2>1 DEF Calls
  <2>2. CASE broker # "up"
    BY <1>5, <2>2 DEF Calls
  <2> QED
    BY <2>1, <2>2
<1> QED
  BY <1>1, <1>6

(* Nothing happens in the table either.                                    *)
LEMMA CallStutter ==
  ASSUME NEW loss, ConnectedLive, Calls(loss),
         UNCHANGED <<broker, services_db, connected, router_in, router_out, client>>
  PROVE  ConnectedLive' /\ Calls(loss)'
<1>1. Registered' = Registered
  BY DEF Registered
<1> QED
  BY <1>1, CallFrame

(* The broker ends in a handler that has answered nobody.                  *)
LEMMA CallEnds ==
  ASSUME NEW loss, ConnectedLive, Calls(loss), broker' # "up",
         UNCHANGED <<connected, router_in, router_out, client>>
  PROVE  ConnectedLive' /\ Calls(loss)'
<1>1. \A c \in Client : QueueState(c)'
  BY CallQueues DEF QueueState
<1> QED
  BY <1>1 DEF Calls, ConnectedLive

-----------------------------------------------------------------------------
(* The broker answers *)

(* A request in the table is the whole call of its client.                 *)
LEMMA OnlyRequest ==
  ASSUME IndInv, NEW loss, Calls(loss), broker = "up",
         NEW s \in Registered, NEW q \in services_db[s].request_records
  PROVE  LET c == q.client_id
         IN  /\ q \in request_record_t /\ c \in Client
             /\ Only(services_db[s].request_records, c, q)
             /\ Pending(c) = {<<s, q>>}
             /\ router_in[c] = <<>> /\ router_out[c] = <<>>
             /\ client[c].status # "idle"
<1> DEFINE c == q.client_id
<1>1. q \in request_record_t /\ c \in Client
  BY DEF IndInv, Records, GoodRecord, service_record, request_record_t
<1>2. \A r \in services_db[s].request_records :
        r.client_id = c => <<s, r>> \in Pending(c)
  BY HeldElement, PendingHeld DEF Registered
<1>3. <<s, q>> \in Pending(c)
  BY <1>2
<1>4. CallState(c, loss)
  BY <1>1 DEF Calls
<1>5. /\ \E x : Pending(c) = {x}
      /\ router_in[c] = <<>> /\ router_out[c] = <<>> /\ client[c].status # "idle"
  BY <1>3, <1>4 DEF CallState
<1>6. Pending(c) = {<<s, q>>}
  BY <1>3, <1>5
<1>7. \A r \in services_db[s].request_records : r.client_id = c => r = q
  BY <1>2, <1>6
<1>8. Only(services_db[s].request_records, c, q)
  BY <1>7 DEF Matching, Only
<1> QED
  BY <1>1, <1>5, <1>6, <1>8

(* The request of a client is answered and deleted, or the broker ends.    *)
LEMMA AnswerCall ==
  ASSUME IndInv, NEW loss, ConnectedLive, Calls(loss), broker = "up",
         NEW s \in Registered, NEW q \in services_db[s].request_records,
         NEW response, Respond(q.client_id, response),
         broker' = "up" =>
           /\ q.client_id \in connected
           /\ Registered' = Registered
           /\ \A t \in Registered \ {s} :
                services_db'[t].request_records = services_db[t].request_records
           /\ services_db'[s].request_records = services_db[s].request_records \ {q},
         UNCHANGED <<connected, router_in, client>>
  PROVE  ConnectedLive' /\ Calls(loss)'
<1> DEFINE c == q.client_id
<1>1. /\ q \in request_record_t /\ c \in Client
      /\ Only(services_db[s].request_records, c, q)
      /\ Pending(c) = {<<s, q>>}
      /\ router_in[c] = <<>> /\ router_out[c] = <<>>
      /\ client[c].status # "idle"
  BY OnlyRequest
<1>2. router_out' = IF c \in connected
                    THEN [router_out EXCEPT ![c] = Append(@, response)]
                    ELSE router_out
  BY DEF Respond
<1>3. \A d \in Client \ {c} : router_out'[d] = router_out[d]
  BY <1>2 DEF IndInv, TypeOK, NetTypeOK
<1>4. c \in connected => Len(router_out'[c]) = 1 /\ client[c].status = "waiting"
  <2>1. Len(Append(<<>>, response)) = 1
    OBVIOUS
  <2> QED
    BY <1>1, <1>2, <2>1 DEF IndInv, TypeOK, NetTypeOK, ClientTypeOK, ConnectedLive
<1>5. c \notin connected => router_out'[c] = <<>>
  BY <1>1, <1>2
<1>6. ConnectedLive'
  BY DEF ConnectedLive
<1> HIDE DEF c
<1>7. \A d \in Client : QueueState(d)'
  <2> SUFFICES ASSUME NEW d \in Client PROVE QueueState(d)'
    OBVIOUS
  <2>1. CASE d = c
    BY <1>1, <1>4, <1>5, <2>1 DEF QueueState
  <2>2. CASE d # c
    BY <1>3, <2>2, CallQueues DEF QueueState
  <2> QED
    BY <2>1, <2>2
<1>8. ASSUME broker' = "up"
      PROVE  (\A d \in Client : CallState(d, loss)') /\ Undecided'
  <2>1. c \in connected
    BY <1>8 DEF c
  <2>2. /\ Registered' = Registered
        /\ \A t \in Registered \ {s} :
             services_db'[t].request_records = services_db[t].request_records
        /\ services_db'[s].request_records = services_db[s].request_records \ {q}
    BY <1>8
  <2>3. Replaces(services_db, services_db', s, c, {})
    <3>1. {r \in services_db[s].request_records : r.client_id # c}
            = services_db[s].request_records \ {q}
      BY <1>1 DEF Matching, Only
    <3>2. Held(services_db, c) \subseteq {<<s, r>> : r \in services_db[s].request_records}
      BY <1>1, PendingHeld
    <3> QED
      BY <2>2, <3>1, <3>2 DEF Replaces, Registered
  <2>4. Pending(c)' = {} /\ \A d : d # c => Pending(d)' = Pending(d)
    BY <2>3, HeldReplace, PendingHeld
  <2>5. ASSUME NEW d \in Client PROVE CallState(d, loss)'
    <3>1. CASE d = c
      BY <1>1, <1>4, <2>1, <2>4, <3>1 DEF CallState
    <3>2. CASE d # c
      <4>1. CallState(d, loss)
        BY DEF Calls
      <4> QED
        BY <1>3, <2>4, <3>2, <4>1 DEF CallState
    <3> QED
      BY <3>1, <3>2
  <2>6. Undecided'
    BY <2>2 DEF Calls, Undecided
  <2> QED
    BY <2>5, <2>6
<1> QED
  BY <1>6, <1>7, <1>8 DEF Calls

-----------------------------------------------------------------------------
(* The handlers of the broker *)

(* Registrations touch no request.                                         *)
LEMMA RegistrationCalls ==
  ASSUME IndInv, NEW loss, ConnectedLive, Calls(loss), UNCHANGED <<server, client>>,
         get_registration
  PROVE  ConnectedLive' /\ Calls(loss)'
<1>1. PICK k \in Copy, live \in BOOLEAN :
        \/ GetFirstRegistration(k, live)
        \/ GetFurtherRegistration(k, live)
        \/ RefuseRegistration(k, live)
  BY DEF get_registration
<1>2. UNCHANGED <<broker, connected, router_in, router_out, client>>
  BY <1>1 DEF GetFirstRegistration, GetFurtherRegistration, RefuseRegistration,
              TakeRegistration
<1>3. services_db \in [Registered -> service_record]
  BY DEF IndInv, TypeOK, BrokerTypeOK, Registered
<1>4. CASE GetFirstRegistration(k, live)
  <2> DEFINE s == k[1]
             f == FirstCopy(available_dealer_port, next_dealer_skt_index)
  <2>1. services_db' = [x \in Registered \cup {s} |-> IF x = s THEN f ELSE services_db[x]]
        /\ s \notin Registered
    BY <1>4 DEF GetFirstRegistration
  <2>2. f.request_records = {}
    BY FirstCopyType DEF IndInv, TypeOK, BrokerTypeOK
  <2> HIDE DEF f
  <2>3. Registered' = Registered \cup {s}
    BY <2>1 DEF Registered
  <2>4. /\ \A x \in Registered : services_db'[x] = services_db[x]
        /\ \A x \in Registered' \ Registered : services_db'[x] = f
    BY <2>1, <2>3
  <2> QED
    BY <1>2, <2>2, <2>3, <2>4, CallFrame
<1>5. CASE GetFurtherRegistration(k, live)
  <2> DEFINE s == k[1]
             f == FurtherCopy(services_db[s])
  <2>1. services_db' = [services_db EXCEPT ![s] = f] /\ s \in Registered
        /\ services_db[s].num_copies_registered < NMR
    BY <1>5 DEF GetFurtherRegistration
  <2>2. f.request_records = services_db[s].request_records
    BY <2>1, FurtherCopyType DEF IndInv, Records, GoodRecord
  <2> HIDE DEF f
  <2>3. Registered' = Registered
    BY <1>3, <2>1 DEF Registered
  <2>4. \A x \in Registered : services_db'[x] = IF x = s THEN f ELSE services_db[x]
    BY <1>3, <2>1
  <2> QED
    BY <1>2, <2>2, <2>3, <2>4, CallFrame
<1>6. CASE RefuseRegistration(k, live)
  <2>1. UNCHANGED services_db
    BY <1>6 DEF RefuseRegistration
  <2> QED
    BY <1>2, <2>1, CallStutter
<1> QED
  BY <1>1, <1>4, <1>5, <1>6

(* One record is replaced by one with the same requests.                   *)
LEMMA SameRequests ==
  ASSUME IndInv, NEW loss, ConnectedLive, Calls(loss),
         UNCHANGED <<broker, connected, router_in, router_out, client>>,
         NEW s \in Registered, NEW n,
         services_db' = [services_db EXCEPT ![s] = n],
         n.request_records = services_db[s].request_records
  PROVE  ConnectedLive' /\ Calls(loss)'
<1>1. services_db \in [Registered -> service_record]
  BY DEF IndInv, TypeOK, BrokerTypeOK, Registered
<1>2. Registered' = Registered
  BY <1>1 DEF Registered
<1>3. \A x \in Registered : services_db'[x] = IF x = s THEN n ELSE services_db[x]
  BY <1>1
<1> QED
  BY <1>2, <1>3, CallFrame

(* A heartbeat round touches no request.                                   *)
LEMMA HeartbeatCalls ==
  ASSUME IndInv, NEW loss, ConnectedLive, Calls(loss), UNCHANGED <<server, client>>,
         NEW i \in DOMAIN available_services, Heartbeat(i)
  PROVE  ConnectedLive' /\ Calls(loss)'
<1> DEFINE s == available_services[i]
           n == check_pong(services_db[s])
<1>1. services_db' = [services_db EXCEPT ![s] = n]
      /\ UNCHANGED <<broker, connected, router_in, router_out>>
  BY DEF Heartbeat, HeartbeatTimeout
<1>2. s \in Registered
  BY LenProperties DEF IndInv, TypeOK, BrokerTypeOK, Route, Tables
<1>3. n.request_records = services_db[s].request_records
  BY <1>2, CheckPongType DEF IndInv, Records, GoodRecord
<1> HIDE DEF n, s
<1> QED
  BY <1>1, <1>2, <1>3, SameRequests

(* A pong touches no request, and the answer to a duplicate is dropped.    *)
LEMMA PongCalls ==
  ASSUME IndInv, NEW loss, ConnectedLive, Calls(loss), UNCHANGED <<server, client>>,
         NEW k \in Copy, GetPong(k) \/ GetDuplicate(k)
  PROVE  ConnectedLive' /\ Calls(loss)'
<1>1. TakeReply(k) /\ UNCHANGED <<connected, router_in, router_out>>
  BY DEF GetPong, GetDuplicate, TakeReply
<1>2. CASE GetDuplicate(k)
  BY <1>1, <1>2, CallStutter DEF GetDuplicate
<1>3. CASE GetPong(k) /\ k[1] \notin Registered
  <2>1. broker' = "exit"
    BY <1>3 DEF GetPong
  <2>2. broker' # "up"
    BY <2>1
  <2> QED
    BY <1>1, <2>2, CallEnds
<1>4. CASE GetPong(k) /\ k[1] \in Registered
  <2> DEFINE s == k[1]
             n == register_pong(services_db[s], k[2])
  <2>1. services_db' = [services_db EXCEPT ![s] = n] /\ UNCHANGED broker
    BY <1>4 DEF GetPong
  <2>2. n.request_records = services_db[s].request_records
    BY <1>1, <1>4, TakeReplyType, RegisterPongType DEF IndInv, Records, GoodRecord
  <2> HIDE DEF n
  <2> QED
    BY <1>1, <1>4, <2>1, <2>2, SameRequests
<1> QED
  BY <1>2, <1>3, <1>4

(* What taking a request means for the call of its client.                 *)
LEMMA TakeCall ==
  ASSUME IndInv, NEW loss, Calls(loss), NEW c \in Client, TakeRequest(c)
  PROVE  /\ broker = "up" /\ Pending(c) = {} /\ router_out[c] = <<>>
         /\ client[c].status # "idle" /\ router_in'[c] = <<>>
         /\ \A d \in Client \ {c} : router_in'[d] = router_in[d]
         /\ UNCHANGED connected
<1>1. broker = "up" /\ router_in[c] # <<>> /\ UNCHANGED connected
      /\ router_in' = [router_in EXCEPT ![c] = Tail(@)]
  BY DEF TakeRequest
<1>2. router_in \in [Client -> Seq(request_module)]
  BY DEF IndInv, TypeOK, NetTypeOK
<1>3. CallState(c, loss)
  BY <1>1 DEF Calls
<1>4. /\ Len(router_in[c]) = 1 /\ Pending(c) = {} /\ router_out[c] = <<>>
      /\ client[c].status # "idle"
  BY <1>1, <1>3 DEF CallState
<1>5. Tail(router_in[c]) = <<>>
  <2>1. router_in[c] \in Seq(request_module)
    BY <1>2
  <2>2. Tail(router_in[c]) \in Seq(request_module) /\ Len(Tail(router_in[c])) = 0
    BY <1>1, <1>4, <2>1
  <2> QED
    BY <2>2, EmptySeq
<1> QED
  BY <1>1, <1>2, <1>4, <1>5

(* A request that is answered at once, or ends the broker.                 *)
LEMMA RefusedCalls ==
  ASSUME IndInv, NEW loss, ConnectedLive, Calls(loss), UNCHANGED <<server, client>>,
         NEW c \in Client, GetRequestNotAvailable(c) \/ GetRequestUndefined(c)
  PROVE  ConnectedLive' /\ Calls(loss)'
<1>1. TakeRequest(c) /\ UNCHANGED services_db
  BY DEF GetRequestNotAvailable, GetRequestUndefined
<1>2. /\ broker = "up" /\ Pending(c) = {} /\ router_out[c] = <<>>
      /\ client[c].status # "idle" /\ router_in'[c] = <<>>
      /\ \A d \in Client \ {c} : router_in'[d] = router_in[d]
      /\ UNCHANGED connected
  BY <1>1, TakeCall
<1>3. ConnectedLive'
  BY <1>2 DEF ConnectedLive
<1>4. Registered' = Registered /\ (Undecided => Undecided')
      /\ \A d : Pending(d)' = Pending(d)
  BY <1>1 DEF Registered, Undecided, Pending
<1>5. \A d \in Client : CallState(d, loss)
  BY <1>2 DEF Calls
<1>6. CASE GetRequestUndefined(c)
  <2>1. broker' # "up" /\ UNCHANGED router_out
    BY <1>6 DEF GetRequestUndefined
  <2>2. \A d \in Client : QueueState(d)'
    BY <1>2, <2>1, CallQueues DEF QueueState
  <2> QED
    BY <1>3, <2>1, <2>2 DEF Calls
<1>7. CASE GetRequestNotAvailable(c)
  <2> DEFINE response == Failure("NOT_AVAILABLE")
  <2>1. Respond(c, response) /\ broker' = AfterResponse(c)
    BY <1>7 DEF GetRequestNotAvailable
  <2> HIDE DEF response
  <2>2. router_out \in [Client -> Seq(response_module)]
    BY DEF IndInv, TypeOK, NetTypeOK
  <2>3. \A d \in Client \ {c} : router_out'[d] = router_out[d]
    BY <2>1, <2>2 DEF Respond
  <2>4. CASE c \in connected
    <3>1. router_out'[c] = Append(<<>>, response)
      BY <1>2, <2>1, <2>2, <2>4 DEF Respond
    <3>2. Len(router_out'[c]) = 1
      BY <3>1
    <3>3. client[c].status = "waiting"
      BY <1>2, <2>4 DEF ConnectedLive, IndInv, TypeOK, ClientTypeOK
    <3>4. broker' = "up"
      BY <1>2, <2>1, <2>4 DEF AfterResponse
    <3>5. \A d \in Client : CallState(d, loss)'
      <4> SUFFICES ASSUME NEW d \in Client PROVE CallState(d, loss)'
        OBVIOUS
      <4>1. CASE d = c
        BY <1>2, <1>4, <3>2, <3>3, <4>1 DEF CallState
      <4>2. CASE d # c
        BY <1>2, <1>4, <1>5, <2>3, <4>2 DEF CallState
      <4> QED
        BY <4>1, <4>2
    <3> QED
      BY <1>2, <1>3, <1>4, <3>4, <3>5 DEF Calls
  <2>5. CASE c \notin connected
    <3>1. broker' # "up" /\ UNCHANGED router_out
      BY <2>1, <2>5 DEF AfterResponse, Respond
    <3>2. \A d \in Client : QueueState(d)'
      BY <1>2, <3>1, CallQueues DEF QueueState
    <3> QED
      BY <1>3, <3>1, <3>2 DEF Calls
  <2> QED
    BY <2>4, <2>5
<1> QED
  BY <1>6, <1>7

(* push_request adds one request to the table.                             *)
LEMMA PushRequestRecords ==
  ASSUME NEW r \in service_record, NEW c
  PROVE  push_request([r EXCEPT !.seq_id_request = @ + 1], c).request_records
           = r.request_records \cup {NewRequest(r.seq_id_request, c)}
<1> DEFINE a == [r EXCEPT !.seq_id_request = @ + 1]
           q == NewRequest(r.seq_id_request, c)
<1>1. a \in service_record /\ a.seq_id_request = r.seq_id_request + 1
      /\ a.request_records = r.request_records /\ r.seq_id_request \in Nat
  BY DEF service_record
<1>2. a.seq_id_request - 1 = r.seq_id_request
  BY <1>1
<1> HIDE DEF a
<1>3. push_request(a, c) = [a EXCEPT !.request_records = @ \cup {q}]
  BY <1>2 DEF push_request
<1> HIDE DEF q
<1>4. push_request(a, c).request_records = r.request_records \cup {q}
  BY <1>1, <1>3 DEF service_record
<1> QED
  BY <1>4 DEF a, q

(* A request is put into the table, where its client had none.             *)
LEMMA StoredCalls ==
  ASSUME IndInv, NEW loss, ConnectedLive, Calls(loss), UNCHANGED <<server, client>>,
         NEW c \in Client, GetRequest(c)
  PROVE  ConnectedLive' /\ Calls(loss)'
<1> DEFINE s == Head(router_in[c]).service
           n == push_request([services_db[s] EXCEPT !.seq_id_request = @ + 1], c)
           q == NewRequest(services_db[s].seq_id_request, c)
<1>1. TakeRequest(c) /\ find_registration(s) # SERVICE_NOT_FOUND
      /\ UNCHANGED <<broker, router_out>>
  BY DEF GetRequest
<1>2. services_db' = [services_db EXCEPT ![s] = n]
  BY DEF GetRequest
<1>3. s \in Registered
  BY <1>1 DEF find_registration
<1>4. /\ broker = "up" /\ Pending(c) = {} /\ router_out[c] = <<>>
      /\ client[c].status # "idle" /\ router_in'[c] = <<>>
      /\ \A d \in Client \ {c} : router_in'[d] = router_in[d]
      /\ UNCHANGED connected
  BY <1>1, TakeCall
<1>5. services_db \in [Registered -> service_record]
  BY DEF IndInv, TypeOK, BrokerTypeOK, Registered
<1>6. services_db[s] \in service_record
  BY <1>3, <1>5
<1>7. q.client_id = c /\ q.results = <<>>
  BY DEF NewRequest
<1>8. n.request_records = services_db[s].request_records \cup {q}
  BY <1>6, PushRequestRecords
<1> HIDE DEF n, q, s
<1>10. Registered' = Registered
  BY <1>2, <1>5 DEF Registered
<1>11. \A x \in Registered : services_db'[x] = IF x = s THEN n ELSE services_db[x]
  BY <1>2, <1>5
<1>12. Replaces(services_db, services_db', s, c, {q})
  <2>1. Held(services_db, c) = {}
    BY <1>4, PendingHeld
  <2>2. \A r \in services_db[s].request_records : r.client_id # c
    <3> SUFFICES ASSUME NEW r \in services_db[s].request_records, r.client_id = c
                 PROVE  FALSE
      OBVIOUS
    <3>1. <<s, r>> \in Held(services_db, c)
      BY <1>3, HeldElement DEF Registered
    <3> QED
      BY <2>1, <3>1
  <2>3. {r \in services_db[s].request_records : r.client_id # c}
          = services_db[s].request_records
    BY <2>2
  <2>4. /\ services_db'[s].request_records = services_db[s].request_records \cup {q}
        /\ \A t \in Registered \ {s} :
             services_db'[t].request_records = services_db[t].request_records
    BY <1>3, <1>8, <1>11
  <2> QED
    BY <1>3, <1>7, <1>10, <2>1, <2>3, <2>4 DEF Replaces, Registered
<1>13. Pending(c)' = {<<s, q>>} /\ \A d : d # c => Pending(d)' = Pending(d)
  BY <1>12, HeldReplace, PendingHeld
<1>14. \A d \in Client : CallState(d, loss)'
  <2> SUFFICES ASSUME NEW d \in Client PROVE CallState(d, loss)'
    OBVIOUS
  <2>1. CASE d = c
    BY <1>1, <1>4, <1>13, <2>1 DEF CallState
  <2>2. CASE d # c
    <3>1. CallState(d, loss)
      BY <1>4 DEF Calls
    <3> QED
      BY <1>1, <1>4, <1>13, <2>2, <3>1 DEF CallState
  <2> QED
    BY <2>1, <2>2
<1>15. Undecided'
  <2> SUFFICES ASSUME NEW t \in Registered, NEW r \in services_db'[t].request_records
               PROVE  Len(r.results) < NMR /\ vote(r.results) = NO_MAJORITY
    BY <1>10 DEF Undecided
  <2>1. r = q \/ r \in services_db[t].request_records
    BY <1>8, <1>11
  <2>2. Undecided
    BY <1>4 DEF Calls
  <2> QED
    BY <1>7, <2>1, <2>2, NoneUndecided DEF Undecided
<1>16. ConnectedLive'
  BY <1>4 DEF ConnectedLive
<1> QED
  BY <1>1, <1>4, <1>14, <1>15, <1>16 DEF Calls

(* The table of service s after its requests have been replaced.           *)
LEMMA NewRequests ==
  ASSUME IndInv, NEW s \in Registered, NEW R,
         services_db' = [services_db EXCEPT ![s].request_records = R]
  PROVE  /\ Registered' = Registered
         /\ \A t \in Registered \ {s} :
              services_db'[t].request_records = services_db[t].request_records
         /\ services_db'[s].request_records = R
<1>1. services_db \in [Registered -> service_record]
  BY DEF IndInv, TypeOK, BrokerTypeOK, Registered
<1>2. services_db[s] \in service_record
  BY <1>1
<1>3. [services_db[s] EXCEPT !.request_records = R].request_records = R
  BY <1>2 DEF service_record
<1> DEFINE n == [services_db[s] EXCEPT !.request_records = R]
<1>4. services_db' = [services_db EXCEPT ![s] = n]
  OBVIOUS
<1> HIDE DEF n
<1>5. Registered' = Registered
  BY <1>1, <1>4 DEF Registered
<1>6. \A x \in Registered : services_db'[x] = IF x = s THEN n ELSE services_db[x]
  BY <1>1, <1>4
<1> QED
  BY <1>3, <1>5, <1>6 DEF n

(* A result, filed by the client in its envelope: it is for nobody, it     *)
(* decides the call and answers it, or the call goes on waiting.           *)
LEMMA ResultCalls ==
  ASSUME IndInv, NEW loss, ConnectedLive, Calls(loss), UNCHANGED <<server, client>>,
         NEW k \in Copy, GetResult(k)
  PROVE  ConnectedLive' /\ Calls(loss)'
<1>0. PICK c, v : c = Head(outbox[k]).client /\ v = Head(outbox[k]).result
  OBVIOUS
<1> DEFINE s == k[1]
           before == services_db[s].request_records
           records == push_result(before, c, v)
           results == get_result(records, c)
           response == IF vote(results) >= 0 THEN Available(results[vote(results) + 1])
                       ELSE Failure("NOT_RELIABLE")
<1>1. TakeReply(k)
  BY DEF GetResult
<1>2. v \in Int /\ broker = "up" /\ UNCHANGED <<connected, router_in>>
  BY <1>0, <1>1, TakeReplyType DEF server_reply_t, TakeReply
<1>3. CASE s \notin Registered
  <2>1. broker' # "up" /\ UNCHANGED router_out
    BY <1>3 DEF GetResult
  <2> QED
    BY <1>2, <2>1, CallEnds
<1>4. CASE s \in Registered /\ Answerable(results)
  <2>1. /\ Respond(c, response) /\ broker' = AfterResponse(c)
        /\ services_db' = [services_db EXCEPT ![s].request_records =
                             delete_request(records, c)]
    BY <1>0, <1>4 DEF GetResult
  <2>2. before \in SUBSET request_record_t
    BY <1>4 DEF IndInv, Records, GoodRecord, service_record
  <2>3. PICK q \in before : q.client_id = c
    <3>1. CASE Matching(before, c) = {}
      <4>1. results = <<>>
        BY <3>1, PushNone
      <4> QED
        BY <1>4, <4>1, NoneUndecided
    <3>2. CASE Matching(before, c) # {}
      BY <3>2 DEF Matching
    <3> QED
      BY <3>1, <3>2
  <2>4. Only(before, c, q)
    BY <1>2, <1>4, <2>3, OnlyRequest
  <2> DEFINE p == WithResult(q, v)
  <2> HIDE DEF response
  <2>5. /\ records = (before \ {q}) \cup {p} /\ Only(records, c, p)
        /\ p \notin before \ {q}
    <3> HIDE DEF before
    <3> QED
      BY <1>2, <2>2, <2>4, PushOnly
  <2>6. delete_request(records, c) = before \ {q}
    <3>1. p.seq \in Nat
      BY <1>2, <2>2, WithResultType DEF request_record_t
    <3> HIDE DEF p, records, before
    <3>2. delete_request(records, c) = records \ {p}
      BY <2>5, <3>1, DeleteOnly
    <3> QED
      BY <2>5, <3>2
  <2>7. broker' = "up" =>
          /\ q.client_id \in connected
          /\ Registered' = Registered
          /\ \A t \in Registered \ {s} :
               services_db'[t].request_records = services_db[t].request_records
          /\ services_db'[s].request_records = services_db[s].request_records \ {q}
    BY <1>4, <2>1, <2>3, <2>6, NewRequests DEF AfterResponse
  <2> QED
    BY <1>2, <1>4, <2>1, <2>3, <2>7, AnswerCall
<1>5. CASE s \in Registered /\ ~Answerable(results)
  <2>1. /\ services_db' = [services_db EXCEPT ![s].request_records = records]
        /\ UNCHANGED <<broker, router_out>>
    BY <1>0, <1>5 DEF GetResult
  <2>2. before \in SUBSET request_record_t
    BY <1>5 DEF IndInv, Records, GoodRecord, service_record
  <2>3. /\ Registered' = Registered
        /\ \A t \in Registered \ {s} :
             services_db'[t].request_records = services_db[t].request_records
        /\ services_db'[s].request_records = records
    <3> HIDE DEF records
    <3> QED
      BY <1>5, <2>1, NewRequests
  <2>4. CASE Matching(before, c) = {}
    <3>1. records = before
      BY <2>4, PushNone
    <3> QED
      BY <1>2, <2>1, <2>3, <3>1, CallFrame
  <2>5. CASE Matching(before, c) # {}
    <3>1. PICK q \in before : q.client_id = c
      BY <2>5 DEF Matching
    <3>2. /\ q \in request_record_t /\ c \in Client
          /\ Only(before, c, q) /\ Pending(c) = {<<s, q>>}
          /\ router_in[c] = <<>> /\ router_out[c] = <<>>
          /\ client[c].status # "idle"
      BY <1>2, <1>5, <3>1, OnlyRequest
    <3> DEFINE p == WithResult(q, v)
    <3>3. /\ records = (before \ {q}) \cup {p} /\ Only(records, c, p)
          /\ p \in request_record_t /\ p.client_id = c
          /\ p.results = Append(q.results, v) /\ q.results \in Seq(Int)
      <4>1. records = (before \ {q}) \cup {p} /\ Only(records, c, p)
        <5>1. Only(before, c, q) /\ v \in Int
          BY <1>2, <3>2
        <5> HIDE DEF before
        <5> QED
          BY <2>2, <5>1, PushOnly
      <4>2. /\ p \in request_record_t /\ p.client_id = c
            /\ p.results = Append(q.results, v)
        BY <1>2, <3>1, <3>2, WithResultType
      <4>3. q.results \in Seq(Int)
        BY <3>2 DEF request_record_t
      <4> QED
        BY <4>1, <4>2, <4>3
    <3>4. results = p.results
      <4>1. p.seq \in Nat
        BY <3>3 DEF request_record_t
      <4> HIDE DEF p, records
      <4> QED
        BY <3>3, <4>1, GetOnly
    <3>5. Len(q.results) < NMR /\ Undecided
      BY <1>2, <1>5 DEF Calls, Undecided
    <3>6. vote(p.results) = NO_MAJORITY /\ Len(p.results) < NMR
      <4>1. p.results \in Seq(Int) /\ Len(p.results) <= NMR
        <5> HIDE DEF p
        <5> QED
          BY <1>2, <3>3, <3>5, NMRAssumption
      <4> HIDE DEF p, results
      <4> QED
        BY <1>5, <3>4, <4>1, NotAnswerable
    <3> HIDE DEF p, records, results, before
    <3>7. Replaces(services_db, services_db', s, c, {p})
      <4>1. {r \in before : r.client_id # c} = before \ {q}
        BY <3>2 DEF Matching, Only
      <4>2. Held(services_db, c) \subseteq {<<s, r>> : r \in services_db[s].request_records}
        BY <3>1, <3>2, PendingHeld DEF before
      <4>3. /\ DOMAIN services_db' = DOMAIN services_db /\ s \in DOMAIN services_db
            /\ \A t \in DOMAIN services_db \ {s} :
                 services_db'[t].request_records = services_db[t].request_records
        BY <1>5, <2>3 DEF Registered
      <4>4. services_db'[s].request_records
              = {r \in services_db[s].request_records : r.client_id # c} \cup {p}
        BY <2>3, <3>3, <4>1 DEF before
      <4> QED
        BY <3>3, <4>2, <4>3, <4>4 DEF Replaces
    <3>8. Pending(c)' = {<<s, p>>} /\ \A d : d # c => Pending(d)' = Pending(d)
      BY <3>7, HeldReplace, PendingHeld
    <3>9. \A d \in Client : CallState(d, loss)'
      <4> SUFFICES ASSUME NEW d \in Client PROVE CallState(d, loss)'
        OBVIOUS
      <4>1. CASE d = c
        <5>1. /\ router_in'[d] = <<>> /\ router_out'[d] = <<>>
              /\ client'[d].status # "idle" /\ Pending(d)' = {<<s, p>>}
          BY <1>2, <2>1, <3>2, <3>8, <4>1
        <5> QED
          BY <5>1 DEF CallState
      <4>2. CASE d # c
        <5>1. CallState(d, loss)
          BY <1>2 DEF Calls
        <5> QED
          BY <1>2, <2>1, <3>8, <4>2, <5>1 DEF CallState
      <4> QED
        BY <4>1, <4>2
    <3>10. Undecided'
      <4> SUFFICES ASSUME NEW t \in Registered, NEW r \in services_db'[t].request_records
                   PROVE  Len(r.results) < NMR /\ vote(r.results) = NO_MAJORITY
        BY <2>3 DEF Undecided
      <4>1. r = p \/ r \in services_db[t].request_records
        BY <2>3, <3>3 DEF before
      <4> QED
        BY <3>5, <3>6, <4>1 DEF Undecided
    <3>11. ConnectedLive'
      BY <1>2 DEF ConnectedLive
    <3> QED
      BY <1>2, <2>1, <3>9, <3>10, <3>11 DEF Calls
  <2> QED
    BY <2>4, <2>5
<1> QED
  BY <1>3, <1>4, <1>5

(* Marking the only request of a client as expired does not hide it from   *)
(* delete_request.                                                         *)
LEMMA ExpireOnly ==
  ASSUME NEW R \in SUBSET request_record_t, NEW c, NEW q, Only(R, c, q)
  PROVE  delete_request(Expire(R, q), c) = R \ {q}
<1> DEFINE p == [q EXCEPT !.expired = TRUE]
<1>1. q \in R /\ q \in request_record_t /\ q.client_id = c
      /\ \A r \in R : r.client_id = c => r = q
  BY DEF Matching, Only
<1>2. p.seq \in Nat /\ p.client_id = c
  BY <1>1 DEF request_record_t
<1>3. Expire(R, q) = (R \ {q}) \cup {p}
  BY DEF Expire
<1> HIDE DEF p
<1>4. Only(Expire(R, q), c, p)
  BY <1>1, <1>2, <1>3 DEF Matching, Only
<1>5. delete_request(Expire(R, q), c) = Expire(R, q) \ {p}
  BY <1>2, <1>4, DeleteOnly
<1> QED
  BY <1>1, <1>2, <1>3, <1>5

(* A request has expired and is answered.                                  *)
LEMMA ExpiredCalls ==
  ASSUME IndInv, NEW loss, ConnectedLive, Calls(loss), UNCHANGED <<server, client>>,
         RightService, NEW i \in DOMAIN available_services,
         NEW q \in services_db[available_services[i]].request_records,
         CheckPendingRequest(i, q)
  PROVE  ConnectedLive' /\ Calls(loss)'
<1>0. PICK s : s = available_services[i]
  OBVIOUS
<1> DEFINE c == q.client_id
           before == services_db[s].request_records
           response == IF vote(q.results) >= 0 THEN Available(q.results[vote(q.results) + 1])
                       ELSE Failure("NOT_RELIABLE")
<1>1. Respond(c, response) /\ broker = "up" /\ UNCHANGED <<connected, router_in>>
  BY DEF CheckPendingRequest
<1>2. s \in Registered /\ q \in before
  BY <1>0, LenProperties DEF IndInv, TypeOK, BrokerTypeOK, Route, Tables
<1> HIDE DEF response
<1>3. CASE ExpiredFrom(i) \in Registered
  <2>1. ExpiredFrom(i) = s
    BY <1>0, <1>3 DEF RightService
  <2> DEFINE expired == [services_db EXCEPT ![s].request_records = Expire(@, q)]
  <2>2. services_db' = [expired EXCEPT ![s].request_records = delete_request(@, c)]
        /\ broker' = AfterResponse(c)
    BY <1>0, <1>3, <2>1 DEF CheckPendingRequest
  <2>3. services_db \in [Registered -> service_record] /\ services_db[s] \in service_record
    BY <1>2 DEF IndInv, TypeOK, BrokerTypeOK, Registered
  <2>4. before \in SUBSET request_record_t /\ Only(before, c, q)
    BY <1>1, <1>2, <2>3, OnlyRequest DEF service_record
  <2>5. /\ DOMAIN expired = Registered
        /\ \A t \in Registered \ {s} : expired[t] = services_db[t]
        /\ expired[s] = [services_db[s] EXCEPT !.request_records = Expire(before, q)]
    BY <1>2, <2>3
  <2>6. expired[s].request_records = Expire(before, q)
        /\ "request_records" \in DOMAIN expired[s]
    BY <2>3, <2>5 DEF service_record
  <2> HIDE DEF expired
  <2>7. /\ DOMAIN services_db' = Registered
        /\ \A t \in Registered \ {s} : services_db'[t] = expired[t]
        /\ services_db'[s].request_records = delete_request(Expire(before, q), c)
    BY <1>2, <2>2, <2>5, <2>6
  <2>8. delete_request(Expire(before, q), c) = before \ {q}
    <3> HIDE DEF before, c
    <3> QED
      BY <2>4, ExpireOnly
  <2>9. broker' = "up" =>
          /\ c \in connected
          /\ Registered' = Registered
          /\ \A t \in Registered \ {s} :
               services_db'[t].request_records = services_db[t].request_records
          /\ services_db'[s].request_records = services_db[s].request_records \ {q}
    BY <2>2, <2>5, <2>7, <2>8 DEF AfterResponse, Registered
  <2> QED
    BY <1>1, <1>2, <2>9, AnswerCall
<1>4. CASE ExpiredFrom(i) \notin Registered
  <2>1. broker' # "up"
    BY <1>4 DEF CheckPendingRequest
  <2> QED
    BY <1>1, <1>2, <2>1, AnswerCall
<1> QED
  BY <1>3, <1>4

-----------------------------------------------------------------------------
(* The clients *)

(* A step of client c, with the call of every other client as it was.      *)
LEMMA ClientCalls ==
  ASSUME NEW loss, ConnectedLive', Calls(loss), UNCHANGED brokerVars,
         NEW c \in Client,
         \A d \in Client \ {c} :
            /\ router_in'[d] = router_in[d] /\ router_out'[d] = router_out[d]
            /\ client'[d] = client[d],
         Pending(c)' = Pending(c) =>
           /\ CallState(c, loss) => CallState(c, loss)'
           /\ QueueState(c) => QueueState(c)'
  PROVE  Calls(loss)'
<1>1. UNCHANGED <<broker, services_db>>
  BY DEF brokerVars
<1>2. \A d : Pending(d)' = Pending(d)
  BY <1>1 DEF Pending, Registered
<1>3. Undecided => Undecided'
  BY <1>1 DEF Undecided, Registered
<1>4. ASSUME NEW d \in Client, CallState(d, loss) PROVE CallState(d, loss)'
  <2>1. CASE d = c
    BY <1>2, <1>4, <2>1
  <2>2. CASE d # c
    BY <1>2, <1>4, <2>2 DEF CallState
  <2> QED
    BY <2>1, <2>2
<1>5. ASSUME NEW d \in Client, QueueState(d) PROVE QueueState(d)'
  <2>1. CASE d = c
    BY <1>2, <1>5, <2>1
  <2>2. CASE d # c
    BY <1>2, <1>5, <2>2 DEF QueueState
  <2> QED
    BY <2>1, <2>2
<1>6. CASE broker = "up"
  BY <1>1, <1>3, <1>4, <1>6 DEF Calls
<1>7. CASE broker # "up"
  BY <1>1, <1>5, <1>7 DEF Calls
<1> QED
  BY <1>6, <1>7

(* A call begins with empty queues, returns with the only response, and    *)
(* leaves none behind when its client goes.                                *)
LEMMA ClientStepCalls ==
  ASSUME IndInv, NEW loss, ConnectedLive, Calls(loss), UNCHANGED <<brokerVars, server>>,
         ClientStep
  PROVE  ConnectedLive' /\ Calls(loss)'
<1>1. PICK c \in Client :
        \/ \E s \in Service, p \in Parameters[c] : RequestService(c, s, p)
        \/ ReceiveResponse(c)
        \/ Leave(c)
  BY DEF ClientStep
<1> DEFINE Call == [status: {"idle", "waiting", "gone"},
                    service: Service \cup {SERVICE_NOT_FOUND},
                    parameters: Int, requests: Nat]
<1>2. /\ router_in \in [Client -> Seq(request_module)]
      /\ router_out \in [Client -> Seq(response_module)]
      /\ client \in [Client -> Call]
  BY DEF IndInv, TypeOK, NetTypeOK, ClientTypeOK
<1>3. client[c] \in Call /\ DOMAIN client[c] = {"status", "service", "parameters", "requests"}
  BY <1>2
<1> HIDE DEF Call
<1>4. CASE \E s \in Service, p \in Parameters[c] : RequestService(c, s, p)
  <2>1. PICK s \in Service, p \in Parameters[c] : RequestService(c, s, p)
    BY <1>4
  <2>2. /\ client[c].status = "idle" /\ client'[c].status = "waiting"
        /\ router_in'[c] = Append(router_in[c], [service |-> s, parameters |-> p])
        /\ router_out'[c] = <<>> /\ UNCHANGED connected
        /\ \A d \in Client \ {c} :
             /\ router_in'[d] = router_in[d] /\ router_out'[d] = router_out[d]
             /\ client'[d] = client[d]
    BY <1>2, <2>1 DEF RequestService
  <2>3. ConnectedLive'
    BY <2>2 DEF ConnectedLive
  <2>4. router_in[c] = <<>> => Len(router_in'[c]) = 1
    BY <2>2
  <2>5. QueueState(c) => QueueState(c)'
    BY <2>2, <2>4 DEF QueueState
  <2>6. Pending(c)' = Pending(c) /\ CallState(c, loss) => CallState(c, loss)'
    BY <2>2, <2>4 DEF CallState
  <2> QED
    BY <2>2, <2>3, <2>5, <2>6, ClientCalls
<1>5. CASE ReceiveResponse(c)
  <2>1. /\ client[c].status = "waiting" /\ client'[c].status = "idle"
        /\ router_out[c] # <<>> /\ router_out'[c] = Tail(router_out[c])
        /\ UNCHANGED <<connected, router_in>>
        /\ \A d \in Client \ {c} :
             /\ router_in'[d] = router_in[d] /\ router_out'[d] = router_out[d]
             /\ client'[d] = client[d]
    BY <1>2, <1>3, <1>5 DEF ReceiveResponse
  <2>2. ConnectedLive'
    BY <2>1 DEF ConnectedLive
  <2>3. Len(router_out[c]) = 1 => router_out'[c] = <<>>
    <3>1. router_out[c] \in Seq(response_module)
      BY <1>2
    <3>2. Tail(router_out[c]) \in Seq(response_module)
          /\ Len(Tail(router_out[c])) = Len(router_out[c]) - 1
      BY <2>1, <3>1, HeadTailProperties
    <3>3. Len(router_out[c]) = 1 => Len(Tail(router_out[c])) = 0
      BY <3>2
    <3>4. Len(router_out[c]) = 1 => Tail(router_out[c]) = <<>>
      BY <3>2, <3>3, EmptySeq
    <3> QED
      BY <2>1, <3>4
  <2>4. QueueState(c) => QueueState(c)'
    BY <2>1, <2>3 DEF QueueState
  <2>5. Pending(c)' = Pending(c) /\ CallState(c, loss) => CallState(c, loss)'
    BY <2>1, <2>3 DEF CallState
  <2> QED
    BY <2>1, <2>2, <2>4, <2>5, ClientCalls
<1>6. CASE Leave(c)
  <2>1. /\ client'[c].status = "gone" /\ connected' = connected \ {c}
        /\ router_out'[c] = <<>> /\ UNCHANGED router_in
        /\ \A d \in Client \ {c} :
             /\ router_in'[d] = router_in[d] /\ router_out'[d] = router_out[d]
             /\ client'[d] = client[d]
    BY <1>2, <1>3, <1>6 DEF Leave
  <2>2. ConnectedLive'
    BY <2>1 DEF ConnectedLive
  <2>3. QueueState(c) => QueueState(c)'
    BY <2>1 DEF QueueState
  <2>4. Pending(c)' = Pending(c) /\ CallState(c, loss) => CallState(c, loss)'
    BY <2>1 DEF CallState
  <2> QED
    BY <2>1, <2>2, <2>3, <2>4, ClientCalls
<1> QED
  BY <1>1, <1>4, <1>5, <1>6

-----------------------------------------------------------------------------
(* Every step keeps calls in one place.                                    *)
LEMMA NextCalls ==
  ASSUME IndInv, NEW loss, ConnectedLive, Calls(loss), RightService, [Next]_vars
  PROVE  ConnectedLive' /\ Calls(loss)'
<1>1. CASE BrokerStep /\ UNCHANGED <<server, client>>
  <2>1. CASE get_registration
    BY <1>1, <2>1, RegistrationCalls
  <2>2. CASE \E c \in Client : get_request(c)
    BY <1>1, <2>2, RefusedCalls, StoredCalls DEF get_request
  <2>3. CASE \E k \in Copy : get_response(k)
    BY <1>1, <2>3, PongCalls, ResultCalls DEF get_response
  <2>4. CASE \E i \in DOMAIN available_services : Heartbeat(i)
    BY <1>1, <2>4, HeartbeatCalls
  <2>5. CASE check_pending_requests
    BY <1>1, <2>5, ExpiredCalls DEF check_pending_requests
  <2> QED
    BY <1>1, <2>1, <2>2, <2>3, <2>4, <2>5 DEF BrokerStep
<1>2. CASE CopyStep /\ UNCHANGED <<brokerVars, client>>
  <2>1. UNCHANGED <<connected, router_in, router_out>>
    BY <1>2 DEF CopyStep, ServerStep, PongBroker, CreateThread, DuplicateRequest,
                TaskDone, OrphanAnswers, OrphanThrows, SendRegistration,
                RegistrationOk, RegistrationError, MissesPing, PingTimeout, Kill,
                Dies, Revive, Restart, Relaunch, netVars
  <2> QED
    BY <1>2, <2>1, CallStutter DEF brokerVars
<1>3. CASE ClientStep /\ UNCHANGED <<brokerVars, server>>
  BY <1>3, ClientStepCalls
<1>4. CASE \E k \in Copy : \E i \in DOMAIN dealer : AttachTo(k, i)
  BY <1>4, CallStutter DEF AttachTo, brokerVars
<1>5. CASE UNCHANGED vars
  BY <1>5, CallStutter DEF vars, netVars, brokerVars
<1> QED
  BY <1>1, <1>2, <1>3, <1>4, <1>5 DEF Next

(* Only a client that leaves disconnects from the ROUTER socket.           *)
LEMMA NextConnected == ConnectedLive /\ TypeOK /\ [Next]_vars => ConnectedLive'
<1> SUFFICES ASSUME ConnectedLive, TypeOK, [Next]_vars PROVE ConnectedLive'
  OBVIOUS
<1>1. CASE UNCHANGED <<connected, client>>
  BY <1>1 DEF ConnectedLive
<1>2. CASE ClientStep
  <2>1. PICK c \in Client :
          \/ \E s \in Service, p \in Parameters[c] : RequestService(c, s, p)
          \/ ReceiveResponse(c)
          \/ Leave(c)
    BY <1>2 DEF ClientStep
  <2>2. client \in [Client -> [status: {"idle", "waiting", "gone"},
                               service: Service \cup {SERVICE_NOT_FOUND},
                               parameters: Int, requests: Nat]]
    BY DEF TypeOK, ClientTypeOK
  <2>3. \A d \in Client \ {c} : client'[d] = client[d]
    BY <2>1, <2>2 DEF RequestService, ReceiveResponse, Leave
  <2>4. CASE Leave(c)
    <3>1. client'[c].status = "gone" /\ connected' = connected \ {c}
      BY <2>2, <2>4 DEF Leave
    <3> QED
      BY <2>3, <3>1 DEF ConnectedLive
  <2>5. CASE ReceiveResponse(c)
    <3>1. client[c].status # "gone" /\ client'[c].status # "gone" /\ UNCHANGED connected
      BY <2>2, <2>5 DEF ReceiveResponse
    <3> QED
      BY <2>3, <3>1 DEF ConnectedLive
  <2>6. CASE \E s \in Service, p \in Parameters[c] : RequestService(c, s, p)
    <3>1. PICK s \in Service, p \in Parameters[c] : RequestService(c, s, p)
      BY <2>6
    <3>2. client[c].status # "gone" /\ UNCHANGED connected
      BY <3>1 DEF RequestService
    <3>3. client'[c].status = "waiting"
      BY <2>2, <3>1 DEF RequestService
    <3> QED
      BY <2>3, <3>2, <3>3 DEF ConnectedLive
  <2> QED
    BY <2>1, <2>4, <2>5, <2>6
<1>3. CASE BrokerStep /\ UNCHANGED <<server, client>>
  <2>1. UNCHANGED connected
    BY <1>3, ZenonT(60) DEF BrokerStep, get_registration, GetFirstRegistration,
                GetFurtherRegistration, RefuseRegistration, TakeRegistration,
                get_request, GetRequestNotAvailable, GetRequest, GetRequestUndefined,
                TakeRequest, get_response, GetPong, GetDuplicate, GetResult, TakeReply,
                Heartbeat, HeartbeatTimeout, check_pending_requests, CheckPendingRequest
  <2> QED
    BY <1>1, <1>3, <2>1
<1>4. CASE CopyStep /\ UNCHANGED <<brokerVars, client>>
  <2>1. UNCHANGED connected
    BY <1>4 DEF CopyStep, ServerStep, PongBroker, CreateThread, DuplicateRequest,
                TaskDone, OrphanAnswers, OrphanThrows, SendRegistration,
                RegistrationOk, RegistrationError, MissesPing, PingTimeout, Kill,
                Dies, Revive, Restart, Relaunch, netVars
  <2> QED
    BY <1>1, <1>4, <2>1
<1>5. CASE \E k \in Copy : \E i \in DOMAIN dealer : AttachTo(k, i)
  BY <1>1, <1>5 DEF AttachTo
<1>6. CASE UNCHANGED vars
  BY <1>1, <1>6 DEF vars, netVars
<1> QED
  BY <1>2, <1>3, <1>4, <1>5, <1>6 DEF Next

(* Services that are out of order stay so: available_services only grows.  *)
LEMMA OrderBefore ==
  ASSUME TypeOK, [Next]_vars, InOrder'
  PROVE  InOrder
<1>1. CASE UNCHANGED available_services
  BY <1>1 DEF InOrder
<1>2. CASE \E s \in Service : available_services' = Append(available_services, s)
  <2>1. PICK s \in Service : available_services' = Append(available_services, s)
    BY <1>2
  <2>2. available_services \in Seq(Service)
    BY DEF TypeOK, BrokerTypeOK
  <2>3. \A i \in DOMAIN available_services :
          i \in DOMAIN available_services' /\ available_services'[i] = available_services[i]
    BY <2>1, <2>2, AppendProperties, LenProperties
  <2> QED
    BY <2>3 DEF InOrder
<1>3. CASE BrokerStep
  <2>1. CASE get_registration
    <3>1. PICK k \in Copy, live \in BOOLEAN :
            \/ GetFirstRegistration(k, live)
            \/ GetFurtherRegistration(k, live)
            \/ RefuseRegistration(k, live)
      BY <2>1 DEF get_registration
    <3>2. k[1] \in Service
      BY DEF Copy
    <3> QED
      BY <1>1, <1>2, <3>1, <3>2
         DEF GetFirstRegistration, GetFurtherRegistration, RefuseRegistration
  <2>2. CASE ~get_registration
    BY <1>1, <1>3, <2>2
       DEF BrokerStep, get_request, GetRequestNotAvailable, GetRequest,
           GetRequestUndefined, TakeRequest, get_response, GetPong, GetDuplicate,
           GetResult, TakeReply, Heartbeat, HeartbeatTimeout,
           check_pending_requests, CheckPendingRequest
  <2> QED
    BY <2>1, <2>2
<1>4. CASE UNCHANGED brokerVars
  BY <1>1, <1>4 DEF brokerVars
<1> QED
  BY <1>3, <1>4 DEF Next, vars, AttachTo

(* The invariant is inductive.                                             *)
LEMMA NextCallInv == IndInv /\ CallInv /\ [Next]_vars => CallInv'
<1> SUFFICES ASSUME IndInv, CallInv, [Next]_vars PROVE CallInv'
  OBVIOUS
<1>1. TypeOK /\ ConnectedLive
  BY DEF IndInv, CallInv
<1>2. ConnectedLive'
  BY <1>1, NextConnected
<1>3. ASSUME InOrder' PROVE Calls(FALSE)'
  <2>1. InOrder
    BY <1>1, <1>3, OrderBefore
  <2> QED
    BY <1>1, <2>1, OrderRight, NextCalls DEF CallInv
<1> QED
  BY <1>2, <1>3 DEF CallInv

(* One place is what OneAnswer counts.                                     *)
LEMMA CallPlaces ==
  ASSUME TypeOK, ConnectedLive, NEW loss \in BOOLEAN, NEW c \in connected,
         CallState(c, loss)
  PROVE  LET places == Len(router_in[c]) + Cardinality(Pending(c)) + Len(router_out[c])
         IN  \/ places = (IF client[c].status = "waiting" THEN 1 ELSE 0)
             \/ loss /\ places = 0
<1>1. c \in Client /\ client[c].status \in {"idle", "waiting"}
  BY DEF TypeOK, NetTypeOK, ClientTypeOK, ConnectedLive
<1>2. Cardinality({}) = 0 /\ \A x : Cardinality({x}) = 1
  BY FS_EmptySet, FS_Singleton
<1>3. Len(<<>>) = 0
  OBVIOUS
<1>4. CASE Pending(c) = {}
  <2>1. Cardinality(Pending(c)) = 0
    BY <1>2, <1>4
  <2>2. CASE router_in[c] = <<>> /\ router_out[c] = <<>>
    <3>1. client[c].status = "waiting" => loss
      BY <1>3, <1>4, <2>2 DEF CallState
    <3> QED
      BY <1>1, <1>3, <2>1, <2>2, <3>1
  <2>3. CASE ~(router_in[c] = <<>> /\ router_out[c] = <<>>)
    <3>1. /\ \/ Len(router_in[c]) = 0 /\ Len(router_out[c]) = 1
             \/ Len(router_in[c]) = 1 /\ Len(router_out[c]) = 0
          /\ client[c].status = "waiting"
      BY <1>1, <1>3, <1>4, <2>3 DEF CallState
    <3>2. CASE Len(router_in[c]) = 0 /\ Len(router_out[c]) = 1
      BY <2>1, <3>1, <3>2
    <3>3. CASE Len(router_in[c]) = 1 /\ Len(router_out[c]) = 0
      BY <2>1, <3>1, <3>3
    <3> QED
      BY <3>1, <3>2, <3>3
  <2> QED
    BY <2>2, <2>3
<1>5. CASE \E x \in Pending(c) : Pending(c) = {x}
  <2>1. Cardinality(Pending(c)) = 1
    BY <1>2, <1>5
  <2>2. router_in[c] = <<>> /\ router_out[c] = <<>> /\ client[c].status = "waiting"
    BY <1>1, <1>5 DEF CallState
  <2> QED
    BY <1>3, <2>1, <2>2
<1> QED
  BY <1>4, <1>5 DEF CallState

(* A call of request_service is, at every moment, in exactly one place: a  *)
(* timeout racing the last result never answers twice, get_response and    *)
(* check_pending_requests never both drop it, and nothing is left over for *)
(* the next call.                                                          *)
THEOREM OneAnswerCorrect == Spec => []OneAnswer
<1>1. IndInv /\ CallInv => OneAnswer
  <2> SUFFICES ASSUME IndInv, CallInv, broker = "up", InOrder, NEW c \in connected
               PROVE  Len(router_in[c]) + Cardinality(Pending(c)) + Len(router_out[c])
                        = IF client[c].status = "waiting" THEN 1 ELSE 0
    BY DEF OneAnswer
  <2>1. CallState(c, FALSE)
    BY DEF CallInv, Calls, IndInv, TypeOK, NetTypeOK
  <2> QED
    BY <2>1, CallPlaces DEF IndInv, CallInv
<1> QED
  BY <1>1, InitIndInv, NextIndInv, InitCalls, NextCallInv, PTL DEF Spec

(* A request that waits in the table has fewer than NMR results and no     *)
(* majority among them, whatever order results, timeouts and crashes come  *)
(* in: the handler of the result that decides it also answers it.          *)
THEOREM NoSilentMajorityCorrect == Spec => []NoSilentMajority
<1>1. CallInv => NoSilentMajority
  BY DEF CallInv, Calls, Undecided, NoSilentMajority
<1> QED
  BY <1>1, InitIndInv, NextIndInv, InitCalls, NextCallInv, PTL DEF Spec
=============================================================================
