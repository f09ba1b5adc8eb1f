------------------------- MODULE ReliabilityProofs --------------------------
(***************************************************************************)
(* What makes a service reliable: the results of a minority of faulty      *)
(* copies are masked, and no client is given the result of another.        *)
(*                                                                         *)
(* Proved for clients that make one call: a result that comes late counts  *)
(* for the next call of the same client.  And for copies that lose no      *)
(* socket under a thread of theirs (NoOrphans), which is what the timing   *)
(* of the code is to achieve.                                              *)
(*                                                                         *)
(* And what keeps the copies known to the broker: the heartbeats reach     *)
(* every copy that is connected and count out none that is serving.        *)
(*                                                                         *)
(* Together they make the framework an implementation of ReliableService.  *)
(***************************************************************************)
EXTENDS CallProofs, RSFImplements

-----------------------------------------------------------------------------
(* What a copy has to do with the call of a client: server is the state of *)
(* its process, in and out what is on its way to and from it.              *)

IsCall(m, c) == ~m.heartbeat /\ m.client = c
IsAnswer(m, c) == ~m.heartbeat /\ ~m.duplicated /\ m.client = c

Serves(process, c) == process.busy /\ process.client = c
Answers(out, c) == {x \in DOMAIN out : IsAnswer(out[x], c)}

(* The copies of the request in the queue that will be told to be          *)
(* duplicates.                                                             *)
AllPast(process, in, c) ==
  \A x \in DOMAIN in :
    IsCall(in[x], c) => process.request_id # 0 /\ process.request_id > in[x].seq_id

(* Nothing of the client has reached the copy yet, or anything.            *)
Silent(process, in, out, c) ==
  ~Serves(process, c) /\ Answers(out, c) = {} /\ \A x \in DOMAIN in : ~IsCall(in[x], c)

(* The copy will give no more results to the call.                         *)
Spent(process, in, out, c) ==
  ~Serves(process, c) /\ Answers(out, c) = {} /\ AllPast(process, in, c)

(* It gives at most one.                                                   *)
AtMostOnce(process, in, out, c) ==
  /\ \A x, y \in DOMAIN in :
       IsCall(in[x], c) /\ IsCall(in[y], c) => in[x].seq_id = in[y].seq_id
  /\ Serves(process, c) => Answers(out, c) = {}
  /\ \A x, y \in Answers(out, c) : x = y
  /\ Serves(process, c) \/ Answers(out, c) # {} => AllPast(process, in, c)

(* It is about the parameters p of the call, and right unless the copy is  *)
(* faulty.                                                                 *)
Honest(k, process, in, out, c, p) ==
  /\ \A x \in DOMAIN in : IsCall(in[x], c) => in[x].parameters = p
  /\ Serves(process, c) => process.parameters = p
  /\ k \notin Faulty => \A x \in Answers(out, c) : out[x].result = service_body(k[1], p)

-----------------------------------------------------------------------------
(* The one call of a client, in the states of the framework *)

SpentCopy(k, c) == Spent(server[k], inbox[k], outbox[k], c)
FaultyOf(s) == {k \in Faulty : k[1] = s}
SpentFaulty(s, c) == {k \in FaultyOf(s) : SpentCopy(k, c)}
Wrong(results, right) == {x \in DOMAIN results : results[x] # right}

(* The wrong results of a request are those of faulty copies, one each.    *)
Masked(c) ==
  \A s \in Registered : \A r \in Matching(services_db[s].request_records, c) :
    /\ s = client[c].service
    /\ Cardinality(Wrong(r.results, service_body(s, client[c].parameters)))
         <= Cardinality(SpentFaulty(s, c))

GoodResponse(call) ==
  {Available(service_body(call.service, call.parameters)),
   Failure("NOT_AVAILABLE"), Failure("NOT_RELIABLE")}

Unheard(c) ==
  /\ \A s \in Registered : Matching(services_db[s].request_records, c) = {}
  /\ \A k \in Copy : Silent(server[k], inbox[k], outbox[k], c)

CallSound(c) ==
  /\ client[c].requests <= 1
  /\ client[c].requests = 0 => router_in[c] = <<>> /\ client[c].status # "waiting"
  /\ router_in[c] # <<>> => Len(router_in[c]) = 1
  /\ client[c].requests = 0 \/ router_in[c] # <<>> => Unheard(c)
  /\ \A k \in Copy : AtMostOnce(server[k], inbox[k], outbox[k], c)
  /\ client[c].status = "waiting" =>
       /\ router_in[c] # <<>> =>
            Head(router_in[c]) = [service |-> client[c].service,
                                  parameters |-> client[c].parameters]
       /\ \A k \in Copy :
            Honest(k, server[k], inbox[k], outbox[k], c, client[c].parameters)
       /\ Masked(c)
       /\ \A x \in DOMAIN router_out[c] : router_out[c][x] \in GoodResponse(client[c])

(* A process that has ended has no messages.                               *)
DeadEmpty == \A k \in Copy : ~server[k].up => inbox[k] = <<>> /\ ~server[k].busy

MaskInv == DeadEmpty /\ \A c \in Client : CallSound(c)

(* No thread has had its socket deleted under it.                          *)
NoOrphans == \A k \in Copy : server[k].orphans = {}

(* Faulty copies are never a majority of NMR.                              *)
MinorityFaulty == \A s \in Service : Cardinality(FaultyOf(s)) <= NMR \div 2

-----------------------------------------------------------------------------
(* Steps of one copy.  The queue in2 has no request of c that in has not,  *)
(* and out2 no answer that out has not at the same distance.               *)
FewerCalls(in2, in, c) ==
  \A x \in DOMAIN in2 : IsCall(in2[x], c) => \E y \in DOMAIN in : in2[x] = in[y]

FewerAnswers(out2, out, c) ==
  \E d \in Nat : \A x \in DOMAIN out2 :
    IsAnswer(out2[x], c) => x + d \in DOMAIN out /\ out2[x] = out[x + d]

Keeps(k, c, process, in, out, process2, in2, out2) ==
  AtMostOnce(process, in, out, c) =>
    /\ AtMostOnce(process2, in2, out2, c)
    /\ \A p \in Int : Honest(k, process, in, out, c, p)
                        => Honest(k, process2, in2, out2, c, p)
    /\ Spent(process, in, out, c) => Spent(process2, in2, out2, c)
    /\ Silent(process, in, out, c) => Silent(process2, in2, out2, c)

LEMMA FewerPast ==
  ASSUME NEW process, NEW process2, NEW in, NEW in2, NEW c, FewerCalls(in2, in, c),
         process2.request_id = process.request_id, AllPast(process, in, c)
  PROVE  AllPast(process2, in2, c)
BY DEF FewerCalls, AllPast

LEMMA FewerAnswered ==
  ASSUME NEW out \in Seq(server_reply_t), NEW out2 \in Seq(server_reply_t), NEW c,
         FewerAnswers(out2, out, c)
  PROVE  /\ Answers(out, c) = {} => Answers(out2, c) = {}
         /\ (\A x, y \in Answers(out, c) : x = y) => \A x, y \in Answers(out2, c) : x = y
         /\ \A x \in Answers(out2, c) : \E y \in Answers(out, c) : out2[x] = out[y]
<1>1. PICK d \in Nat : \A x \in DOMAIN out2 :
        IsAnswer(out2[x], c) => x + d \in DOMAIN out /\ out2[x] = out[x + d]
  BY DEF FewerAnswers
<1>2. \A x \in Answers(out2, c) : x + d \in Answers(out, c) /\ out2[x] = out[x + d] /\ x \in Nat
  BY <1>1 DEF Answers
<1> QED
  BY <1>2

(* Messages are dropped, taken by the broker, answered otherwise or not    *)
(* for this client.                                                        *)
LEMMA FewerKeeps ==
  ASSUME NEW k \in Copy, NEW c \in Client,
         NEW process \in Process, NEW process2 \in Process,
         NEW in \in Seq(service_module), NEW in2 \in Seq(service_module),
         NEW out \in Seq(server_reply_t), NEW out2 \in Seq(server_reply_t),
         FewerCalls(in2, in, c), FewerAnswers(out2, out, c),
         process2.busy => /\ process.busy
                          /\ process2.client = process.client
                          /\ process2.parameters = process.parameters,
         in2 = <<>> \/ process2.request_id = process.request_id
  PROVE  Keeps(k, c, process, in, out, process2, in2, out2)
<1>1. Serves(process2, c) => Serves(process, c) /\ process2.parameters = process.parameters
  BY DEF Serves
<1>2. AllPast(process, in, c) => AllPast(process2, in2, c)
  <2>1. CASE in2 = <<>>
    BY <2>1 DEF AllPast
  <2> QED
    BY <2>1, FewerPast
<1>3. /\ Answers(out, c) = {} => Answers(out2, c) = {}
      /\ (\A x, y \in Answers(out, c) : x = y) => \A x, y \in Answers(out2, c) : x = y
      /\ \A x \in Answers(out2, c) : \E y \in Answers(out, c) : out2[x] = out[y]
  BY FewerAnswered
<1>4. AtMostOnce(process, in, out, c) => AtMostOnce(process2, in2, out2, c)
  BY <1>1, <1>2, <1>3 DEF AtMostOnce, FewerCalls
<1>5. ASSUME NEW p \in Int, Honest(k, process, in, out, c, p)
      PROVE  Honest(k, process2, in2, out2, c, p)
  BY <1>1, <1>3, <1>5 DEF Honest, FewerCalls
<1> QED
  BY <1>1, <1>2, <1>3, <1>4, <1>5 DEF Keeps, Spent, Silent, FewerCalls

(* The queues of the copies. *)
LEMMA SameQueues ==
  ASSUME NEW in, NEW out \in Seq(server_reply_t), NEW c
  PROVE  FewerCalls(in, in, c) /\ FewerCalls(<<>>, in, c) /\ FewerAnswers(out, out, c)
<1>1. \A x \in DOMAIN out : x + 0 = x
  OBVIOUS
<1>2. 0 \in Nat
  OBVIOUS
<1> QED
  BY <1>1, <1>2 DEF FewerCalls, FewerAnswers

LEMMA TailQueue ==
  ASSUME NEW S, NEW q \in Seq(S), q # <<>>
  PROVE  /\ Tail(q) \in Seq(S)
         /\ \A x \in DOMAIN Tail(q) : x + 1 \in DOMAIN q /\ Tail(q)[x] = q[x + 1]
         /\ Head(q) = q[1] /\ 1 \in DOMAIN q /\ Head(q) \in S
OBVIOUS

LEMMA TailCalls ==
  ASSUME NEW in \in Seq(service_module), in # <<>>, NEW c
  PROVE  FewerCalls(Tail(in), in, c)
BY TailQueue DEF FewerCalls

LEMMA TailAnswers ==
  ASSUME NEW out \in Seq(server_reply_t), out # <<>>, NEW c
  PROVE  FewerAnswers(Tail(out), out, c)
<1>1. 1 \in Nat
  OBVIOUS
<1> QED
  BY <1>1, TailQueue DEF FewerAnswers

LEMMA PrefixAnswers ==
  ASSUME NEW out \in Seq(server_reply_t), NEW n \in 0..Len(out), NEW c
  PROVE  SubSeq(out, 1, n) \in Seq(server_reply_t) /\ FewerAnswers(SubSeq(out, 1, n), out, c)
<1>1. /\ SubSeq(out, 1, n) \in Seq(server_reply_t)
      /\ \A x \in DOMAIN SubSeq(out, 1, n) : x + 0 \in DOMAIN out /\ SubSeq(out, 1, n)[x] = out[x + 0]
  <2>1. \A i \in 1..Len(out) : out[i] \in server_reply_t
    OBVIOUS
  <2> QED
    BY <2>1, SubSeqProperties
<1>2. 0 \in Nat
  OBVIOUS
<1> QED
  BY <1>1, <1>2 DEF FewerAnswers

LEMMA AppendQueue ==
  ASSUME NEW S, NEW q \in Seq(S), NEW m \in S
  PROVE  /\ Append(q, m) \in Seq(S)
         /\ \A x \in DOMAIN Append(q, m) :
              \/ Append(q, m)[x] = m /\ x = Len(q) + 1
              \/ x \in DOMAIN q /\ Append(q, m)[x] = q[x]
<1>1. Len(q) \in Nat /\ DOMAIN q = 1..Len(q) /\ DOMAIN Append(q, m) = 1..(Len(q) + 1)
  BY AppendProperties, LenProperties
<1>2. \A x \in 1..(Len(q) + 1) : x = Len(q) + 1 \/ x \in 1..Len(q)
  BY <1>1
<1> QED
  BY <1>1, <1>2, AppendProperties

LEMMA AppendAnswers ==
  ASSUME NEW out \in Seq(server_reply_t), NEW m \in server_reply_t, NEW c, ~IsAnswer(m, c)
  PROVE  Append(out, m) \in Seq(server_reply_t) /\ FewerAnswers(Append(out, m), out, c)
<1>1. /\ Append(out, m) \in Seq(server_reply_t)
      /\ \A x \in DOMAIN Append(out, m) :
           \/ Append(out, m)[x] = m
           \/ x + 0 \in DOMAIN out /\ Append(out, m)[x] = out[x + 0]
  BY AppendProperties
<1>2. 0 \in Nat
  OBVIOUS
<1> QED
  BY <1>1, <1>2 DEF FewerAnswers

LEMMA DealtQueue ==
  ASSUME NEW S, NEW q \in Seq(S), NEW m \in S, NEW n \in Nat
  PROVE  LET q2 == q \o [j \in 1..n |-> m]
         IN  /\ q2 \in Seq(S)
             /\ \A x \in DOMAIN q2 : q2[x] = m \/ (x \in DOMAIN q /\ q2[x] = q[x])
<1>1. [j \in 1..n |-> m] \in Seq(S) /\ Len([j \in 1..n |-> m]) = n
  BY SeqDef
<1> DEFINE t == [j \in 1..n |-> m]
<1>2. \A j \in 1..n : t[j] = m
  OBVIOUS
<1> HIDE DEF t
<1>3. /\ q \o t \in Seq(S) /\ Len(q \o t) = Len(q) + n
      /\ \A x \in 1..(Len(q) + n) :
           (q \o t)[x] = IF x <= Len(q) THEN q[x] ELSE t[x - Len(q)]
  BY <1>1, ConcatProperties DEF t
<1>4. Len(q) \in Nat /\ DOMAIN q = 1..Len(q) /\ DOMAIN (q \o t) = 1..(Len(q) + n)
  BY <1>3
<1> QED
  BY <1>2, <1>3, <1>4 DEF t

(* A copy takes a request it expects: a request of the client that it      *)
(* has served already is no longer expected.                               *)
LEMMA ServeKeeps ==
  ASSUME NEW k \in Copy, NEW c \in Client,
         NEW process \in Process, NEW process2 \in Process,
         NEW in \in Seq(service_module), in # <<>>, NEW out \in Seq(server_reply_t),
         ~process.busy, ~Head(in).heartbeat,
         Head(in).seq_id = IF process.request_id = 0 THEN Head(in).seq_id
                                                     ELSE process.request_id,
         process2.request_id = Head(in).seq_id + 1,
         process2.client = Head(in).client,
         process2.parameters = Head(in).parameters
  PROVE  Keeps(k, c, process, in, out, process2, Tail(in), out)
<1> SUFFICES ASSUME AtMostOnce(process, in, out, c)
             PROVE  /\ AtMostOnce(process2, Tail(in), out, c)
                    /\ \A p \in Int : Honest(k, process, in, out, c, p)
                                        => Honest(k, process2, Tail(in), out, c, p)
                    /\ Spent(process, in, out, c) => Spent(process2, Tail(in), out, c)
                    /\ Silent(process, in, out, c) => Silent(process2, Tail(in), out, c)
  BY DEF Keeps
<1>1. /\ \A x \in DOMAIN Tail(in) : x + 1 \in DOMAIN in /\ Tail(in)[x] = in[x + 1]
      /\ Head(in) = in[1] /\ 1 \in DOMAIN in /\ Head(in) \in service_module
  BY TailQueue
<1>2. /\ Head(in).seq_id \in Nat /\ process.request_id \in Nat
      /\ \A x \in DOMAIN in : in[x].seq_id \in Nat
  <2>1. \A x \in DOMAIN in : in[x] \in service_module
    OBVIOUS
  <2> QED
    BY <1>1, <2>1 DEF service_module, Process
<1>3. ~Serves(process, c)
  BY DEF Serves
<1>4. CASE IsCall(Head(in), c)
  <2>1. ~AllPast(process, in, c)
    BY <1>1, <1>2, <1>4 DEF AllPast
  <2>2. Answers(out, c) = {}
    BY <2>1 DEF AtMostOnce
  <2>3. AllPast(process2, Tail(in), c)
    <3> SUFFICES ASSUME NEW x \in DOMAIN Tail(in), IsCall(Tail(in)[x], c)
                 PROVE  process2.request_id # 0 /\ process2.request_id > Tail(in)[x].seq_id
      BY DEF AllPast
    <3>1. x + 1 \in DOMAIN in /\ Tail(in)[x] = in[x + 1]
      BY <1>1
    <3>2. in[x + 1].seq_id = Head(in).seq_id
      BY <1>1, <1>4, <3>1 DEF AtMostOnce
    <3> QED
      BY <1>2, <3>1, <3>2
  <2>4. AtMostOnce(process2, Tail(in), out, c)
    BY <1>1, <2>2, <2>3 DEF AtMostOnce
  <2>5. \A p \in Int : Honest(k, process, in, out, c, p)
                         => Honest(k, process2, Tail(in), out, c, p)
    BY <1>1, <1>4, <2>2 DEF Honest
  <2> QED
    BY <1>1, <1>4, <2>1, <2>4, <2>5 DEF Spent, Silent
<1>5. CASE ~IsCall(Head(in), c)
  <2>1. ~Serves(process2, c)
    BY <1>5 DEF Serves, IsCall
  <2>2. AllPast(process, in, c) => AllPast(process2, Tail(in), c)
    BY <1>1, <1>2 DEF AllPast
  <2>3. AtMostOnce(process2, Tail(in), out, c)
    BY <1>1, <2>1, <2>2 DEF AtMostOnce
  <2>4. \A p \in Int : Honest(k, process, in, out, c, p)
                         => Honest(k, process2, Tail(in), out, c, p)
    BY <1>1, <2>1 DEF Honest
  <2> QED
    BY <1>1, <2>1, <2>2, <2>3, <2>4 DEF Spent, Silent
<1> QED
  BY <1>4, <1>5

(* The thread of a request answers it.                                     *)
LEMMA AnswerKeeps ==
  ASSUME NEW k \in Copy, NEW c \in Client,
         NEW process \in Process, NEW process2 \in Process,
         NEW in \in Seq(service_module), NEW out \in Seq(server_reply_t),
         NEW m \in server_reply_t, process.busy, ~process2.busy,
         process2.request_id = process.request_id,
         m.client = process.client,
         k \notin Faulty => m.result = service_body(k[1], process.parameters)
  PROVE  Keeps(k, c, process, in, out, process2, in, Append(out, m))
<1> DEFINE out2 == Append(out, m)
<1> SUFFICES ASSUME AtMostOnce(process, in, out, c)
             PROVE  /\ AtMostOnce(process2, in, out2, c)
                    /\ \A p \in Int : Honest(k, process, in, out, c, p)
                                        => Honest(k, process2, in, out2, c, p)
                    /\ Spent(process, in, out, c) => Spent(process2, in, out2, c)
                    /\ Silent(process, in, out, c) => Silent(process2, in, out2, c)
  BY DEF Keeps
<1>1. CASE ~IsAnswer(m, c)
  <2>1. FewerCalls(in, in, c) /\ FewerAnswers(out2, out, c) /\ out2 \in Seq(server_reply_t)
    BY <1>1, SameQueues, AppendAnswers
  <2> HIDE DEF out2
  <2>2. Keeps(k, c, process, in, out, process2, in, out2)
    BY <2>1, FewerKeeps
  <2> QED
    BY <2>2 DEF Keeps
<1>2. CASE IsAnswer(m, c)
  <2>1. Serves(process, c) /\ ~Serves(process2, c)
    BY <1>2 DEF Serves, IsAnswer
  <2>2. Answers(out, c) = {} /\ AllPast(process, in, c)
    BY <2>1 DEF AtMostOnce
  <2>3. \A x \in DOMAIN out2 :
          \/ out2[x] = m /\ x = Len(out) + 1
          \/ x \in DOMAIN out /\ out2[x] = out[x]
    BY AppendQueue
  <2> HIDE DEF out2
  <2>4. \A x \in Answers(out2, c) : out2[x] = m /\ x = Len(out) + 1
    BY <2>2, <2>3 DEF Answers
  <2>5. AllPast(process2, in, c)
    BY <2>2 DEF AllPast
  <2> QED
    BY <2>1, <2>4, <2>5 DEF AtMostOnce, Honest, Spent, Silent
<1> QED
  BY <1>1, <1>2

(* The request reaches a copy that has not heard of it.                    *)
LEMMA DealtOnce ==
  ASSUME NEW k \in Copy, NEW c \in Client, NEW process \in Process,
         NEW in \in Seq(service_module), NEW out \in Seq(server_reply_t),
         NEW m \in service_module, NEW n \in Nat,
         Silent(process, in, out, c)
  PROVE  LET in2 == in \o [j \in 1..n |-> m]
         IN  /\ AtMostOnce(process, in2, out, c)
             /\ Honest(k, process, in2, out, c, m.parameters)
<1> DEFINE in2 == in \o [j \in 1..n |-> m]
<1>1. \A x \in DOMAIN in2 : in2[x] = m \/ (x \in DOMAIN in /\ in2[x] = in[x])
  BY DealtQueue
<1> HIDE DEF in2
<1>2. \A x \in DOMAIN in2 : IsCall(in2[x], c) => in2[x] = m
  BY <1>1 DEF Silent
<1>3. AtMostOnce(process, in2, out, c) /\ Honest(k, process, in2, out, c, m.parameters)
  BY <1>2 DEF Silent, AtMostOnce, Honest
<1> QED
  BY <1>3 DEF in2

(* A message that is not for the client.                                   *)
LEMMA DealtCalls ==
  ASSUME NEW c, NEW in \in Seq(service_module), NEW m \in service_module, NEW n \in Nat,
         ~IsCall(m, c)
  PROVE  FewerCalls(in \o [j \in 1..n |-> m], in, c)
<1> DEFINE in2 == in \o [j \in 1..n |-> m]
<1>1. \A x \in DOMAIN in2 : in2[x] = m \/ (x \in DOMAIN in /\ in2[x] = in[x])
  BY DealtQueue
<1> HIDE DEF in2
<1>2. FewerCalls(in2, in, c)
  BY <1>1 DEF FewerCalls
<1> QED
  BY <1>2 DEF in2

-----------------------------------------------------------------------------
(* Steps of the framework *)

LEMMA FaultyFinite ==
  ASSUME NEW s
  PROVE  IsFiniteSet(FaultyOf(s))
<1>1. Service \in SUBSET Nat /\ \A t \in Service : t <= 2
  BY ServiceAssumption DEF INCREMENT, DECREMENT, MULTIPLY2
<1>2. IsFiniteSet(Service)
  BY <1>1, FS_BoundedSetOfNaturals
<1>3. IsFiniteSet(Copy)
  BY <1>2, CopyIdAssumption, FS_Product DEF Copy
<1>4. FaultyOf(s) \in SUBSET Copy
  BY FaultAssumption DEF FaultyOf
<1> QED
  BY <1>3, <1>4, FS_Subset

Kept(k, c) ==
  Keeps(k, c, server[k], inbox[k], outbox[k], server'[k], inbox'[k], outbox'[k])

(* The requests of the client in the table were there, with these results. *)
Covered(c) ==
  \A s \in Registered' : \A r2 \in Matching(services_db'[s].request_records, c) :
    /\ s \in Registered
    /\ \E r \in Matching(services_db[s].request_records, c) : r.results = r2.results

RightResponses(c) ==
  client[c].status = "waiting" =>
    \A x \in DOMAIN router_out'[c] : router_out'[c][x] \in GoodResponse(client[c])

(* A copy that gives no more results gives none after the step.            *)
LEMMA MoreSpent ==
  ASSUME NEW c \in Client, NEW s,
         \A k \in Copy : AtMostOnce(server[k], inbox[k], outbox[k], c),
         \A k \in Copy : Kept(k, c)
  PROVE  /\ SpentFaulty(s, c) \subseteq SpentFaulty(s, c)'
         /\ SpentFaulty(s, c)' \subseteq FaultyOf(s)
         /\ IsFiniteSet(SpentFaulty(s, c)) /\ IsFiniteSet(SpentFaulty(s, c)')
         /\ Cardinality(SpentFaulty(s, c)) \in Nat /\ Cardinality(SpentFaulty(s, c)') \in Nat
         /\ Cardinality(SpentFaulty(s, c)) <= Cardinality(SpentFaulty(s, c)')
<1>1. ASSUME NEW k \in FaultyOf(s), SpentCopy(k, c) PROVE SpentCopy(k, c)'
  <2>1. k \in Copy
    BY FaultAssumption DEF FaultyOf
  <2> QED
    BY <1>1, <2>1 DEF Kept, Keeps, SpentCopy
<1>2. SpentFaulty(s, c) \subseteq SpentFaulty(s, c)' /\ SpentFaulty(s, c)' \subseteq FaultyOf(s)
  BY <1>1 DEF SpentFaulty, FaultyOf
<1>3. IsFiniteSet(SpentFaulty(s, c)')
  BY <1>2, FaultyFinite, FS_Subset
<1> QED
  BY <1>2, <1>3, FS_Subset, FS_CardinalityType

LEMMA WrongFinite ==
  ASSUME NEW results \in Seq(Int), NEW right
  PROVE  /\ IsFiniteSet(Wrong(results, right))
         /\ Cardinality(Wrong(results, right)) \in Nat
         /\ Wrong(results, right) \subseteq 1..Len(results)
<1>1. Wrong(results, right) \in SUBSET (1..Len(results)) /\ Len(results) \in Nat
  BY DEF Wrong
<1> QED
  BY <1>1, IndexSet, FS_Subset, FS_CardinalityType

LEMMA RecordTypes ==
  ASSUME TypeOK, NEW s \in Registered, NEW r \in services_db[s].request_records
  PROVE  r \in request_record_t
<1>1. services_db[s] \in service_record
  BY DEF TypeOK, BrokerTypeOK, Registered
<1> QED
  BY <1>1 DEF service_record

(* The calls that a step is not about.                                     *)
LEMMA CallKept ==
  ASSUME NEW c \in Client, CallSound(c), client'[c] = client[c],
         \A k \in Copy : Kept(k, c), Covered(c),
         router_in'[c] \in {router_in[c], <<>>}, RightResponses(c), TypeOK
  PROVE  CallSound(c)'
<1>1. \A k \in Copy : AtMostOnce(server[k], inbox[k], outbox[k], c)
  BY DEF CallSound
<1>2. \A k \in Copy : AtMostOnce(server'[k], inbox'[k], outbox'[k], c)
  BY <1>1 DEF Kept, Keeps
<1>3. Unheard(c) => Unheard(c)'
  BY <1>1 DEF Unheard, Covered, Kept, Keeps
<1>4. ASSUME client[c].status = "waiting"
      PROVE  Masked(c)'
  <2> SUFFICES ASSUME NEW s \in Registered', NEW r2 \in Matching(services_db'[s].request_records, c)
               PROVE  /\ s = client'[c].service
                      /\ Cardinality(Wrong(r2.results, service_body(s, client'[c].parameters)))
                           <= Cardinality(SpentFaulty(s, c)')
    BY DEF Masked, Matching
  <2>1. s \in Registered
    BY DEF Covered
  <2>2. PICK r \in Matching(services_db[s].request_records, c) : r.results = r2.results
    BY DEF Covered
  <2>3. /\ s = client[c].service
        /\ Cardinality(Wrong(r.results, service_body(s, client[c].parameters)))
             <= Cardinality(SpentFaulty(s, c))
    BY <1>4, <2>1 DEF CallSound, Masked
  <2>4. Cardinality(Wrong(r.results, service_body(s, client[c].parameters))) \in Nat
    BY <2>1, RecordTypes, WrongFinite DEF Matching, request_record_t
  <2>5. /\ Cardinality(SpentFaulty(s, c)) \in Nat /\ Cardinality(SpentFaulty(s, c)') \in Nat
        /\ Cardinality(SpentFaulty(s, c)) <= Cardinality(SpentFaulty(s, c)')
    BY <1>1, MoreSpent
  <2> QED
    BY <2>2, <2>3, <2>4, <2>5
<1>5. ASSUME client[c].status = "waiting", NEW k \in Copy
      PROVE  Honest(k, server'[k], inbox'[k], outbox'[k], c, client'[c].parameters)
  <2>1. client[c].parameters \in Int
    BY DEF TypeOK, ClientTypeOK
  <2> QED
    BY <1>1, <1>5, <2>1 DEF CallSound, Kept, Keeps
<1> QED
  BY <1>2, <1>3, <1>4, <1>5 DEF CallSound, RightResponses

LEMMA CopyTypes ==
  ASSUME TypeOK, NEW k \in Copy
  PROVE  /\ server[k] \in Process /\ inbox[k] \in Seq(service_module)
         /\ outbox[k] \in Seq(server_reply_t)
BY DEF TypeOK, NetTypeOK, ServerTypeOK

LEMMA SameKept ==
  ASSUME TypeOK, NEW k \in Copy, NEW c \in Client,
         server'[k] = server[k], inbox'[k] = inbox[k], outbox'[k] = outbox[k]
  PROVE  Kept(k, c)
<1>1. FewerCalls(inbox[k], inbox[k], c) /\ FewerAnswers(outbox[k], outbox[k], c)
  BY CopyTypes, SameQueues
<1> QED
  BY <1>1, CopyTypes, FewerKeeps DEF Kept

-----------------------------------------------------------------------------
(* Steps of a copy *)

LEMMA CopyMask ==
  ASSUME TypeOK, MaskInv, NEW k \in Copy,
         UNCHANGED <<services_db, client, router_in, router_out>>,
         \A x \in Copy \ {k} : /\ server'[x] = server[x]
                               /\ inbox'[x] = inbox[x] /\ outbox'[x] = outbox[x],
         \A c \in Client : Kept(k, c),
         ~server'[k].up => inbox'[k] = <<>> /\ ~server'[k].busy
  PROVE  MaskInv'
<1>1. DeadEmpty'
  BY DEF MaskInv, DeadEmpty
<1>2. ASSUME NEW c \in Client PROVE CallSound(c)'
  <2>1. CallSound(c)
    BY DEF MaskInv
  <2>2. \A x \in Copy : Kept(x, c)
    BY SameKept
  <2>3. Covered(c)
    BY DEF Covered, Registered
  <2>4. RightResponses(c)
    BY <2>1 DEF RightResponses, CallSound
  <2> QED
    BY <2>1, <2>2, <2>3, <2>4, CallKept
<1> QED
  BY <1>1, <1>2 DEF MaskInv

(* A ping or a duplicate is answered at once.                              *)
LEMMA AnswerAtOnceMask ==
  ASSUME TypeOK, MaskInv, UNCHANGED <<brokerVars, client>>, NEW k \in Copy,
         PongBroker(k) \/ DuplicateRequest(k)
  PROVE  MaskInv'
<1>1. /\ receive_request(k)
      /\ UNCHANGED <<server, router_in, router_out>>
      /\ \E m \in server_reply_t : Reply(k, m) /\ (m.heartbeat \/ m.duplicated)
  <2>1. receive_request(k) /\ UNCHANGED <<server, router_in, router_out>>
    BY DEF PongBroker, DuplicateRequest
  <2>2. inbox[k] # <<>>
    BY <2>1 DEF receive_request, Readable
  <2>3. Head(inbox[k]) \in service_module
    BY <2>2, CopyTypes, TailQueue
  <2>4. Head(inbox[k]).client \in Client \cup {NoClient}
    BY <2>3 DEF service_module
  <2>5. PICK c \in Client \cup {NoClient} : c = Head(inbox[k]).client
    BY <2>4
  <2>6. /\ [heartbeat |-> TRUE, duplicated |-> FALSE, result |-> 0, client |-> c] \in server_reply_t
        /\ [heartbeat |-> FALSE, duplicated |-> TRUE, result |-> 0, client |-> c] \in server_reply_t
    BY DEF server_reply_t
  <2> QED
    BY <2>1, <2>5, <2>6 DEF PongBroker, DuplicateRequest
<1>2. PICK m \in server_reply_t : Reply(k, m) /\ (m.heartbeat \/ m.duplicated)
  BY <1>1
<1>3. /\ inbox[k] # <<>> /\ server[k].up
      /\ inbox' = [inbox EXCEPT ![k] = Tail(inbox[k])]
      /\ outbox' = [outbox EXCEPT ![k] = Append(outbox[k], m)]
  BY <1>1, <1>2 DEF receive_request, Readable, Reply
<1>4. /\ inbox'[k] = Tail(inbox[k]) /\ outbox'[k] = Append(outbox[k], m)
      /\ \A x \in Copy \ {k} : inbox'[x] = inbox[x] /\ outbox'[x] = outbox[x]
  BY <1>3 DEF TypeOK, NetTypeOK
<1>5. ASSUME NEW c \in Client PROVE Kept(k, c)
  <2>1. FewerCalls(Tail(inbox[k]), inbox[k], c) /\ Tail(inbox[k]) \in Seq(service_module)
    BY <1>3, CopyTypes, TailCalls, TailQueue
  <2>2. ~IsAnswer(m, c)
    BY <1>2 DEF IsAnswer
  <2>3. /\ FewerAnswers(Append(outbox[k], m), outbox[k], c)
        /\ Append(outbox[k], m) \in Seq(server_reply_t)
    BY <2>2, CopyTypes, AppendAnswers
  <2> QED
    BY <1>1, <1>4, <2>1, <2>3, CopyTypes, FewerKeeps, ZenonT(60) DEF Kept
<1> QED
  BY <1>1, <1>3, <1>4, <1>5, CopyMask DEF brokerVars

(* A request is accepted.                                                  *)
LEMMA CreateThreadMask ==
  ASSUME TypeOK, ServerTypeOK', MaskInv, UNCHANGED <<brokerVars, client>>, NEW k \in Copy,
         CreateThread(k)
  PROVE  MaskInv'
<1>1. /\ inbox[k] # <<>> /\ ~server[k].busy /\ server[k].up
      /\ ~Head(inbox[k]).heartbeat /\ Head(inbox[k]).seq_id = Expected(k)
      /\ inbox' = [inbox EXCEPT ![k] = Tail(inbox[k])]
      /\ UNCHANGED <<router_in, router_out, outbox>>
  BY DEF CreateThread, receive_request, Readable
<1>2. /\ inbox'[k] = Tail(inbox[k])
      /\ \A x \in Copy \ {k} : inbox'[x] = inbox[x] /\ server'[x] = server[x]
  BY <1>1 DEF CreateThread, TypeOK, NetTypeOK, ServerTypeOK
<1>3. /\ server'[k].request_id = Expected(k) + 1
      /\ server'[k].client = Head(inbox[k]).client
      /\ server'[k].parameters = Head(inbox[k]).parameters
      /\ server'[k].up = server[k].up
  <2>1. server[k] \in Process
    BY CopyTypes
  <2> QED
    BY <2>1 DEF CreateThread, TypeOK, ServerTypeOK, Process
<1>4. server'[k] \in Process
  BY DEF ServerTypeOK
<1>5. ASSUME NEW c \in Client PROVE Kept(k, c)
  <2>1. Keeps(k, c, server[k], inbox[k], outbox[k], server'[k], Tail(inbox[k]), outbox[k])
    BY <1>1, <1>3, <1>4, CopyTypes, ServeKeeps DEF Expected
  <2> QED
    BY <1>1, <1>2, <2>1 DEF Kept
<1> QED
  BY <1>1, <1>2, <1>3, <1>5, CopyMask DEF brokerVars

(* Its thread answers.                                                     *)
LEMMA TaskDoneMask ==
  ASSUME TypeOK, ServerTypeOK', MaskInv, UNCHANGED <<brokerVars, client>>, NEW k \in Copy,
         TaskDone(k)
  PROVE  MaskInv'
<1>1. server[k] \in Process
  BY CopyTypes
<1>2. PICK v \in Result(k, server[k].parameters) : Answer(k, v)
  BY DEF TaskDone
<1>3. PICK c0 \in Client \cup {NoClient} : c0 = server[k].client
  BY <1>1 DEF Process
<1> DEFINE m == [heartbeat |-> FALSE, duplicated |-> FALSE, result |-> v, client |-> c0]
<1>4. m \in server_reply_t
  <2>1. v \in Int
    BY <1>1, ResultType DEF Process
  <2> QED
    BY <2>1 DEF server_reply_t
<1>5. /\ outbox' = [outbox EXCEPT ![k] = Append(outbox[k], m)]
      /\ server' = [server EXCEPT ![k] = Idle(server[k])]
      /\ server[k].busy /\ server[k].up
      /\ UNCHANGED <<router_in, router_out, inbox>>
  BY <1>2, <1>3 DEF TaskDone, Answer, Reply
<1>6. m.client = server[k].client /\ (k \notin Faulty => m.result = service_body(k[1], server[k].parameters))
  BY <1>2, <1>3 DEF Result
<1> HIDE DEF m
<1>7. /\ outbox'[k] = Append(outbox[k], m) /\ server'[k] = Idle(server[k])
      /\ \A x \in Copy \ {k} : outbox'[x] = outbox[x] /\ server'[x] = server[x]
  BY <1>5 DEF TypeOK, NetTypeOK, ServerTypeOK
<1>8. /\ server'[k] \in Process /\ ~server'[k].busy /\ server'[k].up
      /\ server'[k].request_id = server[k].request_id
  BY <1>1, <1>5, <1>7 DEF Idle, Process, ServerTypeOK
<1>9. ASSUME NEW c \in Client PROVE Kept(k, c)
  <2>1. Keeps(k, c, server[k], inbox[k], outbox[k], server'[k], inbox[k], Append(outbox[k], m))
    BY <1>4, <1>5, <1>6, <1>8, CopyTypes, AnswerKeeps
  <2> QED
    BY <1>5, <1>7, <2>1 DEF Kept
<1> QED
  BY <1>5, <1>7, <1>8, <1>9, CopyMask DEF brokerVars

(* The process ends.                                                       *)
LEMMA DiesMask ==
  ASSUME TypeOK, ServerTypeOK', MaskInv, UNCHANGED <<brokerVars, client>>, NEW k \in Copy,
         Dies(k)
  PROVE  MaskInv'
<1>1. PICK n \in 0..Len(outbox[k]) : outbox' = [outbox EXCEPT ![k] = SubSeq(@, 1, n)]
  BY DEF Dies
<1>2. /\ inbox'[k] = <<>> /\ outbox'[k] = SubSeq(outbox[k], 1, n)
      /\ \A x \in Copy \ {k} : /\ server'[x] = server[x]
                               /\ inbox'[x] = inbox[x] /\ outbox'[x] = outbox[x]
      /\ UNCHANGED <<router_in, router_out>>
  BY <1>1 DEF Dies, TypeOK, NetTypeOK, ServerTypeOK
<1>3. ~server'[k].busy /\ server'[k] \in Process
  BY DEF Dies, Started, TypeOK, ServerTypeOK
<1>4. ASSUME NEW c \in Client PROVE Kept(k, c)
  <2>1. outbox[k] \in Seq(server_reply_t) /\ inbox[k] \in Seq(service_module)
    BY CopyTypes
  <2>2. FewerCalls(<<>>, inbox[k], c) /\ <<>> \in Seq(service_module)
    BY DEF FewerCalls
  <2>3. /\ FewerAnswers(SubSeq(outbox[k], 1, n), outbox[k], c)
        /\ SubSeq(outbox[k], 1, n) \in Seq(server_reply_t)
    BY <2>1, PrefixAnswers
  <2> QED
    BY <1>2, <1>3, <2>2, <2>3, CopyTypes, FewerKeeps DEF Kept
<1> QED
  BY <1>2, <1>3, <1>4, CopyMask DEF brokerVars

(* A socket is deleted, which no thread uses any more.                     *)
LEMMA RegistrationOkMask ==
  ASSUME TypeOK, ServerTypeOK', MaskInv, UNCHANGED <<brokerVars, client>>, NEW k \in Copy,
         RegistrationOk(k)
  PROVE  MaskInv'
<1>1. /\ inbox'[k] = <<>> /\ server[k] \in Process
      /\ \A x \in Copy \ {k} : server'[x] = server[x] /\ inbox'[x] = inbox[x]
      /\ UNCHANGED <<router_in, router_out, outbox>>
  BY DEF RegistrationOk, TypeOK, NetTypeOK, ServerTypeOK
<1>2. ~server'[k].busy /\ server'[k] \in Process
  BY <1>1 DEF RegistrationOk, Idle, TypeOK, ServerTypeOK, Process
<1>3. ASSUME NEW c \in Client PROVE Kept(k, c)
  <2>1. /\ FewerCalls(<<>>, inbox[k], c) /\ <<>> \in Seq(service_module)
        /\ FewerAnswers(outbox[k], outbox[k], c)
    BY CopyTypes, SameQueues
  <2> QED
    BY <1>1, <1>2, <2>1, CopyTypes, FewerKeeps DEF Kept
<1> QED
  BY <1>1, <1>2, <1>3, CopyMask DEF brokerVars

(* A registration is sent, a ping missed or the process started again.     *)
LEMMA OtherMask ==
  ASSUME TypeOK, ServerTypeOK', MaskInv, UNCHANGED <<brokerVars, client>>, NEW k \in Copy,
         SendRegistration(k) \/ PingTimeout(k) \/ Relaunch(k)
  PROVE  MaskInv'
<1>1. /\ UNCHANGED <<router_in, router_out, inbox, outbox>>
      /\ \A x \in Copy \ {k} : server'[x] = server[x]
  BY DEF SendRegistration, PingTimeout, Relaunch, netVars, TypeOK, ServerTypeOK
<1>2. server'[k] \in Process /\ server[k] \in Process
  BY DEF ServerTypeOK, TypeOK
<1>3. CASE Relaunch(k)
  <2>1. inbox[k] = <<>> /\ ~server'[k].busy /\ server'[k].up
    BY <1>3 DEF Relaunch, Started, MaskInv, DeadEmpty, TypeOK, ServerTypeOK
  <2>2. ASSUME NEW c \in Client PROVE Kept(k, c)
    <3>1. FewerCalls(inbox[k], inbox[k], c) /\ FewerAnswers(outbox[k], outbox[k], c)
      BY CopyTypes, SameQueues
    <3> QED
      BY <1>1, <1>2, <2>1, <3>1, CopyTypes, FewerKeeps DEF Kept
  <2> QED
    BY <1>1, <2>1, <2>2, CopyMask DEF brokerVars
<1>4. CASE SendRegistration(k) \/ PingTimeout(k)
  <2>1. /\ server'[k].busy = server[k].busy /\ server'[k].client = server[k].client
        /\ server'[k].parameters = server[k].parameters
        /\ server'[k].request_id = server[k].request_id
        /\ server'[k].up = server[k].up
    <3>1. server'[k] = [server[k] EXCEPT !.send_reg = TRUE] \/
          server'[k] = [server[k] EXCEPT !.ping_loss = @ + 1,
                                         !.reg_ok = server[k].ping_loss + 1 # LIVENESS]
      BY <1>4 DEF SendRegistration, PingTimeout, TypeOK, ServerTypeOK
    <3> QED
      BY <1>2, <3>1 DEF Process
  <2>2. ASSUME NEW c \in Client PROVE Kept(k, c)
    <3>1. FewerCalls(inbox[k], inbox[k], c) /\ FewerAnswers(outbox[k], outbox[k], c)
      BY CopyTypes, SameQueues
    <3> QED
      BY <1>1, <1>2, <2>1, <3>1, CopyTypes, FewerKeeps DEF Kept
  <2> QED
    BY <1>1, <2>1, <2>2, CopyMask DEF brokerVars, MaskInv, DeadEmpty
<1> QED
  BY <1>3, <1>4

LEMMA CopyStepMask ==
  ASSUME TypeOK, ServerTypeOK', MaskInv, NoOrphans, UNCHANGED <<brokerVars, client>>, CopyStep
  PROVE  MaskInv'
<1>1. PICK k \in Copy : ServerStep(k) \/ MissesPing(k) \/ Kill(k) \/ Revive(k)
  BY DEF CopyStep
<1>2. ~OrphanAnswers(k)
  BY DEF OrphanAnswers, NoOrphans
<1> QED
  BY <1>1, <1>2, AnswerAtOnceMask, CreateThreadMask, TaskDoneMask, DiesMask,
     RegistrationOkMask, OtherMask
     DEF ServerStep, OrphanThrows, RegistrationError, MissesPing, Kill, Revive, Restart

-----------------------------------------------------------------------------
(* Steps of the broker *)

(* Handlers that deal nothing out and take no reply.                       *)
LEMMA FrontMask ==
  ASSUME TypeOK, MaskInv, UNCHANGED <<server, client, inbox, outbox>>,
         \A c \in Client : Covered(c) /\ RightResponses(c) /\ router_in'[c] \in {router_in[c], <<>>}
  PROVE  MaskInv'
<1>1. DeadEmpty'
  BY DEF MaskInv, DeadEmpty
<1>2. ASSUME NEW c \in Client PROVE CallSound(c)'
  <2>1. CallSound(c)
    BY DEF MaskInv
  <2>2. \A x \in Copy : Kept(x, c)
    BY SameKept
  <2> QED
    BY <2>1, <2>2, CallKept
<1> QED
  BY <1>1, <1>2 DEF MaskInv

(* The table holds the same requests, or fewer.                            *)
LEMMA CoveredFrame ==
  ASSUME \A s \in Registered' : IF s \in Registered
           THEN services_db'[s].request_records \subseteq services_db[s].request_records
           ELSE services_db'[s].request_records = {},
         NEW c \in Client
  PROVE  Covered(c)
BY DEF Covered, Matching

LEMMA SameResponses ==
  ASSUME MaskInv, UNCHANGED router_out, NEW c \in Client
  PROVE  RightResponses(c)
BY DEF MaskInv, CallSound, RightResponses

LEMMA RegistrationMask ==
  ASSUME TypeOK, MaskInv, UNCHANGED <<server, client>>, get_registration
  PROVE  MaskInv'
<1>1. PICK k \in Copy, live \in BOOLEAN :
        \/ GetFirstRegistration(k, live)
        \/ GetFurtherRegistration(k, live)
        \/ RefuseRegistration(k, live)
  BY DEF get_registration
<1>2. UNCHANGED <<router_in, router_out, inbox, outbox>>
  BY <1>1 DEF GetFirstRegistration, GetFurtherRegistration, RefuseRegistration, TakeRegistration
<1>3. \A s \in Registered' : IF s \in Registered
           THEN services_db'[s].request_records \subseteq services_db[s].request_records
           ELSE services_db'[s].request_records = {}
  <2>1. CASE GetFirstRegistration(k, live)
    BY <2>1 DEF GetFirstRegistration, FirstCopy, Registered
  <2>2. CASE GetFurtherRegistration(k, live)
    <3>1. services_db[k[1]] \in service_record
      BY <2>2 DEF GetFurtherRegistration, TypeOK, BrokerTypeOK, Registered
    <3>2. FurtherCopy(services_db[k[1]]).request_records = services_db[k[1]].request_records
      BY <3>1 DEF FurtherCopy, service_record
    <3> QED
      BY <2>2, <3>2 DEF GetFurtherRegistration, Registered
  <2>3. CASE RefuseRegistration(k, live)
    BY <2>3 DEF RefuseRegistration, Registered
  <2> QED
    BY <1>1, <2>1, <2>2, <2>3
<1> QED
  BY <1>2, <1>3, CoveredFrame, SameResponses, FrontMask

(* A response that is right, if its client still waits for one.            *)
LEMMA RespondRight ==
  ASSUME TypeOK, MaskInv, NEW c, NEW response \in response_module, Respond(c, response),
         c \in Client /\ client[c].status = "waiting" => response \in GoodResponse(client[c]),
         NEW d \in Client
  PROVE  RightResponses(d)
<1>1. router_out \in [Client -> Seq(response_module)] /\ connected \subseteq Client
  BY DEF TypeOK, NetTypeOK
<1>2. CASE d = c /\ c \in connected
  <2>1. router_out'[d] = Append(router_out[d], response)
    BY <1>1, <1>2 DEF Respond
  <2>2. router_out[d] \in Seq(response_module)
    BY <1>1
  <2>3. \A x \in DOMAIN router_out'[d] :
          \/ router_out'[d][x] = response
          \/ x \in DOMAIN router_out[d] /\ router_out'[d][x] = router_out[d][x]
    BY <2>1, <2>2, AppendQueue
  <2> QED
    BY <1>2, <2>3 DEF MaskInv, CallSound, RightResponses
<1>3. CASE ~(d = c /\ c \in connected)
  <2>1. router_out'[d] = router_out[d]
    BY <1>1, <1>3 DEF Respond
  <2> QED
    BY <2>1 DEF MaskInv, CallSound, RightResponses
<1> QED
  BY <1>2, <1>3

(* A client's only request leaves its queue; nothing has been heard of it. *)
LEMMA TakenRequest ==
  ASSUME TypeOK, MaskInv, NEW c \in Client, TakeRequest(c)
  PROVE  /\ router_in'[c] = <<>> /\ \A d \in Client \ {c} : router_in'[d] = router_in[d]
         /\ Unheard(c) /\ client[c].requests # 0
<1>1. router_in[c] \in Seq(request_module) /\ router_in[c] # <<>> /\ CallSound(c)
  BY DEF TypeOK, NetTypeOK, TakeRequest, MaskInv
<1>2. Len(router_in[c]) = 1
  BY <1>1 DEF CallSound
<1>3. Tail(router_in[c]) \in Seq(request_module) /\ Len(Tail(router_in[c])) = 0
  BY <1>1, <1>2
<1>4. Tail(router_in[c]) = <<>>
  BY <1>3, EmptySeq
<1> QED
  BY <1>1, <1>4 DEF TypeOK, NetTypeOK, TakeRequest, CallSound

LEMMA RefusedMask ==
  ASSUME TypeOK, MaskInv, UNCHANGED <<server, client>>, NEW c \in Client,
         GetRequestNotAvailable(c) \/ GetRequestUndefined(c)
  PROVE  MaskInv'
<1>1. TakeRequest(c) /\ UNCHANGED <<services_db, inbox>>
  BY DEF GetRequestNotAvailable, GetRequestUndefined
<1>2. UNCHANGED outbox /\ \A d \in Client : router_in'[d] \in {router_in[d], <<>>}
  BY <1>1, TakenRequest DEF TakeRequest
<1>3. \A d \in Client : Covered(d)
  BY <1>1 DEF Covered, Registered
<1>4. ASSUME NEW d \in Client PROVE RightResponses(d)
  <2>1. CASE GetRequestUndefined(c)
    BY <2>1, SameResponses DEF GetRequestUndefined
  <2>2. CASE GetRequestNotAvailable(c)
    <3> DEFINE response == Failure("NOT_AVAILABLE")
    <3>1. Respond(c, response) /\ response \in response_module
          /\ response \in GoodResponse(client[c])
      BY <2>2, ResponseType DEF GetRequestNotAvailable, GoodResponse, Status
    <3> HIDE DEF response
    <3> QED
      BY <3>1, RespondRight
  <2> QED
    BY <2>1, <2>2
<1> QED
  BY <1>1, <1>2, <1>3, <1>4, FrontMask

(* A reply is taken from the queue of its copy.                            *)
LEMMA TakenKept ==
  ASSUME TypeOK, UNCHANGED <<server, client>>, NEW k \in Copy, TakeReply(k),
         NEW x \in Copy, NEW c \in Client
  PROVE  Kept(x, c)
<1>1. /\ outbox[k] # <<>> /\ UNCHANGED inbox
      /\ outbox' = [outbox EXCEPT ![k] = Tail(outbox[k])]
  BY DEF TakeReply
<1>2. CASE x # k
  BY <1>1, <1>2, SameKept DEF TypeOK, NetTypeOK
<1>3. CASE x = k
  <2>1. outbox'[k] = Tail(outbox[k])
    BY <1>1 DEF TypeOK, NetTypeOK
  <2>2. FewerCalls(inbox[k], inbox[k], c)
    BY DEF FewerCalls
  <2>3. FewerAnswers(Tail(outbox[k]), outbox[k], c) /\ Tail(outbox[k]) \in Seq(server_reply_t)
    BY <1>1, CopyTypes, TailAnswers, TailQueue
  <2> QED
    BY <1>1, <1>3, <2>1, <2>2, <2>3, CopyTypes, FewerKeeps DEF Kept
<1> QED
  BY <1>2, <1>3

(* Whatever the reply is, all but its client are as before.                *)
LEMMA TakenMask ==
  ASSUME TypeOK, MaskInv, UNCHANGED <<server, client>>, NEW k \in Copy, TakeReply(k),
         \A c \in Client : (Covered(c) /\ RightResponses(c)) \/ CallSound(c)'
  PROVE  MaskInv'
<1>1. UNCHANGED <<router_in, inbox>>
  BY DEF TakeReply
<1>2. DeadEmpty'
  BY <1>1 DEF MaskInv, DeadEmpty
<1>3. ASSUME NEW c \in Client PROVE CallSound(c)'
  <2>1. CallSound(c)
    BY DEF MaskInv
  <2>2. \A x \in Copy : Kept(x, c)
    BY TakenKept
  <2> QED
    BY <1>1, <2>1, <2>2, CallKept
<1> QED
  BY <1>2, <1>3 DEF MaskInv

LEMMA PongMask ==
  ASSUME IndInv, MaskInv, UNCHANGED <<server, client>>, NEW k \in Copy,
         GetPong(k) \/ GetDuplicate(k)
  PROVE  MaskInv'
<1>1. TypeOK /\ TakeReply(k) /\ UNCHANGED router_out
  BY DEF GetPong, GetDuplicate, IndInv
<1>2. \A s \in Registered' : IF s \in Registered
           THEN services_db'[s].request_records \subseteq services_db[s].request_records
           ELSE services_db'[s].request_records = {}
  <2>1. CASE UNCHANGED services_db
    BY <2>1 DEF Registered
  <2>2. CASE ~UNCHANGED services_db
    <3> DEFINE n == register_pong(services_db[k[1]], k[2])
    <3>1. k[1] \in Registered /\ services_db' = [services_db EXCEPT ![k[1]] = n]
      BY <2>2 DEF GetPong, GetDuplicate
    <3>2. n.request_records = services_db[k[1]].request_records
      BY <1>1, <3>1, TakeReplyType, RegisterPongType DEF IndInv, Records, GoodRecord
    <3> HIDE DEF n
    <3> QED
      BY <3>1, <3>2 DEF Registered
  <2> QED
    BY <2>1, <2>2
<1> QED
  BY <1>1, <1>2, CoveredFrame, SameResponses, TakenMask

(* What the copies get when n messages are dealt out.                      *)
LEMMA DealtNone ==
  ASSUME NEW q \in Seq(service_module), NEW m
  PROVE  q \o [j \in 1..0 |-> m] = q
<1>1. [j \in 1..0 |-> m] = <<>>
  OBVIOUS
<1> QED
  BY <1>1, ConcatEmptySeq

LEMMA DealtOut ==
  ASSUME TypeOK, NEW i, NEW m \in service_module, NEW n \in Nat, DealerSend(i, m, n),
         NEW k \in Copy
  PROVE  \E x \in Nat : inbox'[k] = inbox[k] \o [j \in 1..x |-> m]
<1>1. CASE n = 0
  <2>1. inbox'[k] = inbox[k] \o [j \in 1..0 |-> m]
    BY <1>1, CopyTypes, DealtNone DEF DealerSend
  <2> QED
    BY <2>1
<1>2. CASE n # 0
  <2>1. inbox'[k] = inbox[k] \o [j \in 1..Share(i, k, n) |-> m]
    BY <1>2 DEF DealerSend
  <2>2. PICK x \in Nat : x = Share(i, k, n)
    BY ShareType
  <2> QED
    BY <2>1, <2>2
<1> QED
  BY <1>1, <1>2

LEMMA NotDealt ==
  ASSUME TypeOK, NEW i, NEW m \in service_module, NEW n \in Nat, DealerSend(i, m, n),
         n = 0 \/ i \in 1..Len(lb), NEW k \in Copy, k \notin Peers(i)
  PROVE  inbox'[k] = inbox[k]
<1>1. CASE n = 0
  BY <1>1 DEF DealerSend
<1>2. CASE n # 0
  <2>1. lb[i] \in Socket
    BY <1>2 DEF TypeOK, NetTypeOK
  <2>2. Share(i, k, n) = 0
    <3>1. CASE lb[i].pipes = <<>>
      BY <3>1 DEF Share
    <3>2. CASE lb[i].pipes # <<>>
      <4> DEFINE pipes == lb[i].pipes
                 T == {j \in 0..(n - 1) :
                         pipes[((lb[i].current - 1 + j) % Len(pipes)) + 1] = k}
      <4>1. lb[i].current \in Nat \ {0} /\ pipes \in Seq(Copy)
        BY <2>1 DEF Socket
      <4>2. Len(pipes) \in Nat \ {0} /\ DOMAIN pipes = 1..Len(pipes)
        BY <3>2, <4>1, EmptySeq
      <4>3. ASSUME NEW j \in 0..(n - 1)
            PROVE  ((lb[i].current - 1 + j) % Len(pipes)) + 1 \in DOMAIN pipes
        <5>1. lb[i].current - 1 + j \in Nat
          BY <4>1
        <5>2. \A x \in Nat, y \in Nat \ {0} : (x % y) + 1 \in 1..y
          OBVIOUS
        <5> QED
          BY <4>2, <5>1, <5>2
      <4>4. \A x \in DOMAIN pipes : pipes[x] # k
        BY DEF Peers
      <4>5. T = {}
        BY <4>3, <4>4
      <4>6. Share(i, k, n) = Cardinality(T)
        BY <3>2 DEF Share
      <4> HIDE DEF T
      <4> QED
        BY <4>5, <4>6, FS_EmptySet
    <3> QED
      BY <3>1, <3>2
  <2>3. inbox'[k] = inbox[k] \o [j \in 1..Share(i, k, n) |-> m]
    BY <1>2 DEF DealerSend
  <2> QED
    BY <2>2, <2>3, CopyTypes, DealtNone
<1> QED
  BY <1>1, <1>2

(* A process that has ended gets none of them.                             *)
LEMMA DeadNotDealt ==
  ASSUME IndInv, DeadEmpty, UNCHANGED server, NEW i, NEW m \in service_module, NEW n \in Nat,
         DealerSend(i, m, n), n = 0 \/ i \in 1..Len(lb)
  PROVE  DeadEmpty'
<1> SUFFICES ASSUME NEW k \in Copy, ~server[k].up PROVE inbox'[k] = <<>> /\ ~server[k].busy
  BY DEF DeadEmpty
<1>1. inbox[k] = <<>> /\ ~server[k].busy
  BY DEF DeadEmpty
<1>2. CASE n = 0
  BY <1>1, <1>2 DEF DealerSend
<1>3. CASE i \in 1..Len(lb)
  <2>1. k \notin Peers(i)
    BY <1>3 DEF IndInv, Route, Connections, Peers
  <2>2. TypeOK
    BY DEF IndInv
  <2> QED
    BY <1>1, <1>3, <2>1, <2>2, NotDealt
<1> QED
  BY <1>2, <1>3

(* A message that is not for the client.                                   *)
LEMMA DealtKept ==
  ASSUME TypeOK, UNCHANGED <<server, outbox>>, NEW i, NEW m \in service_module, NEW n \in Nat,
         DealerSend(i, m, n), NEW c \in Client, ~IsCall(m, c), NEW k \in Copy
  PROVE  Kept(k, c)
<1>1. PICK x \in Nat : inbox'[k] = inbox[k] \o [j \in 1..x |-> m]
  BY DealtOut
<1>2. FewerCalls(inbox'[k], inbox[k], c)
  BY <1>1, CopyTypes, DealtCalls
<1>3. inbox'[k] \in Seq(service_module)
  BY <1>1, CopyTypes, DealtQueue
<1>4. FewerAnswers(outbox[k], outbox[k], c)
  BY CopyTypes, SameQueues
<1> QED
  BY <1>2, <1>3, <1>4, CopyTypes, FewerKeeps DEF Kept

(* A heartbeat round.                                                      *)
LEMMA HeartbeatMask ==
  ASSUME IndInv, MaskInv, UNCHANGED <<server, client>>, NEW i \in DOMAIN available_services,
         Heartbeat(i)
  PROVE  MaskInv'
<1> DEFINE s == available_services[i]
           r == check_pong(services_db[s])
           ping == [heartbeat |-> TRUE, seq_id |-> r.seq_id_ping,
                    client |-> NoClient, parameters |-> 0]
<1>1. /\ services_db' = [services_db EXCEPT ![s] = r]
      /\ DealerSend(i, ping, r.num_copies_reliable)
      /\ UNCHANGED <<router_in, router_out, outbox>>
  BY DEF Heartbeat, HeartbeatTimeout
<1>2. TypeOK /\ DeadEmpty
  BY DEF IndInv, MaskInv
<1>3. s \in Registered /\ i \in 1..Len(lb)
  BY LenProperties DEF IndInv, TypeOK, BrokerTypeOK, Route, Tables
<1>4. GoodRecord(services_db[s])
  BY <1>3 DEF IndInv, Records
<1>5. /\ r.seq_id_ping \in Nat /\ r.num_copies_reliable \in Nat
      /\ r.request_records = services_db[s].request_records
  BY <1>4, CheckPongType DEF GoodRecord, service_record
<1> HIDE DEF r, s
<1>6. ping \in service_module /\ ping.heartbeat
  BY <1>5 DEF service_module
<1> HIDE DEF ping
<1>7. DeadEmpty'
  BY <1>1, <1>2, <1>3, <1>5, <1>6, DeadNotDealt
<1>8. \A t \in Registered' : IF t \in Registered
           THEN services_db'[t].request_records \subseteq services_db[t].request_records
           ELSE services_db'[t].request_records = {}
  BY <1>1, <1>3, <1>5 DEF Registered
<1>9. ASSUME NEW c \in Client PROVE CallSound(c)'
  <2>1. ~IsCall(ping, c)
    BY <1>6 DEF IsCall
  <2>2. \A k \in Copy : Kept(k, c)
    BY <1>1, <1>2, <1>5, <1>6, <2>1, DealtKept
  <2>3. CallSound(c) /\ Covered(c) /\ RightResponses(c)
    BY <1>1, <1>8, CoveredFrame, SameResponses DEF MaskInv
  <2> QED
    BY <1>1, <1>2, <2>2, <2>3, CallKept
<1> QED
  BY <1>7, <1>9 DEF MaskInv

LEMMA SpentFinite ==
  ASSUME NEW s, NEW c
  PROVE  Cardinality(SpentFaulty(s, c)) \in Nat /\ Cardinality(SpentFaulty(s, c)') \in Nat
<1>1. SpentFaulty(s, c) \in SUBSET FaultyOf(s) /\ SpentFaulty(s, c)' \in SUBSET FaultyOf(s)
  BY DEF SpentFaulty, FaultyOf
<1> QED
  BY <1>1, FaultyFinite, FS_Subset, FS_CardinalityType

(* The request of a client is stored and dealt out.                        *)
LEMMA RequestMask ==
  ASSUME IndInv, MaskInv, UNCHANGED <<server, client>>, NEW c \in Client, GetRequest(c)
  PROVE  MaskInv'
<1> DEFINE s == Head(router_in[c]).service
           r == services_db[s]
           i == find_registration(s) + 1
           m == [heartbeat |-> FALSE, seq_id |-> r.seq_id_request,
                 client |-> c, parameters |-> Head(router_in[c]).parameters]
           n == push_request([r EXCEPT !.seq_id_request = @ + 1], c)
           q == NewRequest(r.seq_id_request, c)
<1>1. /\ TakeRequest(c) /\ find_registration(s) # SERVICE_NOT_FOUND /\ ~OutOfBounds(s)
      /\ DealerSend(i, m, r.num_copies_reliable)
      /\ services_db' = [services_db EXCEPT ![s] = n]
      /\ UNCHANGED <<router_out, outbox>>
  BY DEF GetRequest, TakeRequest
<1>2. TypeOK /\ DeadEmpty /\ CallSound(c)
  BY DEF IndInv, MaskInv
<1>3. s \in Registered
  BY <1>1 DEF find_registration
<1>4. r \in service_record
  BY <1>2, <1>3 DEF TypeOK, BrokerTypeOK, Registered
<1>5. /\ Head(router_in[c]) \in request_module
      /\ client[c].status = "waiting" =>
           Head(router_in[c]) = [service |-> client[c].service,
                                 parameters |-> client[c].parameters]
  BY <1>1, <1>2, TakeRequestType DEF TakeRequest, CallSound
<1>6. /\ m \in service_module /\ r.num_copies_reliable \in Nat
      /\ ~m.heartbeat /\ m.client = c /\ m.parameters = Head(router_in[c]).parameters
  <2> HIDE DEF r
  <2>1. r.seq_id_request \in Nat /\ r.num_copies_reliable \in Nat
    BY <1>4 DEF service_record
  <2>2. Head(router_in[c]).parameters \in Int
    BY <1>5 DEF request_module
  <2> QED
    BY <2>1, <2>2 DEF service_module
<1>7. r.num_copies_reliable = 0 \/ i \in 1..Len(lb)
  <2>1. r.num_copies_reliable > 0 => i \in DOMAIN dealer
    BY <1>1 DEF OutOfBounds
  <2> QED
    BY <1>6, <2>1, LenProperties DEF IndInv, TypeOK, BrokerTypeOK, Route, Tables
<1>8. n.request_records = r.request_records \cup {q}
  BY <1>4, PushRequestRecords
<1>9. q.client_id = c /\ q.results = <<>>
  BY DEF NewRequest
<1>10. /\ client[c].status = "waiting" => s = client[c].service /\ m.parameters = client[c].parameters
  BY <1>5
<1> HIDE DEF m, n, q, i, s
<1>11. DeadEmpty'
  BY <1>1, <1>2, <1>6, <1>7, DeadNotDealt
<1>12. /\ Registered' = Registered
       /\ \A t \in Registered : services_db'[t].request_records =
            IF t = s THEN services_db[t].request_records \cup {q}
                     ELSE services_db[t].request_records
  BY <1>1, <1>3, <1>8 DEF Registered
<1>13. ASSUME NEW d \in Client, d # c PROVE CallSound(d)'
  <2>1. ~IsCall(m, d)
    BY <1>6, <1>13 DEF IsCall
  <2>2. \A k \in Copy : Kept(k, d)
    BY <1>1, <1>2, <1>6, <2>1, DealtKept
  <2>3. Covered(d)
    BY <1>9, <1>12, <1>13 DEF Covered, Matching
  <2>4. CallSound(d) /\ RightResponses(d)
    BY <1>1, SameResponses DEF MaskInv
  <2>5. router_in'[d] = router_in[d]
    BY <1>1, <1>2, <1>13, TakenRequest
  <2> QED
    BY <1>2, <2>2, <2>3, <2>4, <2>5, CallKept
<1>14. CallSound(c)'
  <2>1. router_in'[c] = <<>> /\ Unheard(c) /\ client[c].requests # 0
    BY <1>1, <1>2, TakenRequest
  <2>2. ASSUME NEW k \in Copy
        PROVE  /\ AtMostOnce(server[k], inbox'[k], outbox[k], c)
               /\ Honest(k, server[k], inbox'[k], outbox[k], c, m.parameters)
    <3>1. PICK x \in Nat : inbox'[k] = inbox[k] \o [j \in 1..x |-> m]
      BY <1>1, <1>2, <1>6, DealtOut
    <3>2. Silent(server[k], inbox[k], outbox[k], c)
      BY <2>1 DEF Unheard
    <3> QED
      BY <1>2, <1>6, <3>1, <3>2, CopyTypes, DealtOnce
  <2>3. ASSUME client[c].status = "waiting" PROVE Masked(c)'
    <3> SUFFICES ASSUME NEW t \in Registered', NEW r2 \in Matching(services_db'[t].request_records, c)
                 PROVE  /\ t = client'[c].service
                        /\ Cardinality(Wrong(r2.results, service_body(t, client'[c].parameters)))
                             <= Cardinality(SpentFaulty(t, c)')
      BY DEF Masked, Matching
    <3>1. t = s /\ r2 = q
      BY <1>12, <2>1 DEF Unheard, Matching
    <3>2. Wrong(r2.results, service_body(t, client'[c].parameters)) = {}
      BY <1>9, <3>1 DEF Wrong
    <3>3. Cardinality(Wrong(r2.results, service_body(t, client'[c].parameters))) = 0
      BY <3>2, FS_EmptySet
    <3>4. Cardinality(SpentFaulty(t, c)') \in Nat
      BY SpentFinite
    <3> QED
      BY <1>10, <2>3, <3>1, <3>3, <3>4
  <2> QED
    BY <1>1, <1>2, <1>10, <2>1, <2>2, <2>3 DEF CallSound
<1> QED
  BY <1>11, <1>13, <1>14 DEF MaskInv

-----------------------------------------------------------------------------
(* Results *)

(* A value that is elected has the votes of more than half of NMR copies.  *)
LEMMA ElectedMajority ==
  ASSUME NEW results \in Seq(Int), vote(results) >= 0
  PROVE  /\ vote(results) + 1 \in DOMAIN results
         /\ Majority(results, results[vote(results) + 1])
<1> DEFINE m == max(results)
<1>1. results # <<>> /\ count(results)[m] > NMR \div 2 /\ vote(results) = m - 1
  BY DEF vote, NO_MAJORITY
<1>2. m \in DOMAIN results
  BY <1>1, MaxExists
<1>3. vote(results) + 1 = m
  BY <1>1, <1>2
<1>4. count(results)[m] = Cardinality(Votes(results, results[m]))
  BY <1>2 DEF count
<1> HIDE DEF m
<1> QED
  BY <1>1, <1>2, <1>3, <1>4 DEF Majority

(* So it is right if no more than half of them are wrong.                  *)
LEMMA WrongMinority ==
  ASSUME NEW results \in Seq(Int), NEW right,
         Cardinality(Wrong(results, right)) <= NMR \div 2, vote(results) >= 0
  PROVE  results[vote(results) + 1] = right
<1> DEFINE v == results[vote(results) + 1]
<1>1. Majority(results, v)
  BY ElectedMajority
<1> HIDE DEF v
<1>2. SUFFICES ASSUME v # right PROVE FALSE
  BY DEF v
<1>3. Votes(results, v) \in SUBSET Wrong(results, right)
  BY <1>2 DEF Votes, Wrong
<1>4. /\ Cardinality(Votes(results, v)) <= Cardinality(Wrong(results, right))
      /\ Cardinality(Votes(results, v)) \in Nat /\ Cardinality(Wrong(results, right)) \in Nat
  BY <1>3, WrongFinite, VotesBounded, FS_Subset
<1> QED
  BY <1>1, <1>4, NMRAssumption DEF Majority

(* The answer that the broker gives for results is one a client may get.   *)
Verdict(results) ==
  IF vote(results) >= 0 THEN Available(results[vote(results) + 1]) ELSE Failure("NOT_RELIABLE")

LEMMA VerdictRight ==
  ASSUME NEW results \in Seq(Int), NEW call,
         Cardinality(Wrong(results, service_body(call.service, call.parameters))) <= NMR \div 2
  PROVE  Verdict(results) \in GoodResponse(call)
<1> DEFINE right == service_body(call.service, call.parameters)
<1>1. CASE vote(results) >= 0
  <2>1. results[vote(results) + 1] = right
    <3> HIDE DEF right
    <3> QED
      BY <1>1, WrongMinority DEF right
  <2> QED
    BY <1>1, <2>1 DEF Verdict, GoodResponse
<1>2. CASE ~(vote(results) >= 0)
  BY <1>2 DEF Verdict, GoodResponse
<1> QED
  BY <1>1, <1>2

(* One more result is at most one more wrong one.                          *)
LEMMA WrongAppend ==
  ASSUME NEW results \in Seq(Int), NEW v \in Int, NEW right
  PROVE  /\ Cardinality(Wrong(Append(results, v), right)) <= Cardinality(Wrong(results, right)) + 1
         /\ v = right => Cardinality(Wrong(Append(results, v), right))
                           <= Cardinality(Wrong(results, right))
<1> DEFINE W == Wrong(results, right)
           A == Wrong(Append(results, v), right)
<1>1. \A x \in DOMAIN Append(results, v) :
        \/ Append(results, v)[x] = v /\ x = Len(results) + 1
        \/ x \in DOMAIN results /\ Append(results, v)[x] = results[x]
  BY AppendQueue
<1>2. \A x \in A : x \in W \/ (x = Len(results) + 1 /\ v # right)
  BY <1>1 DEF Wrong
<1>3. IsFiniteSet(W) /\ Cardinality(W) \in Nat
  BY WrongFinite
<1> HIDE DEF W, A
<1>4. PICK y : y = Len(results) + 1
  OBVIOUS
<1>5. /\ A \in SUBSET (W \cup {y}) /\ IsFiniteSet(W \cup {y})
      /\ Cardinality(W \cup {y}) \in {Cardinality(W), Cardinality(W) + 1}
  BY <1>2, <1>3, <1>4, FS_AddElement
<1>6. Cardinality(A) \in Nat /\ Cardinality(A) <= Cardinality(W) + 1
  BY <1>3, <1>5, FS_Subset, FS_CardinalityType
<1>7. v = right => A \in SUBSET W
  BY <1>2
<1>8. v = right => Cardinality(A) <= Cardinality(W)
  BY <1>3, <1>7, FS_Subset
<1> QED
  BY <1>6, <1>8 DEF W, A

(* push_result and get_result, per client.                                 *)
LEMMA PushedResults ==
  ASSUME NEW R \in SUBSET request_record_t, NEW c, NEW v \in Int,
         NEW d, NEW r2 \in Matching(push_result(R, c, v), d)
  PROVE  IF d = c THEN \E r \in Matching(R, c) : r2.results = Append(r.results, v)
                  ELSE r2 \in Matching(R, d)
<1>1. PICK r \in R : r2 = IF r.client_id = c THEN WithResult(r, v) ELSE r
  BY DEF Matching, push_result, WithResult
<1>2. /\ WithResult(r, v).client_id = r.client_id
      /\ WithResult(r, v).results = Append(r.results, v)
  BY WithResultType
<1>3. r2.client_id = d
  BY DEF Matching
<1> QED
  BY <1>1, <1>2, <1>3 DEF Matching

LEMMA GotResults ==
  ASSUME NEW R \in SUBSET request_record_t, NEW c, NEW n \in Nat,
         \A q \in R : q.seq < n
  PROVE  \/ get_result(R, c) = <<>>
         \/ \E r \in Matching(R, c) : get_result(R, c) = r.results
<1> DEFINE M == Matching(R, c)
           Rest == {n - q.seq : q \in M}
<1>1. CASE M = {}
  BY <1>1 DEF get_result
<1>2. CASE M # {}
  <2>1. \A q \in M : q.seq \in Nat /\ q.seq < n
    BY DEF Matching, request_record_t
  <2>2. Rest \in SUBSET Nat /\ Rest # {}
    BY <1>2, <2>1
  <2>3. PICK m \in Rest : \A y \in Rest : m <= y
    BY <2>2, LeastNat
  <2>4. PICK q \in M : m = n - q.seq
    BY <2>3
  <2>5. ASSUME NEW x \in M PROVE x.seq <= q.seq
    <3>1. n - x.seq \in Rest
      OBVIOUS
    <3>2. n - q.seq <= n - x.seq
      BY <2>3, <2>4, <3>1
    <3> QED
      BY <2>1, <3>2
  <2> DEFINE last == CHOOSE r \in M : \A x \in M : x.seq <= r.seq
  <2>6. last \in M
    BY <2>4, <2>5
  <2>7. get_result(R, c) = last.results
    BY <1>2 DEF get_result
  <2> HIDE DEF last
  <2> QED
    BY <2>6, <2>7
<1> QED
  BY <1>1, <1>2

(* A result is the last that its copy gives to the call.                   *)
LEMMA LastAnswer ==
  ASSUME TypeOK, MaskInv, UNCHANGED server, NEW k \in Copy, TakeReply(k),
         NEW c \in Client, IsAnswer(Head(outbox[k]), c)
  PROVE  /\ ~SpentCopy(k, c) /\ SpentCopy(k, c)'
         /\ client[c].requests # 0 /\ router_in[c] = <<>>
         /\ client[c].status = "waiting" /\ k \notin Faulty =>
              Head(outbox[k]).result = service_body(k[1], client[c].parameters)
<1>1. outbox[k] \in Seq(server_reply_t) /\ outbox[k] # <<>> /\ UNCHANGED inbox
      /\ outbox'[k] = Tail(outbox[k])
  BY DEF TakeReply, TypeOK, NetTypeOK
<1>2. CallSound(c) /\ AtMostOnce(server[k], inbox[k], outbox[k], c)
  BY DEF MaskInv, CallSound
<1>3. /\ \A x \in DOMAIN Tail(outbox[k]) :
           x + 1 \in DOMAIN outbox[k] /\ Tail(outbox[k])[x] = outbox[k][x + 1]
      /\ Head(outbox[k]) = outbox[k][1] /\ 1 \in DOMAIN outbox[k]
      /\ DOMAIN Tail(outbox[k]) \subseteq Nat \ {0}
  <2>1. Tail(outbox[k]) \in Seq(server_reply_t)
    BY <1>1, TailQueue
  <2>2. DOMAIN Tail(outbox[k]) = 1..Len(Tail(outbox[k])) /\ Len(Tail(outbox[k])) \in Nat
    BY <2>1, LenProperties
  <2>3. DOMAIN Tail(outbox[k]) \subseteq Nat \ {0}
    BY <2>2
  <2> QED
    BY <1>1, <2>3, TailQueue
<1>4. 1 \in Answers(outbox[k], c)
  BY <1>3 DEF Answers
<1>5. ~Serves(server[k], c) /\ AllPast(server[k], inbox[k], c)
  BY <1>2, <1>4 DEF AtMostOnce
<1>6. Answers(outbox'[k], c) = {}
  <2> SUFFICES ASSUME NEW x \in Answers(outbox'[k], c) PROVE FALSE
    OBVIOUS
  <2>1. x \in Nat \ {0} /\ x + 1 \in Answers(outbox[k], c)
    BY <1>1, <1>3 DEF Answers
  <2>2. x + 1 = 1
    BY <1>2, <1>4, <2>1 DEF AtMostOnce
  <2> QED
    BY <2>1, <2>2
<1>7. ~SpentCopy(k, c) /\ SpentCopy(k, c)' /\ ~Silent(server[k], inbox[k], outbox[k], c)
  BY <1>1, <1>4, <1>5, <1>6 DEF SpentCopy, Spent, Silent
<1>8. client[c].requests # 0 /\ router_in[c] = <<>>
  BY <1>2, <1>7 DEF CallSound, Unheard
<1>9. ASSUME client[c].status = "waiting", k \notin Faulty
      PROVE  Head(outbox[k]).result = service_body(k[1], client[c].parameters)
  <2>1. Honest(k, server[k], inbox[k], outbox[k], c, client[c].parameters)
    BY <1>2, <1>9 DEF CallSound
  <2> QED
    BY <1>3, <1>4, <1>9, <2>1 DEF Honest
<1> QED
  BY <1>7, <1>8, <1>9

LEMMA OneMoreSpent ==
  ASSUME NEW c \in Client, NEW k \in Faulty, ~SpentCopy(k, c), SpentCopy(k, c)',
         \A x \in Copy : AtMostOnce(server[x], inbox[x], outbox[x], c),
         \A x \in Copy : Kept(x, c)
  PROVE  Cardinality(SpentFaulty(k[1], c)) + 1 <= Cardinality(SpentFaulty(k[1], c)')
<1> DEFINE S == SpentFaulty(k[1], c)
           T == SpentFaulty(k[1], c)'
<1>1. S \subseteq T /\ IsFiniteSet(S) /\ IsFiniteSet(T) /\ Cardinality(S) \in Nat
  BY MoreSpent
<1>2. k \notin S /\ k \in T
  BY DEF SpentFaulty, FaultyOf
<1> HIDE DEF S, T
<1>3. S \cup {k} \in SUBSET T
  BY <1>1, <1>2
<1>4. IsFiniteSet(S \cup {k}) /\ Cardinality(S \cup {k}) = Cardinality(S) + 1
  BY <1>1, <1>2, FS_AddElement
<1>5. Cardinality(S \cup {k}) <= Cardinality(T)
  BY <1>1, <1>3, FS_Subset
<1> QED
  BY <1>4, <1>5 DEF S, T

LEMMA FewSpent ==
  ASSUME MinorityFaulty, NEW s \in Service, NEW c
  PROVE  /\ Cardinality(SpentFaulty(s, c)) <= NMR \div 2
         /\ Cardinality(SpentFaulty(s, c)') <= NMR \div 2
<1>1. SpentFaulty(s, c) \in SUBSET FaultyOf(s) /\ SpentFaulty(s, c)' \in SUBSET FaultyOf(s)
  BY DEF SpentFaulty, FaultyOf
<1>2. /\ Cardinality(SpentFaulty(s, c)) <= Cardinality(FaultyOf(s))
      /\ Cardinality(SpentFaulty(s, c)') <= Cardinality(FaultyOf(s))
      /\ Cardinality(FaultyOf(s)) \in Nat
  BY <1>1, FaultyFinite, FS_Subset, FS_CardinalityType
<1>3. Cardinality(FaultyOf(s)) <= NMR \div 2
  BY DEF MinorityFaulty
<1> QED
  BY <1>2, <1>3, SpentFinite, NMRAssumption

(* The results of the request of c, with the one that copy k gives.        *)
LEMMA StillMasked ==
  ASSUME TypeOK, MaskInv, UNCHANGED server, NEW k \in Copy, TakeReply(k),
         NEW c \in Client, IsAnswer(Head(outbox[k]), c), Head(outbox[k]) \in server_reply_t,
         client[c].status = "waiting", \A x \in Copy : Kept(x, c),
         k[1] \in Registered, NEW r \in Matching(services_db[k[1]].request_records, c)
  PROVE  /\ k[1] = client[c].service
         /\ Cardinality(Wrong(Append(r.results, Head(outbox[k]).result),
                              service_body(k[1], client[c].parameters)))
              <= Cardinality(SpentFaulty(k[1], c)')
<1> DEFINE v == Head(outbox[k]).result
           right == service_body(k[1], client[c].parameters)
           w == Cardinality(Wrong(r.results, right))
           w2 == Cardinality(Wrong(Append(r.results, v), right))
           n == Cardinality(SpentFaulty(k[1], c))
           n2 == Cardinality(SpentFaulty(k[1], c)')
<1>1. k[1] = client[c].service /\ w <= n
  BY DEF MaskInv, CallSound, Masked
<1>2. r.results \in Seq(Int)
  BY RecordTypes DEF Matching, request_record_t
<1>3. v \in Int
  BY DEF server_reply_t
<1>4. w2 <= w + 1 /\ (v = right => w2 <= w)
  <2> HIDE DEF v, right
  <2> QED
    BY <1>2, <1>3, WrongAppend
<1>5. w \in Nat /\ w2 \in Nat
  <2>1. Append(r.results, v) \in Seq(Int)
    BY <1>2, <1>3, AppendQueue
  <2> HIDE DEF v, right
  <2> QED
    BY <1>2, <2>1, WrongFinite
<1>6. \A x \in Copy : AtMostOnce(server[x], inbox[x], outbox[x], c)
  BY DEF MaskInv, CallSound
<1>7. n \in Nat /\ n2 \in Nat /\ n <= n2
  BY <1>6, MoreSpent
<1>8. k \in Faulty => n + 1 <= n2
  BY <1>6, LastAnswer, OneMoreSpent
<1>9. k \notin Faulty => v = right
  BY LastAnswer
<1> HIDE DEF v, right, w, w2, n, n2
<1>10. w2 <= n2
  BY <1>1, <1>4, <1>5, <1>7, <1>8, <1>9
<1> QED
  BY <1>1, <1>10 DEF v, right, w2, n2

(* The table when the requests of one service have been replaced.          *)
LEMMA ReplacedRequests ==
  ASSUME TypeOK, NEW s \in Registered, NEW R, services_db' = WithRequests(services_db, s, R)
  PROVE  /\ Registered' = Registered
         /\ \A t \in Registered : services_db'[t].request_records =
              IF t = s THEN R ELSE services_db[t].request_records
<1>1. services_db \in [Registered -> service_record] /\ services_db[s] \in service_record
  BY DEF TypeOK, BrokerTypeOK, Registered
<1>2. [services_db[s] EXCEPT !.request_records = R].request_records = R
  BY <1>1 DEF service_record
<1>3. services_db' = [services_db EXCEPT ![s] = [services_db[s] EXCEPT !.request_records = R]]
  BY DEF WithRequests
<1> QED
  BY <1>1, <1>2, <1>3 DEF Registered

(* A result is stored, and may decide the request.                         *)
LEMMA ResultMask ==
  ASSUME IndInv, MaskInv, MinorityFaulty, UNCHANGED <<server, client>>, NEW k \in Copy,
         GetResult(k)
  PROVE  MaskInv'
<1> DEFINE s == k[1]
           reply == Head(outbox[k])
<1>1. TypeOK /\ TakeReply(k) /\ ~reply.heartbeat /\ ~reply.duplicated
  BY DEF GetResult, IndInv
<1>2. reply \in server_reply_t /\ s \in Service /\ reply.result \in Int
  BY <1>1, TakeReplyType DEF server_reply_t
<1>3. PICK c \in Client \cup {NoClient} : c = reply.client
  BY <1>2 DEF server_reply_t
<1> DEFINE before == services_db[s].request_records
           records == push_result(before, c, reply.result)
           results == get_result(records, c)
<1>4. CASE s \notin Registered
  <2>1. UNCHANGED <<services_db, router_out>>
    BY <1>4 DEF GetResult
  <2>2. \A d \in Client : Covered(d)
    BY <2>1 DEF Covered, Registered
  <2> QED
    BY <1>1, <2>1, <2>2, SameResponses, TakenMask
<1>5. CASE s \in Registered
  <2>1. GoodRecord(services_db[s])
    BY <1>5 DEF IndInv, Records
  <2>2. /\ before \in SUBSET request_record_t
        /\ services_db[s].seq_id_request \in Nat
        /\ \A q \in before : q.seq < services_db[s].seq_id_request
    BY <2>1 DEF GoodRecord, service_record
  <2>3. /\ records \in SUBSET request_record_t
        /\ \A q \in records : q.seq < services_db[s].seq_id_request
    <3> HIDE DEF before
    <3>1. /\ records \in SUBSET request_record_t
          /\ \A q \in records : \E p \in before : q.seq = p.seq
      BY <1>2, <2>2, PushResultType
    <3> QED
      BY <2>2, <3>1
  <2>4. \A d : \A r2 \in Matching(records, d) :
          IF d = c THEN \E r \in Matching(before, c) : r2.results = Append(r.results, reply.result)
                   ELSE r2 \in Matching(before, d)
    <3> HIDE DEF before
    <3> QED
      BY <1>2, <2>2, PushedResults
  <2>5. /\ results = <<>> \/ \E r \in Matching(records, c) : results = r.results
        /\ results \in Seq(Int)
    <3> HIDE DEF records
    <3> QED
      BY <2>2, <2>3, GotResults, GetResultType
  <2> DEFINE R2 == IF Answerable(results) THEN delete_request(records, c) ELSE records
  <2>6. /\ services_db' = WithRequests(services_db, s, R2)
        /\ IF Answerable(results) THEN Respond(c, Verdict(results)) ELSE UNCHANGED router_out
    BY <1>5, <1>3 DEF GetResult, WithRequests, Verdict
  <2>7. R2 \subseteq records
    BY DeleteRequestType
  <2> HIDE DEF R2, records, results, before
  <2>8. /\ Registered' = Registered
        /\ \A t \in Registered : services_db'[t].request_records =
             IF t = s THEN R2 ELSE services_db[t].request_records
    BY <1>1, <1>5, <2>6, ReplacedRequests
  <2>9. ASSUME NEW d \in Client, d # c PROVE Covered(d) /\ RightResponses(d)
    <3>1. Covered(d)
      BY <2>4, <2>7, <2>8, <2>9 DEF Covered, Matching, before
    <3>2. router_out'[d] = router_out[d]
      BY <1>1, <2>6, <2>9 DEF Respond, TypeOK, NetTypeOK
    <3>3. RightResponses(d)
      BY <3>2 DEF MaskInv, CallSound, RightResponses
    <3> QED
      BY <3>1, <3>3
  <2>10. ASSUME c \in Client PROVE CallSound(c)'
    <3>1. IsAnswer(reply, c) /\ CallSound(c)
      BY <1>1, <1>3, <2>10 DEF IsAnswer, MaskInv
    <3>2. \A x \in Copy : Kept(x, c)
      BY <1>1, <2>10, TakenKept
    <3>3. client[c].requests # 0 /\ router_in[c] = <<>> /\ UNCHANGED router_in
      BY <1>1, <2>10, <3>1, LastAnswer DEF TakeReply
    <3>4. \A x \in Copy : AtMostOnce(server'[x], inbox'[x], outbox'[x], c)
      BY <3>1, <3>2 DEF CallSound, Kept, Keeps
    <3>5. CASE client[c].status # "waiting"
      BY <3>1, <3>3, <3>4, <3>5 DEF CallSound
    <3>6. CASE client[c].status = "waiting"
      <4> DEFINE right(t) == service_body(t, client[c].parameters)
      <4>1. ASSUME NEW x \in Copy
            PROVE  Honest(x, server'[x], inbox'[x], outbox'[x], c, client'[c].parameters)
        <5>1. client[c].parameters \in Int
          BY <1>1, <2>10 DEF TypeOK, ClientTypeOK
        <5> QED
          BY <3>1, <3>2, <3>6, <5>1 DEF CallSound, Kept, Keeps
      <4>2. ASSUME NEW r2 \in Matching(records, c)
            PROVE  /\ s = client[c].service
                   /\ Cardinality(Wrong(r2.results, right(s))) <= Cardinality(SpentFaulty(s, c)')
        <5>1. PICK r \in Matching(before, c) : r2.results = Append(r.results, reply.result)
          BY <2>4
        <5> QED
          BY <1>1, <1>2, <1>5, <2>10, <3>1, <3>2, <3>6, <5>1, StillMasked DEF before
      <4>3. Masked(c)'
        <5> SUFFICES ASSUME NEW t \in Registered', NEW r2 \in Matching(services_db'[t].request_records, c)
                     PROVE  /\ t = client[c].service
                            /\ Cardinality(Wrong(r2.results, right(t))) <= Cardinality(SpentFaulty(t, c)')
          BY DEF Masked, Matching
        <5>1. CASE t = s
          <6>1. r2 \in Matching(records, c)
            BY <2>7, <2>8, <5>1 DEF Matching
          <6> QED
            BY <4>2, <5>1, <6>1
        <5>2. CASE t # s
          <6>1. t \in Registered /\ r2 \in Matching(services_db[t].request_records, c)
            BY <2>8, <5>2
          <6>2. /\ t = client[c].service
                /\ Cardinality(Wrong(r2.results, right(t))) <= Cardinality(SpentFaulty(t, c))
            BY <3>1, <3>6, <6>1 DEF CallSound, Masked
          <6>3. r2.results \in Seq(Int)
            BY <1>1, <6>1, RecordTypes DEF Matching, request_record_t
          <6>4. Cardinality(Wrong(r2.results, right(t))) \in Nat
            <7> HIDE DEF right
            <7> QED
              BY <6>3, WrongFinite
          <6>5. /\ Cardinality(SpentFaulty(t, c)) <= Cardinality(SpentFaulty(t, c)')
                /\ Cardinality(SpentFaulty(t, c)) \in Nat /\ Cardinality(SpentFaulty(t, c)') \in Nat
            BY <2>10, <3>1, <3>2, MoreSpent DEF CallSound
          <6> HIDE DEF right
          <6> QED
            BY <6>2, <6>4, <6>5
        <5> QED
          BY <5>1, <5>2
      <4>4. RightResponses(c)
        <5>1. CASE ~Answerable(results)
          BY <2>6, <2>10, <5>1, SameResponses
        <5>2. CASE Answerable(results)
          <6>1. results # <<>>
            <7>1. Len(results) > 0
              BY <2>5, <5>2, NMRAssumption DEF Answerable
            <7> QED
              BY <7>1
          <6>2. PICK r2 \in Matching(records, c) : results = r2.results
            BY <2>5, <6>1
          <6>3. s = client[c].service /\ Cardinality(Wrong(results, right(s))) <= NMR \div 2
            <7>1. Cardinality(Wrong(results, right(s))) \in Nat
              <8> HIDE DEF right
              <8> QED
                BY <2>5, WrongFinite
            <7> HIDE DEF right
            <7> QED
              BY <1>2, <4>2, <6>2, <7>1, FewSpent, SpentFinite, NMRAssumption
          <6>4. Verdict(results) \in GoodResponse(client[c])
            BY <2>5, <6>3, VerdictRight
          <6>5. Verdict(results) \in response_module
            BY <2>5, VotedType DEF Verdict
          <6> QED
            BY <1>1, <2>6, <2>10, <5>2, <6>4, <6>5, RespondRight
        <5> QED
          BY <5>1, <5>2
      <4> QED
        BY <3>1, <3>3, <3>4, <3>6, <4>1, <4>3, <4>4 DEF CallSound, RightResponses
    <3> QED
      BY <3>5, <3>6
  <2> QED
    BY <1>1, <2>9, <2>10, TakenMask
<1> QED
  BY <1>4, <1>5

(* A request has expired and is answered with what there is.               *)
LEMMA ExpiredMask ==
  ASSUME IndInv, MaskInv, MinorityFaulty, UNCHANGED <<server, client>>,
         NEW i \in DOMAIN available_services,
         NEW q \in services_db[available_services[i]].request_records,
         CheckPendingRequest(i, q)
  PROVE  MaskInv'
<1> DEFINE s == available_services[i]
           c == q.client_id
           e == ExpiredFrom(i)
           R1 == Expire(services_db[s].request_records, q)
           db1 == WithRequests(services_db, s, R1)
           R2 == delete_request(db1[e].request_records, c)
<1>1. /\ TypeOK /\ Respond(c, Verdict(q.results))
      /\ UNCHANGED <<router_in, inbox, outbox>>
      /\ services_db' = IF e \in Registered THEN WithRequests(db1, e, R2) ELSE db1
  BY DEF CheckPendingRequest, WithRequests, Verdict, IndInv
<1>2. s \in Registered
  BY LenProperties DEF IndInv, TypeOK, BrokerTypeOK, Route, Tables
<1>3. /\ q \in request_record_t /\ s \in Service
      /\ services_db \in [Registered -> service_record] /\ services_db[s] \in service_record
  BY <1>1, <1>2, RecordTypes DEF TypeOK, BrokerTypeOK, Registered
<1>4. c \in Client /\ q.results \in Seq(Int) /\ q \in Matching(services_db[s].request_records, c)
  BY <1>3 DEF request_record_t, Matching
<1>5. \A x \in R1 : \E r \in services_db[s].request_records :
        x.client_id = r.client_id /\ x.results = r.results
  <2>1. [q EXCEPT !.expired = TRUE].client_id = q.client_id
        /\ [q EXCEPT !.expired = TRUE].results = q.results
    BY <1>3 DEF request_record_t
  <2> QED
    BY <2>1 DEF Expire
<1>6. R2 \subseteq db1[e].request_records
  BY DeleteRequestType
<1> HIDE DEF R1, R2, e
<1>7. /\ DOMAIN db1 = Registered /\ db1[s].request_records = R1
      /\ \A t \in Registered \ {s} : db1[t] = services_db[t]
      /\ \A t \in Registered : db1[t] = [db1[t] EXCEPT !.request_records = @]
  <2>1. db1 = [services_db EXCEPT ![s] = [services_db[s] EXCEPT !.request_records = R1]]
    BY DEF WithRequests
  <2> QED
    BY <1>2, <1>3, <2>1 DEF service_record
<1> HIDE DEF db1
<1>8. /\ Registered' = Registered
      /\ \A t \in Registered : services_db'[t].request_records \subseteq db1[t].request_records
  BY <1>1, <1>6, <1>7 DEF WithRequests, Registered
<1>9. \A d \in Client : Covered(d)
  BY <1>5, <1>7, <1>8 DEF Covered, Matching
<1>10. client[c].status = "waiting" => Verdict(q.results) \in GoodResponse(client[c])
  <2> SUFFICES ASSUME client[c].status = "waiting"
               PROVE  Verdict(q.results) \in GoodResponse(client[c])
    OBVIOUS
  <2> DEFINE right == service_body(s, client[c].parameters)
  <2>1. s = client[c].service
        /\ Cardinality(Wrong(q.results, right)) <= Cardinality(SpentFaulty(s, c))
    BY <1>2, <1>4 DEF MaskInv, CallSound, Masked
  <2>2. Cardinality(Wrong(q.results, right)) \in Nat
    <3> HIDE DEF right
    <3> QED
      BY <1>4, WrongFinite
  <2>3. Cardinality(Wrong(q.results, right)) <= NMR \div 2
    <3> HIDE DEF right
    <3> QED
      BY <1>3, <2>1, <2>2, FewSpent, SpentFinite, NMRAssumption
  <2> QED
    BY <1>4, <2>1, <2>3, VerdictRight
<1>11. Verdict(q.results) \in response_module
  BY <1>4, VotedType DEF Verdict
<1>12. ASSUME NEW d \in Client PROVE RightResponses(d)
  BY <1>1, <1>10, <1>11, RespondRight
<1> QED
  BY <1>1, <1>9, <1>12, FrontMask

-----------------------------------------------------------------------------
(* Steps of the clients *)

LEMMA ClientMask ==
  ASSUME TypeOK, MaskInv, MaxRequests \in 0..1, UNCHANGED <<brokerVars, server>>, ClientStep
  PROVE  MaskInv'
<1>1. PICK c \in Client : \/ \E s \in Service, p \in Parameters[c] : RequestService(c, s, p)
                          \/ ReceiveResponse(c)
                          \/ Leave(c)
  BY DEF ClientStep
<1>2. UNCHANGED <<services_db, inbox, outbox>>
  BY <1>1 DEF RequestService, ReceiveResponse, Leave, brokerVars
<1>3. DeadEmpty'
  BY <1>2 DEF MaskInv, DeadEmpty
<1>4. /\ client \in [Client -> [status: {"idle", "waiting", "gone"},
                                service: Service \cup {SERVICE_NOT_FOUND},
                                parameters: Int, requests: Nat]]
      /\ router_in \in [Client -> Seq(request_module)]
      /\ router_out \in [Client -> Seq(response_module)]
  BY DEF TypeOK, NetTypeOK, ClientTypeOK
<1>5. \A d : Unheard(d) => Unheard(d)'
  BY <1>2 DEF Unheard, Registered
<1>6. ASSUME NEW d \in Client, d # c PROVE CallSound(d)'
  <2>1. client'[d] = client[d] /\ router_in'[d] = router_in[d] /\ router_out'[d] = router_out[d]
    BY <1>1, <1>4, <1>6 DEF RequestService, ReceiveResponse, Leave
  <2>2. \A k \in Copy : Kept(k, d)
    BY <1>2, SameKept
  <2>3. CallSound(d) /\ Covered(d) /\ RightResponses(d)
    BY <1>2, <2>1 DEF MaskInv, CallSound, RightResponses, Covered, Registered
  <2> QED
    BY <2>1, <2>2, <2>3, CallKept
<1>7. CallSound(c)
  BY DEF MaskInv
<1>8. \A k \in Copy : AtMostOnce(server'[k], inbox'[k], outbox'[k], c)
  BY <1>2, <1>7 DEF CallSound
<1>9. ASSUME ReceiveResponse(c) \/ Leave(c)
      PROVE  CallSound(c)'
  <2>1. /\ client'[c].status # "waiting" /\ client'[c].requests = client[c].requests
        /\ UNCHANGED router_in
    <3>1. PICK u \in [status: {"idle", "waiting", "gone"},
                      service: Service \cup {SERVICE_NOT_FOUND},
                      parameters: Int, requests: Nat] : u = client[c]
      BY <1>4
    <3>2. CASE ReceiveResponse(c)
      <4>1. client'[c] = [u EXCEPT !.status = "idle", !.service = SERVICE_NOT_FOUND,
                                   !.parameters = 0]
        BY <1>4, <3>1, <3>2 DEF ReceiveResponse
      <4>2. client'[c].status = "idle" /\ client'[c].requests = u.requests
        BY <4>1, Zenon
      <4> QED
        BY <3>1, <3>2, <4>2 DEF ReceiveResponse
    <3>3. CASE Leave(c)
      <4>1. client'[c] = [u EXCEPT !.status = "gone"]
        BY <1>4, <3>1, <3>3 DEF Leave
      <4> QED
        BY <3>1, <3>3, <4>1 DEF Leave
    <3> QED
      BY <1>9, <3>2, <3>3
  <2>2. client'[c].requests = 0 => router_in'[c] = <<>>
    BY <1>7, <2>1 DEF CallSound
  <2>3. client'[c].requests = 0 \/ router_in'[c] # <<>> => Unheard(c)'
    BY <1>5, <1>7, <2>1 DEF CallSound
  <2>4. client'[c].requests <= 1 /\ (router_in'[c] # <<>> => Len(router_in'[c]) = 1)
    BY <1>7, <2>1 DEF CallSound
  <2> QED
    BY <1>8, <2>1, <2>2, <2>3, <2>4 DEF CallSound
<1>10. ASSUME NEW s \in Service, NEW p \in Parameters[c], RequestService(c, s, p)
       PROVE  CallSound(c)'
  <2>1. client[c].requests = 0
    BY <1>4, <1>10 DEF RequestService
  <2>2. router_in[c] = <<>> /\ Unheard(c)
    BY <1>7, <2>1 DEF CallSound
  <2> DEFINE m == [service |-> s, parameters |-> p]
  <2>3. /\ client'[c] = [status |-> "waiting", service |-> s, parameters |-> p, requests |-> 1]
        /\ router_in'[c] = Append(<<>>, m) /\ router_out'[c] = <<>>
    BY <1>4, <1>10, <2>1, <2>2 DEF RequestService
  <2>4. Len(router_in'[c]) = 1 /\ Head(router_in'[c]) = m
    <3> HIDE DEF m
    <3> QED
      BY <2>3
  <2>5. \A k \in Copy : Honest(k, server'[k], inbox'[k], outbox'[k], c, p)
    BY <1>2, <2>2 DEF Unheard, Silent, Honest
  <2>6. Unheard(c)'
    BY <1>5, <2>2
  <2>7. Masked(c)'
    <3>1. \A t \in Registered' : Matching(services_db'[t].request_records, c) = {}
      BY <2>6 DEF Unheard
    <3> QED
      BY <3>1 DEF Masked, Matching
  <2>8. /\ client'[c].status = "waiting" /\ client'[c].requests = 1
        /\ client'[c].service = s /\ client'[c].parameters = p
        /\ DOMAIN router_out'[c] = {}
    BY <2>3
  <2>9. Head(router_in'[c]) = [service |-> client'[c].service,
                               parameters |-> client'[c].parameters]
    BY <2>4, <2>8
  <2> HIDE DEF m
  <2>10. /\ client'[c].requests <= 1 /\ client'[c].requests # 0
         /\ \A k \in Copy : Honest(k, server'[k], inbox'[k], outbox'[k], c, client'[c].parameters)
         /\ \A x \in DOMAIN router_out'[c] : router_out'[c][x] \in GoodResponse(client'[c])
    BY <2>5, <2>8
  <2> QED
    BY <1>8, <2>4, <2>6, <2>7, <2>9, <2>10 DEF CallSound
<1> QED
  BY <1>1, <1>3, <1>6, <1>9, <1>10 DEF MaskInv

-----------------------------------------------------------------------------
(* The theorems *)

LEMMA InitMask == Init => MaskInv
<1> SUFFICES ASSUME Init PROVE MaskInv
  OBVIOUS
<1>1. \A k \in Copy : server[k] = Started /\ inbox[k] = <<>> /\ outbox[k] = <<>>
  BY DEF Init, NetInit, ServerInit
<1>2. Registered = {}
  BY DEF Init, BrokerInit, Registered
<1>3. DeadEmpty
  BY <1>1 DEF DeadEmpty, Started
<1>4. ASSUME NEW c \in Client PROVE CallSound(c)
  <2>1. /\ client[c].status = "idle" /\ client[c].requests = 0 /\ router_in[c] = <<>>
    BY DEF Init, ClientInit, NetInit
  <2>2. Unheard(c)
    BY <1>1, <1>2 DEF Unheard, Silent, Serves, Answers, Started
  <2>3. \A k \in Copy : AtMostOnce(server[k], inbox[k], outbox[k], c)
    BY <1>1 DEF AtMostOnce, Serves, Answers, Started
  <2> QED
    BY <2>1, <2>2, <2>3 DEF CallSound
<1> QED
  BY <1>3, <1>4 DEF MaskInv

LEMMA NextMask ==
  ASSUME IndInv, IndInv', MaskInv, NoOrphans, MinorityFaulty, MaxRequests \in 0..1, [Next]_vars
  PROVE  MaskInv'
<1>1. TypeOK /\ ServerTypeOK'
  BY DEF IndInv, TypeOK
<1>2. CASE BrokerStep /\ UNCHANGED <<server, client>>
  BY <1>1, <1>2, RegistrationMask, RefusedMask, RequestMask, PongMask, ResultMask, HeartbeatMask,
     ExpiredMask DEF BrokerStep, get_request, get_response, check_pending_requests
<1>3. CASE CopyStep /\ UNCHANGED <<brokerVars, client>>
  BY <1>1, <1>3, CopyStepMask
<1>4. CASE ClientStep /\ UNCHANGED <<brokerVars, server>>
  BY <1>1, <1>4, ClientMask
<1>5. CASE UNCHANGED <<services_db, server, client, router_in, router_out, inbox, outbox>>
  <2>1. \A c \in Client : Covered(c)
    BY <1>5 DEF Covered, Registered
  <2> QED
    BY <1>1, <1>5, <2>1, SameResponses, FrontMask
<1>6. CASE \E k \in Copy : \E i \in DOMAIN dealer : AttachTo(k, i)
  BY <1>5, <1>6 DEF AttachTo, brokerVars
<1>7. CASE UNCHANGED vars
  BY <1>5, <1>7 DEF vars, netVars, brokerVars
<1> QED
  BY <1>2, <1>3, <1>4, <1>6, <1>7 DEF Next

(* What a waiting client gets is right or an error ...                     *)
LEMMA MaskReliable == TypeOK /\ MaskInv => ReliableResult
<1> SUFFICES ASSUME TypeOK, MaskInv, NEW c \in Client, client[c].status = "waiting",
                    router_out[c] # <<>>
             PROVE  Head(router_out[c]) \in GoodResponse(client[c])
  BY DEF ReliableResult, GoodResponse
<1>1. router_out[c] \in Seq(response_module)
  BY DEF TypeOK, NetTypeOK
<1>2. Head(router_out[c]) = router_out[c][1] /\ 1 \in DOMAIN router_out[c]
  BY <1>1, TailQueue
<1> QED
  BY <1>2 DEF MaskInv, CallSound

(* ... and without faulty copies every stored result is right.             *)
LEMMA MaskIsolation == TypeOK /\ MaskInv /\ Faulty = {} => Isolation
<1> SUFFICES ASSUME TypeOK, MaskInv, Faulty = {}, NEW c \in Client, client[c].status = "waiting",
                    NEW s \in Registered, NEW r \in Matching(services_db[s].request_records, c),
                    NEW x \in DOMAIN r.results
             PROVE  r.results[x] = service_body(s, client[c].parameters)
  BY DEF Isolation
<1> DEFINE right == service_body(s, client[c].parameters)
<1>1. Cardinality(Wrong(r.results, right)) <= Cardinality(SpentFaulty(s, c))
  BY DEF MaskInv, CallSound, Masked
<1>2. SpentFaulty(s, c) = {}
  BY DEF SpentFaulty, FaultyOf
<1>3. Cardinality(SpentFaulty(s, c)) = 0
  BY <1>2, FS_EmptySet
<1>4. r.results \in Seq(Int)
  BY RecordTypes DEF Matching, request_record_t
<1> HIDE DEF right
<1>5. IsFiniteSet(Wrong(r.results, right)) /\ Cardinality(Wrong(r.results, right)) \in Nat
  BY <1>4, WrongFinite
<1>6. Cardinality(Wrong(r.results, right)) = 0
  BY <1>1, <1>3, <1>5
<1>7. Wrong(r.results, right) = {}
  BY <1>5, <1>6, FS_EmptySet
<1> QED
  BY <1>7 DEF Wrong, right

-----------------------------------------------------------------------------
(* Threads keep their socket when the timing is as intended *)

(* A copy that is registering again has no thread: it has lost its pings   *)
(* only because its service sends none yet, and then it gets no request.   *)
Tied(k) ==
  /\ server[k].orphans = {}
  /\ server[k].busy => server[k].reg_ok
  /\ server[k].reg_ok => ~server[k].send_reg
  /\ k[1] \notin AvailableServices => ~server[k].busy /\ inbox[k] = <<>>

TiedInv == \A k \in Copy : Tied(k)

LEMMA TiedFrame ==
  ASSUME TiedInv, AvailableServices \subseteq AvailableServices',
         NEW k \in Copy, server'[k] = server[k],
         k[1] \notin AvailableServices => inbox'[k] = inbox[k]
  PROVE  Tied(k)'
BY DEF TiedInv, Tied

LEMMA TiedBroker ==
  ASSUME IndInv, TiedInv, BrokerStep, UNCHANGED server
  PROVE  TiedInv'
<1>1. /\ TypeOK /\ available_services \in Seq(Service)
      /\ DOMAIN dealer = 1..Len(lb) /\ DOMAIN available_services = 1..Len(lb)
  BY LenProperties DEF IndInv, TypeOK, BrokerTypeOK, Route, Tables
<1>2. AvailableServices \subseteq AvailableServices'
  <2>1. \/ UNCHANGED available_services
        \/ \E s \in Service : available_services' = Append(available_services, s)
    BY DEF BrokerStep, get_registration, GetFirstRegistration, GetFurtherRegistration,
           RefuseRegistration, get_request, GetRequestNotAvailable, GetRequest,
           GetRequestUndefined, TakeRequest, get_response, GetPong, GetDuplicate, GetResult,
           TakeReply, Heartbeat, HeartbeatTimeout, check_pending_requests,
           CheckPendingRequest, Copy
  <2>2. CASE UNCHANGED available_services
    BY <2>2 DEF AvailableServices
  <2>3. ASSUME NEW s \in Service, available_services' = Append(available_services, s)
        PROVE  AvailableServices \subseteq AvailableServices'
    BY <1>1, <2>3, AppendProperties DEF AvailableServices
  <2> QED
    BY <2>1, <2>2, <2>3
<1>3. ASSUME NEW i, NEW m \in service_module, NEW n \in Nat, DealerSend(i, m, n),
             n = 0 \/ i \in 1..Len(lb), NEW k \in Copy, k[1] \notin AvailableServices
      PROVE  inbox'[k] = inbox[k]
  <2>1. CASE n = 0
    BY <1>3, <2>1 DEF DealerSend
  <2>2. CASE i \in 1..Len(lb)
    <3>1. k \notin Peers(i)
      BY <1>1, <1>3, <2>2, PeersOfService, LenProperties
         DEF AvailableServices, TypeOK, NetTypeOK
    <3> QED
      BY <1>1, <1>3, <3>1, NotDealt
  <2> QED
    BY <1>3, <2>1, <2>2
<1>4. ASSUME NEW k \in Copy, k[1] \notin AvailableServices PROVE inbox'[k] = inbox[k]
  <2>1. CASE UNCHANGED inbox
    BY <2>1
  <2>2. ASSUME NEW c \in Client, GetRequest(c) PROVE inbox'[k] = inbox[k]
    <3> DEFINE s == Head(router_in[c]).service
               r == services_db[s]
               i == find_registration(s) + 1
               m == [heartbeat |-> FALSE, seq_id |-> r.seq_id_request,
                     client |-> c, parameters |-> Head(router_in[c]).parameters]
    <3>1. /\ TakeRequest(c) /\ find_registration(s) # SERVICE_NOT_FOUND /\ ~OutOfBounds(s)
          /\ DealerSend(i, m, r.num_copies_reliable)
      BY <2>2 DEF GetRequest
    <3>2. s \in Registered
      BY <3>1 DEF find_registration
    <3>3. r \in service_record
      BY <1>1, <3>2 DEF TypeOK, BrokerTypeOK, Registered
    <3>4. Head(router_in[c]).parameters \in Int
      BY <3>1, TakeRequestType DEF request_module
    <3>5. r.num_copies_reliable > 0 => i \in DOMAIN dealer
      BY <3>1 DEF OutOfBounds
    <3> HIDE DEF r, s, i
    <3>6. r.seq_id_request \in Nat /\ r.num_copies_reliable \in Nat
      BY <3>3 DEF service_record
    <3>7. m \in service_module
      BY <3>4, <3>6 DEF service_module
    <3> HIDE DEF m
    <3>8. r.num_copies_reliable = 0 \/ i \in 1..Len(lb)
      BY <1>1, <3>5, <3>6
    <3> QED
      BY <1>3, <1>4, <3>1, <3>6, <3>7, <3>8
  <2>3. ASSUME NEW i \in DOMAIN available_services, Heartbeat(i) PROVE inbox'[k] = inbox[k]
    <3> DEFINE s == available_services[i]
               r == check_pong(services_db[s])
               m == [heartbeat |-> TRUE, seq_id |-> r.seq_id_ping,
                     client |-> NoClient, parameters |-> 0]
    <3>1. DealerSend(i, m, r.num_copies_reliable)
      BY <2>3 DEF Heartbeat, HeartbeatTimeout
    <3>2. GoodRecord(services_db[s])
      BY <1>1 DEF IndInv, Records, Route, Tables
    <3>3. r.seq_id_ping \in Nat /\ r.num_copies_reliable \in Nat
      BY <3>2, CheckPongType DEF GoodRecord, service_record
    <3> HIDE DEF r
    <3>4. m \in service_module
      BY <3>3 DEF service_module
    <3> HIDE DEF m
    <3> QED
      BY <1>1, <1>3, <1>4, <3>1, <3>3, <3>4
  <2> QED
    BY <2>1, <2>2, <2>3
       DEF BrokerStep, get_registration, GetFirstRegistration, GetFurtherRegistration,
           RefuseRegistration, TakeRegistration, get_request, GetRequestNotAvailable,
           GetRequestUndefined, get_response, GetPong, GetDuplicate, GetResult,
           TakeReply, check_pending_requests, CheckPendingRequest
<1> QED
  BY <1>2, <1>4, TiedFrame DEF TiedInv

LEMMA TiedCopy ==
  ASSUME IndInv, TiedInv, Timely, UNCHANGED brokerVars, NEW k \in Copy,
         ServerStep(k) \/ MissesPing(k) \/ Kill(k) \/ Revive(k)
  PROVE  TiedInv'
<1>1. /\ server \in [Copy -> Process] /\ server[k] \in Process
      /\ inbox \in [Copy -> Seq(service_module)]
      /\ AvailableServices' = AvailableServices /\ Tied(k)
  BY DEF IndInv, TypeOK, ServerTypeOK, NetTypeOK, brokerVars, AvailableServices, TiedInv
<1>2. \A x \in Copy \ {k} : server'[x] = server[x] /\ inbox'[x] = inbox[x]
  BY <1>1 DEF ServerStep, PongBroker, CreateThread, DuplicateRequest, receive_request, TaskDone,
       OrphanAnswers, OrphanThrows, Dies, SendRegistration, RegistrationOk, RegistrationError,
       MissesPing, PingTimeout, Kill, Revive, Restart, Relaunch, netVars
<1>3. \A x \in Copy \ {k} : Tied(x)'
  BY <1>1, <1>2, TiedFrame
<1>4. Tied(k)'
  <2>1. CASE PongBroker(k) \/ DuplicateRequest(k)
    <3>1. Readable(k) /\ UNCHANGED server
      BY <2>1 DEF PongBroker, DuplicateRequest, receive_request
    <3>2. k[1] \in AvailableServices
      BY <1>1, <3>1 DEF Readable, Tied
    <3> QED
      BY <1>1, <3>1, <3>2 DEF Tied
  <2>2. CASE CreateThread(k)
    <3>1. Readable(k)
      BY <2>2 DEF CreateThread, receive_request
    <3>2. k[1] \in AvailableServices
      BY <1>1, <3>1 DEF Readable, Tied
    <3>3. /\ server'[k].orphans = server[k].orphans /\ server'[k].reg_ok = server[k].reg_ok
          /\ server'[k].send_reg = server[k].send_reg
      BY <1>1, <2>2 DEF CreateThread, Process
    <3> QED
      BY <1>1, <3>1, <3>2, <3>3 DEF Tied, Readable
  <2>3. CASE TaskDone(k)
    <3>1. /\ server'[k].orphans = server[k].orphans /\ server'[k].reg_ok = server[k].reg_ok
          /\ server'[k].send_reg = server[k].send_reg /\ ~server'[k].busy
          /\ UNCHANGED inbox
      BY <1>1, <2>3 DEF TaskDone, Idle, Process
    <3> QED
      BY <1>1, <3>1 DEF Tied
  <2>4. CASE Dies(k)
    <3>1. server'[k] = [Started EXCEPT !.up = FALSE] /\ inbox'[k] = <<>>
      BY <1>1, <2>4 DEF Dies
    <3> QED
      BY <3>1 DEF Tied, Started
  <2>5. CASE SendRegistration(k)
    <3>1. /\ server'[k].orphans = server[k].orphans /\ server'[k].reg_ok = server[k].reg_ok
          /\ ~server[k].reg_ok /\ server'[k].busy = server[k].busy /\ UNCHANGED inbox
      BY <1>1, <2>5 DEF SendRegistration, Process
    <3> QED
      BY <1>1, <3>1 DEF Tied
  <2>6. CASE RegistrationOk(k)
    <3>1. ~server[k].busy
      BY <1>1, <2>6 DEF RegistrationOk, Tied
    <3>2. /\ server'[k].orphans = server[k].orphans /\ ~server'[k].send_reg
          /\ ~server'[k].busy /\ inbox'[k] = <<>>
      BY <1>1, <2>6, <3>1 DEF RegistrationOk, Idle, Process
    <3> QED
      BY <1>1, <3>2 DEF Tied
  <2>7. CASE MissesPing(k)
    <3>1. k[1] \notin AvailableServices /\ PingTimeout(k)
      BY <2>7 DEF MissesPing
    <3>2. /\ server'[k].orphans = server[k].orphans /\ server'[k].busy = server[k].busy
          /\ server'[k].send_reg = server[k].send_reg /\ server[k].reg_ok /\ UNCHANGED inbox
      BY <1>1, <3>1 DEF PingTimeout, Process, netVars
    <3> QED
      BY <1>1, <3>1, <3>2 DEF Tied
  <2>8. CASE Relaunch(k)
    <3>1. server'[k] = Started /\ UNCHANGED inbox
      BY <1>1, <2>8 DEF Relaunch, netVars
    <3> QED
      BY <1>1, <3>1 DEF Tied, Started
  <2>9. ~OrphanAnswers(k)
    BY <1>1 DEF OrphanAnswers, Tied
  <2> QED
    BY <2>1, <2>2, <2>3, <2>4, <2>5, <2>6, <2>7, <2>8, <2>9
       DEF ServerStep, OrphanThrows, RegistrationError, Kill, Revive, Restart
<1> QED
  BY <1>3, <1>4 DEF TiedInv

LEMMA NextTied ==
  ASSUME IndInv, TiedInv, Timely, [Next]_vars
  PROVE  TiedInv'
<1>1. CASE BrokerStep /\ UNCHANGED <<server, client>>
  BY <1>1, TiedBroker
<1>2. CASE CopyStep /\ UNCHANGED <<brokerVars, client>>
  BY <1>2, TiedCopy DEF CopyStep
<1>3. CASE UNCHANGED <<available_services, server, inbox>>
  BY <1>3, TiedFrame DEF AvailableServices, TiedInv
<1>4. CASE ClientStep /\ UNCHANGED <<brokerVars, server>>
  BY <1>3, <1>4 DEF ClientStep, RequestService, ReceiveResponse, Leave, brokerVars
<1>5. CASE \E k \in Copy : \E i \in DOMAIN dealer : AttachTo(k, i)
  BY <1>3, <1>5 DEF AttachTo, brokerVars
<1>6. CASE UNCHANGED vars
  BY <1>3, <1>6 DEF vars, netVars, brokerVars
<1> QED
  BY <1>1, <1>2, <1>4, <1>5, <1>6 DEF Next

(* With the timing that the intervals of the code are meant for, no copy   *)
(* deletes the REP socket under the thread of a request: RegistrationOk    *)
(* finds no request being served.                                          *)
THEOREM ThreadsKeepSockets ==
  ASSUME Timely
  PROVE  Spec => []NoOrphans
<1>1. Init => TiedInv
  BY DEF Init, NetInit, ServerInit, Started, TiedInv, Tied
<1>2. IndInv /\ TiedInv /\ [Next]_vars => TiedInv'
  BY NextTied
<1>3. TiedInv => NoOrphans
  BY DEF TiedInv, Tied, NoOrphans
<1> QED
  BY <1>1, <1>2, <1>3, InitIndInv, NextIndInv, PTL DEF Spec

(* For any number of services, clients and copies: a minority of faulty    *)
(* copies of a service is masked.  Whatever they compute, crash or miss, a *)
(* client whose first call this is gets the value of the service body for  *)
(* its arguments, or an error.                                             *)
THEOREM ReliableResultCorrect ==
  ASSUME MinorityFaulty, MaxRequests \in 0..1
  PROVE  Spec /\ []NoOrphans => []ReliableResult
<1>1. IndInv /\ IndInv' /\ MaskInv /\ NoOrphans /\ [Next]_vars => MaskInv'
  BY NextMask
<1>2. IndInv => TypeOK
  BY DEF IndInv
<1> QED
  BY <1>1, <1>2, InitIndInv, NextIndInv, InitMask, MaskReliable, PTL DEF Spec

(* No client is given the result of another: copies serve the requests of  *)
(* several clients over one socket and their answers come back in any      *)
(* order, but if no copy is faulty, what the broker stores for a waiting   *)
(* client is the value of the service body for the arguments of its call.  *)
THEOREM IsolationCorrect ==
  ASSUME Faulty = {}, MaxRequests \in 0..1
  PROVE  Spec /\ []NoOrphans => []Isolation
<1>1. MinorityFaulty
  <2>1. \A s \in Service : FaultyOf(s) = {}
    BY DEF FaultyOf
  <2>2. \A s \in Service : Cardinality(FaultyOf(s)) = 0
    BY <2>1, FS_EmptySet
  <2> QED
    BY <2>2, NMRAssumption DEF MinorityFaulty
<1>2. IndInv /\ IndInv' /\ MaskInv /\ NoOrphans /\ [Next]_vars => MaskInv'
  BY <1>1, NextMask
<1>3. IndInv /\ MaskInv => Isolation
  BY MaskIsolation DEF IndInv
<1> QED
  BY <1>2, <1>3, InitIndInv, NextIndInv, InitMask, PTL DEF Spec

(* Both together for the timing that the code is meant for: no hypothesis  *)
(* about what the threads of a copy do is left.                            *)
THEOREM TimelyReliable ==
  ASSUME Timely, MinorityFaulty, MaxRequests \in 0..1
  PROVE  Spec => []ReliableResult
BY ThreadsKeepSockets, ReliableResultCorrect, PTL

(* The same for the isolation of clients.                                  *)
THEOREM TimelyIsolated ==
  ASSUME Timely, Faulty = {}, MaxRequests \in 0..1
  PROVE  Spec => []Isolation
BY ThreadsKeepSockets, IsolationCorrect, PTL

-----------------------------------------------------------------------------
(* Rounds of pings *)

(* Division with remainder.                                                *)
LEMMA Division ==
  ASSUME NEW a \in Int, NEW n \in Nat \ {0}
  PROVE  a % n \in 0..(n - 1) /\ a \div n \in Int /\ a = n * (a \div n) + (a % n)
OBVIOUS

LEMMA Remainder ==
  ASSUME NEW n \in Nat \ {0}, NEW q \in Int, NEW r \in 0..(n - 1)
  PROVE  (n * q + r) % n = r
<1> DEFINE a == n * q + r
           p == a \div n
           d == a % n
<1>1. a \in Int
  OBVIOUS
<1>2. d \in 0..(n - 1) /\ p \in Int /\ a = n * p + d
  BY <1>1, Division
<1>3. n * (q - p) = d - r
  BY <1>2
<1> HIDE DEF a, p, d
<1>4. \A x \in Int : x >= 1 => n * x >= n
  OBVIOUS
<1>5. \A x \in Int : x <= -1 => n * x <= -n
  OBVIOUS
<1>6. q - p = 0
  BY <1>2, <1>3, <1>4, <1>5
<1>7. d = r
  BY <1>2, <1>3, <1>6
<1> QED
  BY <1>7 DEF a, d

(* Of n consecutive turns, each of L <= n peers gets one.                  *)
LEMMA EveryTurn ==
  ASSUME NEW n \in Nat \ {0}, NEW a \in Int, NEW x \in 0..(n - 1)
  PROVE  \E j \in 0..(n - 1) : (a + j) % n = x
<1> DEFINE j == (x - a) % n
           q == (x - a) \div n
<1>1. x - a \in Int
  OBVIOUS
<1>2. j \in 0..(n - 1) /\ q \in Int /\ x - a = n * q + j
  BY <1>1, Division
<1> HIDE DEF j, q
<1>3. a + j = n * (-q) + x
  BY <1>2
<1>4. \A p \in Int : (n * p + x) % n = x
  BY Remainder
<1>5. (n * (-q) + x) % n = x
  BY <1>2, <1>4
<1>6. (a + j) % n = x
  BY <1>3, <1>5, Zenon
<1> QED
  BY <1>2, <1>6

(* ping_server sends at least as many pings as the socket has peers: none  *)
(* is left out.                                                            *)
LEMMA EveryPeerDealt ==
  ASSUME TypeOK, NEW i \in 1..Len(lb), NEW k \in Peers(i), NEW n \in Nat,
         Len(lb[i].pipes) <= n
  PROVE  Share(i, k, n) \in Nat \ {0}
<1> DEFINE pipes == lb[i].pipes
           L == Len(pipes)
           a == lb[i].current - 1
           T == {j \in 0..(n - 1) : pipes[((a + j) % L) + 1] = k}
<1>1. lb[i] \in Socket
  BY DEF TypeOK, NetTypeOK
<1>2. lb[i].current \in Nat \ {0} /\ pipes \in Seq(Copy)
  BY <1>1 DEF Socket
<1>3. PICK x \in DOMAIN pipes : pipes[x] = k
  BY DEF Peers
<1>4. L \in Nat \ {0} /\ x \in 1..L /\ a \in Int /\ pipes # <<>>
  BY <1>2, <1>3, LenProperties, EmptySeq
<1>5. Share(i, k, n) = Cardinality(T)
  BY <1>4 DEF Share
<1>6. L <= n /\ x - 1 \in 0..(L - 1) /\ (x - 1) + 1 = x
  BY <1>4
<1> HIDE DEF a, L
<1>7. \A y \in 0..(L - 1) : \E j \in 0..(L - 1) : (a + j) % L = y
  BY <1>4, EveryTurn
<1>8. PICK j \in 0..(L - 1) : (a + j) % L = x - 1
  BY <1>6, <1>7
<1>9. j \in 0..(n - 1)
  BY <1>4, <1>6
<1>10. j \in T
  BY <1>3, <1>6, <1>8, <1>9
<1>11. T \in SUBSET (0..(n - 1))
  OBVIOUS
<1>12. IsFiniteSet(0..(n - 1))
  BY FS_Interval
<1> HIDE DEF T
<1>13. IsFiniteSet(T)
  BY <1>11, <1>12, FS_Subset
<1>14. Cardinality(T) \in Nat /\ Cardinality(T) # 0
  BY <1>10, <1>13, FS_EmptySet, FS_CardinalityType
<1> QED
  BY <1>5, <1>14

-----------------------------------------------------------------------------
(* Who is counted as a working copy *)

(* A process that uses the port of its service, or has it on its way.      *)
Entitled(k) ==
  server[k].up /\ (server[k].broker_port # 0 \/ reg_rep[k] \notin {NoReply, REG_FAIL})

(* Copy k is a peer or may become one without another registration, or is  *)
(* not counted out, or will restart its count with a pong of it.           *)
Heeded(k) ==
  \/ Entitled(k)
  \/ services_db[k[1]].lost_pong[k[2]] < LIVENESS
  \/ services_db[k[1]].new_pong[k[2]]
  \/ outbox[k] # <<>>

Counted(s) == {id \in CopyId : Heeded(<<s, id>>)}

(* num_copies_reliable misses none of them.                                *)
Enough ==
  \A s \in AvailableServices :
    Cardinality(Counted(s)) <= services_db[s].num_copies_reliable

(* Pongs are counted for available services only.                          *)
Fresh ==
  \A s \in Registered : s \notin AvailableServices =>
    \A id \in CopyId : services_db[s].lost_pong[id] = -1

(* A dead process waits for no port, and a registered one has one.         *)
Quiet(k) ==
  /\ ~server[k].up => reg_rep[k] = NoReply /\ <<k, TRUE>> \notin reg_req
  /\ server[k].reg_ok => server[k].broker_port # 0

(* A ping on its way to the copy, or its pong on its way back.             *)
Pinged(k) ==
  \/ \E x \in DOMAIN inbox[k] : inbox[k][x].heartbeat
  \/ \E x \in DOMAIN outbox[k] : outbox[k][x].heartbeat

(* When one more lost pong is too many, a live copy has been pinged since  *)
(* the last one.                                                           *)
Watched(k) ==
  k[1] \in Registered /\ services_db[k[1]].lost_pong[k[2]] = LIVENESS - 1 /\ server[k].up
    => server[k].reg_ok /\ (services_db[k[1]].new_pong[k[2]] \/ Pinged(k))

BeatInv == Enough /\ Fresh /\ \A k \in Copy : Quiet(k) /\ Watched(k)

(* A sequence without repetitions is no longer than the set of its elements.*)
LEMMA InjectiveFits ==
  ASSUME NEW n \in Nat, NEW C, IsFiniteSet(C), NEW f \in [1..n -> C],
         \A x, y \in 1..n : f[x] = f[y] => x = y
  PROVE  n <= Cardinality(C)
<1>1. IsFiniteSet(1..n) /\ Cardinality(1..n) = IF 1 > n THEN 0 ELSE n - 1 + 1
  BY FS_Interval
<1>2. Cardinality(1..n) = n
  BY <1>1
<1>3. Cardinality(C) \in Nat
  BY FS_CardinalityType
<1>4. ASSUME Cardinality(C) < Cardinality(1..n) PROVE FALSE
  <2>1. \E x, y \in 1..n : x # y /\ f[x] = f[y]
    BY <1>1, <1>4, FS_PigeonHole
  <2> QED
    BY <2>1
<1> QED
  BY <1>2, <1>3, <1>4

(* The peers of a socket are counted, in any state with the same peers.    *)
LEMMA PeersFit ==
  ASSUME IndInv, NEW i \in 1..Len(lb), NEW C \in SUBSET CopyId,
         \A k \in Peers(i) : k[2] \in C
  PROVE  Len(lb[i].pipes) <= Cardinality(C)
<1> DEFINE n == Len(lb[i].pipes)
           f == [x \in 1..n |-> lb[i].pipes[x][2]]
<1>1. lb[i] \in Socket
  BY DEF IndInv, TypeOK, NetTypeOK
<1>2. lb[i].pipes \in Seq(Copy) /\ n \in Nat /\ DOMAIN lb[i].pipes = 1..n
  BY <1>1, LenProperties DEF Socket
<1>3. \A x \in 1..n : lb[i].pipes[x] \in Copy /\ lb[i].pipes[x] \in Peers(i)
  BY <1>2, ElementOfSeq DEF Peers
<1>4. /\ \A x \in 1..n : lb[i].pipes[x][1] = available_services[i]
      /\ Distinct(lb[i].pipes)
  <2>1. i \in DOMAIN lb
    BY LenProperties DEF IndInv, TypeOK, NetTypeOK
  <2> QED
    BY <1>3, <2>1, PeersOfService DEF IndInv, Route, Connections
<1>5. \A x, y \in 1..n : f[x] = f[y] => x = y
  <2> SUFFICES ASSUME NEW x \in 1..n, NEW y \in 1..n, f[x] = f[y] PROVE x = y
    OBVIOUS
  <2>1. lb[i].pipes[x][2] = lb[i].pipes[y][2]
    OBVIOUS
  <2>2. lb[i].pipes[x] = lb[i].pipes[y]
    BY <1>3, <1>4, <2>1 DEF Copy
  <2> QED
    BY <1>2, <1>4, <2>2 DEF Distinct
<1>6. f \in [1..n -> C]
  BY <1>3
<1> HIDE DEF f
<1>7. IsFiniteSet(C)
  BY CopyIdAssumption, FS_Subset
<1> HIDE DEF n
<1>8. n <= Cardinality(C)
  BY <1>2, <1>5, <1>6, <1>7, InjectiveFits
<1> QED
  BY <1>8 DEF n

(* Every peer of a socket is a live process that uses the port.             *)
LEMMA PeersEntitled ==
  ASSUME IndInv, NEW i \in 1..Len(lb), NEW k \in Peers(i)
  PROVE  /\ k \in Copy /\ k[1] = available_services[i] /\ k[2] \in CopyId
         /\ k = <<available_services[i], k[2]>> /\ Entitled(k)
<1>1. i \in DOMAIN lb /\ lb[i] \in Socket
  BY LenProperties DEF IndInv, TypeOK, NetTypeOK
<1>2. PICK x \in DOMAIN lb[i].pipes : lb[i].pipes[x] = k
  BY DEF Peers
<1>3. k \in Copy
  BY <1>1, <1>2, ElementOfSeq, LenProperties DEF Socket
<1>4. k[1] = available_services[i]
  BY <1>1, PeersOfService
<1>5. server[k].up /\ server[k].broker_port = dealer[i]
  BY <1>2 DEF IndInv, Route, Connections
<1>6. dealer[i] # 0
  BY DEF IndInv, Route, Tables, Ports, DEALER_START_PORT
<1> QED
  BY <1>3, <1>4, <1>5, <1>6 DEF Entitled, Copy

(* Enough pings are sent for all peers.                                     *)
LEMMA EnoughReach == IndInv /\ BeatInv => PingsReachAll
<1> SUFFICES ASSUME IndInv, BeatInv, NEW i \in DOMAIN lb
             PROVE  Len(lb[i].pipes)
                      <= services_db[available_services[i]].num_copies_reliable
  BY DEF PingsReachAll
<1> DEFINE s == available_services[i]
           n == Len(lb[i].pipes)
<1>1. i \in 1..Len(lb) /\ i \in DOMAIN available_services
  BY LenProperties DEF IndInv, TypeOK, NetTypeOK, BrokerTypeOK, Route, Tables
<1>2. s \in AvailableServices /\ s \in Registered
  BY <1>1 DEF AvailableServices, IndInv, Route, Tables
<1>3. Counted(s) \in SUBSET CopyId
  BY DEF Counted
<1>4. \A k \in Peers(i) : k[2] \in Counted(s)
  BY <1>1, PeersEntitled DEF Counted, Heeded
<1>5. n <= Cardinality(Counted(s))
  BY <1>1, <1>3, <1>4, PeersFit
<1>6. Cardinality(Counted(s)) <= services_db[s].num_copies_reliable
  BY <1>2 DEF BeatInv, Enough
<1>7. n \in Nat /\ Cardinality(Counted(s)) \in Nat
  BY <1>1, <1>3, CopyIdAssumption, FS_Subset, FS_CardinalityType, LenProperties
     DEF IndInv, TypeOK, NetTypeOK, Socket
<1>8. services_db[s].num_copies_reliable \in Nat
  BY <1>2 DEF IndInv, Records, GoodRecord, service_record
<1> QED
  BY <1>5, <1>6, <1>7, <1>8

-----------------------------------------------------------------------------
(* Steps that leave the counters alone *)

(* Nothing is added to those who are counted, and pings are not lost.      *)
BeatKept(k) ==
  /\ k[1] \in AvailableServices /\ Heeded(k)' => Heeded(k)
  /\ Quiet(k)' /\ Watched(k)'

(* Nobody is added to the copies that are counted.                          *)
LEMMA FewerCounted ==
  ASSUME NEW s \in Service, \A id \in CopyId : Heeded(<<s, id>>)' => Heeded(<<s, id>>)
  PROVE  Cardinality(Counted(s)') <= Cardinality(Counted(s))
<1>1. Counted(s)' \in SUBSET Counted(s)
  BY DEF Counted
<1>2. Counted(s) \in SUBSET CopyId
  BY DEF Counted
<1>3. IsFiniteSet(Counted(s))
  BY <1>2, CopyIdAssumption, FS_Subset
<1> QED
  BY <1>1, <1>3, FS_Subset

LEMMA CountedType ==
  ASSUME NEW s
  PROVE  /\ Counted(s) \in SUBSET CopyId /\ IsFiniteSet(Counted(s))
         /\ Cardinality(Counted(s)) \in Nat /\ Cardinality(Counted(s)) <= NMR
         /\ Counted(s)' \in SUBSET CopyId /\ IsFiniteSet(Counted(s)')
         /\ Cardinality(Counted(s)') \in Nat /\ Cardinality(Counted(s)') <= NMR
<1>1. Counted(s) \in SUBSET CopyId /\ Counted(s)' \in SUBSET CopyId
  BY DEF Counted
<1> QED
  BY <1>1, CopyIdAssumption, FS_Subset, FS_CardinalityType

LEMMA AvailableTypes ==
  ASSUME IndInv, NEW s \in AvailableServices
  PROVE  /\ s \in Registered /\ s \in Service
         /\ services_db[s] \in service_record /\ GoodRecord(services_db[s])
         /\ services_db[s].num_copies_reliable \in 0..255
<1>1. s \in Registered
  BY LenProperties
     DEF IndInv, TypeOK, BrokerTypeOK, AvailableServices, Route, Tables
<1> QED
  BY <1>1 DEF IndInv, Records, GoodRecord, service_record, TypeOK, BrokerTypeOK, Registered

(* No count of lost pongs changes.                                         *)
SameLost == \A s \in Registered : services_db'[s].lost_pong = services_db[s].lost_pong

(* A step that leaves the counters alone and the copies in order.           *)
LEMMA BeatFrame ==
  ASSUME IndInv, BeatInv, AvailableServices' = AvailableServices, Registered' = Registered,
         \A s \in Registered :
           /\ services_db'[s].num_copies_reliable = services_db[s].num_copies_reliable
           /\ services_db'[s].lost_pong = services_db[s].lost_pong,
         \A k \in Copy : BeatKept(k)
  PROVE  BeatInv' /\ SameLost
<1>1. Fresh'
  BY DEF BeatInv, Fresh
<1>2. ASSUME NEW s \in AvailableServices
      PROVE  Cardinality(Counted(s)') <= services_db'[s].num_copies_reliable
  <2>1. s \in Registered /\ s \in Service /\ services_db[s].num_copies_reliable \in 0..255
    BY AvailableTypes
  <2>2. \A id \in CopyId : Heeded(<<s, id>>)' => Heeded(<<s, id>>)
    BY <2>1 DEF BeatKept, Copy
  <2>3. Cardinality(Counted(s)') <= Cardinality(Counted(s))
    BY <2>1, <2>2, FewerCounted
  <2>4. Cardinality(Counted(s)) <= services_db[s].num_copies_reliable
    BY DEF BeatInv, Enough
  <2>5. Cardinality(Counted(s)) \in Nat /\ Cardinality(Counted(s)') \in Nat
    BY CountedType
  <2>6. services_db'[s].num_copies_reliable = services_db[s].num_copies_reliable
    BY <2>1
  <2> QED
    BY <2>1, <2>3, <2>4, <2>5, <2>6
<1>3. Enough'
  BY <1>2 DEF Enough
<1> QED
  BY <1>1, <1>3 DEF BeatInv, BeatKept, SameLost

(* A copy that does not take part.                                         *)
LEMMA BeatSame ==
  ASSUME BeatInv, NEW k \in Copy, UNCHANGED services_db,
         server'[k] = server[k], inbox'[k] = inbox[k], outbox'[k] = outbox[k],
         reg_rep'[k] = reg_rep[k], <<k, TRUE>> \in reg_req' => <<k, TRUE>> \in reg_req
  PROVE  BeatKept(k)
BY DEF BeatInv, BeatKept, Heeded, Entitled, Quiet, Watched, Pinged, Registered

(* Queues, for the heartbeats in them.                                     *)
LEMMA TailBeats ==
  ASSUME NEW S, NEW q \in Seq(S), q # <<>>, ~Head(q).heartbeat,
         \E x \in DOMAIN q : q[x].heartbeat
  PROVE  \E x \in DOMAIN Tail(q) : Tail(q)[x].heartbeat
<1>1. PICK x \in DOMAIN q : q[x].heartbeat
  OBVIOUS
<1>2. x # 1 /\ x \in 1..Len(q) /\ Len(q) \in Nat /\ Len(q) # 0
  BY <1>1, EmptySeq, LenProperties
<1>3. x - 1 \in 1..Len(Tail(q)) /\ Tail(q)[x - 1] = q[x]
  BY <1>2, HeadTailProperties
<1>4. Tail(q) \in Seq(S)
  BY TailQueue
<1> QED
  BY <1>1, <1>3, <1>4, LenProperties

LEMMA AppendBeats ==
  ASSUME NEW S, NEW q \in Seq(S), NEW m \in S
  PROVE  /\ Append(q, m) # <<>>
         /\ (\E x \in DOMAIN q : q[x].heartbeat)
              => \E x \in DOMAIN Append(q, m) : Append(q, m)[x].heartbeat
         /\ m.heartbeat => \E x \in DOMAIN Append(q, m) : Append(q, m)[x].heartbeat
<1>1. /\ DOMAIN Append(q, m) = 1..(Len(q) + 1) /\ Len(q) \in Nat /\ DOMAIN q = 1..Len(q)
      /\ \A x \in 1..Len(q) : Append(q, m)[x] = q[x]
      /\ Append(q, m)[Len(q) + 1] = m
  BY AppendProperties, LenProperties
<1>2. Len(q) + 1 \in 1..(Len(q) + 1) /\ \A x \in 1..Len(q) : x \in 1..(Len(q) + 1)
  BY <1>1
<1>3. Append(q, m) # <<>>
  BY AppendProperties
<1> QED
  BY <1>1, <1>2, <1>3

Beats(q) == \E x \in DOMAIN q : q[x].heartbeat

Dealt(q, m, n) == q \o [j \in 1..n |-> m]

LEMMA DealtBeats ==
  ASSUME NEW S, NEW q \in Seq(S), NEW m \in S, NEW n \in Nat
  PROVE  /\ Beats(q) => Beats(Dealt(q, m, n))
         /\ n # 0 /\ m.heartbeat => Beats(Dealt(q, m, n))
<1> DEFINE t == [j \in 1..n |-> m]
<1>1. t \in Seq(S) /\ Len(t) = n /\ \A j \in 1..n : t[j] = m
  BY SeqDef
<1> HIDE DEF t
<1>2. /\ q \o t \in Seq(S) /\ Len(q \o t) = Len(q) + n
      /\ \A x \in 1..(Len(q) + n) :
           (q \o t)[x] = IF x <= Len(q) THEN q[x] ELSE t[x - Len(q)]
  BY <1>1, ConcatProperties
<1>3. Len(q) \in Nat /\ DOMAIN q = 1..Len(q) /\ DOMAIN (q \o t) = 1..(Len(q) + n)
  BY <1>2
<1>4. \A x \in DOMAIN q : x \in DOMAIN (q \o t) /\ (q \o t)[x] = q[x]
  BY <1>2, <1>3
<1>5. n # 0 => Len(q) + 1 \in DOMAIN (q \o t) /\ (q \o t)[Len(q) + 1] = m
  BY <1>1, <1>2, <1>3
<1>6. /\ (\E x \in DOMAIN q : q[x].heartbeat) => \E x \in DOMAIN (q \o t) : (q \o t)[x].heartbeat
      /\ n # 0 /\ m.heartbeat => \E x \in DOMAIN (q \o t) : (q \o t)[x].heartbeat
  BY <1>4, <1>5
<1> QED
  BY <1>6 DEF t, Beats, Dealt

-----------------------------------------------------------------------------
(* Steps of a copy *)

(* The messages of a copy are those it had, perhaps without a request at   *)
(* the head of its queue, and with an answer at the end of the other.      *)
LEMMA BeatTraffic ==
  ASSUME BeatInv, UNCHANGED <<services_db, reg_req, reg_rep>>, NEW k \in Copy,
         server[k].up, server[k].reg_ok, server'[k].up = server[k].up,
         server'[k].reg_ok = server[k].reg_ok,
         server'[k].broker_port = server[k].broker_port, Pinged(k) => Pinged(k)'
  PROVE  BeatKept(k)
<1>1. Quiet(k) /\ Watched(k)
  BY DEF BeatInv
<1>2. Entitled(k)
  BY <1>1 DEF Quiet, Entitled
<1>3. Quiet(k)'
  BY <1>1 DEF Quiet
<1>4. Watched(k)'
  BY <1>1 DEF Watched, Registered
<1> QED
  BY <1>2, <1>3, <1>4 DEF BeatKept, Heeded

(* No step of a process disturbs the invariant.                             *)
LEMMA BeatCopy ==
  ASSUME IndInv, BeatInv, TiedInv, Timely, UNCHANGED brokerVars, NEW k \in Copy,
         ServerStep(k) \/ MissesPing(k) \/ Kill(k) \/ Revive(k)
  PROVE  BeatInv'
<1>1. /\ server \in [Copy -> Process] /\ server[k] \in Process
      /\ inbox \in [Copy -> Seq(service_module)] /\ outbox \in [Copy -> Seq(server_reply_t)]
      /\ reg_rep \in [Copy -> Nat \cup {NoReply}]
      /\ inbox[k] \in Seq(service_module) /\ outbox[k] \in Seq(server_reply_t)
      /\ Tied(k) /\ Quiet(k) /\ Watched(k) /\ Fresh /\ UNCHANGED services_db
  BY DEF IndInv, TypeOK, ServerTypeOK, NetTypeOK, brokerVars, TiedInv, BeatInv
<1>2. ASSUME NEW x \in Copy \ {k}
      PROVE  BeatKept(x)
  <2>1. server'[x] = server[x] /\ inbox'[x] = inbox[x]
    BY <1>1 DEF ServerStep, PongBroker, CreateThread, DuplicateRequest, receive_request,
         TaskDone, OrphanAnswers, OrphanThrows, Dies, SendRegistration, RegistrationOk,
         RegistrationError, MissesPing, PingTimeout, Kill, Revive, Restart, Relaunch, netVars
  <2>2. outbox'[x] = outbox[x]
    BY <1>1 DEF ServerStep, PongBroker, CreateThread, DuplicateRequest, Reply, Answer,
         TaskDone, OrphanAnswers, OrphanThrows, Dies, SendRegistration, RegistrationOk,
         RegistrationError, MissesPing, PingTimeout, Kill, Revive, Restart, Relaunch, netVars
  <2>3. reg_rep'[x] = reg_rep[x] /\ (<<x, TRUE>> \in reg_req' => <<x, TRUE>> \in reg_req)
    BY <1>1 DEF ServerStep, PongBroker, CreateThread, DuplicateRequest,
         TaskDone, OrphanAnswers, OrphanThrows, Dies, SendRegistration, RegistrationOk,
         RegistrationError, MissesPing, PingTimeout, Kill, Revive, Restart, Relaunch, netVars
  <2> QED
    BY <1>1, <2>1, <2>2, <2>3, BeatSame
<1>3. BeatKept(k)
  <2>1. CASE PongBroker(k)
    <3>1. Readable(k) /\ inbox[k] # <<>> /\ UNCHANGED <<server, reg_req, reg_rep>>
      BY <2>1 DEF PongBroker, receive_request, Readable
    <3>2. Head(inbox[k]).client \in Client \cup {NoClient}
      <4>1. Head(inbox[k]) \in service_module
        BY <1>1, <3>1, TailQueue
      <4> QED
        BY <4>1 DEF service_module
    <3>3. PICK c \in Client \cup {NoClient} : c = Head(inbox[k]).client
      BY <3>2
    <3> DEFINE m == [heartbeat |-> TRUE, duplicated |-> FALSE, result |-> 0, client |-> c]
    <3>4. m \in server_reply_t /\ m.heartbeat
      BY DEF server_reply_t
    <3>5. outbox'[k] = Append(outbox[k], m)
      BY <1>1, <2>1, <3>3 DEF PongBroker, Reply
    <3> HIDE DEF m
    <3>6. Pinged(k)'
      BY <1>1, <3>4, <3>5, AppendBeats DEF Pinged
    <3> QED
      BY <1>1, <3>1, <3>6, BeatTraffic DEF Readable
  <2>2. CASE DuplicateRequest(k)
    <3>1. /\ Readable(k) /\ inbox[k] # <<>>
          /\ ~Head(inbox[k]).heartbeat /\ inbox' = [inbox EXCEPT ![k] = Tail(@)]
          /\ UNCHANGED <<server, reg_req, reg_rep>>
      BY <2>2 DEF DuplicateRequest, receive_request, Readable
    <3>2. Head(inbox[k]).client \in Client \cup {NoClient}
      <4>1. Head(inbox[k]) \in service_module
        BY <1>1, <3>1, TailQueue
      <4> QED
        BY <4>1 DEF service_module
    <3>3. PICK c \in Client \cup {NoClient} : c = Head(inbox[k]).client
      BY <3>2
    <3> DEFINE m == [heartbeat |-> FALSE, duplicated |-> TRUE, result |-> 0, client |-> c]
    <3>4. m \in server_reply_t
      BY DEF server_reply_t
    <3>5. outbox'[k] = Append(outbox[k], m) /\ inbox'[k] = Tail(inbox[k])
      BY <1>1, <2>2, <3>1, <3>3 DEF DuplicateRequest, Reply
    <3> HIDE DEF m
    <3>6. Pinged(k) => Pinged(k)'
      <4>1. CASE \E x \in DOMAIN inbox[k] : inbox[k][x].heartbeat
        <5>1. \E x \in DOMAIN Tail(inbox[k]) : Tail(inbox[k])[x].heartbeat
          BY <1>1, <3>1, <4>1, TailBeats
        <5> QED
          BY <3>5, <5>1 DEF Pinged
      <4>2. CASE \E x \in DOMAIN outbox[k] : outbox[k][x].heartbeat
        <5>1. \E x \in DOMAIN Append(outbox[k], m) : Append(outbox[k], m)[x].heartbeat
          BY <1>1, <3>4, <4>2, AppendBeats
        <5> QED
          BY <3>5, <5>1 DEF Pinged
      <4> QED
        BY <4>1, <4>2 DEF Pinged
    <3> QED
      BY <1>1, <3>1, <3>6, BeatTraffic DEF Readable
  <2>3. CASE CreateThread(k)
    <3>1. /\ Readable(k) /\ inbox[k] # <<>> /\ ~Head(inbox[k]).heartbeat
          /\ inbox' = [inbox EXCEPT ![k] = Tail(@)] /\ UNCHANGED <<outbox, reg_req, reg_rep>>
      BY <2>3 DEF CreateThread, receive_request, Readable
    <3>2. inbox'[k] = Tail(inbox[k])
      BY <1>1, <3>1
    <3>3. Pinged(k) => Pinged(k)'
      BY <1>1, <3>1, <3>2, TailBeats DEF Pinged
    <3>4. /\ server'[k].up = server[k].up /\ server'[k].reg_ok = server[k].reg_ok
          /\ server'[k].broker_port = server[k].broker_port
      BY <1>1, <2>3 DEF CreateThread, Process
    <3> QED
      BY <1>1, <3>1, <3>3, <3>4, BeatTraffic DEF Readable
  <2>4. CASE TaskDone(k)
    <3>1. /\ server[k].up /\ server[k].reg_ok /\ UNCHANGED <<inbox, reg_req, reg_rep>>
      BY <1>1, <2>4 DEF TaskDone, Tied
    <3>2. PICK m \in server_reply_t : outbox' = [outbox EXCEPT ![k] = Append(outbox[k], m)]
      <4>1. PICK v \in Result(k, server[k].parameters) : Answer(k, v)
        BY <2>4 DEF TaskDone
      <4>2. v \in Int /\ server[k].client \in Client \cup {NoClient}
        BY <1>1, ResultType DEF Process
      <4> DEFINE m == [heartbeat |-> FALSE, duplicated |-> FALSE, result |-> v,
                       client |-> server[k].client]
      <4>3. m \in server_reply_t
        BY <4>2 DEF server_reply_t
      <4>4. outbox' = [outbox EXCEPT ![k] = Append(outbox[k], m)]
        BY <4>1 DEF Answer, Reply
      <4> QED
        BY <4>3, <4>4
    <3>3. outbox'[k] = Append(outbox[k], m)
      BY <1>1, <3>2
    <3>4. Pinged(k) => Pinged(k)'
      BY <1>1, <3>1, <3>3, AppendBeats DEF Pinged
    <3>5. /\ server'[k].up = server[k].up /\ server'[k].reg_ok = server[k].reg_ok
          /\ server'[k].broker_port = server[k].broker_port
      BY <1>1, <2>4 DEF TaskDone, Idle, Process
    <3> QED
      BY <1>1, <3>1, <3>4, <3>5, BeatTraffic
  <2>5. CASE Dies(k)
    <3>1. ~server'[k].up /\ ~server'[k].reg_ok
      <4>1. server'[k] = [Started EXCEPT !.up = FALSE]
        BY <1>1, <2>5 DEF Dies
      <4> QED
        BY <4>1 DEF Started
    <3>2. reg_rep'[k] = NoReply /\ <<k, TRUE>> \notin reg_req'
      BY <1>1, <2>5 DEF Dies
    <3>3. outbox[k] = <<>> => outbox'[k] = <<>>
      <4>1. PICK n \in 0..Len(outbox[k]) : outbox' = [outbox EXCEPT ![k] = SubSeq(@, 1, n)]
        BY <2>5 DEF Dies
      <4>2. outbox'[k] = SubSeq(outbox[k], 1, n)
        BY <1>1, <4>1
      <4>3. outbox[k] = <<>> => Len(outbox[k]) = 0
        OBVIOUS
      <4> QED
        BY <4>1, <4>2, <4>3
    <3> QED
      BY <1>1, <3>1, <3>2, <3>3 DEF BeatKept, Heeded, Entitled, Quiet, Watched
  <2>6. CASE SendRegistration(k)
    <3>1. /\ server[k].up /\ server'[k].up /\ server'[k].reg_ok = server[k].reg_ok
          /\ server'[k].broker_port = server[k].broker_port
          /\ UNCHANGED <<reg_rep, inbox, outbox>>
      BY <1>1, <2>6 DEF SendRegistration, Process
    <3> QED
      BY <1>1, <3>1 DEF BeatKept, Heeded, Entitled, Quiet, Watched, Pinged, Registered
  <2>7. CASE RegistrationOk(k)
    <3>1. /\ server[k].up /\ server[k].send_reg /\ reg_rep[k] \notin {NoReply, REG_FAIL}
          /\ UNCHANGED outbox
      BY <2>7 DEF RegistrationOk
    <3>2. server'[k].up /\ server'[k].broker_port = reg_rep[k]
      BY <1>1, <2>7 DEF RegistrationOk, Idle, Process
    <3>3. ~server[k].reg_ok
      BY <1>1, <3>1 DEF Tied
    <3>4. reg_rep[k] # 0
      BY <3>1 DEF REG_FAIL
    <3>5. ~(k[1] \in Registered /\ services_db[k[1]].lost_pong[k[2]] = LIVENESS - 1)
      BY <1>1, <3>1, <3>3 DEF Watched
    <3> QED
      BY <1>1, <3>1, <3>2, <3>4, <3>5
         DEF BeatKept, Heeded, Entitled, Quiet, Watched, Registered
  <2>8. CASE MissesPing(k)
    <3>1. k[1] \notin AvailableServices /\ PingTimeout(k)
      BY <2>8 DEF MissesPing
    <3>2. /\ server'[k].up = server[k].up /\ server[k].reg_ok
          /\ server'[k].broker_port = server[k].broker_port
          /\ UNCHANGED <<reg_req, reg_rep, inbox, outbox>>
      BY <1>1, <3>1 DEF PingTimeout, Process, netVars
    <3>3. k[2] \in CopyId /\ LIVENESS - 1 # -1
      BY LivenessAssumption DEF Copy
    <3>4. k[1] \in Registered => services_db[k[1]].lost_pong[k[2]] # LIVENESS - 1
      BY <1>1, <3>1, <3>3 DEF Fresh
    <3> QED
      BY <1>1, <3>1, <3>2, <3>4 DEF BeatKept, Quiet, Watched, Registered
  <2>9. CASE Revive(k)
    <3>1. GivenUp(k) /\ Relaunch(k)
      BY <2>9 DEF Revive, Restart
    <3>2. server'[k].broker_port = 0 /\ ~server'[k].reg_ok /\ ~server[k].up
          /\ UNCHANGED <<reg_req, reg_rep, inbox, outbox>>
      BY <1>1, <3>1 DEF Relaunch, Started, netVars
    <3>3. k[2] \in CopyId /\ LIVENESS - 1 # -1 /\ LIVENESS - 1 # LIVENESS
      BY LivenessAssumption DEF Copy
    <3>4. k[1] \in Registered => services_db[k[1]].lost_pong[k[2]] # LIVENESS - 1
      BY <1>1, <3>1, <3>3 DEF Fresh, GivenUp
    <3> QED
      BY <1>1, <3>2, <3>4 DEF BeatKept, Heeded, Entitled, Quiet, Watched, Registered
  <2>10. ~OrphanAnswers(k)
    BY <1>1 DEF OrphanAnswers, Tied
  <2> QED
    BY <2>1, <2>2, <2>3, <2>4, <2>5, <2>6, <2>7, <2>8, <2>9, <2>10
       DEF ServerStep, OrphanThrows, RegistrationError, Kill
<1>4. AvailableServices' = AvailableServices /\ Registered' = Registered
  BY DEF brokerVars, AvailableServices, Registered
<1> QED
  BY <1>1, <1>2, <1>3, <1>4, BeatFrame

-----------------------------------------------------------------------------
(* Steps of the broker that count nothing *)

(* Nothing about heartbeats changes in a record, except that a pong may    *)
(* have been registered.                                                   *)
SameCounts(r2, r) ==
  r2.num_copies_reliable = r.num_copies_reliable /\ r2.lost_pong = r.lost_pong

(* A step of the broker that registers no pong but one it takes from a      *)
(* queue.                                                                   *)
LEMMA BeatTable ==
  ASSUME IndInv, BeatInv, UNCHANGED <<server, available_services, reg_req, reg_rep>>,
         Registered' = Registered,
         \A s \in Registered : SameCounts(services_db'[s], services_db[s]),
         \A k \in Copy : k[1] \in Registered =>
           /\ services_db'[k[1]].new_pong[k[2]] =>
                services_db[k[1]].new_pong[k[2]] \/ outbox[k] # <<>>
           /\ services_db[k[1]].new_pong[k[2]] => services_db'[k[1]].new_pong[k[2]]
           /\ outbox[k] = <<>> => outbox'[k] = <<>>
           /\ Pinged(k) => Pinged(k)' \/ services_db'[k[1]].new_pong[k[2]]
  PROVE  BeatInv' /\ SameLost
<1>1. AvailableServices' = AvailableServices
  BY DEF AvailableServices
<1>2. ASSUME NEW k \in Copy PROVE BeatKept(k)
  <2>1. Quiet(k) /\ Watched(k)
    BY DEF BeatInv
  <2>2. Quiet(k)'
    BY <2>1 DEF Quiet
  <2>3. CASE k[1] \in Registered
    <3>1. services_db'[k[1]].lost_pong = services_db[k[1]].lost_pong
      BY <2>3 DEF SameCounts
    <3>2. Watched(k)'
      BY <2>1, <2>3, <3>1 DEF Watched
    <3>3. Heeded(k)' => Heeded(k)
      BY <2>3, <3>1 DEF Heeded, Entitled
    <3> QED
      BY <2>2, <3>2, <3>3 DEF BeatKept
  <2>4. CASE k[1] \notin Registered
    <3>1. Watched(k)'
      BY <2>4 DEF Watched
    <3>2. k[1] \notin AvailableServices
      BY <2>4, AvailableTypes
    <3> QED
      BY <2>2, <3>1, <3>2 DEF BeatKept
  <2> QED
    BY <2>3, <2>4
<1> QED
  BY <1>1, <1>2, BeatFrame DEF SameCounts

(* The requests of a table are changed.                                    *)
LEMMA OtherRequests ==
  ASSUME NEW db, GoodTable(db), NEW s, NEW R
  PROVE  /\ DOMAIN WithRequests(db, s, R) = DOMAIN db
         /\ \A t \in DOMAIN db :
              /\ SameCounts(WithRequests(db, s, R)[t], db[t])
              /\ WithRequests(db, s, R)[t].new_pong = db[t].new_pong
<1> DEFINE n == [db[s] EXCEPT !.request_records = R]
           w == [db EXCEPT ![s] = n]
<1>1. WithRequests(db, s, R) = w
  BY DEF WithRequests
<1>2. s \in DOMAIN db => db[s] \in service_record
  BY DEF GoodTable
<1>3. s \in DOMAIN db => SameCounts(n, db[s]) /\ n.new_pong = db[s].new_pong
  BY <1>2 DEF service_record, SameCounts
<1> HIDE DEF n
<1>4. DOMAIN w = DOMAIN db /\ \A t \in DOMAIN db : w[t] = IF t = s THEN n ELSE db[t]
  BY DEF GoodTable
<1> QED
  BY <1>1, <1>3, <1>4 DEF SameCounts

(* A reply that is not a pong is taken from a queue.                       *)
LEMMA TakenBeats ==
  ASSUME TypeOK, NEW k \in Copy, TakeReply(k), NEW x \in Copy
  PROVE  /\ outbox[x] = <<>> => outbox'[x] = <<>>
         /\ x # k => (Pinged(x) => Pinged(x)')
         /\ ~Head(outbox[k]).heartbeat => (Pinged(x) => Pinged(x)')
<1>1. /\ outbox[k] # <<>> /\ UNCHANGED inbox
      /\ outbox' = [outbox EXCEPT ![k] = Tail(outbox[k])]
      /\ outbox[k] \in Seq(server_reply_t) /\ outbox \in [Copy -> Seq(server_reply_t)]
  BY DEF TakeReply, TypeOK, NetTypeOK
<1>2. CASE x # k
  BY <1>1, <1>2 DEF Pinged
<1>3. CASE x = k
  <2>1. outbox'[k] = Tail(outbox[k])
    BY <1>1
  <2>2. ASSUME ~Head(outbox[k]).heartbeat, Pinged(k) PROVE Pinged(k)'
    <3>1. CASE \E y \in DOMAIN inbox[k] : inbox[k][y].heartbeat
      BY <1>1, <3>1 DEF Pinged
    <3>2. CASE \E y \in DOMAIN outbox[k] : outbox[k][y].heartbeat
      <4>1. \E y \in DOMAIN Tail(outbox[k]) : Tail(outbox[k])[y].heartbeat
        BY <1>1, <2>2, <3>2, TailBeats
      <4> QED
        BY <2>1, <4>1 DEF Pinged
    <3> QED
      BY <2>2, <3>1, <3>2 DEF Pinged
  <2> QED
    BY <1>1, <1>3, <2>2
<1> QED
  BY <1>2, <1>3

LEMMA BeatResponse ==
  ASSUME IndInv, BeatInv, UNCHANGED server, NEW k \in Copy, get_response(k)
  PROVE  BeatInv' /\ SameLost
<1>1. /\ TypeOK /\ TakeReply(k) /\ GoodTable(services_db)
      /\ UNCHANGED <<available_services, reg_req, reg_rep>>
  BY GoodTableNow DEF get_response, GetPong, GetDuplicate, GetResult, TakeReply, IndInv
<1>2. CASE ~Head(outbox[k]).heartbeat
  <2>1. \/ UNCHANGED services_db
        \/ \E R : services_db' = WithRequests(services_db, k[1], R)
    BY <1>2 DEF get_response, GetPong, GetDuplicate, GetResult, WithRequests
  <2>2. /\ Registered' = Registered
        /\ \A s \in Registered : /\ SameCounts(services_db'[s], services_db[s])
                                 /\ services_db'[s].new_pong = services_db[s].new_pong
    BY <1>1, <2>1, OtherRequests DEF Registered, SameCounts
  <2> QED
    BY <1>1, <1>2, <2>2, TakenBeats, BeatTable
<1>3. CASE Head(outbox[k]).heartbeat
  <2> DEFINE n == register_pong(services_db[k[1]], k[2])
  <2>1. GetPong(k)
    BY <1>3 DEF get_response, GetDuplicate, GetResult
  <2>2. CASE k[1] \notin Registered
    <3>1. UNCHANGED services_db
      BY <2>1, <2>2 DEF GetPong
    <3>2. Registered' = Registered /\
          \A s \in Registered : SameCounts(services_db'[s], services_db[s])
      BY <3>1 DEF Registered, SameCounts
    <3> QED
      BY <1>1, <2>2, <3>1, <3>2, TakenBeats, BeatTable
  <2>3. CASE k[1] \in Registered
    <3>1. services_db' = [services_db EXCEPT ![k[1]] = n]
      BY <2>1, <2>3 DEF GetPong
    <3>2. services_db[k[1]] \in service_record /\ k[2] \in CopyId /\ k = <<k[1], k[2]>>
      BY <1>1, <2>3 DEF GoodTable, Registered, Copy
    <3>3. /\ SameCounts(n, services_db[k[1]]) /\ n.new_pong[k[2]]
          /\ \A id \in CopyId \ {k[2]} : n.new_pong[id] = services_db[k[1]].new_pong[id]
      BY <3>2 DEF register_pong, service_record, SameCounts
    <3> HIDE DEF n
    <3>4. /\ Registered' = Registered
          /\ \A s \in Registered : services_db'[s] = IF s = k[1] THEN n ELSE services_db[s]
      BY <1>1, <3>1 DEF Registered, GoodTable
    <3>5. \A s \in Registered : SameCounts(services_db'[s], services_db[s])
      BY <3>3, <3>4 DEF SameCounts
    <3>6. ASSUME NEW x \in Copy, x[1] \in Registered
          PROVE  /\ services_db'[x[1]].new_pong[x[2]] =>
                      services_db[x[1]].new_pong[x[2]] \/ outbox[x] # <<>>
                 /\ services_db[x[1]].new_pong[x[2]] => services_db'[x[1]].new_pong[x[2]]
                 /\ outbox[x] = <<>> => outbox'[x] = <<>>
                 /\ Pinged(x) => Pinged(x)' \/ services_db'[x[1]].new_pong[x[2]]
      <4>1. CASE x = k
        BY <1>1, <3>3, <3>4, <3>6, <4>1, TakenBeats DEF TakeReply
      <4>2. CASE x # k
        <5>1. x[1] # k[1] \/ x[2] # k[2]
          BY <3>2, <4>2 DEF Copy
        <5>2. x[2] \in CopyId
          BY DEF Copy
        <5>3. services_db'[x[1]].new_pong[x[2]] = services_db[x[1]].new_pong[x[2]]
          BY <3>3, <3>4, <3>6, <5>1, <5>2
        <5> QED
          BY <1>1, <4>2, <5>3, TakenBeats
      <4> QED
        BY <4>1, <4>2
    <3> QED
      BY <1>1, <3>4, <3>5, <3>6, BeatTable
  <2> QED
    BY <2>2, <2>3
<1> QED
  BY <1>2, <1>3

(* Messages are dealt out: nothing is lost, and the peers are pinged.      *)
LEMMA SentBeats ==
  ASSUME TypeOK, NEW i, NEW m \in service_module, NEW n \in Nat, DealerSend(i, m, n),
         UNCHANGED outbox, NEW k \in Copy
  PROVE  Pinged(k) => Pinged(k)'
<1>1. inbox[k] \in Seq(service_module)
  BY CopyTypes
<1>2. PICK x \in Nat : inbox'[k] = Dealt(inbox[k], m, x)
  BY DealtOut DEF Dealt
<1>3. Beats(inbox[k]) => Beats(inbox'[k])
  BY <1>1, <1>2, DealtBeats
<1> QED
  BY <1>3 DEF Pinged, Beats

LEMMA BeatRequest ==
  ASSUME IndInv, BeatInv, UNCHANGED server, NEW c \in Client, get_request(c)
  PROVE  BeatInv' /\ SameLost
<1>1. TypeOK /\ UNCHANGED <<available_services, reg_req, reg_rep, outbox>>
  BY DEF get_request, GetRequestNotAvailable, GetRequest, GetRequestUndefined, TakeRequest, IndInv
<1>2. CASE UNCHANGED <<services_db, inbox>>
  <2>1. /\ Registered' = Registered
        /\ \A s \in Registered : SameCounts(services_db'[s], services_db[s])
        /\ \A k \in Copy : Pinged(k) => Pinged(k)'
    BY <1>1, <1>2 DEF Registered, SameCounts, Pinged
  <2> QED
    BY <1>1, <1>2, <2>1, BeatTable
<1>3. CASE GetRequest(c)
  <2> DEFINE s == Head(router_in[c]).service
             r == services_db[s]
             a == [r EXCEPT !.seq_id_request = @ + 1]
             n == push_request(a, c)
             i == find_registration(s) + 1
             m == [heartbeat |-> FALSE, seq_id |-> r.seq_id_request,
                   client |-> c, parameters |-> Head(router_in[c]).parameters]
  <2>1. /\ TakeRequest(c) /\ find_registration(s) # SERVICE_NOT_FOUND
        /\ DealerSend(i, m, r.num_copies_reliable)
        /\ services_db' = [services_db EXCEPT ![s] = n]
    BY <1>3 DEF GetRequest
  <2>2. s \in Registered
    BY <2>1 DEF find_registration
  <2>3. r \in service_record
    BY <1>1, <2>2 DEF TypeOK, BrokerTypeOK, Registered
  <2>4. Head(router_in[c]).parameters \in Int
    BY <1>1, <2>1, TakeRequestType DEF request_module
  <2> HIDE DEF r, s, i
  <2>5. r.seq_id_request \in Nat /\ r.num_copies_reliable \in Nat
    BY <2>3 DEF service_record
  <2>6. m \in service_module
    BY <2>4, <2>5 DEF service_module
  <2>7. SameCounts(n, r) /\ n.new_pong = r.new_pong
    <3>1. a \in service_record /\ SameCounts(a, r) /\ a.new_pong = r.new_pong
      BY <2>3 DEF service_record, SameCounts
    <3> HIDE DEF a
    <3>2. \E R : n = [a EXCEPT !.request_records = R]
      BY DEF push_request
    <3> HIDE DEF n
    <3>3. SameCounts(n, a) /\ n.new_pong = a.new_pong
      BY <3>1, <3>2 DEF service_record, SameCounts
    <3> QED
      BY <3>1, <3>3 DEF SameCounts
  <2> HIDE DEF m, n
  <2>8. /\ Registered' = Registered
        /\ \A t \in Registered : services_db'[t] = IF t = s THEN n ELSE services_db[t]
    BY <1>1, <2>1 DEF Registered, TypeOK, BrokerTypeOK
  <2>9. \A t \in Registered : /\ SameCounts(services_db'[t], services_db[t])
                              /\ services_db'[t].new_pong = services_db[t].new_pong
    BY <2>7, <2>8 DEF r, SameCounts
  <2>10. \A k \in Copy : Pinged(k) => Pinged(k)'
    BY <1>1, <2>1, <2>5, <2>6, SentBeats
  <2> QED
    BY <1>1, <2>8, <2>9, <2>10, BeatTable
<1> QED
  BY <1>2, <1>3 DEF get_request, GetRequestNotAvailable, GetRequestUndefined

LEMMA BeatPending ==
  ASSUME IndInv, BeatInv, UNCHANGED server, check_pending_requests
  PROVE  BeatInv' /\ SameLost
<1>1. PICK i \in DOMAIN available_services :
        \E q \in services_db[available_services[i]].request_records : CheckPendingRequest(i, q)
  BY DEF check_pending_requests
<1>2. PICK q \in services_db[available_services[i]].request_records : CheckPendingRequest(i, q)
  BY <1>1
<1> DEFINE s == available_services[i]
           e == ExpiredFrom(i)
           R1 == Expire(services_db[s].request_records, q)
           db1 == WithRequests(services_db, s, R1)
           R2 == delete_request(db1[e].request_records, q.client_id)
           db2 == WithRequests(db1, e, R2)
<1>3. services_db' = IF e \in Registered THEN db2 ELSE db1
  BY <1>2 DEF CheckPendingRequest, WithRequests
<1>4. UNCHANGED <<available_services, reg_req, reg_rep, inbox, outbox>>
  BY <1>2 DEF CheckPendingRequest
<1>5. s \in Registered
  BY LenProperties DEF IndInv, TypeOK, BrokerTypeOK, Route, Tables
<1>6. services_db[s].request_records \in SUBSET request_record_t
  BY <1>5 DEF IndInv, Records, GoodRecord, service_record
<1>7. R1 \in SUBSET request_record_t
      /\ \A x \in R1 : \E p \in services_db[s].request_records : x.seq = p.seq
  <2>1. q \in request_record_t
    BY <1>6
  <2>2. [q EXCEPT !.expired = TRUE] \in request_record_t
        /\ [q EXCEPT !.expired = TRUE].seq = q.seq
    BY <2>1 DEF request_record_t
  <2> QED
    BY <1>6, <2>2 DEF Expire
<1>8. GoodTable(services_db)
  BY GoodTableNow
<1> HIDE DEF R1, s, e
<1>9. GoodTable(db1)
  BY <1>5, <1>7, <1>8, WithRequestsType DEF Registered
<1>10. /\ DOMAIN db1 = Registered
       /\ \A t \in Registered : /\ SameCounts(db1[t], services_db[t])
                                /\ db1[t].new_pong = services_db[t].new_pong
  BY <1>8, OtherRequests DEF Registered
<1> HIDE DEF db1, R2
<1>11. /\ DOMAIN db2 = Registered
       /\ \A t \in Registered : SameCounts(db2[t], db1[t]) /\ db2[t].new_pong = db1[t].new_pong
  BY <1>9, <1>10, OtherRequests
<1> HIDE DEF db2
<1>12. /\ Registered' = Registered
       /\ \A t \in Registered : /\ SameCounts(services_db'[t], services_db[t])
                                /\ services_db'[t].new_pong = services_db[t].new_pong
  BY <1>3, <1>10, <1>11 DEF Registered, SameCounts
<1>13. \A k \in Copy : Pinged(k) => Pinged(k)'
  BY <1>4 DEF Pinged
<1> QED
  BY <1>4, <1>12, <1>13, BeatTable

-----------------------------------------------------------------------------
(* Registrations *)

(* A registration is answered: only a live process waits for a port.        *)
LEMMA RegisteredQuiet ==
  ASSUME IndInv, BeatInv, UNCHANGED server, NEW k \in Copy, NEW live \in BOOLEAN,
         NEW port, TakeRegistration(k, live, port)
  PROVE  /\ \A x \in Copy : Quiet(x)'
         /\ \A x \in Copy \ {k} : reg_rep'[x] = reg_rep[x]
         /\ UNCHANGED <<inbox, outbox>>
<1>1. /\ reg_rep \in [Copy -> Nat \cup {NoReply}] /\ <<k, live>> \in reg_req
      /\ reg_req' = reg_req \ {<<k, live>>}
      /\ reg_rep' = IF live THEN [reg_rep EXCEPT ![k] = port] ELSE reg_rep
      /\ UNCHANGED <<inbox, outbox>>
  BY DEF TakeRegistration, IndInv, TypeOK, NetTypeOK
<1>2. \A x \in Copy \ {k} : reg_rep'[x] = reg_rep[x]
  BY <1>1
<1>3. live => live = TRUE
  OBVIOUS
<1>4. Quiet(k)'
  BY <1>1, <1>3 DEF BeatInv, Quiet
<1>5. \A x \in Copy \ {k} : Quiet(x)'
  BY <1>1, <1>2 DEF BeatInv, Quiet
<1> QED
  BY <1>1, <1>2, <1>4, <1>5

LEMMA BeatFirst ==
  ASSUME IndInv, BeatInv, UNCHANGED server, NEW k \in Copy, NEW live \in BOOLEAN,
         GetFirstRegistration(k, live)
  PROVE  BeatInv' /\ SameLost
<1> DEFINE s == k[1]
           n == FirstCopy(available_dealer_port, next_dealer_skt_index)
<1>1. /\ s \notin Registered /\ TakeRegistration(k, live, available_dealer_port)
      /\ services_db' = [x \in Registered \cup {s} |-> IF x = s THEN n ELSE services_db[x]]
      /\ UNCHANGED available_services
  BY DEF GetFirstRegistration
<1>2. \A id \in CopyId : n.lost_pong[id] = -1
  BY DEF FirstCopy
<1> HIDE DEF n
<1>3. /\ Registered' = Registered \cup {s} /\ services_db'[s] = n
      /\ \A t \in Registered : services_db'[t] = services_db[t]
      /\ AvailableServices' = AvailableServices
  BY <1>1 DEF Registered, AvailableServices
<1>4. /\ \A x \in Copy : Quiet(x)'
      /\ \A x \in Copy \ {k} : reg_rep'[x] = reg_rep[x]
      /\ UNCHANGED <<inbox, outbox>>
  BY <1>1, RegisteredQuiet
<1>5. Fresh'
  BY <1>2, <1>3 DEF BeatInv, Fresh
<1>6. ASSUME NEW x \in Copy PROVE Watched(x)'
  <2>1. CASE x[1] = s
    <3>1. services_db'[x[1]].lost_pong[x[2]] = -1 /\ LIVENESS - 1 # -1
      BY <1>2, <1>3, <2>1, LivenessAssumption DEF Copy
    <3> QED
      BY <3>1 DEF Watched
  <2>2. CASE x[1] # s
    BY <1>3, <1>4, <2>2 DEF BeatInv, Watched, Pinged
  <2> QED
    BY <2>1, <2>2
<1>7. ASSUME NEW t \in AvailableServices
      PROVE  Cardinality(Counted(t)') <= services_db'[t].num_copies_reliable
  <2>1. t \in Registered /\ t \in Service /\ services_db[t].num_copies_reliable \in 0..255
    BY AvailableTypes
  <2>2. t # s /\ services_db'[t] = services_db[t]
    BY <1>1, <1>3, <2>1
  <2>3. \A id \in CopyId : <<t, id>> \in Copy \ {k}
    BY <2>1, <2>2 DEF Copy
  <2>4. \A id \in CopyId : Heeded(<<t, id>>)' => Heeded(<<t, id>>)
    BY <1>4, <2>2, <2>3 DEF Heeded, Entitled
  <2>5. Cardinality(Counted(t)') <= Cardinality(Counted(t))
    BY <2>1, <2>4, FewerCounted
  <2>6. Cardinality(Counted(t)) <= services_db[t].num_copies_reliable
    BY DEF BeatInv, Enough
  <2> QED
    BY <2>1, <2>2, <2>5, <2>6, CountedType
<1>8. Enough'
  BY <1>3, <1>7 DEF Enough
<1> QED
  BY <1>3, <1>4, <1>5, <1>6, <1>8 DEF BeatInv, SameLost

LEMMA BeatRefused ==
  ASSUME IndInv, BeatInv, UNCHANGED server, NEW k \in Copy, NEW live \in BOOLEAN,
         RefuseRegistration(k, live)
  PROVE  BeatInv' /\ SameLost
<1>1. TakeRegistration(k, live, REG_FAIL) /\ UNCHANGED <<services_db, available_services>>
  BY DEF RefuseRegistration
<1>2. /\ \A x \in Copy : Quiet(x)'
      /\ \A x \in Copy \ {k} : reg_rep'[x] = reg_rep[x]
      /\ UNCHANGED <<inbox, outbox>>
  BY <1>1, RegisteredQuiet
<1>3. reg_rep'[k] = reg_rep[k] \/ reg_rep'[k] = REG_FAIL
  BY <1>1 DEF TakeRegistration, IndInv, TypeOK, NetTypeOK
<1>4. ASSUME NEW x \in Copy PROVE BeatKept(x)
  <2>1. Watched(x)'
    BY <1>1, <1>2 DEF BeatInv, Watched, Pinged, Registered
  <2>2. Heeded(x)' => Heeded(x)
    BY <1>1, <1>2, <1>3 DEF Heeded, Entitled
  <2> QED
    BY <1>2, <2>1, <2>2 DEF BeatKept
<1>5. AvailableServices' = AvailableServices /\ Registered' = Registered
  BY <1>1 DEF AvailableServices, Registered
<1> QED
  BY <1>1, <1>4, <1>5, BeatFrame

LEMMA OneMore ==
  ASSUME NEW S, IsFiniteSet(S), NEW x
  PROVE  /\ IsFiniteSet(S \cup {x}) /\ Cardinality(S \cup {x}) \in Nat
         /\ Cardinality(S) \in Nat /\ Cardinality(S \cup {x}) <= Cardinality(S) + 1
<1>1. Cardinality(S) \in Nat /\ IsFiniteSet(S \cup {x})
  BY FS_AddElement, FS_CardinalityType
<1>2. Cardinality(S \cup {x}) = Cardinality(S) \/ Cardinality(S \cup {x}) = Cardinality(S) + 1
  BY FS_AddElement
<1> QED
  BY <1>1, <1>2

(* One more copy is admitted, and it may be the one that completes the      *)
(* group.                                                                   *)
LEMMA BeatFurther ==
  ASSUME IndInv, BeatInv, UNCHANGED server, NEW k \in Copy, NEW live \in BOOLEAN,
         GetFurtherRegistration(k, live)
  PROVE  BeatInv' /\ SameLost
<1> DEFINE s == k[1]
           r == services_db[s]
           n == FurtherCopy(r)
<1>1. /\ s \in Registered /\ TakeRegistration(k, live, n.dealer_socket)
      /\ r.num_copies_registered < NMR
      /\ services_db' = [services_db EXCEPT ![s] = n]
      /\ \/ UNCHANGED available_services /\ (s \in AvailableServices \/ n.num_copies_registered # NMR)
         \/ available_services' = Append(available_services, s) /\ n.num_copies_registered = NMR
  BY DEF GetFurtherRegistration
<1>2. /\ s \in Service /\ k = <<s, k[2]>> /\ k[2] \in CopyId /\ GoodRecord(r)
      /\ available_services \in Seq(Service)
  BY <1>1 DEF Copy, IndInv, Records, TypeOK, BrokerTypeOK
<1>3. /\ n.num_copies_reliable = r.num_copies_reliable + 1
      /\ n.num_copies_registered = n.num_copies_reliable
      /\ n.lost_pong = r.lost_pong /\ n.new_pong = r.new_pong
      /\ r.num_copies_reliable \in Nat
  <2>1. r \in service_record /\ r.num_copies_registered = r.num_copies_reliable
    BY <1>2 DEF GoodRecord
  <2> HIDE DEF r
  <2>2. /\ n.num_copies_reliable = r.num_copies_reliable + 1
        /\ n.num_copies_registered = r.num_copies_registered + 1
        /\ n.lost_pong = r.lost_pong /\ n.new_pong = r.new_pong
        /\ r.num_copies_reliable \in Nat
    BY <2>1 DEF FurtherCopy, service_record
  <2> QED
    BY <2>1, <2>2
<1> HIDE DEF n
<1>4. /\ Registered' = Registered
      /\ \A t \in Registered : services_db'[t] = IF t = s THEN n ELSE services_db[t]
  BY <1>1 DEF Registered, IndInv, TypeOK, BrokerTypeOK
<1>5. \A t \in Registered : /\ services_db'[t].lost_pong = services_db[t].lost_pong
                            /\ services_db'[t].new_pong = services_db[t].new_pong
  BY <1>3, <1>4
<1>6. /\ \A x \in Copy : Quiet(x)'
      /\ \A x \in Copy \ {k} : reg_rep'[x] = reg_rep[x]
      /\ UNCHANGED <<inbox, outbox>>
  BY <1>1, RegisteredQuiet
<1>7. \A x \in Copy : Watched(x)'
  BY <1>4, <1>5, <1>6 DEF BeatInv, Watched, Pinged
<1>8. /\ AvailableServices \subseteq AvailableServices'
      /\ AvailableServices' \subseteq AvailableServices \cup {s}
      /\ s \in AvailableServices \/ s \notin AvailableServices' \/ n.num_copies_registered = NMR
  <2>1. CASE UNCHANGED available_services
    BY <2>1 DEF AvailableServices
  <2>2. CASE available_services' = Append(available_services, s) /\ n.num_copies_registered = NMR
    BY <1>2, <2>2, AppendProperties DEF AvailableServices
  <2> QED
    BY <1>1, <2>1, <2>2
<1>9. Fresh'
  BY <1>4, <1>5, <1>8 DEF BeatInv, Fresh
<1>10. \A t \in Registered : \A id \in CopyId :
         <<t, id>> \in Copy \ {k} /\ Heeded(<<t, id>>)' => Heeded(<<t, id>>)
  BY <1>5, <1>6 DEF Heeded, Entitled
<1>11. ASSUME NEW t \in AvailableServices'
       PROVE  Cardinality(Counted(t)') <= services_db'[t].num_copies_reliable
  <2>1. CASE t # s
    <3>1. t \in AvailableServices
      BY <1>8, <2>1
    <3>2. t \in Registered /\ t \in Service /\ services_db[t].num_copies_reliable \in 0..255
      BY <3>1, AvailableTypes
    <3>3. \A id \in CopyId : <<t, id>> \in Copy \ {k}
      BY <2>1, <3>2 DEF Copy
    <3>4. \A id \in CopyId : Heeded(<<t, id>>)' => Heeded(<<t, id>>)
      BY <1>10, <3>2, <3>3
    <3>5. Cardinality(Counted(t)') <= Cardinality(Counted(t))
      BY <3>2, <3>4, FewerCounted
    <3>6. Cardinality(Counted(t)) <= services_db[t].num_copies_reliable
      BY <3>1 DEF BeatInv, Enough
    <3>7. services_db'[t] = services_db[t]
      BY <1>4, <2>1, <3>2
    <3> QED
      BY <3>2, <3>5, <3>6, <3>7, CountedType
  <2>2. CASE t = s /\ s \notin AvailableServices
    <3>1. services_db'[t].num_copies_reliable = NMR
      BY <1>1, <1>3, <1>4, <1>8, <2>2
    <3> QED
      BY <3>1, CountedType
  <2>3. CASE t = s /\ s \in AvailableServices
    <3> DEFINE C == Counted(s) \cup {k[2]}
    <3>1. Counted(s)' \in SUBSET C
      <4>1. ASSUME NEW id \in CopyId, id # k[2], Heeded(<<s, id>>)' PROVE Heeded(<<s, id>>)
        <5>1. <<s, id>> \in Copy \ {k}
          BY <1>2, <4>1 DEF Copy
        <5> QED
          BY <1>1, <1>10, <4>1, <5>1
      <4> QED
        BY <4>1 DEF Counted
    <3>2. IsFiniteSet(Counted(s)) /\ Cardinality(Counted(s)) \in Nat
      BY CountedType
    <3>3. /\ IsFiniteSet(C) /\ Cardinality(C) \in Nat
          /\ Cardinality(C) <= Cardinality(Counted(s)) + 1
      BY <3>2, OneMore
    <3> HIDE DEF C
    <3>4. Cardinality(Counted(s)') <= Cardinality(C)
      BY <3>1, <3>3, FS_Subset
    <3>5. Cardinality(Counted(s)) <= r.num_copies_reliable
      BY <2>3 DEF BeatInv, Enough
    <3>6. services_db'[t].num_copies_reliable = r.num_copies_reliable + 1
      BY <1>1, <1>3, <1>4, <2>3
    <3>7. Cardinality(Counted(s)') \in Nat
      BY CountedType
    <3> QED
      BY <1>3, <2>3, <3>2, <3>3, <3>4, <3>5, <3>6, <3>7
  <2> QED
    BY <2>1, <2>2, <2>3
<1>12. Enough'
  BY <1>11 DEF Enough
<1> QED
  BY <1>5, <1>6, <1>7, <1>9, <1>12 DEF BeatInv, SameLost

-----------------------------------------------------------------------------
(* A round of heartbeats *)

(* What check_pong does to the counts of one service.                       *)
LEMMA CheckPongCounts ==
  ASSUME NEW r \in service_record
  PROVE  /\ \A id \in CopyId :
              /\ check_pong(r).lost_pong[id] =
                   IF id \in PongLost(r) THEN r.lost_pong[id] + 1
                   ELSE IF r.new_pong[id] THEN 0 ELSE r.lost_pong[id]
              /\ ~check_pong(r).new_pong[id]
         /\ check_pong(r).num_copies_reliable =
              Minus8(r.num_copies_reliable, Cardinality(Unreliable(r)))
<1> DEFINE U == Cardinality(Unreliable(r))
           lost == [id \in CopyId |->
                      IF id \in PongLost(r) THEN r.lost_pong[id] + 1
                      ELSE IF r.new_pong[id] THEN 0 ELSE r.lost_pong[id]]
           none == [id \in CopyId |-> FALSE]
           a == Minus8(r.num_copies_reliable, U)
           b == Minus8(r.num_copies_registered, U)
           n == [r EXCEPT !.lost_pong = lost, !.new_pong = none, !.num_copies_reliable = a,
                          !.num_copies_registered = b, !.seq_id_ping = @ + 1]
<1>1. check_pong(r) = n
  BY Zenon DEF check_pong
<1>2. \A id \in CopyId : ~none[id]
  OBVIOUS
<1>3. \A id \in CopyId :
        lost[id] = IF id \in PongLost(r) THEN r.lost_pong[id] + 1
                   ELSE IF r.new_pong[id] THEN 0 ELSE r.lost_pong[id]
  OBVIOUS
<1> HIDE DEF lost, none, a, b
<1>4. n.lost_pong = lost /\ n.new_pong = none /\ n.num_copies_reliable = a
  BY DEF service_record
<1> HIDE DEF n
<1> QED
  BY <1>1, <1>2, <1>3, <1>4 DEF a

(* A copy that is counted out is dead: had it lived, it would have         *)
(* answered the ping of the round before.                                  *)
LEMMA CountedOutDead ==
  ASSUME IndInv, BeatInv, Timely, NEW i \in DOMAIN available_services, Heartbeat(i),
         NEW s \in Registered, s = available_services[i], s \in Service,
         NEW id \in Unreliable(services_db[s])
  PROVE  id \in CopyId /\ ~server[<<s, id>>].up /\ outbox[<<s, id>>] = <<>>
<1> DEFINE k == <<s, id>>
<1>1. /\ id \in CopyId /\ ~services_db[s].new_pong[id] /\ services_db[s].lost_pong[id] + 1 = LIVENESS
      /\ services_db[s] \in service_record
  BY DEF Unreliable, PongLost, IndInv, Records, GoodRecord
<1>2. services_db[s].lost_pong[id] = LIVENESS - 1
  <2>1. services_db[s].lost_pong[id] \in Int
    BY <1>1 DEF service_record
  <2> QED
    BY <1>1, <2>1, LivenessAssumption
<1>3. UpToDate(i, k)
  BY <1>1, <1>2 DEF Heartbeat, Settled
<1>4. k \in Copy /\ k[1] = s /\ k[2] = id
  BY <1>1 DEF Copy
<1>5. Watched(k)
  BY <1>4 DEF BeatInv
<1> HIDE DEF k
<1>6. ASSUME server[k].up PROVE FALSE
  <2>1. Pinged(k)
    BY <1>1, <1>2, <1>4, <1>5, <1>6 DEF Watched
  <2>2. inbox[k] = <<>> /\ outbox[k] = <<>>
    BY <1>3, <1>6 DEF UpToDate
  <2> QED
    BY <2>1, <2>2 DEF Pinged
<1> QED
  BY <1>1, <1>3, <1>6 DEF UpToDate, k

(* What is left of the count when those who are no longer heeded go.       *)
LEMMA Subtracted ==
  ASSUME NEW C, IsFiniteSet(C), NEW U \in SUBSET C, NEW D \in SUBSET (C \ U),
         NEW n \in 0..255, Cardinality(C) <= n
  PROVE  Cardinality(D) <= Minus8(n, Cardinality(U))
<1>1. /\ Cardinality(C) \in Nat /\ IsFiniteSet(U) /\ Cardinality(U) \in Nat
      /\ Cardinality(U) <= Cardinality(C)
  BY FS_Subset, FS_CardinalityType
<1>2. C \cap U = U
  OBVIOUS
<1>3. IsFiniteSet(C \ U) /\ Cardinality(C \ U) = Cardinality(C) - Cardinality(U)
  BY <1>2, FS_Difference
<1>4. Cardinality(D) <= Cardinality(C \ U) /\ Cardinality(D) \in Nat
  BY <1>3, FS_Subset, FS_CardinalityType
<1>5. n - Cardinality(U) \in 0..255
  <2>1. \A c, u \in Nat : u <= c /\ c <= n => n - u \in 0..255
    OBVIOUS
  <2> QED
    BY <1>1, <2>1
<1>6. Minus8(n, Cardinality(U)) = n - Cardinality(U)
  BY <1>5 DEF Minus8
<1> QED
  BY <1>1, <1>3, <1>4, <1>6

(* check_pong and ping_server: whoever is counted out is dead, and whoever  *)
(* is one lost pong away from it is pinged.                                 *)
LEMMA BeatHeartbeat ==
  ASSUME IndInv, BeatInv, Timely, LIVENESS >= 2, UNCHANGED server,
         NEW i \in DOMAIN available_services, Heartbeat(i)
  PROVE  BeatInv'
<1>1. /\ i \in 1..Len(lb) /\ available_services[i] \in Registered
      /\ available_services[i] \in AvailableServices
  BY LenProperties DEF IndInv, TypeOK, BrokerTypeOK, Route, Tables, AvailableServices
<1>2. PICK s \in AvailableServices : s = available_services[i]
  BY <1>1
<1>3. /\ s \in Registered /\ s \in Service /\ services_db[s] \in service_record
      /\ GoodRecord(services_db[s]) /\ services_db[s].num_copies_reliable \in 0..255
  BY AvailableTypes
<1>4. PICK r \in service_record : r = services_db[s]
  BY <1>3
<1> DEFINE n == check_pong(r)
           U == Unreliable(r)
           m == [heartbeat |-> TRUE, seq_id |-> n.seq_id_ping,
                 client |-> NoClient, parameters |-> 0]
<1>5. /\ services_db' = [services_db EXCEPT ![s] = n]
      /\ DealerSend(i, m, n.num_copies_reliable)
      /\ UNCHANGED <<available_services, reg_req, reg_rep, outbox>>
  BY <1>2, <1>4 DEF Heartbeat, HeartbeatTimeout
<1>6. n.seq_id_ping \in Nat /\ n.num_copies_reliable \in Nat
  <2>1. r.num_copies_registered = r.num_copies_reliable
    BY <1>3, <1>4 DEF GoodRecord
  <2> QED
    BY <2>1, CheckPongType DEF service_record
<1>7. /\ \A id \in CopyId :
           /\ n.lost_pong[id] = IF id \in PongLost(r) THEN r.lost_pong[id] + 1
                                ELSE IF r.new_pong[id] THEN 0 ELSE r.lost_pong[id]
           /\ ~n.new_pong[id]
      /\ n.num_copies_reliable = Minus8(r.num_copies_reliable, Cardinality(U))
  BY CheckPongCounts
<1> HIDE DEF n
<1>8. m \in service_module /\ m.heartbeat
  BY <1>6 DEF service_module
<1> HIDE DEF m
<1>9. /\ Registered' = Registered /\ AvailableServices' = AvailableServices
      /\ \A t \in Registered : services_db'[t] = IF t = s THEN n ELSE services_db[t]
  BY <1>5 DEF Registered, AvailableServices, IndInv, TypeOK, BrokerTypeOK
<1>10. \A id \in CopyId : r.lost_pong[id] \in -1..LIVENESS
  BY DEF service_record
<1>11. \A x \in Copy : Quiet(x)'
  BY <1>5 DEF BeatInv, Quiet
<1>12. Fresh'
  BY <1>9 DEF BeatInv, Fresh
<1>13. \A x \in Copy : Pinged(x) => Pinged(x)'
  BY <1>5, <1>6, <1>8, SentBeats DEF IndInv
<1>14. ASSUME NEW id \in CopyId, Heeded(<<s, id>>)' PROVE id \in Counted(s) \ U
  <2> DEFINE k == <<s, id>>
  <2>1. k[1] = s /\ k[2] = id /\ services_db'[s] = n /\ ~n.new_pong[id]
    BY <1>3, <1>7, <1>9
  <2>2. Entitled(k) \/ n.lost_pong[id] < LIVENESS \/ outbox[k] # <<>>
    BY <1>5, <1>14, <2>1 DEF Heeded, Entitled
  <2>3. n.lost_pong[id] < LIVENESS => r.lost_pong[id] < LIVENESS \/ r.new_pong[id]
    BY <1>7 DEF PongLost
  <2>4. Heeded(k)
    BY <1>4, <2>1, <2>2, <2>3 DEF Heeded
  <2>5. ASSUME id \in U PROVE FALSE
    <3>1. ~server[k].up /\ outbox[k] = <<>>
      BY <1>2, <1>3, <1>4, <2>5, CountedOutDead
    <3>2. n.lost_pong[id] = LIVENESS
      BY <1>7, <2>5 DEF Unreliable
    <3>3. ~(n.lost_pong[id] < LIVENESS)
      BY <3>2, LivenessAssumption
    <3> QED
      BY <2>2, <3>1, <3>3 DEF Entitled
  <2> QED
    BY <2>4, <2>5 DEF Counted
<1>15. U \in SUBSET Counted(s)
  <2>1. ASSUME NEW id \in U PROVE id \in Counted(s)
    <3>1. id \in CopyId /\ services_db[s].lost_pong[id] < LIVENESS
      BY <1>4 DEF Unreliable, PongLost
    <3> QED
      BY <3>1 DEF Counted, Heeded
  <2> QED
    BY <2>1
<1> HIDE DEF U
<1>16. Cardinality(Counted(s)') <= n.num_copies_reliable
  <2>1. Counted(s)' \in SUBSET (Counted(s) \ U)
    BY <1>14 DEF Counted
  <2>2. Cardinality(Counted(s)) <= r.num_copies_reliable /\ r.num_copies_reliable \in 0..255
    BY <1>3, <1>4 DEF BeatInv, Enough
  <2>3. IsFiniteSet(Counted(s))
    BY CountedType
  <2>4. Cardinality(Counted(s)') <= Minus8(r.num_copies_reliable, Cardinality(U))
    BY <1>15, <2>1, <2>2, <2>3, Subtracted
  <2> QED
    BY <1>7, <2>4
<1>17. Enough'
  <2>1. ASSUME NEW t \in AvailableServices, t # s
        PROVE  Cardinality(Counted(t)') <= services_db'[t].num_copies_reliable
    <3>1. t \in Registered /\ t \in Service /\ services_db[t].num_copies_reliable \in 0..255
      BY AvailableTypes
    <3>2. services_db'[t] = services_db[t]
      BY <1>9, <2>1, <3>1
    <3>3. \A id \in CopyId : Heeded(<<t, id>>)' => Heeded(<<t, id>>)
      BY <1>5, <3>2 DEF Heeded, Entitled
    <3>4. Cardinality(Counted(t)') <= Cardinality(Counted(t))
      BY <3>1, <3>3, FewerCounted
    <3>5. Cardinality(Counted(t)) <= services_db[t].num_copies_reliable
      BY DEF BeatInv, Enough
    <3> QED
      BY <3>1, <3>2, <3>4, <3>5, CountedType
  <2>2. Cardinality(Counted(s)') <= services_db'[s].num_copies_reliable
    BY <1>3, <1>9, <1>16
  <2>3. \A t \in AvailableServices :
          Cardinality(Counted(t)') <= services_db'[t].num_copies_reliable
    BY <2>1, <2>2
  <2> QED
    BY <1>9, <2>3 DEF Enough
<1>18. ASSUME NEW x \in Copy PROVE Watched(x)'
  <2>1. CASE x[1] # s
    BY <1>5, <1>9, <1>13, <2>1 DEF BeatInv, Watched
  <2>2. CASE x[1] = s
    <3> SUFFICES ASSUME n.lost_pong[x[2]] = LIVENESS - 1, server[x].up
                 PROVE  server[x].reg_ok /\ Pinged(x)'
      BY <1>3, <1>9, <2>2 DEF Watched
    <3>1. x[2] \in CopyId /\ x = <<s, x[2]>>
      BY <2>2 DEF Copy
    <3>2. r.lost_pong[x[2]] = LIVENESS - 2
      BY <1>7, <1>10, <3>1, LivenessAssumption DEF PongLost
    <3>3. Joined(i, x)
      BY <1>2, <1>4, <3>1, <3>2 DEF Heartbeat, Settled
    <3>4. server[x].reg_ok /\ x \in Peers(i)
      BY <3>3 DEF Joined
    <3>5. PICK C \in SUBSET CopyId : C = Counted(s)'
      BY CountedType
    <3>6. \A k \in Peers(i) : k[2] \in C
      <4> SUFFICES ASSUME NEW k \in Peers(i) PROVE k[2] \in C
        OBVIOUS
      <4>1. k \in Copy /\ k[2] \in CopyId /\ k = <<s, k[2]>> /\ Entitled(k)
        BY <1>1, <1>2, PeersEntitled
      <4>2. Entitled(k)'
        BY <1>5, <4>1 DEF Entitled
      <4>3. Heeded(k)'
        BY <4>2 DEF Heeded
      <4>4. Heeded(<<s, k[2]>>)'
        BY <4>1, <4>3 DEF Heeded, Entitled
      <4> QED
        BY <3>5, <4>1, <4>4 DEF Counted
    <3>7. Len(lb[i].pipes) <= Cardinality(C)
      BY <1>1, <3>6, PeersFit
    <3>8. Len(lb[i].pipes) \in Nat \ {0}
      <4>1. lb[i] \in Socket
        BY <1>1 DEF IndInv, TypeOK, NetTypeOK
      <4>2. lb[i].pipes \in Seq(Copy)
        BY <4>1 DEF Socket
      <4>3. DOMAIN lb[i].pipes # {}
        BY <3>4 DEF Peers
      <4> QED
        BY <4>2, <4>3, LenProperties
    <3>9. Cardinality(C) <= n.num_copies_reliable /\ Cardinality(C) \in Nat
      BY <1>16, <3>5, CountedType
    <3>10. Len(lb[i].pipes) <= n.num_copies_reliable /\ n.num_copies_reliable # 0
      BY <1>6, <3>7, <3>8, <3>9
    <3>11. PICK h \in Nat \ {0} : h = Share(i, x, n.num_copies_reliable)
      BY <1>1, <1>6, <3>4, <3>10, EveryPeerDealt DEF IndInv
    <3>12. inbox'[x] = Dealt(inbox[x], m, h)
      BY <1>5, <3>10, <3>11 DEF DealerSend, Dealt
    <3>13. inbox[x] \in Seq(service_module)
      BY DEF IndInv, TypeOK, NetTypeOK
    <3>14. Beats(inbox'[x])
      BY <1>8, <3>12, <3>13, DealtBeats
    <3> QED
      BY <3>4, <3>14 DEF Pinged, Beats
  <2> QED
    BY <2>1, <2>2
<1> QED
  BY <1>11, <1>12, <1>17, <1>18 DEF BeatInv

(* Whoever is counted out by a step was not serving.                       *)
Justified ==
  \A k \in Copy :
    Serving(k) /\ k[1] \in Registered /\ services_db'[k[1]].lost_pong[k[2]] = LIVENESS
      => services_db[k[1]].lost_pong[k[2]] = LIVENESS

(* A round counts out no copy that is serving.                              *)
LEMMA RoundJustified ==
  ASSUME IndInv, BeatInv, Timely, NEW i \in DOMAIN available_services, Heartbeat(i)
  PROVE  Justified
<1>1. available_services[i] \in AvailableServices
  BY DEF AvailableServices
<1>2. PICK s \in AvailableServices : s = available_services[i]
  BY <1>1
<1>3. s \in Registered /\ s \in Service /\ services_db[s] \in service_record
  BY AvailableTypes
<1>4. PICK r \in service_record : r = services_db[s]
  BY <1>3
<1> DEFINE n == check_pong(r)
<1>5. services_db' = [services_db EXCEPT ![s] = n]
  BY <1>2, <1>4 DEF Heartbeat, HeartbeatTimeout
<1>6. \A id \in CopyId :
        n.lost_pong[id] = IF id \in PongLost(r) THEN r.lost_pong[id] + 1
                          ELSE IF r.new_pong[id] THEN 0 ELSE r.lost_pong[id]
  BY CheckPongCounts
<1> HIDE DEF n
<1>7. \A t \in Registered : services_db'[t] = IF t = s THEN n ELSE services_db[t]
  BY <1>5 DEF Registered, IndInv, TypeOK, BrokerTypeOK
<1> SUFFICES ASSUME NEW k \in Copy, Serving(k), k[1] \in Registered,
                    services_db'[k[1]].lost_pong[k[2]] = LIVENESS
             PROVE  services_db[k[1]].lost_pong[k[2]] = LIVENESS
  BY DEF Justified
<1>8. CASE k[1] # s
  BY <1>7, <1>8
<1>9. CASE k[1] = s
  <2>1. k[2] \in CopyId /\ k = <<s, k[2]>> /\ n.lost_pong[k[2]] = LIVENESS
    BY <1>7, <1>9 DEF Copy
  <2>2. k[2] \notin Unreliable(r)
    BY <1>2, <1>3, <1>4, <2>1, CountedOutDead DEF Serving
  <2>3. k[2] \notin PongLost(r)
    BY <1>6, <2>1, <2>2 DEF Unreliable
  <2>4. r.lost_pong[k[2]] = LIVENESS
    BY <1>6, <2>1, <2>3, LivenessAssumption
  <2> QED
    BY <1>4, <1>9, <2>4
<1> QED
  BY <1>8, <1>9

(* Every step keeps the invariant and counts out none but the dead.         *)
LEMMA NextBeat ==
  ASSUME IndInv, TiedInv, BeatInv, Timely, LIVENESS >= 2, [Next]_vars
  PROVE  BeatInv' /\ Justified
<1>1. SameLost => Justified
  BY DEF SameLost, Justified
<1>2. CASE BrokerStep /\ UNCHANGED <<server, client>>
  <2>1. ASSUME NEW k \in Copy, NEW live \in BOOLEAN,
               \/ GetFirstRegistration(k, live)
               \/ GetFurtherRegistration(k, live)
               \/ RefuseRegistration(k, live)
        PROVE  BeatInv' /\ SameLost
    BY <1>2, <2>1, BeatFirst, BeatFurther, BeatRefused
  <2>2. ASSUME NEW c \in Client, get_request(c) PROVE BeatInv' /\ SameLost
    BY <1>2, <2>2, BeatRequest
  <2>3. ASSUME NEW k \in Copy, get_response(k) PROVE BeatInv' /\ SameLost
    BY <1>2, <2>3, BeatResponse
  <2>4. ASSUME check_pending_requests PROVE BeatInv' /\ SameLost
    BY <1>2, <2>4, BeatPending
  <2>5. ASSUME NEW i \in DOMAIN available_services, Heartbeat(i) PROVE BeatInv' /\ Justified
    BY <1>2, <2>5, BeatHeartbeat, RoundJustified
  <2> QED
    BY <1>1, <1>2, <2>1, <2>2, <2>3, <2>4, <2>5 DEF BrokerStep, get_registration
<1>3. ASSUME UNCHANGED brokerVars PROVE SameLost
  BY <1>3 DEF brokerVars, SameLost
<1>4. CASE CopyStep /\ UNCHANGED <<brokerVars, client>>
  <2>1. PICK k \in Copy : ServerStep(k) \/ MissesPing(k) \/ Kill(k) \/ Revive(k)
    BY <1>4 DEF CopyStep
  <2>2. UNCHANGED brokerVars
    BY <1>4
  <2> QED
    BY <1>1, <1>3, <2>1, <2>2, BeatCopy
<1>5. ASSUME UNCHANGED <<brokerVars, server, inbox, outbox, reg_req, reg_rep>>
      PROVE  BeatInv' /\ SameLost
  <2>1. /\ UNCHANGED <<services_db, available_services>>
        /\ AvailableServices' = AvailableServices /\ Registered' = Registered
    BY <1>5 DEF brokerVars, AvailableServices, Registered
  <2>2. \A k \in Copy : BeatKept(k)
    BY <1>5, <2>1, BeatSame
  <2> QED
    BY <2>1, <2>2, BeatFrame
<1>6. CASE ClientStep /\ UNCHANGED <<brokerVars, server>>
  BY <1>1, <1>5, <1>6 DEF ClientStep, RequestService, ReceiveResponse, Leave
<1>7. CASE \E k \in Copy : \E i \in DOMAIN dealer : AttachTo(k, i)
  BY <1>1, <1>5, <1>7 DEF AttachTo
<1>8. CASE UNCHANGED vars
  BY <1>1, <1>5, <1>8 DEF vars, netVars
<1> QED
  BY <1>2, <1>4, <1>6, <1>7, <1>8 DEF Next

LEMMA InitBeat == Init => BeatInv
<1> SUFFICES ASSUME Init PROVE BeatInv
  OBVIOUS
<1>1. AvailableServices = {} /\ Registered = {}
  BY DEF Init, BrokerInit, AvailableServices, Registered
<1>2. \A k \in Copy : Quiet(k)
  BY DEF Init, NetInit, ServerInit, Started, Quiet
<1> QED
  BY <1>1, <1>2 DEF BeatInv, Enough, Fresh, Watched

(* For any number of services, clients and copies, with the timing that    *)
(* the intervals of the code are meant for: however often copies crash,    *)
(* are counted out and register again, ping_server() sends at least as     *)
(* many pings as the DEALER socket has peers, so that none is left out.    *)
THEOREM PingsReachAllCorrect ==
  ASSUME Timely, LIVENESS >= 2
  PROVE  Spec => []PingsReachAll
<1>1. Init => TiedInv
  BY DEF Init, NetInit, ServerInit, Started, TiedInv, Tied
<1>2. IndInv /\ TiedInv /\ [Next]_vars => TiedInv'
  BY NextTied
<1>3. IndInv /\ TiedInv /\ BeatInv /\ [Next]_vars => BeatInv'
  BY NextBeat
<1> QED
  BY <1>1, <1>2, <1>3, InitIndInv, NextIndInv, InitBeat, EnoughReach, PTL DEF Spec

(* Under the same timing check_pong() never counts out a copy that is      *)
(* connected and registered: a round of heartbeats that takes lost_pong to *)
(* LIVENESS takes it there for a dead process.                             *)
THEOREM NoFalseAlarmCorrect ==
  ASSUME Timely, LIVENESS >= 2
  PROVE  Spec => NoFalseAlarm
<1>1. Init => TiedInv
  BY DEF Init, NetInit, ServerInit, Started, TiedInv, Tied
<1>2. IndInv /\ TiedInv /\ [Next]_vars => TiedInv'
  BY NextTied
<1>3. IndInv /\ TiedInv /\ BeatInv /\ [Next]_vars => BeatInv' /\ Justified
  BY NextBeat
<1>4. Justified <=>
        \A k \in Copy :
          Serving(k) /\ k[1] \in Registered
            /\ services_db'[k[1]].lost_pong[k[2]] = LIVENESS
          => services_db[k[1]].lost_pong[k[2]] = LIVENESS
  BY DEF Justified
<1> QED
  BY <1>1, <1>2, <1>3, <1>4, InitIndInv, NextIndInv, InitBeat, PTL DEF Spec, NoFalseAlarm

-----------------------------------------------------------------------------
(* The refinement *)

(* A client that is in no call has no arguments.                           *)
IdleCalls ==
  \A c \in Client : client[c].status = "idle" =>
    client[c].service = SERVICE_NOT_FOUND /\ client[c].parameters = 0

(* What may be answered, in the words of RSF.                              *)
LEMMA SameAnswers ==
  ASSUME NEW s, NEW p
  PROVE  Abstract!Answers(s, p) =
           {Available(service_body(s, p)), Failure("NOT_AVAILABLE"), Failure("NOT_RELIABLE")}
BY DEF Abstract!Answers, Abstract!Available, Abstract!Failure, Abstract!service_body,
       Abstract!INCREMENT, Abstract!DECREMENT, Abstract!MULTIPLY2,
       Available, Failure, service_body, INCREMENT, DECREMENT, MULTIPLY2

(* Nobody has called yet.                                                  *)
LEMMA InitImplements == Init => Abstract!Init /\ IdleCalls
<1> SUFFICES ASSUME Init PROVE Abstract!Init /\ IdleCalls
  OBVIOUS
<1>1. \A c \in Client : CallOf(c) = Abstract!NoCall
  BY DEF Init, ClientInit, CallOf, Where, Abstract!NoCall, SERVICE_NOT_FOUND,
         Abstract!SERVICE_NOT_FOUND
<1>2. IdleCalls
  BY DEF Init, ClientInit, IdleCalls
<1>3. broker = "up"
  BY DEF Init, BrokerInit
<1> QED
  BY <1>1, <1>2, <1>3 DEF Abstract!Init

(* The first response in a queue is not changed by a later one.            *)
LEMMA AppendHead ==
  ASSUME NEW S, NEW q \in Seq(S), NEW m
  PROVE  /\ Append(q, m) # <<>>
         /\ q = <<>> => Head(Append(q, m)) = m
         /\ q # <<>> => Head(Append(q, m)) = Head(q)
<1> DEFINE T == S \cup {m}
<1>1. q \in Seq(T) /\ m \in T
  OBVIOUS
<1> HIDE DEF T
<1>2. /\ Append(q, m) \in Seq(T) /\ Len(Append(q, m)) = Len(q) + 1
      /\ \A x \in 1..Len(q) : Append(q, m)[x] = q[x]
      /\ Append(q, m)[Len(q) + 1] = m
  BY <1>1, AppendProperties
<1>3. Len(q) \in Nat /\ (q = <<>> <=> Len(q) = 0)
  BY <1>1, LenProperties, EmptySeq
<1>4. Append(q, m) # <<>> /\ Head(Append(q, m)) = Append(q, m)[1]
  BY <1>2, <1>3
<1>5. q # <<>> => Head(q) = q[1]
  BY <1>1
<1> QED
  BY <1>2, <1>3, <1>4, <1>5

(* No client sees anything but, perhaps, the broker go.                    *)
LEMMA Unseen ==
  ASSUME \A c \in Client : CallOf(c)' = CallOf(c), broker = "up" \/ UNCHANGED broker
  PROVE  [Abstract!Next]_Abstract!vars
<1>1. [c \in Client |-> CallOf(c)]' = [c \in Client |-> CallOf(c)]
  BY Zenon
<1>2. CASE broker = "up" /\ broker' # "up"
  <2>1. Abstract!Fail
    BY <1>1, <1>2 DEF Abstract!Fail
  <2> QED
    BY <2>1 DEF Abstract!Next
<1>3. CASE (broker' = "up") = (broker = "up")
  BY <1>1, <1>3 DEF Abstract!vars
<1> QED
  BY <1>2, <1>3

(* Only the call of c changes.                                             *)
LEMMA OneCall ==
  ASSUME NEW c \in Client, NEW v, CallOf(c)' = v,
         \A d \in Client \ {c} : CallOf(d)' = CallOf(d)
  PROVE  [d \in Client |-> CallOf(d)]' = [[d \in Client |-> CallOf(d)] EXCEPT ![c] = v]
OBVIOUS

(* What a client may be doing.                                             *)
LEMMA ClientStatus ==
  ASSUME TypeOK, NEW c \in Client
  PROVE  client[c].status \in {"idle", "waiting", "gone"}
<1>1. client[c] \in [status: {"idle", "waiting", "gone"},
                     service: Service \cup {SERVICE_NOT_FOUND},
                     parameters: Int, requests: Nat]
  BY DEF TypeOK, ClientTypeOK
<1> QED
  BY <1>1

(* The record of a call, and the same call answered.                       *)
ACall(status, s, p, a) == [status |-> status, service |-> s, parameters |-> p, answer |-> a]

WithAnswer(r, a) == [r EXCEPT !.status = "answered", !.answer = a]

LEMMA AnsweredRecord ==
  ASSUME NEW s, NEW p, NEW a, NEW b
  PROVE  WithAnswer(ACall("pending", s, p, a), b) = ACall("answered", s, p, b)
<1> DEFINE F == {"status", "service", "parameters", "answer"}
<1>1. PICK f : f = [[status |-> "pending", service |-> s, parameters |-> p, answer |-> a]
                      EXCEPT !.status = "answered", !.answer = b]
  OBVIOUS
<1>2. PICK g : g = [status |-> "answered", service |-> s, parameters |-> p, answer |-> b]
  OBVIOUS
<1>3. DOMAIN f = F /\ DOMAIN g = F
  BY <1>1, <1>2
<1>4. f.status = g.status /\ f.service = g.service /\ f.parameters = g.parameters
      /\ f.answer = g.answer
  BY <1>1, <1>2
<1>5. f = [x \in DOMAIN f |-> f[x]] /\ g = [x \in DOMAIN g |-> g[x]]
  BY <1>1, <1>2
<1>6. \A x \in F : f[x] = g[x]
  BY <1>4
<1> HIDE DEF F
<1>7. f = g
  BY <1>3, <1>5, <1>6, Zenon
<1> QED
  BY <1>1, <1>2, <1>7, Zenon DEF ACall, WithAnswer

(* The call of a client that leaves.                                       *)
LEMMA LeftRecord ==
  ASSUME NEW s, NEW p, NEW a
  PROVE  [ACall("idle", s, p, a) EXCEPT !.status = "gone"] = ACall("gone", s, p, a)
<1> DEFINE F == {"status", "service", "parameters", "answer"}
<1>1. PICK f : f = [ACall("idle", s, p, a) EXCEPT !.status = "gone"]
  OBVIOUS
<1>2. PICK g : g = ACall("gone", s, p, a)
  OBVIOUS
<1>3. DOMAIN f = F /\ DOMAIN g = F
  BY <1>1, <1>2 DEF ACall
<1>4. f.status = g.status /\ f.service = g.service /\ f.parameters = g.parameters
      /\ f.answer = g.answer
  BY <1>1, <1>2 DEF ACall
<1>5. f = [x \in DOMAIN f |-> f[x]] /\ g = [x \in DOMAIN g |-> g[x]]
  BY <1>1, <1>2 DEF ACall
<1>6. \A x \in F : f[x] = g[x]
  BY <1>4
<1> HIDE DEF F
<1>7. f = g
  BY <1>3, <1>5, <1>6, Zenon
<1> QED
  BY <1>1, <1>2, <1>7, Zenon

(* A response is sent: it answers the call of c, unless c is in none or    *)
(* has been answered already.                                              *)
LEMMA ResponseImplements ==
  ASSUME TypeOK, ReliableResult', UNCHANGED client, broker = "up",
         NEW c \in Client, NEW m,
         router_out' = [router_out EXCEPT ![c] = Append(router_out[c], m)]
  PROVE  [Abstract!Next]_Abstract!vars
<1>1. /\ router_out \in [Client -> Seq(response_module)]
      /\ router_out[c] \in Seq(response_module)
      /\ router_out'[c] = Append(router_out[c], m)
      /\ \A d \in Client \ {c} : router_out'[d] = router_out[d]
  BY DEF TypeOK, NetTypeOK
<1>2. \A d \in Client \ {c} : CallOf(d)' = CallOf(d)
  BY <1>1 DEF CallOf, Where
<1>3. /\ Append(router_out[c], m) # <<>>
      /\ router_out[c] = <<>> => Head(Append(router_out[c], m)) = m
      /\ router_out[c] # <<>> => Head(Append(router_out[c], m)) = Head(router_out[c])
  BY <1>1, AppendHead
<1>4. CASE ~(client[c].status = "waiting" /\ router_out[c] = <<>>)
  <2>1. CallOf(c)' = CallOf(c)
    <3>1. CASE client[c].status # "waiting"
      <4>1. Where(c) # "answered" /\ Where(c)' = Where(c)
        BY <3>1, ClientStatus DEF Where
      <4> QED
        BY <4>1 DEF CallOf
    <3>2. CASE client[c].status = "waiting" /\ router_out[c] # <<>>
      <4>1. Where(c) = "answered" /\ Where(c)' = "answered"
        BY <1>1, <1>3, <3>2 DEF Where
      <4>2. Head(router_out'[c]) = Head(router_out[c])
        BY <1>1, <1>3, <3>2
      <4> QED
        BY <4>1, <4>2 DEF CallOf
    <3> QED
      BY <1>4, <3>1, <3>2
  <2>2. \A d \in Client : CallOf(d)' = CallOf(d)
    BY <1>2, <2>1
  <2> QED
    BY <2>2, Unseen
<1>5. CASE client[c].status = "waiting" /\ router_out[c] = <<>>
  <2>1. PICK s, p : s = client[c].service /\ p = client[c].parameters
    OBVIOUS
  <2> DEFINE old == ACall("pending", s, p, {})
             new == ACall("answered", s, p, {m})
  <2>2. CallOf(c) = old
    BY <1>5, <2>1 DEF CallOf, Where, ACall
  <2>3. CallOf(c)' = new
    BY <1>1, <1>3, <1>5, <2>1 DEF CallOf, Where, ACall
  <2>4. m \in Abstract!Answers(s, p)
    BY <1>1, <1>3, <1>5, <2>1, SameAnswers DEF ReliableResult
  <2>5. WithAnswer(old, {m}) = new
    BY AnsweredRecord
  <2>6. old.status = "pending" /\ old.service = s /\ old.parameters = p
    BY DEF ACall
  <2> HIDE DEF old, new
  <2>7. [d \in Client |-> CallOf(d)]' = [[d \in Client |-> CallOf(d)] EXCEPT ![c] = new]
    BY <1>2, <2>3, OneCall
  <2>8. [d \in Client |-> CallOf(d)][c] = old
    BY <2>2
  <2>9. (broker' = "up") \in BOOLEAN
    OBVIOUS
  <2> DEFINE A == [d \in Client |-> CallOf(d)]
  <2>10. [A EXCEPT ![c].status = "answered", ![c].answer = {m}] = [A EXCEPT ![c] = new]
    <3>1. [A EXCEPT ![c].status = "answered", ![c].answer = {m}]
            = [A EXCEPT ![c] = [A[c] EXCEPT !.status = "answered", !.answer = {m}]]
      <4> HIDE DEF A
      <4> QED
        OBVIOUS
    <3> QED
      BY <2>5, <2>8, <3>1, Zenon DEF WithAnswer
  <2>11. Abstract!Answer(c)
    BY <2>4, <2>6, <2>7, <2>8, <2>9, <2>10 DEF Abstract!Answer
  <2> QED
    BY <2>11 DEF Abstract!Next
<1> QED
  BY <1>4, <1>5

(* A handler of the broker sends one response at most.                     *)
LEMMA BrokerImplements ==
  ASSUME TypeOK, ReliableResult', BrokerStep, UNCHANGED client
  PROVE  [Abstract!Next]_Abstract!vars
<1>1. broker = "up"
  BY DEF BrokerStep, get_registration, GetFirstRegistration, GetFurtherRegistration,
         RefuseRegistration, TakeRegistration, get_request, GetRequestNotAvailable, GetRequest,
         GetRequestUndefined, TakeRequest, get_response, GetPong, GetDuplicate, GetResult,
         TakeReply, Heartbeat, HeartbeatTimeout, check_pending_requests, CheckPendingRequest
<1>2. UNCHANGED router_out \/ \E c, m : Respond(c, m)
  BY DEF BrokerStep, get_registration, GetFirstRegistration, GetFurtherRegistration,
         RefuseRegistration, TakeRegistration, get_request, GetRequestNotAvailable, GetRequest,
         GetRequestUndefined, get_response, GetPong, GetDuplicate, GetResult,
         Heartbeat, HeartbeatTimeout, check_pending_requests, CheckPendingRequest
<1>3. CASE UNCHANGED router_out
  <2>1. \A c \in Client : CallOf(c)' = CallOf(c)
    BY <1>3 DEF CallOf, Where
  <2> QED
    BY <1>1, <2>1, Unseen
<1>4. ASSUME NEW c, NEW m, Respond(c, m), router_out' # router_out
      PROVE  [Abstract!Next]_Abstract!vars
  <2>1. c \in connected /\ router_out' = [router_out EXCEPT ![c] = Append(router_out[c], m)]
    BY <1>4 DEF Respond
  <2>2. c \in Client
    BY <2>1 DEF TypeOK, NetTypeOK
  <2> QED
    BY <1>1, <2>1, <2>2, ResponseImplements
<1> QED
  BY <1>2, <1>3, <1>4

(* A client calls, gets its answer, or leaves.                             *)
LEMMA ClientImplements ==
  ASSUME TypeOK, IdleCalls, ClientStep, UNCHANGED brokerVars
  PROVE  [Abstract!Next]_Abstract!vars /\ IdleCalls'
<1>1. /\ broker' = broker /\ (broker' = "up") = (broker = "up")
      /\ client \in [Client -> [status: {"idle", "waiting", "gone"},
                                service: Service \cup {SERVICE_NOT_FOUND},
                                parameters: Int, requests: Nat]]
      /\ router_out \in [Client -> Seq(response_module)]
  BY DEF brokerVars, TypeOK, ClientTypeOK, NetTypeOK
<1>2. PICK c \in Client :
        \/ \E s \in Service, p \in Parameters[c] : RequestService(c, s, p)
        \/ ReceiveResponse(c)
        \/ Leave(c)
  BY DEF ClientStep
<1>3. \A d \in Client \ {c} : client'[d] = client[d] /\ router_out'[d] = router_out[d]
  BY <1>1, <1>2 DEF RequestService, ReceiveResponse, Leave
<1>4. \A d \in Client \ {c} : CallOf(d)' = CallOf(d)
  BY <1>3 DEF CallOf, Where
<1>5. \A d \in Client \ {c} : client'[d].status = "idle" =>
        client'[d].service = SERVICE_NOT_FOUND /\ client'[d].parameters = 0
  BY <1>3 DEF IdleCalls
<1>6. Abstract!NoCall = ACall("idle", SERVICE_NOT_FOUND, 0, {})
  BY DEF Abstract!NoCall, ACall, SERVICE_NOT_FOUND, Abstract!SERVICE_NOT_FOUND
<1>7. \A d \in Client : [e \in Client |-> CallOf(e)][d] = CallOf(d)
  OBVIOUS
<1>8. ASSUME NEW s \in Service, NEW p \in Parameters[c], RequestService(c, s, p)
      PROVE  [Abstract!Next]_Abstract!vars /\ IdleCalls'
  <2>1. /\ client[c].status = "idle" /\ client'[c].status = "waiting"
        /\ client'[c].service = s /\ client'[c].parameters = p /\ router_out'[c] = <<>>
    BY <1>1, <1>8 DEF RequestService
  <2>2. CallOf(c) = Abstract!NoCall
    BY <1>6, <2>1 DEF IdleCalls, CallOf, Where, ACall
  <2>3. CallOf(c)' = ACall("pending", s, p, {})
    BY <2>1 DEF CallOf, Where, ACall
  <2>4. p \in UNION {Parameters[d] : d \in Client}
    BY <1>8
  <2>5. [d \in Client |-> CallOf(d)]'
          = [[d \in Client |-> CallOf(d)] EXCEPT ![c] = ACall("pending", s, p, {})]
    BY <1>4, <2>3, OneCall
  <2>6. Abstract!Request(c, s, p)
    BY <1>1, <1>7, <2>2, <2>5 DEF Abstract!Request, ACall
  <2>7. IdleCalls'
    BY <1>5, <2>1 DEF IdleCalls
  <2> QED
    BY <2>4, <2>6, <2>7 DEF Abstract!Next
<1>9. ASSUME ReceiveResponse(c)
      PROVE  [Abstract!Next]_Abstract!vars /\ IdleCalls'
  <2>1. /\ client[c].status = "waiting" /\ router_out[c] # <<>>
        /\ client'[c].status = "idle" /\ client'[c].service = SERVICE_NOT_FOUND
        /\ client'[c].parameters = 0
    BY <1>1, <1>9 DEF ReceiveResponse
  <2>2. CallOf(c).status = "answered"
    BY <2>1 DEF CallOf, Where
  <2>3. CallOf(c)' = Abstract!NoCall
    BY <1>6, <2>1 DEF CallOf, Where, ACall
  <2>4. [d \in Client |-> CallOf(d)]'
          = [[d \in Client |-> CallOf(d)] EXCEPT ![c] = Abstract!NoCall]
    BY <1>4, <2>3, OneCall
  <2>5. Abstract!Return(c)
    BY <1>1, <1>7, <2>2, <2>4 DEF Abstract!Return
  <2>6. IdleCalls'
    BY <1>5, <2>1 DEF IdleCalls
  <2> QED
    BY <2>5, <2>6 DEF Abstract!Next
<1>10. ASSUME Leave(c)
       PROVE  [Abstract!Next]_Abstract!vars /\ IdleCalls'
  <2>1. client[c].status # "gone" /\ client'[c].status = "gone"
    BY <1>1, <1>10 DEF Leave
  <2>2. CallOf(c).status # "gone"
    BY <2>1 DEF CallOf, Where
  <2>3. CallOf(c)' = ACall("gone", SERVICE_NOT_FOUND, 0, {})
    BY <2>1 DEF CallOf, Where, ACall
  <2>4. [Abstract!NoCall EXCEPT !.status = "gone"] = ACall("gone", SERVICE_NOT_FOUND, 0, {})
    BY <1>6, LeftRecord
  <2>5. [d \in Client |-> CallOf(d)]'
          = [[d \in Client |-> CallOf(d)] EXCEPT ![c] = ACall("gone", SERVICE_NOT_FOUND, 0, {})]
    BY <1>4, <2>3, OneCall
  <2>6. Abstract!Leave(c)
    BY <1>1, <1>7, <2>2, <2>4, <2>5 DEF Abstract!Leave
  <2>7. IdleCalls'
    BY <1>5, <2>1 DEF IdleCalls
  <2> QED
    BY <2>6, <2>7 DEF Abstract!Next
<1> QED
  BY <1>2, <1>8, <1>9, <1>10

(* Every step of broker, copies and clients is one of the abstract service *)
(* or invisible to the clients, if no response is wrong.                   *)
LEMMA NextImplements ==
  ASSUME TypeOK, IdleCalls, ReliableResult', [Next]_vars
  PROVE  [Abstract!Next]_Abstract!vars /\ IdleCalls'
<1>1. CASE BrokerStep /\ UNCHANGED <<server, client>>
  <2>1. UNCHANGED client
    BY <1>1
  <2>2. IdleCalls'
    BY <2>1 DEF IdleCalls
  <2> QED
    BY <1>1, <2>1, <2>2, BrokerImplements
<1>2. ASSUME UNCHANGED <<client, router_out, brokerVars>>
      PROVE  [Abstract!Next]_Abstract!vars /\ IdleCalls'
  <2>1. UNCHANGED <<client, router_out, broker>>
    BY <1>2 DEF brokerVars
  <2>2. \A c \in Client : CallOf(c)' = CallOf(c)
    BY <2>1 DEF CallOf, Where
  <2>3. IdleCalls'
    BY <2>1 DEF IdleCalls
  <2> QED
    BY <2>1, <2>2, <2>3, Unseen
<1>3. CASE CopyStep /\ UNCHANGED <<brokerVars, client>>
  <2>1. UNCHANGED router_out
    BY <1>3 DEF CopyStep, ServerStep, PongBroker, CreateThread, DuplicateRequest,
         receive_request, Reply, Answer, TaskDone, OrphanAnswers, OrphanThrows, Dies,
         SendRegistration, RegistrationOk, RegistrationError, MissesPing, PingTimeout, Kill,
         Revive, Restart, Relaunch, netVars
  <2> QED
    BY <1>2, <1>3, <2>1
<1>4. CASE ClientStep /\ UNCHANGED <<brokerVars, server>>
  BY <1>4, ClientImplements
<1>5. CASE \E k \in Copy : \E i \in DOMAIN dealer : AttachTo(k, i)
  BY <1>2, <1>5 DEF AttachTo
<1>6. CASE UNCHANGED vars
  BY <1>2, <1>6 DEF vars, netVars
<1> QED
  BY <1>1, <1>3, <1>4, <1>5, <1>6 DEF Next

(* The framework implements ReliableService wherever it gives no wrong     *)
(* result: whatever crashes, is late or leaves, its clients see calls that *)
(* are answered once each.                                                 *)
THEOREM ReliableImplements == Spec /\ []ReliableResult => Implements
<1>1. IndInv => TypeOK
  BY DEF IndInv
<1>2. TypeOK /\ IdleCalls /\ ReliableResult' /\ [Next]_vars
        => [Abstract!Next]_Abstract!vars /\ IdleCalls'
  BY NextImplements
<1> QED
  BY <1>1, <1>2, InitImplements, InitIndInv, NextIndInv, PTL DEF Spec, Implements, Abstract!Spec

(* Hence NMR-fold execution with a minority of faulty copies looks like    *)
(* one reliable service, for any number of services, clients and copies,   *)
(* with the timing that the intervals of the code are meant for.           *)
THEOREM TimelyImplements ==
  ASSUME Timely, MinorityFaulty, MaxRequests \in 0..1
  PROVE  Spec => Implements
BY TimelyReliable, ReliableImplements, PTL
=============================================================================
