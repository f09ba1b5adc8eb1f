--------------------------- MODULE ServiceDatabase --------------------------
(***************************************************************************)
(* class ServiceDatabase: the table of registered services that the broker *)
(* keeps.  The table is a function from the registered services to their   *)
(* records; its operations are operators on records here and the handlers  *)
(* of RSF_Broker apply them to the variable services_db.                   *)
(*                                                                         *)
(* The vector request_records is the set of its elements: an element is    *)
(* labelled with the sequence number that get_request_id has just handed   *)
(* out, so that the order of the labels is the order of the vector.  The   *)
(* constant string owner and the unused field service of a request are     *)
(* left out.                                                               *)
(***************************************************************************)
EXTENDS Voter

(* struct request_record_t.  The deadline is abstracted to whether the     *)
(* clock has already been seen past it.                                    *)
request_record_t ==
  [seq: Nat, client_id: Client, results: Seq(Int), expired: BOOLEAN]

NewRequest(seq, client_id) ==
  [seq |-> seq, client_id |-> client_id, results |-> <<>>, expired |-> FALSE]

(* struct service_record                                                   *)
service_record ==
  [num_copies_registered: 0..255, num_copies_reliable: 0..255,
   dealer_socket: Nat, dealer_skt_index: Nat,
   seq_id_ping: Nat \cup {-1}, seq_id_request: Nat,
   request_records: SUBSET request_record_t,
   new_pong: [CopyId -> BOOLEAN], lost_pong: [CopyId -> -1..LIVENESS]]

-----------------------------------------------------------------------------
(* Registrations *)

(* The record push_registration creates for the first copy of a service.   *)
(* seq_id_ping starts at (uint32_t) -1, which the first ++ takes to 0.     *)
FirstCopy(port, index) ==
  [num_copies_registered |-> 1, num_copies_reliable |-> 1,
   dealer_socket |-> port, dealer_skt_index |-> index,
   seq_id_ping |-> -1, seq_id_request |-> 0,
   request_records |-> {},
   new_pong |-> [id \in CopyId |-> FALSE],
   lost_pong |-> [id \in CopyId |-> -1]]

FurtherCopy(record) ==
  [record EXCEPT !.num_copies_registered = @ + 1,
                 !.num_copies_reliable = @ + 1]

-----------------------------------------------------------------------------
(* Requests *)

Matching(records, client_id) == {r \in records : r.client_id = client_id}

push_request_Forgets(record, client_id) == record         \* mutant

(* get_request_id has already advanced seq_id_request.                     *)
push_request(record, client_id) ==
  [record EXCEPT !.request_records =
     @ \cup {NewRequest(record.seq_id_request - 1, client_id)}]

(* The erasing loop goes on at j + 1 after an erase, so the record behind  *)
(* an erased one is never looked at: of a run of adjacent matching records *)
(* the 1st, the 3rd, ... are erased.                                       *)
Erased(records, client_id) ==
  LET M == Matching(records, client_id)
      RunBefore(r) ==
        {m \in M : m.seq < r.seq /\
           \A n \in records : m.seq < n.seq /\ n.seq < r.seq => n \in M}
  IN  {r \in M : Cardinality(RunBefore(r)) % 2 = 0}

delete_request_Nothing(records, client_id) == records     \* mutant

delete_request(records, client_id) == records \ Erased(records, client_id)

push_result_AnyClient(records, client_id, result) ==      \* mutant
  {[r EXCEPT !.results = Append(@, result)] : r \in records}

(* push_result appends the value to every record of the client ...         *)
push_result(records, client_id, result) ==
  {IF r.client_id = client_id
   THEN [r EXCEPT !.results = Append(@, result)] ELSE r : r \in records}

(* ... and get_result returns the results of the last one; an empty vector *)
(* when there is none.                                                     *)
get_result(records, client_id) ==
  LET M == Matching(records, client_id)
  IN  IF M = {} THEN <<>>
      ELSE (CHOOSE r \in M : \A m \in M : m.seq <= r.seq).results

-----------------------------------------------------------------------------
(* Heartbeats *)

register_pong(record, id_copy) == [record EXCEPT !.new_pong[id_copy] = TRUE]

PongLost_Unbounded(record) ==      \* mutant: goes on counting at LIVENESS
  {id \in CopyId : ~record.new_pong[id]}

PongLost_Always(record) ==         \* mutant: a pong does not count
  {id \in CopyId : record.lost_pong[id] < LIVENESS}

PongLost(record) ==
  {id \in CopyId : ~record.new_pong[id] /\ record.lost_pong[id] < LIVENESS}

Unreliable_AtOnce(record) == PongLost(record)   \* mutant: one lost pong is enough

Unreliable(record) ==
  {id \in PongLost(record) : record.lost_pong[id] + 1 = LIVENESS}

(* uint8_t subtraction, which wraps around below 0.                        *)
Minus8(n, m) == (n - m) % 256

(* A copy whose count of lost pongs has reached LIVENESS is not counted    *)
(* again until a pong of it has been seen; a pong restarts the count but   *)
(* gives nothing back to num_copies_reliable and num_copies_registered.    *)
check_pong(record) ==
  [record EXCEPT
     !.lost_pong = [id \in CopyId |->
                      IF id \in PongLost(record) THEN @[id] + 1
                      ELSE IF record.new_pong[id] THEN 0 ELSE @[id]],
     !.new_pong = [id \in CopyId |-> FALSE],
     !.num_copies_reliable = Minus8(@, Cardinality(Unreliable(record))),
     !.num_copies_registered = Minus8(@, Cardinality(Unreliable(record))),
     !.seq_id_ping = @ + 1]
=============================================================================
