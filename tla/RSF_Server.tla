----------------------------- MODULE RSF_Server -----------------------------
(***************************************************************************)
(* class RSF_Server, class Registrator and register_service: one process   *)
(* per copy of a service.  The main thread loops in step(); each accepted  *)
(* request is served by a detached thread of its own (task), which answers *)
(* on the REP socket of the main thread.                                   *)
(*                                                                         *)
(* Left out: ping_id, which only reaches the log, and the ping of the      *)
(* health checker, which the loop answers without touching its state.      *)
(***************************************************************************)
EXTENDS ZMQ

CONSTANTS
  Mortal,      \* copies whose process may be killed and restarted
  Faulty,      \* copies that may compute a wrong value
  WrongValue   \* the wrong value

ASSUME FaultAssumption == Mortal \subseteq Copy /\ Faulty \subseteq Copy /\ WrongValue \in Int

VARIABLE server   \* server[k]: the process of copy k

(* busy: the REP socket owes the answer to a request that a thread works   *)
(* on; client and parameters are those of that request.  orphans:          *)
(* parameters of threads whose socket has been deleted under them.         *)
(* broker_port = 0: no REP socket yet.                                     *)
Process ==
  [up: BOOLEAN, reg_ok: BOOLEAN, send_reg: BOOLEAN, broker_port: Nat,
   request_id: Nat, ping_loss: 0..LIVENESS, busy: BOOLEAN,
   client: Client \cup {NoClient}, parameters: Int, orphans: SUBSET Int]

ServerTypeOK == server \in [Copy -> Process]

(* The state the constructor and the head of step() leave.                 *)
Started ==
  [up |-> TRUE, reg_ok |-> FALSE, send_reg |-> FALSE, broker_port |-> 0,
   request_id |-> 0, ping_loss |-> 0, busy |-> FALSE, client |-> NoClient,
   parameters |-> 0, orphans |-> {}]

ServerInit == server = [k \in Copy |-> Started]

Idle(s) == [s EXCEPT !.busy = FALSE, !.client = NoClient, !.parameters = 0]

-----------------------------------------------------------------------------
(* The process is gone, with its sockets.  Answers it had not yet put on   *)
(* the wire are lost; a registration it had sent is still delivered.       *)
Dies(k) ==
  /\ server' = [server EXCEPT ![k] = [Started EXCEPT !.up = FALSE]]
  /\ inbox' = [inbox EXCEPT ![k] = <<>>]
  /\ \E n \in 0..Len(outbox[k]) :
        outbox' = [outbox EXCEPT ![k] = SubSeq(@, 1, n)]
  /\ lb' = Detached(k)
  /\ reg_req' = (reg_req \ {<<k, TRUE>>}) \cup
                {<<k, FALSE>> : r \in reg_req \cap {<<k, TRUE>>}}
  /\ reg_rep' = [reg_rep EXCEPT ![k] = NoReply]
  /\ UNCHANGED <<connected, router_in, router_out>>

Kill(k) == k \in Mortal /\ server[k].up /\ Dies(k)

(* A new process for the copy (HealthCheckerServer::restart_process).      *)
Relaunch(k) ==
  /\ ~server[k].up
  /\ server' = [server EXCEPT ![k] = Started]
  /\ UNCHANGED netVars

Restart(k) == k \in Mortal /\ Relaunch(k)

-----------------------------------------------------------------------------
(* step(): a message on the REP socket.  While a thread owes an answer the *)
(* socket is not readable.                                                 *)
Readable(k) ==
  server[k].up /\ server[k].reg_ok /\ ~server[k].busy /\ inbox[k] # <<>>

receive_request(k) ==
  /\ Readable(k)
  /\ inbox' = [inbox EXCEPT ![k] = Tail(@)]

Reply(k, reply) == outbox' = [outbox EXCEPT ![k] = Append(@, reply)]

PongBroker(k) ==
  /\ receive_request(k)
  /\ Head(inbox[k]).heartbeat
  /\ Reply(k, [heartbeat |-> TRUE, duplicated |-> FALSE, result |-> 0,
               client |-> Head(inbox[k]).client])
  /\ UNCHANGED <<server, connected, router_in, router_out, reg_req, reg_rep, lb>>

Expected_Any(k) == Head(inbox[k]).seq_id      \* mutant: duplicates are served

(* The first request fixes the sequence number to expect; request_id = 0   *)
(* stands for "none yet", also after sequence number 0.                    *)
Expected(k) ==
  IF server[k].request_id = 0 THEN Head(inbox[k]).seq_id ELSE server[k].request_id

CreateThread(k) ==
  /\ receive_request(k)
  /\ ~Head(inbox[k]).heartbeat
  /\ Head(inbox[k]).seq_id = Expected(k)
  /\ server' = [server EXCEPT ![k] =
                  [@ EXCEPT !.request_id = Expected(k) + 1, !.busy = TRUE,
                            !.client = Head(inbox[k]).client,
                            !.parameters = Head(inbox[k]).parameters]]
  /\ UNCHANGED <<connected, router_in, router_out, reg_req, reg_rep, lb, outbox>>

DuplicateRequest(k) ==
  /\ receive_request(k)
  /\ ~Head(inbox[k]).heartbeat
  /\ Head(inbox[k]).seq_id # Expected(k)
  /\ Reply(k, [heartbeat |-> FALSE, duplicated |-> TRUE, result |-> 0,
               client |-> Head(inbox[k]).client])
  /\ UNCHANGED <<server, connected, router_in, router_out, reg_req, reg_rep, lb>>

-----------------------------------------------------------------------------
(* task(): the thread answers in the envelope of the request.              *)
Result(k, p) ==
  {service_body(k[1], p)} \cup (IF k \in Faulty THEN {WrongValue} ELSE {})

Answer(k, v) ==
  Reply(k, [heartbeat |-> FALSE, duplicated |-> FALSE, result |-> v,
            client |-> server[k].client])

TaskDone(k) ==
  /\ server[k].up /\ server[k].busy
  /\ \E v \in Result(k, server[k].parameters) : Answer(k, v)
  /\ server' = [server EXCEPT ![k] = Idle(@)]
  /\ UNCHANGED <<connected, router_in, router_out, reg_req, reg_rep, lb, inbox>>

(* A thread that answers on the socket pointer it was given after step()   *)
(* has deleted that socket.  The memory may by then hold the new socket:   *)
(* if that one owes an answer the value goes out as this answer, and the   *)
(* thread that was to give it finds nothing to answer.  Otherwise send     *)
(* throws in a thread nobody joins, which ends the process.                *)
OrphanAnswers(k) ==
  /\ server[k].up /\ server[k].busy
  /\ \E p \in server[k].orphans :
       /\ \E v \in Result(k, p) : Answer(k, v)
       /\ server' = [server EXCEPT ![k] =
                       [Idle(server[k]) EXCEPT !.orphans = (@ \ {p}) \cup {server[k].parameters}]]
  /\ UNCHANGED <<connected, router_in, router_out, reg_req, reg_rep, lb, inbox>>

OrphanThrows(k) == server[k].up /\ server[k].orphans # {} /\ Dies(k)

-----------------------------------------------------------------------------
(* register_service(): one registration is sent and then awaited, over as  *)
(* many receive timeouts as it takes.                                      *)
SendRegistration(k) ==
  /\ server[k].up /\ ~server[k].reg_ok /\ ~server[k].send_reg
  /\ server' = [server EXCEPT ![k].send_reg = TRUE]
  /\ reg_req' = reg_req \cup {<<k, TRUE>>}
  /\ UNCHANGED <<connected, router_in, router_out, reg_rep, lb, inbox, outbox>>

(* step(): the port has arrived.  The old REP socket is deleted with what  *)
(* it has queued (sent answers still go out) and a new one connects;       *)
(* request_id keeps its value.                                             *)
RegistrationOk(k) ==
  /\ server[k].up /\ server[k].send_reg
  /\ reg_rep[k] \notin {NoReply, REG_FAIL}
  /\ server' = [server EXCEPT ![k] =
       [Idle(server[k]) EXCEPT !.reg_ok = TRUE, !.send_reg = FALSE, !.ping_loss = 0,
                       !.broker_port = reg_rep[k],
                       !.orphans = IF server[k].busy
                                   THEN @ \cup {server[k].parameters} ELSE @]]
  /\ reg_rep' = [reg_rep EXCEPT ![k] = NoReply]
  /\ inbox' = [inbox EXCEPT ![k] = <<>>]
  /\ lb' = Detached(k)
  /\ UNCHANGED <<connected, router_in, router_out, reg_req, outbox>>

RegistrationError(k) ==
  /\ server[k].up /\ server[k].send_reg
  /\ reg_rep[k] = REG_FAIL
  /\ Dies(k)

PingTimeout_Patient(k) ==      \* mutant: the copy never gives its broker up
  /\ server[k].up /\ server[k].reg_ok /\ server[k].ping_loss < LIVENESS
  /\ server' = [server EXCEPT ![k].ping_loss = @ + 1]
  /\ UNCHANGED netVars

(* No message for HEARTBEAT_INTERVAL + WCDPING.  Only a registration       *)
(* resets ping_loss.                                                       *)
PingTimeout(k) ==
  /\ server[k].up /\ server[k].reg_ok
  /\ server' = [server EXCEPT ![k] =
                  [server[k] EXCEPT !.ping_loss = @ + 1,
                                    !.reg_ok = server[k].ping_loss + 1 # LIVENESS]]
  /\ UNCHANGED netVars

-----------------------------------------------------------------------------
ServerStep(k) ==
  \/ PongBroker(k)
  \/ CreateThread(k)
  \/ DuplicateRequest(k)
  \/ TaskDone(k)
  \/ OrphanAnswers(k)
  \/ OrphanThrows(k)
  \/ SendRegistration(k)
  \/ RegistrationOk(k)
  \/ RegistrationError(k)
=============================================================================
