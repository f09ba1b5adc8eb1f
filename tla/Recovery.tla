------------------------------ MODULE Recovery ------------------------------
(***************************************************************************)
(* The framework over crashes of the broker.  Its health checker replaces  *)
(* a broker that has ended, by itself or killed, by a new one with empty   *)
(* tables.  Nothing tells copies and clients: ZeroMQ reconnects their      *)
(* sockets, copies find out by missing pings and register again, and a     *)
(* client goes on waiting.                                                 *)
(*                                                                         *)
(* With several services, a new broker may give the port that a copy       *)
(* reconnects to to another service, whose DEALER socket then has a        *)
(* stranger for a peer.  What is promised over a crash is therefore        *)
(* promised for one service.                                               *)
(***************************************************************************)
EXTENDS RSF

CONSTANT MaxCrashes    \* bound: ends of the broker

ASSUME CrashAssumption == MaxCrashes \in Nat

OneService == Cardinality(Service) = 1

VARIABLES
  crashes,   \* how often the broker has ended
  lost       \* copies whose registration, or its answer, went down with a broker

recoveryVars == <<vars, crashes, lost>>

RecoveryInit == Init /\ crashes = 0 /\ lost = {}

-----------------------------------------------------------------------------
(* The identities the ROUTER socket has given to its clients mean nothing  *)
(* to the next broker.                                                     *)
Anonymous(messages) == [i \in DOMAIN messages |-> [messages[i] EXCEPT !.client = NoClient]]

(* Every way to cut the queues of the copies.                              *)
Cuts(queues) ==
  {n \in [Copy -> UNION {0..Len(queues[k]) : k \in Copy}] :
     \A k \in Copy : n[k] <= Len(queues[k])}

(* What the constructor starts from: an empty table, no DEALER sockets,    *)
(* ports from the start again.                                             *)
Forgets ==
  /\ services_db' = [s \in {} |-> FirstCopy(0, 0)]
  /\ next_dealer_skt_index' = 0
  /\ available_dealer_port' = DEALER_START_PORT
  /\ available_services' = <<>>
  /\ dealer' = <<>>

(* The end of the broker process closes its sockets.  Of what is on its    *)
(* way, a part has reached the broker or waits in its sockets and is lost; *)
(* what the sender has not put on the wire yet, or the receiver has        *)
(* already got, is kept.                                                   *)
BrokerDies ==
  /\ broker # "killed"
  /\ crashes < MaxCrashes
  /\ crashes' = crashes + 1
  /\ broker' = "killed"
  /\ lb' = <<>>
  /\ Forgets
  /\ \E kept \in SUBSET Client : router_in' =
       [c \in Client |-> IF c \in kept THEN router_in[c] ELSE <<>>]
  /\ \E kept \in SUBSET Client : router_out' =
       [c \in Client |-> IF c \in kept THEN router_out[c] ELSE <<>>]
  /\ \E req \in SUBSET {r \in reg_req : r[2]}, rep \in SUBSET Copy :
       /\ reg_req' = req
       /\ reg_rep' = [k \in Copy |-> IF k \in rep THEN reg_rep[k] ELSE NoReply]
       /\ lost' = lost \cup {k \in Copy : \/ <<k, TRUE>> \in reg_req \ req
                                          \/ reg_rep[k] # NoReply /\ k \notin rep}
  /\ \E n \in Cuts(inbox) :
       inbox' = [k \in Copy |-> Anonymous(SubSeq(inbox[k], 1, n[k]))]
  /\ \E n \in Cuts(outbox) :
       outbox' = [k \in Copy |-> Anonymous(SubSeq(outbox[k], n[k] + 1, Len(outbox[k])))]
  /\ server' = [k \in Copy |-> [server[k] EXCEPT !.client = NoClient]]
  /\ UNCHANGED <<connected, client>>

(* restart_process() of the broker's health checker.                       *)
RestartBroker ==
  /\ broker = "killed"
  /\ broker' = "up"
  /\ UNCHANGED <<services_db, next_dealer_skt_index, available_dealer_port,
                 available_services, dealer, netVars, server, client, crashes, lost>>

(* A copy that has ended for whatever reason is replaced by its checker.   *)
RelaunchCopy(k) == Relaunch(k) /\ UNCHANGED <<brokerVars, client>>

(* lost is about the registration a copy still waits for.                  *)
Ordinary(A) ==
  /\ A
  /\ lost' = {k \in lost : server'[k].send_reg}
  /\ UNCHANGED crashes

RecoveryNext ==
  \/ BrokerDies
  \/ RestartBroker
  \/ Ordinary(Next)
  \/ \E k \in Copy : Ordinary(RelaunchCopy(k))

(* The health checkers do their work, a copy keeps looking at its clock    *)
(* and at its sockets, and the new broker at its REG socket.               *)
RegistersAgain(k) ==
  \/ SendRegistration(k)
  \/ RegistrationOk(k)
  \/ RegistrationError(k)
  \/ MissesPing(k)

RecoveryFairness ==
  /\ WF_recoveryVars(RestartBroker)
  /\ WF_recoveryVars(Ordinary(get_registration /\ UNCHANGED <<server, client>>))
  /\ \A k \in Copy :
       /\ WF_recoveryVars(Ordinary(RelaunchCopy(k)))
       /\ WF_recoveryVars(Ordinary(RegistersAgain(k) /\ UNCHANGED <<brokerVars, client>>))

RecoverySpec == RecoveryInit /\ [][RecoveryNext]_recoveryVars /\ RecoveryFairness

-----------------------------------------------------------------------------
(* A call is never in two places and never answered twice, over the crash  *)
(* of the broker; it may be lost with it, and then the client waits for    *)
(* ever.                                                                   *)
CallOnce ==
  broker = "up" =>
    \A c \in connected :
      LET places == Len(router_in[c]) + Cardinality(Pending(c)) + Len(router_out[c])
      IN  IF client[c].status = "waiting"
          THEN places <= 1 /\ (crashes = 0 => places = 1)
          ELSE places = 0

(* A copy that waits for the answer to its registration will get one       *)
(* (send_reg bars it from sending another), unless it went down with a     *)
(* broker: then it waits for ever.                                         *)
RegistrationInFlight ==
  broker = "up" =>
    \A k \in Copy :
      server[k].send_reg =>
        \/ k \in lost
        \/ <<k, TRUE>> \in reg_req
        \/ reg_rep[k] # NoReply

(* After its last crash the broker is found again: copies learn of the     *)
(* crash by missing pings only, and yet the service becomes available, if  *)
(* there is a copy whose registration was not lost.                        *)
Recovers ==
  broker = "up" /\ crashes = MaxCrashes /\ lost # Copy
    ~> Service \subseteq AvailableServices \/ broker # "up"
=============================================================================
