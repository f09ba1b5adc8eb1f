--------------------------- MODULE HealthChecker ---------------------------
(***************************************************************************)
(* Deployment and supervision.  The deployment unit of a service forks a   *)
(* health checker per copy, which forks the copy; RSF_start_broker does so *)
(* for the broker.  A health checker pings its process over a REQ socket,  *)
(* kills it after HEARTBEAT_LIVENESS silent polls and forks a new one.     *)
(*                                                                         *)
(* A ping waits in the REQ socket while nobody has bound the port; once it *)
(* is delivered to a process it ends with that process, and REQ does not   *)
(* send it again.  fork and exec are taken to succeed.                     *)
(***************************************************************************)
EXTENDS Integers

CONSTANTS
  Service,             \* services that are deployed
  num_copy_server,     \* copies per service (option -n)
  HEARTBEAT_LIVENESS,  \* silent polls after which a process is killed
  Failing              \* processes that may crash or hang

MAX_NMR == 5
SERVER_PONG_PORT == 7000
BROKER_PONG_PORT == 8000

BROKER == <<-1, 0>>
Server == Service \X (0..(num_copy_server - 1))
Monitored == Server \cup {BROKER}

(* Nothing checks that num_copy_server is within MAX_NMR.                  *)
ASSUME DeploymentAssumption ==
  /\ Service \subseteq 0..2
  /\ num_copy_server \in 1..MAX_NMR
  /\ HEARTBEAT_LIVENESS \in 1..255      \* uint8_t
  /\ Failing \subseteq Monitored

VARIABLES
  deployed,   \* deployed[s]: health checkers the deployment unit of s has forked
  checker,    \* checker[p]: the health checker of p
  process,    \* process[p]: the process of p
  ping        \* ping[p]: the ping of p's checker, and the process that has got it

vars == <<deployed, checker, process, ping>>

(* The counter of a checker never rests at 0, from where -- would wrap      *)
(* around.                                                                 *)
HCTypeOK ==
  /\ deployed \in [Service -> 0..num_copy_server]
  /\ checker \in [Monitored -> [running: BOOLEAN, pong_arrived: BOOLEAN,
                                hb_liveness: 1..HEARTBEAT_LIVENESS]]
  /\ process \in [Monitored -> {"none", "starting", "up", "hung", "dead"}]
  /\ ping \in [Monitored ->
                 [at: {"idle", "queued", "delivered", "answered", "lost"},
                  to: Monitored]]

Ping(at, p) == [at |-> at, to |-> p]

Init ==
  /\ deployed = [s \in Service |-> 0]
  /\ checker = [p \in Monitored |-> [running |-> FALSE, pong_arrived |-> FALSE,
                                     hb_liveness |-> HEARTBEAT_LIVENESS]]
  /\ process = [p \in Monitored |-> "none"]
  /\ ping = [p \in Monitored |-> Ping("idle", p)]

PongPort_Overlap(p) ==                    \* mutant: services share their ports
  IF p = BROKER THEN BROKER_PONG_PORT ELSE SERVER_PONG_PORT + p[2] + p[1]

PongPort(p) ==
  IF p = BROKER THEN BROKER_PONG_PORT
                ELSE SERVER_PONG_PORT + p[2] + p[1] * MAX_NMR

SamePort(p) == {q \in Monitored : PongPort(q) = PongPort(p)}

Bound(q) == process[q] \in {"up", "hung"}

-----------------------------------------------------------------------------
(* One turn of the loop in deployment().                                   *)
Deploy(s) ==
  /\ deployed[s] < num_copy_server
  /\ deployed' = [deployed EXCEPT ![s] = @ + 1]
  /\ UNCHANGED <<checker, process, ping>>

(* main() of a health checker: it forks the process, connects and sends    *)
(* the first ping.                                                         *)
Launch(p) ==
  /\ ~checker[p].running
  /\ checker' = [checker EXCEPT ![p].running = TRUE]
  /\ process' = [process EXCEPT ![p] = "starting"]
  /\ ping' = [ping EXCEPT ![p] = Ping("queued", p)]
  /\ UNCHANGED deployed

StartBroker == Launch(BROKER)

StartServer(p) == p \in Server /\ p[2] < deployed[p[1]] /\ Launch(p)

(* The constructor binds the pong socket; bind throws if the port is used. *)
(* The predecessor of the process has released it: kill closes sockets at  *)
(* once here, so that a bind that comes too early is not modelled.         *)
Bind(p) ==
  /\ process[p] = "starting"
  /\ process' = [process EXCEPT ![p] =
                   IF \E q \in SamePort(p) : Bound(q) THEN "dead" ELSE "up"]
  /\ UNCHANGED <<deployed, checker, ping>>

-----------------------------------------------------------------------------
Deliver(p) ==
  /\ ping[p].at = "queued"
  /\ \E q \in SamePort(p) : Bound(q) /\ ping' = [ping EXCEPT ![p] = Ping("delivered", q)]
  /\ UNCHANGED <<deployed, checker, process>>

AnswerPing(p, q) ==
  /\ ping[p] = Ping("delivered", q)
  /\ process[q] = "up"
  /\ ping' = [ping EXCEPT ![p].at = "answered"]
  /\ UNCHANGED <<deployed, checker, process>>

(* pong_health_checker() of a server copy, in every turn of its loop ...   *)
ServerPong(p) == \E q \in Server : AnswerPing(p, q)

(* ... and of the broker.                                                  *)
BrokerPong(p) == AnswerPing(p, BROKER)

-----------------------------------------------------------------------------
(* step() of the health checker: a pong.                                   *)
ReceivePong(p) ==
  /\ ping[p].at = "answered"
  /\ checker' = [checker EXCEPT ![p].hb_liveness = HEARTBEAT_LIVENESS,
                                ![p].pong_arrived = TRUE]
  /\ ping' = [ping EXCEPT ![p] = Ping("idle", p)]
  /\ UNCHANGED <<deployed, process>>

Silent_Hasty(p) == ping[p].at # "answered"     \* mutant: the interval is too short

(* zmq::poll ends without a pong.  The interval is long enough for a live  *)
(* process to start, bind and answer a ping it can get.                    *)
Silent(p) ==
  /\ process[p] # "starting"
  /\ CASE ping[p].at = "queued" -> \A q \in SamePort(p) : process[q] # "up"
       [] ping[p].at = "delivered" -> process[ping[p].to] # "up"
       [] OTHER -> ping[p].at # "answered"

Timeout(p) == checker[p].running /\ Silent(p)

NextPing_Again(p) ==               \* mutant: the flag is not cleared
  /\ Timeout(p) /\ checker[p].pong_arrived
  /\ ping' = [ping EXCEPT ![p] = Ping("queued", p)]
  /\ UNCHANGED <<deployed, process, checker>>

NextPing(p) ==
  /\ Timeout(p) /\ checker[p].pong_arrived
  /\ ping' = [ping EXCEPT ![p] = Ping("queued", p)]
  /\ checker' = [checker EXCEPT ![p].pong_arrived = FALSE]
  /\ UNCHANGED <<deployed, process>>

CountDown_ToZero(p) ==             \* mutant: the test comes before the --
  /\ Timeout(p) /\ ~checker[p].pong_arrived
  /\ checker[p].hb_liveness # 0
  /\ checker' = [checker EXCEPT ![p].hb_liveness = @ - 1]
  /\ UNCHANGED <<deployed, process, ping>>

CountDown(p) ==
  /\ Timeout(p) /\ ~checker[p].pong_arrived
  /\ checker[p].hb_liveness - 1 # 0
  /\ checker' = [checker EXCEPT ![p].hb_liveness = @ - 1]
  /\ UNCHANGED <<deployed, process, ping>>

(* What a process has got ends with it; a pong may still be on its way.    *)
Ends(p, pong_sent) ==
  ping' = [x \in Monitored |->
             IF ping[x].to = p /\ ping[x].at \in
                  (IF pong_sent THEN {"delivered"} ELSE {"delivered", "answered"})
             THEN Ping("lost", x) ELSE ping[x]]

NewProcess_None == "dead"          \* mutant: fork without exec
NewProcess == "starting"

(* restart_process(): pong_arrived is left FALSE.  No new ping is sent,    *)
(* the new process is to answer the one that is still in the socket.       *)
RestartProcess(p) ==
  /\ Timeout(p) /\ ~checker[p].pong_arrived
  /\ checker[p].hb_liveness - 1 = 0
  /\ checker' = [checker EXCEPT ![p].hb_liveness = HEARTBEAT_LIVENESS]
  /\ process' = [process EXCEPT ![p] = NewProcess]
  /\ \E pong_sent \in BOOLEAN : Ends(p, pong_sent)
  /\ UNCHANGED deployed

PollTimeout(p) == NextPing(p) \/ CountDown(p) \/ RestartProcess(p)

-----------------------------------------------------------------------------
Crash(p) ==
  /\ p \in Failing /\ process[p] \in {"up", "hung"}
  /\ process' = [process EXCEPT ![p] = "dead"]
  /\ \E pong_sent \in BOOLEAN : Ends(p, pong_sent)
  /\ UNCHANGED <<deployed, checker>>

(* The process is there but its loop does not go on.                       *)
Hang(p) ==
  /\ p \in Failing /\ process[p] = "up"
  /\ process' = [process EXCEPT ![p] = "hung"]
  /\ UNCHANGED <<deployed, checker, ping>>

Next ==
  \/ \E s \in Service : Deploy(s)
  \/ StartBroker
  \/ \E p \in Monitored :
       \/ StartServer(p) \/ Bind(p)
       \/ Deliver(p) \/ ServerPong(p) \/ BrokerPong(p) \/ ReceivePong(p)
       \/ PollTimeout(p)
       \/ Crash(p) \/ Hang(p)

Spec == Init /\ [][Next]_vars

Served(p) ==
  Bind(p) \/ Deliver(p) \/ ServerPong(p) \/ BrokerPong(p) \/ ReceivePong(p)

(* A process that has been started comes to bind its port, a live one to   *)
(* its pong socket, and a health checker loops for ever.                   *)
FairSpec ==
  Spec /\ \A p \in Monitored : WF_vars(Served(p)) /\ WF_vars(PollTimeout(p))

-----------------------------------------------------------------------------
(* The REQ socket is used in turns, as it has to be: a ping is sent only   *)
(* when the pong of the last one has been received, over timeouts, kills   *)
(* and restarts.                                                           *)
Alternation ==
  \A p \in Monitored :
    checker[p].running => (checker[p].pong_arrived <=> ping[p].at = "idle")

(* A checker hears of no process but its own: SERVER_PONG_PORT + id +      *)
(* service * MAX_NMR separates the copies of up to MAX_NMR per service.    *)
OwnPong ==
  \A p \in Monitored : ping[p].to = p

(* A process that is up is killed only if the ping of its checker has gone *)
(* down with its predecessor (step() sends no new one after a restart).    *)
KilledOnlyIfPingLost ==
  [][\A p \in Monitored :
       process[p] = "up" /\ process'[p] \notin {"up", "hung"}
         => (p \in Failing /\ process'[p] = "dead") \/ ping[p].at = "lost"]_vars

(* A process that has crashed or hangs is replaced.                        *)
Replaced ==
  \A p \in Failing : process[p] \in {"dead", "hung"} ~> process[p] = "up"
=============================================================================
