------------------------ MODULE HealthCheckerProofs ------------------------
(***************************************************************************)
(* Supervision is right for any deployment within MAX_NMR, any number of   *)
(* failures and any interleaving of checkers and processes.                *)
(***************************************************************************)
EXTENDS HealthChecker, TLAPS

(* A health checker that does not run yet has neither forked nor sent.     *)
Dormant ==
  \A p \in Monitored :
    ~checker[p].running =>
      ~checker[p].pong_arrived /\ ping[p].at = "idle" /\ process[p] = "none"

Inv == HCTypeOK /\ Alternation /\ Dormant /\ OwnPong

(* Two processes never share a pong port.                                  *)
LEMMA PortsDiffer ==
  ASSUME NEW p \in Monitored, NEW q \in SamePort(p)
  PROVE  q = p
  <1>1. \A x \in Server : /\ x = <<x[1], x[2]>>
                          /\ x[1] \in 0..2 /\ x[2] \in 0..(MAX_NMR - 1)
                          /\ x # BROKER
    <2> SUFFICES ASSUME NEW x \in Server
                 PROVE  /\ x = <<x[1], x[2]>>
                        /\ x[1] \in 0..2 /\ x[2] \in 0..(MAX_NMR - 1)
                        /\ x # BROKER
      OBVIOUS
    <2>1. x = <<x[1], x[2]>> /\ x[1] \in Service /\ x[2] \in 0..(num_copy_server - 1)
      BY DEF Server
    <2>2. x[1] \in 0..2 /\ x[2] \in 0..(MAX_NMR - 1)
      BY <2>1, DeploymentAssumption DEF MAX_NMR
    <2>3. x # BROKER
      BY <2>2 DEF BROKER
    <2> QED
      BY <2>1, <2>2, <2>3
  <1>2. \A x \in Server : PongPort(x) = 7000 + x[2] + x[1] * 5 /\ PongPort(x) < 8000
    BY <1>1 DEF PongPort, SERVER_PONG_PORT, MAX_NMR
  <1>3. PongPort(BROKER) = 8000
    BY DEF PongPort, BROKER_PONG_PORT
  <1>4. q \in Monitored /\ PongPort(q) = PongPort(p)
    BY DEF SamePort
  <1>5. CASE p \in Server /\ q \in Server
    <2>1. 7000 + p[2] + p[1] * 5 = 7000 + q[2] + q[1] * 5
      BY <1>2, <1>4, <1>5
    <2>2. p[1] = q[1] /\ p[2] = q[2]
      BY <1>1, <1>5, <2>1 DEF MAX_NMR
    <2> QED
      BY <1>1, <1>5, <2>2
  <1>6. CASE p = BROKER \/ q = BROKER
    BY <1>2, <1>3, <1>4, <1>6 DEF Monitored
  <1> QED
    BY <1>4, <1>5, <1>6 DEF Monitored

LEMMA InitInv == Init => Inv
  BY DeploymentAssumption
     DEF Init, Inv, HCTypeOK, Alternation, Dormant, OwnPong, Ping

(* The type, in the form the steps below use.                              *)
LEMMA TypeFacts ==
  ASSUME HCTypeOK, NEW p \in Monitored
  PROVE  /\ checker[p] \in [running: BOOLEAN, pong_arrived: BOOLEAN,
                            hb_liveness: 1..HEARTBEAT_LIVENESS]
         /\ ping[p] \in [at: {"idle", "queued", "delivered", "answered", "lost"},
                         to: Monitored]
         /\ process[p] \in {"none", "starting", "up", "hung", "dead"}
  BY DEF HCTypeOK

LEMMA Liveness ==
  /\ HEARTBEAT_LIVENESS \in Nat
  /\ HEARTBEAT_LIVENESS \in 1..HEARTBEAT_LIVENESS
  BY DeploymentAssumption

Checker == [running: BOOLEAN, pong_arrived: BOOLEAN, hb_liveness: 1..HEARTBEAT_LIVENESS]

LEMMA DeployInv ==
  ASSUME Inv, NEW s \in Service, Deploy(s)
  PROVE  Inv'
  BY DeploymentAssumption DEF Inv, HCTypeOK, Alternation, Dormant, OwnPong, Deploy

LEMMA LaunchInv ==
  ASSUME Inv, NEW p \in Monitored, Launch(p)
  PROVE  Inv'
  <1>1. HCTypeOK'
    BY DEF Inv, HCTypeOK, Launch, Ping
  <1>2. Alternation'
    BY DEF Inv, HCTypeOK, Alternation, Dormant, Launch, Ping
  <1>3. Dormant'
    BY DEF Inv, HCTypeOK, Dormant, Launch, Ping
  <1>4. OwnPong'
    BY DEF Inv, HCTypeOK, OwnPong, Launch, Ping
  <1> QED
    BY <1>1, <1>2, <1>3, <1>4 DEF Inv

LEMMA BindInv ==
  ASSUME Inv, NEW p \in Monitored, Bind(p)
  PROVE  Inv'
  <1>1. HCTypeOK'
    BY DEF Inv, HCTypeOK, Bind
  <1>2. Alternation' /\ OwnPong'
    BY DEF Inv, Alternation, OwnPong, Bind
  <1>3. Dormant'
    BY DEF Inv, HCTypeOK, Dormant, Bind
  <1> QED
    BY <1>1, <1>2, <1>3 DEF Inv

LEMMA DeliverInv ==
  ASSUME Inv, NEW p \in Monitored, Deliver(p)
  PROVE  Inv'
  <1>1. /\ ping[p].at = "queued"
        /\ ping' = [ping EXCEPT ![p] = Ping("delivered", p)]
        /\ UNCHANGED <<deployed, checker, process>>
    BY PortsDiffer DEF Deliver
  <1>2. HCTypeOK'
    BY <1>1 DEF Inv, HCTypeOK, Ping
  <1>3. Alternation' /\ Dormant'
    BY <1>1 DEF Inv, HCTypeOK, Alternation, Dormant, Ping
  <1>4. OwnPong'
    BY <1>1 DEF Inv, HCTypeOK, OwnPong, Ping
  <1> QED
    BY <1>2, <1>3, <1>4 DEF Inv

LEMMA AnswerInv ==
  ASSUME Inv, NEW p \in Monitored, NEW q \in Monitored, AnswerPing(p, q)
  PROVE  Inv'
  <1>1. /\ ping[p].at = "delivered"
        /\ ping' = [ping EXCEPT ![p].at = "answered"]
        /\ UNCHANGED <<deployed, checker, process>>
    BY DEF AnswerPing, Ping
  <1>2. HCTypeOK'
    BY <1>1 DEF Inv, HCTypeOK
  <1>3. Alternation' /\ Dormant'
    BY <1>1 DEF Inv, HCTypeOK, Alternation, Dormant
  <1>4. OwnPong'
    BY <1>1 DEF Inv, HCTypeOK, OwnPong
  <1> QED
    BY <1>2, <1>3, <1>4 DEF Inv

LEMMA ReceivePongInv ==
  ASSUME Inv, NEW p \in Monitored, ReceivePong(p)
  PROVE  Inv'
  <1>1. HCTypeOK'
    <2>1. [checker[p] EXCEPT !.hb_liveness = HEARTBEAT_LIVENESS,
                             !.pong_arrived = TRUE] \in Checker
      <3>1. checker[p] \in Checker
        BY TypeFacts DEF Inv, Checker
      <3>2. [checker[p] EXCEPT !.hb_liveness = HEARTBEAT_LIVENESS] \in Checker
        BY <3>1, Liveness DEF Checker
      <3> QED
        BY <3>2 DEF Checker
    <2>2. checker' = [checker EXCEPT ![p] =
                        [checker[p] EXCEPT !.hb_liveness = HEARTBEAT_LIVENESS,
                                           !.pong_arrived = TRUE]]
      BY TypeFacts DEF ReceivePong, Inv, HCTypeOK
    <2>3. checker' \in [Monitored -> Checker]
      BY <2>1, <2>2 DEF Inv, HCTypeOK, Checker
    <2> QED
      BY <2>3 DEF Inv, HCTypeOK, ReceivePong, Ping, Checker
  <1>2. Alternation' /\ Dormant'
    BY DEF Inv, HCTypeOK, Alternation, Dormant, ReceivePong, Ping
  <1>3. OwnPong'
    BY DEF Inv, HCTypeOK, OwnPong, ReceivePong, Ping
  <1> QED
    BY <1>1, <1>2, <1>3 DEF Inv

LEMMA NextPingInv ==
  ASSUME Inv, NEW p \in Monitored, NextPing(p)
  PROVE  Inv'
  <1>1. HCTypeOK'
    BY DEF Inv, HCTypeOK, NextPing, Ping
  <1>2. Alternation' /\ Dormant'
    BY DEF Inv, HCTypeOK, Alternation, Dormant, NextPing, Timeout, Ping
  <1>3. OwnPong'
    BY DEF Inv, HCTypeOK, OwnPong, NextPing, Ping
  <1> QED
    BY <1>1, <1>2, <1>3 DEF Inv

LEMMA CountDownInv ==
  ASSUME Inv, NEW p \in Monitored, CountDown(p)
  PROVE  Inv'
  <1>1. HCTypeOK'
    <2>1. checker[p].hb_liveness - 1 \in 1..HEARTBEAT_LIVENESS
      BY Liveness, TypeFacts DEF Inv, CountDown
    <2>2. checker' \in [Monitored -> Checker]
      BY <2>1 DEF Inv, HCTypeOK, CountDown, Checker
    <2> QED
      BY <2>2 DEF Inv, HCTypeOK, CountDown, Checker
  <1>2. Alternation' /\ Dormant' /\ OwnPong'
    BY DEF Inv, HCTypeOK, Alternation, Dormant, OwnPong, CountDown
  <1> QED
    BY <1>1, <1>2 DEF Inv

(* The end of a process takes pings with it, but leaves none idle that was *)
(* not and none to another process.                                        *)
LEMMA EndsFacts ==
  ASSUME HCTypeOK, OwnPong, NEW p \in Monitored, NEW pong_sent \in BOOLEAN,
         Ends(p, pong_sent)
  PROVE  /\ ping' \in [Monitored ->
                        [at: {"idle", "queued", "delivered", "answered", "lost"},
                         to: Monitored]]
         /\ OwnPong'
         /\ \A x \in Monitored : ping'[x].at = "idle" <=> ping[x].at = "idle"
  BY DEF HCTypeOK, OwnPong, Ends, Ping

LEMMA RestartInv ==
  ASSUME Inv, NEW p \in Monitored, RestartProcess(p)
  PROVE  Inv'
  <1>1. PICK pong_sent \in BOOLEAN : Ends(p, pong_sent)
    BY DEF RestartProcess
  <1>2. HCTypeOK'
    <2>1. checker' \in [Monitored -> Checker]
      BY Liveness DEF Inv, HCTypeOK, RestartProcess, Checker
    <2> QED
      BY <1>1, <2>1, EndsFacts DEF Inv, HCTypeOK, RestartProcess, NewProcess, Checker
  <1>3. Alternation' /\ Dormant' /\ OwnPong'
    BY <1>1, EndsFacts, SMTT(30)
       DEF Inv, HCTypeOK, Alternation, Dormant, RestartProcess, Timeout
  <1> QED
    BY <1>2, <1>3 DEF Inv

LEMMA CrashInv ==
  ASSUME Inv, NEW p \in Monitored, Crash(p)
  PROVE  Inv'
  <1>1. PICK pong_sent \in BOOLEAN : Ends(p, pong_sent)
    BY DEF Crash
  <1> QED
    BY <1>1, EndsFacts DEF Inv, HCTypeOK, Alternation, Dormant, Crash

LEMMA HangInv ==
  ASSUME Inv, NEW p \in Monitored, Hang(p)
  PROVE  Inv'
  BY DEF Inv, HCTypeOK, Alternation, Dormant, OwnPong, Hang

LEMMA NextInv == Inv /\ [Next]_vars => Inv'
  <1> SUFFICES ASSUME Inv, [Next]_vars PROVE Inv'
    OBVIOUS
  <1>1. CASE \E s \in Service : Deploy(s)
    BY <1>1, DeployInv
  <1>2. CASE StartBroker
    BY <1>2, LaunchInv DEF StartBroker, Monitored
  <1>3. ASSUME NEW p \in Monitored, StartServer(p) PROVE Inv'
    BY <1>3, LaunchInv DEF StartServer
  <1>4. ASSUME NEW p \in Monitored, Bind(p) PROVE Inv'
    BY <1>4, BindInv
  <1>5. ASSUME NEW p \in Monitored, Deliver(p) PROVE Inv'
    BY <1>5, DeliverInv
  <1>6. ASSUME NEW p \in Monitored, ServerPong(p) \/ BrokerPong(p) PROVE Inv'
    BY <1>6, AnswerInv DEF ServerPong, BrokerPong, Monitored
  <1>7. ASSUME NEW p \in Monitored, ReceivePong(p) PROVE Inv'
    BY <1>7, ReceivePongInv
  <1>8. ASSUME NEW p \in Monitored, PollTimeout(p) PROVE Inv'
    BY <1>8, NextPingInv, CountDownInv, RestartInv DEF PollTimeout
  <1>9. ASSUME NEW p \in Monitored, Crash(p) \/ Hang(p) PROVE Inv'
    BY <1>9, CrashInv, HangInv
  <1>10. CASE UNCHANGED vars
    BY <1>10 DEF vars, Inv, HCTypeOK, Alternation, Dormant, OwnPong
  <1> QED
    BY <1>1, <1>2, <1>3, <1>4, <1>5, <1>6, <1>7, <1>8, <1>9, <1>10 DEF Next

LEMMA InvCorrect == Spec => []Inv
  BY InitInv, NextInv, PTL DEF Spec

(* The counters of all health checkers stay above 0, from where -- would   *)
(* wrap around.                                                            *)
THEOREM HCTypeCorrect == Spec => []HCTypeOK
  <1>1. Inv => HCTypeOK
    BY DEF Inv
  <1> QED
    BY <1>1, InvCorrect, PTL

(* No health checker ever sends twice or receives twice on its REQ socket. *)
THEOREM AlternationCorrect == Spec => []Alternation
  <1>1. Inv => Alternation
    BY DEF Inv
  <1> QED
    BY <1>1, InvCorrect, PTL

(* With at most MAX_NMR copies per service, every pong a health checker    *)
(* receives is one of its own process.                                     *)
THEOREM OwnPongCorrect == Spec => []OwnPong
  <1>1. Inv => OwnPong
    BY DEF Inv
  <1> QED
    BY <1>1, InvCorrect, PTL

-----------------------------------------------------------------------------
Healthy(p) ==
  process[p] = "up" /\ process'[p] \notin {"up", "hung"}
    => (p \in Failing /\ process'[p] = "dead") \/ ping[p].at = "lost"

LEMMA RestartHealthy ==
  ASSUME Inv, NEW p \in Monitored, RestartProcess(p)
  PROVE  process[p] = "up" => ping[p].at = "lost"
  <1> SUFFICES ASSUME process[p] = "up" PROVE ping[p].at = "lost"
    OBVIOUS
  <1>1. /\ checker[p].running /\ ~checker[p].pong_arrived /\ Silent(p)
        /\ ping[p].at # "idle"
    BY DEF Inv, Alternation, RestartProcess, Timeout
  <1>2. ping[p].at # "queued"
    <2>1. p \in SamePort(p)
      BY DEF SamePort
    <2> QED
      BY <1>1, <2>1 DEF Silent
  <1>3. ping[p].at # "delivered"
    BY <1>1 DEF Silent, Inv, OwnPong
  <1>4. ping[p].at # "answered"
    BY <1>1 DEF Silent
  <1> QED
    BY <1>1, <1>2, <1>3, <1>4, TypeFacts DEF Inv

(* A health checker kills a live process only when its ping has died with  *)
(* an earlier process.                                                     *)
THEOREM KillingCorrect == Spec => KilledOnlyIfPingLost
  <1>1. Inv /\ [Next]_vars => [\A p \in Monitored : Healthy(p)]_vars
    <2> SUFFICES ASSUME Inv, Next, NEW p \in Monitored PROVE Healthy(p)
      OBVIOUS
    <2>1. ASSUME NEW q \in Monitored, RestartProcess(q) PROVE Healthy(p)
      BY <2>1, RestartHealthy DEF RestartProcess, Healthy, Inv, HCTypeOK
    <2>2. ASSUME NEW q \in Monitored, Crash(q) \/ Hang(q) PROVE Healthy(p)
      BY <2>2 DEF Crash, Hang, Healthy, Inv, HCTypeOK
    <2>3. ASSUME NEW q \in Monitored, Bind(q) PROVE Healthy(p)
      BY <2>3 DEF Bind, Healthy, Inv, HCTypeOK
    <2>4. ASSUME NEW q \in Monitored, Launch(q) PROVE Healthy(p)
      <3>1. process[q] = "none"
        BY <2>4 DEF Launch, Inv, Dormant
      <3> QED
        BY <2>4, <3>1 DEF Launch, Healthy, Inv, HCTypeOK
    <2>5. CASE process' = process
      BY <2>5 DEF Healthy
    <2> QED
      BY <2>1, <2>2, <2>3, <2>4, <2>5
         DEF Next, Deploy, StartBroker, StartServer, Deliver, ServerPong, BrokerPong,
             AnswerPing, ReceivePong, PollTimeout, NextPing, CountDown, Monitored
  <1> QED
    BY <1>1, InvCorrect, PTL DEF Spec, KilledOnlyIfPingLost, Healthy
=============================================================================
