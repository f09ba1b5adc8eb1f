------------------------------- MODULE Timers -------------------------------
(***************************************************************************)
(* The clocks of the framework, in real time: the heartbeat timeout of one *)
(* service at the broker, the ping timeout of one of its copies, and the   *)
(* half second of work per request that lies between them.  RSF abstracts  *)
(* these clocks to "at any time" and assumes (Timely) that live copies are *)
(* heard in time; this module shows when the intervals of communication.hpp *)
(* justify that.                                                           *)
(*                                                                         *)
(* A reading of the clock advances by one millisecond of the (scaled) unit *)
(* at a time.  Everything that is due happens within its bound: step() of  *)
(* the broker polls for at most POLL, a message travels at most DELAY, the *)
(* loop of a copy never sleeps.                                            *)
(***************************************************************************)
EXTENDS Time, Sequences

CONSTANTS
  HEARTBEAT_INTERVAL,   \* 2000 ms
  WCDPING,              \* 500 ms
  BUSY,                 \* 500 ms: busy_wait in task()
  POLL,                 \* 50 ms: zmq::poll of the broker
  DELAY,                \* bound on the way of a message (external)
  LIVENESS,
  Clients,              \* number of clients, each with one call at a time
  Start,                \* first reading of the clock
  MaxTime               \* bound: readings considered, from the start on

ASSUME IntervalAssumption ==
  /\ {HEARTBEAT_INTERVAL, WCDPING, BUSY, POLL, DELAY, Clients, MaxTime} \subseteq Nat
  /\ LIVENESS \in 1..127
  /\ Start \in Reading

VARIABLES
  now,        \* the clock (CLOCK_MONOTONIC, one machine)
  broker_up,  \* the process of the broker lives
  timeout,    \* broker: the heartbeat timeout of the service
  new_pong,   \* broker: a pong of the copy has come in this round
  lost_pong,  \* broker: pongs of the copy lost in a row
  calls,      \* clients that wait for an answer
  copy,       \* the process of the copy
  inbox,      \* messages to the copy, with the time they were sent at
  outbox,     \* replies of the copy, likewise
  quiet       \* when the first of broker and copy died or, if the copy did and
              \* this is later, the last request was made

vars == <<now, broker_up, timeout, new_pong, lost_pong, calls, copy, inbox, outbox,
          quiet>>

HeartbeatDeadline_Short == time_add_ms(now, WCDPING)       \* mutant

(* update_timeout *)
HeartbeatDeadline == time_add_ms(now, HEARTBEAT_INTERVAL)

PingDeadline_Long ==                                       \* mutant
  time_add_ms(now, 2 * HEARTBEAT_INTERVAL)
PingDeadline_NoSlack == time_add_ms(now, HEARTBEAT_INTERVAL)   \* mutant

(* time_t of RSF_Server::step *)
PingDeadline == time_add_ms(now, HEARTBEAT_INTERVAL + WCDPING)

(* The group has just been completed by the registration of this copy.  A  *)
(* copy that registered earlier has waited since then without a message    *)
(* and may have counted losses (server_class.cpp:185), even have given the *)
(* broker up, before the first ping of the group: what BrokerHeard says    *)
(* does not hold for it.                                                   *)
Init ==
  /\ now = Start /\ broker_up = TRUE
  /\ timeout = HeartbeatDeadline
  /\ new_pong = FALSE /\ lost_pong = -1
  /\ calls = 0
  /\ copy = [up |-> TRUE, time_t |-> PingDeadline, ping_loss |-> 0,
             busy |-> FALSE, done |-> Start]
  /\ inbox = <<>> /\ outbox = <<>>
  /\ quiet = Total(Start)

Sent(heartbeat) == [heartbeat |-> heartbeat, sent |-> Total(now)]

ToCopy(heartbeat) ==
  inbox' = IF copy.up THEN Append(inbox, Sent(heartbeat)) ELSE inbox

-----------------------------------------------------------------------------
(* A client calls and get_request forwards it, postponing the heartbeat.   *)
GetRequest ==
  /\ broker_up /\ calls < Clients
  /\ calls' = calls + 1
  /\ ToCopy(FALSE)
  /\ timeout' = HeartbeatDeadline
  /\ quiet' = Total(now)
  /\ UNCHANGED <<now, broker_up, new_pong, lost_pong, copy, outbox>>

LostPong ==
  lost_pong' = IF ~new_pong /\ lost_pong < LIVENESS THEN lost_pong + 1
               ELSE IF new_pong THEN 0 ELSE lost_pong

CheckPong_KeepsPong == LostPong /\ UNCHANGED new_pong      \* mutant

CheckPong == LostPong /\ new_pong' = FALSE

(* The timeout has passed: check_pong, ping_server, update_timeout.        *)
HeartbeatTimeout ==
  /\ broker_up /\ Passed(now, timeout)
  /\ CheckPong
  /\ ToCopy(TRUE)
  /\ timeout' = HeartbeatDeadline
  /\ UNCHANGED <<now, broker_up, calls, copy, outbox, quiet>>

(* get_response.  The copies of a group work in step: the result of this   *)
(* one stands for the majority that answers the client.                    *)
GetResponse ==
  /\ broker_up /\ outbox # <<>>
  /\ outbox' = Tail(outbox)
  /\ IF Head(outbox).heartbeat
     THEN new_pong' = TRUE /\ UNCHANGED calls
     ELSE calls' = calls - 1 /\ UNCHANGED new_pong
  /\ UNCHANGED <<now, broker_up, timeout, lost_pong, copy, inbox, quiet>>

(* Without the copy, the others answer.                                    *)
OthersAnswer ==
  /\ broker_up /\ ~copy.up /\ outbox = <<>> /\ calls > 0
  /\ calls' = calls - 1
  /\ UNCHANGED <<now, broker_up, timeout, new_pong, lost_pong, copy, inbox, outbox, quiet>>

-----------------------------------------------------------------------------
(* step() of the copy: any message moves the ping timeout.  A ping is      *)
(* answered at once, a request by a thread; until then the REP socket      *)
(* gives no further message.                                               *)
ReceiveRequest ==
  LET heartbeat == Head(inbox).heartbeat IN
  /\ copy.up /\ copy.ping_loss < LIVENESS /\ ~copy.busy /\ inbox # <<>>
  /\ inbox' = Tail(inbox)
  /\ copy' = [copy EXCEPT !.time_t = PingDeadline, !.busy = ~heartbeat,
                          !.done = IF heartbeat THEN @ ELSE time_add_ms(now, BUSY)]
  /\ outbox' = IF heartbeat THEN Append(outbox, Sent(TRUE)) ELSE outbox
  /\ UNCHANGED <<now, broker_up, timeout, new_pong, lost_pong, calls, quiet>>

(* busy_wait has come to its end.                                          *)
TaskDone ==
  /\ copy.up /\ copy.busy
  /\ time_cmp(now, copy.done) >= 0
  /\ copy' = [copy EXCEPT !.busy = FALSE]
  /\ outbox' = Append(outbox, Sent(FALSE))
  /\ UNCHANGED <<now, broker_up, timeout, new_pong, lost_pong, calls, inbox, quiet>>

PingTimeout ==
  /\ copy.up /\ copy.ping_loss < LIVENESS
  /\ Passed(now, copy.time_t)
  /\ copy' = [copy EXCEPT !.time_t = PingDeadline, !.ping_loss = @ + 1]
  /\ UNCHANGED <<now, broker_up, timeout, new_pong, lost_pong, calls, inbox, outbox, quiet>>

Die ==
  /\ copy.up /\ broker_up
  /\ copy' = [copy EXCEPT !.up = FALSE]
  /\ inbox' = <<>>
  /\ quiet' = Total(now)
  /\ UNCHANGED <<now, broker_up, timeout, new_pong, lost_pong, calls, outbox>>

(* What the broker has sent still arrives.                                 *)
BrokerDies ==
  /\ broker_up /\ copy.up
  /\ broker_up' = FALSE
  /\ quiet' = Total(now)
  /\ UNCHANGED <<now, timeout, new_pong, lost_pong, calls, copy, inbox, outbox>>

-----------------------------------------------------------------------------
(* Time passes while nothing is overdue.                                   *)
Since(t) == Total(now) - t

Overdue ==
  \/ broker_up /\ Passed(now, timeout) /\ Since(Total(timeout)) > POLL * NS
  \/ broker_up /\ outbox # <<>> /\ Since(Head(outbox).sent) >= DELAY * NS
  \/ /\ copy.up
     /\ \/ copy.busy /\ time_cmp(now, copy.done) >= 0
        \/ /\ copy.ping_loss < LIVENESS
           /\ \/ Passed(now, copy.time_t)
              \/ ~copy.busy /\ inbox # <<>> /\ Since(Head(inbox).sent) >= DELAY * NS

Tick ==
  /\ ~Overdue
  /\ Since(Total(Start)) < MaxTime * NS
  /\ now' = IF now.tv_nsec + NS < SECOND
            THEN [now EXCEPT !.tv_nsec = @ + NS]
            ELSE [tv_sec |-> now.tv_sec + 1, tv_nsec |-> now.tv_nsec + NS - SECOND]
  /\ UNCHANGED <<broker_up, timeout, new_pong, lost_pong, calls, copy, inbox, outbox, quiet>>

Next ==
  \/ GetRequest \/ HeartbeatTimeout \/ GetResponse \/ OthersAnswer
  \/ ReceiveRequest \/ TaskDone \/ Die \/ BrokerDies
  \/ PingTimeout
  \/ Tick

Spec == Init /\ [][Next]_vars

-----------------------------------------------------------------------------
(* A copy does not take a live broker for dead: HEARTBEAT_INTERVAL +       *)
(* WCDPING covers the heartbeat interval, the poll of the broker and the   *)
(* way of the ping, although requests postpone heartbeats and pings wait   *)
(* behind them.                                                            *)
BrokerHeard == broker_up => copy.ping_loss = 0

(* The broker does not count a pong of a live copy as lost: because every  *)
(* request postpones the heartbeat, the copy has served all requests       *)
(* before the ping that follows them.                                      *)
PongsHeard == copy.up /\ broker_up => lost_pong <= 0

(* A dead copy is given up LIVENESS + 1 rounds after its death, or after   *)
(* the last request if one came later: only requests put that off.         *)
DetectedInTime ==
  copy.up \/ lost_pong = LIVENESS
    \/ Since(quiet) <= (LIVENESS + 1) * (HEARTBEAT_INTERVAL + POLL + 1) * NS

(* A dead broker is given up, and the copy registers again, after LIVENESS *)
(* ping timeouts, which start when the last message is received: a copy    *)
(* that has requests to serve reads the next message half a second later.  *)
GivesUpInTime ==
  broker_up \/ copy.ping_loss = LIVENESS
    \/ Since(quiet) <= (LIVENESS * (HEARTBEAT_INTERVAL + WCDPING + 1)
                         + DELAY + Clients * BUSY) * NS

(* Each interval the framework uses, added to an earlier reading of the    *)
(* clock, is a deadline that is seen in time, also when the sum fills a    *)
(* second exactly, which time_add_ms does not carry: a deadline that is    *)
(* due now, was due a millisecond ago or will be in one.                   *)
Interval == {HEARTBEAT_INTERVAL, HEARTBEAT_INTERVAL + WCDPING, BUSY}

At(moment) == [tv_sec |-> moment \div SECOND, tv_nsec |-> moment % SECOND]

DeadlinesRight ==
  \A ms \in Interval, late \in {-1, 0, 1} :
    LET set == Total(now) - (ms + late) * NS IN
    set >= Total(Start) => DeadlineRight(At(set), ms, now)
=============================================================================
