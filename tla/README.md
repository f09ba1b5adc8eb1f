# Verification of the Reliable Service Framework

TLA+ models, TLC runs and TLAPS proofs for the Reliable Service Framework: a
broker that offers replicated services (N-modular redundancy with a voter) to
clients over ZeroMQ. Line references are to the repository.

## 1. The system

| Component | State | Operations | Module |
|---|---|---|---|
| Broker (`src/broker/broker_class.cpp`) | `available_services`, `dealer`, `timeout` (parallel vectors), `available_dealer_port`, the database | `get_registration`, `get_request`, `get_response`, heartbeat loop, `check_pending_requests`, all called from one loop in `step()` | `RSF_Broker` |
| Service database (`src/broker/service_database_class.cpp`) | one `service_record` per service: copy counters, port, index, sequence numbers, pending requests, pongs | registrations, requests, results, pongs | `ServiceDatabase` |
| Voter (`RSF_Broker::vote`) | none | majority of NMR | `Voter` |
| Server copy (`src/server/server_class.cpp`, `registrator_class.cpp`) | registration state, `request_id`, `ping_loss`, REP socket, detached request threads | answer pings, serve or refuse requests, register, give the broker up | `RSF_Server` |
| Client (`include/rsf_api.hpp`) | a REQ socket | `request_service` | `RSF_Client` |
| Messages, services (`include/communication.hpp`, `src/server/service.cpp`) | none | three service bodies | `Communication` |
| ZeroMQ (external) | queues, DEALER peers | round robin, connect, disconnect | `ZMQ` |
| Health checkers (`health_checker_server`, `health_checker_broker`, `utilities/health_checker_class.cpp`) | `pid`, `hb_liveness`, `pong_arrived`, a REQ socket | ping, receive a pong, count down, kill and replace the process | `HealthChecker` |
| Deployment unit (`deployment_unit.cpp`) | number of checkers forked | fork a health checker per copy | `HealthChecker` |
| Time (`utilities/util.cpp`) | the monotonic clock | `time_add_ms`, `time_cmp`, `busy_wait` | `Time`, `Timers` |

How they interact. A copy registers at the broker's REG socket and is told the
port of its group; the copy that completes the group of NMR makes the service
*available* and its DEALER socket is bound. A client's request arrives on the
ROUTER socket, is stored under the client's identity and dealt
`num_copies_reliable` times over the DEALER socket. Each copy computes in a
thread of its own and answers in the same envelope. The broker votes as soon as
more than `nmr / 2` results are in, or answers NOT_RELIABLE when all are in
without a majority or the request times out. Over the same sockets the broker
pings each group; a copy that misses LIVENESS pongs is counted out, a copy that
misses LIVENESS pings registers again. Every process, the broker too, has a
health checker, which pings it over a socket of its own, kills it when it stays
silent and starts a new one; nobody is told.

What is hard: the order of registrations of several groups; late results against
request timeouts; slow copies against dead ones; a REP socket that is replaced
while a thread still uses it; sends to clients that have left; counters that are
only ever corrected in one direction; a broker that is replaced while
registrations, requests and results are on their way; deadlines of broker and
copy that depend on each other and on the load. `PROJECT.json` lists these hazards with
the lines and the properties aimed at them.

## 2. Modules

    Communication <- Voter <- ServiceDatabase <-+
                 \                              +- RSF_Broker <-+
                  +- ZMQ <----------------------+               |
                          \- RSF_Server <-----------------------+- RSF
                           \- RSF_Client <----------------------+
    Voter <- VoterProofs
    RSF <- RSFImplements <- MCRSF        (RSFImplements instantiates ReliableService)
    RSF <- Recovery <- MCRecovery
    RSF <- RSFProofs <- CallProofs;  CallProofs, RSFImplements <- ReliabilityProofs
    Recovery, CallProofs <- RecoveryProofs
    Time <- Timers <- MCTimers,          Timers <- TimersProofs
    HealthChecker <- MCHealthChecker,    HealthChecker <- HealthCheckerProofs

* `Communication`: constants, message sets, service bodies. Byte order
  conversions and the text form of the parameters cancel out between two ends.
* `Voter`: `count`, `max` and `vote` follow the two loops of `vote()`; indices
  are returned from 0 as in the code, `NO_MAJORITY` is -1.
* `ServiceDatabase`: the operations as operators on records. `request_records`
  is a set whose elements carry the sequence number that `get_request_id` has
  just handed out, so that the vector order is the order of the labels;
  `Erased` keeps the skip-after-erase of `delete_request`, `Minus8` the uint8_t
  subtraction.
* `ZMQ`: queues per connection, DEALER round robin with the swap that a leaving
  peer causes. At most one registration of dead processes waits per copy.
* `RSF_Broker`: one action per path through a handler. `broker` is `"up"` or
  the way in which the process has ended: `exit(EXIT_FAILURE)`, an exception
  nobody catches, or undefined behaviour (a vector access out of bounds), after
  which nothing is claimed. A handler that throws half-way leaves no table
  behind that anybody could read.
* `RSF_Server`: one process per copy. `busy` says that the REP socket owes the
  answer of a thread. `orphans` are threads whose socket has been deleted: they
  answer on the socket that took its place (`OrphanAnswers`) or end the process
  (`OrphanThrows`).
* `RSF_Client`: `request_service` up to `recv` and from `recv` on.
* `RSF`: the composition, the timing assumption, fairness and the properties.
* `ReliableService`, `RSFImplements`: what a client is promised, without copies,
  votes or failures, and the mapping under which `RSF` implements it: a call is
  pending from `request_service` on and answered once a response is on its way.
* `Recovery`: `RSF` with a broker that ends at any moment and is replaced. Of
  every queue any part may be lost with it; the identities its ROUTER socket had
  given to clients mean nothing to the next broker (`Anonymous`); ZeroMQ
  reconnects, so that a copy with an old port is connected again when that port
  is bound again. `lost` remembers the copies whose registration, or the answer
  to it, went down. With several services the new broker may give an old port to
  another service (section 8), so that the promises of this module are checked, and
  proved, for one service (`OneService`).
* `HealthChecker`: deployment and supervision. `ping[p]` is the one ping a REQ
  socket can have outstanding: `queued` until somebody has bound the port,
  `delivered` to a process, `answered`, or `lost` with the process that had it.
  `pong_arrived` and `hb_liveness` are the variables of `step()`. `Hang` stops the
  loop of a process that stays alive.
* `Time`, `Timers`: the clock arithmetic with its two units as parameters, and
  the heartbeat timeout of the broker against the ping timeout of a copy in
  explicit time. `Tick` advances the clock unless something is overdue: the
  broker's loop polls for at most 50 ms, the copy's does not sleep, a message
  takes at most `DELAY`. The other copies of the group work in step with the one
  that is modelled.

Handlers are atomic because the broker is a single thread and two handlers
share nothing with the outside but queues. `check_pending_requests` is modelled
one expired request at a time: deadlines pass in the order of the vector, and
stopping between two requests only adds interleavings. The loop of the code works
on a copy of the pending requests (`broker_class.cpp:467-468`), the model on the
table itself; the two differ only when one client has two records there, which
takes a record that `ExpiredFrom` has left behind (run `wrong_service`): otherwise a
client has one record at most, as `CallProofs` shows. A heartbeat or a request
timeout may occur at any moment.

**Timing.** With `Timely = FALSE` nothing is assumed. With `Timely = TRUE` the
model assumes what the intervals in `communication.hpp:29-34` are chosen for:
a live copy is at most LIVENESS - 1 heartbeat rounds late, a copy misses pings
only while its service is not available, and a dead copy comes back only after
the broker has counted it out. `Settled`, `UpToDate` and `GivenUp`, which say this,
are assumptions and translate no line of the code. `Timers` shows what this rests on: as every
request postpones the heartbeat, a copy has served all requests before it reads
the ping behind them, so that pongs of live copies are never counted as lost
(`PongsHeard`, while the load fits the interval: up to three clients at half a
second a call) and live brokers are heard (`BrokerHeard`); a dead copy is
counted out within (LIVENESS + 1) x 2.05 s = 8.2 s of its death, and its health
checker replaces it after 3 x 5 s. Requests put detection off without bound: a
client that calls at least every 2 s keeps a dead copy in the count, and a copy
that is restarted meanwhile is outside of `Timely`.

`Timers` starts when the copy it models completes its group. A copy that has
registered earlier has been waiting since, and its first deadline may pass before
the first ping of the group: it counts losses of a broker that lives, and with
LIVENESS of them gives it up. `RSF` has these losses, as long as the service is not
available (`MissesPing`); with `Timely` it leaves out those between the completion of
the group and the first ping. Such a loss touches nothing but the counter of the copy
and could as well have come before the registration that completed the group, where
`RSF` has it; what is left out is a copy that gives the broker up while its first
messages are on their way.

**Bounds** (all named constants): `MaxRequests` calls per client,
`MaxHeartbeats` rounds per service, `MaxAnswers` unread responses, and the sets
of copies that may fail (`Mortal`, `Faulty`) and of clients that may leave. With
`LIVENESS` = 1 a copy is counted out in the second round, because `lost_pong`
starts at -1. `MaxCrashes` bounds the ends of the broker, `MaxTime` the readings
of the clock, `Failing` the processes that may crash or hang.

## 3. Runs

| Run | Instance | Shows |
|---|---|---|
| `one_faulty` | 3 copies, one faulty and mortal, 2 rounds, a client that may leave | a call that returns true returns the right value, is answered once and as soon as its results are decided, although copies are counted out and a request may be dealt to one copy twice; `RSF` implements `ReliableService` |
| `heartbeats` | 3 copies, one mortal, LIVENESS 2, 5 rounds | types; pings reach every peer; no serving copy is given up, although its pongs may be a round late |
| `duplicates` | 2 copies, one mortal, 1 client with 3 calls, LIVENESS 1, 2 rounds | a copy refuses as duplicated only what it has served: no live copy is left out when a request is dealt |
| `two_clients` | no timing, 2 clients, 1 call each, 2 copies | results are never filed under another client's request, no call is answered twice, every call returns while the broker runs, also when copies give the broker up, are refused and end |
| `recovery` | 2 copies, 1 client, 1 crash of the broker, 1 round | a call is in one place at most and never answered twice; a copy that waits for a registration gets an answer unless it was lost; the service becomes available again |
| `timers` | sixths of a second: interval 12, slack 3, work 3, delay 1, LIVENESS 2, 2 clients | neither side takes a live peer for dead; dead ones are given up in bounded time; deadlines are seen in time, also at a full second |
| `deployment` | 2 services of 2 copies and the broker, HEARTBEAT_LIVENESS 2; the broker and a copy may crash or hang | the REQ socket is used in turns; a checker hears of its own process only; failed processes are replaced; live ones are killed only if their ping was lost |

Two copies with NMR 2 are the smallest group in which a majority needs more than
one answer; three are the configuration of the repository (`include/test.hpp`).
One faulty copy of three is the fault the voter is meant for. Two rounds with
LIVENESS 1 are enough for a copy to be counted out and to come back; five with
LIVENESS 2 for it to be counted out, come back and be heard again. Three calls are
the fewest with which a copy can serve one, miss the next and refuse the third. One crash of
the broker in every state, with every part of the messages lost, reaches all the
ways in which copies and clients can meet a new broker; a second one starts from
the same kinds of states. In `timers`, 58 readings are more than the longest
bound stated (39); intervals keep the ratios of `communication.hpp` (2000 : 500 :
500 ms). The clock starts in the middle of a second of six units, so that half a
second of work, and half a second of slack, end exactly at a full second. Copies are
interchangeable where none is singled out, which the symmetry sets express; no
symmetry is used where liveness is checked. Deadlock is checked in `deployment`,
which never stops; elsewhere clients make a bounded number of calls, the broker
may end and the clock has a last reading.

`InOrder` in `OneAnswer` and `NoSilentMajority` restricts them to states in
which the services have become available in the order of their numbers; outside
of it `wrong_service` (below) applies. `Isolation` is checked for the first call
of each client; for later ones `stale_results` applies.

**Fairness.** `two_clients`: weak fairness of the broker's handlers per client and
per copy, of `check_pending_requests`, and of the `recv` of a client that has a
response. The loop in `step()` polls every socket and reads the clock in each
iteration, and ZeroMQ takes turns among peers. Nothing is assumed of the copies,
so that the request timeout is what the call depends on. `recovery`: the health
checkers replace what has ended, a copy goes on looking at its clock and at its
registration socket, and the broker serves its REG socket; nothing is assumed of
clients, requests or heartbeats. `deployment`: a health checker's `poll` returns
again and again, a started process gets to `bind` and a live one answers the
pings it has got (both loops poll that socket in every iteration).

**What supervision does not give.** `KilledOnlyIfPingLost` allows for one case, and
it happens: when a process dies or hangs with a ping in hand, that ping is lost,
`pong_arrived` stays false and `step()` sends no other. Each successor is then
killed HEARTBEAT_LIVENESS polls after its start although it works; `Replaced` says
no more than that a failed process is followed by one that comes up. The health checker
that kills a process cannot start the next one before the port is free in the model;
in the code such a bind would throw and the successor would be replaced in turn. After
a crash of the broker, a call that went down with it waits for ever (`CallOnce`
bounds it by one place, not by one answer), and so does a copy whose registration
did (`lost`). A copy that registers again while the group is incomplete is
counted again, so that the service may become available with fewer than NMR
distinct copies.

### Disagreements between code and documentation

| Run | Property | What happens |
|---|---|---|
| `stale_results` | `ReliableResult` | late results of a call that timed out decide the next call of the same client: it returns true with the wrong value (`rsf_api.hpp:79`) |
| `dealer_index` | `DealerIndexRight` | overlapping groups get each other's DEALER index (`service_database_class.hpp:48`) |
| `half_registered` | `NoOutOfBounds` | a request for an incomplete group indexes `dealer` and `timeout` past their end (`broker_class.cpp:179`) |
| `wrong_service` | `NoExit` | the expired request is deleted from service number *i* instead of `available_services[i]` and the broker exits (`broker_class.cpp:493`) |
| `underflow` | `NoUnderflow` | a slow copy is subtracted repeatedly and `num_copies_reliable` wraps to 255 (`service_database_class.hpp:44`) |

## 4. Proofs

TLAPS checks these for every value of the constants that satisfies the named
assumptions in the modules (for the framework: 1 <= NMR
<= 255 copies per service, 1 <= LIVENESS <= 127, services among the three that
have a body).

* `VoterProofs!VoteSound`: `vote` meets `VoteCorrect` on every sequence of at
  most NMR integers. A count is at most NMR, so that two values cannot both have
  more than NMR / 2 votes; the first position with the largest count exists by
  the well-ordering of the naturals.
* `VoterProofs!DecisionFinal`: when there is a decision, one more result does not change
  it. It takes no votes from a value (`MajorityStays`), so that the value decided keeps its
  majority of NMR and by `VoteSound` stays the only one: answering early is as good as
  waiting.
* `RSFProofs!TypeCorrect`: `TypeOK` is an invariant of the whole framework.
  Types alone are not inductive. The invariant `IndInv` adds that the two copy
  counters are equal (otherwise `num_copies_reliable` could pass 255 where only
  `num_copies_registered` is tested), that stored requests carry numbers already
  handed out (so that "the last one" exists), and that a registered copy has
  counted fewer than LIVENESS lost pings.
* `RSFProofs!RoutingCorrect`: `RoutingSafe` is an invariant, for any number of services
  that register in any interleaving, with every crash, fault and timing. (It says
  something from two services on only, and no run checks it: the passing runs of `RSF`
  have one service.) `IndInv` follows the port from the table to the peers: ports
  of services are distinct and below `available_dealer_port` (`Ports`), a port on
  its way to a copy or used by it is that of its service (`PortsKnown`), the
  i-th socket is bound to the port of the i-th available service (`Tables`), and
  its peers are distinct live copies that use this port (`Connections`). A peer
  of socket i thus uses the port of `available_services[i]`, which no other
  service has (`PeersOfService`).

The proof of the step has one lemma per action; frame lemmas (`BrokerFrame`,
`CopyFrame`, `ClientFrame`, `RouteFrame`) say what a step that binds and connects
nothing has to keep. `IndInv` was checked with TLC first, with two services that
register in every interleaving, and over crashes of the broker.

* `CallProofs!OneAnswerCorrect` and `NoSilentMajorityCorrect`, for any number of
  services, copies and clients and any timing. The number of places of a call is
  not inductive as it stands. `CallState(c, loss)` names the three forms in which
  the call of a waiting client exists (a request in `router_in`, one record in the
  whole table, a response in `router_out`) and says that an idle client has none;
  `QueueState` is what is left of it when the broker has ended;
  `Undecided` says that a stored request is below a majority and below NMR results.
  They need each other: only because the table holds one record of the client does
  the result that decides it, and the deletion that follows, take away all of it
  (`HeldReplace`). The proof splits `get_response` and `check_pending_requests` by
  what they find: no record, one more result, a decision, an expired request. As
  in the properties, `InOrder` is the hypothesis under which the expired request
  is deleted from the right service (`RightService`); services never become
  unavailable, so that a state in order had only predecessors in order.
* `RecoveryProofs!RecoveryTypeCorrect`, `CallOnceCorrect` and `RegistrationCorrect`: over
  any number of crashes of the broker, with any part of any queue lost, for one service
  (hypothesis `OneService`; section 8 says what happens with two). The invariant
  `RecoveryInv` contains `IndInv`, which survives the new broker because ports are
  handed out from DEALER_START_PORT again and there is one service to take the first
  one: a copy that still uses it is rightly connected again. `CallState` is used with
  `loss` true, where a waiting client may have its call nowhere; `Anonymous` takes the
  results that arrive later out of reach of `Matching`. `InFlight` is
  `RegistrationInFlight` strengthened to hold while there is no broker.
* `ReliabilityProofs!ReliableResultCorrect` and `IsolationCorrect`: for any NMR, a
  minority of faulty copies in each service is masked, and without faults no result
  is filed under the request of another client. The argument counts. A copy gives at most
  one result to the one call of a client (`AtMostOnce`), although the round robin may deal
  it the same request twice: while it serves the call or its answer is on its way, what is
  left of the call in its queue is older than its `request_id` and will be refused
  (`AllPast`). Once its result has been taken it is spent (`Spent`), for ever. Hence the
  wrong results of a record are no more than the spent faulty copies (`Masked`), which
  are at most NMR / 2, and by `VoteSound` a value with more than NMR / 2 votes is the
  right one. The invariant is `MaskInv`, together with `IndInv`. Two hypotheses mark
  where the code stops being reliable. `MaxRequests <= 1`: with a second call, results of the
  first are counted for it, which is what `stale_results` shows. `NoOrphans`: a thread whose
  socket has been deleted answers on the new one, in the envelope of whatever request
  that socket has read, so that a correct result may go to the wrong call.
* `ReliabilityProofs!ThreadsKeepSockets`: with `Timely` the second hypothesis holds. A copy
  that registers again was connected to nothing while its service was not available, so
  that its socket has no request and no thread (`Tied`). `TimelyReliable` and
  `TimelyIsolated` put both together. Without `Timely`, NoOrphans is a real restriction:
  run `recovery` has threads that lose their socket.
* `ReliabilityProofs!PingsReachAllCorrect` and `NoFalseAlarmCorrect`: with `Timely`, for
  any number of services, clients and copies that crash at will. The invariant is `BeatInv`.
  `num_copies_reliable` is an odd number: it goes down with a copy that is counted out, up
  with every registration, and is not told of a copy that comes back by a late pong.
  `Enough` says that it still covers every copy that is `Heeded`: connected or about to be,
  not counted out, or with a pong under way that will restart its count. A copy leaves that
  set only when check_pong counts it out, which takes one off both. So the pings of a round
  are at least as many as the peers (`PeersFit`), and as the socket deals them in turn each
  peer gets one (`EveryPeerDealt`, by `EveryTurn`: of n consecutive turns, one is any
  given peer's). Conversely, a live copy one lost pong away from LIVENESS has a ping or
  pong under way (`Watched`), and with `Timely` that has arrived before the next round: whoever
  is counted out is dead (`CountedOutDead`). The theorems need `LIVENESS >= 2` (the code
  has 3): with 1, the late pong of a dead process restarts the count at 0, which is
  already one below LIVENESS, and its successor is counted out before it has been pinged.
* `ReliabilityProofs!ReliableImplements` and `TimelyImplements`: the refinement
  `Implements`, whose abstract specification is safety only. A response put into an empty
  queue of a waiting client is an abstract `Answer`, and `ReliableResult` after the step
  says that it is one of those allowed; any other response is invisible, as the head of the
  queue stays (`AppendHead`); what ends the broker is `Answer` or `Fail`; steps of copies and
  of the network are stutters. Besides `IndInv` this needs that a client between calls has
  no arguments (`IdleCalls`). Hence the framework implements the abstract service whenever
  no wrong result is given, and by `TimelyReliable` it gives none with `Timely`, a minority of
  faulty copies and one call per client.

* `TimersProofs!DeadlineSound`: for every reading of the clock, every interval and
  any units, the deadline `time_add_ms` computes is neither seen early nor missed
  by `time_cmp`. The sum stands for the right moment whether or not it is
  normalised (`DeadlineTotal`), and `time_cmp` orders a reading and a sum with
  `tv_nsec` of up to a full second like the moments they stand for, except at the
  very deadline (`Compare`).
* `TimersProofs!DeadlinesCorrect`: hence `DeadlinesRight` in every behaviour of
  `Timers`; the invariant is that the clock stays normalised.
* `TimersProofs!BrokerHeardCorrect` and `GivesUpInTimeCorrect`, if POLL + 1 + DELAY <
  WCDPING and BUSY < HEARTBEAT_INTERVAL + WCDPING (`IntervalsFit`, which the values of the
  code meet while a message takes less than 449 ms), and, if moreover 2 DELAY + Clients x
  BUSY < HEARTBEAT_INTERVAL (`LoadFits`: up to three clients and 249 ms), `PongsHeardCorrect` and
  `DetectedInTimeCorrect`: the bounds of `Timers`, for all intervals and units. The
  invariant `TimersInv` rests on one observation: the broker puts its timeout off with
  every message it sends to the copy, so that timeout - HEARTBEAT_INTERVAL is the moment of
  the last one (`Last`), and all the work under way is finished DELAY and Clients x BUSY
  later (`Finished`). `Busy` and `Idle` say that the queue of the copy, at BUSY a call, is
  on schedule for that moment; `Load` counts the calls. Under `LoadFits` a heartbeat round
  therefore finds nothing under way (`RoundOver`), and a pong that was to come has come.
  `Detection` and `GivingUp` bound the deadlines of the survivor by the rounds that are
  left. Moments lie on a grid of milliseconds (`OnGrid`): time cannot step over a deadline.
  `LoadFits` is sufficient, not necessary, but the load matters: with an interval of 4
  units and three calls of 3, TLC finds the pong of a live copy counted as lost.
* `HealthCheckerProofs`: `HCTypeCorrect`, `AlternationCorrect`, `OwnPongCorrect` and
  `KillingCorrect`, for any set of services, up to MAX_NMR copies and whatever
  fails. The invariant is `HCTypeOK`, `Alternation`, `OwnPong` and `Dormant` (a
  checker that does not run has no ping), which need each other: `Ends` changes
  the pings of a process, and only `OwnPong`, by the distance of the pong ports
  (`PortsDiffer`), makes them the pings of its own checker. Killing follows by
  cases on where the ping is: a live process with its ping queued or delivered
  does not let the poll end in silence, and an idle ping is sent again first.

Only model-checked: liveness under fairness (`Answered`, `Recovers`, `Replaced`),
which is out of the prover's reach, and the action property `RefusedOnlyIfServed`, for
which an invariant about the order of the numbers in the queues of the copies is still to
be found. Every other safety property a passing run checks is proved as well, the
refinement `Implements` and the other action properties included.

## 5. Running

    tlc -config heartbeats.cfg MCRSF   (timers: MCTimers, deployment: MCHealthChecker,
                                        recovery: MCRecovery)
    tlapm RSFProofs.tla                (also CallProofs, RecoveryProofs, ReliabilityProofs,
                                        VoterProofs, TimersProofs, HealthCheckerProofs)

## 6. What makes each component correct

* Database and broker: a call is in one place at a time (`OneAnswer`), results
  stay with their request (`Isolation`), copies, ports and DEALER sockets of several
  services are not mixed up (`RoutingSafe`), counters count what they are named for.
* Voter: `VoteCorrect`, and an early decision is final (both proved, `VoterProofs`).
* Copies: a request is served once (`ReliableResult` with a faulty copy that is
  dealt the same request twice) and refused only then (`RefusedOnlyIfServed`),
  heartbeats tell slow from dead (`NoFalseAlarm`).
* Client: `Answered`, `ReliableResult`, and both in one: `Implements`.
* Health checkers: a dead process is replaced (`Replaced`), a live one is left
  alone (`KilledOnlyIfPingLost`), sockets are used as ZeroMQ demands
  (`Alternation`) and by those they are meant for (`OwnPong`).
* Time: `DeadlineRight`; the intervals fit together (`BrokerHeard`, `PongsHeard`,
  `DetectedInTime`, `GivesUpInTime`).
* Broker and its successor: `CallOnce`, `RegistrationInFlight`, `Recovers`.

## 7. Plan

Done: the framework with types and routing, the calls of its clients, the masking of
faults and the heartbeats proved; health checkers and deployment, checked and proved;
the restart of the broker, checked and its safety proved; clock arithmetic and
the bounds that hold in real time, checked and proved; the abstract service and its
refinement, checked and proved.

Next:
1. `RefusedOnlyIfServed` for every instance.
2. A weaker `LoadFits`: a ping is read before the calls that come after it, so that a
   backlog of almost two intervals should do.

## 8. Not modelled, and why

* Restart of the broker with several services. Ports are handed out from
  DEALER_START_PORT again (`broker_class.cpp:30`), in the order in which services
  register now, while a copy keeps the port it has: it becomes a peer of the DEALER
  socket of another service, which deals it pings and requests, and its pong for a
  service that has not registered ends the broker (`register_pong`). `Recovery` with
  two services has such a behaviour of ten steps; `RoutingSafe` does not hold there.
* The clocks of a copy that waits for its group (section 2, Timing), and the clocks of a
  copy that registers again.
* Failure of `fork` or `exec`: `pid` would be -1 and the next restart would kill
  every process of the user.
* More copies than NMR or MAX_NMR: ids would index the pong vectors out of bounds,
  or pong ports would collide.
* `delete` of the uninitialised `reply` before the first registration.
* Concurrent use of one ZeroMQ socket by two threads: a send is atomic here.
* Overflow of the 32-bit service bodies and sequence numbers: out of reach of the
  bounds and of no effect on the properties.
* The request timeout in real time: in `RSF` it may pass at any moment.
* `time_copy` and `time_add_ns`, which have no callers; logging, printing, argument
  parsing.
