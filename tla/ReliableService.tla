-------------------------- MODULE ReliableService --------------------------
(***************************************************************************)
(* What the framework promises its clients: a call of request_service is   *)
(* answered once, with the value the service body has for its arguments,   *)
(* or with the statement that there is none (NOT_AVAILABLE) or none that   *)
(* can be trusted (NOT_RELIABLE); a client that has got no answer waits.   *)
(* Copies, votes, timeouts and failures do not appear.                     *)
(***************************************************************************)
EXTENDS Communication

CONSTANT Arguments   \* what may be passed to a service

VARIABLES
  call,    \* call[c]: where the call of client c is
  alive    \* there is somebody to answer

vars == <<call, alive>>

NoCall == [status |-> "idle", service |-> SERVICE_NOT_FOUND, parameters |-> 0,
           answer |-> {}]

Init == call = [c \in Client |-> NoCall] /\ alive = TRUE

Request(c, s, p) ==
  /\ call[c] = NoCall
  /\ call' = [call EXCEPT ![c] = [status |-> "pending", service |-> s,
                                  parameters |-> p, answer |-> {}]]
  /\ UNCHANGED alive

Answers(s, p) ==
  {Available(service_body(s, p)), Failure("NOT_AVAILABLE"), Failure("NOT_RELIABLE")}

Answer(c) ==
  /\ alive
  /\ call[c].status = "pending"
  /\ \E r \in Answers(call[c].service, call[c].parameters) :
       call' = [call EXCEPT ![c].status = "answered", ![c].answer = {r}]
  /\ alive' \in BOOLEAN

Return(c) ==
  /\ call[c].status = "answered"
  /\ call' = [call EXCEPT ![c] = NoCall]
  /\ UNCHANGED alive

Leave(c) ==
  /\ call[c].status # "gone"
  /\ call' = [call EXCEPT ![c] = [NoCall EXCEPT !.status = "gone"]]
  /\ UNCHANGED alive

Fail == alive /\ alive' = FALSE /\ UNCHANGED call

Next ==
  \/ \E c \in Client :
       \/ \E s \in Service, p \in Arguments : Request(c, s, p)
       \/ Answer(c) \/ Return(c) \/ Leave(c)
  \/ Fail

Spec == Init /\ [][Next]_vars
=============================================================================
