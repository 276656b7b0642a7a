------------------------------- MODULE MCTcp -------------------------------
(***************************************************************************)
(* ModbusTcp with the clients the slave was written for, and with clients   *)
(* that do not wait, announce more than they send and reset connections.    *)
(* `which' says which of them a behaviour has.                              *)
(***************************************************************************)
EXTENDS MCModbusTcp

VARIABLE which

Impatient == INSTANCE ModbusTcp WITH
  NumRequests <- 2, Data <- MCTwoData, Announced <- MCBadAnnounced, Pid <- MCTwoPid,
  Exact <- MCTwoExact, Window <- 2, Patient <- FALSE, MayReset <- TRUE

MCInit == \/ which = "patient" /\ Init
          \/ which = "impatient" /\ Impatient!Init
PatientNext == which = "patient" /\ Next /\ UNCHANGED which
\* One such client is enough to send everything the receiver can meet.
ImpatientNext ==
  which = "impatient" /\ Impatient!Next /\ phase'["c2"] = "new" /\ UNCHANGED which
MCNext == PatientNext \/ ImpatientNext

(* The fairness of ModbusTcp, for the clients that wait.                    *)
MCFairness ==
  /\ WF_vars(which = "patient" /\ MainStep)
  /\ WF_vars(which = "patient" /\ Accept)
  /\ WF_vars(which = "patient" /\ (StartSession \/ Recv \/ RecvEnd \/ RecvFails \/ Copy \/ Grow
                                   \/ CheckFrame \/ PostReceived \/ CloseSession))
MCSpec == MCInit /\ [][MCNext]_<<which, vars>> /\ MCFairness

(* With clients that wait: the buffer belongs to the main thread until the  *)
(* reply is sent, replies are right, requests run once and are answered,    *)
(* see ModbusTcp.                                                           *)
PatientOwned == which = "patient" => BufferOwned
PatientServed == which = "patient" => RepliesCorrect /\ RunsOnce
PatientAnswered == which = "patient" => RequestsAnswered
============================================================================
