---------------------------- MODULE ThreadQueue ----------------------------
(***************************************************************************)
(* EVENT::semaphore (event/semaphore.hpp) and EVENT::Thread_Queue          *)
(* (event/thread_queue.hpp) of the Modbus slave: the queue that carries    *)
(* the FreeModbus events from the TCP thread, the serial threads and the   *)
(* timer to the polling thread.                                            *)
(*                                                                         *)
(* Two mutexes are involved and no call holds both: send() pushes under    *)
(* the queue's mutex, releases it, then signals under the semaphore's; a   *)
(* receive() waits on the semaphore and pops under the queue's mutex       *)
(* afterwards.  An action is one critical section, so the gaps between the *)
(* two mutexes are visible.  The condition variable is the set of threads  *)
(* whose control state is "blocked".                                       *)
(***************************************************************************)
EXTENDS Naturals, Sequences, FiniteSets

CONSTANTS
  Senders,    \* threads that call send()
  Receivers,  \* threads that call receive()
  Events,     \* the queue's element type
  NoEvent,    \* the receiver's object before its first successful receive()
  MaxPosts    \* bound on the number of send() calls

ASSUME QueueAssumption ==
  /\ IsFiniteSet(Senders)
  /\ IsFiniteSet(Receivers)
  /\ MaxPosts \in Nat

VARIABLES
  queue,      \* queue_
  wakeups,    \* wakeups_
  spc,        \* sender: "idle" or "pushed" (event pushed, semaphore not yet signalled)
  rpc,        \* receiver: see RState
  got,        \* the object the receiver's last successful receive() filled in
  posts       \* send() calls made so far

vars == <<queue, wakeups, spc, rpc, got, posts>>

SState == {"idle", "pushed"}

(* "blocked"  inside cv_.wait_for, waiting for a notification;             *)
(* "notified" woken (by notify_one or spuriously), about to re-test;       *)
(* "expired"  the timeout elapsed, about to test the predicate once more;  *)
(* "token"    semaphore_.wait returned true, queue not yet popped.         *)
RState == {"idle", "blocked", "notified", "expired", "token"}

Pushed   == {s \in Senders : spc[s] = "pushed"}
In(st)   == {r \in Receivers : rpc[r] = st}

TypeOK ==
  /\ queue \in Seq(Events)
  /\ wakeups \in Nat
  /\ spc \in [Senders -> SState]
  /\ rpc \in [Receivers -> RState]
  /\ got \in [Receivers -> Events \cup {NoEvent}]
  /\ posts \in Nat

Init ==
  /\ queue = <<>>
  /\ wakeups = 0
  /\ spc = [s \in Senders |-> "idle"]
  /\ rpc = [r \in Receivers |-> "idle"]
  /\ got = [r \in Receivers |-> NoEvent]
  /\ posts = 0

----------------------------------------------------------------------------
(* Mutant: the semaphore is signalled before the event is pushed.          *)
Push_SignalFirst(s, e) ==
  /\ spc[s] = "idle"
  /\ posts < MaxPosts
  /\ wakeups' = wakeups + 1
  /\ spc' = [spc EXCEPT ![s] = "pushed"]
  /\ posts' = posts + 1
  /\ UNCHANGED <<queue, rpc, got>>

(* send(): push under mutex_ ...                                           *)
Push(s, e) ==
  /\ spc[s] = "idle"
  /\ posts < MaxPosts
  /\ queue' = Append(queue, e)
  /\ spc' = [spc EXCEPT ![s] = "pushed"]
  /\ posts' = posts + 1
  /\ UNCHANGED <<wakeups, rpc, got>>

(* Mutant: signal() without notify_one().                                  *)
Signal_NoNotify(s) ==
  /\ spc[s] = "pushed"
  /\ wakeups' = wakeups + 1
  /\ spc' = [spc EXCEPT ![s] = "idle"]
  /\ UNCHANGED <<queue, rpc, got, posts>>

(* ... then semaphore_.signal(): count the wakeup and notify one waiter,   *)
(* if there is one.                                                        *)
Signal(s) ==
  /\ spc[s] = "pushed"
  /\ wakeups' = wakeups + 1
  /\ spc' = [spc EXCEPT ![s] = "idle"]
  /\ \/ \E r \in In("blocked") : rpc' = [rpc EXCEPT ![r] = "notified"]
     \/ In("blocked") = {} /\ UNCHANGED rpc
  /\ UNCHANGED <<queue, got, posts>>

(* The predicate of wait(): take a wakeup if there is one, otherwise go to *)
(* the state given.                                                        *)
Test(r, otherwise) ==
  /\ \/ /\ wakeups > 0
        /\ wakeups' = wakeups - 1
        /\ rpc' = [rpc EXCEPT ![r] = "token"]
     \/ /\ wakeups = 0
        /\ rpc' = [rpc EXCEPT ![r] = otherwise]
        /\ UNCHANGED wakeups
  /\ UNCHANGED <<queue, spc, got, posts>>

Enter(r) == rpc[r] = "idle" /\ Test(r, "blocked")

Retest(r) == rpc[r] = "notified" /\ Test(r, "blocked")

(* wait_for evaluates the predicate once more after the deadline; receive  *)
(* returns false when it still fails.                                      *)
LastTest(r) == rpc[r] = "expired" /\ Test(r, "idle")

(* A condition variable may wake a waiter without a notification.          *)
SpuriousWake(r) ==
  /\ rpc[r] = "blocked"
  /\ rpc' = [rpc EXCEPT ![r] = "notified"]
  /\ UNCHANGED <<queue, wakeups, spc, got, posts>>

Expire(r) ==
  /\ rpc[r] = "blocked"
  /\ rpc' = [rpc EXCEPT ![r] = "expired"]
  /\ UNCHANGED <<queue, wakeups, spc, got, posts>>

(* Mutant: receive() reads the newest event instead of the front.          *)
Pop_Newest(r) ==
  /\ rpc[r] = "token"
  /\ rpc' = [rpc EXCEPT ![r] = "idle"]
  /\ \/ /\ queue # <<>>
        /\ got' = [got EXCEPT ![r] = queue[Len(queue)]]
        /\ queue' = SubSeq(queue, 1, Len(queue) - 1)
     \/ queue = <<>> /\ UNCHANGED <<got, queue>>
  /\ UNCHANGED <<wakeups, spc, posts>>

(* receive(), second half: pop under mutex_; an empty queue returns false. *)
Pop(r) ==
  /\ rpc[r] = "token"
  /\ rpc' = [rpc EXCEPT ![r] = "idle"]
  /\ \/ /\ queue # <<>>
        /\ got' = [got EXCEPT ![r] = Head(queue)]
        /\ queue' = Tail(queue)
     \/ queue = <<>> /\ UNCHANGED <<got, queue>>
  /\ UNCHANGED <<wakeups, spc, posts>>

SenderStep(s) == Signal(s) \/ \E e \in Events : Push(s, e)

ReceiverStep(r) ==
  Enter(r) \/ Retest(r) \/ LastTest(r) \/ SpuriousWake(r) \/ Expire(r) \/ Pop(r)

Next == (\E s \in Senders : SenderStep(s)) \/ (\E r \in Receivers : ReceiverStep(r))

Spec == Init /\ [][Next]_vars

(* The kernel schedules every runnable thread: a sender finishes its call, *)
(* a woken receiver finishes its own, and the polling loop calls again     *)
(* (main.cpp:110).  Nothing is assumed of timeouts, spurious wakeups or of *)
(* new sends.                                                              *)
Fairness ==
  /\ \A s \in Senders : WF_vars(Signal(s))
  /\ \A r \in Receivers :
       WF_vars(Enter(r)) /\ WF_vars(Retest(r)) /\ WF_vars(LastTest(r)) /\ WF_vars(Pop(r))

FairSpec == Spec /\ Fairness

----------------------------------------------------------------------------
(* The counts agree: each queued event is announced by a wakeup, claimed   *)
(* by a receiver between its wait and its pop, or belongs to a send that   *)
(* has not signalled yet.  An event without a wakeup would never be        *)
(* received; a wakeup without an event would make receive() fail.          *)
WakeupPerEvent ==
  Len(queue) = wakeups + Cardinality(Pushed) + Cardinality(In("token"))

(* semaphore::wait: a receiver stays blocked only while the wakeups left   *)
(* are all covered by receivers already on their way to re-test.           *)
NoLostWakeup ==
  In("blocked") # {} => wakeups <= Cardinality(In("notified"))

(* receive(): the test queue_.size() != 0 after a successful wait never    *)
(* fails, whatever the interleaving of senders and receivers.              *)
ClaimFindsEvent ==
  \A r \in Receivers : rpc[r] = "token" => queue # <<>>

----------------------------------------------------------------------------
(* The class implements the abstract event queue.                          *)
Abstract == INSTANCE EventQueue WITH
  box       <- queue,
  sending   <- Pushed,
  receiving <- {r \in Receivers : rpc[r] # "idle"}

(* receive() hands out events in the order of send(), and comes back empty *)
(* only when no completed send is left for it.                             *)
ImplementsQueue == Abstract!Spec

(* With threads that keep running, an event in the queue is eventually     *)
(* received.                                                               *)
ImplementsFairQueue == Abstract!FairSpec
============================================================================
