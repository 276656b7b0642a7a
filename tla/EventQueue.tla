---------------------------- MODULE EventQueue ----------------------------
(***************************************************************************)
(* What EVENT::Thread_Queue promises its callers, without its mutexes, its *)
(* condition variable and its semaphore: a FIFO box of events, senders     *)
(* that return some time after their event is in the box, and receivers    *)
(* that leave a call either with the oldest event or, on a timeout, with   *)
(* nothing.  ThreadQueue implements this specification; ModbusTcp uses it  *)
(* (one atomic step per send and per receive).                             *)
(***************************************************************************)
EXTENDS Naturals, Sequences, FiniteSets

CONSTANTS
  Senders,    \* threads that call send()
  Receivers,  \* threads that call receive()
  Events,     \* what can be sent
  NoEvent     \* the object of a receive() that has not returned anything yet

VARIABLES
  box,        \* the events sent and not yet received, oldest first
  sending,    \* senders whose event is in the box and whose call has not returned
  receiving,  \* receivers inside a call
  got         \* the event each receiver obtained last

vars == <<box, sending, receiving, got>>

Init ==
  /\ box = <<>>
  /\ sending = {}
  /\ receiving = {}
  /\ got = [r \in Receivers |-> NoEvent]

Post(s, e) ==
  /\ s \notin sending
  /\ box' = Append(box, e)
  /\ sending' = sending \cup {s}
  /\ UNCHANGED <<receiving, got>>

PostReturns(s) ==
  /\ s \in sending
  /\ sending' = sending \ {s}
  /\ UNCHANGED <<box, receiving, got>>

Call(r) ==
  /\ r \notin receiving
  /\ receiving' = receiving \cup {r}
  /\ UNCHANGED <<box, sending, got>>

Deliver(r) ==
  /\ r \in receiving
  /\ box # <<>>
  /\ got' = [got EXCEPT ![r] = Head(box)]
  /\ box' = Tail(box)
  /\ receiving' = receiving \ {r}
  /\ UNCHANGED sending

(* A receiver may leave empty-handed only if every event in the box is     *)
(* either part of a send still in progress or left to another receiver     *)
(* that is inside its own call.                                            *)
GiveUp(r) ==
  /\ r \in receiving
  /\ Len(box) <= Cardinality(sending) + Cardinality(receiving \ {r})
  /\ receiving' = receiving \ {r}
  /\ UNCHANGED <<box, sending, got>>

Next ==
  \/ \E s \in Senders : PostReturns(s) \/ \E e \in Events : Post(s, e)
  \/ \E r \in Receivers : Call(r) \/ Deliver(r) \/ GiveUp(r)

Spec == Init /\ [][Next]_vars

(* A box with events in it does not stay untouched for ever.               *)
FairSpec == Spec /\ WF_vars(\E r \in Receivers : Deliver(r))
============================================================================
