---------------------------- MODULE ThreadProofs ----------------------------
(***************************************************************************)
(* Proofs about ThreadQueue for every finite set of senders and receivers, *)
(* every event type and every number of sends: the type invariant, the     *)
(* counting invariant of the two mutexes, the absence of lost wakeups, and *)
(* the implementation of EventQueue.  About the timers, for any number of  *)
(* restarts: calls do not overlap.  About the web server, for any number   *)
(* of connections: replies are whole.                                      *)
(***************************************************************************)
EXTENDS MCThreads, FiniteSetTheorems, SequenceTheorems, TLAPS


----------------------------------------------------------------------------
(* Counting: what one thread changing its control state does to the sets   *)
(* the invariants count.                                                   *)

(* Every set of receivers in one state is finite, so its size is a number. *)
LEMMA InFinite ==
  ASSUME NEW st
  PROVE  IsFiniteSet(In(st)) /\ Cardinality(In(st)) \in Nat
<1>1. In(st) \in SUBSET Receivers
  BY DEF In
<1>2. IsFiniteSet(In(st))
  BY <1>1, FS_Subset, QueueAssumption
<1>. QED  BY <1>2, FS_CardinalityType

(* The senders between push and signal are finitely many.                  *)
LEMMA PushedFinite == IsFiniteSet(Pushed) /\ Cardinality(Pushed) \in Nat
<1>1. Pushed \in SUBSET Senders
  BY DEF Pushed
<1>2. IsFiniteSet(Pushed)
  BY <1>1, FS_Subset, QueueAssumption
<1>. QED  BY <1>2, FS_CardinalityType

(* A receiver that moves from one state to another is counted once less in *)
(* the first, once more in the second, and the other sets stay.            *)
LEMMA ReceiverMoves ==
  ASSUME TypeOK,
         NEW r \in Receivers, NEW from \in RState, NEW to \in RState, from # to,
         rpc[r] = from, rpc' = [rpc EXCEPT ![r] = to]
  PROVE  /\ Cardinality(In(from)') = Cardinality(In(from)) - 1
         /\ Cardinality(In(to)') = Cardinality(In(to)) + 1
         /\ \A st \in RState \ {from, to} : In(st)' = In(st)
<1>1. /\ In(from)' = In(from) \ {r} /\ r \in In(from)
      /\ In(to)' = In(to) \cup {r} /\ r \notin In(to)
      /\ \A st \in RState \ {from, to} : In(st)' = In(st)
  BY DEF TypeOK, In
<1>2. IsFiniteSet(In(from)) /\ IsFiniteSet(In(to))
  BY InFinite
<1>3. Cardinality(In(from) \ {r}) = Cardinality(In(from)) - 1
  BY <1>1, <1>2, FS_RemoveElement, Zenon
<1>4. Cardinality(In(to) \cup {r}) = Cardinality(In(to)) + 1
  BY <1>1, <1>2, FS_AddElement, Zenon
<1>. QED  BY <1>1, <1>3, <1>4, Zenon

(* A sender that pushes joins the set of senders that owe a signal.        *)
LEMMA SenderPushes ==
  ASSUME TypeOK, NEW s \in Senders,
         spc[s] = "idle", spc' = [spc EXCEPT ![s] = "pushed"]
  PROVE  Cardinality(Pushed') = Cardinality(Pushed) + 1
<1>1. Pushed' = Pushed \cup {s} /\ s \notin Pushed
  BY DEF TypeOK, Pushed
<1>. QED  BY <1>1, PushedFinite, FS_AddElement

(* A sender that signals leaves it.                                        *)
LEMMA SenderSignals ==
  ASSUME TypeOK, NEW s \in Senders,
         spc[s] = "pushed", spc' = [spc EXCEPT ![s] = "idle"]
  PROVE  Cardinality(Pushed') = Cardinality(Pushed) - 1
<1>1. Pushed' = Pushed \ {s} /\ s \in Pushed
  BY DEF TypeOK, Pushed
<1>. QED  BY <1>1, PushedFinite, FS_RemoveElement

----------------------------------------------------------------------------
(* ThreadQueue's variables keep their types.                               *)
THEOREM TypeCorrect == Spec => []TypeOK
<1>1. Init => TypeOK
  BY DEF Init, TypeOK, SState, RState
<1>2. TypeOK /\ [Next]_vars => TypeOK'
  <2>. SUFFICES ASSUME TypeOK, [Next]_vars PROVE TypeOK'
    OBVIOUS
  <2>. USE DEF TypeOK, SState, RState
  <2>1. ASSUME NEW s \in Senders, NEW e \in Events, Push(s, e) PROVE TypeOK'
    BY <2>1 DEF Push
  <2>2. ASSUME NEW s \in Senders, Signal(s) PROVE TypeOK'
    BY <2>2 DEF Signal, In
  <2>3. ASSUME NEW r \in Receivers, NEW st \in RState, Test(r, st) PROVE TypeOK'
    BY <2>3 DEF Test
  <2>4. ASSUME NEW r \in Receivers, ReceiverStep(r) PROVE TypeOK'
    <3>1. CASE Enter(r) \/ Retest(r) \/ LastTest(r)
      BY <2>3, <3>1 DEF Enter, Retest, LastTest
    <3>2. CASE SpuriousWake(r) \/ Expire(r)
      BY <3>2 DEF SpuriousWake, Expire
    <3>3. CASE Pop(r)
      <4>1. queue # <<>> => Head(queue) \in Events /\ Tail(queue) \in Seq(Events)
        OBVIOUS
      <4>. QED  BY <3>3, <4>1 DEF Pop
    <3>. QED  BY <2>4, <3>1, <3>2, <3>3 DEF ReceiverStep
  <2>5. CASE UNCHANGED vars
    BY <2>5 DEF vars
  <2>. QED  BY <2>1, <2>2, <2>4, <2>5 DEF Next, SenderStep
<1>. QED  BY <1>1, <1>2, PTL DEF Spec

----------------------------------------------------------------------------
(* The counting invariant.  WakeupPerEvent and NoLostWakeup are inductive  *)
(* together with the types; neither needs the other.                       *)

(* Testing the predicate takes a wakeup exactly when it claims an event.   *)
LEMMA TestKeepsCount ==
  ASSUME TypeOK, WakeupPerEvent, NEW r \in Receivers,
         rpc[r] \in {"idle", "notified", "expired"},
         NEW st \in {"idle", "blocked"}, Test(r, st)
  PROVE  WakeupPerEvent'
<1>1. Pushed' = Pushed /\ queue' = queue
  BY DEF Test, Pushed
<1>2. CASE wakeups > 0
  <2>1. wakeups' = wakeups - 1 /\ rpc' = [rpc EXCEPT ![r] = "token"]
    BY <1>2 DEF Test, TypeOK
  <2>2. Cardinality(In("token")') = Cardinality(In("token")) + 1
    BY <2>1, ReceiverMoves DEF RState
  <2>. QED  BY <1>1, <2>1, <2>2, InFinite, PushedFinite DEF WakeupPerEvent, TypeOK
<1>3. CASE ~(wakeups > 0)
  <2>1. In("token")' = In("token") /\ wakeups' = wakeups
    BY <1>3 DEF Test, TypeOK, In
  <2>. QED  BY <1>1, <2>1 DEF WakeupPerEvent
<1>. QED  BY <1>2, <1>3

(* Each queued event has its wakeup, its claim or its pending signal.      *)
THEOREM EventsAreAnnounced == Spec => []WakeupPerEvent
<1>1. Init => WakeupPerEvent
  <2>. SUFFICES ASSUME Init PROVE WakeupPerEvent
    OBVIOUS
  <2>1. Pushed = {} /\ In("token") = {}
    BY DEF Init, Pushed, In
  <2>. QED  BY <2>1, FS_EmptySet DEF Init, WakeupPerEvent
<1>2. TypeOK /\ WakeupPerEvent /\ [Next]_vars => WakeupPerEvent'
  <2>. SUFFICES ASSUME TypeOK, WakeupPerEvent, [Next]_vars PROVE WakeupPerEvent'
    OBVIOUS
  <2>1. ASSUME NEW s \in Senders, NEW e \in Events, Push(s, e) PROVE WakeupPerEvent'
    <3>1. Cardinality(Pushed') = Cardinality(Pushed) + 1
      BY <2>1, SenderPushes DEF Push
    <3>2. Len(queue') = Len(queue) + 1 /\ wakeups' = wakeups /\ In("token")' = In("token")
      BY <2>1 DEF Push, TypeOK, In
    <3>. QED  BY <3>1, <3>2, PushedFinite, InFinite DEF WakeupPerEvent, TypeOK
  <2>2. ASSUME NEW s \in Senders, Signal(s) PROVE WakeupPerEvent'
    <3>1. Cardinality(Pushed') = Cardinality(Pushed) - 1
      BY <2>2, SenderSignals DEF Signal
    <3>2. queue' = queue /\ wakeups' = wakeups + 1
      BY <2>2 DEF Signal
    <3>3. In("token")' = In("token")
      BY <2>2 DEF Signal, TypeOK, In
    <3>. QED  BY <3>1, <3>2, <3>3, PushedFinite, InFinite DEF WakeupPerEvent, TypeOK
  <2>3. ASSUME NEW r \in Receivers, ReceiverStep(r) PROVE WakeupPerEvent'
    <3>1. CASE Enter(r) \/ Retest(r) \/ LastTest(r)
      BY <3>1, TestKeepsCount DEF Enter, Retest, LastTest
    <3>2. CASE SpuriousWake(r) \/ Expire(r)
      <4>1. In("token")' = In("token") /\ Pushed' = Pushed
        BY <3>2 DEF SpuriousWake, Expire, TypeOK, In, Pushed
      <4>. QED  BY <3>2, <4>1 DEF SpuriousWake, Expire, WakeupPerEvent
    <3>3. CASE Pop(r)
      <4>1. Cardinality(In("token")') = Cardinality(In("token")) - 1
        BY <3>3, ReceiverMoves DEF Pop, RState
      <4>2. queue # <<>>
        <5>1. r \in In("token")
          BY <3>3 DEF Pop, In
        <5>2. Cardinality(In("token")) # 0
          BY <5>1, InFinite, FS_EmptySet
        <5>. QED  BY <5>2, InFinite, PushedFinite DEF WakeupPerEvent, TypeOK
      <4>3. Len(queue') = Len(queue) - 1 /\ wakeups' = wakeups /\ Pushed' = Pushed
        BY <3>3, <4>2 DEF Pop, TypeOK, Pushed
      <4>. QED  BY <4>1, <4>3, InFinite, PushedFinite DEF WakeupPerEvent, TypeOK
    <3>. QED  BY <2>3, <3>1, <3>2, <3>3 DEF ReceiverStep
  <2>4. CASE UNCHANGED vars
    BY <2>4 DEF vars, WakeupPerEvent, Pushed, In
  <2>. QED  BY <2>1, <2>2, <2>3, <2>4 DEF Next, SenderStep
<1>. QED  BY <1>1, <1>2, TypeCorrect, PTL DEF Spec

(* A claim is backed by an event: one conjunct of the count.               *)
LEMMA ClaimBacked == TypeOK /\ WakeupPerEvent => ClaimFindsEvent
<1>. SUFFICES ASSUME TypeOK, WakeupPerEvent, NEW r \in Receivers, rpc[r] = "token"
              PROVE  queue # <<>>
  BY DEF ClaimFindsEvent
<1>1. r \in In("token")
  BY DEF In
<1>2. Cardinality(In("token")) # 0
  BY <1>1, InFinite, FS_EmptySet
<1>. QED  BY <1>2, InFinite, PushedFinite DEF WakeupPerEvent, TypeOK

(* receive() never finds the queue empty after its wait succeeded.         *)
THEOREM ClaimsNeverFail == Spec => []ClaimFindsEvent
BY EventsAreAnnounced, TypeCorrect, ClaimBacked, PTL

(* No wakeup is lost: a blocked receiver never leaves one unattended.      *)
THEOREM NoWakeupIsLost == Spec => []NoLostWakeup
<1>1. Init => NoLostWakeup
  BY DEF Init, NoLostWakeup, In
<1>2. TypeOK /\ NoLostWakeup /\ [Next]_vars => NoLostWakeup'
  <2>. SUFFICES ASSUME TypeOK, NoLostWakeup, [Next]_vars PROVE NoLostWakeup'
    OBVIOUS
  <2>. USE InFinite
  <2>1. ASSUME NEW s \in Senders, NEW e \in Events, Push(s, e) PROVE NoLostWakeup'
    <3>1. wakeups' = wakeups /\ \A st \in RState : In(st)' = In(st)
      BY <2>1 DEF Push, In
    <3>. QED  BY <3>1 DEF NoLostWakeup, RState
  <2>2. ASSUME NEW s \in Senders, Signal(s) PROVE NoLostWakeup'
    <3>1. CASE In("blocked") = {} /\ UNCHANGED rpc
      BY <3>1 DEF NoLostWakeup, In
    <3>2. ASSUME NEW r \in In("blocked"), rpc' = [rpc EXCEPT ![r] = "notified"]
          PROVE  NoLostWakeup'
      <4>1. r \in Receivers /\ rpc[r] = "blocked" /\ In("blocked") # {}
        BY <3>2 DEF In
      <4>2. Cardinality(In("notified")') = Cardinality(In("notified")) + 1
        BY <3>2, <4>1, ReceiverMoves DEF RState
      <4>. QED  BY <2>2, <4>1, <4>2 DEF NoLostWakeup, Signal, TypeOK
    <3>. QED  BY <2>2, <3>1, <3>2 DEF Signal
  <2>3. ASSUME NEW r \in Receivers, NEW st \in {"idle", "blocked"}, Test(r, st),
               rpc[r] \in {"idle", "notified", "expired"}
        PROVE  NoLostWakeup'
    <3>1. CASE wakeups = 0
      <4>1. In("notified")' \in SUBSET Receivers
        BY DEF In
      <4>2. Cardinality(In("notified")') \in Nat
        BY <4>1, FS_Subset, FS_CardinalityType, QueueAssumption
      <4>3. wakeups' = 0
        BY <2>3, <3>1 DEF Test
      <4>. QED  BY <4>2, <4>3 DEF NoLostWakeup
    <3>2. CASE wakeups > 0
      <4>1. wakeups' = wakeups - 1 /\ rpc' = [rpc EXCEPT ![r] = "token"]
        BY <2>3, <3>2 DEF Test, TypeOK
      <4>2. In("blocked")' = In("blocked")
        BY <2>3, <4>1 DEF TypeOK, In
      <4>3. \/ In("notified")' = In("notified")
            \/ Cardinality(In("notified")') = Cardinality(In("notified")) - 1
        <5>1. CASE rpc[r] = "notified"
          BY <4>1, <5>1, ReceiverMoves DEF RState
        <5>2. CASE rpc[r] # "notified"
          BY <4>1, <5>2 DEF TypeOK, In
        <5>. QED  BY <5>1, <5>2
      <4>. QED  BY <3>2, <4>1, <4>2, <4>3 DEF NoLostWakeup, TypeOK
    <3>. QED  BY <3>1, <3>2 DEF TypeOK
  <2>4. ASSUME NEW r \in Receivers, ReceiverStep(r) PROVE NoLostWakeup'
    <3>1. CASE Enter(r) \/ Retest(r) \/ LastTest(r)
      BY <2>3, <3>1 DEF Enter, Retest, LastTest
    <3>2. CASE SpuriousWake(r)
      <4>1. Cardinality(In("notified")') = Cardinality(In("notified")) + 1
        BY <3>2, ReceiverMoves DEF SpuriousWake, RState
      <4>2. In("blocked") # {} /\ wakeups' = wakeups
        BY <3>2 DEF SpuriousWake, In
      <4>. QED  BY <4>1, <4>2 DEF NoLostWakeup, TypeOK
    <3>3. CASE Expire(r)
      <4>1. In("notified")' = In("notified") /\ wakeups' = wakeups /\ In("blocked") # {}
        BY <3>3 DEF Expire, TypeOK, In
      <4>. QED  BY <4>1 DEF NoLostWakeup
    <3>4. CASE Pop(r)
      <4>1. In("notified")' = In("notified") /\ In("blocked")' = In("blocked")
            /\ wakeups' = wakeups
        BY <3>4 DEF Pop, TypeOK, In
      <4>. QED  BY <4>1 DEF NoLostWakeup
    <3>. QED  BY <2>4, <3>1, <3>2, <3>3, <3>4 DEF ReceiverStep
  <2>5. CASE UNCHANGED vars
    BY <2>5 DEF vars, NoLostWakeup, In
  <2>. QED  BY <2>1, <2>2, <2>4, <2>5 DEF Next, SenderStep
<1>. QED  BY <1>1, <1>2, TypeCorrect, PTL DEF Spec

----------------------------------------------------------------------------
(* The implementation of the abstract queue: every action of the class is  *)
(* an action of EventQueue or leaves the mapped state unchanged.           *)

(* The receivers inside a call, and how the state changes map to them.     *)
Inside == {r \in Receivers : rpc[r] # "idle"}

(* Testing the predicate enters the call, stays inside it, or - only when  *)
(* no wakeup is left - leaves it.                                          *)
LEMMA GiveUpAllowed ==
  ASSUME TypeOK, WakeupPerEvent, NEW r \in Receivers, rpc[r] = "expired", wakeups = 0
  PROVE  Len(queue) <= Cardinality(Pushed) + Cardinality(Inside \ {r})
<1>1. In("token") \in SUBSET (Inside \ {r})
  BY DEF In, Inside
<1>2. IsFiniteSet(Inside \ {r})
  <2>1. Inside \ {r} \in SUBSET Receivers
    BY DEF Inside
  <2>. QED  BY <2>1, FS_Subset, QueueAssumption
<1>3. Cardinality(In("token")) <= Cardinality(Inside \ {r})
  BY <1>1, <1>2, FS_Subset
<1>4. Cardinality(Inside \ {r}) \in Nat
  BY <1>2, FS_CardinalityType
<1>. QED  BY <1>3, <1>4, InFinite, PushedFinite DEF WakeupPerEvent, TypeOK

(* Thread_Queue implements EventQueue: FIFO order, nothing lost, nothing   *)
(* delivered twice, and no empty return while a completed send waits.      *)
THEOREM QueueImplemented == Spec => ImplementsQueue
<1>. USE DEF Abstract!Spec, Abstract!vars
<1>1. Init => Abstract!Init
  BY DEF Init, Abstract!Init, Pushed
<1>2. TypeOK /\ WakeupPerEvent /\ ClaimFindsEvent /\ [Next]_vars
      => [Abstract!Next]_Abstract!vars
  <2>. SUFFICES ASSUME TypeOK, WakeupPerEvent, ClaimFindsEvent, [Next]_vars
                PROVE  [Abstract!Next]_Abstract!vars
    OBVIOUS
  <2>1. ASSUME NEW s \in Senders, NEW e \in Events, Push(s, e)
        PROVE  Abstract!Post(s, e)
    BY <2>1 DEF Push, Abstract!Post, Pushed, TypeOK
  <2>2. ASSUME NEW s \in Senders, Signal(s) PROVE Abstract!PostReturns(s)
    <3>1. {r \in Receivers : rpc[r] # "idle"}' = {r \in Receivers : rpc[r] # "idle"}
      BY <2>2 DEF Signal, In, TypeOK
    <3>. QED  BY <2>2, <3>1 DEF Signal, Abstract!PostReturns, Pushed, TypeOK
  <2>3. ASSUME NEW r \in Receivers, Enter(r) PROVE Abstract!Call(r)
    BY <2>3 DEF Enter, Test, Abstract!Call, Pushed, TypeOK
  <2>4. ASSUME NEW r \in Receivers, Retest(r) \/ SpuriousWake(r) \/ Expire(r)
        PROVE  UNCHANGED Abstract!vars
    BY <2>4 DEF Retest, Test, SpuriousWake, Expire, Pushed, TypeOK
  <2>5. ASSUME NEW r \in Receivers, LastTest(r)
        PROVE  Abstract!GiveUp(r) \/ UNCHANGED Abstract!vars
    <3>1. CASE wakeups > 0
      BY <2>5, <3>1 DEF LastTest, Test, Pushed, TypeOK
    <3>2. CASE wakeups = 0
      <4>1. \A S : Abstract!Cardinality(S) = Cardinality(S)
        BY Zenon DEF Abstract!Cardinality, Cardinality
      <4>2. Len(queue) <= Cardinality(Pushed) + Cardinality(Inside \ {r})
        BY <2>5, <3>2, GiveUpAllowed DEF LastTest
      <4>3. rpc' = [rpc EXCEPT ![r] = "idle"] /\ UNCHANGED <<queue, spc, got>>
        BY <2>5, <3>2 DEF LastTest, Test
      <4>4. Inside' = Inside \ {r} /\ r \in Inside
        BY <2>5, <4>3 DEF LastTest, Inside, TypeOK
      <4>. QED  BY <4>1, <4>2, <4>3, <4>4 DEF Abstract!GiveUp, Pushed, Inside
    <3>. QED  BY <3>1, <3>2 DEF TypeOK
  <2>6. ASSUME NEW r \in Receivers, Pop(r) PROVE Abstract!Deliver(r)
    BY <2>6 DEF Pop, Abstract!Deliver, Pushed, ClaimFindsEvent, TypeOK
  <2>7. CASE UNCHANGED vars
    BY <2>7 DEF vars, Pushed
  <2>. QED
    BY <2>1, <2>2, <2>3, <2>4, <2>5, <2>6, <2>7
    DEF Next, SenderStep, ReceiverStep, Abstract!Next
<1>. QED
  BY <1>1, <1>2, TypeCorrect, EventsAreAnnounced, ClaimsNeverFail, PTL
  DEF Spec, ImplementsQueue

-----------------------------------------------------------------------------
(* The timers.                                                              *)

\* The cv class calls the handler with the mutex held.
TimerInv ==
  /\ class \in {"cv", "posix"} /\ DOMAIN pc = TimerThreads
  /\ class = "cv" => \A t \in TimerThreads : pc[t] = "calling" => mutex = t

(* start, stop and the threads: who calls holds the mutex.                  *)
LEMMA TimerInvariant == MCSpec => []TimerInv
<1>1. MCInit => TimerInv
  BY DEF MCInit, Timer!Init, TimerInv
<1>2. TimerInv /\ UNCHANGED timerVars => TimerInv'
  BY DEF timerVars, TimerInv
<1>3. ASSUME TimerInv, Timer!Next PROVE TimerInv'
  <2>1. CASE Timer!Stop
    BY <1>3, <2>1 DEF Timer!Stop, TimerInv
  <2>2. CASE Timer!Notify
    BY <1>3, <2>2 DEF Timer!Notify, Timer!At, TimerInv
  <2>3. ASSUME NEW t \in TimerThreads, Timer!Start(t) PROVE TimerInv'
    BY <1>3, <2>3 DEF Timer!Start, Timer!Goes, TimerInv
  <2>4. ASSUME NEW t \in TimerThreads, Timer!Begin(t) \/ Timer!Check(t) \/ Timer!Wait(t) PROVE TimerInv'
    BY <1>3, <2>4 DEF Timer!Begin, Timer!Check, Timer!Wait, Timer!Goes, TimerInv
  <2>5. ASSUME NEW t \in TimerThreads, Timer!Timeout(t) \/ Timer!Spurious(t) \/ Timer!Woken(t) PROVE TimerInv'
    BY <1>3, <2>5 DEF Timer!Timeout, Timer!Spurious, Timer!Woken, Timer!Goes, TimerInv
  <2>6. ASSUME NEW t \in TimerThreads, Timer!Call(t) PROVE TimerInv'
    BY <1>3, <2>6, HoldersAssumption DEF Timer!Call, Timer!Goes, TimerInv
  <2>7. ASSUME NEW t \in TimerThreads, Timer!Return(t) PROVE TimerInv'
    BY <1>3, <2>7 DEF Timer!Return, Timer!Goes, TimerInv
  <2>. QED  BY <1>3, <2>1, <2>2, <2>3, <2>4, <2>5, <2>6, <2>7 DEF Timer!Next, Timer!Run
<1>4. TimerInv /\ [MCNext]_allVars => TimerInv'
  BY <1>2, <1>3 DEF MCNext, QueueNext, TimerNext, WebNext, allVars
<1>. QED  BY <1>1, <1>4, PTL DEF MCSpec

(* TIME_MANAGE_CV::run: however many threads quick restarts have left, the  *)
(* handler is never called twice at the same time.                          *)
THEOREM CallsNeverOverlap == MCSpec => []Timer!CallsExclusive
<1>1. TimerInv => Timer!CallsExclusive
  BY DEF TimerInv, Timer!At, Timer!CallsExclusive
<1>. QED  BY <1>1, TimerInvariant, PTL

-----------------------------------------------------------------------------
(* The web server.                                                          *)

Parts == {"200", "404", "html header", "not found", "file header", "file", "json header", "json"}
\* s is the beginning of a reply.
Upto(s, r) == s \in Seq(Parts) /\ Len(s) <= Len(r) /\ \A j \in 1..Len(s) : s[j] = r[j]

\* Before the reply nothing is sent; a page led to its own reply, and what is
\* sent is the beginning of that.
FileThenError == Web!Reply("static") \o Web!Reply("404")
Replying(c) ==
  /\ wpc[c] \in {"out", "recv", "route", "led", "write"} => sent[c] = <<>> /\ whole[c]
  /\ wpc[c] \in {"led", "write"} => page[c] \in Web!LedPages
  /\ wpc[c] = "dynamic" =>
       whole[c] /\ page[c] \in Web!Dynamic /\ Upto(sent[c], Web!Reply("dynamic")) /\ Len(sent[c]) < 3
  /\ wpc[c] = "static" =>
       whole[c] /\ page[c] = "/index.html" /\ Upto(sent[c], Web!Reply("static")) /\ Len(sent[c]) < 3
  /\ wpc[c] = "404" =>
       \/ /\ whole[c] => page[c] \notin Web!Dynamic \cup {"/index.html"}
          /\ Upto(sent[c], Web!Reply("404")) /\ Len(sent[c]) < 3
       \/ /\ whole[c] /\ page[c] = "/index.html"
          /\ Upto(sent[c], FileThenError) /\ Len(sent[c]) \in 3..5
  /\ wpc[c] \in {"close", "closed"} => sent[c] \in Web!Expected(c) \/ (~open[c] /\ sent[c] = <<>>)
WebInv ==
  /\ DOMAIN wpc = Connections /\ DOMAIN sent = Connections
  /\ DOMAIN whole = Connections /\ DOMAIN open = Connections
  /\ \A c \in Connections : Replying(c)

(* One more part of a reply.                                                *)
LEMMA OneMorePart ==
  ASSUME NEW s, NEW r \in Seq(Parts), Upto(s, r), Len(s) < Len(r)
  PROVE  /\ Upto(Append(s, r[Len(s) + 1]), r) /\ Len(Append(s, r[Len(s) + 1])) = Len(s) + 1
         /\ Len(s) \in Nat
<1>. DEFINE n == Len(s)
            e == r[n + 1]
            u == Append(s, e)
<1>1. s \in Seq(Parts) /\ n \in Nat /\ n < Len(r) /\ Len(r) \in Nat /\ \A j \in 1..n : s[j] = r[j]
  BY DEF Upto
<1>2. e \in Parts
  BY <1>1
<1>3. u \in Seq(Parts) /\ Len(u) = n + 1 /\ u[n + 1] = e /\ \A j \in 1..n : u[j] = s[j]
  BY <1>1, <1>2, AppendProperties
<1>4. \A j \in 1..n + 1 : u[j] = r[j]
  <2>1. \A j \in 1..n + 1 : j \in 1..n \/ j = n + 1
    BY <1>1
  <2>. QED  BY <1>1, <1>3, <2>1
<1>. HIDE DEF u, n
<1>5. Upto(u, r)
  BY <1>1, <1>3, <1>4 DEF Upto
<1>. QED  BY <1>1, <1>3, <1>5 DEF u, n

(* All parts of a reply.                                                    *)
LEMMA AllParts ==
  ASSUME NEW s, NEW r \in Seq(Parts), Upto(s, r), Len(s) = Len(r)
  PROVE  s = r
BY SeqEqual DEF Upto

(* Three parts are a sequence.                                              *)
LEMMA ThreeParts ==
  ASSUME NEW a \in Parts, NEW b \in Parts, NEW d \in Parts
  PROVE  <<a, b, d>> \in Seq(Parts) /\ Len(<<a, b, d>>) = 3
OBVIOUS

(* What the replies are made of.                                            *)
LEMMA Replies ==
  /\ \A k \in {"dynamic", "static", "404"} : Web!Reply(k) \in Seq(Parts) /\ Len(Web!Reply(k)) = 3
  /\ FileThenError \in Seq(Parts) /\ Len(FileThenError) = 6
  /\ \A j \in 1..3 : FileThenError[j] = Web!Reply("static")[j] /\ FileThenError[j + 3] = Web!Reply("404")[j]
<1>1. ASSUME NEW k \in {"dynamic", "static", "404"} PROVE Web!Reply(k) \in Seq(Parts) /\ Len(Web!Reply(k)) = 3
  <2>1. CASE k = "404"
    <3>1. Web!Reply(k) = <<"404", "html header", "not found">>
      BY <2>1 DEF Web!Reply
    <3>2. "404" \in Parts /\ "html header" \in Parts /\ "not found" \in Parts
      BY DEF Parts
    <3>. QED  BY <3>1, <3>2, ThreeParts, Zenon
  <2>2. CASE k = "static"
    <3>1. Web!Reply(k) = <<"200", "file header", "file">>
      BY <2>2 DEF Web!Reply
    <3>2. "200" \in Parts /\ "file header" \in Parts /\ "file" \in Parts
      BY DEF Parts
    <3>. QED  BY <3>1, <3>2, ThreeParts, Zenon
  <2>3. CASE k = "dynamic"
    <3>1. Web!Reply(k) = <<"200", "json header", "json">>
      BY <2>3 DEF Web!Reply
    <3>2. "200" \in Parts /\ "json header" \in Parts /\ "json" \in Parts
      BY DEF Parts
    <3>. QED  BY <3>1, <3>2, ThreeParts, Zenon
  <2>. QED  BY <2>1, <2>2, <2>3
<1>. DEFINE f == Web!Reply("static")
            g == Web!Reply("404")
<1>2. f \in Seq(Parts) /\ Len(f) = 3 /\ g \in Seq(Parts) /\ Len(g) = 3
  BY <1>1, Zenon
<1>. HIDE DEF f, g
<1>3. /\ f \o g \in Seq(Parts) /\ Len(f \o g) = Len(f) + Len(g)
      /\ \A j \in 1..Len(f) + Len(g) : (f \o g)[j] = IF j <= Len(f) THEN f[j] ELSE g[j - Len(f)]
  BY <1>2, ConcatProperties, Zenon
<1>4. Len(f) + Len(g) = 6
  BY <1>2
<1>5. \A j \in 1..6 : (f \o g)[j] = IF j <= 3 THEN f[j] ELSE g[j - 3]
  BY <1>2, <1>3, <1>4, Zenon
<1>6. ASSUME NEW j \in 1..3 PROVE (f \o g)[j] = f[j] /\ (f \o g)[j + 3] = g[j]
  <2>. DEFINE m == j + 3
  <2>1. j \in 1..6 /\ j <= 3 /\ m \in 1..6 /\ ~(m <= 3) /\ m - 3 = j
    OBVIOUS
  <2>. HIDE DEF m
  <2>2. (f \o g)[j] = f[j] /\ (f \o g)[m] = g[j]
    BY <1>5, <2>1
  <2>. QED  BY <2>2 DEF m
<1>7. FileThenError = f \o g
  BY DEF f, g, FileThenError
<1>8. /\ FileThenError \in Seq(Parts) /\ Len(FileThenError) = 6
      /\ \A j \in 1..3 : FileThenError[j] = f[j] /\ FileThenError[j + 3] = g[j]
  BY <1>3, <1>4, <1>6, <1>7, Zenon
<1>. QED  BY <1>1, <1>8, Zenon DEF f, g

\* u is s with one more of the three parts of r.
OnePart(s, u, r) ==
  /\ (Len(s) % 3 < 2 <=> Len(s) # 2) /\ (Len(s) % 3 = 2 <=> Len(s) = 2)
  /\ Upto(u, r) /\ (Len(s) # 2 => Len(u) < 3) /\ (Len(s) = 2 => Len(u) = 3)
  /\ Len(s) = 2 => u = r

(* The part of a reply that is written next, and what it completes.         *)
LEMMA NextPart ==
  ASSUME NEW k \in {"dynamic", "static", "404"}, NEW s, NEW u, Upto(s, Web!Reply(k)), Len(s) < 3,
         u = Append(s, Web!Reply(k)[(Len(s) % 3) + 1])
  PROVE  OnePart(s, u, Web!Reply(k))
<1>. DEFINE n == Len(s)
            r == Web!Reply(k)
<1>1. r \in Seq(Parts) /\ Len(r) = 3
  BY Replies, Zenon
<1>2. n \in Nat /\ n < 3
  BY DEF Upto
<1>3. u = Append(s, r[(n % 3) + 1]) /\ Upto(s, r) /\ n < Len(r)
  BY <1>1
<1>4. n = Len(s)
  OBVIOUS
<1>. HIDE DEF n, r
<1>5. n \in 0..2 /\ n % 3 = n /\ (n % 3 < 2 <=> n # 2) /\ (n % 3 = 2 <=> n = 2)
  BY <1>2
<1>6. u = Append(s, r[Len(s) + 1])
  BY <1>3, <1>4, <1>5
<1>7. Upto(u, r) /\ Len(u) = Len(s) + 1
  BY <1>1, <1>3, <1>4, <1>6, OneMorePart
<1>8. ASSUME n = 2 PROVE u = r
  <2>1. Len(u) = Len(r)
    BY <1>1, <1>4, <1>7, <1>8
  <2>. QED  BY <1>1, <1>7, <2>1, AllParts, Zenon
<1>9. (n # 2 => Len(u) < 3) /\ (n = 2 => Len(u) = 3)
  BY <1>4, <1>5, <1>7
<1>10. OnePart(s, u, r)
  BY <1>4, <1>5, <1>7, <1>8, <1>9 DEF OnePart
<1>. QED  BY <1>10 DEF r

(* The same for the error page behind the file.                             *)
LEMMA NextErrorPart ==
  ASSUME NEW s, NEW u, Upto(s, FileThenError), Len(s) \in 3..5,
         u = Append(s, Web!Reply("404")[(Len(s) % 3) + 1])
  PROVE  /\ Len(u) = Len(s) + 1 /\ (Len(s) % 3 < 2 <=> Len(s) # 5) /\ (Len(s) % 3 = 2 <=> Len(s) = 5)
         /\ Upto(u, FileThenError) /\ (Len(s) # 5 => Len(u) \in 3..5)
         /\ Len(s) = 5 => u = FileThenError
<1>. DEFINE n == Len(s)
            r == Web!Reply("404")
<1>1. n \in 3..5 /\ n = Len(s) /\ u = Append(s, r[(n % 3) + 1])
  OBVIOUS
<1>2. \A j \in 1..3 : FileThenError[j + 3] = r[j]
  BY Replies, Zenon
<1>3. FileThenError \in Seq(Parts) /\ Len(FileThenError) = 6
  BY Replies, Zenon
<1>. HIDE DEF n, r
<1>4. (n % 3) + 1 \in 1..3 /\ ((n % 3) + 1) + 3 = n + 1 /\ (n % 3 = 2 <=> n = 5) /\ (n % 3 < 2 <=> n # 5)
  <2>1. n = 3 \/ n = 4 \/ n = 5
    BY <1>1
  <2>. QED  BY <2>1
<1>5. r[(n % 3) + 1] = FileThenError[n + 1]
  <2>1. FileThenError[((n % 3) + 1) + 3] = r[(n % 3) + 1]
    BY <1>2, <1>4
  <2>. QED  BY <1>4, <2>1
<1>6. u = Append(s, FileThenError[Len(s) + 1]) /\ Len(s) < Len(FileThenError)
  BY <1>1, <1>3, <1>5
<1>7. Upto(u, FileThenError) /\ Len(u) = Len(s) + 1
  BY <1>3, <1>6, OneMorePart
<1>8. ASSUME n = 5 PROVE u = FileThenError
  <2>1. Len(u) = Len(FileThenError)
    BY <1>1, <1>3, <1>7, <1>8
  <2>. QED  BY <1>3, <1>7, <2>1, AllParts, Zenon
<1>9. n # 5 => Len(u) \in 3..5
  BY <1>1, <1>7
<1>. QED  BY <1>1, <1>4, <1>7, <1>8, <1>9

(* send_header, send_buffer and the error page: one of the three writes.    *)
LEMMA SendKeepsReply ==
  ASSUME WebInv, NEW c \in Connections, Web!Send(c)
  PROVE  Replying(c)'
<1>1. Replying(c) /\ wpc[c] \in {"dynamic", "static", "404"} /\ UNCHANGED <<page, whole, open>>
  BY DEF WebInv, Web!Send
<1>e. Web!Expected(c)' = Web!Expected(c)
  BY <1>1 DEF Web!Expected, Web!Reply
<1>2. CASE UNCHANGED <<wpc, sent>>
  BY <1>1, <1>2, <1>e DEF Replying, Upto
<1>3. CASE /\ sent' = [sent EXCEPT ![c] = Append(@, Web!Reply(wpc[c])[Web!Written(c) + 1])]
           /\ \/ Web!Written(c) < 2 /\ UNCHANGED wpc
              \/ Web!Written(c) = 2 /\ Web!Goes(c, "close")
              \/ Web!Written(c) = 2 /\ wpc[c] = "static" /\ Web!Goes(c, "404")
  <2>. DEFINE s == sent[c]
              u == sent'[c]
              k == wpc[c]
              q == wpc'[c]
  <2>1. u = Append(s, Web!Reply(k)[(Len(s) % 3) + 1])
    BY <1>3 DEF WebInv, Web!Written
  <2>2. \/ Len(s) % 3 < 2 /\ q = k
        \/ Len(s) % 3 = 2 /\ q = "close"
        \/ Len(s) % 3 = 2 /\ k = "static" /\ q = "404"
    BY <1>3 DEF WebInv, Web!Written, Web!Goes
  <2>3. /\ k = "dynamic" => whole[c] /\ page[c] \in Web!Dynamic /\ Upto(s, Web!Reply(k)) /\ Len(s) < 3
        /\ k = "static" => whole[c] /\ page[c] = "/index.html" /\ Upto(s, Web!Reply(k)) /\ Len(s) < 3
        /\ k = "404" =>
              \/ /\ whole[c] => page[c] \notin Web!Dynamic \cup {"/index.html"}
                 /\ Upto(s, Web!Reply(k)) /\ Len(s) < 3
              \/ whole[c] /\ page[c] = "/index.html" /\ Upto(s, FileThenError) /\ Len(s) \in 3..5
        /\ k \in {"dynamic", "static", "404"}
    BY <1>1 DEF Replying
  <2>. DEFINE Good == u \in Web!Expected(c)
  <2>4. SUFFICES /\ q = "dynamic" =>
                      whole[c] /\ page[c] \in Web!Dynamic /\ Upto(u, Web!Reply("dynamic")) /\ Len(u) < 3
                 /\ q = "static" =>
                      whole[c] /\ page[c] = "/index.html" /\ Upto(u, Web!Reply("static")) /\ Len(u) < 3
                 /\ q = "404" =>
                      \/ /\ whole[c] => page[c] \notin Web!Dynamic \cup {"/index.html"}
                         /\ Upto(u, Web!Reply("404")) /\ Len(u) < 3
                      \/ whole[c] /\ page[c] = "/index.html" /\ Upto(u, FileThenError) /\ Len(u) \in 3..5
                 /\ q = "close" => Good
                 /\ q \in {"dynamic", "static", "404", "close"}
    BY <1>1, <1>e DEF Replying, Upto
  <2>. HIDE DEF s, u, k, q
  <2>5. CASE k = "dynamic"
    <3>9. k \in {"dynamic", "static", "404"} /\ Upto(s, Web!Reply(k)) /\ Len(s) < 3
      BY <2>3, <2>5
    <3>1. /\ (Len(s) % 3 < 2 <=> Len(s) # 2) /\ (Len(s) % 3 = 2 <=> Len(s) = 2)
          /\ Upto(u, Web!Reply(k)) /\ (Len(s) # 2 => Len(u) < 3) /\ (Len(s) = 2 => Len(u) = 3)
          /\ Len(s) = 2 => u = Web!Reply(k)
      <4>1. OnePart(s, u, Web!Reply(k))
        BY <2>1, <3>9, NextPart
      <4>. QED  BY <4>1 DEF OnePart
    <3>5. Web!Expected(c) = {Web!Reply("dynamic")}
      BY <2>3, <2>5 DEF Web!Expected, Web!Dynamic, Web!LedPages
    <3>2. u = Web!Reply("dynamic") => Good
      BY <3>5
    <3>3. CASE q = "close" /\ Len(s) = 2
      BY <2>5, <3>1, <3>2, <3>3, Zenon
    <3>4. CASE q = "dynamic" /\ Len(s) # 2
      BY <2>3, <2>5, <3>1, <3>4
    <3>. QED  BY <2>2, <2>5, <3>1, <3>3, <3>4
  <2>6. CASE k = "static"
    <3>9. k \in {"dynamic", "static", "404"} /\ Upto(s, Web!Reply(k)) /\ Len(s) < 3
      BY <2>3, <2>6
    <3>1. /\ (Len(s) % 3 < 2 <=> Len(s) # 2) /\ (Len(s) % 3 = 2 <=> Len(s) = 2)
          /\ Upto(u, Web!Reply(k)) /\ (Len(s) # 2 => Len(u) < 3) /\ (Len(s) = 2 => Len(u) = 3)
          /\ Len(s) = 2 => u = Web!Reply(k)
      <4>1. OnePart(s, u, Web!Reply(k))
        BY <2>1, <3>9, NextPart
      <4>. QED  BY <4>1 DEF OnePart
    <3>2. u = Web!Reply("static") => Good
      BY <2>3, <2>6 DEF Web!Expected, Web!Dynamic, Web!LedPages
    <3>3. Len(s) = 2 => Upto(u, FileThenError) /\ Len(u) = 3
      <4>1. SUFFICES ASSUME Len(s) = 2 PROVE Upto(u, FileThenError) /\ Len(u) = 3
        OBVIOUS
      <4>2. Len(u) = 3 /\ u \in Seq(Parts) /\ \A j \in 1..3 : u[j] = Web!Reply("static")[j]
        BY <2>6, <3>1, <4>1 DEF Upto
      <4>3. Len(FileThenError) = 6 /\ \A j \in 1..3 : FileThenError[j] = Web!Reply("static")[j]
        BY Replies, Zenon
      <4>. QED  BY <4>2, <4>3 DEF Upto
    <3>4. CASE q \in {"close", "404"} /\ Len(s) = 2
      BY <2>3, <2>6, <3>1, <3>2, <3>3, <3>4
    <3>5. CASE q = "static" /\ Len(s) # 2
      BY <2>3, <2>6, <3>1, <3>5
    <3>. QED  BY <2>2, <2>6, <3>1, <3>4, <3>5
  <2>7. CASE k = "404" /\ Upto(s, Web!Reply(k)) /\ Len(s) < 3 /\ (whole[c] => page[c] \notin Web!Dynamic \cup {"/index.html"})
    <3>9. k \in {"dynamic", "static", "404"} /\ Upto(s, Web!Reply(k)) /\ Len(s) < 3
      BY <2>3, <2>7
    <3>1. /\ (Len(s) % 3 < 2 <=> Len(s) # 2) /\ (Len(s) % 3 = 2 <=> Len(s) = 2)
          /\ Upto(u, Web!Reply(k)) /\ (Len(s) # 2 => Len(u) < 3) /\ (Len(s) = 2 => Len(u) = 3)
          /\ Len(s) = 2 => u = Web!Reply(k)
      <4>1. OnePart(s, u, Web!Reply(k))
        BY <2>1, <3>9, NextPart
      <4>. QED  BY <4>1 DEF OnePart
    <3>2. u = Web!Reply("404") => Good
      BY <2>7 DEF Web!Expected
    <3>3. CASE q = "close" /\ Len(s) = 2
      BY <2>7, <3>1, <3>2, <3>3, Zenon
    <3>4. CASE q = "404" /\ Len(s) # 2
      BY <2>7, <3>1, <3>4
    <3>. QED  BY <2>2, <2>7, <3>1, <3>3, <3>4
  <2>8. CASE k = "404" /\ whole[c] /\ page[c] = "/index.html" /\ Upto(s, FileThenError) /\ Len(s) \in 3..5
    <3>1. /\ (Len(s) % 3 < 2 <=> Len(s) # 5) /\ (Len(s) % 3 = 2 <=> Len(s) = 5)
          /\ Upto(u, FileThenError) /\ (Len(s) # 5 => Len(u) \in 3..5)
          /\ Len(s) = 5 => u = FileThenError
      BY <2>1, <2>8, NextErrorPart
    <3>2. u = FileThenError => Good
      BY <2>8 DEF Web!Expected, Web!Dynamic, Web!LedPages, FileThenError
    <3>3. CASE q = "close" /\ Len(s) = 5
      BY <3>1, <3>2, <3>3, Zenon
    <3>4. CASE q = "404" /\ Len(s) # 5
      BY <2>8, <3>1, <3>4
    <3>. QED  BY <2>2, <2>8, <3>1, <3>3, <3>4
  <2>. QED  BY <2>3, <2>5, <2>6, <2>7, <2>8
<1>. QED  BY <1>2, <1>3 DEF Web!Send

(* The other steps of a connection: nothing is sent before the reply.       *)
LEMMA ThreadKeepsReply ==
  ASSUME WebInv, NEW c \in Connections,
         \/ Web!Accept(c) \/ Web!HangUp(c) \/ Web!Recv(c) \/ Web!Process(c)
         \/ Web!LedOpen(c) \/ Web!LedWrite(c) \/ Web!Close(c)
  PROVE  Replying(c)'
<1>1. Replying(c) /\ UNCHANGED <<page, sent>>
  BY DEF WebInv, Web!Accept, Web!HangUp, Web!Recv, Web!Process, Web!LedOpen, Web!LedWrite, Web!Close
<1>2. Web!LedPages \subseteq Web!Dynamic /\ "/index.html" \notin Web!Dynamic
  BY DEF Web!LedPages, Web!Dynamic
<1>3. \A k \in {"dynamic", "static", "404"} : Upto(<<>>, Web!Reply(k)) /\ Len(<<>>) < 3
  BY Replies DEF Upto
<1>4. CASE Web!Accept(c)
  BY <1>1, <1>4 DEF WebInv, Web!Accept, Web!Goes, Replying, Web!Expected, Upto
<1>5. CASE Web!HangUp(c)
  BY <1>1, <1>5 DEF WebInv, Web!HangUp, Replying, Web!Expected, Upto
<1>6. CASE Web!Recv(c)
  <2>1. sent[c] = <<>> /\ whole[c] /\ UNCHANGED open /\
          \/ wpc'[c] = "route" /\ whole'[c] = whole[c]
          \/ wpc'[c] = "404" /\ ~whole'[c]
          \/ wpc'[c] = "close" /\ ~open[c]
    BY <1>1, <1>6 DEF WebInv, Web!Recv, Web!Goes, Replying
  <2>. QED  BY <1>1, <1>3, <2>1 DEF Replying
<1>7. CASE Web!Process(c)
  <2>1. sent[c] = <<>> /\ whole[c] /\ UNCHANGED <<open, whole>> /\ wpc'[c] = Web!Route(page[c])
    BY <1>1, <1>7 DEF WebInv, Web!Process, Web!Goes, Replying
  <2>2. \/ page[c] \in Web!LedPages /\ wpc'[c] = "led"
        \/ page[c] \in Web!Dynamic /\ wpc'[c] = "dynamic"
        \/ page[c] = "/index.html" /\ wpc'[c] = "static"
        \/ page[c] \notin Web!Dynamic \cup {"/index.html"} /\ wpc'[c] = "404"
    BY <1>2, <2>1 DEF Web!Route
  <2>. QED  BY <1>1, <1>3, <2>1, <2>2 DEF Replying
<1>8. CASE Web!LedOpen(c) \/ Web!LedWrite(c)
  <2>1. /\ sent[c] = <<>> /\ whole[c] /\ page[c] \in Web!LedPages /\ UNCHANGED <<open, whole>>
        /\ wpc'[c] \in {"write", "dynamic"}
    BY <1>1, <1>8 DEF WebInv, Web!LedOpen, Web!LedWrite, Web!Goes, Replying
  <2>. QED  BY <1>1, <1>2, <1>3, <2>1 DEF Replying
<1>9. CASE Web!Close(c)
  BY <1>1, <1>9 DEF WebInv, Web!Close, Web!Goes, Replying, Web!Expected
<1>. QED  BY <1>4, <1>5, <1>6, <1>7, <1>8, <1>9

(* A connection is left alone by the others.                                *)
LEMMA WebInvariant == MCSpec => []WebInv
<1>1. MCInit => WebInv
  BY DEF MCInit, Web!Init, WebInv, Replying
<1>2. WebInv /\ UNCHANGED webVars => WebInv'
  BY DEF webVars, WebInv, Replying, Web!Expected, Upto
<1>3. ASSUME WebInv, Web!Next PROVE WebInv'
  <2>1. PICK c \in Connections : Web!Accept(c) \/ Web!HangUp(c) \/ Web!Thread(c)
    BY <1>3 DEF Web!Next
  <2>2. Replying(c)'
    BY <1>3, <2>1, ThreadKeepsReply, SendKeepsReply DEF Web!Thread
  <2>3. /\ DOMAIN wpc' = Connections /\ DOMAIN sent' = Connections
        /\ DOMAIN whole' = Connections /\ DOMAIN open' = Connections
        /\ UNCHANGED page
        /\ \A d \in Connections \ {c} : /\ wpc'[d] = wpc[d] /\ sent'[d] = sent[d]
                                      /\ whole'[d] = whole[d] /\ open'[d] = open[d]
    BY <1>3, <2>1 DEF WebInv, Web!Accept, Web!HangUp, Web!Thread, Web!Recv, Web!Process, Web!LedOpen,
       Web!LedWrite, Web!Send, Web!Close, Web!Goes
  <2>4. ASSUME NEW d \in Connections, d # c PROVE Replying(d)'
    <3>1. /\ wpc'[d] = wpc[d] /\ sent'[d] = sent[d] /\ page'[d] = page[d]
          /\ whole'[d] = whole[d] /\ open'[d] = open[d]
      BY <2>3, <2>4
    <3>2. Web!Expected(d)' = Web!Expected(d)
      BY <3>1 DEF Web!Expected, Web!Reply
    <3>3. Replying(d)
      BY <1>3 DEF WebInv
    <3>. QED  BY <3>1, <3>2, <3>3 DEF Replying, Upto
  <2>. QED  BY <2>2, <2>3, <2>4 DEF WebInv
<1>4. WebInv /\ [MCNext]_allVars => WebInv'
  BY <1>2, <1>3 DEF MCNext, QueueNext, TimerNext, WebNext, allVars
<1>. QED  BY <1>1, <1>4, PTL DEF MCSpec

(* http_server and http_engine: a connection that is closed had its reply,  *)
(* once, whole and in order, from the page that was asked for, whatever the *)
(* others do; only a client that hung up first may have had none.           *)
THEOREM RepliesAreWhole == MCSpec => []Web!ReplyIsWhole
<1>1. WebInv => Web!ReplyIsWhole
  BY DEF WebInv, Replying, Web!ReplyIsWhole
<1>. QED  BY <1>1, WebInvariant, PTL
=============================================================================
