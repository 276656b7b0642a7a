-------------------------------- MODULE Timers --------------------------------
(***************************************************************************)
(* The two timer classes of ch04-03: TIME_MANAGE_CV (cv_timer) and          *)
(* TIME_MANAGE_POSIX (posix_timer).  start makes a detached thread that     *)
(* waits for the interval and calls the handler; stop clears a flag and     *)
(* wakes it.  Each start makes a thread, while threads of earlier starts    *)
(* may still be on their way out.                                           *)
(***************************************************************************)
EXTENDS Naturals

CONSTANTS Threads,     \* one for each start
          MaxSpurious  \* bound: wake-ups that nobody asked for

VARIABLES class,       \* "cv" or "posix"
          wanted,      \* what the main thread asked for last
          running,     \* is_running_, or the opposite of stop_loop_
          opc,         \* the main thread, in stop: "out" or "notify"
          pc,          \* of every timer thread
          mutex,       \* who holds it, or "free"
          stale,       \* threads that wait on what a new start initialised again
          lost,        \* history: stop came before the thread had cleared stop_loop_
          spurious
timerVars == <<class, wanted, running, opc, pc, mutex, stale, lost, spurious>>

Init ==
  /\ class \in {"cv", "posix"} /\ wanted = FALSE /\ running = (class = "posix") /\ opc = "out"
  /\ pc = [t \in Threads |-> "none"] /\ mutex = "free" /\ stale = {} /\ lost = FALSE /\ spurious = 0

At(state) == {t \in Threads : pc[t] = state}
Active == Threads \ (At("none") \cup At("done"))
Goes(t, state) == pc' = [pc EXCEPT ![t] = state]

(***************************************************************************)
(* main starts a timer that it has stopped, and stops one that it has       *)
(* started.  The flag of the cv class is set by start; that of the posix    *)
(* class is cleared by the thread.                                          *)
(***************************************************************************)
Start(t) ==
  /\ ~wanted /\ opc = "out" /\ pc[t] = "none"
  /\ wanted' = TRUE
  /\ IF class = "cv" THEN running' = TRUE /\ Goes(t, "check") /\ UNCHANGED stale
                     ELSE UNCHANGED running /\ Goes(t, "new") /\ stale' = At("waiting")
  /\ UNCHANGED <<class, opc, mutex, lost, spurious>>

(* Mutant: stop only wakes the thread.                                      *)
Stop_Flag ==
  /\ wanted /\ opc = "out" /\ wanted' = FALSE
  /\ IF running THEN opc' = "notify" ELSE UNCHANGED opc
  /\ lost' = (lost \/ At("new") # {})
  /\ UNCHANGED <<class, running, pc, mutex, stale, spurious>>
Stop ==
  /\ wanted /\ opc = "out" /\ wanted' = FALSE
  /\ IF running THEN running' = FALSE /\ opc' = "notify" ELSE UNCHANGED <<running, opc>>
  /\ lost' = (lost \/ At("new") # {})
  /\ UNCHANGED <<class, pc, mutex, stale, spurious>>

\* notify_all takes no mutex, pthread_cond_broadcast is called with it.
Notify ==
  /\ opc = "notify" /\ opc' = "out"
  /\ class = "posix" => mutex = "free"
  /\ \E missed \in SUBSET stale :
       pc' = [t \in Threads |-> IF t \in At("waiting") \ missed THEN "woken" ELSE pc[t]]
  /\ UNCHANGED <<class, wanted, running, mutex, stale, lost, spurious>>

-----------------------------------------------------------------------------
\* run of the posix class begins with stop_loop_ = false.
Begin(t) ==
  /\ pc[t] = "new" /\ Goes(t, "check") /\ running' = TRUE
  /\ UNCHANGED <<class, wanted, opc, mutex, stale, lost, spurious>>

Check(t) ==
  /\ pc[t] = "check" /\ Goes(t, IF running THEN "lock" ELSE "done")
  /\ UNCHANGED <<class, wanted, running, opc, mutex, stale, lost, spurious>>

\* The wait gives the mutex back.
Wait(t) ==
  /\ pc[t] = "lock" /\ mutex = "free" /\ Goes(t, "waiting")
  /\ stale' = stale \ {t}
  /\ UNCHANGED <<class, wanted, running, opc, mutex, lost, spurious>>

Timeout(t) ==
  /\ pc[t] = "waiting" /\ Goes(t, "timedout")
  /\ UNCHANGED <<class, wanted, running, opc, mutex, stale, lost, spurious>>
Spurious(t) ==
  /\ pc[t] = "waiting" /\ spurious < MaxSpurious /\ Goes(t, "woken")
  /\ spurious' = spurious + 1
  /\ UNCHANGED <<class, wanted, running, opc, mutex, stale, lost>>

\* Woken, the cv class leaves the loop and the posix class looks at the flag again.
Woken(t) ==
  /\ pc[t] = "woken" /\ mutex = "free"
  /\ Goes(t, IF class = "cv" THEN "done" ELSE "check")
  /\ UNCHANGED <<class, wanted, running, opc, mutex, stale, lost, spurious>>

\* The cv class calls the handler with the mutex, the posix class without it.
Call(t) ==
  /\ pc[t] = "timedout" /\ mutex = "free" /\ Goes(t, "calling")
  /\ mutex' = IF class = "cv" THEN t ELSE mutex
  /\ UNCHANGED <<class, wanted, running, opc, stale, lost, spurious>>
Return(t) ==
  /\ pc[t] = "calling" /\ Goes(t, "check")
  /\ mutex' = IF class = "cv" THEN "free" ELSE mutex
  /\ UNCHANGED <<class, wanted, running, opc, stale, lost, spurious>>

Run(t) == Begin(t) \/ Check(t) \/ Wait(t) \/ Timeout(t) \/ Woken(t) \/ Call(t) \/ Return(t)
Next == \/ \E t \in Threads : Start(t) \/ Run(t) \/ Spurious(t)
        \/ Stop \/ Notify
Spec == Init /\ [][Next]_timerVars
\* The threads are scheduled, intervals pass, and stop returns; nobody need start or stop.
FairSpec == Spec /\ WF_timerVars(Notify) /\ \A t \in Threads : WF_timerVars(Run(t))

-----------------------------------------------------------------------------
(***************************************************************************)
(* TIME_MANAGE_CV::run: however quickly the timer was stopped and started,  *)
(* and however many threads it therefore has, its handler is never called   *)
(* twice at the same time.                                                  *)
(***************************************************************************)
CallsExclusive == class = "cv" => \A t, u \in At("calling") : t = u

(***************************************************************************)
(* start and stop of both classes: a timer that is stopped for good has no  *)
(* thread in the end, although stop does not wait and the notification may  *)
(* miss the thread (for the posix class: unless stop came before run); a    *)
(* timer that is left running is called again and again, unless the cv      *)
(* class was woken without a reason.                                        *)
(***************************************************************************)
TimerObeys ==
  /\ <>[](~wanted /\ ~lost) => <>[](Active = {})
  /\ <>[](wanted /\ (class = "cv" => spurious = 0)) => []<>(At("calling") # {})
=============================================================================
