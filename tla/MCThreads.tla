----------------------------- MODULE MCThreads -----------------------------
(***************************************************************************)
(* The classes that start threads: the event queue between two senders and  *)
(* two receivers, the timers and the web server.  They do not touch each    *)
(* other: a behaviour is one of one of them, `which', the variables of the  *)
(* others rest.                                                             *)
(***************************************************************************)
EXTENDS ThreadQueue

CONSTANTS TimerThreads, MaxSpurious,       \* see Timers
          Connections, Pages, MaxHangups   \* see Http

VARIABLES which,
          class, wanted, running, opc, pc, mutex, stale, lost, spurious,       \* Timers
          page, wpc, sent, whole, open, led_mutex, light, told, dead, hangups  \* Http

Timer == INSTANCE Timers WITH Threads <- TimerThreads
Web == INSTANCE Http WITH pc <- wpc, mutex <- led_mutex

\* "free" says that nobody holds the mutex.
ASSUME HoldersAssumption == "free" \notin TimerThreads

timerVars == <<class, wanted, running, opc, pc, mutex, stale, lost, spurious>>
webVars == <<page, wpc, sent, whole, open, led_mutex, light, told, dead, hangups>>
allVars == <<which, vars, timerVars, webVars>>

MCInit ==
  /\ which \in {"queue", "timer", "web"}
  /\ Init /\ Timer!Init /\ Web!Init
  /\ which # "timer" => class = "cv"
  /\ which # "web" => light = 0 /\ page = [c \in Connections |-> "/none.html"]
QueueNext == which = "queue" /\ Next /\ UNCHANGED <<which, timerVars, webVars>>
TimerNext == which = "timer" /\ Timer!Next /\ UNCHANGED <<which, vars, webVars>>
WebNext == which = "web" /\ Web!Next /\ UNCHANGED <<which, vars, timerVars>>
MCNext == QueueNext \/ TimerNext \/ WebNext

\* The fairness of each, for the behaviours that are its own.
MCFairness ==
  /\ \A s \in Senders : WF_vars(which = "queue" /\ Signal(s))
  /\ \A r \in Receivers :
       /\ WF_vars(which = "queue" /\ Enter(r)) /\ WF_vars(which = "queue" /\ Retest(r))
       /\ WF_vars(which = "queue" /\ LastTest(r)) /\ WF_vars(which = "queue" /\ Pop(r))
  /\ WF_timerVars(which = "timer" /\ Timer!Notify)
  /\ \A t \in TimerThreads : WF_timerVars(which = "timer" /\ Timer!Run(t))
  /\ \A c \in Connections : WF_webVars(which = "web" /\ Web!Thread(c))
MCSpec == MCInit /\ [][MCNext]_allVars /\ MCFairness

(* start, stop and run of both timer classes: a stopped timer ends, a       *)
(* running one goes on calling, and the handler of the cv class is never    *)
(* called twice at the same time, see TimerObeys and CallsExclusive.        *)
TimerObeys == which = "timer" => []Timer!CallsExclusive /\ Timer!TimerObeys
(* http_server: every connection ends, with its reply, see Http.            *)
ConnectionsEnd == which = "web" => Web!ConnectionsEnd
============================================================================
