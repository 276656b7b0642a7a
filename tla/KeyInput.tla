------------------------------ MODULE KeyInput ------------------------------
(***************************************************************************)
(* The key driver of ch03-05/key_input: the threaded interrupt handler     *)
(* that starts the debounce timer, the timer function that reads the line  *)
(* and reports the key, and probe and remove with the managed (devm)       *)
(* resources, which the driver core frees in the order opposite to that of *)
(* their allocation.  One life of the device: probe, use, remove.          *)
(*                                                                         *)
(* The handler, the timer function and remove run concurrently; each step  *)
(* of theirs that another can observe is an action.  protect is the only   *)
(* variable they share without the help of the kernel.  The line has the   *)
(* logical value gpiod_get_value returns.                                  *)
(***************************************************************************)
EXTENDS Integers, Sequences

CONSTANTS MaxEdges  \* bound: changes of the line

ASSUME EdgesAssumption == MaxEdges \in Nat

VARIABLES
  pin, edges,    \* the line, and how often it has changed
  latched,       \* the interrupt controller holds an edge for the handler
  stage, held,   \* what the driver core is doing; how many resources of Order it has
  hpc,           \* key_handler: "idle", "test", "set" or "arm"
  timer,         \* key_timer is pending
  tpc,           \* key_timer_func: "idle", "read", "report" or "out"
  protect,
  key_state,     \* the last value of the line key_timer_func has read
  key,           \* the state of the key in the input core
  heard,         \* the line has changed since the interrupt was requested
  missed,        \* an edge was ignored after the line had been read
  late,          \* mod_timer was called after del_timer_sync
  freed          \* something that is freed was used

hardVars  == <<pin, edges, latched>>
coreVars  == <<stage, held>>
timerVars == <<timer, tpc, key_state, key>>
histVars  == <<heard, missed, late, freed>>
vars      == <<hardVars, coreVars, hpc, timerVars, protect, histVars>>

\* The resources in the order probe takes them.
Order == <<"chip", "input", "gpio", "irq">>
Has(r) == \E k \in 1..held : Order[k] = r

\* What is reported for a value of the line: gpiod_get_value returns 0 for a
\* line that is inactive, and key_timer_func takes 0 for a key that is down.
KeyOf(value) == IF value = "inactive" THEN "KEY_ON" ELSE "KEY_OFF"

Init ==
  /\ pin \in {"inactive", "active"} /\ edges = 0 /\ latched = FALSE
  /\ stage = "probe" /\ held = 0
  /\ hpc = "idle" /\ timer = FALSE /\ tpc = "idle" /\ protect = 0
  /\ key_state = "unread" /\ key = "KEY_OFF"
  /\ heard = FALSE /\ missed = FALSE /\ late = FALSE /\ freed = FALSE

----------------------------------------------------------------------------
(* The line and its interrupt.                                             *)

\* Edges that arrive before the handler has run are one interrupt.
Edge ==
  /\ edges < MaxEdges
  /\ edges' = edges + 1 /\ pin' = (IF pin = "inactive" THEN "active" ELSE "inactive")
  /\ latched' = (latched \/ Has("irq"))
  /\ heard' = (heard \/ Has("irq"))
  /\ UNCHANGED <<coreVars, hpc, timerVars, protect, missed, late, freed>>

\* IRQF_ONESHOT: the handler thread takes one interrupt at a time.
Interrupt ==
  /\ latched /\ Has("irq") /\ hpc = "idle"
  /\ latched' = FALSE /\ hpc' = "test"
  /\ UNCHANGED <<pin, edges, coreVars, timerVars, protect, histVars>>

\* The line has been read and protect is not reset yet.
Window == tpc \in {"report", "out"}

\* key_handler: is the timer under way already?
Test ==
  /\ hpc = "test"
  /\ \/ protect = 0 /\ hpc' = "set" /\ UNCHANGED missed
     \/ protect = 1 /\ hpc' = "idle" /\ missed' = (missed \/ Window)
  /\ UNCHANGED <<hardVars, coreVars, timerVars, protect, heard, late, freed>>

Set ==
  /\ hpc = "set"
  /\ protect' = 1 /\ hpc' = "arm"
  /\ UNCHANGED <<hardVars, coreVars, timerVars, histVars>>

Arm ==
  /\ hpc = "arm"
  /\ timer' = TRUE /\ hpc' = "idle" /\ missed' = FALSE
  /\ late' = (late \/ stage = "release")
  /\ UNCHANGED <<hardVars, coreVars, tpc, key_state, key, protect, heard, freed>>

----------------------------------------------------------------------------
(* key_timer_func.  Memory that is freed stops the model.                  *)

Use(r) == Has(r) /\ UNCHANGED freed
Misuse(r) == ~Has(r) /\ freed' = TRUE /\ UNCHANGED <<timer, tpc, key_state, key, protect>>

Expire ==
  /\ timer /\ tpc = "idle"
  /\ \/ Use("chip") /\ timer' = FALSE /\ tpc' = "read" /\ UNCHANGED <<key_state, key, protect>>
     \/ Misuse("chip")
  /\ UNCHANGED <<hardVars, coreVars, hpc, heard, missed, late>>

Sample ==
  /\ tpc = "read"
  /\ \/ Use("gpio") /\ key_state' \in {pin, "error"} /\ tpc' = "report" /\ UNCHANGED <<timer, key, protect>>
     \/ Misuse("gpio")
  /\ UNCHANGED <<hardVars, coreVars, hpc, heard, missed, late>>

\* input_report_key and input_sync, unless the line could not be read.
Report ==
  /\ tpc = "report"
  /\ \/ /\ key_state = "error"
        /\ tpc' = "out" /\ UNCHANGED <<timer, key_state, key, protect, freed>>
     \/ /\ key_state # "error" /\ Use("input")
        /\ key' = KeyOf(key_state) /\ tpc' = "out" /\ UNCHANGED <<timer, key_state, protect>>
     \/ key_state # "error" /\ Misuse("input")
  /\ UNCHANGED <<hardVars, coreVars, hpc, heard, missed, late>>

(* Mutant: protect is never reset.                                         *)
Out_KeepProtect ==
  /\ tpc = "out" /\ tpc' = "idle"
  /\ UNCHANGED <<hardVars, coreVars, hpc, timer, key_state, key, protect, histVars>>
\* The next edge starts the timer again.
Out ==
  /\ tpc = "out"
  /\ \/ Use("chip") /\ protect' = 0 /\ tpc' = "idle" /\ UNCHANGED <<timer, key_state, key>>
     \/ Misuse("chip")
  /\ UNCHANGED <<hardVars, coreVars, hpc, heard, missed, late>>

----------------------------------------------------------------------------
(* The driver core: probe, remove and the release of managed resources.    *)

\* probe takes its resources one after the other and gives up at the first failure.
Probe ==
  /\ stage = "probe"
  /\ \/ held' = held + 1
        /\ stage' = IF held' = Len(Order) THEN "bound" ELSE "probe"
     \/ stage' = "release" /\ UNCHANGED held
  /\ UNCHANGED <<hardVars, hpc, timerVars, protect, histVars>>

\* The driver is unbound; interrupts still arrive.
Remove ==
  /\ stage = "bound" /\ stage' = "remove"
  /\ UNCHANGED <<hardVars, held, hpc, timerVars, protect, histVars>>

(* Mutant: the timer is left alone.                                        *)
DelTimer_Missing ==
  /\ stage = "remove" /\ stage' = "release"
  /\ UNCHANGED <<hardVars, held, hpc, timerVars, protect, histVars>>
\* del_timer_sync: the timer is not pending and its function is not running.
DelTimer ==
  /\ stage = "remove" /\ tpc = "idle"
  /\ timer' = FALSE /\ stage' = "release"
  /\ UNCHANGED <<hardVars, held, hpc, tpc, key_state, key, protect, histVars>>

\* Managed resources go in the opposite order; free_irq waits for the handler.
Release ==
  /\ stage = "release" /\ held > 0
  /\ Has("irq") => hpc = "idle"
  /\ held' = held - 1
  /\ latched' = (latched /\ ~Has("irq"))
  /\ UNCHANGED <<pin, edges, stage, hpc, timerVars, protect, histVars>>

Handler == Interrupt \/ Test \/ Set \/ Arm
Timer   == Expire \/ Sample \/ Report \/ Out
Core    == Probe \/ DelTimer \/ Release
Next    == ~freed /\ (Edge \/ Handler \/ Timer \/ Core \/ Remove)

Spec     == Init /\ [][Next]_vars
FairSpec == Spec /\ WF_vars(~freed /\ Handler) /\ WF_vars(~freed /\ Timer) /\ WF_vars(~freed /\ Core)
----------------------------------------------------------------------------
LineOK ==
  /\ pin \in {"inactive", "active"} /\ edges \in 0..MaxEdges /\ latched \in BOOLEAN
  /\ stage \in {"probe", "bound", "remove", "release"} /\ held \in 0..Len(Order)
DriverOK ==
  /\ hpc \in {"idle", "test", "set", "arm"} /\ timer \in BOOLEAN
  /\ tpc \in {"idle", "read", "report", "out"} /\ protect \in {0, 1}
HistoryOK ==
  /\ key_state \in {"inactive", "active", "error", "unread"} /\ key \in {"KEY_ON", "KEY_OFF"}
  /\ heard \in BOOLEAN /\ missed \in BOOLEAN /\ late \in BOOLEAN /\ freed \in BOOLEAN
TypeOK == LineOK /\ DriverOK /\ HistoryOK

(* protect alone keeps handler and timer function apart: whoever is about  *)
(* to arm the timer finds it neither pending nor running, so that edges    *)
(* never push a pending debounce timer back.                               *)
OneTimer == hpc \in {"set", "arm"} => ~timer /\ tpc = "idle"

(* As long as the driver is bound, protect never stays set without a timer *)
(* that will reset it: one lost reset and no key is reported again.        *)
NeverStuck ==
  (stage \in {"probe", "bound"} /\ protect = 1) => timer \/ tpc # "idle" \/ hpc = "arm"

(* When nothing is under way the key in the input core shows the line,     *)
(* unless it could not be read or an edge fell into the window between     *)
(* reading the line and the reset of protect, whose loss nobody notices    *)
(* before the next edge.                                                   *)
Quiet == ~latched /\ hpc = "idle" /\ ~timer /\ tpc = "idle"
KeyFollowsLine ==
  (stage = "bound" /\ heard /\ Quiet /\ ~missed /\ key_state # "error") => key = KeyOf(pin)

(* Memory, line and input device outlive the timer function that uses      *)
(* them, unless an edge arms the timer between del_timer_sync and the      *)
(* release of the interrupt.                                               *)
UsedWhileHeld == freed => late

(* Again and again the key shows the line, with the exceptions of          *)
(* KeyFollowsLine: every change of the line that is heard is reported.     *)
KeyReported ==
  []<>(stage # "bound" \/ ~heard \/ missed \/ key_state = "error" \/ key = KeyOf(pin))
============================================================================
