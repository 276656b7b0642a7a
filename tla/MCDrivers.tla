------------------------------ MODULE MCDrivers ------------------------------
(***************************************************************************)
(* The drivers that interrupts enter, and the life of every driver: the key *)
(* (KeyInput), the real time clocks (Rtc), the touchscreen (Touch), and     *)
(* probe and remove of all of them (DriverLife).  `which' says which of     *)
(* them a behaviour is of; the variables of the others rest.                *)
(***************************************************************************)
EXTENDS KeyInput

CONSTANTS Times,      \* the times and alarms that are set, see Rtc
          BusErrors   \* bound: transfers to the clock that fail

VARIABLES which,
          driver, state, todo, owned, devres, files, misuse, early,                  \* DriverLife
          rtc, regs, vl, polarity, alarm, aie, af, irq, user, thread, result, set, asked, wanted,
          raced, errors,                                                              \* Rtc
          fingers, ready, report, tIrq, step, touches, points, slots, pressed, changes, tErrors \* Touch

D == INSTANCE DriverSet
Life == INSTANCE DriverLife WITH
  Drivers <- D!MCDrivers, TableOf <- D!MCTables, Known <- D!MCKnown, held <- owned

Clock == INSTANCE Rtc WITH MaxErrors <- BusErrors, driver <- rtc
Screen == INSTANCE Touch WITH
  Ids <- {0, 1, 2}, Contacts <- 2, MaxChanges <- 3, MaxErrors <- 2, irq <- tIrq, errors <- tErrors

\* In the last second of 2099 and in the first minutes of 2000.
MCTimes == {<<59, 59, 23, 31, 4, 11, 199>>, <<0, 10, 9, 1, 6, 0, 100>>}

(* The RTC core passes valid times only, and within the range that each of  *)
(* the three drivers gives it: 2000 to 2099 (kernel_bus_rtc.c:454).         *)
ASSUME TimesAssumption ==
  \A t \in Times : /\ t \in Seq(Nat) /\ Len(t) = 7
                   /\ t[1] \in 0..59 /\ t[2] \in 0..59 /\ t[3] \in 0..23 /\ t[4] \in 1..31
                   /\ t[5] \in 0..6 /\ t[6] \in 0..11 /\ t[7] \in 100..199

(* Every driver of which DriverSet lists no defect has a sound table.       *)
ASSUME TablesAssumption ==
  \A d \in D!MCDrivers : Life!Sound(D!MCTables[d]) \/ \E m \in D!MCKnown : m[1] = d

lifeVars == <<driver, state, todo, owned, devres, files, misuse, early>>
rtcVars == <<rtc, regs, vl, polarity, alarm, aie, af, irq, user, thread, result, set, asked,
             wanted, raced, errors>>
touchVars == <<fingers, ready, report, tIrq, step, touches, points, slots, pressed, changes, tErrors>>

MCInit ==
  /\ which \in {"key", "life", "clock", "touch"}
  /\ which # "life" => driver = "led"
  /\ which # "clock" => rtc = "bus"
  /\ Init /\ Life!Init /\ Clock!Init /\ Screen!Init
KeyNext == which = "key" /\ Next /\ UNCHANGED <<which, lifeVars, rtcVars, touchVars>>
LifeNext == which = "life" /\ Life!Next /\ UNCHANGED <<which, vars, rtcVars, touchVars>>
ClockNext == which = "clock" /\ Clock!Next /\ UNCHANGED <<which, vars, lifeVars, touchVars>>
TouchNext == which = "touch" /\ Screen!Next /\ UNCHANGED <<which, vars, lifeVars, rtcVars>>
MCNext == KeyNext \/ LifeNext \/ ClockNext \/ TouchNext

\* The fairness of each, for the behaviours that are its own.
MCFairness ==
  /\ WF_vars(which = "key" /\ ~freed /\ Handler) /\ WF_vars(which = "key" /\ ~freed /\ Timer)
  /\ WF_vars(which = "key" /\ ~freed /\ Core)
  /\ WF_rtcVars(which = "clock" /\ Clock!UserStep) /\ WF_rtcVars(which = "clock" /\ Clock!ThreadStep)
  /\ WF_touchVars(which = "touch" /\ Screen!Scan) /\ WF_touchVars(which = "touch" /\ Screen!Handler)
MCSpec == MCInit /\ [][MCNext]_<<which, vars, lifeVars, rtcVars, touchVars>> /\ MCFairness

(* probe, its error paths, remove and the driver core, and the files and    *)
(* interrupts that enter in between: nothing is used or given back that is  *)
(* not held, and nothing is left taken, but for what DriverSet lists, see   *)
(* UsedWhileHeld and NothingLeaked in DriverLife.                           *)
ResourcesKept == Life!UsedWhileHeld /\ Life!NothingLeaked
(* get_time, set_time, read_alarm and set_alarm of the three drivers: what  *)
(* is read is what was set, see Rtc.                                        *)
ReadsBack == Clock!ReadsBack
(* alarm_irq_enable against the interrupt thread: the alarm is on when it   *)
(* was last asked for, and the thread lets the line go, see AlarmModeKept   *)
(* and AlarmAnswered in Rtc.                                                *)
AlarmObeys == which = "clock" => []Clock!AlarmModeKept /\ Clock!AlarmAnswered
(* goodix_irq_handler: the input device shows the fingers, see Touch.       *)
TouchSettles == which = "touch" => Screen!TouchSettles
=============================================================================
