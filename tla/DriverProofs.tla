---------------------------- MODULE DriverProofs ----------------------------
(***************************************************************************)
(* Proofs about the key driver, for any number of edges; about the real     *)
(* time clocks, for any times, alarms and failing transfers: what is read   *)
(* is what was set, and the alarm is in the mode it was asked for; and      *)
(* about the life of any driver whose table is sound.                       *)
(***************************************************************************)
EXTENDS MCDrivers, SequenceTheorems, TLAPS


\* probe has all resources when it ends, and nothing runs before.
Staged ==
  /\ stage \in {"bound", "remove"} => held = Len(Order)
  /\ stage = "probe" => /\ held < Len(Order) /\ ~heard
                        /\ hpc = "idle" /\ ~timer /\ tpc = "idle"

\* protect is the lock of the timer: taken before it is armed, released when
\* its function ends.
Protected ==
  /\ hpc = "arm" => protect = 1
  /\ timer \/ tpc # "idle" => protect = 1
  /\ tpc # "idle" => ~timer

\* Between remove and the release of the resources only a late timer exists.
Timely ==
  /\ ~late /\ (timer \/ tpc # "idle") => stage \in {"bound", "remove"}
  /\ freed => late

\* What was read last is what is or will be reported, and still true.
Fresh ==
  \/ key_state = "error"
  \/ tpc = "report" /\ key_state = pin
  \/ tpc \in {"out", "idle"} /\ key_state = pin /\ key = KeyOf(pin)

\* An edge that was heard is on its way, or its value is.
OnItsWay ==
  (stage = "bound" /\ heard /\ ~missed) =>
    latched \/ hpc # "idle" \/ timer \/ tpc = "read" \/ Fresh

IInv == TypeOK /\ OneTimer /\ NeverStuck /\ Staged /\ Protected /\ Timely /\ OnItsWay

(* The interrupt is the last of four resources, and a bound driver has all.*)
LEMMA Resources ==
  ASSUME TypeOK, Staged
  PROVE  /\ Len(Order) = 4
         /\ stage \in {"bound", "remove"} => Has("chip") /\ Has("input") /\ Has("gpio") /\ Has("irq")
         /\ stage = "probe" => ~Has("irq")
<1>1. Order[1] = "chip" /\ Order[2] = "input" /\ Order[3] = "gpio" /\ Order[4] = "irq" /\ Len(Order) = 4
  BY DEF Order
<1>2. held \in Nat /\ held <= 4
  BY <1>1 DEF TypeOK, LineOK
<1>3. ASSUME Has("irq") PROVE held = 4
  <2>1. PICK k \in 1..held : Order[k] = "irq"
    BY <1>3 DEF Has
  <2>2. k \in {1, 2, 3, 4}
    BY <1>2
  <2>. QED  BY <1>1, <1>2, <2>1, <2>2
<1>4. ASSUME held = 4 PROVE Has("chip") /\ Has("input") /\ Has("gpio") /\ Has("irq")
  <2>1. 1 \in 1..held /\ 2 \in 1..held /\ 3 \in 1..held /\ 4 \in 1..held
    BY <1>4
  <2>. QED  BY <1>1, <2>1, Zenon DEF Has
<1>5. stage = "probe" => held < 4
  BY <1>1 DEF Staged
<1>6. stage \in {"bound", "remove"} => held = 4
  BY <1>1 DEF Staged
<1>7. stage = "probe" => ~Has("irq")
  BY <1>2, <1>3, <1>5
<1>. QED  BY <1>1, <1>4, <1>6, <1>7

(* A line that changes, an interrupt and its handler.                      *)
LEMMA HandlerStep ==
  ASSUME IInv, Edge \/ Handler
  PROVE  IInv'
<1>0. /\ Len(Order) = 4
      /\ stage \in {"bound", "remove"} => Has("chip") /\ Has("input") /\ Has("gpio") /\ Has("irq")
      /\ stage = "probe" => ~Has("irq")
  BY Resources DEF IInv
<1>. USE DEF IInv, TypeOK, hardVars, coreVars, timerVars, histVars
<1>1. CASE Edge
  <2>1. LineOK'
    BY <1>1, EdgesAssumption DEF Edge, LineOK
  <2>2. DriverOK'
    BY <1>1 DEF Edge, DriverOK
  <2>3. HistoryOK'
    BY <1>1 DEF Edge, HistoryOK
  <2>4. OneTimer'
    BY <1>1 DEF Edge, OneTimer, Protected
  <2>5. NeverStuck'
    BY <1>1 DEF Edge, NeverStuck, Staged, Protected
  <2>6. Staged'
    BY <1>0, <1>1 DEF Edge, Staged, LineOK
  <2>7. Protected'
    BY <1>1 DEF Edge, DriverOK, OneTimer, Protected
  <2>8. Timely'
    BY <1>1 DEF Edge, Timely, Staged
  <2>9. OnItsWay'
    BY <1>0, <1>1 DEF Edge, OnItsWay, NeverStuck, Staged, Fresh, LineOK
  <2>. QED  BY <2>1, <2>2, <2>3, <2>4, <2>5, <2>6, <2>7, <2>8, <2>9
<1>2. CASE Interrupt
  <2>1. LineOK'
    BY <1>2 DEF Interrupt, LineOK
  <2>2. DriverOK'
    BY <1>2 DEF Interrupt, DriverOK
  <2>3. HistoryOK'
    BY <1>2 DEF Interrupt, HistoryOK
  <2>4. OneTimer'
    BY <1>2 DEF Interrupt, OneTimer, Protected
  <2>5. NeverStuck'
    BY <1>2 DEF Interrupt, NeverStuck, Staged, Protected
  <2>6. Staged'
    BY <1>0, <1>2 DEF Interrupt, Staged, LineOK
  <2>7. Protected'
    BY <1>2 DEF Interrupt, DriverOK, OneTimer, Protected
  <2>8. Timely'
    BY <1>2 DEF Interrupt, Timely, Staged
  <2>9. OnItsWay'
    BY <1>0, <1>2 DEF Interrupt, OnItsWay, NeverStuck, Staged, Fresh, LineOK
  <2>. QED  BY <2>1, <2>2, <2>3, <2>4, <2>5, <2>6, <2>7, <2>8, <2>9
<1>3. CASE Test
  <2>1. LineOK'
    BY <1>3 DEF Test, LineOK
  <2>2. DriverOK'
    BY <1>3 DEF Test, DriverOK
  <2>3. HistoryOK'
    BY <1>3 DEF Test, HistoryOK
  <2>4. OneTimer'
    BY <1>3 DEF Test, OneTimer, Protected
  <2>5. NeverStuck'
    BY <1>3 DEF Test, NeverStuck, Staged, Protected
  <2>6. Staged'
    BY <1>3 DEF Test, Staged
  <2>7. Protected'
    BY <1>3 DEF Test, DriverOK, OneTimer, Protected
  <2>8. Timely'
    BY <1>3 DEF Test, Timely, Staged
  <2>9. OnItsWay'
    BY <1>3 DEF Test, OnItsWay, NeverStuck, Staged, Fresh, DriverOK, Window
  <2>. QED  BY <2>1, <2>2, <2>3, <2>4, <2>5, <2>6, <2>7, <2>8, <2>9
<1>4. CASE Set
  <2>1. LineOK'
    BY <1>4 DEF Set, LineOK
  <2>2. DriverOK'
    BY <1>4 DEF Set, DriverOK
  <2>3. HistoryOK'
    BY <1>4 DEF Set, HistoryOK
  <2>4. OneTimer'
    BY <1>4 DEF Set, OneTimer, Protected
  <2>5. NeverStuck'
    BY <1>4 DEF Set, NeverStuck, Staged, Protected
  <2>6. Staged'
    BY <1>4 DEF Set, Staged
  <2>7. Protected'
    BY <1>4 DEF Set, DriverOK, OneTimer, Protected
  <2>8. Timely'
    BY <1>4 DEF Set, Timely, Staged
  <2>9. OnItsWay'
    BY <1>4 DEF Set, OnItsWay, NeverStuck, Staged, Fresh
  <2>. QED  BY <2>1, <2>2, <2>3, <2>4, <2>5, <2>6, <2>7, <2>8, <2>9
<1>5. CASE Arm
  <2>1. LineOK'
    BY <1>5 DEF Arm, LineOK
  <2>2. DriverOK'
    BY <1>5 DEF Arm, DriverOK
  <2>3. HistoryOK'
    BY <1>5 DEF Arm, HistoryOK
  <2>4. OneTimer'
    BY <1>5 DEF Arm, OneTimer, Protected
  <2>5. NeverStuck'
    BY <1>5 DEF Arm, NeverStuck, Staged, Protected
  <2>6. Staged'
    BY <1>5 DEF Arm, Staged
  <2>7. Protected'
    BY <1>5 DEF Arm, DriverOK, OneTimer, Protected
  <2>8. Timely'
    BY <1>5 DEF Arm, Timely, Staged, LineOK
  <2>9. OnItsWay'
    BY <1>5 DEF Arm, OnItsWay, NeverStuck, Staged, Fresh
  <2>. QED  BY <2>1, <2>2, <2>3, <2>4, <2>5, <2>6, <2>7, <2>8, <2>9
<1>. QED  BY <1>1, <1>2, <1>3, <1>4, <1>5 DEF Handler

(* The timer function.                                                     *)
LEMMA TimerStep ==
  ASSUME IInv, Timer
  PROVE  IInv'
<1>0. /\ Len(Order) = 4
      /\ stage \in {"bound", "remove"} => Has("chip") /\ Has("input") /\ Has("gpio") /\ Has("irq")
      /\ stage = "probe" => ~Has("irq")
  BY Resources DEF IInv
<1>. USE DEF IInv, TypeOK, hardVars, coreVars, timerVars, histVars
<1>1. CASE Expire
  <2>1. LineOK'
    BY <1>1 DEF Expire, Use, Misuse, LineOK
  <2>2. DriverOK'
    BY <1>1 DEF Expire, Use, Misuse, DriverOK
  <2>3. HistoryOK'
    BY <1>1 DEF Expire, Use, Misuse, HistoryOK
  <2>4. OneTimer'
    BY <1>1 DEF Expire, Use, Misuse, OneTimer, Protected
  <2>5. NeverStuck'
    BY <1>1 DEF Expire, Use, Misuse, NeverStuck, Staged, Protected
  <2>6. Staged'
    BY <1>1 DEF Expire, Use, Misuse, Staged
  <2>7. Protected'
    BY <1>1 DEF Expire, Use, Misuse, DriverOK, OneTimer, Protected
  <2>8. Timely'
    <3>1. timer /\ UNCHANGED <<stage, late>>
      BY <1>1 DEF Expire
    <3>2. CASE late
      BY <3>1, <3>2 DEF Timely
    <3>3. CASE ~late
      <4>1. stage \in {"bound", "remove"} /\ ~freed
        BY <3>1, <3>3 DEF Timely
      <4>2. UNCHANGED freed
        BY <1>0, <1>1, <4>1 DEF Expire, Use, Misuse
      <4>. QED  BY <3>1, <4>1, <4>2 DEF Timely
    <3>. QED  BY <3>2, <3>3
  <2>9. OnItsWay'
    BY <1>1 DEF Expire, Use, Misuse, OnItsWay, NeverStuck, Staged, Fresh
  <2>. QED  BY <2>1, <2>2, <2>3, <2>4, <2>5, <2>6, <2>7, <2>8, <2>9
<1>2. CASE Sample
  <2>1. LineOK'
    BY <1>2 DEF Sample, Use, Misuse, LineOK
  <2>2. DriverOK'
    BY <1>2 DEF Sample, Use, Misuse, DriverOK
  <2>3. HistoryOK'
    BY <1>2 DEF Sample, Use, Misuse, HistoryOK, LineOK
  <2>4. OneTimer'
    BY <1>2 DEF Sample, Use, Misuse, OneTimer, Protected
  <2>5. NeverStuck'
    BY <1>2 DEF Sample, Use, Misuse, NeverStuck, Staged, Protected
  <2>6. Staged'
    BY <1>2 DEF Sample, Use, Misuse, Staged
  <2>7. Protected'
    BY <1>2 DEF Sample, Use, Misuse, DriverOK, OneTimer, Protected
  <2>8. Timely'
    BY <1>0, <1>2 DEF Sample, Use, Misuse, Timely, Staged, LineOK
  <2>9. OnItsWay'
    BY <1>2 DEF Sample, Use, Misuse, OnItsWay, NeverStuck, Staged, Fresh
  <2>. QED  BY <2>1, <2>2, <2>3, <2>4, <2>5, <2>6, <2>7, <2>8, <2>9
<1>3. CASE Report
  <2>1. LineOK'
    BY <1>3 DEF Report, Use, Misuse, LineOK
  <2>2. DriverOK'
    BY <1>3 DEF Report, Use, Misuse, DriverOK
  <2>3. HistoryOK'
    BY <1>3 DEF Report, Use, Misuse, HistoryOK, KeyOf
  <2>4. OneTimer'
    BY <1>3 DEF Report, Use, Misuse, OneTimer, Protected
  <2>5. NeverStuck'
    BY <1>3 DEF Report, Use, Misuse, NeverStuck, Staged, Protected
  <2>6. Staged'
    BY <1>3 DEF Report, Use, Misuse, Staged
  <2>7. Protected'
    BY <1>3 DEF Report, Use, Misuse, DriverOK, OneTimer, Protected
  <2>8. Timely'
    BY <1>0, <1>3 DEF Report, Use, Misuse, Timely, Staged, LineOK
  <2>9. OnItsWay'
    BY <1>3 DEF Report, Use, Misuse, OnItsWay, NeverStuck, Staged, Fresh, KeyOf
  <2>. QED  BY <2>1, <2>2, <2>3, <2>4, <2>5, <2>6, <2>7, <2>8, <2>9
<1>4. CASE Out
  <2>1. LineOK'
    BY <1>4 DEF Out, Use, Misuse, LineOK
  <2>2. DriverOK'
    BY <1>4 DEF Out, Use, Misuse, DriverOK
  <2>3. HistoryOK'
    BY <1>4 DEF Out, Use, Misuse, HistoryOK
  <2>4. OneTimer'
    BY <1>4 DEF Out, Use, Misuse, OneTimer, Protected
  <2>5. NeverStuck'
    BY <1>4 DEF Out, Use, Misuse, NeverStuck, Staged, Protected
  <2>6. Staged'
    BY <1>4 DEF Out, Use, Misuse, Staged
  <2>7. Protected'
    BY <1>4 DEF Out, Use, Misuse, DriverOK, OneTimer, Protected
  <2>8. Timely'
    BY <1>0, <1>4 DEF Out, Use, Misuse, Timely, Staged, LineOK
  <2>9. OnItsWay'
    BY <1>4 DEF Out, Use, Misuse, OnItsWay, NeverStuck, Staged, Fresh
  <2>. QED  BY <2>1, <2>2, <2>3, <2>4, <2>5, <2>6, <2>7, <2>8, <2>9
<1>. QED  BY <1>1, <1>2, <1>3, <1>4 DEF Timer

(* The driver core.                                                        *)
LEMMA CoreStep ==
  ASSUME IInv, Core \/ Remove
  PROVE  IInv'
<1>0. /\ Len(Order) = 4
      /\ stage \in {"bound", "remove"} => Has("chip") /\ Has("input") /\ Has("gpio") /\ Has("irq")
      /\ stage = "probe" => ~Has("irq")
  BY Resources DEF IInv
<1>. USE DEF IInv, TypeOK, hardVars, coreVars, timerVars, histVars
<1>1. CASE Probe
  <2>1. LineOK'
    BY <1>0, <1>1 DEF Probe, LineOK, Staged
  <2>2. DriverOK'
    BY <1>1 DEF Probe, DriverOK
  <2>3. HistoryOK'
    BY <1>1 DEF Probe, HistoryOK
  <2>4. OneTimer'
    BY <1>1 DEF Probe, OneTimer, Protected
  <2>5. NeverStuck'
    BY <1>1 DEF Probe, NeverStuck, Staged, Protected
  <2>6. Staged'
    BY <1>0, <1>1 DEF Probe, Staged, LineOK
  <2>7. Protected'
    BY <1>1 DEF Probe, DriverOK, OneTimer, Protected
  <2>8. Timely'
    BY <1>1 DEF Probe, Timely, Staged
  <2>9. OnItsWay'
    BY <1>0, <1>1 DEF Probe, OnItsWay, NeverStuck, Staged, Fresh, LineOK
  <2>. QED  BY <2>1, <2>2, <2>3, <2>4, <2>5, <2>6, <2>7, <2>8, <2>9
<1>2. CASE Remove
  <2>1. LineOK'
    BY <1>2 DEF Remove, LineOK
  <2>2. DriverOK'
    BY <1>2 DEF Remove, DriverOK
  <2>3. HistoryOK'
    BY <1>2 DEF Remove, HistoryOK
  <2>4. OneTimer'
    BY <1>2 DEF Remove, OneTimer, Protected
  <2>5. NeverStuck'
    BY <1>2 DEF Remove, NeverStuck, Staged, Protected
  <2>6. Staged'
    BY <1>2 DEF Remove, Staged
  <2>7. Protected'
    BY <1>2 DEF Remove, DriverOK, OneTimer, Protected
  <2>8. Timely'
    BY <1>2 DEF Remove, Timely, Staged
  <2>9. OnItsWay'
    BY <1>2 DEF Remove, OnItsWay, NeverStuck, Staged, Fresh
  <2>. QED  BY <2>1, <2>2, <2>3, <2>4, <2>5, <2>6, <2>7, <2>8, <2>9
<1>3. CASE DelTimer
  <2>1. LineOK'
    BY <1>3 DEF DelTimer, LineOK
  <2>2. DriverOK'
    BY <1>3 DEF DelTimer, DriverOK
  <2>3. HistoryOK'
    BY <1>3 DEF DelTimer, HistoryOK
  <2>4. OneTimer'
    BY <1>3 DEF DelTimer, OneTimer, Protected
  <2>5. NeverStuck'
    BY <1>3 DEF DelTimer, NeverStuck, Staged, Protected
  <2>6. Staged'
    BY <1>3 DEF DelTimer, Staged
  <2>7. Protected'
    BY <1>3 DEF DelTimer, DriverOK, OneTimer, Protected
  <2>8. Timely'
    BY <1>3 DEF DelTimer, Timely, Staged
  <2>9. OnItsWay'
    BY <1>3 DEF DelTimer, OnItsWay, NeverStuck, Staged, Fresh
  <2>. QED  BY <2>1, <2>2, <2>3, <2>4, <2>5, <2>6, <2>7, <2>8, <2>9
<1>4. CASE Release
  <2>1. LineOK'
    BY <1>0, <1>4 DEF Release, LineOK
  <2>2. DriverOK'
    BY <1>4 DEF Release, DriverOK
  <2>3. HistoryOK'
    BY <1>4 DEF Release, HistoryOK
  <2>4. OneTimer'
    BY <1>4 DEF Release, OneTimer, Protected
  <2>5. NeverStuck'
    BY <1>4 DEF Release, NeverStuck, Staged, Protected
  <2>6. Staged'
    BY <1>4 DEF Release, Staged
  <2>7. Protected'
    BY <1>4 DEF Release, DriverOK, OneTimer, Protected
  <2>8. Timely'
    BY <1>4 DEF Release, Timely, Staged
  <2>9. OnItsWay'
    BY <1>4 DEF Release, OnItsWay, NeverStuck, Staged, Fresh
  <2>. QED  BY <2>1, <2>2, <2>3, <2>4, <2>5, <2>6, <2>7, <2>8, <2>9
<1>. QED  BY <1>1, <1>2, <1>3, <1>4 DEF Core

LEMMA Invariant == Spec => []IInv
<1>1. ASSUME Init PROVE IInv
  <2>1. LineOK
    <3>1. 0 \in 0..MaxEdges /\ 0 \in 0..Len(Order)
      BY EdgesAssumption DEF Order
    <3>. QED  BY <1>1, <3>1 DEF Init, LineOK
  <2>2. DriverOK /\ HistoryOK
    BY <1>1 DEF Init, DriverOK, HistoryOK
  <2>3. OneTimer /\ NeverStuck /\ Protected
    BY <1>1 DEF Init, OneTimer, NeverStuck, Protected
  <2>4. Staged /\ Timely /\ OnItsWay
    BY <1>1 DEF Init, Staged, Timely, OnItsWay, Order
  <2>. QED  BY <2>1, <2>2, <2>3, <2>4 DEF IInv, TypeOK
<1>2. IInv /\ [Next]_vars => IInv'
  <2>1. SUFFICES ASSUME IInv, [Next]_vars PROVE IInv'
    OBVIOUS
  <2>2. CASE Edge \/ Handler
    BY <2>1, <2>2, HandlerStep
  <2>3. CASE Timer
    BY <2>1, <2>3, TimerStep
  <2>4. CASE Core \/ Remove
    BY <2>1, <2>4, CoreStep
  <2>5. CASE UNCHANGED vars
    BY <2>1, <2>5
       DEF vars, hardVars, coreVars, timerVars, histVars, IInv, TypeOK, LineOK, DriverOK, HistoryOK, OneTimer, NeverStuck,
           Staged, Protected, Timely, OnItsWay, Fresh
  <2>. QED  BY <2>1, <2>2, <2>3, <2>4, <2>5 DEF Next
<1>. QED  BY <1>1, <1>2, PTL DEF Spec

----------------------------------------------------------------------------
(* Every variable keeps its type, however often the line changes.          *)
THEOREM TypeCorrect == Spec => []TypeOK
<1>1. IInv => TypeOK
  BY DEF IInv
<1>. QED  BY <1>1, Invariant, PTL

(* key_handler never touches a timer that is pending or running.           *)
THEOREM TimerIsExclusive == Spec => []OneTimer
<1>1. IInv => OneTimer
  BY DEF IInv
<1>. QED  BY <1>1, Invariant, PTL

(* protect is never left set while the driver is bound.                    *)
THEOREM ProtectIsReset == Spec => []NeverStuck
<1>1. IInv => NeverStuck
  BY DEF IInv
<1>. QED  BY <1>1, Invariant, PTL

(* At rest the key shows the line, unless an edge fell into the window.    *)
THEOREM KeyIsRight == Spec => []KeyFollowsLine
<1>1. IInv => KeyFollowsLine
  BY DEF IInv, OnItsWay, Fresh, KeyFollowsLine, Quiet
<1>. QED  BY <1>1, Invariant, PTL

(* Only a timer armed after del_timer_sync outlives what it uses.          *)
THEOREM NothingUsedAfterRelease == Spec => []UsedWhileHeld
<1>1. IInv => UsedWhileHeld
  BY DEF IInv, Timely, UsedWhileHeld
<1>. QED  BY <1>1, Invariant, PTL

-----------------------------------------------------------------------------
(* The real time clocks.                                                    *)

\* The registers hold the time that was set; bit 7 of the month is used by
\* the third driver only.
Stored(t) ==
  \E b \in {0, 128} :
    /\ b = 0 \/ Clock!Level
    /\ regs = << Clock!bin2bcd(t[1]), Clock!bin2bcd(t[2]), Clock!bin2bcd(t[3]), Clock!bin2bcd(t[4]), t[5],
                 Clock!bin2bcd(t[6] + 1) + b, Clock!bin2bcd(t[7] - 100) >>
TimeKept == ~vl => set \in Times /\ Stored(set)

AlarmKept ==
  asked # Clock!None =>
    \E t \in Times : /\ asked = <<t[2], t[3], t[4], t[5]>>
                     /\ alarm = Clock!AlarmFields(t)

\* The mode in the chip, and the one that the interrupt thread will write.
ModeKept ==
  ~raced =>
    /\ aie = wanted
    /\ thread.at = "write" => thread.aie = aie
    /\ Clock!Level /\ (irq \/ thread.at = "mode") => aie
ClockTypes ==
  /\ rtc \in {"bus", "regmap", "pcf8563"}
  /\ thread \in [at : {"idle", "clear", "mode", "write"}, aie : BOOLEAN]
  /\ thread.at = "mode" => Clock!Level
  /\ aie \in BOOLEAN /\ wanted \in BOOLEAN /\ af \in BOOLEAN /\ irq \in BOOLEAN /\ raced \in BOOLEAN
  /\ user \in [at : {"idle", "mode", "write"}, on : BOOLEAN]

ClockInv == ClockTypes /\ TimeKept /\ AlarmKept /\ Clock!ReadsBack /\ ModeKept

(* BCD and back, in so many bits of a register.                             *)
LEMMA BcdAndBack ==
  ASSUME NEW n \in 0..99
  PROVE  /\ Clock!bin2bcd(n) \in 0..255
         /\ Clock!bcd2bin(Clock!bin2bcd(n)) = n
         /\ n < 80 => Clock!bin2bcd(n) % 128 = Clock!bin2bcd(n)
         /\ n < 40 => Clock!bin2bcd(n) % 64 = Clock!bin2bcd(n)
         /\ n < 20 => Clock!bin2bcd(n) % 32 = Clock!bin2bcd(n)
         /\ n < 20 => (Clock!bin2bcd(n) + 128) % 32 = Clock!bin2bcd(n)
         /\ n < 20 => Clock!bin2bcd(n) < 128
         /\ n < 8  => n % 8 = n /\ Clock!bcd2bin(n) = n
<1>1. PICK q \in 0..9, r \in 0..9 : n = 10 * q + r /\ n \div 10 = q /\ n % 10 = r
  <2>1. n = 10 * (n \div 10) + (n % 10) /\ n \div 10 \in 0..9 /\ n % 10 \in 0..9
    OBVIOUS
  <2>. QED  BY <2>1
<1>2. Clock!bin2bcd(n) = 16 * q + r
  BY <1>1 DEF Clock!bin2bcd
<1>3. (16 * q + r) \div 16 = q /\ (16 * q + r) % 16 = r
  OBVIOUS
<1>4. Clock!bcd2bin(16 * q + r) = n
  BY <1>1, <1>3 DEF Clock!bcd2bin
<1>5. ASSUME n < 80 PROVE 16 * q + r \in 0..127
  BY <1>1, <1>5
<1>6. ASSUME n < 40 PROVE 16 * q + r \in 0..63
  BY <1>1, <1>6
<1>7. ASSUME n < 20 PROVE 16 * q + r \in 0..31
  BY <1>1, <1>7
<1>8. \A k \in 0..31 : k % 32 = k /\ (k + 128) % 32 = k
  OBVIOUS
<1>9. n < 8 => n % 8 = n /\ n \div 16 = 0 /\ n % 16 = n
  OBVIOUS
<1>10. n < 8 => Clock!bcd2bin(n) = n
  BY <1>9 DEF Clock!bcd2bin
<1>11. 16 * q + r \in 0..255
  OBVIOUS
<1>. QED  BY <1>2, <1>4, <1>5, <1>6, <1>7, <1>8, <1>9, <1>10, <1>11

(* Each conversion of the drivers, with the mask of its register.           *)
LEMMA Masked128 == \A n \in 0..79 : Clock!bcd2bin(Clock!bin2bcd(n) % 128) = n
<1>1. ASSUME NEW n \in 0..79 PROVE Clock!bcd2bin(Clock!bin2bcd(n) % 128) = n
  <2>1. n \in 0..99 /\ n < 80
    OBVIOUS
  <2>2. Clock!bin2bcd(n) % 128 = Clock!bin2bcd(n) /\ Clock!bcd2bin(Clock!bin2bcd(n)) = n
    BY <2>1, BcdAndBack, Zenon
  <2>. QED  BY <2>2, Zenon
<1>. QED  BY <1>1

(* The same for six bits.                                                   *)
LEMMA Masked64 == \A n \in 0..39 : Clock!bcd2bin(Clock!bin2bcd(n) % 64) = n
<1>1. ASSUME NEW n \in 0..39 PROVE Clock!bcd2bin(Clock!bin2bcd(n) % 64) = n
  <2>1. n \in 0..99 /\ n < 40
    OBVIOUS
  <2>2. Clock!bin2bcd(n) % 64 = Clock!bin2bcd(n) /\ Clock!bcd2bin(Clock!bin2bcd(n)) = n
    BY <2>1, BcdAndBack, Zenon
  <2>. QED  BY <2>2, Zenon
<1>. QED  BY <1>1

(* The same for five bits, with and without the century bit above them.     *)
LEMMA Masked32 ==
  \A n \in 0..19 : /\ Clock!bcd2bin(Clock!bin2bcd(n) % 32) = n
                   /\ Clock!bcd2bin((Clock!bin2bcd(n) + 128) % 32) = n
                   /\ Clock!bin2bcd(n) \in 0..127
<1>3. ASSUME NEW n \in 0..19
      PROVE  /\ Clock!bcd2bin(Clock!bin2bcd(n) % 32) = n
             /\ Clock!bcd2bin((Clock!bin2bcd(n) + 128) % 32) = n
             /\ Clock!bin2bcd(n) \in 0..127
  <2>1. n \in 0..99 /\ n < 20
    OBVIOUS
  <2>2. /\ Clock!bin2bcd(n) % 32 = Clock!bin2bcd(n) /\ Clock!bcd2bin(Clock!bin2bcd(n)) = n
        /\ (Clock!bin2bcd(n) + 128) % 32 = Clock!bin2bcd(n)
        /\ Clock!bin2bcd(n) < 128 /\ Clock!bin2bcd(n) \in 0..255
    BY <2>1, BcdAndBack, Zenon
  <2>3. Clock!bin2bcd(n) \in 0..127
    BY <2>2
  <2>. QED  BY <2>2, <2>3, Zenon
<1>. QED  BY <1>3

(* The same for one digit, which is stored as it is.                        *)
LEMMA Masked8 == \A n \in 0..7 : n % 8 = n /\ Clock!bcd2bin(n) = n
<1>4. ASSUME NEW n \in 0..7 PROVE n % 8 = n /\ Clock!bcd2bin(n) = n
  <2>1. n \in 0..99 /\ n < 8
    OBVIOUS
  <2>. QED  BY <2>1, BcdAndBack, Zenon
<1>. QED  BY <1>4

(* The same for a whole byte.                                               *)
LEMMA Masked256 == \A n \in 0..99 : Clock!bcd2bin(Clock!bin2bcd(n)) = n
BY BcdAndBack

(* What a valid time is made of.                                            *)
LEMMA ValidTime ==
  ASSUME NEW t \in Times
  PROVE  /\ t = <<t[1], t[2], t[3], t[4], t[5], t[6], t[7]>> /\ Len(t) = 7
         /\ t[1] \in 0..59 /\ t[2] \in 0..59 /\ t[3] \in 0..23 /\ t[4] \in 1..31
         /\ t[5] \in 0..6 /\ t[6] \in 0..11 /\ t[7] \in 100..199
         /\ SubSeq(t, 2, 5) = <<t[2], t[3], t[4], t[5]>>
         /\ t \notin {Clock!None, Clock!Error}
<1>1. t \in Seq(Nat) /\ Len(t) = 7
  BY TimesAssumption
<1>2. t = <<t[1], t[2], t[3], t[4], t[5], t[6], t[7]>>
  BY <1>1
<1>3. SubSeq(t, 2, 5) = <<t[2], t[3], t[4], t[5]>>
  <2>. DEFINE u == SubSeq(t, 2, 5)
              v == <<t[2], t[3], t[4], t[5]>>
  <2>1. t[2] \in Nat /\ t[3] \in Nat /\ t[4] \in Nat /\ t[5] \in Nat
    BY TimesAssumption
  <2>5. \A j \in 2..5 : t[j] \in Nat
    BY <2>1, \A j \in 2..5 : j = 2 \/ j = 3 \/ j = 4 \/ j = 5
  <2>2. u \in Seq(Nat) /\ Len(u) = 4 /\ \A j \in 1..4 : u[j] = t[j + 1]
    BY <2>5, SubSeqProperties, 5 - 2 + 1 = 4, \A j \in 1..4 : 2 + j - 1 = j + 1
  <2>3. v \in Seq(Nat) /\ Len(v) = 4 /\ \A j \in 1..4 : v[j] = t[j + 1]
    BY <2>1
  <2>. HIDE DEF u, v
  <2>6. \A j \in 1..Len(u) : u[j] = v[j]
    BY <2>2, <2>3
  <2>4. u = v
    BY <2>2, <2>3, <2>6, SeqEqual
  <2>. QED  BY <2>4 DEF u, v
<1>. QED  BY <1>1, <1>2, <1>3, TimesAssumption DEF Clock!None, Clock!Error

(* get_time: what the registers hold is read as the time that was set.      *)
LEMMA ClockDecodes ==
  ASSUME NEW t \in Times, Stored(t)
  PROVE  /\ Clock!Decode(regs, Clock!PolarityYear(regs)) = t
         /\ ~Clock!Level => Clock!Decode(regs, Clock!CenturyYear(regs)) = t
<1>1. /\ t = <<t[1], t[2], t[3], t[4], t[5], t[6], t[7]>>
      /\ t[1] \in 0..59 /\ t[2] \in 0..59 /\ t[3] \in 0..23 /\ t[4] \in 1..31
      /\ t[5] \in 0..6 /\ t[6] \in 0..11 /\ t[7] \in 100..199
  BY ValidTime
<1>a. t[1] \in 0..79 /\ t[2] \in 0..79 /\ t[3] \in 0..39 /\ t[4] \in 0..39 /\ t[5] \in 0..7
  BY <1>1
<1>2. PICK b \in {0, 128} :
        /\ b = 0 \/ Clock!Level
        /\ regs = << Clock!bin2bcd(t[1]), Clock!bin2bcd(t[2]), Clock!bin2bcd(t[3]), Clock!bin2bcd(t[4]), t[5],
                     Clock!bin2bcd(t[6] + 1) + b, Clock!bin2bcd(t[7] - 100) >>
  BY DEF Stored
<1>3. Clock!bcd2bin(regs[1] % 128) = t[1]
  BY <1>a, <1>2, Masked128
<1>4. Clock!bcd2bin(regs[2] % 128) = t[2]
  BY <1>a, <1>2, Masked128
<1>5. Clock!bcd2bin(regs[3] % 64) = t[3]
  BY <1>a, <1>2, Masked64
<1>6. Clock!bcd2bin(regs[4] % 64) = t[4]
  BY <1>a, <1>2, Masked64
<1>7. regs[5] % 8 = t[5]
  BY <1>1, <1>2
<1>8. Clock!bcd2bin(regs[6] % 32) - 1 = t[6] /\ (b = 0 => ~(regs[6] >= 128))
  <2>. DEFINE m == t[6] + 1
  <2>1. m \in 0..19 /\ m - 1 = t[6]
    BY <1>1
  <2>2. regs[6] = Clock!bin2bcd(m) + b
    BY <1>2
  <2>. HIDE DEF m
  <2>3. /\ Clock!bin2bcd(m) \in 0..127
        /\ Clock!bcd2bin(Clock!bin2bcd(m) % 32) = m
        /\ Clock!bcd2bin((Clock!bin2bcd(m) + 128) % 32) = m
    BY <2>1, Masked32, Zenon
  <2>4. Clock!bcd2bin(regs[6] % 32) = m
    <3>1. CASE b = 0
      <4>1. regs[6] = Clock!bin2bcd(m)
        BY <2>2, <2>3, <3>1
      <4>. QED  BY <2>3, <4>1
    <3>2. CASE b = 128
      BY <2>2, <2>3, <3>2
    <3>. QED  BY <3>1, <3>2
  <2>5. b = 0 => ~(regs[6] >= 128)
    BY <2>2, <2>3
  <2>. QED  BY <2>1, <2>4, <2>5
<1>9. Clock!bcd2bin(regs[7]) + 100 = t[7]
  <2>1. t[7] - 100 \in 0..99 /\ t[7] - 100 + 100 = t[7]
    BY <1>1
  <2>. QED  BY <1>2, <2>1, Masked256
<1>10. Clock!PolarityYear(regs) = t[7]
  BY <1>9 DEF Clock!PolarityYear
<1>11. ~Clock!Level => Clock!CenturyYear(regs) = t[7]
  BY <1>2, <1>8, <1>9 DEF Clock!CenturyYear
<1>12. Clock!Decode(regs, t[7]) = t
  BY <1>1, <1>3, <1>4, <1>5, <1>6, <1>7, <1>8 DEF Clock!Decode
<1>. QED  BY <1>10, <1>11, <1>12

(* read_alarm: likewise.                                                    *)
LEMMA AlarmDecodes ==
  ASSUME NEW t \in Times
  PROVE  Clock!DecodedAlarm(Clock!AlarmFields(t)) = <<t[2], t[3], t[4], t[5]>>
<1>1. /\ t[2] \in 0..59 /\ t[3] \in 0..23 /\ t[4] \in 1..31 /\ t[5] \in 0..6
  BY ValidTime
<1>a. t[2] \in 0..79 /\ t[3] \in 0..39 /\ t[4] \in 0..39 /\ t[5] \in 0..7
  BY <1>1
<1>. DEFINE a == Clock!AlarmFields(t)
<1>2. /\ a[1] = Clock!bin2bcd(t[2]) /\ a[2] = Clock!bin2bcd(t[3])
      /\ a[3] = Clock!bin2bcd(t[4]) /\ a[4] = t[5] % 8
  BY DEF Clock!AlarmFields
<1>3. Clock!bcd2bin(a[1] % 128) = t[2]
  BY <1>a, <1>2, Masked128
<1>4. Clock!bcd2bin(a[2] % 64) = t[3]
  BY <1>a, <1>2, Masked64
<1>5. Clock!bcd2bin(a[3] % 64) = t[4]
  BY <1>a, <1>2, Masked64
<1>6. Clock!bcd2bin(a[4] % 8) = t[5]
  <2>1. t[5] % 8 = t[5] /\ Clock!bcd2bin(t[5]) = t[5]
    BY <1>a, Masked8, Zenon
  <2>. QED  BY <1>2, <2>1
<1>. HIDE DEF a
<1>7. Clock!DecodedAlarm(a) = <<t[2], t[3], t[4], t[5]>>
  BY <1>3, <1>4, <1>5, <1>6 DEF Clock!DecodedAlarm
<1>. QED  BY <1>7 DEF a

(* Five registers and two are the seven of the time.                        *)
LEMMA SevenRegisters ==
  ASSUME NEW s \in Seq(Int), NEW r \in Seq(Int), NEW w \in Seq(Int), Len(s) = 5, Len(r) = 2, Len(w) = 7,
         \A j \in 1..5 : w[j] = s[j], w[6] = r[1], w[7] = r[2]
  PROVE  s \o r = w
<1>2. /\ s \o r \in Seq(Int) /\ Len(s \o r) = Len(s) + Len(r)
      /\ \A j \in 1..Len(s) + Len(r) : (s \o r)[j] = IF j <= Len(s) THEN s[j] ELSE r[j - Len(s)]
  BY ConcatProperties, Zenon
<1>5. Len(s) = 5 /\ Len(r) = 2
  OBVIOUS
<1>6. \A j \in 1..7 : (s \o r)[j] = IF j <= 5 THEN s[j] ELSE r[j - 5]
  <2>1. Len(s) + Len(r) = 7
    BY <1>5
  <2>. QED  BY <1>2, <1>5, <2>1, Zenon
<1>7. (s \o r)[6] = r[1] /\ (s \o r)[7] = r[2]
  <2>1. ~(6 <= 5) /\ ~(7 <= 5) /\ 6 - 5 = 1 /\ 7 - 5 = 2 /\ 6 \in 1..7 /\ 7 \in 1..7
    OBVIOUS
  <2>. QED  BY <1>6, <2>1, Zenon
<1>3. ASSUME NEW j \in 1..7 PROVE (s \o r)[j] = w[j]
  <2>1. CASE j \in 1..5
    <3>2. j \in 1..7 /\ j <= 5
      BY <2>1
    <3>1. (s \o r)[j] = s[j]
      BY <1>6, <3>2, Zenon
    <3>. QED  BY <2>1, <3>1, Zenon
  <2>2. CASE j = 6
    BY <1>7, <2>2, Zenon
  <2>3. CASE j = 7
    BY <1>7, <2>3, Zenon
  <2>4. j \in 1..5 \/ j = 6 \/ j = 7
    OBVIOUS
  <2>. QED  BY <2>1, <2>2, <2>3, <2>4, Zenon
<1>4. s \o r = w
  <2>1. Len(s \o r) = Len(w) /\ \A j \in 1..Len(s \o r) : (s \o r)[j] = w[j]
    <3>2. Len(s \o r) = 7
      BY <1>2, <1>5
    <3>. QED  BY <1>3, <3>2, Zenon
  <2>. QED  BY <1>2, <2>1, SeqEqual, Zenon
<1>. QED  BY <1>4

(* set_time: the registers hold the time, in the form of either driver.     *)
LEMMA ClockStores ==
  ASSUME ClockInv, NEW t \in Times,
         \/ Clock!BusSetTime(t) \/ Clock!RegmapSetTime(t) \/ Clock!PcfSetTime(t)
  PROVE  ClockInv'
<1>1. /\ t[1] \in 0..59 /\ t[2] \in 0..59 /\ t[3] \in 0..23 /\ t[4] \in 1..31
      /\ t[5] \in 0..6 /\ t[6] \in 0..11 /\ t[7] \in 100..199
  BY ValidTime
<1>2. UNCHANGED <<rtc, polarity, alarm, asked, aie, af, irq, user, thread, wanted, raced>>
  BY DEF Clock!BusSetTime, Clock!RegmapSetTime, Clock!PcfSetTime, Clock!WriteClock, Clock!alarmVars
<1>3. CASE UNCHANGED <<regs, vl, result, set>>
  BY <1>2, <1>3 DEF ClockInv, ClockTypes, TimeKept, Stored, AlarmKept, ModeKept, Clock!ReadsBack, Clock!Level
<1>4. CASE /\ regs' = Clock!Fields(t) \o (IF rtc = "pcf8563" THEN Clock!PolarityBit(t) ELSE Clock!CenturyBit(t))
           /\ vl' = FALSE /\ set' = t /\ result' = Clock!None
  <2>. DEFINE y == t[7] - 100
              m == t[6] + 1
              c == IF rtc = "pcf8563" /\ (t[7] >= 100) = polarity THEN 128 ELSE 0
  <2>1. /\ y \in 0..99 /\ y % 256 = y /\ t[7] % 100 = y /\ ~(t[7] < 100) /\ t[5] % 8 = t[5] /\ m \in 1..12
        /\ c \in {0, 128} /\ (c = 0 \/ Clock!Level)
    BY <1>1 DEF Clock!Level
  <2>2. /\ Clock!bin2bcd(t[1]) \in Int /\ Clock!bin2bcd(t[2]) \in Int /\ Clock!bin2bcd(t[3]) \in Int
        /\ Clock!bin2bcd(t[4]) \in Int /\ Clock!bin2bcd(m) \in Int /\ t[5] \in Int
    BY <1>1, <2>1 DEF Clock!bin2bcd
  <2>3. Clock!bin2bcd(y) \in 0..255
    BY <2>1, BcdAndBack
  <2>4. Clock!bin2bcd(y) % 256 = Clock!bin2bcd(y)
    BY <2>3
  <2>5. Clock!PolarityBit(t) = <<Clock!bin2bcd(m) + (IF (t[7] >= 100) = polarity THEN 128 ELSE 0), Clock!bin2bcd(y)>>
    BY <2>1, <2>4 DEF Clock!PolarityBit
  <2>6. Clock!CenturyBit(t) = <<Clock!bin2bcd(m) + 0, Clock!bin2bcd(y)>>
    BY <2>1 DEF Clock!CenturyBit
  <2>7. (IF rtc = "pcf8563" THEN Clock!PolarityBit(t) ELSE Clock!CenturyBit(t))
          = <<Clock!bin2bcd(m) + c, Clock!bin2bcd(y)>>
    BY <2>5, <2>6
  <2>8. Clock!Fields(t) = << Clock!bin2bcd(t[1]), Clock!bin2bcd(t[2]), Clock!bin2bcd(t[3]), Clock!bin2bcd(t[4]), t[5] >>
    BY <2>1 DEF Clock!Fields
  <2>9. Clock!bin2bcd(m) + c \in Int
    BY <2>1, <2>2
  <2>. HIDE DEF c, y, m
  <2>13. Clock!bin2bcd(y) \in Int
    BY <2>3
  <2>14. regs' = Clock!Fields(t) \o <<Clock!bin2bcd(m) + c, Clock!bin2bcd(y)>>
    BY <1>4, <2>7
  <2>10. regs' = << Clock!bin2bcd(t[1]), Clock!bin2bcd(t[2]), Clock!bin2bcd(t[3]), Clock!bin2bcd(t[4]), t[5],
                    Clock!bin2bcd(m) + c, Clock!bin2bcd(y) >>
    <3>. DEFINE f == Clock!bin2bcd(m) + c
                g == Clock!bin2bcd(y)
                p == Clock!bin2bcd(t[1])
                q == Clock!bin2bcd(t[2])
                u == Clock!bin2bcd(t[3])
                v == Clock!bin2bcd(t[4])
                w == t[5]
    <3>1. /\ p \in Int /\ q \in Int /\ u \in Int /\ v \in Int /\ w \in Int /\ f \in Int /\ g \in Int
          /\ regs' = <<p, q, u, v, w>> \o <<f, g>>
      BY <2>2, <2>8, <2>9, <2>13, <2>14
    <3>. HIDE DEF f, g, p, q, u, v, w
    <3>. DEFINE five == <<p, q, u, v, w>>
                two == <<f, g>>
                seven == <<p, q, u, v, w, f, g>>
    <3>2. /\ five \in Seq(Int) /\ Len(five) = 5 /\ two \in Seq(Int) /\ Len(two) = 2
          /\ seven \in Seq(Int) /\ Len(seven) = 7
          /\ \A j \in 1..5 : seven[j] = five[j]
          /\ seven[6] = two[1] /\ seven[7] = two[2]
      BY <3>1
    <3>3. regs' = five \o two
      BY <3>1
    <3>. HIDE DEF five, two, seven
    <3>4. regs' = seven
      BY <3>2, <3>3, SevenRegisters, Zenon
    <3>. QED  BY <3>4 DEF f, g, p, q, u, v, w, seven
  <2>11. Stored(t)'
    BY <1>2, <2>1, <2>10 DEF Stored, Clock!Level, y, m
  <2>12. TimeKept'
    BY <1>4, <2>11 DEF TimeKept, Stored
  <2>. QED
    BY <1>2, <1>4, <2>12 DEF ClockInv, ClockTypes, AlarmKept, ModeKept, Clock!ReadsBack, Clock!Level, Clock!None
<1>. QED
  BY <1>3, <1>4
  DEF Clock!BusSetTime, Clock!RegmapSetTime, Clock!PcfSetTime, Clock!WriteClock

(* get_time and the supply.                                                 *)
LEMMA ClockReads ==
  ASSUME ClockInv, Clock!BusGetTime \/ Clock!RegmapGetTime \/ Clock!PcfGetTime \/ Clock!SupplyLow
  PROVE  ClockInv'
<1>1. /\ UNCHANGED <<rtc, alarm, asked, aie, af, irq, user, thread, wanted, raced>>
      /\ \/ UNCHANGED <<regs, vl, set>>
         \/ vl' = TRUE /\ result' = Clock!None
  BY DEF Clock!BusGetTime, Clock!RegmapGetTime, Clock!PcfGetTime, Clock!ReadClock, Clock!SupplyLow, Clock!alarmVars
<1>2. CASE Clock!SupplyLow
  BY <1>1, <1>2 DEF Clock!SupplyLow, ClockInv, ClockTypes, TimeKept, AlarmKept, ModeKept, Clock!ReadsBack, Clock!Level
<1>3. CASE Clock!BusGetTime \/ Clock!RegmapGetTime \/ Clock!PcfGetTime
  <2>1. UNCHANGED <<regs, vl, set>>
    BY <1>3 DEF Clock!BusGetTime, Clock!RegmapGetTime, Clock!PcfGetTime, Clock!ReadClock
  <2>2. \/ result' = Clock!Error
        \/ ~vl /\ result' = Clock!Decode(regs, Clock!PolarityYear(regs))
        \/ ~vl /\ ~Clock!Level /\ result' = Clock!Decode(regs, Clock!CenturyYear(regs))
    BY <1>3 DEF Clock!BusGetTime, Clock!RegmapGetTime, Clock!PcfGetTime, Clock!ReadClock, Clock!Level
  <2>3. result' = Clock!Error \/ (set \in Times /\ result' = set)
    BY <2>2, ClockDecodes DEF ClockInv, TimeKept
  <2>4. Clock!ReadsBack'
    <3>1. CASE result' = Clock!Error
      BY <3>1 DEF Clock!ReadsBack, Clock!Error, Clock!None
    <3>2. CASE set \in Times /\ result' = set
      <4>1. Len(set) = 7
        BY <3>2, ValidTime
      <4>. QED  BY <2>1, <3>2, <4>1 DEF Clock!ReadsBack
    <3>. QED  BY <2>3, <3>1, <3>2
  <2>. QED
    BY <1>1, <2>1, <2>4 DEF ClockInv, ClockTypes, TimeKept, Stored, AlarmKept, ModeKept, Clock!Level
<1>. QED  BY <1>2, <1>3

(* set_alarm and read_alarm.                                                *)
LEMMA AlarmIsSet ==
  ASSUME ClockInv,
         \/ Clock!BusReadAlarm \/ Clock!RegmapReadAlarm \/ Clock!PcfReadAlarm
         \/ \E t \in Times, on \in BOOLEAN :
              Clock!BusSetAlarm(t, on) \/ Clock!RegmapSetAlarm(t, on) \/ Clock!PcfSetAlarm(t, on)
  PROVE  ClockInv'
<1>1. CASE Clock!BusReadAlarm \/ Clock!RegmapReadAlarm \/ Clock!PcfReadAlarm
  <2>1. /\ UNCHANGED <<rtc, regs, vl, set, alarm, asked, aie, af, irq, user, thread, wanted, raced>>
        /\ asked # Clock!None
        /\ result' = Clock!Error \/ result' = Clock!DecodedAlarm(alarm)
    BY <1>1 DEF Clock!BusReadAlarm, Clock!RegmapReadAlarm, Clock!PcfReadAlarm, Clock!ReadAlarm, Clock!alarmVars
  <2>2. Clock!ReadsBack'
    <3>1. CASE result' = Clock!Error
      BY <3>1 DEF Clock!ReadsBack, Clock!Error, Clock!None
    <3>2. CASE result' = Clock!DecodedAlarm(alarm)
      <4>1. PICK t \in Times : asked = <<t[2], t[3], t[4], t[5]>> /\ alarm = Clock!AlarmFields(t)
        BY <2>1 DEF ClockInv, AlarmKept
      <4>2. result' = asked /\ Len(asked) = 4
        BY <3>2, <4>1, AlarmDecodes
      <4>. QED  BY <2>1, <4>2 DEF Clock!ReadsBack
    <3>. QED  BY <2>1, <3>1, <3>2
  <2>. QED
    BY <2>1, <2>2 DEF ClockInv, ClockTypes, TimeKept, Stored, AlarmKept, ModeKept, Clock!Level
<1>2. ASSUME NEW t \in Times, NEW on \in BOOLEAN,
             Clock!BusSetAlarm(t, on) \/ Clock!RegmapSetAlarm(t, on) \/ Clock!PcfSetAlarm(t, on)
      PROVE  ClockInv'
  <2>1. /\ UNCHANGED <<rtc, regs, vl, set, aie, af, irq, thread, wanted, raced>>
        /\ \/ UNCHANGED <<user, alarm, asked, result>>
           \/ /\ user' = [at |-> "mode", on |-> on] /\ result' = Clock!None
              /\ alarm' = Clock!AlarmFields(t) /\ asked' = SubSeq(t, 2, 5)
    BY <1>2 DEF Clock!BusSetAlarm, Clock!RegmapSetAlarm, Clock!PcfSetAlarm, Clock!WriteAlarm, Clock!User
  <2>2. AlarmKept'
    BY <2>1, ValidTime DEF ClockInv, AlarmKept, Clock!AlarmFields
  <2>. QED
    BY <2>1, <2>2 DEF ClockInv, ClockTypes, TimeKept, Stored, ModeKept, Clock!ReadsBack, Clock!Level
<1>. QED  BY <1>1, <1>2

(* A write of the control register.                                         *)
LEMMA ControlEffect ==
  ASSUME NEW e \in BOOLEAN, NEW f \in BOOLEAN, irq \in BOOLEAN, Clock!Control(e, f)
  PROVE  aie' = e /\ af' = f /\ irq' \in BOOLEAN /\ (irq' => irq \/ e)
<1>1. irq' = (irq \/ (e /\ f /\ (Clock!Level \/ Clock!Line)))
  BY DEF Clock!Control
<1>2. irq' \in BOOLEAN /\ (irq' => irq \/ e)
  BY <1>1, Zenon
<1>. QED  BY <1>2 DEF Clock!Control

(* The alarm mode: the user's two steps, the alarm, and the thread.         *)
LEMMA ModeStep ==
  ASSUME ClockInv,
         \/ Clock!UserStep \/ Clock!Alarm \/ Clock!ThreadStep
         \/ \E on \in BOOLEAN : \/ Clock!BusAlarmIrqEnable(on) \/ Clock!RegmapAlarmIrqEnable(on)
                               \/ Clock!PcfAlarmIrqEnable(on)
  PROVE  ClockInv'
<1>1. UNCHANGED <<rtc, regs, vl, polarity, alarm, result, set, asked>>
  BY DEF Clock!UserStep, Clock!ReadMode, Clock!WriteMode, Clock!Alarm, Clock!ThreadStep, Clock!BusHandler,
         Clock!RegmapHandler, Clock!PcfHandler, Clock!Pending, Clock!ReadFlag, Clock!ReadEnable, Clock!ReadControl,
         Clock!HandlerWrite, Clock!BusAlarmIrqEnable, Clock!RegmapAlarmIrqEnable, Clock!PcfAlarmIrqEnable,
         Clock!SetMode, Clock!clockVars
<1>2. TimeKept' /\ AlarmKept' /\ Clock!ReadsBack'
  BY <1>1 DEF ClockInv, TimeKept, Stored, AlarmKept, Clock!ReadsBack, Clock!Level
<1>3. ClockTypes' /\ ModeKept'
  <2>a. /\ aie \in BOOLEAN /\ af \in BOOLEAN /\ irq \in BOOLEAN /\ wanted \in BOOLEAN /\ raced \in BOOLEAN
        /\ user.on \in BOOLEAN /\ thread.aie \in BOOLEAN
    BY DEF ClockInv, ClockTypes
  <2>. USE <1>1 DEF ClockInv, ClockTypes, ModeKept, Clock!Level
  <2>1. CASE \E on \in BOOLEAN : \/ Clock!BusAlarmIrqEnable(on) \/ Clock!RegmapAlarmIrqEnable(on)
                               \/ Clock!PcfAlarmIrqEnable(on)
    BY <2>1 DEF Clock!BusAlarmIrqEnable, Clock!RegmapAlarmIrqEnable, Clock!PcfAlarmIrqEnable, Clock!SetMode, Clock!User
  <2>2. CASE Clock!ReadMode
    <3>1. /\ UNCHANGED <<aie, af, irq, thread, wanted, raced>>
          /\ user' = [at |-> "idle", on |-> FALSE] \/ user' = [at |-> "write", on |-> user.on]
      BY <2>2 DEF Clock!ReadMode, Clock!User
    <3>2. CASE user' = [at |-> "idle", on |-> FALSE]
      BY <3>1, <3>2
    <3>3. CASE user' = [at |-> "write", on |-> user.on]
      <4>1. user' \in [at : {"idle", "mode", "write"}, on : BOOLEAN]
        BY <2>a, <3>3
      <4>. QED  BY <3>1, <4>1
    <3>. QED  BY <3>1, <3>2, <3>3
  <2>3. CASE Clock!WriteMode
    <3>1. UNCHANGED thread /\ user' = [at |-> "idle", on |-> FALSE]
      BY <2>3 DEF Clock!WriteMode, Clock!User
    <3>2. CASE UNCHANGED <<aie, af, irq, wanted, raced>>
      BY <3>1, <3>2
    <3>3. CASE Clock!Control(user.on, FALSE) /\ wanted' = user.on /\ raced' = Clock!Inside
      <4>1. aie' = user.on /\ af' = FALSE /\ irq' \in BOOLEAN
        BY <2>a, <3>3, ControlEffect
      <4>2. irq' => irq
        BY <3>3, <2>a, Zenon DEF Clock!Control
      <4>3. raced' \in BOOLEAN
        BY <3>3, Zenon DEF Clock!Inside
      <4>4. ~raced' => ~(thread.at \in {"write", "mode"}) /\ ~(Clock!Level /\ irq)
        BY <3>3, Zenon DEF Clock!Inside
      <4>. QED  BY <2>a, <3>1, <3>3, <4>1, <4>2, <4>3, <4>4
    <3>. QED  BY <2>3, <3>2, <3>3 DEF Clock!WriteMode
  <2>4. CASE Clock!Alarm
    <3>1. Clock!Control(aie, TRUE) /\ UNCHANGED <<user, thread, wanted, raced>>
      BY <2>4 DEF Clock!Alarm
    <3>2. aie' = aie /\ af' = TRUE /\ irq' \in BOOLEAN /\ (irq' => irq \/ aie)
      BY <2>a, <3>1, ControlEffect
    <3>. QED  BY <3>1, <3>2
  <2>5. CASE Clock!BusHandler \/ Clock!RegmapHandler \/ Clock!PcfHandler
    <3>1. /\ UNCHANGED <<aie, af, user, wanted, raced>> /\ irq
          /\ \/ thread' = [at |-> "idle", aie |-> FALSE]
             \/ thread' = [at |-> "clear", aie |-> FALSE]
             \/ Clock!Level /\ thread' = [at |-> "mode", aie |-> FALSE]
      BY <2>5 DEF Clock!BusHandler, Clock!RegmapHandler, Clock!PcfHandler, Clock!Pending, Clock!Thread
    <3>2. irq' = (Clock!Level /\ ~Clock!Line /\ thread'.at = "idle")
      BY <2>5 DEF Clock!BusHandler, Clock!RegmapHandler, Clock!PcfHandler, Clock!Pending
    <3>3. irq' \in BOOLEAN /\ (irq' => ~Clock!Line)
      BY <3>2, Zenon
    <3>4. irq' => aie
      BY <3>3, <2>a DEF Clock!Line
    <3>5. thread' \in [at : {"idle", "clear", "mode", "write"}, aie : BOOLEAN] /\ thread'.at # "write"
      <4>1. CASE thread' = [at |-> "idle", aie |-> FALSE]
        BY <4>1
      <4>2. CASE thread' = [at |-> "clear", aie |-> FALSE]
        BY <4>2
      <4>3. CASE thread' = [at |-> "mode", aie |-> FALSE]
        BY <4>3
      <4>. QED  BY <3>1, <4>1, <4>2, <4>3
    <3>6. thread'.at = "mode" => Clock!Level
      BY <3>1
    <3>. QED  BY <3>1, <3>3, <3>4, <3>5, <3>6
  <2>6. CASE Clock!ReadFlag \/ Clock!ReadEnable
    <3>1. /\ UNCHANGED <<aie, af, user, wanted, raced>>
          /\ \/ thread' = [at |-> "idle", aie |-> FALSE] /\ irq' = (irq \/ (Clock!Level /\ ~Clock!Line))
             \/ thread' = [at |-> "write", aie |-> aie] /\ irq' = irq
             \/ thread.at = "mode" /\ thread' = [at |-> "write", aie |-> TRUE] /\ irq' = irq
      BY <2>6 DEF Clock!ReadFlag, Clock!ReadEnable, Clock!ReadControl, Clock!Thread
    <3>2. CASE thread' = [at |-> "idle", aie |-> FALSE] /\ irq' = (irq \/ (Clock!Level /\ ~Clock!Line))
      <4>1. irq' \in BOOLEAN /\ (irq' => irq \/ ~Clock!Line)
        BY <3>2, Zenon
      <4>2. irq' => irq \/ aie
        BY <4>1, <2>a DEF Clock!Line
      <4>. QED  BY <3>1, <3>2, <4>1, <4>2
    <3>3. CASE thread' = [at |-> "write", aie |-> aie] /\ irq' = irq
      BY <2>a, <3>1, <3>3
    <3>4. CASE thread.at = "mode" /\ thread' = [at |-> "write", aie |-> TRUE] /\ irq' = irq
      BY <2>a, <3>1, <3>4
    <3>. QED  BY <3>1, <3>2, <3>3, <3>4
  <2>7. CASE Clock!HandlerWrite
    <3>1. /\ thread.at = "write" /\ thread' = [at |-> "idle", aie |-> FALSE] /\ UNCHANGED <<user, wanted, raced>>
          /\ \/ UNCHANGED <<aie, af>> /\ irq' = (irq \/ (Clock!Level /\ ~Clock!Line))
             \/ Clock!Control(thread.aie, FALSE)
      BY <2>7 DEF Clock!HandlerWrite, Clock!Thread
    <3>2. CASE UNCHANGED <<aie, af>> /\ irq' = (irq \/ (Clock!Level /\ ~Clock!Line))
      <4>1. irq' \in BOOLEAN /\ (irq' => irq \/ ~Clock!Line)
        BY <3>2, Zenon
      <4>2. irq' => irq \/ aie
        BY <4>1, <2>a DEF Clock!Line
      <4>. QED  BY <3>1, <3>2, <4>1, <4>2
    <3>3. CASE Clock!Control(thread.aie, FALSE)
      <4>1. aie' = thread.aie /\ af' = FALSE /\ irq' \in BOOLEAN /\ (irq' => irq \/ thread.aie)
        BY <2>a, <3>3, ControlEffect
      <4>. QED  BY <2>a, <3>1, <4>1
    <3>. QED  BY <3>1, <3>2, <3>3
  <2>. QED
    BY <2>1, <2>2, <2>3, <2>4, <2>5, <2>6, <2>7 DEF Clock!UserStep, Clock!ThreadStep
<1>. QED  BY <1>2, <1>3 DEF ClockInv

(* ClockInv is an invariant, whichever driver a behaviour is of.            *)
LEMMA ClockInvariant == MCSpec => []ClockInv
<1>1. ASSUME MCInit PROVE ClockInv
  <2>1. Clock!Init
    BY <1>1 DEF MCInit
  <2>2. ClockTypes /\ ModeKept
    BY <2>1 DEF Clock!Init, ClockTypes, ModeKept
  <2>3. TimeKept /\ AlarmKept /\ Clock!ReadsBack
    BY <2>1 DEF Clock!Init, TimeKept, AlarmKept, Clock!ReadsBack
  <2>. QED  BY <2>2, <2>3 DEF ClockInv
<1>2. ClockInv /\ UNCHANGED rtcVars => ClockInv'
  BY DEF rtcVars, ClockInv, ClockTypes, TimeKept, Stored, AlarmKept, ModeKept, Clock!ReadsBack, Clock!Level
<1>3. ASSUME ClockInv, Clock!Next PROVE ClockInv'
  BY <1>3, ClockStores, ClockReads, AlarmIsSet, ModeStep DEF Clock!Next
<1>4. ClockInv /\ [MCNext]_<<which, vars, lifeVars, rtcVars, touchVars>> => ClockInv'
  BY <1>2, <1>3 DEF MCNext, KeyNext, LifeNext, ClockNext, TouchNext
<1>. QED  BY <1>1, <1>4, PTL DEF MCSpec

(* get_time, set_time, read_alarm and set_alarm of the three drivers: any   *)
(* valid time from 2000 to 2099 and any alarm are read as they were set,    *)
(* through BCD, masks and the century, and no time from before the supply   *)
(* failed is read, however many transfers fail.                             *)
THEOREM TimesReadBack == MCSpec => []ReadsBack
<1>1. ClockInv => ReadsBack
  BY DEF ClockInv, ReadsBack
<1>. QED  BY <1>1, ClockInvariant, PTL

(* pcf8563_set_alarm_mode and the interrupt threads, which write back the   *)
(* same register without a lock: the alarm is enabled exactly when the user *)
(* last asked for it, but for a mode written while an interrupt is handled. *)
THEOREM AlarmModeIsKept == MCSpec => []Clock!AlarmModeKept
<1>1. ClockInv => Clock!AlarmModeKept
  BY DEF ClockInv, ModeKept, Clock!AlarmModeKept
<1>. QED  BY <1>1, ClockInvariant, PTL

-----------------------------------------------------------------------------
(* The life of the drivers whose table is sound.                            *)

Elements(s) == {s[p] : p \in DOMAIN s}

\* The steps left are those of s behind the first k.
Left(s, k) ==
  /\ Len(todo) = Len(s) - k
  /\ \A j \in 1..Len(todo) : todo[j] = s[k + j]

\* The driver core's list: nothing twice, and behind what it needs each way in.
CoreList(t) ==
  /\ devres \in Seq(STRING)
  /\ \A p, q \in DOMAIN devres : devres[p] = devres[q] => p = q
  /\ \A p \in DOMAIN devres : devres[p] \in DOMAIN t.calls =>
       \A r \in t.calls[devres[p]] : \E q \in 1..(p - 1) : devres[q] = r

\* After i calls of probe.
After(t, i) ==
  /\ Life!Sure(t, i) \subseteq owned /\ owned \subseteq Life!May(t, i)
  /\ Elements(devres) = owned \cap Life!Core(t, i)
  /\ files \subseteq owned \cap Life!FileKinds
  /\ ~early

\* On the way back from there.
Back(t, i, back, k) ==
  /\ Life!WayBack(t, i, back)
  /\ todo \in Seq(Life!StepType) /\ Left(back, k)
  /\ Life!Sure(t, i) \ Life!Dropped(back, k) \subseteq owned
  /\ owned \subseteq Life!May(t, i) \ Life!Dropped(back, k)
  /\ Elements(devres) = owned \cap Life!Core(t, i)

\* What the driver itself took is given back.
Released == todo = <<>> /\ owned = Elements(devres)

OneOf(t) ==
  \/ /\ state = "probing" /\ todo \in Seq(Life!CallType)
     /\ \E i \in 0..Len(t.probe) : Left(t.probe, i) /\ After(t, i)
  \/ /\ state = "bound" /\ After(t, Len(t.probe))
  \/ /\ state \in {"undoing", "removing"}
     /\ \/ Released
        \/ \E i \in 0..Len(t.probe), back \in Seq(Life!StepType) :
             \E k \in 0..Len(back) : Back(t, i, back, k)
  \/ /\ state \in {"failed", "gone"} /\ owned = {} /\ devres = <<>>

LifeOf(t) ==
  /\ OneOf(t) /\ CoreList(t)
  /\ files \subseteq Life!FileKinds
  /\ state \in {"removing", "gone"} => files = {}
  /\ state \in {"undoing", "failed"} /\ files # {} => early
  /\ \A m \in misuse : early /\ m[2] \in Life!FileKinds

LifeInv == driver \in D!MCDrivers /\ (Life!Sound(Life!Table) => LifeOf(Life!Table))

\* What the next call c of probe adds to the first h.
Adds(t, h, i, c) ==
  LET gets == {c.takes} \ {Life!Nothing} IN
  /\ Life!May(t, i) = (Life!May(t, h) \cup gets) \ c.gives
  /\ Life!Sure(t, i) = (Life!Sure(t, h) \cup IF c.fails = "ignored" THEN {} ELSE gets) \ c.gives
  /\ Life!Core(t, i) = Life!Core(t, h) \cup IF c.managed THEN {c.takes} ELSE {}
  /\ c.takes \notin Life!May(t, h) /\ c.takes \notin Life!Core(t, h)
  /\ c.managed => gets = {c.takes}
  /\ c.gives \cap Life!Core(t, i) = {} /\ c.gives \cap Life!FileKinds = {}

(* Each call of a sound table does.                                         *)
LEMMA OneMoreCall ==
  ASSUME NEW t, Life!Sound(t), NEW i \in DOMAIN t.probe
  PROVE  Adds(t, i - 1, i, t.probe[i])
<1>. DEFINE c == t.probe[i]
            gets == {c.takes} \ {Life!Nothing}
<1>. DEFINE N == Len(t.probe)
<1>1. N \in Nat /\ DOMAIN t.probe = 1..N /\ i \in 1..N
  BY DEF Life!Sound
<1>2. \A j \in 1..N : t.probe[j].takes = c.takes => j = i \/ c.takes = Life!Nothing
  BY <1>1 DEF Life!Sound
<1>3. \A j \in 1..N : t.probe[j].managed => t.probe[j].takes # Life!Nothing
  BY <1>1 DEF Life!Sound
<1>4. c.gives \cap (Life!Core(t, N) \cup Life!FileKinds) = {}
  BY <1>1 DEF Life!Sound
<1>. HIDE DEF N
<1>5. 1..i = 1..(i - 1) \cup {i} /\ i \notin 1..(i - 1) /\ \A j \in 1..i : j \in 1..N
  BY <1>1
<1>6. \A j \in 1..(i - 1) : j..i = j..(i - 1) \cup {i}
  BY <1>1
<1>7. i..i = {i}
  BY <1>1
<1>8. \A j \in 1..(i - 1) : Life!Stays(t, j, i) <=> Life!Stays(t, j, i - 1) /\ t.probe[j].takes \notin c.gives
  BY <1>6 DEF Life!Stays
<1>9. Life!Stays(t, i, i) <=> c.takes # Life!Nothing /\ c.takes \notin c.gives
  BY <1>7 DEF Life!Stays
<1>10. Life!May(t, i) = (Life!May(t, i - 1) \cup gets) \ c.gives
  BY <1>5, <1>8, <1>9 DEF Life!May
<1>11. Life!Sure(t, i) = (Life!Sure(t, i - 1) \cup IF c.fails = "ignored" THEN {} ELSE gets) \ c.gives
  BY <1>5, <1>8, <1>9 DEF Life!Sure
<1>12. Life!Core(t, i) = Life!Core(t, i - 1) \cup IF c.managed THEN {c.takes} ELSE {}
  BY <1>5 DEF Life!Core
<1>13. c.takes \notin Life!May(t, i - 1)
  BY <1>2, <1>5 DEF Life!May, Life!Stays
<1>14. c.takes \notin Life!Core(t, i - 1)
  BY <1>2, <1>3, <1>5 DEF Life!Core
<1>15. c.managed => gets = {c.takes}
  BY <1>1, <1>3
<1>16. Life!Core(t, i) \subseteq Life!Core(t, N)
  BY <1>5 DEF Life!Core
<1>. QED  BY <1>4, <1>10, <1>11, <1>12, <1>13, <1>14, <1>15, <1>16 DEF Adds

(* What is certain may be, and the core's list starts empty.                *)
LEMMA Certain ==
  ASSUME NEW t, NEW i
  PROVE  Life!Sure(t, i) \subseteq Life!May(t, i)
BY DEF Life!Sure, Life!May

(* The steps left after the next one.                                       *)
LEMMA LeftNext ==
  ASSUME NEW S, NEW s \in Seq(S), NEW k \in 0..Len(s), todo \in Seq(S), Left(s, k), todo # <<>>
  PROVE  /\ k + 1 \in 1..Len(s) /\ Head(todo) = s[k + 1]
         /\ todo' = Tail(todo) => todo' \in Seq(S) /\ Left(s, k + 1)'
<1>1. Len(todo) \in Nat /\ Len(todo) > 0 /\ Len(s) \in Nat
  BY EmptySeq
<1>2. Head(todo) = todo[1]
  BY <1>1
<1>3. k + 1 \in 1..Len(s) /\ Head(todo) = s[k + 1]
  BY <1>1, <1>2 DEF Left
<1>4. ASSUME todo' = Tail(todo) PROVE todo' \in Seq(S) /\ Left(s, k + 1)'
  <2>1. todo' \in Seq(S) /\ Len(todo') = Len(todo) - 1 /\ \A j \in 1..Len(todo') : todo'[j] = todo[j + 1]
    BY <1>1, <1>4
  <2>2. ASSUME NEW j \in 1..Len(todo') PROVE todo'[j] = s[k + 1 + j]
    <3>1. j + 1 \in 1..Len(todo) /\ k + (j + 1) = k + 1 + j
      BY <1>1, <2>1
    <3>. QED  BY <2>1, <3>1 DEF Left
  <2>. QED  BY <1>1, <2>1, <2>2 DEF Left
<1>. QED  BY <1>3, <1>4

\* A table's sequences, as Sound has them.
LEMMA TableSeqs ==
  ASSUME NEW t, Life!Sound(t)
  PROVE  /\ t.probe \in Seq(Life!CallType) /\ t.remove \in Seq(Life!StepType)
         /\ Len(t.probe) \in Nat /\ DOMAIN t.probe = 1..Len(t.probe)
         /\ \A i \in DOMAIN t.probe : /\ t.probe[i] \in Life!CallType
                                      /\ Life!Drops(t.probe[i].undo) \in Seq(Life!StepType)
<1>1. t.probe \in Seq(Life!CallType) /\ t.remove \in Seq(Life!StepType)
  BY DEF Life!Sound
<1>2. ASSUME NEW rs \in Seq(STRING) PROVE Life!Drops(rs) \in Seq(Life!StepType)
  <2>1. \A r \in STRING : Life!Drop(r) \in Life!StepType
    BY DEF Life!Drop, Life!StepType
  <2>2. Len(rs) \in Nat /\ DOMAIN rs = 1..Len(rs) /\ \A j \in 1..Len(rs) : rs[j] \in STRING
    OBVIOUS
  <2>3. Life!Drops(rs) = [j \in 1..Len(rs) |-> Life!Drop(rs[j])]
    BY <2>2 DEF Life!Drops
  <2>4. Life!Drops(rs) \in [1..Len(rs) -> Life!StepType]
    BY <2>1, <2>2, <2>3
  <2>. QED  BY <2>2, <2>4, SeqDef
<1>3. \A i \in DOMAIN t.probe : t.probe[i] \in Life!CallType
  BY <1>1
<1>. QED  BY <1>1, <1>2, <1>3 DEF Life!CallType

(* The next call of probe succeeds, or is refused without being noticed.    *)
LEMMA CallSucceeds ==
  ASSUME NEW t, t = Life!Table, Life!Sound(t), LifeOf(t), Life!ProbeCall
  PROVE  LifeOf(t)'
<1>. DEFINE N == Len(t.probe)
            c == Head(todo)
            gets == {c.takes} \ {Life!Nothing}
<1>1. N \in Nat /\ DOMAIN t.probe = 1..N /\ t.probe \in Seq(Life!CallType)
  BY TableSeqs
<1>2. todo \in Seq(Life!CallType) /\ todo # <<>> /\ state = "probing" /\ state' = "probing"
  BY DEF Life!ProbeCall, LifeOf, OneOf
<1>3. PICK h \in 0..N : Left(t.probe, h) /\ After(t, h)
  BY <1>2 DEF LifeOf, OneOf
<1>4. PICK i : i = h + 1
  OBVIOUS
<1>5. i \in 1..N /\ i - 1 = h /\ h + 1 = i /\ c = t.probe[i]
  BY <1>1, <1>2, <1>3, <1>4, LeftNext
<1>6. todo' \in Seq(Life!CallType) /\ Left(t.probe, i)'
  <2>1. todo' = Tail(todo)
    BY DEF Life!ProbeCall
  <2>. QED  BY <1>1, <1>2, <1>3, <1>4, <2>1, LeftNext
<1>7. /\ misuse' = misuse \cup Life!Missing("probe", c.needs)
      /\ \/ owned' = (owned \cup gets) \ c.gives
         \/ c.fails = "ignored" /\ owned' = owned \ c.gives
      /\ devres' = IF c.managed /\ gets \subseteq owned' THEN Append(devres, c.takes) ELSE devres
      /\ UNCHANGED <<driver, state, files, early>>
  BY DEF Life!ProbeCall
<1>8. c \in Life!CallType
  BY <1>1, <1>5
<1>9. c.managed \in BOOLEAN /\ c.takes \in STRING
  BY <1>8 DEF Life!CallType
<1>10. /\ Life!May(t, i) = (Life!May(t, h) \cup gets) \ c.gives
       /\ Life!Sure(t, i) = (Life!Sure(t, h) \cup IF c.fails = "ignored" THEN {} ELSE gets) \ c.gives
       /\ Life!Core(t, i) = Life!Core(t, h) \cup IF c.managed THEN {c.takes} ELSE {}
       /\ c.takes \notin Life!May(t, h) /\ c.takes \notin Life!Core(t, h)
       /\ c.managed => gets = {c.takes}
       /\ c.gives \cap Life!Core(t, i) = {} /\ c.gives \cap Life!FileKinds = {}
  <2>1. Adds(t, h, i, c)
    BY <1>1, <1>5, OneMoreCall
  <2>. QED  BY <2>1 DEF Adds
<1>11. c.needs \subseteq Life!Sure(t, h)
  BY <1>1, <1>5 DEF Life!Sound
<1>12. c.managed /\ c.takes \in DOMAIN t.calls =>
         t.calls[c.takes] \subseteq Life!Core(t, h) \cap Life!Sure(t, h)
  BY <1>1, <1>5 DEF Life!Sound
<1>. HIDE DEF c, gets, N
<1>13. /\ Life!Sure(t, h) \subseteq owned /\ owned \subseteq Life!May(t, h)
       /\ Elements(devres) = owned \cap Life!Core(t, h)
       /\ files \subseteq owned \cap Life!FileKinds
       /\ ~early
  BY <1>3 DEF After
<1>14. misuse' = misuse
  <2>1. Life!Missing("probe", c.needs) = {}
    BY <1>11, <1>13 DEF Life!Missing
  <2>. QED  BY <1>7, <2>1
<1>15. Life!Sure(t, i) \subseteq owned' /\ owned' \subseteq Life!May(t, i)
  BY <1>7, <1>10, <1>13
<1>16. files' \subseteq owned' \cap Life!FileKinds
  BY <1>7, <1>10, <1>13
<1>17. CoreList(t)
  BY DEF LifeOf
<1>18. CoreList(t)' /\ Elements(devres') = owned' \cap Life!Core(t, i)
  <2>1. CASE c.managed /\ gets \subseteq owned'
    <3>1. devres' = Append(devres, c.takes)
      BY <1>7, <2>1
    <3>2. c.takes \in owned'
      BY <1>10, <2>1
    <3>3. owned' \cap Life!Core(t, i) = (owned \cap Life!Core(t, h)) \cup {c.takes}
      BY <1>7, <1>10, <2>1, <3>2
    <3>4. /\ Len(devres) \in Nat /\ devres' \in Seq(STRING) /\ Len(devres') = Len(devres) + 1
          /\ \A p \in 1..Len(devres) : devres'[p] = devres[p]
          /\ devres'[Len(devres) + 1] = c.takes
      BY <1>9, <1>17, <3>1, AppendProperties DEF CoreList
    <3>5. Elements(devres') = Elements(devres) \cup {c.takes}
      BY <1>17, <3>4 DEF Elements, CoreList
    <3>6. c.takes \notin Elements(devres)
      BY <1>10, <1>13
    <3>7. c.takes \in DOMAIN t.calls => t.calls[c.takes] \subseteq Elements(devres)
      BY <1>12, <1>13, <2>1
    <3>8. CoreList(t)'
      <4>1. DOMAIN devres = 1..Len(devres) /\ DOMAIN devres' = 1..(Len(devres) + 1)
        BY <1>17, <3>4 DEF CoreList
      <4>2. ASSUME NEW p \in DOMAIN devres', NEW q \in DOMAIN devres', devres'[p] = devres'[q]
            PROVE  p = q
        BY <1>17, <3>4, <3>6, <4>1, <4>2 DEF CoreList, Elements
      <4>3. ASSUME NEW p \in DOMAIN devres', devres'[p] \in DOMAIN t.calls, NEW r \in t.calls[devres'[p]]
            PROVE  \E q \in 1..(p - 1) : devres'[q] = r
        <5>1. CASE p = Len(devres) + 1
          BY <3>4, <3>7, <4>1, <4>3, <5>1 DEF Elements
        <5>2. CASE p \in DOMAIN devres
          <6>1. PICK q \in 1..(p - 1) : devres[q] = r
            BY <1>17, <3>4, <4>1, <4>3, <5>2 DEF CoreList
          <6>. QED  BY <3>4, <4>1, <5>2, <6>1
        <5>. QED  BY <3>4, <4>1, <5>1, <5>2
      <4>. QED  BY <3>4, <4>2, <4>3 DEF CoreList
    <3>. QED  BY <1>13, <3>3, <3>5, <3>8
  <2>2. CASE ~(c.managed /\ gets \subseteq owned')
    <3>1. devres' = devres
      BY <1>7, <2>2
    <3>2. owned' \cap Life!Core(t, i) = owned \cap Life!Core(t, h)
      <4>1. CASE c.managed
        <5>1. c.takes \notin owned' /\ gets = {c.takes}
          BY <1>10, <2>2, <4>1
        <5>. QED  BY <1>7, <1>10, <1>13, <5>1
      <4>2. CASE ~c.managed
        <5>1. gets \cap Life!Core(t, h) = {}
          BY <1>10 DEF gets
        <5>. QED  BY <1>7, <1>10, <4>2, <5>1
      <4>. QED  BY <1>9, <4>1, <4>2
    <3>. QED  BY <1>13, <1>17, <3>1, <3>2 DEF CoreList
  <2>. QED  BY <2>1, <2>2
<1>19. After(t, i)'
  BY <1>7, <1>13, <1>15, <1>16, <1>18 DEF After
<1>20. OneOf(t)'
  BY <1>1, <1>2, <1>5, <1>6, <1>19 DEF OneOf, N
<1>. QED  BY <1>2, <1>7, <1>14, <1>16, <1>18, <1>20 DEF LifeOf

(* Nothing is dropped before the first step back, and one thing a step.     *)
LEMMA DropsAre ==
  ASSUME NEW back
  PROVE  /\ Life!Dropped(back, 0) = {}
         /\ \A k \in Nat : Life!Dropped(back, k + 1)
                             = Life!Dropped(back, k) \cup ({back[k + 1].drops} \ {Life!Nothing})
<1>1. 1..0 = {} /\ \A k \in Nat : 1..(k + 1) = 1..k \cup {k + 1}
  OBVIOUS
<1>. QED  BY <1>1 DEF Life!Dropped

(* The error path of probe begins.                                          *)
LEMMA CallFails ==
  ASSUME NEW t, t = Life!Table, Life!Sound(t), LifeOf(t), Life!ProbeRefused
  PROVE  LifeOf(t)'
<1>. DEFINE N == Len(t.probe)
            c == Head(todo)
<1>1. N \in Nat /\ DOMAIN t.probe = 1..N /\ t.probe \in Seq(Life!CallType)
  BY TableSeqs
<1>2. todo \in Seq(Life!CallType) /\ todo # <<>> /\ state = "probing"
  BY DEF Life!ProbeRefused, LifeOf, OneOf
<1>3. PICK h \in 0..N : Left(t.probe, h) /\ After(t, h)
  BY <1>2 DEF LifeOf, OneOf
<1>4. PICK i : i = h + 1
  OBVIOUS
<1>5. i \in 1..N /\ i - 1 = h /\ h + 1 = i /\ c = t.probe[i]
  BY <1>1, <1>2, <1>3, <1>4, LeftNext
<1>6. c.fails = "stop" /\ c.fails # "bound"
  BY <1>1, <1>5 DEF Life!ProbeRefused, Life!Sound
<1>7. /\ misuse' = misuse \cup Life!Missing("probe", c.needs)
      /\ state' = "undoing"
      /\ todo' = Life!Drops(c.undo)
      /\ early' = (early \/ files # {})
      /\ UNCHANGED <<driver, owned, devres, files>>
  BY <1>6 DEF Life!ProbeRefused
<1>8. c.needs \subseteq Life!Sure(t, h)
  BY <1>1, <1>5 DEF Life!Sound
<1>9. PICK back : back = Life!Drops(c.undo)
  OBVIOUS
<1>10. Life!WayBack(t, h, back) /\ back \in Seq(Life!StepType)
  BY <1>1, <1>5, <1>6, <1>9, TableSeqs DEF Life!Sound
<1>. HIDE DEF c, N
<1>11. /\ Life!Sure(t, h) \subseteq owned /\ owned \subseteq Life!May(t, h)
       /\ Elements(devres) = owned \cap Life!Core(t, h)
       /\ ~early
  BY <1>3 DEF After
<1>12. misuse' = misuse
  <2>1. Life!Missing("probe", c.needs) = {}
    BY <1>8, <1>11 DEF Life!Missing
  <2>. QED  BY <1>7, <2>1
<1>13. Back(t, h, back, 0)'
  <2>1. Left(back, 0)'
    BY <1>7, <1>9, <1>10 DEF Left
  <2>. QED  BY <1>7, <1>9, <1>10, <1>11, <2>1, DropsAre DEF Back, Elements
<1>14. OneOf(t)'
  <2>1. 0 \in 0..Len(back) /\ h \in 0..Len(t.probe)
    BY <1>10 DEF N
  <2>. QED  BY <1>7, <1>10, <1>13, <2>1 DEF OneOf
<1>15. CoreList(t)'
  BY <1>7 DEF LifeOf, CoreList
<1>. QED  BY <1>7, <1>12, <1>14, <1>15 DEF LifeOf

(* probe ends; the module is unloaded.                                      *)
LEMMA BoundAndUnloaded ==
  ASSUME NEW t, t = Life!Table, Life!Sound(t), LifeOf(t), Life!Bound \/ Life!Unload
  PROVE  LifeOf(t)'
<1>. DEFINE N == Len(t.probe)
<1>1. N \in Nat /\ t.probe \in Seq(Life!CallType) /\ t.remove \in Seq(Life!StepType)
  BY TableSeqs
<1>2. CASE Life!Bound
  <2>1. state = "probing" /\ todo = <<>> /\ state' = "bound"
        /\ UNCHANGED <<driver, todo, owned, devres, files, misuse, early>>
    BY <1>2 DEF Life!Bound, LifeOf, OneOf
  <2>2. PICK h \in 0..N : Left(t.probe, h) /\ After(t, h)
    BY <2>1 DEF LifeOf, OneOf
  <2>3. h = N
    BY <1>1, <2>1, <2>2 DEF Left
  <2>4. After(t, N)'
    BY <2>1, <2>2, <2>3 DEF After, Elements
  <2>. QED  BY <2>1, <2>4 DEF LifeOf, OneOf, CoreList
<1>3. CASE Life!Unload
  <2>1. state = "bound" /\ files = {} /\ state' = "removing" /\ todo' = t.remove
        /\ UNCHANGED <<driver, owned, devres, files, misuse, early>>
    BY <1>3 DEF Life!Unload
  <2>2. After(t, N)
    BY <2>1 DEF LifeOf, OneOf
  <2>3. Life!WayBack(t, N, t.remove)
    BY DEF Life!Sound
  <2>4. Left(t.remove, 0)'
    BY <1>1, <2>1 DEF Left
  <2>5. Back(t, N, t.remove, 0)'
    BY <1>1, <2>1, <2>2, <2>3, <2>4, DropsAre DEF Back, After, Elements
  <2>6. 0 \in 0..Len(t.remove) /\ N \in 0..N
    BY <1>1
  <2>7. OneOf(t)'
    BY <1>1, <2>1, <2>5, <2>6 DEF OneOf
  <2>. QED  BY <2>1, <2>7 DEF LifeOf, CoreList
<1>. QED  BY <1>2, <1>3

(* One step of an error path or of remove.                                  *)
LEMMA BackOneStep ==
  ASSUME NEW t, t = Life!Table, Life!Sound(t), LifeOf(t), Life!StepBack
  PROVE  LifeOf(t)'
<1>1. state \in {"undoing", "clearing", "removing"} /\ todo # <<>> /\ state' = state
  BY DEF Life!StepBack
<1>2. state \in {"undoing", "removing"}
  BY <1>1 DEF LifeOf, OneOf
<1>3. PICK i \in 0..Len(t.probe), back \in Seq(Life!StepType) :
        \E k \in 0..Len(back) : Back(t, i, back, k)
  BY <1>1, <1>2 DEF LifeOf, OneOf, Released
<1>4. PICK k \in 0..Len(back) : Back(t, i, back, k)
  BY <1>3
<1>. DEFINE s == Head(todo)
            gone == {s.drops} \ {Life!Nothing}
<1>5. /\ misuse' = misuse \cup Life!Missing(state, s.needs \cup gone)
      /\ owned' = owned \ gone
      /\ devres' = Life!Forget(s.drops)
      /\ todo' = Tail(todo)
      /\ UNCHANGED <<driver, state, files, early>>
  BY DEF Life!StepBack
<1>6. todo \in Seq(Life!StepType) /\ Left(back, k)
  BY <1>4 DEF Back
<1>7. /\ k + 1 \in 1..Len(back) /\ s = back[k + 1]
      /\ todo' \in Seq(Life!StepType) /\ Left(back, k + 1)'
  BY <1>1, <1>5, <1>6, LeftNext
<1>8. Len(back) \in Nat /\ DOMAIN back = 1..Len(back) /\ k \in Nat /\ (k + 1) - 1 = k
  OBVIOUS
<1>9. Life!Dropped(back, k + 1) = Life!Dropped(back, k) \cup gone
  BY <1>7, <1>8, DropsAre
<1>10. s.needs \cup gone \subseteq Life!Sure(t, i) \ Life!Dropped(back, k)
  BY <1>4, <1>7, <1>8 DEF Back, Life!WayBack
<1>11. gone \cap Life!Core(t, i) = {}
  <2>1. Life!Dropped(back, Len(back)) \cap Life!Core(t, i) = {}
    BY <1>4 DEF Back, Life!WayBack
  <2>2. gone \subseteq Life!Dropped(back, Len(back))
    BY <1>7 DEF Life!Dropped
  <2>. QED  BY <2>1, <2>2
<1>12. Life!Nothing \notin Life!Core(t, i)
  BY TableSeqs DEF Life!Core, Life!Sound
<1>. HIDE DEF s, gone
<1>13. /\ Life!Sure(t, i) \ Life!Dropped(back, k) \subseteq owned
       /\ owned \subseteq Life!May(t, i) \ Life!Dropped(back, k)
       /\ Elements(devres) = owned \cap Life!Core(t, i)
  BY <1>4 DEF Back
<1>14. misuse' = misuse
  <2>1. Life!Missing(state, s.needs \cup gone) = {}
    BY <1>10, <1>13 DEF Life!Missing
  <2>. QED  BY <1>5, <2>1
<1>15. devres' = devres
  <2>1. s.drops \notin Life!Core(t, i)
    BY <1>11, <1>12 DEF gone
  <2>2. s.drops \notin Life!Range(devres)
    BY <1>13, <2>1 DEF Elements, Life!Range
  <2>. QED  BY <1>5, <2>2 DEF Life!Forget
<1>16. Back(t, i, back, k + 1)'
  <2>1. Life!WayBack(t, i, back)
    BY <1>4 DEF Back
  <2>. QED  BY <1>5, <1>7, <1>9, <1>11, <1>13, <1>15, <2>1 DEF Back, Elements
<1>17. OneOf(t)'
  <2>1. k + 1 \in 0..Len(back)
    BY <1>7, <1>8
  <2>. QED  BY <1>1, <1>2, <1>16, <2>1 DEF OneOf
<1>. QED  BY <1>1, <1>5, <1>14, <1>15, <1>17 DEF LifeOf, CoreList

(* When no step is left, what is held is what is on the core's list.        *)
LEMMA OnlyCoreLeft ==
  ASSUME NEW t, Life!Sound(t), LifeOf(t), state \in {"undoing", "removing"}, todo = <<>>
  PROVE  owned = Elements(devres)
<1>1. CASE Released
  BY <1>1 DEF Released
<1>2. CASE \E i \in 0..Len(t.probe), back \in Seq(Life!StepType) :
             \E k \in 0..Len(back) : Back(t, i, back, k)
  <2>1. PICK i \in 0..Len(t.probe), back \in Seq(Life!StepType) :
          \E k \in 0..Len(back) : Back(t, i, back, k)
    BY <1>2
  <2>2. PICK k \in 0..Len(back) : Back(t, i, back, k)
    BY <2>1
  <2>3. k = Len(back)
    <3>1. Len(back) \in Nat /\ Len(todo) = Len(back) - k
      BY <2>2 DEF Back, Left
    <3>. QED  BY <3>1
  <2>. QED  BY <2>2, <2>3 DEF Back, Life!WayBack
<1>. QED  BY <1>1, <1>2 DEF LifeOf, OneOf

(* The driver core gives back what was taken last, until nothing is left.   *)
LEMMA CoreReleases ==
  ASSUME NEW t, t = Life!Table, Life!Sound(t), LifeOf(t), Life!Release \/ Life!Done
  PROVE  LifeOf(t)'
<1>1. state \in {"undoing", "removing"} /\ todo = <<>>
  BY DEF Life!Release, Life!Done
<1>2. owned = Elements(devres)
  BY <1>1, OnlyCoreLeft
<1>3. CoreList(t) /\ devres \in Seq(STRING) /\ Len(devres) \in Nat /\ DOMAIN devres = 1..Len(devres)
  BY DEF LifeOf, CoreList
<1>4. CASE Life!Release
  <2>. DEFINE r == devres[Len(devres)]
  <2>1. /\ devres # <<>> /\ devres' = Life!Front(devres)
        /\ misuse' = misuse \cup Life!Missing("core", {r}) /\ owned' = owned \ {r}
        /\ UNCHANGED <<driver, state, todo, files, early>>
    BY <1>4 DEF Life!Release
  <2>2. Len(devres) > 0
    BY <1>3, <2>1, EmptySeq
  <2>3. misuse' = misuse
    <3>1. r \in owned
      BY <1>2, <1>3, <2>2 DEF Elements
    <3>2. Life!Missing("core", {r}) = {}
      BY <3>1 DEF Life!Missing
    <3>. QED  BY <2>1, <3>2
  <2>4. /\ devres' \in Seq(STRING) /\ Len(devres') = Len(devres) - 1 /\ DOMAIN devres' = 1..(Len(devres) - 1)
        /\ \A p \in 1..(Len(devres) - 1) : devres'[p] = devres[p]
    <3>1. devres' = SubSeq(devres, 1, Len(devres) - 1)
      BY <2>1 DEF Life!Front
    <3>. QED  BY <1>3, <2>2, <3>1
  <2>5. CoreList(t)'
    <3>1. ASSUME NEW p \in DOMAIN devres', NEW q \in DOMAIN devres', devres'[p] = devres'[q]
          PROVE  p = q
      BY <1>3, <2>4, <3>1 DEF CoreList
    <3>2. ASSUME NEW p \in DOMAIN devres', devres'[p] \in DOMAIN t.calls, NEW x \in t.calls[devres'[p]]
          PROVE  \E q \in 1..(p - 1) : devres'[q] = x
      <4>1. PICK q \in 1..(p - 1) : devres[q] = x
        BY <1>3, <2>4, <3>2 DEF CoreList
      <4>. QED  BY <1>3, <2>4, <4>1
    <3>. QED  BY <2>4, <3>1, <3>2 DEF CoreList
  <2>6. owned' = Elements(devres')
    <3>1. 1..Len(devres) = 1..(Len(devres) - 1) \cup {Len(devres)}
      BY <1>3, <2>2
    <3>2. \A p \in 1..(Len(devres) - 1) : devres[p] # r
      BY <1>3, <2>2 DEF CoreList
    <3>. QED  BY <1>2, <1>3, <2>1, <2>4, <3>1, <3>2 DEF Elements
  <2>. QED  BY <1>1, <2>1, <2>3, <2>5, <2>6 DEF LifeOf, OneOf, Released
<1>5. CASE Life!Done
  <2>1. /\ devres = <<>> /\ UNCHANGED <<driver, todo, owned, devres, files, misuse, early>>
        /\ state' = IF state = "undoing" THEN "failed" ELSE "gone"
    BY <1>5 DEF Life!Done
  <2>2. owned = {}
    BY <1>2, <2>1 DEF Elements
  <2>. QED  BY <1>1, <2>1, <2>2 DEF LifeOf, OneOf, CoreList
<1>. QED  BY <1>4, <1>5

(* A file is opened or closed.                                              *)
LEMMA FilesChange ==
  ASSUME NEW t, t = Life!Table, Life!Sound(t), LifeOf(t), NEW e, Life!OpenFile(e) \/ Life!CloseFile(e)
  PROVE  LifeOf(t)'
<1>1. UNCHANGED <<driver, state, todo, owned, devres, misuse, early>>
  BY DEF Life!OpenFile, Life!CloseFile
<1>2. CASE Life!OpenFile(e)
  <2>1. e \in Life!FileKinds \cap owned /\ state \in {"probing", "bound"} /\ files' = files \cup {e}
    BY <1>2 DEF Life!OpenFile
  <2>2. \A i : After(t, i) => After(t, i)'
    BY <1>1, <2>1 DEF After, Elements
  <2>. QED  BY <1>1, <2>1, <2>2 DEF LifeOf, OneOf, Left, CoreList
<1>3. CASE Life!CloseFile(e)
  <2>1. e \in files /\ files' = files \ {e}
    BY <1>3 DEF Life!CloseFile
  <2>2. \A i : After(t, i) => After(t, i)'
    BY <1>1, <2>1 DEF After, Elements
  <2>3. \A i, back, k : Back(t, i, back, k) => Back(t, i, back, k)'
    BY <1>1 DEF Back, Left, Elements
  <2>4. Released => Released'
    BY <1>1 DEF Released, Elements
  <2>5. OneOf(t)'
    BY <1>1, <2>2, <2>3, <2>4 DEF LifeOf, OneOf, Left
  <2>. QED  BY <1>1, <2>1, <2>5 DEF LifeOf, CoreList
<1>. QED  BY <1>2, <1>3

(* Whoever enters while it is allowed finds what the way in leads to.       *)
LEMMA WayInIsCovered ==
  ASSUME NEW t, t = Life!Table, Life!Sound(t), LifeOf(t), NEW e, Life!Enter(e)
  PROVE  Life!Missing(e, t.calls[e]) = {} \/ (early /\ e \in Life!FileKinds)
<1>1. e \in DOMAIN t.calls /\ e \in IF e \in Life!FileKinds THEN files ELSE owned
  BY DEF Life!Enter
<1>2. \A i \in 0..Len(t.probe) : Life!Covered(t, Life!May(t, i), Life!Sure(t, i))
  BY DEF Life!Sound
<1>3. Len(t.probe) \in Nat
  BY TableSeqs
<1>4. ASSUME NEW i \in 0..Len(t.probe), After(t, i) PROVE t.calls[e] \subseteq owned
  BY <1>1, <1>2, <1>4 DEF After, Life!Covered
<1>5. CASE state \in {"probing", "bound"}
  BY <1>3, <1>4, <1>5 DEF LifeOf, OneOf, Life!Missing
<1>6. CASE state \in {"undoing", "removing", "failed", "gone"}
  <2>1. CASE e \in Life!FileKinds
    BY <1>1, <1>6, <2>1 DEF LifeOf
  <2>2. CASE e \notin Life!FileKinds
    <3>1. e \in owned
      BY <1>1, <2>2
    <3>2. CASE Released
      <4>1. PICK p \in DOMAIN devres : devres[p] = e
        BY <3>1, <3>2 DEF Released, Elements
      <4>2. DOMAIN devres = 1..Len(devres) /\ Len(devres) \in Nat
        BY DEF LifeOf, CoreList
      <4>3. ASSUME NEW r \in t.calls[e] PROVE r \in owned
        <5>1. PICK q \in 1..(p - 1) : devres[q] = r
          BY <1>1, <4>1 DEF LifeOf, CoreList
        <5>2. q \in DOMAIN devres
          BY <4>2
        <5>. QED  BY <3>2, <5>1, <5>2 DEF Released, Elements
      <4>. QED  BY <4>3 DEF Life!Missing
    <3>3. ASSUME NEW i, NEW back \in Seq(Life!StepType), NEW k \in 0..Len(back), Back(t, i, back, k)
          PROVE  t.calls[e] \subseteq owned
      BY <1>1, <3>1, <3>3 DEF Back, Life!WayBack, Life!Covered
    <3>. QED  BY <1>6, <3>1, <3>2, <3>3 DEF LifeOf, OneOf, Life!Missing
  <2>. QED  BY <2>1, <2>2
<1>. QED  BY <1>5, <1>6 DEF LifeOf, OneOf

(* So what it uses is held, unless probe has failed under an open file.     *)
LEMMA SomebodyEnters ==
  ASSUME NEW t, t = Life!Table, Life!Sound(t), LifeOf(t), NEW e, Life!Enter(e)
  PROVE  LifeOf(t)'
<1>1. /\ misuse' = misuse \cup Life!Missing(e, t.calls[e])
      /\ UNCHANGED <<driver, state, todo, owned, devres, files, early>>
  BY DEF Life!Enter
<1>2. \A m \in Life!Missing(e, t.calls[e]) : m[2] = e
  BY DEF Life!Missing
<1>3. \A m \in misuse' : early' /\ m[2] \in Life!FileKinds
  BY <1>1, <1>2, WayInIsCovered DEF LifeOf
<1>4. OneOf(t)'
  <2>1. \A i : After(t, i) => After(t, i)'
    BY <1>1 DEF After, Elements
  <2>2. \A i, back, k : Back(t, i, back, k) => Back(t, i, back, k)'
    BY <1>1 DEF Back, Left, Elements
  <2>3. Released => Released'
    BY <1>1 DEF Released, Elements
  <2>. QED  BY <1>1, <2>1, <2>2, <2>3 DEF LifeOf, OneOf, Left
<1>. QED  BY <1>1, <1>3, <1>4 DEF LifeOf, CoreList

(* LifeInv is an invariant, whichever driver a behaviour is of.             *)
LEMMA LifeInvariant == MCSpec => []LifeInv
<1>1. ASSUME MCInit PROVE LifeInv
  <2>. SUFFICES ASSUME Life!Sound(Life!Table) PROVE LifeOf(Life!Table)
    BY <1>1 DEF LifeInv, MCInit, Life!Init
  <2>1. PICK t : t = Life!Table
    OBVIOUS
  <2>2. /\ state = "probing" /\ todo = t.probe
        /\ owned = {} /\ devres = <<>> /\ files = {} /\ misuse = {} /\ early = FALSE
    BY <1>1, <2>1 DEF MCInit, Life!Init
  <2>3. t.probe \in Seq(Life!CallType) /\ Len(t.probe) \in Nat
    BY <2>1, TableSeqs
  <2>4. Life!May(t, 0) = {} /\ Life!Sure(t, 0) = {} /\ Life!Core(t, 0) = {}
    <3>1. 1..0 = {}
      OBVIOUS
    <3>. QED  BY <3>1 DEF Life!May, Life!Sure, Life!Core
  <2>5. After(t, 0)
    BY <2>2, <2>4 DEF After, Elements
  <2>6. Left(t.probe, 0)
    BY <2>2, <2>3 DEF Left
  <2>7. OneOf(t)
    <3>1. 0 \in 0..Len(t.probe)
      BY <2>3
    <3>. QED  BY <2>2, <2>3, <2>5, <2>6, <3>1 DEF OneOf
  <2>8. CoreList(t)
    BY <2>2 DEF CoreList
  <2>. QED  BY <2>1, <2>2, <2>7, <2>8 DEF LifeOf
<1>2. ASSUME LifeInv, UNCHANGED lifeVars PROVE LifeInv'
  <2>1. UNCHANGED <<driver, state, todo, owned, devres, files, misuse, early>>
    BY <1>2 DEF lifeVars
  <2>2. Life!Table' = Life!Table
    BY <2>1 DEF Life!Table
  <2>3. PICK t : t = Life!Table
    OBVIOUS
  <2>4. ASSUME LifeOf(t) PROVE LifeOf(t)'
    <3>1. \A i : After(t, i) => After(t, i)'
      BY <2>1 DEF After, Elements
    <3>2. \A i, back, k : Back(t, i, back, k) => Back(t, i, back, k)'
      BY <2>1 DEF Back, Left, Elements
    <3>3. Released => Released'
      BY <2>1 DEF Released, Elements
    <3>4. OneOf(t)'
      BY <2>1, <2>4, <3>1, <3>2, <3>3 DEF LifeOf, OneOf, Left
    <3>. QED  BY <2>1, <2>4, <3>4 DEF LifeOf, CoreList
  <2>. QED  BY <1>2, <2>1, <2>2, <2>3, <2>4 DEF LifeInv
<1>3. ASSUME LifeInv, Life!Next PROVE LifeInv'
  <2>1. driver' = driver
    BY <1>3 DEF Life!Next, Life!ProbeCall, Life!ProbeRefused, Life!Bound, Life!StepBack, Life!Unload,
                Life!Release, Life!Done, Life!OpenFile, Life!CloseFile, Life!Enter
  <2>2. Life!Table' = Life!Table
    BY <2>1 DEF Life!Table
  <2>3. PICK t : t = Life!Table
    OBVIOUS
  <2>. SUFFICES ASSUME Life!Sound(t) PROVE LifeOf(t)'
    BY <1>3, <2>1, <2>2, <2>3 DEF LifeInv
  <2>4. LifeOf(t)
    BY <1>3, <2>3 DEF LifeInv
  <2>5. CASE Life!ProbeCall
    BY <2>3, <2>4, <2>5, CallSucceeds
  <2>6. CASE Life!ProbeRefused
    BY <2>3, <2>4, <2>6, CallFails
  <2>7. CASE Life!Bound \/ Life!Unload
    BY <2>3, <2>4, <2>7, BoundAndUnloaded
  <2>8. CASE Life!StepBack
    BY <2>3, <2>4, <2>8, BackOneStep
  <2>9. CASE Life!Release \/ Life!Done
    BY <2>3, <2>4, <2>9, CoreReleases
  <2>10. ASSUME NEW e, Life!OpenFile(e) \/ Life!CloseFile(e) PROVE LifeOf(t)'
    BY <2>3, <2>4, <2>10, FilesChange
  <2>11. ASSUME NEW e, Life!Enter(e) PROVE LifeOf(t)'
    BY <2>3, <2>4, <2>11, SomebodyEnters
  <2>. QED  BY <1>3, <2>5, <2>6, <2>7, <2>8, <2>9, <2>10, <2>11 DEF Life!Next
<1>4. LifeInv /\ [MCNext]_<<which, vars, lifeVars, rtcVars, touchVars>> => LifeInv'
  BY <1>2, <1>3 DEF MCNext, KeyNext, LifeNext, ClockNext, TouchNext
<1>. QED  BY <1>1, <1>4, PTL DEF MCSpec

(* A driver whose table is sound keeps its resources: in no order of        *)
(* failing calls of probe, files, interrupts and removal is anything used   *)
(* or given back that is not held, but through a file that was opened       *)
(* before probe failed, and nothing is left taken.                          *)
THEOREM SoundDriversKeepResources == MCSpec => [](Life!Sound(Life!Table) => ResourcesKept)
<1>1. LifeInv => (Life!Sound(Life!Table) => ResourcesKept)
  <2>. SUFFICES ASSUME LifeInv, Life!Sound(Life!Table) PROVE ResourcesKept
    OBVIOUS
  <2>1. PICK t : t = Life!Table
    OBVIOUS
  <2>2. LifeOf(t)
    BY <2>1 DEF LifeInv
  <2>3. Life!UsedWhileHeld
    BY <2>2 DEF LifeOf, Life!UsedWhileHeld
  <2>4. Life!NothingLeaked
    BY <2>2 DEF LifeOf, OneOf, Life!NothingLeaked
  <2>. QED  BY <2>3, <2>4 DEF ResourcesKept
<1>. QED  BY <1>1, LifeInvariant, PTL

(* So do the drivers of which DriverSet lists no defect: seventeen of its   *)
(* thirty-five tables.                                                      *)
THEOREM ResourcesAreKept ==
  MCSpec => []((\A m \in D!MCKnown : m[1] # driver) => ResourcesKept)
<1>1. LifeInv /\ (Life!Sound(Life!Table) => ResourcesKept)
        => ((\A m \in D!MCKnown : m[1] # driver) => ResourcesKept)
  BY TablesAssumption DEF LifeInv, Life!Table
<1>. QED  BY <1>1, LifeInvariant, SoundDriversKeepResources, PTL
=============================================================================
