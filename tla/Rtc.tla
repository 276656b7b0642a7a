-------------------------------- MODULE Rtc ---------------------------------
(***************************************************************************)
(* The three drivers of the PCF8563 clock: ch03-11/bus_rtc (I2C messages),  *)
(* ch03-11/regmap_rtc and ch03-10/regmap_pcf8563 (register maps).  The RTC  *)
(* core calls the operations under its ops_lock, one at a time; the thread  *)
(* of the alarm interrupt takes no lock.  Both read and write back the      *)
(* control register 2, which holds the enable bit AIE and the flag AF.      *)
(* The first two drivers differ only in how they reach the chip; the third  *)
(* enables the alarm again where they clear the flag, converts the year     *)
(* without the century and its interrupt is level triggered.                *)
(***************************************************************************)
EXTENDS Integers, Sequences

CONSTANTS
  Times,         \* what may be set: <<sec, min, hour, mday, wday, mon, year>>,
                 \* valid and from 2000 to 2099, as the RTC core passes them
  MaxErrors      \* bound: transfers on the bus that fail

VARIABLES
  driver,        \* "bus", "regmap" or "pcf8563"
  regs,          \* the seven time registers, BCD
  vl,            \* bit 7 of the seconds: the supply was low
  polarity,      \* c_polarity, kept by the level driver only
  alarm,         \* the four alarm registers: minute, hour, day, weekday
  aie, af,       \* control register 2
  irq,           \* the interrupt controller has an interrupt for the thread
  user,          \* the operation the core is in: [at, on, aie]
  thread,        \* the interrupt thread: [at, aie]
  result,        \* of the last get_time or read_alarm, or None, or Error
  set,           \* ghost: the last time set since the supply failed, or None
  asked,         \* ghost: the last alarm written, or None
  wanted,        \* ghost: the last alarm mode written for the user
  raced,         \* ghost: that write was made while an interrupt was handled
  errors
rtcVars == <<driver, regs, vl, polarity, alarm, aie, af, irq, user, thread, result, set, asked,
             wanted, raced, errors>>

None  == <<>>
Error == <<0>>

bin2bcd(n) == 16 * (n \div 10) + (n % 10)
bcd2bin(n) == 10 * (n \div 16) + (n % 16)

-----------------------------------------------------------------------------
Level == driver = "pcf8563"      \* the trigger of the interrupt

\* Seconds to weekday, the same in the three drivers; month and year follow.
Fields(t) == << bin2bcd(t[1]), bin2bcd(t[2]), bin2bcd(t[3]), bin2bcd(t[4]), t[5] % 8 >>
(* Mutant: the month is stored from 0. *)
CenturyBit_Month(t) ==
  << bin2bcd(t[6]) + (IF t[7] < 100 THEN 128 ELSE 0), bin2bcd(t[7] % 100) >>
\* Bit 7 of the month register stands for 19xx.
CenturyBit(t) ==
  << bin2bcd(t[6] + 1) + (IF t[7] < 100 THEN 128 ELSE 0), bin2bcd(t[7] % 100) >>
\* The year always counts from 2000, in a byte; c_polarity says what bit 7 means.
PolarityBit(t) ==
  << bin2bcd(t[6] + 1) + (IF (t[7] >= 100) = polarity THEN 128 ELSE 0),
     bin2bcd((t[7] - 100) % 256) % 256 >>

Decode(r, year) ==
  << bcd2bin(r[1] % 128), bcd2bin(r[2] % 128), bcd2bin(r[3] % 64), bcd2bin(r[4] % 64), r[5] % 8,
     bcd2bin(r[6] % 32) - 1, year >>
CenturyYear(r)  == bcd2bin(r[7]) + (IF r[6] >= 128 THEN 0 ELSE 100)
PolarityYear(r) == bcd2bin(r[7]) + 100

Line == ~(aie /\ af)          \* the interrupt pin, active low

Init ==
  /\ driver \in {"bus", "regmap", "pcf8563"}
  /\ regs = <<0, 0, 0, 1, 0, 1, 0>> /\ vl = TRUE /\ polarity = FALSE /\ alarm = <<0, 0, 0, 0>>
  /\ aie = FALSE /\ af = FALSE /\ irq = FALSE
  /\ user = [at |-> "idle", on |-> FALSE] /\ thread = [at |-> "idle", aie |-> FALSE]
  /\ result = None /\ set = None /\ asked = None /\ wanted = FALSE /\ raced = FALSE /\ errors = 0

\* A transfer fails: the caller returns, nothing has been written.
Fails == errors < MaxErrors /\ errors' = errors + 1

\* The control register is written: a falling edge, or a low level, asks for the thread.
Control(e, f) ==
  /\ aie' = e /\ af' = f
  /\ irq' = (irq \/ (e /\ f /\ (Level \/ Line)))
clockVars == <<regs, vl, polarity, alarm, result, set, asked>>
alarmVars == <<aie, af, irq, user, thread, wanted, raced>>
-----------------------------------------------------------------------------
(* The operations on the time: one transfer each. *)
ReadClock(year) ==
  /\ user.at = "idle"
  /\ \/ Fails /\ result' = Error
     \/ vl /\ result' = Error /\ UNCHANGED errors
     \/ ~vl /\ result' = Decode(regs, year) /\ UNCHANGED errors
  /\ UNCHANGED <<driver, regs, vl, alarm, set, asked>> /\ UNCHANGED alarmVars

BusGetTime    == driver = "bus" /\ ReadClock(CenturyYear(regs)) /\ UNCHANGED polarity
RegmapGetTime == driver = "regmap" /\ ReadClock(CenturyYear(regs)) /\ UNCHANGED polarity
PcfGetTime ==
  /\ driver = "pcf8563" /\ ReadClock(PolarityYear(regs))
  /\ polarity' = IF result' = Error THEN polarity
                 ELSE IF regs[6] >= 128 THEN result'[7] >= 100 ELSE result'[7] < 100

WriteClock(t, monthAndYear) ==
  /\ user.at = "idle"
  /\ \/ Fails /\ UNCHANGED <<regs, vl, result, set>>
     \/ /\ regs' = Fields(t) \o monthAndYear /\ vl' = FALSE /\ set' = t /\ result' = None
        /\ UNCHANGED errors
  /\ UNCHANGED <<driver, polarity, alarm, asked>> /\ UNCHANGED alarmVars

BusSetTime(t)    == driver = "bus" /\ WriteClock(t, CenturyBit(t))
RegmapSetTime(t) == driver = "regmap" /\ WriteClock(t, CenturyBit(t))
PcfSetTime(t)    == driver = "pcf8563" /\ WriteClock(t, PolarityBit(t))

\* The supply drops: the chip raises VL and its registers mean nothing.
SupplyLow ==
  /\ ~vl /\ user.at = "idle" /\ vl' = TRUE /\ set' = None /\ result' = None
  /\ UNCHANGED <<driver, regs, polarity, alarm, asked, errors>> /\ UNCHANGED alarmVars
-----------------------------------------------------------------------------
(* The operations on the alarm.  set_alarm writes the alarm registers and   *)
(* then the mode, alarm_irq_enable the mode only; pcf8563_set_alarm_mode    *)
(* reads the control register, then writes it with AF cleared.              *)
User(at, on) == user' = [at |-> at, on |-> on]

AlarmFields(t) == << bin2bcd(t[2]), bin2bcd(t[3]), bin2bcd(t[4]), t[5] % 8 >>
WriteAlarm(t, on) ==
  /\ user.at = "idle"
  /\ \/ Fails /\ UNCHANGED <<user, alarm, asked, result>>
     \/ /\ User("mode", on) /\ alarm' = AlarmFields(t) /\ asked' = SubSeq(t, 2, 5)
        /\ result' = None /\ UNCHANGED errors
  /\ UNCHANGED <<driver, regs, vl, polarity, set, aie, af, irq, thread, wanted, raced>>

BusSetAlarm(t, on)    == driver = "bus" /\ WriteAlarm(t, on)
RegmapSetAlarm(t, on) == driver = "regmap" /\ WriteAlarm(t, on)
PcfSetAlarm(t, on)    == driver = "pcf8563" /\ WriteAlarm(t, on)

DecodedAlarm(a) == << bcd2bin(a[1] % 128), bcd2bin(a[2] % 64), bcd2bin(a[3] % 64), bcd2bin(a[4] % 8) >>
\* The alarm registers and then the control register, which the thread does not lock out;
\* what is read of the latter is left out.
ReadAlarm ==
  /\ user.at = "idle" /\ asked # None
  /\ \/ Fails /\ result' = Error
     \/ result' = DecodedAlarm(alarm) /\ UNCHANGED errors
  /\ UNCHANGED <<driver, regs, vl, polarity, alarm, set, asked>> /\ UNCHANGED alarmVars
BusReadAlarm    == driver = "bus" /\ ReadAlarm
RegmapReadAlarm == driver = "regmap" /\ ReadAlarm
PcfReadAlarm    == driver = "pcf8563" /\ ReadAlarm

SetMode(on) ==
  /\ user.at = "idle" /\ User("mode", on)
  /\ UNCHANGED <<driver, aie, af, irq, thread, wanted, raced, errors>> /\ UNCHANGED clockVars
BusAlarmIrqEnable(on)    == driver = "bus" /\ SetMode(on)
RegmapAlarmIrqEnable(on) == driver = "regmap" /\ SetMode(on)
PcfAlarmIrqEnable(on)    == driver = "pcf8563" /\ SetMode(on)

ReadMode ==
  /\ user.at = "mode"
  /\ \/ Fails /\ User("idle", FALSE)
     \/ User("write", user.on) /\ UNCHANGED errors
  /\ UNCHANGED <<driver, aie, af, irq, thread, wanted, raced>> /\ UNCHANGED clockVars

\* The thread will write what it has read before, or enables the alarm whatever it reads.
Inside == thread.at \in {"write", "mode"} \/ (Level /\ irq)

WriteMode ==
  /\ user.at = "write" /\ User("idle", FALSE)
  /\ \/ Fails /\ UNCHANGED <<aie, af, irq, wanted, raced>>
     \/ /\ Control(user.on, FALSE) /\ wanted' = user.on
        /\ raced' = Inside /\ UNCHANGED errors
  /\ UNCHANGED <<driver, thread>> /\ UNCHANGED clockVars
-----------------------------------------------------------------------------
(* The alarm goes off: AF is set whether or not the interrupt is enabled.   *)
Alarm ==
  /\ ~af /\ Control(aie, TRUE)
  /\ UNCHANGED <<driver, user, thread, wanted, raced, errors>> /\ UNCHANGED clockVars

Thread(at, e) == thread' = [at |-> at, aie |-> e]

\* pcf8563_irq_handler: is an alarm pending?  next is where it goes on if one is.
Pending(next) ==
  /\ thread.at = "idle" /\ irq
  /\ \/ Fails /\ Thread("idle", FALSE)
     \/ ~af /\ Thread("idle", FALSE) /\ UNCHANGED errors
     \/ af /\ Thread(next, FALSE) /\ UNCHANGED errors
  /\ irq' = (Level /\ ~Line /\ thread'.at = "idle")
  /\ UNCHANGED <<driver, aie, af, user, wanted, raced>> /\ UNCHANGED clockVars
BusHandler    == driver = "bus" /\ Pending("clear")
RegmapHandler == driver = "regmap" /\ Pending("clear")
PcfHandler    == driver = "pcf8563" /\ Pending("mode")

\* The control register is read; e is how AIE will be written back.
ReadControl(at, e) ==
  /\ thread.at = at
  /\ \/ Fails /\ Thread("idle", FALSE) /\ irq' = (irq \/ (Level /\ ~Line))
     \/ Thread("write", e) /\ UNCHANGED <<errors, irq>>
  /\ UNCHANGED <<driver, aie, af, user, wanted, raced>> /\ UNCHANGED clockVars
(* Mutant: the byte written back is always the one that enables the alarm. *)
ReadFlag_Enable == ReadControl("clear", TRUE)
\* The first half of pcf8563_clear_alarm_flag.
ReadFlag == ReadControl("clear", aie)
\* The first half of pcf8563_set_alarm_mode(client, 1), which the third driver calls instead.
ReadEnable == ReadControl("mode", TRUE)

(* The second half: the byte that was read is written with AF cleared.      *)
HandlerWrite ==
  /\ thread.at = "write" /\ Thread("idle", FALSE)
  /\ \/ Fails /\ UNCHANGED <<aie, af>> /\ irq' = (irq \/ (Level /\ ~Line))
     \/ Control(thread.aie, FALSE) /\ UNCHANGED errors
  /\ UNCHANGED <<driver, user, wanted, raced>> /\ UNCHANGED clockVars

UserStep == ReadMode \/ WriteMode
ThreadStep == BusHandler \/ RegmapHandler \/ PcfHandler \/ ReadFlag \/ ReadEnable \/ HandlerWrite
Next ==
  \/ BusGetTime \/ RegmapGetTime \/ PcfGetTime \/ SupplyLow \/ Alarm \/ UserStep \/ ThreadStep
  \/ BusReadAlarm \/ RegmapReadAlarm \/ PcfReadAlarm
  \/ \E t \in Times : BusSetTime(t) \/ RegmapSetTime(t) \/ PcfSetTime(t)
  \/ \E t \in Times, on \in BOOLEAN : BusSetAlarm(t, on) \/ RegmapSetAlarm(t, on) \/ PcfSetAlarm(t, on)
  \/ \E on \in BOOLEAN : BusAlarmIrqEnable(on) \/ RegmapAlarmIrqEnable(on) \/ PcfAlarmIrqEnable(on)

\* The core finishes what it has begun, and an interrupt thread that is woken runs.
Fairness == WF_rtcVars(UserStep) /\ WF_rtcVars(ThreadStep)
Spec == Init /\ [][Next]_rtcVars /\ Fairness
-----------------------------------------------------------------------------
TypeOK ==
  /\ driver \in {"bus", "regmap", "pcf8563"} /\ regs \in [1..7 -> 0..255] /\ vl \in BOOLEAN /\ polarity \in BOOLEAN
  /\ aie \in BOOLEAN /\ af \in BOOLEAN /\ irq \in BOOLEAN /\ wanted \in BOOLEAN /\ raced \in BOOLEAN
  /\ user \in [at : {"idle", "mode", "write"}, on : BOOLEAN]
  /\ thread \in [at : {"idle", "clear", "mode", "write"}, aie : BOOLEAN]
  /\ alarm \in [1..4 -> 0..255]
  /\ result \in Times \cup {SubSeq(t, 2, 5) : t \in Times} \cup {None, Error} /\ set \in Times \cup {None}
  /\ errors \in 0..MaxErrors

(* A time that can be read is the time that was set, and an alarm the alarm *)
(* that was set: through BCD, masks, the month from 1, the century bit and  *)
(* c_polarity of the third driver, and never a time from before the supply  *)
(* failed.                                                                  *)
ReadsBack == result \notin {None, Error} => result = IF Len(result) = 4 THEN asked ELSE set

(* The alarm is enabled exactly when the user last asked for it, although   *)
(* the interrupt thread writes back the whole control register without the  *)
(* lock of the core: only a mode written between a read and the write of    *)
(* the thread is lost, or for the third driver while its interrupt is on    *)
(* the way.                                                                 *)
AlarmModeKept == user.at = "idle" /\ thread.at = "idle" /\ ~raced => aie = wanted

(* An alarm that pulls the interrupt line down is answered and the line let *)
(* go: by the third driver always, by the other two unless a transfer       *)
(* failed, since a line that stays low has no further edge.                 *)
AlarmAnswered == ~Line ~> (Line \/ (~Level /\ errors > 0))
=============================================================================
