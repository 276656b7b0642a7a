--------------------------------- MODULE Pwm ---------------------------------
(***************************************************************************)
(* The PWM drivers (ch03-12/pwm_provider and, with the same statements in   *)
(* another order, ch03-14/pwm_device) under one of their three users: the   *)
(* character device of ch03-12/pwm_consumer, the fan of                     *)
(* ch03-14/thermal_cooling and the backlight of ch03-13, with the PWM core  *)
(* of Linux up to 6.1 in between, which takes no lock around a call.        *)
(* Periods and duty cycles count the period of the user's device tree as    *)
(* Scale; for the backlight, which keeps the period it finds, that one.     *)
(***************************************************************************)
EXTENDS Naturals, Sequences

CONSTANTS Callers,    \* the processes that call the driver on top
          Scale,      \* the level that means the whole period
          Periods,    \* the periods that the boot loader may leave
          MaxErrors,  \* bound: clocks that cannot be enabled
          MaxRequests \* bound: requests

VARIABLES consumer,   \* the driver on top
          boot,       \* the boot loader left the PWM running
          cell,       \* duty_cycle of its pwm_state, which all callers share
          flag,       \* pb->enabled of the backlight, cur_fan_level of the fan
          caller,     \* what each caller is at
          core,       \* pwm->state of the PWM core
          clk,        \* how often the clocks were enabled
          en, fifo,   \* the enable bit and the sample FIFO
          sample,     \* the sample the output is made from
          duty,       \* info->duty_cycle
          errors,
          requests,   \* how many requests there were
          level,      \* history: the level asked for by the request that ended last
          mixed,      \* history: the latest requests were under way together
          raced,      \* history: two calls of the driver overlapped
          stopped,    \* history: so did two of which one leaves the PWM off
          doubt       \* history: a call failed and the driver does not know

history == <<level, mixed, raced, stopped, doubt>>
hardware == <<clk, en, fifo, sample, errors>>
pwmVars == <<consumer, boot, cell, flag, caller, core, duty, requests, hardware, history>>

Consumers == {"consumer", "fan", "backlight"}
FifoWords == 4
\* The probe function of the driver on top, which sets the default.
Probe == "probe"
All == Callers \cup {Probe}

(***************************************************************************)
(* The users.  set_pwm of the character device and of the fan puts the duty *)
(* cycle into its pwm_state, hands both to pwm_config and then enables;     *)
(* pwm_bl_update_status applies the duty cycle and switches on or off.      *)
(***************************************************************************)
compute_duty_cycle(l) == [op |-> "duty", to |-> l]
Op(name) == [op |-> name, to |-> 0]
set_pwm(l)       == IF l > 0 THEN <<Op("config"), Op("enable")>> ELSE <<Op("disable")>>
fan_set_pwm(l)   == IF l > 0 THEN <<Op("config"), Op("enable")>> ELSE <<Op("disable")>>
set_cur_state(l) == IF l = flag THEN <<>> ELSE fan_set_pwm(l)
update_status(l) == IF l > 0 THEN <<compute_duty_cycle(l), Op("on")>> ELSE <<Op("off")>>
Requested(l) ==
  CASE consumer = "backlight" -> update_status(l)
    [] consumer = "fan"       -> set_cur_state(l)
    [] OTHER                  -> set_pwm(l)
\* Only the character device takes a level above the scale (of 100).
Levels == 0..(IF consumer = "consumer" THEN Scale + 1 ELSE Scale)

Busy(c) == caller[c].calls # <<>>
InCall(c) == caller[c].at # "idle"

(***************************************************************************)
(* The locks of the backlight and of the cooling core let one caller in at  *)
(* a time; the character device has none.  Its file and the cooling device  *)
(* are there after the default is set, the backlight before.                *)
(***************************************************************************)
MayAsk(c) ==
  /\ ~Busy(c)
  /\ consumer # "backlight" => ~Busy(Probe)
  /\ consumer # "consumer" => \A d \in Callers : ~Busy(d)

\* The driver asks again for all that it doubts, or leaves it as it is.
Unasked(l) ==
  CASE consumer = "backlight" -> (l > 0) = (flag > 0)
    [] consumer = "fan"       -> l = flag
    [] OTHER                  -> FALSE

Ask(c, l) ==
  /\ MayAsk(c) /\ l \in Levels
  /\ requests < MaxRequests /\ requests' = requests + 1
  /\ caller' = [caller EXCEPT ![c].level = l, ![c].calls = Requested(l)]
  /\ cell' = IF consumer # "backlight" /\ l > 0 /\ Requested(l) # <<>> THEN l ELSE cell
  /\ level' = IF Requested(l) = <<>> THEN l ELSE level
  /\ mixed' = \E d \in All \ {c} : Busy(d)
  /\ doubt' = (doubt /\ Unasked(l))
  /\ UNCHANGED <<consumer, boot, flag, core, duty, hardware, raced, stopped>>

(***************************************************************************)
(* probe: the clocks stay on when the PWM runs already, and so they do once *)
(* more in get_state, when the PWM is requested, which reads the sample of  *)
(* a PWM that runs.  Then the user's probe asks for its default.            *)
(***************************************************************************)
ProbeClocks == IF boot THEN 1 ELSE 0
GetStateClocks == IF boot THEN 1 ELSE 0
Idle == [level |-> 0, calls |-> <<>>, at |-> "idle", seen |-> FALSE,
         want |-> [enabled |-> FALSE, duty |-> 0, period |-> 0]]
Found == [enabled : {boot}, duty : IF boot THEN 0..Scale ELSE {0},
          period : IF consumer = "backlight" THEN {Scale} ELSE Periods]
Init ==
  /\ consumer \in Consumers /\ boot \in BOOLEAN
  /\ core \in {s \in Found : s.duty <= s.period}
  /\ clk = ProbeClocks + GetStateClocks /\ en = boot
  /\ fifo = <<>> /\ sample = core.duty /\ duty = 0 /\ errors = 0 /\ requests = 0
  /\ level = 0 /\ mixed = FALSE /\ raced = FALSE /\ stopped = FALSE
  /\ flag = 0
  /\ \E l \in Levels :
       /\ cell = (IF consumer = "backlight" THEN 0 ELSE l)
       /\ caller = [c \in All |-> IF c = Probe
            THEN [Idle EXCEPT !.level = l,
                              !.calls = IF consumer = "fan" THEN fan_set_pwm(l) ELSE Requested(l)]
            ELSE Idle]
       /\ doubt = (consumer = "backlight" /\ boot /\ l = 0)

-----------------------------------------------------------------------------
(***************************************************************************)
(* The calls.  pwm_config takes the duty cycle first and the period second  *)
(* and is given them the other way round.                                   *)
(***************************************************************************)
Wanted(call) ==
  CASE call.op = "duty"           -> [core EXCEPT !.duty = call.to]
    [] call.op = "config"         -> [core EXCEPT !.duty = Scale, !.period = cell]
    [] call.op \in {"enable", "on"} -> [core EXCEPT !.enabled = TRUE]
    [] call.op = "disable"        -> [core EXCEPT !.enabled = FALSE]
    [] call.op = "off"            -> [core EXCEPT !.enabled = FALSE, !.duty = 0]
Current(c) == Head(caller[c].calls)

\* pwm_bl_power_on and pwm_bl_power_off return at once by the flag.
Skipped(call) == (call.op = "on" /\ flag > 0) \/ (call.op = "off" /\ flag = 0)
\* pwm_apply_state refuses a duty cycle above the period and leaves out what changes nothing.
Refused(s) == s.period = 0 \/ s.duty > s.period
LeftOut(call) == Skipped(call) \/ Refused(Wanted(call)) \/ Wanted(call) = core

\* The call of c returns; pb->enabled and cur_fan_level are set whatever became of it.
LastCall(c) == Len(caller[c].calls) = 1
FlagAfter(c) ==
  CASE Current(c).op = "on"  -> 1
    [] Current(c).op = "off" -> 0
    [] consumer = "fan" /\ LastCall(c) -> caller[c].level
    [] OTHER -> flag
Return(c) ==
  /\ caller' = [caller EXCEPT ![c] = IF LastCall(c) THEN Idle
       ELSE [Idle EXCEPT !.level = caller[c].level, !.calls = Tail(caller[c].calls)]]
  /\ flag' = FlagAfter(c)
  /\ level' = IF LastCall(c) THEN caller[c].level ELSE level

Pass(c) ==
  /\ Busy(c) /\ ~InCall(c) /\ LeftOut(Current(c))
  /\ Return(c)
  /\ UNCHANGED <<requests, consumer, boot, cell, core, duty, hardware, mixed, raced, stopped, doubt>>

\* The state to apply is made from a copy of pwm->state.
Call(c) ==
  /\ Busy(c) /\ ~InCall(c) /\ ~LeftOut(Current(c))
  /\ LET others == {d \in All \ {c} : InCall(d)}
         want == Wanted(Current(c))
     IN /\ caller' = [caller EXCEPT ![c].at = "apply", ![c].want = want]
        /\ raced' = (raced \/ others # {})
        /\ stopped' = (stopped \/ \E d \in others : ~want.enabled \/ ~caller[d].want.enabled)
  /\ UNCHANGED <<requests, consumer, boot, cell, flag, core, duty, hardware, level, mixed, doubt>>

-----------------------------------------------------------------------------
(***************************************************************************)
(* pwm_driver_apply, statement group by statement group, on the PWM's state *)
(* at its beginning.                                                        *)
(***************************************************************************)
At(c, here) == caller[c].at = here
Go(c, there) == caller' = [caller EXCEPT ![c].at = there]

Apply(c) ==
  /\ At(c, "apply")
  /\ caller' = [caller EXCEPT ![c].seen = core.enabled,
                              ![c].at = IF core.enabled THEN "wait" ELSE "clocks"]
  /\ UNCHANGED <<requests, consumer, boot, cell, flag, core, duty, hardware, history>>

\* pwm_clk_enable takes both clocks or none; pwm_sw_reset empties the FIFO.
Clocks(c) ==
  /\ At(c, "clocks")
  /\ clk' = clk + 1 /\ en' = FALSE /\ fifo' = <<>> /\ sample' = 0
  /\ Go(c, "sar")
  /\ UNCHANGED <<requests, consumer, boot, cell, flag, core, duty, errors, history>>
NoClocks(c) ==
  /\ At(c, "clocks") /\ errors < MaxErrors
  /\ errors' = errors + 1 /\ doubt' = TRUE
  /\ Return(c)
  /\ UNCHANGED <<requests, consumer, boot, cell, core, duty, clk, en, fifo, sample, mixed, raced, stopped>>

\* pwm_wait_fifo_slot sleeps for as many periods as there are words too many.
WaitFifoSlot(c) ==
  /\ At(c, "wait") /\ (Len(fifo) < 3 \/ ~en)
  /\ Go(c, "sar")
  /\ UNCHANGED <<requests, consumer, boot, cell, flag, core, duty, hardware, history>>

(***************************************************************************)
(* A smaller duty cycle follows the old one into an empty FIFO, so that the *)
(* period under way is completed with the old one; a full FIFO takes none.  *)
(***************************************************************************)
(* Mutant: the two writes are the other way round.                          *)
Samples_Swapped(d) == IF d < duty /\ fifo = <<>> THEN <<d, duty>> ELSE <<d>>
Samples(d) == IF d < duty /\ fifo = <<>> THEN <<duty, d>> ELSE <<d>>
WriteSamples(c) ==
  /\ At(c, "sar")
  /\ fifo' = SubSeq(fifo \o Samples(caller[c].want.duty), 1,
                    IF Len(fifo) < FifoWords - 1 THEN Len(fifo) + Len(Samples(caller[c].want.duty))
                                                 ELSE FifoWords)
  /\ Go(c, "control")
  /\ UNCHANGED <<requests, consumer, boot, cell, flag, core, duty, clk, en, sample, errors, history>>

Gated(c) == IF caller[c].want.enabled \/ clk = 0 THEN clk ELSE clk - 1
WriteControl(c) ==
  /\ At(c, "control")
  /\ duty' = caller[c].want.duty
  /\ en' = caller[c].want.enabled /\ clk' = Gated(c)
  /\ Go(c, "store")
  /\ UNCHANGED <<requests, consumer, boot, cell, flag, core, fifo, sample, errors, history>>

\* Back in pwm_apply_state.
Store(c) ==
  /\ At(c, "store")
  /\ core' = caller[c].want
  /\ Return(c)
  /\ UNCHANGED <<requests, consumer, boot, cell, duty, hardware, mixed, raced, stopped, doubt>>

\* The counter has reached the period: the next sample is taken, if there is one.
Consume ==
  /\ en /\ clk > 0 /\ fifo # <<>>
  /\ sample' = Head(fifo) /\ fifo' = Tail(fifo)
  /\ UNCHANGED <<requests, consumer, boot, cell, flag, caller, core, duty, clk, en, errors, history>>

Next ==
  \/ \E c \in Callers, l \in 0..(Scale + 1) : Ask(c, l)
  \/ \E c \in All : \/ Pass(c) \/ Call(c) \/ Apply(c) \/ Clocks(c) \/ NoClocks(c)
                    \/ WaitFifoSlot(c) \/ WriteSamples(c) \/ WriteControl(c) \/ Store(c)
  \/ Consume
Spec == Init /\ [][Next]_pwmVars

-----------------------------------------------------------------------------
Quiet == \A c \in All : ~Busy(c)
\* The sample the output comes to once the FIFO has drained.
Newest == IF fifo = <<>> THEN sample ELSE fifo[Len(fifo)]
OnOff(b) == IF b THEN 1 ELSE 0

(***************************************************************************)
(* set_pwm, thermal_fan_set_cur_state and pwm_bl_update_status down to the  *)
(* registers: when no request is under way, the PWM is off if the request   *)
(* that ended last was for 0 and on otherwise, however several callers'     *)
(* calls were mixed, unless one that leaves the PWM off overlapped another  *)
(* or a clock failed and the driver took the call for done.  Without        *)
(* callers that mix, the newest sample is that of the brightness asked for; *)
(* the character device and the fan, which exchange the arguments of        *)
(* pwm_config, are promised the level of the whole period only.             *)
(***************************************************************************)
OutputIsAsked ==
  Quiet /\ ~doubt /\ ~stopped =>
    /\ en = (level > 0)
    /\ consumer = "backlight" /\ level > 0 /\ ~mixed /\ ~raced => Newest = level
    /\ consumer # "backlight" /\ level = Scale /\ ~mixed /\ ~raced => Newest = Scale /\ core.period = Scale

(***************************************************************************)
(* pwm_driver_apply, get_state and probe: no register is touched while the  *)
(* clocks are off, unless calls overlap of which one leaves the PWM off.    *)
(* Unless calls overlap at all, the clocks are enabled once for a PWM that  *)
(* is on and not at all for one that is off - and once more, for ever, when *)
(* the boot loader had it running, against the comment of kernel_pwm.c:408, *)
(* by which the clock of a module that is off is off.                       *)
(***************************************************************************)
ClocksCounted ==
  /\ ~stopped => \A c \in All : caller[c].at \in {"wait", "sar", "control"} => clk > 0
  /\ ~raced /\ (\A c \in All : ~InCall(c)) => clk = OnOff(en) + OnOff(boot)
=============================================================================
