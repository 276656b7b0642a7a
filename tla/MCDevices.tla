------------------------------ MODULE MCDevices ------------------------------
(***************************************************************************)
(* The devices and what several processes do with them at a time: the       *)
(* converter (Adc), the disks in memory (RamDisk), the sensors (Sensors),   *)
(* the PWM and what hangs on it (Pwm), the LED and the beeper (Outputs).    *)
(* `which' says which of them a behaviour is of; the others rest.           *)
(***************************************************************************)
EXTENDS Adc, Sequences, TLC

CONSTANTS
  Cpus, Sectors, SectorValues, Shapes,                \* RamDisk
  Words, ConfigRegs, MaxSamples, SensorErrors,        \* Sensors
  Callers, Scale, Periods, ClockErrors, MaxRequests,  \* Pwm
  Bytes                                               \* Outputs

VARIABLES which,
          queued, ram, cursor, dLock, req, pc, seg, copied, sector, got, dSeen,       \* RamDisk
          driver, bound, written, sample, sPc, regs, data, since, out, shared, errors, \* Sensors
          consumer, boot, cell, flag, caller, core, clk, en, fifo, pSample, duty, pErrors, requests,
          level, mixed, raced, stopped, doubt,                                         \* Pwm
          chip, line, pins, brightness, job, last                                      \* Outputs

Disk == INSTANCE RamDisk WITH Values <- SectorValues, lock <- dLock, seen <- dSeen
Sensor == INSTANCE Sensors WITH Channels <- Words, MaxErrors <- SensorErrors, pc <- sPc
Wave == INSTANCE Pwm WITH MaxErrors <- ClockErrors, sample <- pSample, errors <- pErrors
Output == INSTANCE Outputs

ASSUME DiskAssumption ==
  /\ Sectors \in Nat \ {0} /\ Disk!Free \notin Cpus
  /\ Shapes \subseteq Seq(Nat \ {0}) \ {<<>>}
ASSUME SensorAssumption ==
  /\ Words \subseteq Nat /\ MaxSamples \in Nat /\ SensorErrors \in Nat
  /\ Sensor!Handler \notin Users
ASSUME OutputAssumption == Bytes \subseteq 0..255
ASSUME PwmAssumption ==
  /\ Scale \in Nat \ {0} /\ Periods \subseteq Nat \ {0} /\ ClockErrors \in Nat /\ MaxRequests \in Nat
  /\ Wave!Probe \notin Callers

\* The users of the converter and of the sensors, the processors and the callers
\* of a PWM user each do the same things as the others of their kind.
MCSymmetry == Permutations(Users) \cup Permutations(Cpus) \cup Permutations(Callers)

\* Once a call that leaves the PWM off has met another nothing is promised of it
\* any more (PwmObeys): such a behaviour is not followed further.
StillPromised == ~stopped

\* Requests of one segment of a sector or of two, and of two segments.
MCShapes == {<<1>>, <<2>>, <<1, 1>>}

diskVars == <<queued, ram, cursor, dLock, req, pc, seg, copied, sector, got, dSeen>>
sensorVars == <<driver, bound, written, sample, sPc, regs, data, since, out, shared, errors>>
pwmVars == <<consumer, boot, cell, flag, caller, core, clk, en, fifo, pSample, duty, pErrors, requests,
             level, mixed, raced, stopped, doubt>>
outputVars == <<chip, line, pins, brightness, job, last>>

NoAdc == feature = [mode |-> "normal", speed |-> "normal", rate |-> 0]
NoDisk == queued = FALSE
NoSensor == driver = "i2c_ap"
NoPwm == consumer = "consumer" /\ boot = FALSE /\ cell = 0
         /\ core = [enabled |-> FALSE, duty |-> 0, period |-> CHOOSE p \in Periods : TRUE]
NoOutput == chip = "led" /\ line = 0
MCInit ==
  /\ \/ which = "adc"    /\ NoDisk /\ NoSensor /\ NoPwm /\ NoOutput
     \/ which = "disk"   /\ NoAdc /\ NoSensor /\ NoPwm /\ NoOutput
     \/ which = "sensor" /\ NoAdc /\ NoDisk /\ NoPwm /\ NoOutput
     \/ which = "pwm"    /\ NoAdc /\ NoDisk /\ NoSensor /\ NoOutput
     \/ which = "output" /\ NoAdc /\ NoDisk /\ NoSensor /\ NoPwm
  /\ Init /\ Disk!Init /\ Sensor!Init /\ Wave!Init /\ Output!Init
AdcNext == which = "adc" /\ Next /\ UNCHANGED <<which, diskVars, sensorVars, pwmVars, outputVars>>
DiskNext == which = "disk" /\ Disk!Next /\ UNCHANGED <<which, vars, sensorVars, pwmVars, outputVars>>
SensorNext == which = "sensor" /\ Sensor!Next /\ UNCHANGED <<which, vars, diskVars, pwmVars, outputVars>>
PwmNext == which = "pwm" /\ Wave!Next /\ UNCHANGED <<which, vars, diskVars, sensorVars, outputVars>>
OutputNext == which = "output" /\ Output!Next /\ UNCHANGED <<which, vars, diskVars, sensorVars, pwmVars>>
MCNext == AdcNext \/ DiskNext \/ SensorNext \/ PwmNext \/ OutputNext
MCSpec == MCInit /\ [][MCNext]_<<which, vars, diskVars, sensorVars, pwmVars, outputVars>>

(* transfer, submit_bio, queue_rq: what is copied under one hold of the     *)
(* lock is copied as if nobody else were there, see RamDisk.                *)
UnitAtomic == Disk!UnitAtomic
(* The read functions of the four sensor drivers: what they return is no    *)
(* older than the call, and belongs together, see Sensors.                  *)
ReadIsFresh == Sensor!ReadIsFresh
(* pwm_driver_apply under its three users, get_state and probe: the output  *)
(* is what was asked last, registers are used while the clocks are on, and  *)
(* the clocks are counted right, as far as calls do not overlap, see        *)
(* OutputIsAsked and ClocksCounted in Pwm.                                  *)
PwmObeys == Wave!OutputIsAsked /\ Wave!ClocksCounted
(* led_write, led_ioctl, gpio_led_set and the beeper's: the line shows the  *)
(* last request, see Outputs.                                               *)
LineIsLast == Output!LineIsLast
=============================================================================
