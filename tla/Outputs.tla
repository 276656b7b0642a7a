------------------------------- MODULE Outputs -------------------------------
(***************************************************************************)
(* The two output lines: the LED (ch03-03/led and the same file in ch03-04) *)
(* with a character device, an attribute and an LED class device, and the   *)
(* beeper (ch03-03/miscbeep) with a misc device.  Calls of several          *)
(* processes interleave between the copying of the value and its use.       *)
(***************************************************************************)
EXTENDS Naturals

CONSTANTS Users,
          Bytes   \* the bytes that are written, a set of numbers below 256

VARIABLES chip,       \* "led" or "beep"
          line,       \* the value of the GPIO
          pins,       \* the pin state that was selected last
          brightness, \* what the LED class remembers
          job,        \* of every process: the call it is in
          last        \* history: the last request that means on or off
outputVars == <<chip, line, pins, brightness, job, last>>

Values == {0, 1}     \* LED_OFF, LED_ON, and the beeper's
Zero == 48           \* '0'
Free == [door |-> "none", data |-> 0]

Init ==
  /\ chip \in {"led", "beep"} /\ line \in Values /\ pins = 0 /\ brightness = 0
  /\ job = [u \in Users |-> Free] /\ last = [door |-> "none", data |-> line]

(***************************************************************************)
(* The ways in.  write takes a number or a digit; ioctl only 0 and 1; the   *)
(* LED class any brightness; the attribute selects the pins.  The beeper    *)
(* does not look at the count: a write of nothing uses a byte that was      *)
(* never set.                                                               *)
(***************************************************************************)
Enter(u, door, data) ==
  /\ job[u] = Free
  /\ \E d \in data : job' = [job EXCEPT ![u] = [door |-> door, data |-> d]]
  /\ UNCHANGED <<chip, line, pins, brightness, last>>

led_write(u)    == chip = "led" /\ Enter(u, "write", Bytes)
led_ioctl(u)    == chip = "led" /\ Enter(u, "ioctl", Values)
gpio_led_set(u) == chip = "led" /\ Enter(u, "class", Values)
led_store(u)    == chip = "led" /\ Enter(u, "store", Values)
beep_write(u)   == chip = "beep" /\ (Enter(u, "write", Bytes) \/ Enter(u, "empty", Bytes))
beep_ioctl(u)   == chip = "beep" /\ Enter(u, "ioctl", Values)

(* Mutant: the digit 0 is not taken for a digit.                            *)
Converted_Digits(b) == IF b > Zero THEN b - Zero ELSE b
Converted(b) == IF b >= Zero THEN b - Zero ELSE b
Status(j) == IF j.door \in {"write", "empty"} THEN Converted(j.data) ELSE j.data
\* What a caller may write: the numbers and the digits 0 and 1.
Meant == {0, 1, Zero, Zero + 1}
\* Other values are reported, and set nothing.
Valid(v) == v \in Values

Set(u) ==
  /\ line' = IF Valid(Status(job[u])) THEN Status(job[u]) ELSE line
  /\ last' = IF job[u].data \in Meant THEN job[u] ELSE last
  /\ job' = [job EXCEPT ![u] = Free]
  /\ UNCHANGED <<chip, pins>>
led_hardware_set(u) ==
  /\ chip = "led" /\ job[u].door \in {"write", "ioctl", "class"} /\ Set(u)
  /\ brightness' = IF job[u].door = "class" THEN job[u].data ELSE brightness
beep_hardware_set(u) ==
  /\ chip = "beep" /\ job[u].door \in {"write", "empty", "ioctl"} /\ Set(u)
  /\ UNCHANGED brightness

Store(u) ==
  /\ job[u].door = "store"
  /\ pins' = job[u].data /\ job' = [job EXCEPT ![u] = Free]
  /\ UNCHANGED <<chip, line, brightness, last>>

Next == \E u \in Users :
  \/ led_write(u) \/ led_ioctl(u) \/ gpio_led_set(u) \/ led_store(u)
  \/ beep_write(u) \/ beep_ioctl(u)
  \/ led_hardware_set(u) \/ beep_hardware_set(u) \/ Store(u)
Spec == Init /\ [][Next]_outputVars

(***************************************************************************)
(* led_write, led_ioctl, gpio_led_set and their copies for the beeper:      *)
(* through whichever door the last request came, the line shows it, the     *)
(* digits 0 and 1 for off and on like the numbers; and the LED class knows  *)
(* it if it came through the class.                                         *)
(***************************************************************************)
LineIsLast ==
  /\ line = 1 <=> last.data \in {1, Zero + 1}
  /\ last.door = "class" => brightness = line
=============================================================================
