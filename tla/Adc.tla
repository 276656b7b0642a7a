--------------------------------- MODULE Adc ---------------------------------
(***************************************************************************)
(* ch03-09/iio_adc/kernel_iio_adc.c (and its copy in ch03-14): one converter *)
(* behind registers, read by users one conversion at a time or, with the    *)
(* buffer enabled, without end.  A read and a change of the conversion mode *)
(* hold the device's lock; a change of the sampling rate holds nothing, so  *)
(* that its read of the registers and its write can lie around another's.   *)
(* The board has one core: the interrupt handler is one step.               *)
(***************************************************************************)
EXTENDS Naturals, FiniteSets

CONSTANTS Users, Channels, Modes, Rates, NoOne, None
ASSUME AdcAssumption == 0 \in Rates /\ NoOne \notin Users /\ None \notin Channels

VARIABLES feature,   \* info->adc_feature: mode, the speed computed from it, rate
          cfg, gc,   \* the registers CFG (the fields of feature) and GC (bits set)
          conv,      \* the channel under conversion
          done,      \* info->completion
          value,     \* info->value: the channel it was converted from
          scan,      \* the channel of the enabled buffer
          lock,      \* indio_dev->mlock
          at, arg, seen,  \* per user: where it is, what for, the registers it read
          asleep,    \* suspended
          \* histories
          stray,     \* a conversion nobody waits for is under way, or was when
                     \* the read under way, or the buffer, began
          result,    \* <<channel asked for, channel converted>> of the last read or sample
          touched    \* somebody came between a read of the registers and its
                     \* write, or changed the mode of a running buffer

hw    == <<cfg, gc, conv, done, value>>
hist  == <<stray, result, touched>>
vars  == <<feature, hw, scan, lock, at, arg, seen, asleep, hist>>

\* What vf610_adc_sample_set makes of the features.
Sampled(r, f) == [r EXCEPT !.speed = f.speed, !.rate = f.rate]
Averaged(g, f) == IF f.rate = 0 THEN g \ {"AVGEN"} ELSE g \cup {"AVGEN"}
\* vf610_adc_cfg_post_set: high speed and low power together, for calibration.
PostSet == [mode |-> "calibration", speed |-> "reset", rate |-> 0]
\* vf610_adc_hw_init from beginning to end.
HwInit(f) == [cfg |-> [Sampled(PostSet, f) EXCEPT !.mode = f.mode], gc |-> Averaged({}, f)]

Changing == {u \in Users : at[u] \in {"sample", "sampled", "config", "configured", "rate", "bits"}}

Init ==
  /\ feature \in {[mode |-> m, speed |-> m, rate |-> r] : m \in Modes, r \in Rates}
  /\ cfg = HwInit(feature).cfg /\ gc = HwInit(feature).gc
  /\ conv = None /\ done = FALSE /\ value = None
  /\ scan = None /\ lock = NoOne /\ asleep = FALSE
  /\ at = [u \in Users |-> "idle"] /\ arg = [u \in Users |-> None]
  /\ seen = [u \in Users |-> <<>>]
  /\ stray = FALSE /\ result = <<None, None>> /\ touched = FALSE

Goes(u, from, to) == at[u] = from /\ at' = [at EXCEPT ![u] = to]
Idle(u) == at[u] = "idle" /\ ~asleep
Locks(u)  == lock = NoOne /\ lock' = u
Unlocks   == lock' = NoOne
Looks(u)  == seen' = [seen EXCEPT ![u] = [cfg |-> cfg, gc |-> gc]]
Forgets(u) == seen' = [seen EXCEPT ![u] = <<>>]

-----------------------------------------------------------------------------
(***************************************************************************)
(* vf610_read_raw: with the lock held, forget an old completion, start the  *)
(* conversion, and wait for it, for the timeout or for a signal.            *)
(***************************************************************************)
(* Mutant: the completion of an earlier conversion is not forgotten.        *)
ReadRaw_OldCompletion(u, ch) ==
  /\ Idle(u) /\ Locks(u)
  /\ scan = None
  /\ at' = [at EXCEPT ![u] = "read"] /\ arg' = [arg EXCEPT ![u] = ch]
  /\ stray' = (conv # None)
  /\ result' = <<None, None>>
  /\ UNCHANGED <<feature, hw, scan, seen, asleep, touched>>

ReadRaw(u, ch) ==
  /\ Idle(u) /\ Locks(u)
  /\ scan = None
  /\ done' = FALSE
  /\ at' = [at EXCEPT ![u] = "read"] /\ arg' = [arg EXCEPT ![u] = ch]
  /\ stray' = (conv # None)
  /\ result' = <<None, None>>
  /\ UNCHANGED <<feature, cfg, gc, conv, value, scan, seen, asleep, touched>>

\* Writing HC0 abandons the conversion under way.
ReadStart(u) ==
  /\ Goes(u, "read", "waiting")
  /\ conv' = arg[u]
  /\ UNCHANGED <<feature, cfg, gc, done, value, scan, lock, arg, seen, asleep, hist>>

ReadDone(u) ==
  /\ Goes(u, "waiting", "idle") /\ done
  /\ done' = FALSE /\ Unlocks
  /\ result' = <<arg[u], value>> /\ arg' = [arg EXCEPT ![u] = None]
  /\ UNCHANGED <<feature, cfg, gc, conv, value, scan, seen, asleep, stray, touched>>

\* -ETIMEDOUT or -ERESTARTSYS: the conversion is left to itself.
ReadCut(u) ==
  /\ Goes(u, "waiting", "idle") /\ ~done
  /\ Unlocks /\ arg' = [arg EXCEPT ![u] = None]
  /\ UNCHANGED <<feature, hw, scan, seen, asleep, hist>>

Isr ==
  /\ conv # None
  /\ value' = conv
  /\ conv' = IF "ADCON" \in gc THEN conv ELSE None
  /\ IF scan # None
     THEN result' = <<scan, conv>> /\ UNCHANGED done
     ELSE done' = TRUE /\ UNCHANGED result
  /\ UNCHANGED <<feature, cfg, gc, scan, lock, at, arg, seen, asleep, stray, touched>>

-----------------------------------------------------------------------------
(***************************************************************************)
(* vf610_set_conversion_mode: the features, then vf610_adc_hw_init, which   *)
(* resets both registers and reads and writes them twice.                   *)
(***************************************************************************)
Disturbs(u) == touched' = (touched \/ scan # None \/ Changing # {})

SetMode(u, m) ==
  /\ Idle(u) /\ Locks(u)
  /\ feature' = [feature EXCEPT !.mode = m, !.speed = m]
  /\ cfg' = PostSet /\ gc' = {}
  /\ at' = [at EXCEPT ![u] = "sample"]
  /\ Disturbs(u)
  /\ UNCHANGED <<conv, done, value, scan, arg, seen, asleep, stray, result>>

SampleRead(u) ==
  /\ Goes(u, "sample", "sampled") /\ Looks(u)
  /\ UNCHANGED <<feature, hw, scan, lock, arg, asleep, hist>>

SampleWrite(u) ==
  /\ Goes(u, "sampled", "config")
  /\ cfg' = Sampled(seen[u].cfg, feature) /\ gc' = Averaged(seen[u].gc, feature) /\ Forgets(u)
  /\ UNCHANGED <<feature, conv, done, value, scan, lock, arg, asleep, hist>>

ConfigRead(u) ==
  /\ Goes(u, "config", "configured") /\ Looks(u)
  /\ UNCHANGED <<feature, hw, scan, lock, arg, asleep, hist>>

(* Mutant: the mode is not put back after calibration.                      *)
ConfigWrite_Forgets(u) ==
  /\ Goes(u, "configured", "idle")
  /\ cfg' = seen[u].cfg
  /\ Unlocks /\ Forgets(u)
  /\ UNCHANGED <<feature, gc, conv, done, value, scan, arg, asleep, hist>>

ConfigWrite(u) ==
  /\ Goes(u, "configured", "idle")
  /\ cfg' = [seen[u].cfg EXCEPT !.mode = feature.mode]
  /\ Unlocks /\ Forgets(u)
  /\ UNCHANGED <<feature, gc, conv, done, value, scan, arg, asleep, hist>>

\* vf610_write_raw: the rate, then vf610_adc_sample_set without the lock.
WriteRaw(u, r) ==
  /\ Idle(u)
  /\ feature' = [feature EXCEPT !.rate = r]
  /\ Looks(u)
  /\ at' = [at EXCEPT ![u] = "rate"]
  /\ touched' = (touched \/ Changing # {})
  /\ UNCHANGED <<hw, scan, lock, arg, asleep, stray, result>>

RateWrite(u) ==
  /\ Goes(u, "rate", "idle")
  /\ cfg' = Sampled(seen[u].cfg, feature) /\ gc' = Averaged(seen[u].gc, feature) /\ Forgets(u)
  /\ UNCHANGED <<feature, conv, done, value, scan, lock, arg, asleep, hist>>

-----------------------------------------------------------------------------
(***************************************************************************)
(* The buffer is enabled and disabled under the lock; the mode of the       *)
(* device has changed before vf610_adc_buffer_postenable runs.              *)
(***************************************************************************)
PostEnable(u, ch) ==
  /\ Idle(u) /\ Locks(u)
  /\ scan = None
  /\ scan' = ch /\ Looks(u)
  /\ stray' = (conv # None)
  /\ at' = [at EXCEPT ![u] = "bits"]
  /\ touched' = (touched \/ Changing # {})
  /\ result' = <<None, None>>
  /\ UNCHANGED <<feature, hw, arg, asleep>>

EnableBits(u) ==
  /\ Goes(u, "bits", "idle") /\ Unlocks
  /\ gc' = seen[u].gc \cup {"ADCON"} /\ conv' = scan /\ Forgets(u)
  /\ UNCHANGED <<feature, cfg, done, value, scan, arg, asleep, hist>>

\* vf610_adc_buffer_predisable, one step: nobody's bits are lost by splitting it
\* that are not lost by a change of the rate around it.
PreDisable(u) ==
  /\ Idle(u) /\ lock = NoOne
  /\ scan # None /\ scan' = None
  /\ gc' = gc \ {"ADCON"} /\ conv' = None
  /\ touched' = (touched \/ Changing # {})
  /\ UNCHANGED <<feature, cfg, done, value, lock, at, arg, seen, asleep, stray, result>>

\* Suspend and resume, with every user frozen outside the driver.
Suspend ==
  /\ ~asleep /\ \A u \in Users : at[u] = "idle"
  /\ asleep' = TRUE /\ conv' = None
  /\ UNCHANGED <<feature, cfg, gc, done, value, scan, lock, at, arg, seen, hist>>

Resume ==
  /\ asleep /\ asleep' = FALSE
  /\ cfg' = HwInit(feature).cfg /\ gc' = HwInit(feature).gc
  /\ touched' = (touched \/ scan # None)
  /\ UNCHANGED <<feature, conv, done, value, scan, lock, at, arg, seen, stray, result>>

Next ==
  \/ \E u \in Users :
       \/ \E ch \in Channels : ReadRaw(u, ch) \/ PostEnable(u, ch)
       \/ \E m \in Modes : SetMode(u, m)
       \/ \E r \in Rates : WriteRaw(u, r)
       \/ ReadStart(u) \/ ReadDone(u) \/ ReadCut(u)
       \/ SampleRead(u) \/ SampleWrite(u) \/ ConfigRead(u) \/ ConfigWrite(u)
       \/ RateWrite(u) \/ EnableBits(u) \/ PreDisable(u)
  \/ Isr \/ Suspend \/ Resume

Spec == Init /\ [][Next]_vars

-----------------------------------------------------------------------------
\* A copy of the registers CFG and GC.
Registers == [cfg : [mode : Modes \cup {"calibration"}, speed : Modes \cup {"reset"}, rate : Rates],
              gc : SUBSET {"ADCON", "AVGEN"}]

TypeOK ==
  /\ feature \in [mode : Modes, speed : Modes, rate : Rates]
  /\ [cfg |-> cfg, gc |-> gc] \in Registers
  /\ {conv, value, scan} \subseteq Channels \cup {None}
  /\ lock \in Users \cup {NoOne}
  /\ at \in [Users -> {"idle", "read", "waiting", "sample", "sampled", "config", "configured",
                       "rate", "bits"}]
  /\ arg \in [Users -> Channels \cup {None}] /\ seen \in [Users -> Registers \cup {<<>>}]
  /\ \A u \in Users : at[u] \in {"sampled", "configured", "rate", "bits"} => seen[u] \in Registers
  /\ done \in BOOLEAN /\ asleep \in BOOLEAN /\ stray \in BOOLEAN /\ touched \in BOOLEAN

(***************************************************************************)
(* info->value and the completion are shared by all reads: a read returns   *)
(* what was converted from its own channel, and a sample of the buffer      *)
(* comes from the buffer's channel, unless a conversion that a timeout or a *)
(* signal had left to itself was still under way when it began.             *)
(***************************************************************************)
ReadsOwnChannel == stray \/ result[1] = result[2]

(***************************************************************************)
(* vf610_adc_sample_set, vf610_adc_cfg_set and the buffer's functions all    *)
(* read a register, change some bits and write it back: when nobody is in   *)
(* between, the registers hold the mode, the speed and the rate that the    *)
(* driver reports, and convert continuously exactly for a buffer.  Changes  *)
(* that overlap, and a change of mode or a resume with the buffer enabled,  *)
(* break it (touched).                                                      *)
(***************************************************************************)
RegistersMatch ==
  Changing = {} /\ ~touched
     => /\ cfg = feature
        /\ ("AVGEN" \in gc) = (feature.rate # 0)
        /\ ("ADCON" \in gc) = (scan # None)
=============================================================================
