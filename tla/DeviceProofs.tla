---------------------------- MODULE DeviceProofs ----------------------------
(***************************************************************************)
(* Proofs about the devices of MCDevices, for every value of the constants: *)
(* the converter (Adc), whose reads are of their own channel and whose      *)
(* registers hold what the driver reports, then the disks, the sensors, the *)
(* PWM with its users, the LED and the beeper in the composition.           *)
(***************************************************************************)
EXTENDS MCDevices, SequenceTheorems, WellFoundedInduction, TLAPS

\* What is done with the device's lock held.
Locked == {"read", "waiting", "sample", "sampled", "config", "configured", "bits"}

\* The lock is held by the one who is in there.
LockHeld == \A u \in Users : at[u] \in Locked => lock = u

\* A reader finds no buffer enabled, and no conversion but its own.
ReaderAlone ==
  \A u \in Users :
    /\ at[u] \in {"read", "waiting"} => scan = None
    /\ at[u] = "read" /\ ~stray => conv = None /\ ~done
    /\ at[u] = "waiting" /\ ~stray => /\ conv \in {None, arg[u]}
                                      /\ done => value = arg[u]

\* An enabled buffer has no conversion but its own.
ScanAlone == scan # None /\ ~stray => conv \in {None, scan}

ReadInv == TypeOK /\ LockHeld /\ ReaderAlone /\ ScanAlone /\ ReadsOwnChannel

(* vf610_adc_sample_set in the mode that is set already leaves the features  *)
(* in the register.                                                        *)
LEMMA SameModeSampled ==
  ASSUME NEW old \in [mode : Modes \cup {"calibration"}, speed : Modes \cup {"reset"}, rate : Rates],
         NEW f \in [mode : Modes, speed : Modes, rate : Rates], old.mode = f.mode
  PROVE  Sampled(old, f) = f
<1>1. old = [mode |-> old.mode, speed |-> old.speed, rate |-> old.rate]
  OBVIOUS
<1>. DEFINE a == [old EXCEPT !.speed = f.speed]
<1>2. a = [mode |-> old.mode, speed |-> f.speed, rate |-> old.rate]
  OBVIOUS
<1>. HIDE DEF a
<1>3. [a EXCEPT !.rate = f.rate] = [mode |-> f.mode, speed |-> f.speed, rate |-> f.rate]
  BY <1>2
<1>4. f = [mode |-> f.mode, speed |-> f.speed, rate |-> f.rate]
  OBVIOUS
<1>. QED  BY <1>3, <1>4 DEF a, Sampled

(* vf610_adc_hw_init leaves the registers with the features.                *)
LEMMA Initialised ==
  ASSUME NEW f \in [mode : Modes, speed : Modes, rate : Rates]
  PROVE  /\ HwInit(f).cfg = f
         /\ HwInit(f).gc = IF f.rate = 0 THEN {} ELSE {"AVGEN"}
  BY DEF HwInit, PostSet, Sampled, Averaged

(* The driver starts with the registers it has initialised.                 *)
LEMMA Starts ==
  ASSUME Init
  PROVE  TypeOK /\ cfg = feature /\ gc = IF feature.rate = 0 THEN {} ELSE {"AVGEN"}
<1>1. feature \in [mode : Modes, speed : Modes, rate : Rates]
  BY DEF Init
<1>2. cfg = feature /\ gc = IF feature.rate = 0 THEN {} ELSE {"AVGEN"}
  BY <1>1, Initialised DEF Init
<1>3. [cfg |-> cfg, gc |-> gc] \in Registers
  BY <1>1, <1>2 DEF Registers
<1>4. TypeOK
  BY <1>1, <1>3 DEF Init, TypeOK
<1>. QED  BY <1>2, <1>4

(* Every variable keeps its type in each step.                              *)
LEMMA TypeStep ==
  ASSUME TypeOK, [Next]_vars
  PROVE  TypeOK'
<1>. USE AdcAssumption DEF TypeOK, Registers, hw, hist
<1>1. ASSUME NEW u \in Users, NEW ch \in Channels, ReadRaw(u, ch) PROVE TypeOK'
  BY <1>1 DEF ReadRaw, Idle, Locks
<1>2. ASSUME NEW u \in Users, NEW ch \in Channels, PostEnable(u, ch) PROVE TypeOK'
  BY <1>2 DEF PostEnable, Idle, Locks, Looks
<1>3. ASSUME NEW u \in Users, NEW m \in Modes, SetMode(u, m) PROVE TypeOK'
  BY <1>3 DEF SetMode, Idle, Locks, Disturbs, PostSet
<1>4. ASSUME NEW u \in Users, NEW r \in Rates, WriteRaw(u, r) PROVE TypeOK'
  BY <1>4 DEF WriteRaw, Idle, Looks
<1>5. ASSUME NEW u \in Users, ReadStart(u) PROVE TypeOK'
  BY <1>5 DEF ReadStart, Goes
<1>6. ASSUME NEW u \in Users, ReadDone(u) PROVE TypeOK'
  BY <1>6 DEF ReadDone, Goes, Unlocks
<1>7. ASSUME NEW u \in Users, ReadCut(u) PROVE TypeOK'
  BY <1>7 DEF ReadCut, Goes, Unlocks
<1>8. ASSUME NEW u \in Users, SampleRead(u) \/ ConfigRead(u) PROVE TypeOK'
  BY <1>8 DEF SampleRead, ConfigRead, Goes, Looks
<1>9. ASSUME NEW u \in Users, SampleWrite(u) PROVE TypeOK'
  BY <1>9 DEF SampleWrite, Goes, Forgets, Sampled, Averaged
<1>10. ASSUME NEW u \in Users, ConfigWrite(u) PROVE TypeOK'
  BY <1>10 DEF ConfigWrite, Goes, Unlocks, Forgets
<1>11. ASSUME NEW u \in Users, RateWrite(u) PROVE TypeOK'
  BY <1>11 DEF RateWrite, Goes, Forgets, Sampled, Averaged
<1>12. ASSUME NEW u \in Users, EnableBits(u) PROVE TypeOK'
  BY <1>12 DEF EnableBits, Goes, Unlocks, Forgets
<1>13. ASSUME NEW u \in Users, PreDisable(u) PROVE TypeOK'
  BY <1>13 DEF PreDisable, Idle
<1>14. CASE Isr
  BY <1>14 DEF Isr
<1>15. CASE Suspend
  BY <1>15 DEF Suspend
<1>16. CASE Resume
  BY <1>16 DEF Resume, HwInit, PostSet, Sampled, Averaged
<1>17. CASE UNCHANGED vars
  BY <1>17 DEF vars
<1>. QED
  BY <1>1, <1>2, <1>3, <1>4, <1>5, <1>6, <1>7, <1>8, <1>9, <1>10, <1>11, <1>12, <1>13, <1>14,
     <1>15, <1>16, <1>17 DEF Next

(* Each step leaves the reads and the buffer with a conversion of their own.*)
LEMMA ReadStep ==
  ASSUME ReadInv, [Next]_vars
  PROVE  ReadInv'
<1>0. TypeOK'
  BY TypeStep DEF ReadInv
<1>a. ASSUME lock = NoOne PROVE \A u \in Users : at[u] \notin Locked
  BY <1>a, AdcAssumption DEF ReadInv, LockHeld
<1>. SUFFICES LockHeld' /\ ReaderAlone' /\ ScanAlone' /\ ReadsOwnChannel'
  BY <1>0 DEF ReadInv
<1>. USE AdcAssumption DEF ReadInv, TypeOK, hw, hist, Locked, LockHeld, ReaderAlone, ScanAlone, ReadsOwnChannel
<1>1. ASSUME NEW u \in Users, NEW ch \in Channels, ReadRaw(u, ch)
      PROVE  LockHeld' /\ ReaderAlone' /\ ScanAlone' /\ ReadsOwnChannel'
  BY <1>1, <1>a DEF ReadRaw, Idle, Locks
<1>2. ASSUME NEW u \in Users, NEW ch \in Channels, PostEnable(u, ch)
      PROVE  LockHeld' /\ ReaderAlone' /\ ScanAlone' /\ ReadsOwnChannel'
  BY <1>2, <1>a DEF PostEnable, Idle, Locks, Looks
<1>3. ASSUME NEW u \in Users, NEW m \in Modes, SetMode(u, m)
      PROVE  LockHeld' /\ ReaderAlone' /\ ScanAlone' /\ ReadsOwnChannel'
  BY <1>3, <1>a DEF SetMode, Idle, Locks, Disturbs
<1>4. ASSUME NEW u \in Users, NEW r \in Rates, WriteRaw(u, r)
      PROVE  LockHeld' /\ ReaderAlone' /\ ScanAlone' /\ ReadsOwnChannel'
  BY <1>4 DEF WriteRaw, Idle, Looks
<1>5. ASSUME NEW u \in Users, ReadStart(u)
      PROVE  LockHeld' /\ ReaderAlone' /\ ScanAlone' /\ ReadsOwnChannel'
  BY <1>5 DEF ReadStart, Goes
<1>6. ASSUME NEW u \in Users, ReadDone(u)
      PROVE  LockHeld' /\ ReaderAlone' /\ ScanAlone' /\ ReadsOwnChannel'
  BY <1>6 DEF ReadDone, Goes, Unlocks
<1>7. ASSUME NEW u \in Users, ReadCut(u)
      PROVE  LockHeld' /\ ReaderAlone' /\ ScanAlone' /\ ReadsOwnChannel'
  BY <1>7 DEF ReadCut, Goes, Unlocks
<1>8. ASSUME NEW u \in Users, SampleRead(u) \/ ConfigRead(u)
      PROVE  LockHeld' /\ ReaderAlone' /\ ScanAlone' /\ ReadsOwnChannel'
  BY <1>8 DEF SampleRead, ConfigRead, Goes
<1>9. ASSUME NEW u \in Users, SampleWrite(u)
      PROVE  LockHeld' /\ ReaderAlone' /\ ScanAlone' /\ ReadsOwnChannel'
  BY <1>9 DEF SampleWrite, Goes
<1>10. ASSUME NEW u \in Users, ConfigWrite(u)
       PROVE  LockHeld' /\ ReaderAlone' /\ ScanAlone' /\ ReadsOwnChannel'
  BY <1>10 DEF ConfigWrite, Goes, Unlocks
<1>11. ASSUME NEW u \in Users, RateWrite(u)
       PROVE  LockHeld' /\ ReaderAlone' /\ ScanAlone' /\ ReadsOwnChannel'
  BY <1>11 DEF RateWrite, Goes
<1>12. ASSUME NEW u \in Users, EnableBits(u)
       PROVE  LockHeld' /\ ReaderAlone' /\ ScanAlone' /\ ReadsOwnChannel'
  BY <1>12 DEF EnableBits, Goes, Unlocks
<1>13. ASSUME NEW u \in Users, PreDisable(u)
       PROVE  LockHeld' /\ ReaderAlone' /\ ScanAlone' /\ ReadsOwnChannel'
  BY <1>13, <1>a DEF PreDisable, Idle
<1>14. CASE Isr
  BY <1>14 DEF Isr
<1>15. CASE Suspend
  BY <1>15 DEF Suspend
<1>16. CASE Resume
  BY <1>16 DEF Resume
<1>17. CASE UNCHANGED vars
  BY <1>17 DEF vars
<1>. QED
  BY <1>1, <1>2, <1>3, <1>4, <1>5, <1>6, <1>7, <1>8, <1>9, <1>10, <1>11, <1>12, <1>13, <1>14,
     <1>15, <1>16, <1>17 DEF Next

-----------------------------------------------------------------------------
\* Where the registers are on the way from one set of features to the next.
Stage(u) ==
  /\ at[u] = "sample" => cfg = PostSet /\ gc = {}
  /\ at[u] = "sampled" => seen[u] = [cfg |-> PostSet, gc |-> {}]
  /\ at[u] \in {"config", "configured"} =>
       /\ ("AVGEN" \in gc) = (feature.rate # 0)
       /\ "ADCON" \notin gc
  /\ at[u] = "config" => cfg.speed = feature.speed /\ cfg.rate = feature.rate
  /\ at[u] = "configured" => seen[u].cfg.speed = feature.speed /\ seen[u].cfg.rate = feature.rate
  /\ at[u] = "rate" => /\ seen[u].cfg.mode = feature.mode
                       /\ ("ADCON" \in seen[u].gc) = (scan # None)
  /\ at[u] = "bits" => /\ cfg = feature /\ scan # None
                       /\ ("AVGEN" \in seen[u].gc) = (feature.rate # 0)
  /\ at[u] \in {"sample", "sampled", "config", "configured"} => scan = None

\* Unless somebody came between, one user at a time is on that way.
OneChanges == ~touched => \A u \in Changing : Stage(u) /\ \A v \in Changing : v = u

\* Suspend waits until everybody is outside the driver.
Frozen == asleep => \A u \in Users : at[u] = "idle"

ModeInv == TypeOK /\ OneChanges /\ Frozen /\ RegistersMatch

(* Each step takes the registers to the next stage, or leaves them.         *)
LEMMA ModeStep ==
  ASSUME ModeInv, [Next]_vars
  PROVE  ModeInv'
<1>0. TypeOK'
  BY TypeStep DEF ModeInv
<1>. SUFFICES OneChanges' /\ Frozen' /\ RegistersMatch'
  BY <1>0 DEF ModeInv
<1>. USE AdcAssumption DEF ModeInv, TypeOK, Registers, hw, hist
<1>1. ASSUME NEW u \in Users, NEW ch \in Channels, ReadRaw(u, ch)
      PROVE  OneChanges' /\ Frozen' /\ RegistersMatch'
  BY <1>1 DEF ReadRaw, Idle, Locks, Changing, Stage, OneChanges, Frozen, RegistersMatch
<1>2. ASSUME NEW u \in Users, NEW ch \in Channels, PostEnable(u, ch)
      PROVE  OneChanges' /\ Frozen' /\ RegistersMatch'
  <2>1. ASSUME ~touched' PROVE ~touched /\ Changing = {}
    BY <1>2, <2>1 DEF PostEnable, Idle, Locks, Looks, Disturbs, Changing
  <2>2. u \in Changing' /\ (~touched' => \A v \in Changing' : v = u)
    BY <1>2, <2>1 DEF PostEnable, Idle, Locks, Looks, Changing
  <2>3. ~touched' => Stage(u)'
    BY <1>2, <2>1 DEF PostEnable, Idle, Locks, Looks, Changing, Stage, OneChanges, RegistersMatch
  <2>4. OneChanges'
    <3>. SUFFICES ASSUME ~touched', NEW v \in Changing'
                  PROVE  Stage(v)' /\ \A w \in Changing' : w = v
      BY DEF OneChanges
    <3>1. v = u
      BY <2>2
    <3>. QED  BY <2>2, <2>3, <3>1
  <2>5. RegistersMatch'
    BY <2>2, Zenon DEF RegistersMatch
  <2>6. Frozen'
    BY <1>2 DEF PostEnable, Idle, Locks, Looks, Frozen
  <2>. QED  BY <2>4, <2>5, <2>6
<1>3. ASSUME NEW u \in Users, NEW m \in Modes, SetMode(u, m)
      PROVE  OneChanges' /\ Frozen' /\ RegistersMatch'
  <2>1. ASSUME ~touched' PROVE ~touched /\ Changing = {}
    BY <1>3, <2>1 DEF SetMode, Idle, Locks, PostSet, Disturbs, Changing
  <2>2. u \in Changing' /\ (~touched' => \A v \in Changing' : v = u)
    BY <1>3, <2>1 DEF SetMode, Disturbs, Idle, Locks, PostSet, Changing
  <2>3. ~touched' => Stage(u)'
    BY <1>3, <2>1 DEF SetMode, Disturbs, Idle, Locks, PostSet, Changing, Stage, OneChanges, RegistersMatch
  <2>4. OneChanges'
    <3>. SUFFICES ASSUME ~touched', NEW v \in Changing'
                  PROVE  Stage(v)' /\ \A w \in Changing' : w = v
      BY DEF OneChanges
    <3>1. v = u
      BY <2>2
    <3>. QED  BY <2>2, <2>3, <3>1
  <2>5. RegistersMatch'
    BY <2>2, Zenon DEF RegistersMatch
  <2>6. Frozen'
    BY <1>3 DEF SetMode, Disturbs, Idle, Locks, PostSet, Frozen
  <2>. QED  BY <2>4, <2>5, <2>6
<1>4. ASSUME NEW u \in Users, NEW r \in Rates, WriteRaw(u, r)
      PROVE  OneChanges' /\ Frozen' /\ RegistersMatch'
  <2>1. ASSUME ~touched' PROVE ~touched /\ Changing = {}
    BY <1>4, <2>1 DEF WriteRaw, Idle, Looks, Disturbs, Changing
  <2>2. u \in Changing' /\ (~touched' => \A v \in Changing' : v = u)
    BY <1>4, <2>1 DEF WriteRaw, Idle, Looks, Changing
  <2>3. ~touched' => Stage(u)'
    BY <1>4, <2>1 DEF WriteRaw, Idle, Looks, Changing, Stage, OneChanges, RegistersMatch
  <2>4. OneChanges'
    <3>. SUFFICES ASSUME ~touched', NEW v \in Changing'
                  PROVE  Stage(v)' /\ \A w \in Changing' : w = v
      BY DEF OneChanges
    <3>1. v = u
      BY <2>2
    <3>. QED  BY <2>2, <2>3, <3>1
  <2>5. RegistersMatch'
    BY <2>2, Zenon DEF RegistersMatch
  <2>6. Frozen'
    BY <1>4 DEF WriteRaw, Idle, Looks, Frozen
  <2>. QED  BY <2>4, <2>5, <2>6
<1>5. ASSUME NEW u \in Users, ReadStart(u)
      PROVE  OneChanges' /\ Frozen' /\ RegistersMatch'
  BY <1>5 DEF ReadStart, Goes, Changing, Stage, OneChanges, Frozen, RegistersMatch
<1>6. ASSUME NEW u \in Users, ReadDone(u)
      PROVE  OneChanges' /\ Frozen' /\ RegistersMatch'
  BY <1>6 DEF ReadDone, Goes, Unlocks, Changing, Stage, OneChanges, Frozen, RegistersMatch
<1>7. ASSUME NEW u \in Users, ReadCut(u)
      PROVE  OneChanges' /\ Frozen' /\ RegistersMatch'
  BY <1>7 DEF ReadCut, Goes, Unlocks, Changing, Stage, OneChanges, Frozen, RegistersMatch
<1>8. ASSUME NEW u \in Users, SampleRead(u)
      PROVE  OneChanges' /\ Frozen' /\ RegistersMatch'
  <2>1. Changing' = Changing /\ touched' = touched /\ u \in Changing
    BY <1>8 DEF SampleRead, Goes, Looks, Changing
  <2>2. ASSUME ~touched PROVE Stage(u)'
    <3>1. Stage(u)
      BY <2>1, <2>2 DEF OneChanges
    <3>2. at[u] = "sample" /\ at'[u] = "sampled" /\ scan' = scan
      BY <1>8 DEF SampleRead, Goes
    <3>3. cfg = PostSet /\ gc = {} /\ scan = None
      BY <3>1, <3>2 DEF Stage
    <3>4. seen'[u] = [cfg |-> PostSet, gc |-> {}]
      BY <1>8, <3>3 DEF SampleRead, Looks
    <3>. QED  BY <3>2, <3>3, <3>4 DEF Stage
  <2>3. OneChanges'
    BY <2>1, <2>2, Zenon DEF OneChanges
  <2>4. RegistersMatch'
    BY <2>1, Zenon DEF RegistersMatch
  <2>5. Frozen'
    BY <1>8 DEF SampleRead, Goes, Looks, Frozen
  <2>. QED  BY <2>3, <2>4, <2>5
<1>9. ASSUME NEW u \in Users, ConfigRead(u)
      PROVE  OneChanges' /\ Frozen' /\ RegistersMatch'
  BY <1>9 DEF ConfigRead, Goes, Looks, Changing, Stage, OneChanges, Frozen, RegistersMatch
<1>10. ASSUME NEW u \in Users, SampleWrite(u)
      PROVE  OneChanges' /\ Frozen' /\ RegistersMatch'
  BY <1>10 DEF SampleWrite, Goes, Forgets, Sampled, Averaged, PostSet, Changing, Stage, OneChanges, Frozen, RegistersMatch
<1>11. ASSUME NEW u \in Users, ConfigWrite(u)
      PROVE  OneChanges' /\ Frozen' /\ RegistersMatch'
  BY <1>11 DEF ConfigWrite, Goes, Unlocks, Forgets, Changing, Stage, OneChanges, Frozen, RegistersMatch
<1>12. ASSUME NEW u \in Users, RateWrite(u)
       PROVE  OneChanges' /\ Frozen' /\ RegistersMatch'
  <2>1. u \in Changing /\ Changing' = Changing \ {u} /\ touched' = touched
    BY <1>12 DEF RateWrite, Goes, Changing
  <2>2. ASSUME ~touched PROVE Changing' = {}
    BY <2>1, <2>2 DEF OneChanges
  <2>3. seen[u] \in Registers /\ cfg' = Sampled(seen[u].cfg, feature)
    BY <1>12 DEF RateWrite, Goes
  <2>4. gc' = Averaged(seen[u].gc, feature) /\ UNCHANGED <<feature, scan>>
    BY <1>12 DEF RateWrite
  <2>5. ASSUME ~touched PROVE seen[u].cfg.mode = feature.mode /\ ("ADCON" \in seen[u].gc) = (scan # None)
    BY <1>12, <2>1, <2>5 DEF RateWrite, Goes, OneChanges, Stage
  <2>6. ~touched => cfg' = feature
    <3>1. feature \in [mode : Modes, speed : Modes, rate : Rates]
      BY DEF TypeOK
    <3>2. seen[u].cfg \in [mode : Modes \cup {"calibration"}, speed : Modes \cup {"reset"}, rate : Rates]
      BY <2>3 DEF Registers
    <3>. QED  BY <2>3, <2>5, <3>1, <3>2, SameModeSampled, Zenon
  <2>7. RegistersMatch'
    BY <2>1, <2>4, <2>5, <2>6 DEF Averaged, RegistersMatch
  <2>8. OneChanges'
    BY <2>1, <2>2, Zenon DEF OneChanges
  <2>9. Frozen'
    BY <1>12 DEF RateWrite, Goes, Frozen
  <2>. QED  BY <2>7, <2>8, <2>9
<1>13. ASSUME NEW u \in Users, EnableBits(u)
      PROVE  OneChanges' /\ Frozen' /\ RegistersMatch'
  BY <1>13 DEF EnableBits, Goes, Unlocks, Forgets, Changing, Stage, OneChanges, Frozen, RegistersMatch
<1>14. ASSUME NEW u \in Users, PreDisable(u)
       PROVE  OneChanges' /\ Frozen' /\ RegistersMatch'
  <2>1. Changing' = Changing /\ (~touched' => ~touched /\ Changing = {})
    BY <1>14 DEF PreDisable, Changing
  <2>2. OneChanges'
    BY <2>1, Zenon DEF OneChanges
  <2>3. RegistersMatch'
    BY <1>14, <2>1 DEF PreDisable, RegistersMatch
  <2>4. Frozen'
    BY <1>14 DEF PreDisable, Frozen
  <2>. QED  BY <2>2, <2>3, <2>4
<1>15. CASE Isr
  BY <1>15 DEF Isr, Changing, Stage, OneChanges, Frozen, RegistersMatch
<1>16. CASE Suspend
  BY <1>16 DEF Suspend, Changing, Stage, OneChanges, Frozen, RegistersMatch
<1>17. CASE Resume
  <2>1. Changing = {} /\ Changing' = {}
    BY <1>17 DEF Resume, Frozen, Changing
  <2>2. cfg' = feature /\ gc' = Averaged({}, feature) /\ feature' = feature
    BY <1>17 DEF Resume, HwInit, PostSet, Sampled
  <2>3. ~touched' => scan = None /\ scan' = None
    BY <1>17 DEF Resume
  <2>4. RegistersMatch'
    BY <2>2, <2>3 DEF Averaged, RegistersMatch
  <2>5. OneChanges' /\ Frozen'
    BY <1>17, <2>1 DEF Resume, Changing, OneChanges, Frozen
  <2>. QED  BY <2>4, <2>5
<1>18. CASE UNCHANGED vars
  BY <1>18 DEF vars, Changing, Stage, OneChanges, Frozen, RegistersMatch
<1>. QED
  BY <1>1, <1>2, <1>3, <1>4, <1>5, <1>6, <1>7, <1>8, <1>9, <1>10, <1>11, <1>12, <1>13, <1>14, <1>15, <1>16, <1>17, <1>18 DEF Next

-----------------------------------------------------------------------------
(* Every variable of the converter and its users keeps its type.            *)
THEOREM TypeCorrect == Spec => []TypeOK
<1>1. Init => TypeOK
  BY Starts
<1>2. TypeOK /\ [Next]_vars => TypeOK'
  BY TypeStep
<1>. QED  BY <1>1, <1>2, PTL DEF Spec

(* vf610_read_raw and vf610_adc_isr: however many users read, change modes  *)
(* and rates, enable the buffer and suspend, a read returns what was        *)
(* converted from its own channel, unless a conversion that an earlier read *)
(* left to itself was still under way.                                      *)
THEOREM ReadsAreOwn == Spec => []ReadsOwnChannel
<1>1. ASSUME Init PROVE ReadInv
  <2>1. TypeOK
    BY <1>1, Starts
  <2>2. \A u \in Users : at[u] = "idle"
    BY <1>1 DEF Init
  <2>3. LockHeld /\ ReaderAlone
    BY <2>2 DEF LockHeld, Locked, ReaderAlone
  <2>4. ScanAlone /\ ReadsOwnChannel
    BY <1>1 DEF Init, ScanAlone, ReadsOwnChannel
  <2>. QED  BY <2>1, <2>3, <2>4 DEF ReadInv
<1>2. ReadInv /\ [Next]_vars => ReadInv'
  BY ReadStep
<1>3. ReadInv => ReadsOwnChannel
  BY DEF ReadInv
<1>. QED  BY <1>1, <1>2, <1>3, PTL DEF Spec

(* vf610_adc_sample_set, vf610_adc_cfg_set, the buffer's functions and      *)
(* resume: unless two changes overlapped or the mode of a running buffer    *)
(* was changed, the registers hold what the driver reports.                 *)
THEOREM RegistersAreRight == Spec => []RegistersMatch
<1>1. ASSUME Init PROVE ModeInv
  <2>1. TypeOK /\ cfg = feature /\ gc = IF feature.rate = 0 THEN {} ELSE {"AVGEN"}
    BY <1>1, Starts
  <2>2. \A u \in Users : at[u] = "idle"
    BY <1>1 DEF Init
  <2>3. OneChanges /\ Frozen
    BY <2>2 DEF OneChanges, Changing, Frozen
  <2>4. scan = None
    BY <1>1 DEF Init
  <2>5. RegistersMatch
    BY <2>1, <2>4 DEF RegistersMatch
  <2>. QED  BY <2>1, <2>3, <2>5 DEF ModeInv
<1>2. ModeInv /\ [Next]_vars => ModeInv'
  BY ModeStep
<1>3. ModeInv => RegistersMatch
  BY DEF ModeInv
<1>. QED  BY <1>1, <1>2, <1>3, PTL DEF Spec

-----------------------------------------------------------------------------
(***************************************************************************)
(* RamDisk.  First what Total says of a request's segments.                 *)
(***************************************************************************)
(* A set that has 0, and with each number the next, has them all.           *)
LEMMA Inductive ==
  ASSUME NEW S, 0 \in S, \A n \in Nat : n \in S => n + 1 \in S
  PROVE  Nat \subseteq S
<1>. DEFINE R == OpToRel(<, Nat)
            T == Nat \ S
<1>1. IsWellFoundedOn(R, Nat)
  BY NatLessThanWellFounded
<1>2. \A x, y \in Nat : x < y => <<x, y>> \in R
  BY DEF OpToRel
<1>. HIDE DEF R
<1>3. SUFFICES ASSUME T # {} PROVE FALSE
  OBVIOUS
<1>4. PICK x \in T : \A y \in T : <<y, x>> \notin R
  BY <1>1, <1>3, WFMin
<1>5. x \in Nat /\ x # 0 /\ x - 1 \in Nat
  BY <1>4
<1>6. x - 1 \in T
  BY <1>4, <1>5
<1>7. <<x - 1, x>> \in R
  BY <1>2, <1>5
<1>. QED  BY <1>4, <1>6, <1>7

\* The sums of the first 0, 1, 2, ... elements.
Sums(s) == CHOOSE g : g = [i \in 0..Len(s) |-> IF i = 0 THEN 0 ELSE g[i - 1] + s[i]]
IsSums(g, s, n) == g \in [0..n -> Nat] /\ g[0] = 0 /\ \A i \in 1..n : g[i] = g[i - 1] + s[i]

(* Every sequence of numbers has its sums.                                  *)
LEMMA SumsExist ==
  ASSUME NEW s \in Seq(Nat)
  PROVE  IsSums(Sums(s), s, Len(s))
<1>. DEFINE S == {n \in Nat : n <= Len(s) => \E g : IsSums(g, s, n)}
            F(g) == [i \in 0..Len(s) |-> IF i = 0 THEN 0 ELSE g[i - 1] + s[i]]
<1>1. 0 \in S
  <2>1. IsSums([i \in 0..0 |-> 0], s, 0)
    BY DEF IsSums
  <2>. QED  BY <2>1
<1>2. ASSUME NEW n \in Nat, n \in S PROVE n + 1 \in S
  <2>. SUFFICES ASSUME n + 1 <= Len(s) PROVE \E g : IsSums(g, s, n + 1)
    OBVIOUS
  <2>1. PICK g : IsSums(g, s, n)
    BY <1>2
  <2>2. s[n + 1] \in Nat /\ g[n] \in Nat
    BY <2>1 DEF IsSums
  <2>. DEFINE h == [i \in 0..(n + 1) |-> IF i <= n THEN g[i] ELSE g[n] + s[n + 1]]
  <2>3. IsSums(h, s, n + 1)
    BY <2>1, <2>2 DEF IsSums
  <2>. QED  BY <2>3
<1>3. PICK g : IsSums(g, s, Len(s))
  <2>. HIDE DEF S
  <2>1. Nat \subseteq S
    BY <1>1, <1>2, Inductive
  <2>. QED  BY <2>1 DEF S
<1>4. g = F(g)
  <2>1. \A i \in 0..Len(s) : g[i] = F(g)[i]
    BY <1>3 DEF IsSums
  <2>. QED  BY <1>3, <2>1 DEF IsSums
<1>. DEFINE t == Sums(s)
<1>5. t = F(t)
  BY <1>4 DEF Sums
<1>. HIDE DEF t
<1>6. t[0] = 0 /\ \A i \in 1..Len(s) : t[i] = t[i - 1] + s[i]
  BY <1>5
<1>7. \A i \in 0..Len(s) : t[i] \in Nat
  <2>. DEFINE T == {n \in Nat : n <= Len(s) => t[n] \in Nat}
  <2>1. 0 \in T
    BY <1>6
  <2>2. ASSUME NEW n \in Nat, n \in T PROVE n + 1 \in T
    BY <1>6, <2>2
  <2>. HIDE DEF T
  <2>3. Nat \subseteq T
    BY <2>1, <2>2, Inductive
  <2>. QED  BY <2>3 DEF T
<1>8. DOMAIN t = 0..Len(s) /\ t = [i \in 0..Len(s) |-> t[i]]
  BY <1>5
<1>. QED  BY <1>6, <1>7, <1>8 DEF IsSums, t

(* Total is the last of them.                                               *)
LEMMA TotalIsSum == \A s : Disk!Total(s) = Sums(s)[Len(s)]
  BY DEF Disk!Total, Sums

(* The segments up to the k-th.                                             *)
LEMMA PartOf ==
  ASSUME NEW s \in Seq(Nat), NEW k \in 0..Len(s)
  PROVE  /\ SubSeq(s, 1, k) \in Seq(Nat) /\ Len(SubSeq(s, 1, k)) = k
         /\ \A i \in 1..k : SubSeq(s, 1, k)[i] = s[i]
  OBVIOUS

\* What the segments before the n-th, and the whole request, have in common.
Ahead(s, n) == Disk!Total(SubSeq(s, 1, n - 1))

(* Segment by segment the total grows to that of the request.               *)
LEMMA SegmentsAddUp ==
  ASSUME NEW s \in Seq(Nat), NEW n \in 1..Len(s)
  PROVE  /\ Ahead(s, n) \in Nat /\ Disk!Total(s) \in Nat /\ Ahead(s, 1) = 0
         /\ Ahead(s, n) + s[n] <= Disk!Total(s)
         /\ n < Len(s) => Ahead(s, n + 1) = Ahead(s, n) + s[n]
<1>1. IsSums(Sums(s), s, Len(s))
  BY SumsExist
<1>2. \A k \in 0..Len(s) : Disk!Total(SubSeq(s, 1, k)) = Sums(s)[k]
  <2>. TAKE k \in 0..Len(s)
  <2>. DEFINE p == SubSeq(s, 1, k)
              S == {i \in Nat : i <= k => Sums(p)[i] = Sums(s)[i]}
  <2>1. p \in Seq(Nat) /\ Len(p) = k /\ \A i \in 1..k : p[i] = s[i]
    BY PartOf
  <2>2. IsSums(Sums(p), p, k)
    BY <2>1, SumsExist
  <2>. HIDE DEF p
  <2>3. 0 \in S
    BY <1>1, <2>2 DEF IsSums
  <2>4. ASSUME NEW i \in Nat, i \in S PROVE i + 1 \in S
    <3>. SUFFICES ASSUME i + 1 <= k PROVE Sums(p)[i + 1] = Sums(s)[i + 1]
      OBVIOUS
    <3>1. i + 1 \in 1..k /\ i + 1 \in 1..Len(s) /\ (i + 1) - 1 = i
      OBVIOUS
    <3>2. Sums(p)[i + 1] = Sums(p)[i] + p[i + 1] /\ Sums(s)[i + 1] = Sums(s)[i] + s[i + 1]
      BY <1>1, <2>2, <3>1 DEF IsSums
    <3>. QED  BY <2>1, <2>4, <3>1, <3>2
  <2>. HIDE DEF S
  <2>5. Nat \subseteq S
    BY <2>3, <2>4, Inductive
  <2>6. Sums(p)[k] = Sums(s)[k]
    BY <2>5 DEF S
  <2>. QED  BY <2>1, <2>6, TotalIsSum DEF p
<1>3. \A k \in 0..Len(s) : k >= n => Sums(s)[n] <= Sums(s)[k]
  <2>. DEFINE S == {k \in Nat : n <= k /\ k <= Len(s) => Sums(s)[n] <= Sums(s)[k]}
  <2>1. 0 \in S
    BY <1>1 DEF IsSums
  <2>2. ASSUME NEW k \in Nat, k \in S PROVE k + 1 \in S
    <3>. SUFFICES ASSUME n <= k + 1, k + 1 <= Len(s) PROVE Sums(s)[n] <= Sums(s)[k + 1]
      OBVIOUS
    <3>1. k + 1 \in 1..Len(s) /\ (k + 1) - 1 = k /\ k \in 0..Len(s) /\ n \in 0..Len(s) /\ s[k + 1] \in Nat
      OBVIOUS
    <3>2. /\ Sums(s)[k + 1] = Sums(s)[k] + s[k + 1]
          /\ Sums(s)[k] \in Nat /\ Sums(s)[n] \in Nat
      BY <1>1, <3>1 DEF IsSums
    <3>. QED  BY <2>2, <3>1, <3>2
  <2>. HIDE DEF S
  <2>3. Nat \subseteq S
    BY <2>1, <2>2, Inductive
  <2>. QED  BY <2>3 DEF S
<1>4. /\ Sums(s)[n] = Sums(s)[n - 1] + s[n] /\ Sums(s)[n - 1] \in Nat /\ Sums(s)[Len(s)] \in Nat
      /\ Sums(s)[0] = 0
  BY <1>1 DEF IsSums
<1>5. Disk!Total(s) = Sums(s)[Len(s)]
  BY TotalIsSum
<1>6. Ahead(s, n) = Sums(s)[n - 1] /\ Ahead(s, 1) = Sums(s)[0]
  BY <1>2 DEF Ahead
<1>7. n < Len(s) => Ahead(s, n + 1) = Sums(s)[n]
  BY <1>2 DEF Ahead
<1>. QED  BY <1>3, <1>4, <1>5, <1>6, <1>7

-----------------------------------------------------------------------------
\* The variables of the disk, and where each processor is in its request.
Contents == [0..(Sectors - 1) -> SectorValues \cup {0}]
DiskTypes ==
  /\ queued \in BOOLEAN /\ ram \in Contents /\ cursor \in Nat
  /\ req \in [Cpus -> Disk!Requests \cup {Disk!Idle}]
  /\ pc \in [Cpus -> {"idle", "start", "copy", "ended"}]
  /\ seg \in [Cpus -> Nat] /\ copied \in [Cpus -> Nat] /\ sector \in [Cpus -> Nat]
  /\ got \in [Cpus -> Seq(SectorValues \cup {0})] /\ dSeen \in [Cpus -> Contents \cup {<<>>}]

Place(c) == req[c].start + Ahead(req[c].shape, seg[c])
Placed(c) ==
  /\ pc[c] # "idle" => req[c] \in Disk!Requests
  /\ seg[c] \in 1..Len(req[c].shape) /\ copied[c] <= req[c].shape[seg[c]]
  /\ pc[c] \in {"start", "copy"} => sector[c] = Place(c)
  /\ pc[c] = "start" => copied[c] = 0 /\ got[c] = <<>> /\ (queued => seg[c] = 1)

\* Whoever copies holds the lock and finds the cursor where he left it; what he has copied
\* since is of one moment.
Holding(c) ==
  pc[c] = "copy" =>
    /\ dLock = c
    /\ cursor = IF queued THEN Place(c) + copied[c] ELSE Place(c)
    /\ req[c].write => \A i \in 1..Disk!Covered(c) : ram[Disk!First(c) + i - 1] = req[c].value
    /\ ~req[c].write =>
         /\ ram = dSeen[c] /\ Len(got[c]) = Disk!Covered(c)
         /\ \A i \in 1..Disk!Covered(c) : got[c][i] = dSeen[c][Disk!First(c) + i - 1]
DiskInv == DiskTypes /\ \A c \in Cpus : Placed(c) /\ Holding(c)

(* A request has segments, which fit the disk.                              *)
LEMMA RequestFits ==
  ASSUME NEW r \in Disk!Requests \cup {Disk!Idle}, NEW n \in 1..Len(r.shape)
  PROVE  /\ r.shape \in Seq(Nat) /\ Len(r.shape) >= 1 /\ r.start \in Nat
         /\ r.write \in BOOLEAN /\ r.value \in SectorValues \cup {0}
         /\ r.shape[n] \in Nat /\ r.shape[n] >= 1
         /\ Ahead(r.shape, n) \in Nat /\ Ahead(r.shape, 1) = 0
         /\ n < Len(r.shape) => Ahead(r.shape, n + 1) = Ahead(r.shape, n) + r.shape[n]
         /\ r \in Disk!Requests => r.start + Ahead(r.shape, n) + r.shape[n] <= Sectors
<1>1. /\ r.shape \in Seq(Nat \ {0}) \ {<<>>} /\ r.start \in Nat /\ r.write \in BOOLEAN
      /\ r.value \in SectorValues \cup {0}
  <2>1. CASE r \in Disk!Requests
    <3>1. r.shape \in Shapes /\ r.start \in 0..(Sectors - 1) /\ r.write \in BOOLEAN /\ r.value \in SectorValues \cup {0}
      BY <2>1 DEF Disk!Requests
    <3>. QED  BY <3>1, DiskAssumption
  <2>2. CASE r = Disk!Idle
    <3>1. <<1>> \in Seq(Nat \ {0}) \ {<<>>}
      OBVIOUS
    <3>. QED  BY <2>2, <3>1 DEF Disk!Idle
  <2>. QED  BY <2>1, <2>2
<1>2. r.shape \in Seq(Nat) /\ Len(r.shape) >= 1 /\ r.shape[n] \in Nat /\ r.shape[n] >= 1
  BY <1>1
<1>3. r \in Disk!Requests => r.start + Disk!Total(r.shape) <= Sectors
  BY DEF Disk!Requests
<1>4. /\ Ahead(r.shape, n) \in Nat /\ Disk!Total(r.shape) \in Nat /\ Ahead(r.shape, 1) = 0
      /\ Ahead(r.shape, n) + r.shape[n] <= Disk!Total(r.shape)
      /\ n < Len(r.shape) => Ahead(r.shape, n + 1) = Ahead(r.shape, n) + r.shape[n]
  BY <1>2, SegmentsAddUp
<1>5. Sectors \in Nat
  BY DiskAssumption
<1>6. ASSUME r \in Disk!Requests PROVE r.start + Ahead(r.shape, n) + r.shape[n] <= Sectors
  <2>1. r.start + Disk!Total(r.shape) <= Sectors
    BY <1>3, <1>6
  <2>. DEFINE a == r.start
              b == Ahead(r.shape, n)
              d == r.shape[n]
              t == Disk!Total(r.shape)
  <2>2. a \in Nat /\ b \in Nat /\ d \in Nat /\ t \in Nat /\ b + d <= t /\ a + t <= Sectors
    BY <1>1, <1>2, <1>4, <2>1
  <2>. HIDE DEF a, b, d, t
  <2>3. a + b + d <= Sectors
    BY <1>5, <2>2
  <2>. QED  BY <2>3 DEF a, b, d
<1>. QED  BY <1>1, <1>2, <1>4, <1>6

\* What the steps of one processor leave to the others.
Others(c) ==
  \A d \in Cpus \ {c} :
    /\ req'[d] = req[d] /\ pc'[d] = pc[d] /\ seg'[d] = seg[d] /\ copied'[d] = copied[d]
    /\ sector'[d] = sector[d] /\ got'[d] = got[d] /\ dSeen'[d] = dSeen[d]

(* Another processor is where it was; it copies only if it has the lock.    *)
LEMMA OthersKeep ==
  ASSUME DiskInv, NEW c \in Cpus, Others(c), queued' = queued,
         UNCHANGED <<ram, cursor, dLock>> \/ \A d \in Cpus \ {c} : pc[d] # "copy",
         NEW d \in Cpus \ {c}
  PROVE  Placed(d)' /\ Holding(d)'
<1>1. /\ req'[d] = req[d] /\ pc'[d] = pc[d] /\ seg'[d] = seg[d] /\ copied'[d] = copied[d]
      /\ sector'[d] = sector[d] /\ got'[d] = got[d] /\ dSeen'[d] = dSeen[d]
  BY DEF Others
<1>2. Placed(d) /\ Holding(d)
  BY DEF DiskInv
<1>3. Placed(d)'
  BY <1>1, <1>2 DEF Placed, Place
<1>4. CASE pc[d] # "copy"
  BY <1>1, <1>3, <1>4 DEF Holding
<1>5. CASE UNCHANGED <<ram, cursor, dLock>>
  BY <1>1, <1>2, <1>3, <1>5 DEF Holding, Place, Disk!Covered, Disk!First
<1>. QED  BY <1>4, <1>5

(* The processor that holds the lock is the only one that copies.           *)
LEMMA OneCopies ==
  ASSUME DiskInv, NEW c \in Cpus, dLock \in {c, Disk!Free}
  PROVE  \A d \in Cpus \ {c} : pc[d] # "copy"
  BY DiskAssumption DEF DiskInv, Holding

(* A request arrives.                                                       *)
LEMMA SubmitKeepsDisk ==
  ASSUME DiskInv, NEW c \in Cpus, NEW r \in Disk!Requests, Disk!Submit(c, r)
  PROVE  DiskInv'
<1>1. DiskTypes'
  <2>1. r.start \in Nat
    BY DEF Disk!Requests
  <2>. QED  BY <2>1 DEF DiskInv, DiskTypes, Disk!Submit
<1>2. Others(c)
  BY DEF DiskInv, DiskTypes, Disk!Submit, Others
<1>3. /\ req'[c] = r /\ pc'[c] = "start" /\ seg'[c] = 1 /\ copied'[c] = 0 /\ sector'[c] = r.start
      /\ got'[c] = <<>>
  BY DEF DiskInv, DiskTypes, Disk!Submit
<1>4. 1 \in 1..Len(r.shape)
  BY DiskAssumption DEF Disk!Requests
<1>5. Ahead(r.shape, 1) = 0 /\ r.shape[1] \in Nat /\ r.start \in Nat
  BY <1>4, RequestFits
<1>6. Placed(c)' /\ Holding(c)'
  BY <1>3, <1>4, <1>5 DEF Placed, Place, Holding
<1>7. UNCHANGED <<queued, ram, cursor, dLock>>
  BY DEF Disk!Submit
<1>8. \A d \in Cpus \ {c} : Placed(d)' /\ Holding(d)'
  BY <1>2, <1>7, OthersKeep
<1>. QED  BY <1>1, <1>6, <1>8 DEF DiskInv

(* The lock is taken and the cursor set.                                    *)
LEMMA BeginKeepsDisk ==
  ASSUME DiskInv, NEW c \in Cpus, Disk!Begin(c)
  PROVE  DiskInv'
<1>1. /\ pc[c] = "start" /\ dLock = Disk!Free /\ dLock' = c
      /\ cursor' = IF queued THEN req[c].start ELSE sector[c]
      /\ pc' = [pc EXCEPT ![c] = "copy"] /\ dSeen' = [dSeen EXCEPT ![c] = ram]
      /\ UNCHANGED <<queued, ram, req, seg, copied, sector, got>>
  BY DEF Disk!Begin
<1>2. Placed(c)
  BY DEF DiskInv
<1>3. req[c] \in Disk!Requests \cup {Disk!Idle} /\ seg[c] \in 1..Len(req[c].shape)
  BY <1>2 DEF DiskInv, DiskTypes, Placed
<1>4. Ahead(req[c].shape, 1) = 0 /\ req[c].start \in Nat /\ Ahead(req[c].shape, seg[c]) \in Nat
  BY <1>3, RequestFits
<1>5. DiskTypes'
  BY <1>1, <1>4 DEF DiskInv, DiskTypes
<1>6. Others(c)
  BY <1>1 DEF DiskInv, DiskTypes, Others
<1>7. pc'[c] = "copy" /\ dSeen'[c] = ram
  BY <1>1 DEF DiskInv, DiskTypes
<1>8. copied[c] = 0 /\ got[c] = <<>> /\ sector[c] = Place(c) /\ (queued => seg[c] = 1)
  BY <1>1, <1>2 DEF Placed
<1>9. Placed(c)'
  BY <1>1, <1>2, <1>7 DEF Placed, Place
<1>10. Disk!Covered(c)' = 0
  <2>1. CASE queued
    <3>1. Disk!Covered(c)' = Ahead(req[c].shape, 1) + 0
      BY <1>1, <1>8, <2>1 DEF Disk!Covered, Ahead
    <3>. QED  BY <1>4, <3>1
  <2>2. CASE ~queued
    BY <1>1, <1>8, <2>2 DEF Disk!Covered
  <2>. QED  BY <2>1, <2>2
<1>11. Place(c) \in Nat /\ cursor' = Place(c)
  BY <1>1, <1>4, <1>8 DEF Place
<1>12. Holding(c)'
  <2>1. Place(c)' = Place(c) /\ copied'[c] = 0 /\ got'[c] = <<>> /\ ram' = ram
    BY <1>1, <1>8 DEF Place
  <2>. QED  BY <1>1, <1>7, <1>10, <1>11, <2>1 DEF Holding
<1>13. \A d \in Cpus \ {c} : Placed(d)' /\ Holding(d)'
  BY <1>1, <1>6, OneCopies, OthersKeep
<1>. QED  BY <1>5, <1>9, <1>12, <1>13 DEF DiskInv

(* What has been copied under the lock starts at First and ends at the      *)
(* cursor, queue and bio alike.                                             *)
LEMMA CopiedSoFar ==
  ASSUME DiskInv, NEW c \in Cpus, pc[c] = "copy"
  PROVE  /\ Disk!First(c) \in Nat /\ Disk!Covered(c) \in Nat
         /\ Disk!First(c) + Disk!Covered(c) = Place(c) + copied[c]
         /\ Place(c) \in Nat /\ copied[c] \in Nat
         /\ Place(c) + req[c].shape[seg[c]] <= Sectors
         /\ req[c].shape[seg[c]] \in Nat /\ copied[c] <= req[c].shape[seg[c]]
<1>1. Placed(c) /\ queued \in BOOLEAN /\ copied[c] \in Nat /\ sector[c] \in Nat
  BY DEF DiskInv, DiskTypes
<1>2. req[c] \in Disk!Requests /\ seg[c] \in 1..Len(req[c].shape) /\ sector[c] = Place(c)
      /\ copied[c] <= req[c].shape[seg[c]]
  BY <1>1 DEF Placed
<1>3. /\ req[c].start \in Nat /\ Ahead(req[c].shape, seg[c]) \in Nat
      /\ req[c].shape[seg[c]] \in Nat
      /\ req[c].start + Ahead(req[c].shape, seg[c]) + req[c].shape[seg[c]] <= Sectors
  BY <1>2, RequestFits
<1>. DEFINE a == Ahead(req[c].shape, seg[c])
<1>4. Place(c) = req[c].start + a
  BY DEF Place
<1>5. /\ Disk!First(c) = IF queued THEN req[c].start ELSE Place(c)
      /\ Disk!Covered(c) = IF queued THEN a + copied[c] ELSE copied[c]
  BY <1>2 DEF Disk!First, Disk!Covered, Ahead
<1>. HIDE DEF a
<1>6. a \in Nat /\ Sectors \in Nat
  BY <1>3, DiskAssumption DEF a
<1>7. req[c].start + a + req[c].shape[seg[c]] <= Sectors
  BY <1>3 DEF a
<1>8. req[c].start \in Nat /\ req[c].shape[seg[c]] \in Nat
  BY <1>3
<1>9. Place(c) \in Nat /\ Place(c) + req[c].shape[seg[c]] <= Sectors
  BY <1>4, <1>6, <1>7, <1>8
<1>10. /\ Disk!First(c) \in Nat /\ Disk!Covered(c) \in Nat
       /\ Disk!First(c) + Disk!Covered(c) = Place(c) + copied[c]
  BY <1>1, <1>4, <1>5, <1>6, <1>8
<1>. QED  BY <1>1, <1>2, <1>8, <1>9, <1>10

(* One sector is copied, to where the cursor stands or from there.          *)
LEMMA CopyKeepsDisk ==
  ASSUME DiskInv, NEW c \in Cpus, Disk!Copy(c)
  PROVE  DiskInv'
<1>. DEFINE here == IF queued THEN cursor ELSE cursor + copied[c]
            n == Disk!Covered(c)
            f == Disk!First(c)
<1>1. /\ pc[c] = "copy" /\ copied[c] < req[c].shape[seg[c]]
      /\ IF req[c].write THEN ram' = [ram EXCEPT ![here] = req[c].value] /\ UNCHANGED got
         ELSE got' = [got EXCEPT ![c] = Append(@, ram[here])] /\ UNCHANGED ram
      /\ copied' = [copied EXCEPT ![c] = @ + 1]
      /\ cursor' = IF queued THEN cursor + 1 ELSE cursor
      /\ UNCHANGED <<queued, dLock, req, pc, seg, sector, dSeen>>
  BY DEF Disk!Copy
<1>2. /\ f \in Nat /\ n \in Nat /\ f + n = Place(c) + copied[c] /\ Place(c) \in Nat /\ copied[c] \in Nat
      /\ Place(c) + req[c].shape[seg[c]] <= Sectors /\ req[c].shape[seg[c]] \in Nat
  BY <1>1, CopiedSoFar
<1>3. Placed(c) /\ Holding(c)
  BY DEF DiskInv
<1>4. dLock = c /\ cursor = IF queued THEN Place(c) + copied[c] ELSE Place(c)
  BY <1>1, <1>3 DEF Holding
<1>5. here = f + n /\ here \in 0..(Sectors - 1) /\ Sectors \in Nat
  <2>. HIDE DEF f, n
  <2>1. here = Place(c) + copied[c]
    BY <1>2, <1>4
  <2>2. req[c].shape[seg[c]] \in Nat /\ copied[c] < req[c].shape[seg[c]] /\ Sectors \in Nat
    BY <1>1, <1>2, DiskAssumption
  <2>3. Place(c) + copied[c] < Sectors
    BY <1>2, <2>2
  <2>. QED  BY <1>2, <2>1, <2>2, <2>3
<1>6. req[c].write \in BOOLEAN /\ req[c].value \in SectorValues \cup {0}
  BY <1>3, RequestFits DEF DiskInv, DiskTypes, Placed
<1>7. ram \in Contents /\ got[c] \in Seq(SectorValues \cup {0}) /\ copied \in [Cpus -> Nat]
  BY DEF DiskInv, DiskTypes
<1>8. ram[here] \in SectorValues \cup {0}
  BY <1>5, <1>7 DEF Contents
<1>9. copied'[c] = copied[c] + 1 /\ copied' \in [Cpus -> Nat]
  BY <1>1, <1>2, <1>7
<1>10. cursor' \in Nat /\ cursor' = IF queued THEN Place(c) + copied'[c] ELSE Place(c)
  BY <1>1, <1>2, <1>4, <1>9
<1>11. ram' \in Contents
  BY <1>1, <1>5, <1>6, <1>7 DEF Contents
<1>12. got' \in [Cpus -> Seq(SectorValues \cup {0})]
  <2>1. Append(got[c], ram[here]) \in Seq(SectorValues \cup {0})
    BY <1>7, <1>8
  <2>. HIDE DEF here
  <2>. QED  BY <1>1, <2>1 DEF DiskInv, DiskTypes
<1>13. DiskTypes'
  BY <1>1, <1>9, <1>10, <1>11, <1>12 DEF DiskInv, DiskTypes
<1>14. Others(c)
  <2>. HIDE DEF here
  <2>. QED  BY <1>1 DEF DiskInv, DiskTypes, Others
<1>15. Placed(c)'
  <2>1. copied'[c] <= req[c].shape[seg[c]]
    BY <1>1, <1>2, <1>9
  <2>. QED  BY <1>1, <1>3, <2>1 DEF Placed, Place
<1>16. Disk!Covered(c)' = n + 1 /\ Disk!First(c)' = f
  <2>1. Disk!First(c)' = f
    BY <1>1 DEF Disk!First
  <2>2. CASE queued
    <3>1. Ahead(req[c].shape, seg[c]) \in Nat
      BY <1>3, RequestFits DEF DiskInv, DiskTypes, Placed
    <3>2. n = Ahead(req[c].shape, seg[c]) + copied[c]
          /\ Disk!Covered(c)' = Ahead(req[c].shape, seg[c]) + copied'[c]
      BY <1>1, <2>2 DEF Disk!Covered, Ahead
    <3>. QED  BY <1>2, <1>9, <2>1, <3>1, <3>2
  <2>3. CASE ~queued
    BY <1>1, <1>9, <2>1, <2>3 DEF Disk!Covered
  <2>. QED  BY <2>2, <2>3
<1>. HIDE DEF n, f, here
<1>17. Holding(c)'
  <2>. SUFFICES
         /\ req[c].write => \A i \in 1..(n + 1) : ram'[f + i - 1] = req[c].value
         /\ ~req[c].write => /\ ram' = dSeen[c] /\ Len(got'[c]) = n + 1
                             /\ \A i \in 1..(n + 1) : got'[c][i] = dSeen[c][f + i - 1]
    <3>1. Place(c)' = Place(c) /\ dLock' = c /\ req' = req /\ dSeen' = dSeen /\ queued' = queued
      BY <1>1, <1>4 DEF Place
    <3>2. cursor' = IF queued' THEN Place(c)' + copied'[c] ELSE Place(c)'
      BY <1>10, <3>1
    <3>. QED  BY <1>16, <3>1, <3>2 DEF Holding
  <2>2. CASE req[c].write
    <3>1. ram' = [ram EXCEPT ![here] = req[c].value]
      BY <1>1, <2>2
    <3>2. \A i \in 1..n : ram[f + i - 1] = req[c].value
      BY <1>1, <1>3, <2>2 DEF Holding, n, f
    <3>3. ASSUME NEW i \in 1..(n + 1) PROVE ram'[f + i - 1] = req[c].value
      <4>1. f + i - 1 \in 0..(Sectors - 1) /\ i \in Int
        BY <1>2, <1>5 DEF n, f
      <4>2. CASE i = n + 1
        <5>1. f + i - 1 = here
          BY <1>2, <1>5, <4>2
        <5>. QED  BY <1>7, <3>1, <4>1, <5>1 DEF Contents
      <4>3. CASE i # n + 1
        <5>1. i \in 1..n /\ f + i - 1 # here
          BY <1>2, <1>5, <4>3
        <5>. QED  BY <1>7, <3>1, <3>2, <4>1, <5>1 DEF Contents
      <4>. QED  BY <4>2, <4>3
    <3>. QED  BY <2>2, <3>3
  <2>3. CASE ~req[c].write
    <3>1. ram' = ram /\ got'[c] = Append(got[c], ram[here])
      BY <1>1, <2>3 DEF DiskInv, DiskTypes
    <3>2. /\ ram = dSeen[c] /\ Len(got[c]) = n
          /\ \A i \in 1..n : got[c][i] = dSeen[c][f + i - 1]
      BY <1>1, <1>3, <2>3 DEF Holding, n, f
    <3>3. Len(got'[c]) = n + 1
      BY <1>7, <3>1, <3>2
    <3>4. ASSUME NEW i \in 1..(n + 1) PROVE got'[c][i] = dSeen[c][f + i - 1]
      <4>1. CASE i = n + 1
        <5>1. f + i - 1 = here /\ got'[c][i] = ram[here]
          BY <1>2, <1>5, <1>7, <3>1, <3>2, <4>1
        <5>. QED  BY <3>2, <5>1
      <4>2. CASE i # n + 1
        <5>1. i \in 1..n
          BY <1>2, <4>2
        <5>2. got'[c][i] = got[c][i]
          BY <1>7, <3>1, <3>2, <5>1
        <5>. QED  BY <3>2, <5>1, <5>2
      <4>. QED  BY <4>1, <4>2
    <3>. QED  BY <2>3, <3>1, <3>2, <3>3, <3>4
  <2>. QED  BY <2>2, <2>3
<1>18. \A d \in Cpus \ {c} : Placed(d)' /\ Holding(d)'
  BY <1>1, <1>4, <1>14, OneCopies, OthersKeep
<1>. QED  BY <1>13, <1>15, <1>17, <1>18 DEF DiskInv

(* The next segment: a bio gives up the lock, a request goes on.            *)
LEMMA AdvanceKeepsDisk ==
  ASSUME DiskInv, NEW c \in Cpus, Disk!Advance(c)
  PROVE  DiskInv'
<1>. DEFINE more == seg[c] < Len(req[c].shape)
            s == req[c].shape
<1>1. /\ pc[c] = "copy" /\ copied[c] = s[seg[c]]
      /\ dLock' = IF queued /\ more THEN dLock ELSE Disk!Free
      /\ pc' = [pc EXCEPT ![c] = IF ~more THEN "ended" ELSE IF queued THEN "copy" ELSE "start"]
      /\ seg' = [seg EXCEPT ![c] = IF more THEN @ + 1 ELSE @]
      /\ copied' = [copied EXCEPT ![c] = 0]
      /\ sector' = [sector EXCEPT ![c] = @ + s[seg[c]]]
      /\ got' = [got EXCEPT ![c] = IF queued \/ ~more THEN @ ELSE <<>>]
      /\ UNCHANGED <<queued, ram, cursor, req, dSeen>>
  BY DEF Disk!Advance
<1>2. Placed(c) /\ Holding(c) /\ queued \in BOOLEAN
  BY DEF DiskInv, DiskTypes
<1>3. req[c] \in Disk!Requests /\ seg[c] \in 1..Len(s) /\ sector[c] = Place(c)
  BY <1>1, <1>2 DEF Placed
<1>4. /\ s \in Seq(Nat) /\ s[seg[c]] \in Nat /\ req[c].start \in Nat
      /\ Ahead(s, seg[c]) \in Nat
      /\ more => Ahead(s, seg[c] + 1) = Ahead(s, seg[c]) + s[seg[c]]
  BY <1>3, RequestFits
<1>5. DiskTypes'
  <2>1. got[c] \in Seq(SectorValues \cup {0}) /\ <<>> \in Seq(SectorValues \cup {0})
    BY DEF DiskInv, DiskTypes
  <2>2. got' \in [Cpus -> Seq(SectorValues \cup {0})]
    BY <1>1, <2>1 DEF DiskInv, DiskTypes
  <2>3. seg' \in [Cpus -> Nat] /\ copied' \in [Cpus -> Nat]
    BY <1>1, <1>3 DEF DiskInv, DiskTypes
  <2>4. sector[c] + s[seg[c]] \in Nat
    <3>1. sector[c] \in Nat
      BY DEF DiskInv, DiskTypes
    <3>. QED  BY <1>4, <3>1
  <2>5. sector' \in [Cpus -> Nat]
    BY <1>1, <2>4 DEF DiskInv, DiskTypes
  <2>. QED  BY <1>1, <2>2, <2>3, <2>5 DEF DiskInv, DiskTypes
<1>6. Others(c)
  BY <1>1 DEF DiskInv, DiskTypes, Others
<1>7. /\ pc'[c] = IF ~more THEN "ended" ELSE IF queued THEN "copy" ELSE "start"
      /\ seg'[c] = IF more THEN seg[c] + 1 ELSE seg[c]
      /\ copied'[c] = 0 /\ sector'[c] = sector[c] + s[seg[c]]
      /\ got'[c] = IF queued \/ ~more THEN got[c] ELSE <<>>
  BY <1>1 DEF DiskInv, DiskTypes
<1>8. more => Place(c)' = Place(c) + s[seg[c]]
  BY <1>1, <1>4, <1>7 DEF Place
<1>9. Placed(c)'
  <2>1. seg'[c] \in 1..Len(s)
    BY <1>3, <1>4, <1>7
  <2>2. s[seg'[c]] \in Nat
    BY <1>4, <2>1
  <2>3. pc'[c] # "idle" => req'[c] \in Disk!Requests
    BY <1>1, <1>3
  <2>4. pc'[c] \in {"start", "copy"} => sector'[c] = Place(c)'
    BY <1>3, <1>7, <1>8
  <2>5. pc'[c] = "start" => ~queued /\ got'[c] = <<>>
    BY <1>7
  <2>. QED  BY <1>1, <1>7, <2>1, <2>2, <2>3, <2>4, <2>5 DEF Placed
<1>10. Holding(c)'
  <2>. SUFFICES ASSUME pc'[c] = "copy" PROVE Holding(c)'
    BY DEF Holding
  <2>1. queued /\ more /\ got'[c] = got[c] /\ seg'[c] = seg[c] + 1
    BY <1>2, <1>7
  <2>2. Disk!Covered(c)' = Disk!Covered(c) /\ Disk!First(c)' = Disk!First(c)
    <3>1. Disk!First(c)' = Disk!First(c)
      BY <1>1, <2>1 DEF Disk!First
    <3>2. Disk!Covered(c) = Ahead(s, seg[c]) + s[seg[c]]
      BY <1>1, <2>1 DEF Disk!Covered, Ahead
    <3>3. Disk!Covered(c)' = Ahead(s, seg[c] + 1) + 0
      BY <1>1, <1>7, <2>1 DEF Disk!Covered, Ahead
    <3>. QED  BY <1>4, <2>1, <3>1, <3>2, <3>3
  <2>3. dLock' = c /\ cursor = Place(c) + copied[c]
    BY <1>1, <1>2, <2>1 DEF Holding
  <2>4. cursor' = Place(c)' + copied'[c]
    <3>1. Place(c) \in Nat
      BY <1>4 DEF Place
    <3>. QED  BY <1>1, <1>4, <1>7, <1>8, <2>1, <2>3, <3>1
  <2>. QED  BY <1>1, <1>2, <2>1, <2>2, <2>3, <2>4 DEF Holding
<1>11. dLock = c
  BY <1>1, <1>2 DEF Holding
<1>12. \A d \in Cpus \ {c} : Placed(d)' /\ Holding(d)'
  BY <1>1, <1>6, <1>11, OneCopies, OthersKeep
<1>. QED  BY <1>5, <1>9, <1>10, <1>12 DEF DiskInv

(* The request is done.                                                     *)
LEMMA EndKeepsDisk ==
  ASSUME DiskInv, NEW c \in Cpus, Disk!End(c)
  PROVE  DiskInv'
<1>1. /\ Others(c) /\ UNCHANGED <<queued, ram, cursor, dLock>> /\ DiskTypes'
      /\ pc'[c] = "idle" /\ req'[c] = Disk!Idle /\ seg'[c] = 1 /\ copied'[c] = 0
  BY DEF DiskInv, DiskTypes, Disk!End, Others
<1>2. 1 \in 1..Len(Disk!Idle.shape) /\ Disk!Idle.shape[1] = 1
  BY DEF Disk!Idle
<1>3. Placed(c)' /\ Holding(c)'
  BY <1>1, <1>2 DEF Placed, Holding
<1>. QED  BY <1>1, <1>3, OthersKeep DEF DiskInv

(* The disks keep their invariant.                                          *)
LEMMA DiskInductive ==
  /\ Disk!Init => DiskInv
  /\ DiskInv /\ [Disk!Next]_diskVars => DiskInv'
<1>1. ASSUME Disk!Init PROVE DiskInv
  <2>1. DiskTypes
    BY <1>1 DEF Disk!Init, DiskTypes, Contents
  <2>2. 1 \in 1..Len(Disk!Idle.shape) /\ Disk!Idle.shape[1] = 1
    BY DEF Disk!Idle
  <2>. QED  BY <1>1, <2>1, <2>2 DEF Disk!Init, DiskInv, Placed, Holding
<1>2. ASSUME DiskInv, UNCHANGED diskVars PROVE DiskInv'
  BY <1>2 DEF diskVars, DiskInv, DiskTypes, Placed, Place, Holding, Disk!Covered, Disk!First
<1>3. ASSUME DiskInv, Disk!Next PROVE DiskInv'
  BY <1>3, SubmitKeepsDisk, BeginKeepsDisk, CopyKeepsDisk, AdvanceKeepsDisk, EndKeepsDisk
  DEF Disk!Next, Disk!Serve
<1>. QED  BY <1>1, <1>2, <1>3

(* What a request, or a segment of a bio, has copied under one hold of the  *)
(* lock is what the sectors held when it was taken, or what they hold now.  *)
THEOREM UnitsAreAtomic == MCSpec => []UnitAtomic
<1>1. MCInit => DiskInv
  BY DiskInductive DEF MCInit
<1>2. DiskInv /\ [MCNext]_<<which, vars, diskVars, sensorVars, pwmVars, outputVars>> => DiskInv'
  BY DiskInductive DEF MCNext, AdcNext, DiskNext, SensorNext, PwmNext, OutputNext, diskVars
<1>3. ASSUME DiskInv PROVE UnitAtomic
  <2>1. \A c \in Cpus : req[c].write \in BOOLEAN
    BY <1>3, RequestFits DEF DiskInv, DiskTypes, Placed
  <2>. QED  BY <1>3, <2>1 DEF DiskInv, Holding, UnitAtomic, Disk!UnitAtomic
<1>. QED  BY <1>1, <1>2, <1>3, PTL DEF MCSpec

-----------------------------------------------------------------------------
\* Sensors: what a reader holds.
SensorTypes ==
  /\ driver \in Sensor!Drivers /\ sample \in Nat /\ sample >= 1
  /\ sPc \in [Sensor!Readers -> {"idle", "reading", "storing", "copying"}]
  /\ regs \in [Sensor!Readers -> [Words -> Nat]] /\ data \in [Words -> Nat]
  /\ since \in [Sensor!Readers -> Nat]
  /\ out \in [words : [Words -> Nat], called : Nat, alone : BOOLEAN]

\* A word that has been read is not older than the call, nor newer than the sensor; one that
\* has not been read is 0; whoever goes on has them all, and has them of one measurement
\* where the driver reads them at once.
Reading ==
  \A r \in Sensor!Readers :
    /\ since[r] <= sample
    /\ sPc[r] = "idle" => regs[r] = Sensor!NoWords /\ since[r] = 0
    /\ \A w \in Words : regs[r][w] # 0 => regs[r][w] >= since[r]
    /\ sPc[r] \in {"storing", "copying"} => \A w \in Words : regs[r][w] # 0
    /\ sPc[r] = "storing" => driver = "regmap_ap"
    /\ driver \in {"spi_icm", "regmap_icm"} => \A w, v \in Words : regs[r][w] = regs[r][v]
\* Two readers on their way know of each other; one that knows of none finds its own sample
\* in the chip.
Together ==
  /\ \A r, s \in Sensor!Readers :
       r # s /\ sPc[r] # "idle" /\ sPc[s] # "idle" => r \in shared
  /\ driver = "regmap_ap" =>
       \A r \in Sensor!Readers : sPc[r] = "copying" /\ r \notin shared =>
         \A w \in Words : data[w] >= since[r]
\* Nothing is read before probe is through, which for the drivers that look at their
\* transfers is when everything is written.
Configuration ==
  /\ driver \in {"i2c_ap", "spi_icm"} /\ bound => written = ConfigRegs
  /\ \A r \in Sensor!Readers : since[r] > 0 => bound
  /\ out.called > 0 => bound
SensorInv == SensorTypes /\ Reading /\ Together /\ Configuration /\ Sensor!ReadIsFresh

(* probe, whose transfers may fail.                                         *)
LEMMA ProbeKeepsSensor ==
  ASSUME SensorInv, Sensor!Probe \/ \E r \in ConfigRegs : Sensor!WriteRegister(r)
  PROVE  SensorInv'
<1>1. UNCHANGED <<driver, sample, sPc, regs, data, since, out, shared>>
  BY DEF Sensor!Probe, Sensor!WriteRegister, Sensor!I2cApProbe, Sensor!SpiIcmProbe,
     Sensor!RegmapApProbe, Sensor!RegmapIcmProbe, Sensor!Configured
<1>2. CASE Sensor!Probe
  <2>1. /\ ~bound /\ bound' = TRUE /\ written' = written
        /\ driver \in {"i2c_ap", "spi_icm"} => written = ConfigRegs
    BY <1>2 DEF Sensor!Probe, Sensor!I2cApProbe, Sensor!SpiIcmProbe,
       Sensor!RegmapApProbe, Sensor!RegmapIcmProbe, Sensor!Configured, Sensor!Careful
  <2>. QED  BY <1>1, <2>1 DEF SensorInv, SensorTypes, Reading, Together, Configuration, Sensor!ReadIsFresh
<1>3. CASE \E r \in ConfigRegs : Sensor!WriteRegister(r)
  <2>1. ~bound /\ bound' = bound
    BY <1>3 DEF Sensor!WriteRegister
  <2>2. out.called = 0
    BY <2>1 DEF SensorInv, SensorTypes, Configuration
  <2>. QED
    BY <1>1, <2>1, <2>2
    DEF SensorInv, SensorTypes, Reading, Together, Configuration, Sensor!ReadIsFresh
<1>. QED  BY <1>2, <1>3

(* The sensor measures.                                                     *)
LEMMA MeasureKeepsSensor == SensorInv /\ Sensor!Measure => SensorInv'
<1>. SUFFICES ASSUME SensorInv, Sensor!Measure PROVE SensorInv'
  OBVIOUS
<1>1. UNCHANGED <<driver, bound, written, sPc, regs, data, since, out, shared>> /\ sample' = sample + 1
  BY DEF Sensor!Measure
<1>. QED
  BY <1>1 DEF SensorInv, SensorTypes, Reading, Together, Configuration, Sensor!ReadIsFresh

(* A reader begins.                                                         *)
LEMMA BeginKeepsSensor ==
  ASSUME SensorInv, NEW q \in Sensor!Readers, Sensor!Begin(q)
  PROVE  SensorInv'
<1>. DEFINE others == {s \in Sensor!Readers \ {q} : sPc[s] # "idle"}
<1>1. /\ bound /\ sPc[q] = "idle" /\ sPc' = [sPc EXCEPT ![q] = "reading"]
      /\ since' = [since EXCEPT ![q] = sample]
      /\ shared' = (shared \ {q}) \cup others \cup (IF others = {} THEN {} ELSE {q})
      /\ UNCHANGED <<driver, bound, written, sample, regs, data, out>>
  BY DEF Sensor!Begin
<1>2. SensorTypes'
  BY <1>1 DEF SensorInv, SensorTypes
<1>3. \A r \in Sensor!Readers : r # q => sPc'[r] = sPc[r] /\ since'[r] = since[r]
  BY <1>1 DEF SensorInv, SensorTypes
<1>4. sPc'[q] = "reading" /\ since'[q] = sample
  BY <1>1 DEF SensorInv, SensorTypes
<1>5. Reading'
  <2>. SUFFICES ASSUME NEW r \in Sensor!Readers
                PROVE  (/\ since[r] <= sample
                        /\ sPc[r] = "idle" => regs[r] = Sensor!NoWords /\ since[r] = 0
                        /\ \A w \in Words : regs[r][w] # 0 => regs[r][w] >= since[r]
                        /\ sPc[r] \in {"storing", "copying"} => \A w \in Words : regs[r][w] # 0
                        /\ sPc[r] = "storing" => driver = "regmap_ap"
                        /\ driver \in {"spi_icm", "regmap_icm"} =>
                             \A w, v \in Words : regs[r][w] = regs[r][v])'
    BY DEF Reading
  <2>1. CASE r = q
    <3>1. regs'[r] = Sensor!NoWords
      BY <1>1, <2>1 DEF SensorInv, Reading
    <3>. QED  BY <1>1, <1>4, <2>1, <3>1 DEF Sensor!NoWords, SensorInv, SensorTypes
  <2>2. CASE r # q
    BY <1>1, <1>3, <2>2 DEF SensorInv, Reading
  <2>. QED  BY <2>1, <2>2
<1>6. Together'
  <2>1. ASSUME NEW r \in Sensor!Readers, NEW s \in Sensor!Readers, r # s,
               sPc'[r] # "idle", sPc'[s] # "idle"
        PROVE  r \in shared'
    <3>1. CASE r = q
      <4>1. s \in others
        BY <1>3, <2>1, <3>1
      <4>. QED  BY <1>1, <3>1, <4>1
    <3>2. CASE r # q
      <4>1. r \in others
        BY <1>3, <2>1, <3>2
      <4>. QED  BY <1>1, <4>1
    <3>. QED  BY <3>1, <3>2
  <2>2. ASSUME NEW r \in Sensor!Readers, driver' = "regmap_ap", sPc'[r] = "copying", r \notin shared'
        PROVE  \A w \in Words : data'[w] >= since'[r]
    <3>1. r # q /\ sPc[r] = "copying" /\ since'[r] = since[r]
      BY <1>3, <1>4, <2>2
    <3>2. r \in others
      BY <3>1
    <3>. QED  BY <1>1, <2>2, <3>2
  <2>. QED  BY <2>1, <2>2 DEF Together
<1>7. Configuration'
  BY <1>1, <1>3, <1>4 DEF SensorInv, Configuration
<1>8. Sensor!ReadIsFresh'
  BY <1>1 DEF SensorInv, Sensor!ReadIsFresh
<1>. QED  BY <1>2, <1>5, <1>6, <1>7, <1>8 DEF SensorInv

(* A reader returns: it holds nothing any more and nobody is beside it.     *)
LEMMA LeaveKeepsReaders ==
  ASSUME SensorTypes, Reading, Together, Configuration, NEW q \in Sensor!Readers, Sensor!Leave(q),
         UNCHANGED <<driver, bound, written, sample>>,
         \/ data' = data
         \/ sPc[q] = "storing" /\ data' = regs[q]
  PROVE  /\ sPc' \in [Sensor!Readers -> {"idle", "reading", "storing", "copying"}]
         /\ regs' \in [Sensor!Readers -> [Words -> Nat]] /\ data' \in [Words -> Nat]
         /\ since' \in [Sensor!Readers -> Nat]
         /\ Reading' /\ Together' /\ (\A r \in Sensor!Readers : since'[r] > 0 => bound')
<1>1. Sensor!NoWords \in [Words -> Nat]
  BY DEF Sensor!NoWords
<1>2. /\ sPc'[q] = "idle" /\ regs'[q] = Sensor!NoWords /\ since'[q] = 0
      /\ \A r \in Sensor!Readers : r # q =>
           sPc'[r] = sPc[r] /\ regs'[r] = regs[r] /\ since'[r] = since[r]
  BY DEF Sensor!Leave, SensorTypes
<1>3. /\ sPc' \in [Sensor!Readers -> {"idle", "reading", "storing", "copying"}]
      /\ regs' \in [Sensor!Readers -> [Words -> Nat]] /\ data' \in [Words -> Nat]
      /\ since' \in [Sensor!Readers -> Nat]
  BY <1>1 DEF Sensor!Leave, SensorTypes
<1>4. Reading'
  <2>. SUFFICES ASSUME NEW r \in Sensor!Readers
                PROVE  (/\ since[r] <= sample
                        /\ sPc[r] = "idle" => regs[r] = Sensor!NoWords /\ since[r] = 0
                        /\ \A w \in Words : regs[r][w] # 0 => regs[r][w] >= since[r]
                        /\ sPc[r] \in {"storing", "copying"} => \A w \in Words : regs[r][w] # 0
                        /\ sPc[r] = "storing" => driver = "regmap_ap"
                        /\ driver \in {"spi_icm", "regmap_icm"} =>
                             \A w, v \in Words : regs[r][w] = regs[r][v])'
    BY DEF Reading
  <2>1. CASE r = q
    BY <1>2, <2>1 DEF Sensor!NoWords, SensorTypes
  <2>2. CASE r # q
    BY <1>2, <2>2 DEF Reading
  <2>. QED  BY <2>1, <2>2
<1>5. Together'
  <2>1. shared' = shared \ {q}
    BY DEF Sensor!Leave
  <2>2. ASSUME NEW r \in Sensor!Readers, NEW s \in Sensor!Readers, r # s,
               sPc'[r] # "idle", sPc'[s] # "idle"
        PROVE  r \in shared'
    BY <1>2, <2>1, <2>2 DEF Together
  <2>3. ASSUME NEW r \in Sensor!Readers, driver' = "regmap_ap", sPc'[r] = "copying", r \notin shared'
        PROVE  \A w \in Words : data'[w] >= since'[r]
    <3>1. r # q /\ sPc[r] = "copying" /\ since'[r] = since[r] /\ r \notin shared
      BY <1>2, <2>1, <2>3
    <3>2. data' = data
      BY <3>1 DEF Together, SensorTypes
    <3>. QED  BY <2>3, <3>1, <3>2 DEF Together
  <2>. QED  BY <2>2, <2>3 DEF Together
<1>6. \A r \in Sensor!Readers : since'[r] > 0 => bound'
  BY <1>2 DEF Configuration
<1>. QED  BY <1>3, <1>4, <1>5, <1>6

(* A transfer brings some words or all, or fails.                           *)
LEMMA TransferKeepsSensor ==
  ASSUME SensorInv, NEW q \in Sensor!Readers, NEW ws \in SUBSET Words,
         NEW goal \in {"storing", "copying"}, goal = "storing" => driver = "regmap_ap",
         driver \in {"spi_icm", "regmap_icm"} => ws = Words,
         driver = "regmap_ap" => goal = "storing",
         Sensor!Transfer(q, ws, goal)
  PROVE  SensorInv'
<1>1. sPc[q] = "reading" /\ UNCHANGED <<driver, bound, written, sample, data, out>>
  BY DEF Sensor!Transfer
<1>2. CASE Sensor!Error /\ Sensor!Leave(q)
  BY <1>1, <1>2, LeaveKeepsReaders DEF SensorInv, SensorTypes, Configuration, Sensor!ReadIsFresh
<1>3. CASE /\ regs' = [regs EXCEPT ![q] = [w \in Words |-> IF w \in ws THEN sample ELSE @[w]]]
           /\ sPc' = [sPc EXCEPT ![q] = IF \A w \in Words : regs'[q][w] # 0 THEN goal ELSE @]
           /\ UNCHANGED <<since, shared>>
  <2>1. [w \in Words |-> IF w \in ws THEN sample ELSE regs[q][w]] \in [Words -> Nat]
    BY DEF SensorInv, SensorTypes
  <2>2. /\ regs' \in [Sensor!Readers -> [Words -> Nat]]
        /\ regs'[q] = [w \in Words |-> IF w \in ws THEN sample ELSE regs[q][w]]
    BY <1>3, <2>1 DEF SensorInv, SensorTypes
  <2>3. sPc'[q] = IF \A w \in Words : regs'[q][w] # 0 THEN goal ELSE "reading"
    BY <1>1, <1>3 DEF SensorInv, SensorTypes
  <2>4. \A r \in Sensor!Readers : r # q => sPc'[r] = sPc[r] /\ regs'[r] = regs[r]
    BY <1>3 DEF SensorInv, SensorTypes
  <2>5. SensorTypes'
    BY <1>1, <1>3, <2>2 DEF SensorInv, SensorTypes
  <2>6. Reading'
    <3>. SUFFICES ASSUME NEW r \in Sensor!Readers
                  PROVE  (/\ since[r] <= sample
                          /\ sPc[r] = "idle" => regs[r] = Sensor!NoWords /\ since[r] = 0
                          /\ \A w \in Words : regs[r][w] # 0 => regs[r][w] >= since[r]
                          /\ sPc[r] \in {"storing", "copying"} => \A w \in Words : regs[r][w] # 0
                          /\ sPc[r] = "storing" => driver = "regmap_ap"
                          /\ driver \in {"spi_icm", "regmap_icm"} =>
                               \A w, v \in Words : regs[r][w] = regs[r][v])'
      BY DEF Reading
    <3>1. CASE r = q
      <4>1. \A w \in Words : regs'[q][w] # 0 => regs'[q][w] >= since[q]
        <5>1. since[q] \in Nat /\ sample \in Nat /\ since[q] <= sample /\ regs[q] \in [Words -> Nat]
          BY DEF SensorInv, SensorTypes, Reading
        <5>2. \A w \in Words : regs[q][w] # 0 => regs[q][w] >= since[q]
          BY DEF SensorInv, Reading
        <5>. QED  BY <2>2, <5>1, <5>2
      <4>2. since'[q] = since[q] /\ since[q] <= sample
        BY <1>3 DEF SensorInv, Reading
      <4>3. sPc'[q] \in {"storing", "copying"} => \A w \in Words : regs'[q][w] # 0
        BY <2>3
      <4>4. driver \in {"spi_icm", "regmap_icm"} => \A w, v \in Words : regs'[q][w] = regs'[q][v]
        BY <2>2
      <4>5. sPc'[q] # "idle" /\ (sPc'[q] = "storing" => driver = "regmap_ap")
        BY <2>3
      <4>. QED  BY <1>1, <3>1, <4>1, <4>2, <4>3, <4>4, <4>5
    <3>2. CASE r # q
      BY <1>1, <1>3, <2>4, <3>2 DEF SensorInv, Reading
    <3>. QED  BY <3>1, <3>2
  <2>7. Together'
    <3>1. \A r \in Sensor!Readers : sPc'[r] # "idle" <=> sPc[r] # "idle"
      BY <1>1, <2>3, <2>4
    <3>2. driver = "regmap_ap" => \A r \in Sensor!Readers : sPc'[r] = "copying" => sPc[r] = "copying"
      BY <2>3, <2>4
    <3>. QED  BY <1>1, <1>3, <3>1, <3>2 DEF SensorInv, Together
  <2>8. Configuration' /\ Sensor!ReadIsFresh'
    BY <1>1, <1>3 DEF SensorInv, Configuration, Sensor!ReadIsFresh
  <2>. QED  BY <2>5, <2>6, <2>7, <2>8 DEF SensorInv
<1>. QED  BY <1>2, <1>3 DEF Sensor!Transfer

(* read_values of regmap_ap leaves its sample in the chip.                  *)
LEMMA StoreKeepsSensor ==
  ASSUME SensorInv, NEW q \in Sensor!Readers, Sensor!Store(q)
  PROVE  SensorInv'
<1>1. /\ sPc[q] = "storing" /\ data' = regs[q]
      /\ UNCHANGED <<driver, bound, written, sample, out>>
  BY DEF Sensor!Store
<1>2. CASE Sensor!Leave(q)
  BY <1>1, <1>2, LeaveKeepsReaders DEF SensorInv, SensorTypes, Configuration, Sensor!ReadIsFresh
<1>3. CASE sPc' = [sPc EXCEPT ![q] = "copying"] /\ UNCHANGED <<regs, since, shared>>
  <2>1. sPc'[q] = "copying" /\ \A r \in Sensor!Readers : r # q => sPc'[r] = sPc[r]
    BY <1>3 DEF SensorInv, SensorTypes
  <2>2. SensorTypes' /\ Configuration' /\ Sensor!ReadIsFresh'
    BY <1>1, <1>3 DEF SensorInv, SensorTypes, Configuration, Sensor!ReadIsFresh
  <2>3. Reading'
    BY <1>1, <1>3, <2>1 DEF SensorInv, SensorTypes, Reading
  <2>4. Together'
    <3>1. ASSUME NEW r \in Sensor!Readers, NEW s \in Sensor!Readers, r # s,
                 sPc'[r] # "idle", sPc'[s] # "idle"
          PROVE  r \in shared'
      BY <1>1, <1>3, <2>1, <3>1 DEF SensorInv, Together
    <3>2. ASSUME NEW r \in Sensor!Readers, driver' = "regmap_ap", sPc'[r] = "copying", r \notin shared'
          PROVE  \A w \in Words : data'[w] >= since'[r]
      <4>1. r = q
        BY <1>1, <1>3, <2>1, <3>2 DEF SensorInv, Together
      <4>. QED  BY <1>1, <1>3, <4>1 DEF SensorInv, Reading
    <3>. QED  BY <3>1, <3>2 DEF Together
  <2>. QED  BY <2>2, <2>3, <2>4 DEF SensorInv
<1>. QED  BY <1>2, <1>3 DEF Sensor!Store

(* The caller gets its sample.                                              *)
LEMMA CopyKeepsSensor ==
  ASSUME SensorInv, NEW u \in Users, Sensor!Copy(u)
  PROVE  SensorInv'
<1>1. /\ sPc[u] = "copying" /\ Sensor!Leave(u)
      /\ out' = [words |-> IF driver = "regmap_ap" THEN data ELSE regs[u],
                 called |-> since[u], alone |-> u \notin shared]
      /\ UNCHANGED <<driver, bound, written, sample, data>>
  BY DEF Sensor!Copy
<1>2. u \in Sensor!Readers
  BY DEF Sensor!Readers
<1>3. SensorTypes' /\ Reading' /\ Together'
  BY <1>1, <1>2, LeaveKeepsReaders DEF SensorInv, SensorTypes
<1>4. Configuration'
  BY <1>1, <1>2, LeaveKeepsReaders DEF SensorInv, Configuration
<1>5. Sensor!ReadIsFresh'
  <2>1. driver # "regmap_ap" => \A w \in Words : regs[u][w] >= since[u]
    BY <1>1, <1>2 DEF SensorInv, Reading
  <2>2. driver = "regmap_ap" /\ u \notin shared => \A w \in Words : data[w] >= since[u]
    BY <1>1, <1>2 DEF SensorInv, Together
  <2>3. driver \in {"spi_icm", "regmap_icm"} => \A w, v \in Words : regs[u][w] = regs[u][v]
    BY <1>2 DEF SensorInv, Reading
  <2>4. driver \in {"i2c_ap", "spi_icm"} /\ since[u] > 0 => written = ConfigRegs
    BY <1>2 DEF SensorInv, Configuration
  <2>. QED  BY <1>1, <2>1, <2>2, <2>3, <2>4 DEF Sensor!ReadIsFresh
<1>. QED  BY <1>3, <1>4, <1>5 DEF SensorInv

(* The sensor drivers keep their invariant.                                 *)
LEMMA SensorInductive ==
  /\ Sensor!Init => SensorInv
  /\ SensorInv /\ [Sensor!Next]_sensorVars => SensorInv'
<1>1. ASSUME Sensor!Init PROVE SensorInv
  BY <1>1
  DEF Sensor!Init, Sensor!NoWords, SensorInv, SensorTypes, Reading, Together, Configuration,
      Sensor!ReadIsFresh
<1>2. ASSUME SensorInv, UNCHANGED sensorVars PROVE SensorInv'
  BY <1>2
  DEF sensorVars, SensorInv, SensorTypes, Reading, Together, Configuration, Sensor!ReadIsFresh
<1>3. ASSUME SensorInv, NEW q \in Sensor!Readers, Sensor!Read(q) PROVE SensorInv'
  <2>1. PICK ws \in SUBSET Words, goal \in {"storing", "copying"} :
          /\ Sensor!Transfer(q, ws, goal)
          /\ goal = "storing" <=> driver = "regmap_ap"
          /\ driver \in {"spi_icm", "regmap_icm"} => ws = Words
    BY <1>3
    DEF Sensor!Read, Sensor!I2cApRead, Sensor!SpiIcmRead, Sensor!RegmapApRead, Sensor!RegmapIcmRead,
        Sensor!InTurn, Sensor!AtOnce
  <2>. QED  BY <1>3, <2>1, TransferKeepsSensor
<1>4. ASSUME SensorInv, NEW u \in Users, Sensor!Begin(u) PROVE SensorInv'
  BY <1>4, BeginKeepsSensor DEF Sensor!Readers
<1>5. ASSUME SensorInv, Sensor!InterruptThread PROVE SensorInv'
  BY <1>5, BeginKeepsSensor DEF Sensor!Readers, Sensor!InterruptThread
<1>6. ASSUME SensorInv, Sensor!Next PROVE SensorInv'
  BY <1>3, <1>4, <1>5, <1>6, ProbeKeepsSensor, MeasureKeepsSensor, StoreKeepsSensor, CopyKeepsSensor
  DEF Sensor!Next
<1>. QED  BY <1>1, <1>2, <1>6

(* What a read returns is not older than its call, the words of the motion  *)
(* sensors belong together, and a driver that looks at its transfers has    *)
(* configured the sensor before.                                            *)
THEOREM ReadsAreFresh == MCSpec => []ReadIsFresh
<1>1. MCInit => SensorInv
  BY SensorInductive DEF MCInit
<1>2. SensorInv /\ [MCNext]_<<which, vars, diskVars, sensorVars, pwmVars, outputVars>> => SensorInv'
  BY SensorInductive DEF MCNext, AdcNext, DiskNext, SensorNext, PwmNext, OutputNext, sensorVars
<1>3. SensorInv => ReadIsFresh
  BY DEF SensorInv, ReadIsFresh
<1>. QED  BY <1>1, <1>2, <1>3, PTL DEF MCSpec

-----------------------------------------------------------------------------
\* Pwm: the states of the core, the positions in pwm_driver_apply, the calls.
States == [enabled : BOOLEAN, duty : Nat, period : Nat]
Steps == {"idle", "apply", "wait", "clocks", "sar", "control", "store"}
Ops == {"duty", "config", "enable", "on", "disable", "off"}
Records == [level : Nat, calls : Seq([op : Ops, to : Nat]), at : Steps, seen : BOOLEAN, want : States]
PwmTypes ==
  /\ consumer \in Wave!Consumers /\ boot \in BOOLEAN /\ cell \in Nat /\ flag \in Nat /\ core \in States
  /\ caller \in [Wave!All -> Records]
  /\ clk \in Nat /\ en \in BOOLEAN /\ fifo \in Seq(Nat) /\ pSample \in Nat /\ duty \in Nat
  /\ level \in Nat /\ mixed \in BOOLEAN /\ raced \in BOOLEAN /\ stopped \in BOOLEAN /\ doubt \in BOOLEAN

\* The calls still to come are the last ones of a request.
Script(c) ==
  LET r == caller[c] IN
  /\ IF consumer = "backlight"
     THEN \/ r.calls = <<>>
          \/ r.calls = <<Wave!compute_duty_cycle(r.level), Wave!Op("on")>> /\ r.level > 0
          \/ r.calls = <<Wave!Op("on")>> /\ r.level > 0
          \/ r.calls = <<Wave!Op("off")>> /\ r.level = 0
     ELSE \/ r.calls = <<>>
          \/ r.calls = <<Wave!Op("config"), Wave!Op("enable")>> /\ r.level > 0
          \/ r.calls = <<Wave!Op("enable")>> /\ r.level > 0
          \/ r.calls = <<Wave!Op("disable")>> /\ r.level = 0
  /\ consumer = "backlight" => r.level <= Scale
  /\ Wave!InCall(c) => Wave!Busy(c) /\ ~Wave!Refused(r.want)
Scripts == \A c \in Wave!All : Script(c)
\* The core holds a state it would not refuse.
CoreValid == ~Wave!Refused(core) /\ (consumer = "backlight" => core.period = Scale)

Switches == {"enable", "on", "disable", "off"}
\* What the call under way applies.
Applies(c) ==
  Wave!InCall(c) =>
    LET w == caller[c].want o == Wave!Current(c).op IN
    /\ o \in {"enable", "on"} => w.enabled
    /\ o \in {"disable", "off"} => ~w.enabled
    /\ o \notin Switches /\ ~stopped => w.enabled = core.enabled
    /\ consumer = "backlight" => w.period = Scale
Applied == \A c \in Wave!All : Applies(c)

\* One has switched off, or on, in the registers and has not stored it; one has reset the PWM.
Closing == \E c \in Wave!All : Wave!At(c, "store") /\ ~caller[c].want.enabled
Resetting == \E c \in Wave!All : caller[c].at \in {"sar", "control"} /\ ~caller[c].seen
Opening == \E c \in Wave!All : Wave!At(c, "store") /\ caller[c].want.enabled
\* What the history says of the calls under way at a time.
Overlaps ==
  /\ stopped => raced
  /\ ~raced => \A c, d \in Wave!All : Wave!InCall(c) /\ Wave!InCall(d) => c = d
  /\ ~stopped => \A c, d \in Wave!All : Wave!InCall(c) /\ Wave!InCall(d) /\ c # d => caller[c].want.enabled
\* The clocks, and the enable bit, follow the core, but for the calls under way.
Clocked == ~stopped =>
  /\ \A c \in Wave!All : caller[c].at \in {"wait", "sar", "control"} => clk > 0
  /\ Opening => clk > 0
  /\ core.enabled /\ ~Closing => clk > 0
Enabled == ~stopped =>
  /\ core.enabled /\ ~Resetting /\ ~Closing => en
  /\ Opening /\ ~Resetting => en
  /\ en => core.enabled \/ Opening
  /\ Closing => ~en
\* The call that a request ends with.
LastOp(c) == caller[c].calls[Len(caller[c].calls)].op
Pending(o) == \E c \in Wave!All : Wave!Busy(c) /\ LastOp(c) = o
\* The flag of the backlight follows the core, but for the requests under way.
Flags == ~stopped /\ ~doubt =>
  /\ consumer = "backlight" /\ flag > 0 => core.enabled \/ Pending("off")
  /\ consumer = "backlight" /\ flag = 0 => ~core.enabled \/ Pending("on")
  /\ Wave!Quiet => core.enabled = (level > 0)
\* The cooling core lets one request for the fan through at a time.
FanFlag == consumer = "fan" => ~mixed /\ (Wave!Quiet => level = flag)
\* The clocks counted exactly, and the newest sample, while no two calls overlap.
Counted ==
  LET e == Wave!OnOff(core.enabled) b == Wave!OnOff(boot) IN
  ~raced =>
  /\ (\A c \in Wave!All : ~Wave!InCall(c)) => clk = e + b
  /\ \A c \in Wave!All :
       /\ caller[c].at \in {"apply", "wait", "clocks"} => clk = e + b
       /\ Wave!At(c, "wait") => core.enabled
       /\ Wave!At(c, "clocks") => ~core.enabled
       /\ caller[c].at \in {"sar", "control"} => clk = 1 + b
       /\ Wave!At(c, "store") => clk = Wave!OnOff(caller[c].want.enabled) + b
NewestIs == ~raced =>
  /\ (\A c \in Wave!All : caller[c].at \in {"idle", "apply", "wait", "clocks"}) => Wave!Newest = core.duty
  /\ \A c \in Wave!All : /\ Wave!At(c, "wait") => en
                         /\ Wave!At(c, "sar") => Len(fifo) < 3
                         /\ caller[c].at \in {"control", "store"} => Wave!Newest = caller[c].want.duty
\* Without requests that mix there is one at a time.
Alone == ~mixed => \A c, d \in Wave!All : Wave!Busy(c) /\ Wave!Busy(d) => c = d
\* s has the duty cycle that is promised for level l.
Right(s, l) ==
  /\ consumer = "backlight" /\ l > 0 => s.duty = l
  /\ consumer # "backlight" /\ l = Scale => s.duty = Scale /\ s.period = Scale
\* The duty cycle on its way from the request to the core.
Duties == ~mixed /\ ~raced /\ ~doubt =>
  /\ Wave!Quiet => Right(core, level)
  /\ \A c \in Wave!All : Wave!Busy(c) =>
       /\ Len(caller[c].calls) = 2 => consumer = "backlight" \/ cell = caller[c].level
       /\ Wave!Current(c).op \in {"enable", "on"} => Right(core, caller[c].level)
       /\ Wave!InCall(c) /\ caller[c].level > 0 => Right(caller[c].want, caller[c].level)
\* A call waits for the FIFO if it saw the PWM on, and takes the clocks otherwise.
Branched == \A c \in Wave!All : (Wave!At(c, "wait") => caller[c].seen) /\ (Wave!At(c, "clocks") => ~caller[c].seen)
\* The inductive invariant.
PwmInv == PwmTypes /\ Branched /\ Scripts /\ CoreValid /\ Applied /\ Overlaps /\ Clocked /\ Enabled /\ Flags
          /\ FanFlag /\ Counted /\ NewestIs /\ Alone /\ Duties

\* What stays with a caller that goes on in pwm_driver_apply.
Onward(c) ==
  /\ c \in Wave!All /\ Wave!InCall(c)
  /\ caller' \in [Wave!All -> Records] /\ caller'[c].at # "idle"
  /\ caller'[c].level = caller[c].level /\ caller'[c].calls = caller[c].calls /\ caller'[c].want = caller[c].want
  /\ \A d \in Wave!All \ {c} : caller'[d] = caller[d]

(* The next position in pwm_driver_apply.                                   *)
LEMMA GoIs ==
  ASSUME PwmTypes, NEW c \in Wave!All, NEW a \in Steps \ {"idle"}, Wave!InCall(c), Wave!Go(c, a)
  PROVE  Onward(c) /\ caller'[c].at = a /\ caller'[c].seen = caller[c].seen
BY DEF PwmTypes, Records, Onward, Wave!Go

(* What does not depend on the position is as before.                       *)
LEMMA OnwardKeeps ==
  ASSUME PwmInv, NEW c \in Wave!All, Onward(c), UNCHANGED <<consumer, boot, cell, flag, core, Wave!history>>
  PROVE  /\ Scripts' /\ CoreValid' /\ Applied' /\ Overlaps' /\ Flags' /\ FanFlag' /\ Alone' /\ Duties'
         /\ \A d \in Wave!All : Wave!Busy(d)' = Wave!Busy(d) /\ Wave!InCall(d)' = Wave!InCall(d)
               /\ caller'[d].want = caller[d].want
<1>1. /\ consumer' = consumer /\ cell' = cell /\ flag' = flag /\ core' = core /\ level' = level
      /\ mixed' = mixed /\ raced' = raced /\ stopped' = stopped /\ doubt' = doubt
  BY DEF Wave!history
<1>2. \A d \in Wave!All : /\ caller'[d].level = caller[d].level /\ caller'[d].calls = caller[d].calls
                          /\ caller'[d].want = caller[d].want
  BY DEF Onward
<1>3. \A d \in Wave!All : Wave!Busy(d)' = Wave!Busy(d) /\ Wave!InCall(d)' = Wave!InCall(d)
  BY <1>2 DEF Onward, Wave!Busy, Wave!InCall
<1>4. \A d \in Wave!All : Wave!Current(d)' = Wave!Current(d)
  BY <1>2 DEF Wave!Current
<1>5. Scripts'
  BY <1>1, <1>2, <1>3 DEF PwmInv, Scripts, Script, Wave!Refused
<1>6. CoreValid'
  BY <1>1 DEF PwmInv, CoreValid, Wave!Refused
<1>7. Applied'
  BY <1>1, <1>2, <1>3, <1>4 DEF PwmInv, Applied, Applies
<1>8. Overlaps'
  BY <1>1, <1>2, <1>3 DEF PwmInv, Overlaps
<1>9. Wave!Quiet' = Wave!Quiet
  BY <1>3 DEF Wave!Quiet
<1>10. \A o : Pending(o)' = Pending(o)
  BY <1>2, <1>3 DEF Pending, LastOp
<1>11. Flags' /\ FanFlag'
  BY <1>1, <1>9, <1>10 DEF PwmInv, Flags, FanFlag
<1>12. Alone'
  BY <1>1, <1>3 DEF PwmInv, Alone
<1>13. Duties'
  BY <1>1, <1>2, <1>3, <1>4, <1>9 DEF PwmInv, Duties, Right
<1>. QED  BY <1>2, <1>3, <1>5, <1>6, <1>7, <1>8, <1>11, <1>12, <1>13

(* The driver looks at the state of the core.                               *)
LEMMA ApplyKeeps == ASSUME PwmInv, NEW c \in Wave!All, Wave!Apply(c) PROVE PwmInv'
<1>1. PwmTypes
  BY DEF PwmInv
<1>2. /\ Onward(c) /\ Wave!At(c, "apply")
      /\ caller'[c].at = (IF core.enabled THEN "wait" ELSE "clocks") /\ caller'[c].seen = core.enabled
  BY <1>1 DEF PwmTypes, Records, States, Onward, Wave!Apply, Wave!At, Wave!InCall, Steps
<1>3. UNCHANGED <<consumer, boot, cell, flag, core, duty, Wave!hardware, Wave!history>>
  BY DEF Wave!Apply
<1>4. /\ UNCHANGED <<consumer, boot, cell, flag, core, duty, clk, en, fifo, pSample>>
      /\ UNCHANGED <<level, mixed, raced, stopped, doubt>>
  BY <1>3 DEF Wave!hardware, Wave!history
<1>5. PwmTypes'
  BY <1>1, <1>2, <1>4 DEF PwmTypes, Onward
<1>6. /\ Closing' = Closing /\ Opening' = Opening /\ Resetting' = Resetting
  BY <1>2 DEF Closing, Opening, Resetting, Wave!At, Onward
<1>7. Enabled'
  BY <1>4, <1>6 DEF PwmInv, Enabled
<1>8. Clocked'
  <2>1. Closing /\ ~stopped => ~core.enabled \/ ~Wave!At(c, "apply")
    BY <1>2 DEF PwmInv, Overlaps, Closing, Wave!At, Wave!InCall
  <2>. QED  BY <1>2, <1>4, <1>6, <2>1 DEF PwmInv, Clocked, Onward, Wave!At
<1>9. Counted'
  BY <1>2, <1>4, OnwardKeeps, <1>3 DEF PwmInv, Counted, Wave!OnOff, Wave!At, Onward
<1>10. NewestIs'
  <2>1. ~raced /\ core.enabled => en
    BY <1>2 DEF PwmInv, Overlaps, Enabled, Resetting, Closing, Wave!At, Wave!InCall
  <2>. QED  BY <1>2, <1>4, <2>1 DEF PwmInv, NewestIs, Wave!Newest, Wave!At, Onward
<1>11. Branched'
  BY <1>2 DEF PwmInv, Branched, Wave!At, Onward
<1>. QED  BY <1>2, <1>3, <1>5, <1>7, <1>8, <1>9, <1>10, <1>11, OnwardKeeps DEF PwmInv

(* The FIFO has room.                                                       *)
LEMMA WaitKeeps == ASSUME PwmInv, NEW c \in Wave!All, Wave!WaitFifoSlot(c) PROVE PwmInv'
<1>1. PwmTypes
  BY DEF PwmInv
<1>2. /\ Onward(c) /\ Wave!At(c, "wait") /\ caller'[c].at = "sar"
      /\ caller'[c].seen = caller[c].seen /\ caller[c].seen
  BY <1>1, GoIs DEF Wave!WaitFifoSlot, Wave!At, Wave!InCall, Steps, PwmInv, Branched
<1>3. /\ UNCHANGED <<consumer, boot, cell, flag, core, duty, Wave!hardware, Wave!history>>
      /\ UNCHANGED <<consumer, boot, cell, flag, core, duty, clk, en, fifo, pSample>>
      /\ UNCHANGED <<level, mixed, raced, stopped, doubt>>
  BY DEF Wave!WaitFifoSlot, Wave!hardware, Wave!history
<1>4. PwmTypes' /\ Branched'
  BY <1>1, <1>2, <1>3 DEF PwmTypes, Onward, PwmInv, Branched, Wave!At
<1>5. Closing' = Closing /\ Opening' = Opening /\ Resetting' = Resetting
  BY <1>2 DEF Closing, Opening, Resetting, Wave!At, Onward
<1>6. Enabled' /\ Clocked'
  BY <1>2, <1>3, <1>5 DEF PwmInv, Enabled, Clocked, Wave!At, Onward
<1>7. Counted'
  BY <1>2, <1>3, OnwardKeeps DEF PwmInv, Counted, Wave!OnOff, Wave!At, Onward
<1>8. NewestIs'
  BY <1>1, <1>2, <1>3 DEF PwmInv, NewestIs, Wave!Newest, Wave!At, Onward, Wave!WaitFifoSlot
<1>. QED  BY <1>2, <1>3, <1>4, <1>6, <1>7, <1>8, OnwardKeeps DEF PwmInv

(* The clocks are enabled and the PWM is reset.                             *)
LEMMA ClocksKeep == ASSUME PwmInv, NEW c \in Wave!All, Wave!Clocks(c) PROVE PwmInv'
<1>1. PwmTypes
  BY DEF PwmInv
<1>2. /\ Onward(c) /\ Wave!At(c, "clocks") /\ caller'[c].at = "sar"
      /\ caller'[c].seen = caller[c].seen /\ ~caller[c].seen
  BY <1>1, GoIs DEF Wave!Clocks, Wave!At, Wave!InCall, Steps, PwmInv, Branched
<1>3. /\ UNCHANGED <<consumer, boot, cell, flag, core, duty, level, mixed, raced, stopped, doubt, Wave!history>>
      /\ clk' = clk + 1 /\ en' = FALSE /\ fifo' = <<>> /\ pSample' = 0
  BY DEF Wave!Clocks, Wave!history
<1>4. PwmTypes' /\ Branched'
  <2>1. clk' \in Nat /\ pSample' \in Nat
    BY <1>1, <1>3 DEF PwmTypes
  <2>4. en' \in BOOLEAN
    BY <1>3
  <2>2. <<>> \in Seq(Nat)
    OBVIOUS
  <2>3. fifo' \in Seq(Nat)
    BY <1>3, <2>2
  <2>. QED  BY <1>1, <1>2, <1>3, <2>1, <2>3, <2>4 DEF PwmTypes, Onward, PwmInv, Branched, Wave!At
<1>5. Closing' = Closing /\ Opening' = Opening /\ Resetting'
  BY <1>2 DEF Closing, Opening, Resetting, Wave!At, Onward
<1>6. ~stopped => ~Closing
  BY <1>2 DEF PwmInv, Overlaps, Closing, Wave!At, Wave!InCall
<1>7. Clocked'
  BY <1>1, <1>2, <1>3, <1>5 DEF PwmTypes, PwmInv, Clocked, Wave!At, Onward
<1>8. Enabled'
  <2>1. ~stopped /\ en => core.enabled \/ Opening
    BY DEF PwmInv, Enabled
  <2>. QED  BY <1>3, <1>5, <1>6, <2>1 DEF Enabled
<1>9. ~raced => \A d \in Wave!All : Wave!InCall(d) => d = c
  BY <1>2 DEF PwmInv, Overlaps, Wave!InCall, Wave!At
<1>10. Counted'
  BY <1>1, <1>2, <1>3, <1>9 DEF PwmTypes, PwmInv, Counted, Wave!OnOff, Wave!At, Onward, Wave!InCall
<1>11. NewestIs'
  BY <1>2, <1>3, <1>9 DEF NewestIs, Wave!Newest, Wave!At, Onward, Wave!InCall
<1>. QED  BY <1>2, <1>3, <1>4, <1>7, <1>8, <1>10, <1>11, OnwardKeeps DEF PwmInv

(* The first n elements of a sequence.                                      *)
LEMMA FirstOfSeq ==
  ASSUME NEW q, NEW n \in Nat \ {0}, \A i \in 1..n : q[i] \in Nat
  PROVE  SubSeq(q, 1, n) \in Seq(Nat) /\ Len(SubSeq(q, 1, n)) = n /\ SubSeq(q, 1, n)[n] = q[n]
<1>1. /\ SubSeq(q, 1, n) \in Seq(Nat)
      /\ Len(SubSeq(q, 1, n)) = IF 1 <= n THEN n - 1 + 1 ELSE 0
      /\ \A i \in 1..(n - 1 + 1) : SubSeq(q, 1, n)[i] = q[1 + i - 1]
  <2>1. 1 \in Int /\ n \in Int /\ \A i \in 1..n : q[i] \in Nat
    OBVIOUS
  <2>. QED  BY <2>1, SubSeqProperties
<1>2. 1 <= n /\ n - 1 + 1 = n /\ n \in 1..(n - 1 + 1) /\ 1 + n - 1 = n
  OBVIOUS
<1>. QED  BY <1>1, <1>2

(* The samples are written; the last one written is the duty cycle asked for. *)
LEMMA SamplesKeep == ASSUME PwmInv, NEW c \in Wave!All, Wave!WriteSamples(c) PROVE PwmInv'
<1>. DEFINE d == caller[c].want.duty
<1>1. PwmTypes /\ d \in Nat
  BY DEF PwmInv, PwmTypes, Records, States
<1>2. Onward(c) /\ Wave!At(c, "sar") /\ caller'[c].at = "control" /\ caller'[c].seen = caller[c].seen
  BY <1>1, GoIs DEF Wave!WriteSamples, Wave!At, Wave!InCall, Steps
<1>3. /\ UNCHANGED <<consumer, boot, cell, flag, core, duty, clk, en, pSample, Wave!history>>
      /\ UNCHANGED <<level, mixed, raced, stopped, doubt>>
  BY DEF Wave!WriteSamples, Wave!history
<1>4. /\ Wave!Samples(d) \in Seq(Nat) /\ Wave!Samples(d)[Len(Wave!Samples(d))] = d
      /\ Len(Wave!Samples(d)) = 1 \/ Len(Wave!Samples(d)) = 2
  BY <1>1 DEF Wave!Samples, PwmTypes
<1>5. PICK s : s = Wave!Samples(d)
  OBVIOUS
<1>6. PICK n \in Nat : n = IF Len(fifo) < Wave!FifoWords - 1 THEN Len(fifo) + Len(s) ELSE Wave!FifoWords
  BY <1>1, <1>4, <1>5 DEF PwmTypes, Wave!FifoWords
<1>7. fifo' = SubSeq(fifo \o s, 1, n)
  BY <1>5, <1>6 DEF Wave!WriteSamples
<1>8. fifo' \in Seq(Nat) /\ (Len(fifo) < 3 => fifo' # <<>> /\ fifo'[Len(fifo')] = d)
  <2>1. PICK k \in Nat, m \in 1..2 : k = Len(fifo) /\ m = Len(s)
    BY <1>1, <1>4, <1>5 DEF PwmTypes
  <2>2. /\ n = IF k < 3 THEN k + m ELSE 4
        /\ n \in 1..(k + m) /\ n # 0 /\ (k < 3 => n = k + m)
    BY <1>6, <2>1 DEF Wave!FifoWords
  <2>3. fifo \in Seq(Nat) /\ s \in Seq(Nat)
    BY <1>1, <1>4, <1>5 DEF PwmTypes
  <2>4. /\ fifo \o s \in Seq(Nat) /\ Len(fifo \o s) = k + m
        /\ (fifo \o s)[k + m] = s[m]
    <3>1. k + m \in 1..(k + m) /\ ~(k + m <= k) /\ k + m - k = m
      BY <2>1
    <3>. QED  BY <2>1, <2>3, <3>1, ConcatProperties
  <2>5. \A i \in 1..n : (fifo \o s)[i] \in Nat
    <3>. TAKE i \in 1..n
    <3>1. i \in 1..Len(fifo \o s)
      BY <2>2, <2>4
    <3>. QED  BY <2>4, <3>1, ElementOfSeq
  <2>6. /\ SubSeq(fifo \o s, 1, n) \in Seq(Nat) /\ Len(SubSeq(fifo \o s, 1, n)) = n
        /\ SubSeq(fifo \o s, 1, n)[n] = (fifo \o s)[n]
    BY <2>2, <2>5, FirstOfSeq
  <2>. QED  BY <1>4, <1>5, <1>7, <2>1, <2>2, <2>4, <2>6
<1>9. Len(fifo) < 3 => fifo' # <<>> /\ fifo'[Len(fifo')] = d
  BY <1>8
<1>10. PwmTypes' /\ Branched'
  BY <1>1, <1>2, <1>3, <1>8 DEF PwmTypes, Onward, PwmInv, Branched, Wave!At
<1>11. Closing' = Closing /\ Opening' = Opening /\ Resetting' = Resetting
  BY <1>2 DEF Closing, Opening, Resetting, Wave!At, Onward
<1>12. Enabled' /\ Clocked'
  BY <1>2, <1>3, <1>11 DEF PwmInv, Enabled, Clocked, Wave!At, Onward
<1>13. Counted'
  BY <1>2, <1>3, OnwardKeeps DEF PwmInv, Counted, Wave!OnOff, Wave!At, Onward
<1>14. ~raced => \A e \in Wave!All : Wave!InCall(e) => e = c
  BY <1>2 DEF PwmInv, Overlaps, Wave!InCall, Wave!At
<1>15. ~raced => Wave!Newest' = d
  BY <1>2, <1>9 DEF PwmInv, NewestIs, Wave!Newest
<1>16. NewestIs'
  BY <1>2, <1>3, <1>14, <1>15 DEF PwmInv, NewestIs, Wave!At, Onward, Wave!InCall
<1>. QED  BY <1>2, <1>3, <1>10, <1>12, <1>13, <1>16, OnwardKeeps DEF PwmInv

(* The control register is written and the clocks go off with the PWM.      *)
LEMMA ControlKeeps == ASSUME PwmInv, NEW c \in Wave!All, Wave!WriteControl(c) PROVE PwmInv'
<1>. DEFINE w == caller[c].want
<1>1. PwmTypes /\ w \in States
  BY DEF PwmInv, PwmTypes, Records
<1>2. Onward(c) /\ Wave!At(c, "control") /\ caller'[c].at = "store" /\ caller'[c].want = w
  BY <1>1, GoIs DEF Wave!WriteControl, Wave!At, Wave!InCall, Steps, Onward
<1>3. /\ UNCHANGED <<consumer, boot, cell, flag, core, fifo, pSample, Wave!history>>
      /\ UNCHANGED <<level, mixed, raced, stopped, doubt>>
      /\ en' = w.enabled /\ duty' = w.duty /\ clk' = Wave!Gated(c)
  BY DEF Wave!WriteControl, Wave!history
<1>4. PwmTypes' /\ Branched'
  BY <1>1, <1>2, <1>3 DEF PwmTypes, Onward, PwmInv, Branched, Wave!At, Wave!Gated, States
<1>5. ~stopped /\ ~w.enabled => \A d \in Wave!All : Wave!InCall(d) => d = c
  BY <1>2 DEF PwmInv, Overlaps, Wave!InCall, Wave!At
<1>6. ~stopped => clk > 0
  BY <1>2 DEF PwmInv, Clocked, Wave!At
<1>7. CASE w.enabled
  <2>1. Closing' = Closing /\ Opening' /\ clk' = clk /\ en' = TRUE
    BY <1>2, <1>3, <1>7, <1>1 DEF Closing, Opening, Wave!At, Onward, Wave!Gated, States
  <2>2. ~stopped => ~Closing
    BY <1>2 DEF PwmInv, Overlaps, Closing, Wave!At, Wave!InCall
  <2>. QED
    <3>1. Clocked'
      BY <1>2, <1>3, <1>6, <2>1 DEF PwmInv, Clocked, Wave!At, Onward
    <3>2. Enabled'
      BY <1>3, <2>1, <2>2 DEF Enabled
    <3>3. Counted' /\ NewestIs'
      BY <1>2, <1>3, <1>7, <2>1, OnwardKeeps DEF PwmInv, Counted, NewestIs, Wave!Newest, Wave!OnOff, Wave!At,
         Onward, Wave!InCall
    <3>. QED  BY <1>2, <1>3, <1>4, <3>1, <3>2, <3>3, OnwardKeeps DEF PwmInv
<1>8. CASE ~w.enabled
  <2>1. Closing' /\ en' = FALSE
    BY <1>1, <1>2, <1>3, <1>8 DEF Closing, Wave!At, Onward, States
  <2>2. ~stopped => ~Opening'
    BY <1>2, <1>5, <1>8 DEF Opening, Wave!At, Onward, Wave!InCall
  <2>3. Clocked'
    BY <1>2, <1>3, <1>5, <2>1, <2>2 DEF Clocked, Wave!At, Onward, Wave!InCall
  <2>4. Enabled'
    <3>1. ~stopped /\ en' => FALSE
      BY <2>1
    <3>. QED  BY <1>3, <2>1, <2>2 DEF Enabled
  <2>5. ~raced => \A d \in Wave!All : Wave!InCall(d) => d = c
    BY <1>2 DEF PwmInv, Overlaps, Wave!InCall, Wave!At
  <2>6. ~raced => clk = 1 + Wave!OnOff(boot)
    BY <1>2 DEF PwmInv, Counted, Wave!At
  <2>7. ~raced => clk' = Wave!OnOff(boot)
    BY <1>1, <1>3, <1>8, <2>6 DEF Wave!Gated, Wave!OnOff
  <2>8. Counted'
    BY <1>1, <1>2, <1>3, <1>8, <2>5, <2>7 DEF Counted, Wave!OnOff, Wave!At, Onward, Wave!InCall
  <2>9. NewestIs'
    BY <1>2, <1>3, <2>5 DEF PwmInv, NewestIs, Wave!Newest, Wave!At, Onward, Wave!InCall
  <2>. QED  BY <1>2, <1>3, <1>4, <2>3, <2>4, <2>8, <2>9, OnwardKeeps DEF PwmInv
<1>. QED  BY <1>7, <1>8

(* The output takes the next sample.                                        *)
LEMMA ConsumeKeeps == ASSUME PwmInv, Wave!Consume PROVE PwmInv'
<1>1. PwmTypes
  BY DEF PwmInv
<1>2. /\ UNCHANGED <<consumer, boot, cell, flag, caller, core, duty, clk, en>>
      /\ UNCHANGED <<level, mixed, raced, stopped, doubt>>
      /\ fifo # <<>> /\ pSample' = Head(fifo) /\ fifo' = Tail(fifo)
  BY DEF Wave!Consume, Wave!history
<1>3. Wave!Newest' = Wave!Newest /\ Len(fifo') = Len(fifo) - 1 /\ fifo' \in Seq(Nat) /\ pSample' \in Nat
         /\ Len(fifo) \in Nat
  <2>1. /\ fifo \in Seq(Nat) /\ fifo' \in Seq(Nat) /\ pSample' \in Nat /\ Len(fifo') = Len(fifo) - 1
        /\ \A i \in 1..Len(fifo') : fifo'[i] = fifo[i + 1]
    BY <1>1, <1>2, HeadTailProperties DEF PwmTypes
  <2>2. Len(fifo) \in Nat /\ Len(fifo') \in Nat /\ (fifo' = <<>> <=> Len(fifo') = 0)
    BY <2>1
  <2>3. CASE fifo' = <<>>
    BY <1>2, <2>1, <2>2, <2>3 DEF Wave!Newest
  <2>4. CASE fifo' # <<>>
    <3>1. Len(fifo') \in 1..Len(fifo') /\ Len(fifo') + 1 = Len(fifo)
      BY <2>1, <2>2, <2>4
    <3>. QED  BY <1>2, <2>1, <2>2, <2>4, <3>1 DEF Wave!Newest
  <2>. QED  BY <2>1, <2>2, <2>3, <2>4
<1>4. PwmTypes'
  BY <1>1, <1>2, <1>3 DEF PwmTypes
<1>5. NewestIs'
  BY <1>2, <1>3 DEF PwmInv, NewestIs, Wave!At
<1>6. /\ Branched' /\ Scripts' /\ CoreValid' /\ Applied' /\ Overlaps' /\ FanFlag' /\ Alone' /\ Counted'
  BY <1>2 DEF PwmInv, Branched, Scripts, Script, CoreValid, Wave!Refused, Applied, Applies, Overlaps, FanFlag,
              Alone, Counted, Wave!Quiet, Wave!Busy, Wave!InCall, Wave!Current, Wave!At
<1>7. Clocked' /\ Enabled'
  BY <1>2 DEF PwmInv, Clocked, Enabled, Closing, Resetting, Opening, Wave!At
<1>8. Flags' /\ Duties'
  BY <1>2 DEF PwmInv, Flags, Duties, Pending, LastOp, Wave!Quiet, Right, Wave!Busy, Wave!InCall, Wave!Current
<1>. QED  BY <1>4, <1>5, <1>6, <1>7, <1>8 DEF PwmInv

(* One call, and two.                                                       *)
LEMMA PairHas ==
  ASSUME NEW p, NEW q
  PROVE  /\ Len(<<p, q>>) = 2 /\ Head(<<p, q>>) = p /\ Tail(<<p, q>>) = <<q>>
         /\ Len(<<p>>) = 1 /\ Head(<<p>>) = p /\ Tail(<<p>>) = <<>> /\ <<p>>[1] = p /\ <<p, q>>[2] = q
OBVIOUS

(* A request is either at the call before its last one or at its last one. *)
LEMMA Turns ==
  ASSUME PwmInv, NEW c \in Wave!All, Wave!Busy(c)
  PROVE  /\ \/ /\ Len(caller[c].calls) = 2 /\ ~Wave!LastCall(c) /\ caller[c].level > 0
               /\ IF consumer = "backlight"
                  THEN Wave!Current(c) = Wave!compute_duty_cycle(caller[c].level)
                     /\ Tail(caller[c].calls) = <<Wave!Op("on")>>
                  ELSE Wave!Current(c) = Wave!Op("config") /\ Tail(caller[c].calls) = <<Wave!Op("enable")>>
            \/ /\ Len(caller[c].calls) = 1 /\ Wave!LastCall(c)
               /\ caller[c].level > 0 => Wave!Current(c) = Wave!Op(IF consumer = "backlight" THEN "on" ELSE "enable")
               /\ ~(caller[c].level > 0) => Wave!Current(c) = Wave!Op(IF consumer = "backlight" THEN "off"
                     ELSE "disable")
         /\ caller[c].level \in Nat
         /\ LastOp(c) = IF caller[c].level > 0 THEN IF consumer = "backlight" THEN "on" ELSE "enable"
                                               ELSE IF consumer = "backlight" THEN "off" ELSE "disable"
<1>1. Script(c) /\ caller[c].level \in Nat
  BY DEF PwmInv, Scripts, PwmTypes, Records
<1>2. CASE consumer = "backlight"
  <2>1. CASE caller[c].calls = <<Wave!compute_duty_cycle(caller[c].level), Wave!Op("on")>> /\ caller[c].level > 0
    BY <1>1, <1>2, <2>1, PairHas DEF Wave!LastCall, Wave!Current, LastOp, Wave!Op
  <2>2. CASE caller[c].calls = <<Wave!Op("on")>> /\ caller[c].level > 0
    BY <1>1, <1>2, <2>2, PairHas DEF Wave!LastCall, Wave!Current, LastOp, Wave!Op
  <2>3. CASE caller[c].calls = <<Wave!Op("off")>> /\ caller[c].level = 0
    BY <1>1, <1>2, <2>3, PairHas DEF Wave!LastCall, Wave!Current, LastOp, Wave!Op
  <2>. QED  BY <1>1, <1>2, <2>1, <2>2, <2>3 DEF Script, Wave!Busy
<1>3. CASE consumer # "backlight"
  <2>1. CASE caller[c].calls = <<Wave!Op("config"), Wave!Op("enable")>> /\ caller[c].level > 0
    BY <1>1, <1>3, <2>1, PairHas DEF Wave!LastCall, Wave!Current, LastOp, Wave!Op
  <2>2. CASE caller[c].calls = <<Wave!Op("enable")>> /\ caller[c].level > 0
    BY <1>1, <1>3, <2>2, PairHas DEF Wave!LastCall, Wave!Current, LastOp, Wave!Op
  <2>3. CASE caller[c].calls = <<Wave!Op("disable")>> /\ caller[c].level = 0
    BY <1>1, <1>3, <2>3, PairHas DEF Wave!LastCall, Wave!Current, LastOp, Wave!Op
  <2>. QED  BY <1>1, <1>3, <2>1, <2>2, <2>3 DEF Script, Wave!Busy
<1>. QED  BY <1>1, <1>2, <1>3

\* What stays when a call of c returns.
Over(c) ==
  /\ c \in Wave!All /\ Wave!Busy(c)
  /\ caller' \in [Wave!All -> Records] /\ caller'[c].at = "idle" /\ flag' \in Nat /\ level' \in Nat
  /\ \A d \in Wave!All \ {c} : caller'[d] = caller[d]
  /\ IF Wave!LastCall(c)
     THEN caller'[c].calls = <<>> /\ caller'[c].level = 0 /\ level' = caller[c].level
     ELSE /\ caller'[c].calls = <<Wave!Op(IF consumer = "backlight" THEN "on" ELSE "enable")>>
          /\ caller'[c].level = caller[c].level /\ level' = level
  /\ flag' = Wave!FlagAfter(c)

(* A caller without a request.                                              *)
LEMMA IdleIs == Wave!Idle \in Records
<1>1. <<>> \in Seq([op : Ops, to : Nat])
  OBVIOUS
<1>. QED  BY <1>1 DEF Wave!Idle, Records, Steps, States

(* Return leaves what Over says.                                            *)
LEMMA ReturnIs ==
  ASSUME PwmInv, NEW c \in Wave!All, Wave!Busy(c), Wave!Return(c)
  PROVE  Over(c)
<1>1. PwmTypes
  BY DEF PwmInv
<1>2. level' \in Nat /\ flag' \in Nat
  BY <1>1 DEF PwmTypes, Records, Wave!Return, Wave!FlagAfter
<1>3. Wave!Idle \in Records
  BY IdleIs
<1>4. CASE Wave!LastCall(c)
  <2>1. caller' = [caller EXCEPT ![c] = Wave!Idle] /\ level' = caller[c].level
    BY <1>4 DEF Wave!Return
  <2>. QED  BY <1>1, <1>2, <1>3, <1>4, <2>1 DEF Over, PwmTypes, Wave!Idle, Wave!Return
<1>5. CASE ~Wave!LastCall(c)
  <2>1. PICK r : r = [Wave!Idle EXCEPT !.level = caller[c].level, !.calls = Tail(caller[c].calls)]
    OBVIOUS
  <2>2. caller' = [caller EXCEPT ![c] = r] /\ level' = level
    BY <1>5, <2>1 DEF Wave!Return
  <2>3. Tail(caller[c].calls) = <<Wave!Op(IF consumer = "backlight" THEN "on" ELSE "enable")>>
    BY <1>5, Turns
  <2>4. Tail(caller[c].calls) \in Seq([op : Ops, to : Nat])
    <3>1. PICK o : o = Wave!Op(IF consumer = "backlight" THEN "on" ELSE "enable")
      OBVIOUS
    <3>2. o \in [op : Ops, to : Nat]
      BY <3>1 DEF Wave!Op, Ops
    <3>3. <<o>> \in Seq([op : Ops, to : Nat])
      BY <3>2
    <3>. QED  BY <2>3, <3>1, <3>3
  <2>5. caller[c].level \in Nat
    BY <1>1 DEF PwmTypes, Records
  <2>6. r \in Records /\ r.at = "idle" /\ r.level = caller[c].level /\ r.calls = Tail(caller[c].calls)
    BY <1>3, <2>1, <2>4, <2>5 DEF Records, Wave!Idle
  <2>. QED  BY <1>1, <1>2, <1>5, <2>2, <2>3, <2>6 DEF Over, PwmTypes, Wave!Return
<1>. QED  BY <1>4, <1>5

(* What stays true when a call has returned, whatever it did to the core.   *)
LEMMA OverKeeps ==
  ASSUME PwmInv, NEW c \in Wave!All, Over(c), UNCHANGED <<consumer, boot, cell, mixed, raced, stopped>>
  PROVE  /\ Branched' /\ Scripts' /\ Overlaps' /\ Alone' /\ FanFlag'
         /\ \A d \in Wave!All : (Wave!InCall(d)' <=> Wave!InCall(d) /\ d # c)
               /\ (Wave!Busy(d)' <=> Wave!Busy(d) /\ (d = c => ~Wave!LastCall(c)))
         /\ Wave!Quiet' => Wave!LastCall(c)
         /\ (UNCHANGED core => Applied' /\ CoreValid')
<1>1. /\ \A d \in Wave!All : d # c => caller'[d] = caller[d]
      /\ consumer' = consumer /\ cell' = cell /\ mixed' = mixed /\ raced' = raced /\ stopped' = stopped
  BY DEF Over
<1>2. /\ caller'[c].at = "idle" /\ Wave!Busy(c) /\ ~Wave!InCall(c)'
      /\ caller'[c].calls = IF Wave!LastCall(c) THEN <<>> ELSE <<Wave!Op(IF consumer = "backlight" THEN "on"
            ELSE "enable")>>
  BY DEF Over, Wave!InCall
<1>3. Wave!Busy(c)' <=> ~Wave!LastCall(c)
  BY <1>2 DEF Wave!Busy
<1>4. \A d \in Wave!All : d # c => (Wave!InCall(d)' <=> Wave!InCall(d)) /\ (Wave!Busy(d)' <=> Wave!Busy(d))
  BY <1>1 DEF Wave!InCall, Wave!Busy
<1>5. Branched'
  BY <1>1, <1>2 DEF PwmInv, Branched, Wave!At
<1>6. Scripts'
  <2>. SUFFICES ASSUME NEW d \in Wave!All PROVE Script(d)'
    BY DEF Scripts
  <2>1. CASE d # c
    BY <1>1, <1>4, <2>1 DEF PwmInv, Scripts, Script, Wave!Refused
  <2>2. Script(c)'
    <3>1. Wave!LastCall(c) => caller'[c].level = 0 /\ caller'[c].calls = <<>>
      BY DEF Over
    <3>2. ~Wave!LastCall(c) => caller'[c].level = caller[c].level /\ caller[c].level > 0
      BY <1>2, Turns DEF Over
    <3>3. consumer = "backlight" => caller[c].level <= Scale /\ 0 <= Scale
      BY PwmAssumption DEF PwmInv, Scripts, Script
    <3>. QED  BY <1>1, <1>2, <3>1, <3>2, <3>3 DEF Script, Wave!InCall
  <2>. QED  BY <2>1, <2>2
<1>7. Overlaps'
  BY <1>1, <1>2, <1>4 DEF PwmInv, Overlaps
<1>8. Alone'
  BY <1>1, <1>2, <1>3, <1>4 DEF PwmInv, Alone
<1>9. Wave!Quiet' => Wave!LastCall(c)
  BY <1>3 DEF Wave!Quiet
<1>10. FanFlag'
  <2>1. consumer = "fan" /\ Wave!LastCall(c) => flag' = caller[c].level /\ level' = caller[c].level
    BY <1>2, Turns DEF Over, Wave!FlagAfter, Wave!Op
  <2>. QED  BY <1>1, <1>9, <2>1 DEF PwmInv, FanFlag
<1>11. UNCHANGED core => Applied' /\ CoreValid'
  BY <1>1, <1>2, <1>4 DEF PwmInv, Applied, Applies, CoreValid, Wave!Refused, Wave!Current
<1>. QED  BY <1>2, <1>3, <1>4, <1>5, <1>6, <1>7, <1>8, <1>9, <1>10, <1>11

(* What becomes of the flag of the backlight.                               *)
LEMMA FlagIs ==
  ASSUME PwmInv, NEW c \in Wave!All, Wave!Busy(c)
  PROVE  /\ Wave!Current(c).op = "on" => Wave!FlagAfter(c) = 1
         /\ Wave!Current(c).op = "off" => Wave!FlagAfter(c) = 0
         /\ consumer = "backlight" /\ Wave!Current(c).op # "on" /\ Wave!Current(c).op # "off"
               => Wave!FlagAfter(c) = flag
<1>1. Wave!Current(c).op \in {"on", "off"} => consumer # "fan"
  BY Turns DEF Wave!Op, Wave!compute_duty_cycle
<1>2. Wave!Current(c).op = "on" => Wave!FlagAfter(c) = 1
  BY <1>1 DEF Wave!FlagAfter
<1>3. Wave!Current(c).op = "off" => Wave!FlagAfter(c) = 0
  BY <1>1 DEF Wave!FlagAfter
<1>4. consumer = "backlight" /\ Wave!Current(c).op # "on" /\ Wave!Current(c).op # "off" => Wave!FlagAfter(c) = flag
  BY DEF Wave!FlagAfter
<1>. QED  BY <1>2, <1>3, <1>4

(* A call that is to come is still to come after another one has returned.  *)
LEMMA OverPends ==
  ASSUME PwmInv, NEW c \in Wave!All, Over(c), UNCHANGED <<consumer, boot, cell, mixed, raced, stopped>>, NEW o,
         Pending(o), ~(Wave!LastCall(c) /\ Wave!Current(c).op = o)
  PROVE  Pending(o)'
<1>1. PICK d \in Wave!All : Wave!Busy(d) /\ LastOp(d) = o
  BY DEF Pending
<1>2. CASE d # c
  <2>1. Wave!Busy(d)' /\ LastOp(d)' = o
    BY <1>1, <1>2, OverKeeps DEF Over, LastOp
  <2>. QED  BY <2>1 DEF Pending
<1>3. CASE d = c
  <2>1. ~Wave!LastCall(c) /\ caller[c].level > 0
    BY <1>1, <1>3, Turns DEF Wave!Op
  <2>2. caller'[c].calls = <<Wave!Op(IF consumer = "backlight" THEN "on" ELSE "enable")>>
    BY <2>1 DEF Over
  <2>3. LastOp(c)' = LastOp(c)
    BY <1>1, <1>3, <2>1, <2>2, Turns, PairHas DEF LastOp, Wave!Op
  <2>4. Wave!Busy(c)'
    BY <2>1, OverKeeps, <1>1, <1>3
  <2>. QED  BY <1>1, <1>3, <2>3, <2>4 DEF Pending
<1>. QED  BY <1>2, <1>3

(* Which positions in pwm_driver_apply the others are at is as before.     *)
LEMMA OverSees ==
  ASSUME PwmInv, NEW c \in Wave!All, Over(c)
  PROVE  /\ Resetting' => Resetting
         /\ Closing' => Closing
         /\ Opening' => Opening
         /\ ~(caller[c].at \in {"sar", "control"}) => Resetting' = Resetting
         /\ ~Wave!At(c, "store") => Closing' = Closing /\ Opening' = Opening
BY DEF Over, Resetting, Closing, Opening, Wave!At

(* A call that is left out: the core is already as it asks.                 *)
LEMMA PassKeeps == ASSUME PwmInv, NEW c \in Wave!All, Wave!Pass(c) PROVE PwmInv'
<1>1. PwmTypes
  BY DEF PwmInv
<1>2. Over(c) /\ Wave!Busy(c) /\ ~Wave!InCall(c) /\ Wave!LeftOut(Wave!Current(c))
  BY ReturnIs DEF Wave!Pass
<1>3. /\ UNCHANGED <<consumer, boot, cell, core, duty, clk, en, fifo, pSample>>
      /\ UNCHANGED <<mixed, raced, stopped, doubt>>
  BY DEF Wave!Pass, Wave!hardware
<1>4. PwmTypes'
  BY <1>1, <1>2, <1>3 DEF PwmTypes, Over
<1>5. \A d \in Wave!All : caller'[d].at = caller[d].at /\ (Wave!InCall(d) => caller'[d] = caller[d])
  BY <1>2 DEF Over, Wave!InCall
<1>6. Closing' = Closing /\ Opening' = Opening /\ Resetting' = Resetting
  BY <1>2, OverSees DEF Wave!InCall, Wave!At
<1>7. Clocked' /\ Enabled'
  BY <1>3, <1>5, <1>6 DEF PwmInv, Clocked, Enabled, Wave!At
<1>8. Counted' /\ NewestIs'
  BY <1>3, <1>5 DEF PwmInv, Counted, NewestIs, Wave!Newest, Wave!OnOff, Wave!At, Wave!InCall
<1>9. ~Wave!Refused(core) /\ (consumer = "backlight" => core.period = Scale /\ caller[c].level <= Scale)
  BY DEF PwmInv, CoreValid, Scripts, Script
<1>10. /\ Wave!Current(c).op = "duty" /\ consumer = "backlight" => Wave!Wanted(Wave!Current(c)) = core
       /\ Wave!Current(c).op = "config" /\ cell = Scale => Wave!Wanted(Wave!Current(c)) = core
       /\ Wave!Current(c).op \in {"enable", "disable"} => Wave!Wanted(Wave!Current(c)) = core
       /\ Wave!Current(c).op \in {"on", "off"} => Wave!Skipped(Wave!Current(c)) \/ Wave!Wanted(Wave!Current(c)) = core
  BY <1>1, <1>2, <1>9, Turns, PwmAssumption DEF PwmTypes, States, Wave!LeftOut, Wave!Skipped, Wave!Refused,
     Wave!Wanted, Wave!Op, Wave!compute_duty_cycle
<1>11. /\ Wave!Current(c).op \in {"enable", "on"} /\ Wave!Wanted(Wave!Current(c)) = core => core.enabled
       /\ Wave!Current(c).op \in {"disable", "off"} /\ Wave!Wanted(Wave!Current(c)) = core => ~core.enabled
  BY <1>1 DEF PwmTypes, States, Wave!Wanted
<1>12. Flags'
  <2>. SUFFICES ASSUME ~stopped, ~doubt PROVE Flags'
    BY <1>3 DEF Flags
  <2>1. /\ consumer = "backlight" /\ flag > 0 => core.enabled \/ Pending("off")
        /\ consumer = "backlight" /\ flag = 0 => ~core.enabled \/ Pending("on")
    BY DEF PwmInv, Flags
  <2>2. consumer = "backlight" /\ flag' > 0 => core.enabled \/ Pending("off")'
    <3>1. ~(Wave!Current(c).op = "off" /\ flag' > 0)
      BY <1>2, FlagIs DEF Over
    <3>2. CASE Wave!Current(c).op = "on"
      <4>1. core.enabled \/ Pending("off") \/ consumer # "backlight"
        BY <2>1, <3>2, <1>10, <1>11 DEF Wave!Skipped
      <4>. QED  BY <4>1, <3>2, OverPends, <1>2, <1>3
    <3>3. CASE Wave!Current(c).op # "on" /\ Wave!Current(c).op # "off"
      <4>1. consumer = "backlight" => flag' = flag
        BY <1>2, <3>3 DEF Over, Wave!FlagAfter
      <4>. QED  BY <2>1, <4>1, <3>3, OverPends, <1>2, <1>3
    <3>. QED  BY <3>1, <3>2, <3>3
  <2>3. consumer = "backlight" /\ flag' = 0 => ~core.enabled \/ Pending("on")'
    <3>1. ~(Wave!Current(c).op = "on" /\ flag' = 0)
      BY <1>2, FlagIs DEF Over
    <3>2. CASE Wave!Current(c).op = "off"
      <4>1. ~core.enabled \/ Pending("on") \/ consumer # "backlight"
        BY <2>1, <3>2, <1>10, <1>11 DEF Wave!Skipped
      <4>. QED  BY <4>1, <3>2, OverPends, <1>2, <1>3
    <3>3. CASE Wave!Current(c).op # "on" /\ Wave!Current(c).op # "off"
      <4>1. consumer = "backlight" => flag' = flag
        BY <1>2, <3>3 DEF Over, Wave!FlagAfter
      <4>. QED  BY <2>1, <4>1, <3>3, OverPends, <1>2, <1>3
    <3>. QED  BY <3>1, <3>2, <3>3
  <2>4. Wave!Quiet' => core.enabled = (level' > 0)
    <3>. SUFFICES ASSUME Wave!Quiet' PROVE core.enabled = (level' > 0)
      OBVIOUS
    <3>1. Wave!LastCall(c) /\ level' = caller[c].level /\ (\A o : ~Pending(o)')
      BY <1>2, <1>3, OverKeeps DEF Over, Wave!Quiet, Pending
    <3>2. CASE consumer # "backlight"
      BY <1>1, <1>2, <1>10, <1>11, <3>1, <3>2, Turns DEF Wave!Op, PwmTypes, States
    <3>3. CASE consumer = "backlight" /\ caller[c].level > 0
      <4>1. Wave!Current(c).op = "on"
        BY <1>2, <3>1, <3>3, Turns DEF Wave!Op
      <4>2. flag' = 1
        BY <1>2, <4>1, FlagIs DEF Over
      <4>. QED  BY <2>2, <3>1, <3>3, <4>2, <1>1 DEF PwmTypes, States
    <3>4. CASE consumer = "backlight" /\ ~(caller[c].level > 0)
      <4>1. Wave!Current(c).op = "off"
        BY <1>2, <3>1, <3>4, Turns DEF Wave!Op
      <4>2. flag' = 0
        BY <1>2, <4>1, FlagIs DEF Over
      <4>. QED  BY <2>3, <3>1, <3>4, <4>2, <1>1 DEF PwmTypes, States
    <3>. QED  BY <3>2, <3>3, <3>4
  <2>. QED  BY <1>3, <2>2, <2>3, <2>4 DEF Flags
<1>13. Duties'
  <2>. SUFFICES ASSUME ~mixed, ~raced, ~doubt PROVE Duties'
    BY <1>3 DEF Duties
  <2>1. \A d \in Wave!All : Wave!Busy(d) => d = c
    BY <1>2 DEF PwmInv, Alone
  <2>2. \A d \in Wave!All : Wave!Busy(d)' => d = c /\ ~Wave!LastCall(c)
    BY <2>1, <1>2, <1>3, OverKeeps
  <2>3. Wave!Quiet' => Right(core', level')
    <3>. SUFFICES ASSUME Wave!Quiet' PROVE Right(core', level')
      OBVIOUS
    <3>1. Wave!LastCall(c) /\ level' = caller[c].level /\ core' = core
      BY <1>2, <1>3, OverKeeps DEF Over
    <3>2. CASE caller[c].level > 0
      BY <1>2, <3>1, <3>2, Turns DEF Wave!Op, PwmInv, Duties
    <3>3. CASE ~(caller[c].level > 0)
      BY <3>1, <3>3, PwmAssumption DEF Right
    <3>. QED  BY <3>2, <3>3
  <2>4. ~Wave!LastCall(c) => Right(core', caller'[c].level)
    <3>. SUFFICES ASSUME ~Wave!LastCall(c) PROVE Right(core', caller'[c].level)
      OBVIOUS
    <3>1. core' = core /\ caller'[c].level = caller[c].level
      BY <1>2, <1>3 DEF Over
    <3>2. CASE consumer = "backlight"
      <4>1. Wave!Wanted(Wave!compute_duty_cycle(caller[c].level)) = core
        BY <1>2, <1>10, <3>2, Turns DEF Wave!compute_duty_cycle
      <4>2. core.duty = caller[c].level
        BY <1>1, <4>1 DEF Wave!Wanted, Wave!compute_duty_cycle, PwmTypes, States
      <4>. QED  BY <3>1, <3>2, <4>2 DEF Right
    <3>3. CASE consumer # "backlight" /\ caller[c].level = Scale
      <4>1. cell = Scale /\ Wave!Current(c) = Wave!Op("config")
        BY <1>2, <3>3, Turns DEF PwmInv, Duties
      <4>2. Wave!Wanted(Wave!Op("config")) = core
        BY <1>10, <4>1 DEF Wave!Op
      <4>3. core.duty = Scale /\ core.period = Scale
        BY <1>1, <4>1, <4>2 DEF Wave!Wanted, Wave!Op, PwmTypes, States
      <4>. QED  BY <3>1, <3>3, <4>3 DEF Right
    <3>. QED  BY <3>1, <3>2, <3>3 DEF Right
  <2>5. Len(caller'[c].calls) # 2 \/ ~Wave!Busy(c)'
    <3>1. Wave!Busy(c)' => caller'[c].calls = <<Wave!Op(IF consumer = "backlight" THEN "on" ELSE "enable")>>
      BY <1>2, <2>2 DEF Over
    <3>. QED  BY <3>1, PairHas
  <2>6. \A d \in Wave!All : ~Wave!InCall(d)' \/ d # c
    BY <1>2, <1>3, OverKeeps
  <2>7. \A d \in Wave!All : Wave!Busy(d)' =>
          /\ Len(caller'[d].calls) # 2 /\ ~Wave!InCall(d)' /\ Right(core', caller'[d].level)
    BY <2>2, <2>4, <2>5, <2>6
  <2>. QED  BY <1>3, <2>3, <2>7 DEF Duties, Right
<1>. QED  BY <1>2, <1>3, <1>4, <1>7, <1>8, <1>12, <1>13, OverKeeps DEF PwmInv

(* The clocks failed; from then on the driver does not know.                *)
LEMMA NoClocksKeep == ASSUME PwmInv, NEW c \in Wave!All, Wave!NoClocks(c) PROVE PwmInv'
<1>1. PwmTypes
  BY DEF PwmInv
<1>2. Over(c) /\ Wave!At(c, "clocks") /\ Wave!InCall(c)
  <2>1. Wave!At(c, "clocks") /\ Wave!InCall(c) /\ Wave!Return(c)
    BY DEF Wave!NoClocks, Wave!At, Wave!InCall
  <2>2. Wave!Busy(c)
    BY <2>1 DEF PwmInv, Scripts, Script
  <2>. QED  BY <2>1, <2>2, ReturnIs
<1>3. /\ UNCHANGED <<consumer, boot, cell, core, duty, clk, en, fifo, pSample>>
      /\ UNCHANGED <<mixed, raced, stopped>> /\ doubt' = TRUE
  BY DEF Wave!NoClocks
<1>4. PwmTypes'
  <2>1. doubt' \in BOOLEAN
    BY <1>3
  <2>. QED  BY <1>1, <1>2, <1>3, <2>1 DEF PwmTypes, Over
<1>5. Closing' = Closing /\ Opening' = Opening /\ Resetting' = Resetting
  BY <1>2, OverSees DEF Wave!At
<1>6. /\ \A d \in Wave!All : caller'[d].at = caller[d].at \/ d = c
      /\ \A d \in Wave!All : d # c => caller'[d] = caller[d]
      /\ caller'[c].at = "idle" /\ caller[c].at = "clocks"
  BY <1>2 DEF Over, Wave!At
<1>7. Clocked' /\ Enabled'
  BY <1>3, <1>5, <1>6 DEF PwmInv, Clocked, Enabled, Wave!At
<1>8. ~raced => \A d \in Wave!All : Wave!InCall(d) => d = c
  BY <1>2 DEF PwmInv, Overlaps
<1>9. Counted' /\ NewestIs'
  BY <1>3, <1>6, <1>8 DEF PwmInv, Counted, NewestIs, Wave!Newest, Wave!OnOff, Wave!At, Wave!InCall
<1>10. Flags' /\ Duties'
  BY <1>3 DEF Flags, Duties
<1>. QED  BY <1>2, <1>3, <1>4, <1>7, <1>9, <1>10, OverKeeps DEF PwmInv

(* The core takes over the state that was applied.                          *)
LEMMA StoreKeeps == ASSUME PwmInv, NEW c \in Wave!All, Wave!Store(c) PROVE PwmInv'
<1>. DEFINE w == caller[c].want
<1>1. PwmTypes /\ w \in States
  BY DEF PwmInv, PwmTypes, Records
<1>2. Over(c) /\ Wave!At(c, "store") /\ Wave!InCall(c) /\ Wave!Busy(c)
  <2>1. Wave!At(c, "store") /\ Wave!InCall(c) /\ Wave!Return(c)
    BY DEF Wave!Store, Wave!At, Wave!InCall
  <2>2. Wave!Busy(c)
    BY <2>1 DEF PwmInv, Scripts, Script
  <2>. QED  BY <2>1, <2>2, ReturnIs
<1>3. /\ UNCHANGED <<consumer, boot, cell, duty, clk, en, fifo, pSample>>
      /\ UNCHANGED <<mixed, raced, stopped, doubt>> /\ core' = w
  BY DEF Wave!Store, Wave!hardware
<1>4. PwmTypes'
  BY <1>1, <1>2, <1>3 DEF PwmTypes, Over
<1>5. /\ \A d \in Wave!All : d # c => caller'[d] = caller[d]
      /\ caller'[c].at = "idle" /\ caller[c].at = "store"
  BY <1>2 DEF Over, Wave!At
<1>6. /\ Resetting' = Resetting /\ (Closing' => Closing) /\ (Opening' => Opening)
      /\ w.enabled => Opening
      /\ ~w.enabled => Closing
  BY <1>2, OverSees DEF Wave!At, Opening, Closing
<1>7. ~stopped => \A d \in Wave!All \ {c} : Wave!InCall(d) => w.enabled /\ caller[d].want.enabled
  BY <1>2 DEF PwmInv, Overlaps
<1>8. Applied'
  <2>. SUFFICES ASSUME NEW d \in Wave!All, Wave!InCall(d)' PROVE Applies(d)'
    BY DEF Applied, Applies
  <2>1. d # c /\ Wave!InCall(d) /\ caller'[d] = caller[d]
    BY <1>5 DEF Wave!InCall
  <2>2. Applies(d)
    BY DEF PwmInv, Applied
  <2>3. caller[d].want.enabled \in BOOLEAN /\ w.enabled \in BOOLEAN
    BY <1>1 DEF PwmTypes, Records, States
  <2>4. ~stopped => caller[d].want.enabled = w.enabled
    BY <1>7, <2>1, <2>3
  <2>. QED  BY <1>3, <2>1, <2>2, <2>4 DEF Applies, Wave!Current
<1>9. CoreValid'
  BY <1>2, <1>3 DEF PwmInv, CoreValid, Scripts, Script, Applied, Applies, Wave!Refused
<1>10. Clocked'
  BY <1>3, <1>5, <1>6 DEF PwmInv, Clocked, Wave!At
<1>11. Enabled'
  <2>1. ~stopped /\ w.enabled /\ ~Resetting => en
    BY <1>6 DEF PwmInv, Enabled
  <2>2. ~stopped /\ ~w.enabled => ~en
    BY <1>6 DEF PwmInv, Enabled
  <2>3. ~stopped /\ Closing' => ~en
    BY <1>6 DEF PwmInv, Enabled
  <2>4. ~stopped /\ Opening' /\ ~Resetting => en
    BY <1>6 DEF PwmInv, Enabled
  <2>. QED  BY <1>3, <1>6, <2>1, <2>2, <2>3, <2>4 DEF Enabled
<1>12. ~raced => \A d \in Wave!All : Wave!InCall(d) => d = c
  BY <1>2 DEF PwmInv, Overlaps
<1>13. Counted' /\ NewestIs'
  BY <1>3, <1>5, <1>12 DEF PwmInv, Counted, NewestIs, Wave!Newest, Wave!OnOff, Wave!At, Wave!InCall
<1>14. /\ Wave!Current(c).op \in {"on", "enable"} => w.enabled
       /\ Wave!Current(c).op \in {"off", "disable"} => ~w.enabled
       /\ Wave!Current(c).op \notin Switches /\ ~stopped => w.enabled = core.enabled
  BY <1>2 DEF PwmInv, Applied, Applies
<1>15. Flags'
  <2>. SUFFICES ASSUME ~stopped, ~doubt PROVE Flags'
    BY <1>3 DEF Flags
  <2>1. /\ consumer = "backlight" /\ flag > 0 => core.enabled \/ Pending("off")
        /\ consumer = "backlight" /\ flag = 0 => ~core.enabled \/ Pending("on")
    BY DEF PwmInv, Flags
  <2>2. consumer = "backlight" => Wave!Current(c).op \in {"on", "off", "duty"}
    BY <1>2, Turns DEF Wave!Op, Wave!compute_duty_cycle
  <2>3. consumer = "backlight" /\ flag' > 0 => core'.enabled \/ Pending("off")'
    <3>1. ~(Wave!Current(c).op = "off" /\ flag' > 0)
      BY <1>2, FlagIs DEF Over
    <3>2. CASE Wave!Current(c).op = "on"
      BY <1>3, <1>14, <3>2
    <3>3. CASE Wave!Current(c).op = "duty"
      <4>1. (consumer = "backlight" => flag' = flag) /\ w.enabled = core.enabled
        BY <1>2, <1>14, <3>3, FlagIs DEF Over, Switches
      <4>. QED  BY <1>2, <1>3, <2>1, <3>3, <4>1, OverPends
    <3>. QED  BY <2>2, <3>1, <3>2, <3>3
  <2>4. consumer = "backlight" /\ flag' = 0 => ~core'.enabled \/ Pending("on")'
    <3>1. ~(Wave!Current(c).op = "on" /\ flag' = 0)
      BY <1>2, FlagIs DEF Over
    <3>2. CASE Wave!Current(c).op = "off"
      BY <1>3, <1>14, <3>2
    <3>3. CASE Wave!Current(c).op = "duty"
      <4>1. (consumer = "backlight" => flag' = flag) /\ w.enabled = core.enabled
        BY <1>2, <1>14, <3>3, FlagIs DEF Over, Switches
      <4>. QED  BY <1>2, <1>3, <2>1, <3>3, <4>1, OverPends
    <3>. QED  BY <2>2, <3>1, <3>2, <3>3
  <2>5. Wave!Quiet' => core'.enabled = (level' > 0)
    <3>. SUFFICES ASSUME Wave!Quiet' PROVE core'.enabled = (level' > 0)
      OBVIOUS
    <3>1. Wave!LastCall(c) /\ level' = caller[c].level
      BY <1>2, <1>3, OverKeeps DEF Over
    <3>2. w.enabled = (caller[c].level > 0)
      BY <1>1, <1>2, <1>14, <3>1, Turns DEF Wave!Op, States
    <3>. QED  BY <1>3, <3>1, <3>2
  <2>. QED  BY <1>3, <2>3, <2>4, <2>5 DEF Flags
<1>16. Duties'
  <2>. SUFFICES ASSUME ~mixed, ~raced, ~doubt PROVE Duties'
    BY <1>3 DEF Duties
  <2>1. \A d \in Wave!All : Wave!Busy(d) => d = c
    BY <1>2 DEF PwmInv, Alone
  <2>2. \A d \in Wave!All : Wave!Busy(d)' => d = c /\ ~Wave!LastCall(c)
    BY <2>1, <1>2, <1>3, OverKeeps
  <2>3. Right(core', caller[c].level)
    <3>1. CASE caller[c].level > 0
      BY <1>2, <1>3, <3>1 DEF PwmInv, Duties
    <3>2. CASE ~(caller[c].level > 0)
      BY <3>2, PwmAssumption DEF Right
    <3>. QED  BY <3>1, <3>2
  <2>4. Wave!Quiet' => Right(core', level')
    BY <1>2, <1>3, <2>3, OverKeeps DEF Over
  <2>5. ~Wave!LastCall(c) => caller'[c].level = caller[c].level
                        /\ caller'[c].calls = <<Wave!Op(IF consumer = "backlight" THEN "on" ELSE "enable")>>
    BY <1>2 DEF Over
  <2>6. \A d \in Wave!All : Wave!Busy(d)' => /\ Len(caller'[d].calls) # 2 /\ ~Wave!InCall(d)'
                                  /\ Right(core', caller'[d].level)
    BY <1>2, <1>3, <2>2, <2>3, <2>5, OverKeeps, PairHas
  <2>. QED  BY <1>3, <2>4, <2>6 DEF Duties, Right
<1>. QED  BY <1>2, <1>3, <1>4, <1>8, <1>9, <1>10, <1>11, <1>13, <1>15, <1>16, OverKeeps DEF PwmInv

(* What a call asks for.                                                    *)
LEMMA WantedIs ==
  ASSUME PwmInv, NEW c \in Wave!All, Wave!Busy(c)
  PROVE  LET o == Wave!Current(c).op w == Wave!Wanted(Wave!Current(c)) IN
         /\ w \in States
         /\ o \in {"enable", "on"} => w.enabled /\ w.duty = core.duty /\ w.period = core.period
         /\ o \in {"disable", "off"} => ~w.enabled
         /\ o \notin Switches => w.enabled = core.enabled
         /\ consumer = "backlight" => w.period = core.period
         /\ o = "duty" => w.duty = Wave!Current(c).to
         /\ o = "config" => w.duty = Scale /\ w.period = cell
<1>. DEFINE call == Wave!Current(c)
<1>1. core \in States /\ cell \in Nat /\ Scale \in Nat /\ caller[c].level \in Nat
  BY PwmAssumption DEF PwmInv, PwmTypes, Records
<1>2. \/ call.op = "duty" /\ call.to \in Nat
      \/ call.op = "config" /\ consumer # "backlight"
      \/ call.op \in {"enable", "on"}
      \/ call.op = "disable"
      \/ call.op = "off"
  BY <1>1, Turns DEF Wave!Op, Wave!compute_duty_cycle
<1>3. CASE call.op = "duty" /\ call.to \in Nat
  <2>1. Wave!Wanted(call) = [core EXCEPT !.duty = call.to]
    BY <1>3 DEF Wave!Wanted
  <2>. QED  BY <1>1, <1>3, <2>1 DEF States, Switches
<1>4. CASE call.op = "config" /\ consumer # "backlight"
  <2>1. Wave!Wanted(call) = [core EXCEPT !.duty = Scale, !.period = cell]
    BY <1>4 DEF Wave!Wanted
  <2>. QED  BY <1>1, <1>4, <2>1 DEF States, Switches
<1>5. CASE call.op \in {"enable", "on"}
  <2>1. Wave!Wanted(call) = [core EXCEPT !.enabled = TRUE]
    BY <1>5 DEF Wave!Wanted
  <2>. QED  BY <1>1, <1>5, <2>1 DEF States, Switches
<1>6. CASE call.op = "disable"
  <2>1. Wave!Wanted(call) = [core EXCEPT !.enabled = FALSE]
    BY <1>6 DEF Wave!Wanted
  <2>. QED  BY <1>1, <1>6, <2>1 DEF States, Switches
<1>7. CASE call.op = "off"
  <2>1. Wave!Wanted(call) = [core EXCEPT !.enabled = FALSE, !.duty = 0]
    BY <1>7 DEF Wave!Wanted
  <2>2. /\ Wave!Wanted(call).enabled = FALSE /\ Wave!Wanted(call).period = core.period
        /\ Wave!Wanted(call) \in States
    <3>1. PICK off : off = [core EXCEPT !.enabled = FALSE]
      OBVIOUS
    <3>2. off \in States /\ off.enabled = FALSE /\ off.period = core.period
      BY <1>1, <3>1 DEF States
    <3>3. Wave!Wanted(call) = [off EXCEPT !.duty = 0]
      BY <1>1, <2>1, <3>1 DEF States
    <3>. QED  BY <3>2, <3>3 DEF States
  <2>. QED  BY <1>7, <2>2 DEF Switches
<1>. QED  BY <1>2, <1>3, <1>4, <1>5, <1>6, <1>7

(* A call enters pwm_driver_apply, alone or beside others.                  *)
LEMMA CallKeeps == ASSUME PwmInv, NEW c \in Wave!All, Wave!Call(c) PROVE PwmInv'
<1>. DEFINE want == Wave!Wanted(Wave!Current(c))
            others == {d \in Wave!All \ {c} : Wave!InCall(d)}
<1>1. PwmTypes /\ Script(c) /\ CoreValid
  BY DEF PwmInv, Scripts
<1>2. /\ Wave!Busy(c) /\ ~Wave!InCall(c) /\ ~Wave!LeftOut(Wave!Current(c))
      /\ caller' = [caller EXCEPT ![c].at = "apply", ![c].want = want]
      /\ raced' = (raced \/ others # {})
      /\ stopped' = (stopped \/ \E d \in others : ~want.enabled \/ ~caller[d].want.enabled)
  BY DEF Wave!Call
<1>3. /\ UNCHANGED <<consumer, boot, cell, flag, core, duty, clk, en, fifo, pSample>>
      /\ UNCHANGED <<level, mixed, doubt>>
  BY DEF Wave!Call, Wave!hardware
<1>4. want \in States
  BY <1>1, <1>2, WantedIs
<1>5. /\ caller' \in [Wave!All -> Records] /\ raced' \in BOOLEAN /\ stopped' \in BOOLEAN
      /\ caller'[c].at = "apply" /\ caller'[c].want = want /\ caller[c].at = "idle"
      /\ \A d \in Wave!All : d # c => caller'[d] = caller[d]
      /\ \A d \in Wave!All : caller'[d].level = caller[d].level /\ caller'[d].calls = caller[d].calls
  <2>1. caller' \in [Wave!All -> Records]
    BY <1>1, <1>2, <1>4 DEF PwmTypes, Records, Steps
  <2>2. raced' \in BOOLEAN /\ stopped' \in BOOLEAN
    BY <1>2
  <2>3. /\ caller'[c].at = "apply" /\ caller'[c].want = want /\ caller[c].at = "idle"
        /\ \A d \in Wave!All : d # c => caller'[d] = caller[d]
        /\ \A d \in Wave!All : caller'[d].level = caller[d].level /\ caller'[d].calls = caller[d].calls
    BY <1>1, <1>2 DEF PwmTypes, Records, Wave!InCall
  <2>. QED  BY <2>1, <2>2, <2>3
<1>6. PwmTypes'
  BY <1>1, <1>3, <1>5 DEF PwmTypes
<1>7. /\ \A d \in Wave!All : /\ Wave!Busy(d)' = Wave!Busy(d) /\ (Wave!InCall(d)' <=> Wave!InCall(d) \/ d = c)
                             /\ Wave!Current(d)' = Wave!Current(d) /\ LastOp(d)' = LastOp(d)
      /\ Wave!Quiet' = Wave!Quiet /\ (\A o : Pending(o)' = Pending(o))
  <2>1. \A d \in Wave!All : /\ Wave!Busy(d)' = Wave!Busy(d) /\ (Wave!InCall(d)' <=> Wave!InCall(d) \/ d = c)
                      /\ Wave!Current(d)' = Wave!Current(d) /\ LastOp(d)' = LastOp(d)
    BY <1>5 DEF Wave!Busy, Wave!InCall, Wave!Current, LastOp
  <2>. QED  BY <2>1 DEF Wave!Quiet, Pending
<1>8. (~stopped' => ~stopped) /\ (~raced' => ~raced /\ others = {})
  BY <1>2
<1>9. Branched' /\ CoreValid' /\ FanFlag' /\ Alone'
  BY <1>3, <1>5, <1>7 DEF PwmInv, Branched, Wave!At, CoreValid, Wave!Refused, FanFlag, Alone
<1>10. Scripts'
  <2>1. ~Wave!Refused(want)
    BY <1>2 DEF Wave!LeftOut
  <2>2. \A d \in Wave!All : Wave!InCall(d)' => ~Wave!Refused(caller'[d].want)
    BY <1>5, <1>7, <2>1 DEF PwmInv, Scripts, Script, Wave!Refused
  <2>. QED  BY <1>2, <1>3, <1>5, <1>7, <2>2 DEF PwmInv, Scripts, Script, Wave!Refused
<1>11. /\ Wave!Current(c).op \in {"enable", "on"} => want.enabled
       /\ Wave!Current(c).op \in {"disable", "off"} => ~want.enabled
       /\ Wave!Current(c).op \notin Switches => want.enabled = core.enabled
       /\ consumer = "backlight" => want.period = Scale
       /\ Wave!Current(c).op \in {"enable", "on"} => want.duty = core.duty /\ want.period = core.period
       /\ Wave!Current(c).op = "duty" => want.duty = Wave!Current(c).to
       /\ Wave!Current(c).op = "config" => want.duty = Scale /\ want.period = cell
  BY <1>1, <1>2, WantedIs DEF CoreValid
<1>12. Applied'
  BY <1>3, <1>5, <1>7, <1>8, <1>11 DEF PwmInv, Applied, Applies
<1>13. Overlaps'
  <2>1. stopped' => raced'
    BY <1>2 DEF PwmInv, Overlaps
  <2>2. ~raced' => \A d, e \in Wave!All : Wave!InCall(d)' /\ Wave!InCall(e)' => d = e
    BY <1>7, <1>8
  <2>3. ~stopped' => \A d, e \in Wave!All : Wave!InCall(d)' /\ Wave!InCall(e)' /\ d # e => caller'[d].want.enabled
    <3>1. ~stopped' => \A d \in others : want.enabled /\ caller[d].want.enabled
      BY <1>2
    <3>. QED  BY <1>5, <1>7, <1>8, <3>1 DEF PwmInv, Overlaps
  <2>. QED  BY <2>1, <2>2, <2>3 DEF Overlaps
<1>14. Closing' = Closing /\ Opening' = Opening /\ Resetting' = Resetting
  BY <1>5 DEF Closing, Opening, Resetting, Wave!At
<1>15. Clocked' /\ Enabled'
  BY <1>3, <1>5, <1>8, <1>14 DEF PwmInv, Clocked, Enabled, Wave!At
<1>16. Counted' /\ NewestIs'
  BY <1>2, <1>3, <1>5, <1>8 DEF PwmInv, Counted, NewestIs, Wave!Newest, Wave!OnOff, Wave!At, Wave!InCall
<1>17. Flags'
  BY <1>3, <1>7, <1>8 DEF PwmInv, Flags
<1>18. Duties'
  <2>. SUFFICES ASSUME ~mixed, ~raced', ~doubt PROVE Duties'
    BY <1>3 DEF Duties
  <2>1. ~raced
    BY <1>8
  <2>2. \A d \in Wave!All : Wave!Busy(d) => d = c
    BY <1>2 DEF PwmInv, Alone
  <2>3. caller[c].level > 0 => Right(want, caller[c].level)
    <3>. SUFFICES ASSUME caller[c].level > 0 PROVE Right(want, caller[c].level)
      OBVIOUS
    <3>1. CASE Len(caller[c].calls) = 2 /\ consumer = "backlight"
      BY <1>2, <1>11, <3>1, Turns DEF Right, Wave!compute_duty_cycle
    <3>2. CASE Len(caller[c].calls) = 2 /\ consumer # "backlight"
      BY <1>2, <1>11, <2>1, <3>2, Turns DEF Right, Wave!Op, PwmInv, Duties
    <3>3. CASE Len(caller[c].calls) = 1
      <4>1. Wave!Current(c).op \in {"enable", "on"}
        BY <1>2, <3>3, Turns DEF Wave!Op
      <4>2. Right(core, caller[c].level)
        BY <1>2, <2>1, <4>1 DEF PwmInv, Duties
      <4>. QED  BY <1>11, <4>1, <4>2 DEF Right
    <3>. QED  BY <1>2, <3>1, <3>2, <3>3, Turns
  <2>4. (Wave!Quiet => Right(core, level))
    BY <2>1 DEF PwmInv, Duties
  <2>5. /\ Len(caller[c].calls) = 2 => consumer = "backlight" \/ cell = caller[c].level
        /\ Wave!Current(c).op \in {"enable", "on"} => Right(core, caller[c].level)
    BY <1>2, <2>1 DEF PwmInv, Duties
  <2>. QED  BY <1>3, <1>5, <1>7, <2>2, <2>3, <2>4, <2>5 DEF Duties, Right
<1>. QED  BY <1>6, <1>9, <1>10, <1>12, <1>13, <1>15, <1>16, <1>17, <1>18 DEF PwmInv

(* The requests are sequences of calls.                                     *)
LEMMA RequestsAre ==
  ASSUME NEW l \in Nat
  PROVE  LET Calls == Seq([op : Ops, to : Nat]) IN
         /\ <<Wave!compute_duty_cycle(l), Wave!Op("on")>> \in Calls /\ <<Wave!Op("off")>> \in Calls
         /\ <<Wave!Op("config"), Wave!Op("enable")>> \in Calls /\ <<Wave!Op("disable")>> \in Calls
<1>1. PICK x, y : x = Wave!Op("config") /\ y = Wave!Op("enable")
  OBVIOUS
<1>2. PICK on, off, dis : on = Wave!Op("on") /\ off = Wave!Op("off") /\ dis = Wave!Op("disable")
  OBVIOUS
<1>3. PICK z : z = Wave!compute_duty_cycle(l)
  OBVIOUS
<1>4. {x, y, z, on, off, dis} \subseteq [op : Ops, to : Nat]
  BY <1>1, <1>2, <1>3 DEF Wave!Op, Ops, Wave!compute_duty_cycle
<1>5. /\ <<x, y>> \in Seq([op : Ops, to : Nat]) /\ <<z, on>> \in Seq([op : Ops, to : Nat])
      /\ <<off>> \in Seq([op : Ops, to : Nat]) /\ <<dis>> \in Seq([op : Ops, to : Nat])
  BY <1>4
<1>. QED  BY <1>1, <1>2, <1>3, <1>5

(* A caller makes a request.                                                *)
LEMMA AskKeeps ==
  ASSUME PwmInv, NEW c \in Callers, NEW l \in Nat, Wave!Ask(c, l)
  PROVE  PwmInv'
<1>. DEFINE asked == Wave!Requested(l)
<1>1. PwmTypes /\ c \in Wave!All /\ Wave!Probe \notin Callers
  BY PwmAssumption DEF PwmInv, Wave!All
<1>2. /\ Wave!MayAsk(c) /\ ~Wave!Busy(c) /\ ~Wave!InCall(c) /\ l \in Wave!Levels
      /\ caller' = [caller EXCEPT ![c].level = l, ![c].calls = asked]
      /\ cell' = IF consumer # "backlight" /\ l > 0 /\ asked # <<>> THEN l ELSE cell
      /\ level' = IF asked = <<>> THEN l ELSE level
      /\ mixed' = \E d \in Wave!All \ {c} : Wave!Busy(d)
      /\ doubt' = (doubt /\ Wave!Unasked(l))
  BY <1>1 DEF Wave!Ask, Wave!MayAsk, PwmInv, Scripts, Script
<1>3. UNCHANGED <<consumer, boot, flag, core, duty, clk, en, fifo, pSample, raced, stopped>>
  BY DEF Wave!Ask, Wave!hardware
<1>4. IF consumer = "backlight"
      THEN IF l > 0 THEN asked = <<Wave!compute_duty_cycle(l), Wave!Op("on")>> ELSE asked = <<Wave!Op("off")>>
      ELSE IF consumer = "fan" /\ l = flag THEN asked = <<>>
      ELSE IF l > 0 THEN asked = <<Wave!Op("config"), Wave!Op("enable")>> ELSE asked = <<Wave!Op("disable")>>
  BY <1>1 DEF Wave!Requested, Wave!update_status, Wave!set_cur_state, Wave!fan_set_pwm, Wave!set_pwm, PwmTypes,
     Wave!Consumers
<1>5. asked \in Seq([op : Ops, to : Nat])
  <2>1. <<>> \in Seq([op : Ops, to : Nat])
    OBVIOUS
  <2>. QED  BY <1>4, <2>1, RequestsAre
<1>6. /\ caller' \in [Wave!All -> Records]
      /\ caller'[c].level = l /\ caller'[c].calls = asked /\ caller'[c].at = "idle" /\ caller[c].at = "idle"
      /\ \A d \in Wave!All : d # c => caller'[d] = caller[d]
      /\ \A d \in Wave!All : caller'[d].at = caller[d].at /\ caller'[d].seen = caller[d].seen
                        /\ caller'[d].want = caller[d].want
  BY <1>1, <1>2, <1>5 DEF PwmTypes, Records, Wave!InCall
<1>7. PwmTypes'
  <2>1. mixed' \in BOOLEAN /\ doubt' \in BOOLEAN
    BY <1>1, <1>2 DEF PwmTypes
  <2>2. cell' \in Nat /\ level' \in Nat
    BY <1>1, <1>2 DEF PwmTypes
  <2>. QED  BY <1>1, <1>3, <1>6, <2>1, <2>2 DEF PwmTypes
<1>8. /\ \A d \in Wave!All : Wave!InCall(d)' = Wave!InCall(d) /\ (d # c => Wave!Busy(d)' = Wave!Busy(d)
            /\ LastOp(d)' = LastOp(d)
                                                            /\ Wave!Current(d)' = Wave!Current(d))
      /\ Wave!Busy(c)' <=> asked # <<>>
      /\ \A o : Pending(o) => Pending(o)'
  <2>1. \A d \in Wave!All : Wave!InCall(d)' = Wave!InCall(d) /\ (d # c => Wave!Busy(d)' = Wave!Busy(d)
           /\ LastOp(d)' = LastOp(d)
                                                           /\ Wave!Current(d)' = Wave!Current(d))
    BY <1>6 DEF Wave!InCall, Wave!Busy, LastOp, Wave!Current
  <2>2. Wave!Busy(c)' <=> asked # <<>>
    BY <1>6 DEF Wave!Busy
  <2>. QED  BY <1>2, <2>1, <2>2 DEF Pending
<1>9. /\ Closing' = Closing /\ Opening' = Opening /\ Resetting' = Resetting
  BY <1>6 DEF Closing, Opening, Resetting, Wave!At
<1>10. Branched' /\ CoreValid' /\ Overlaps' /\ Clocked' /\ Enabled' /\ Counted' /\ NewestIs'
  BY <1>3, <1>6, <1>8, <1>9 DEF PwmInv, Branched, CoreValid, Wave!Refused, Overlaps, Clocked, Enabled, Counted,
     NewestIs,
                              Wave!Newest, Wave!OnOff, Wave!At
<1>11. Applied'
  BY <1>2, <1>3, <1>6, <1>8 DEF PwmInv, Applied, Applies
<1>12. Scripts'
  <2>1. \A d \in Wave!All : d # c => Script(d)'
    BY <1>3, <1>6, <1>8 DEF PwmInv, Scripts, Script, Wave!Refused
  <2>2. consumer = "backlight" => l <= Scale
    BY <1>2, PwmAssumption DEF Wave!Levels
  <2>3. Script(c)'
    BY <1>2, <1>3, <1>4, <1>6, <1>8, <2>2 DEF Script
  <2>. QED  BY <2>1, <2>3 DEF Scripts
<1>13. /\ Wave!Quiet' => Wave!Quiet /\ asked = <<>>
       /\ asked = <<>> => consumer = "fan" /\ l = flag
  <2>1. Wave!Quiet' => Wave!Quiet /\ asked = <<>>
    BY <1>1, <1>2, <1>8 DEF Wave!Quiet
  <2>2. asked = <<>> => consumer = "fan" /\ l = flag
    BY <1>4
  <2>. QED  BY <2>1, <2>2
<1>14. consumer = "fan" => \A d \in Wave!All : ~Wave!Busy(d)
  BY <1>2 DEF Wave!MayAsk, Wave!All
<1>15. FanFlag'
  BY <1>2, <1>3, <1>13, <1>14 DEF FanFlag
<1>16. Alone'
  BY <1>2, <1>8 DEF Alone
<1>17. consumer = "backlight" /\ ~Wave!Unasked(l) => (l > 0 <=> ~(flag > 0))
  BY DEF Wave!Unasked
<1>18. Flags'
  <2>. SUFFICES ASSUME ~stopped, ~doubt' PROVE Flags'
    BY <1>3 DEF Flags
  <2>1. ~doubt \/ ~Wave!Unasked(l)
    BY <1>2
  <2>2. consumer = "backlight" => IF l > 0 THEN Pending("on")' ELSE Pending("off")'
    <3>. SUFFICES ASSUME consumer = "backlight" PROVE IF l > 0 THEN Pending("on")' ELSE Pending("off")'
      OBVIOUS
    <3>1. Wave!Busy(c)'
      BY <1>4, <1>8, PairHas
    <3>2. LastOp(c)' = IF l > 0 THEN "on" ELSE "off"
      <4>1. LastOp(c)' = asked[Len(asked)].op
        BY <1>6 DEF LastOp
      <4>2. Wave!Op("on").op = "on" /\ Wave!Op("off").op = "off"
        BY DEF Wave!Op
      <4>3. asked[Len(asked)] = IF l > 0 THEN Wave!Op("on") ELSE Wave!Op("off")
        BY <1>4, PairHas
      <4>. QED  BY <4>1, <4>2, <4>3
    <3>. QED  BY <1>1, <3>1, <3>2 DEF Pending
  <2>3. ~doubt => /\ consumer = "backlight" /\ flag > 0 => core.enabled \/ Pending("off")
                  /\ consumer = "backlight" /\ flag = 0 => ~core.enabled \/ Pending("on")
                  /\ Wave!Quiet => core.enabled = (level > 0)
    BY DEF PwmInv, Flags
  <2>4. flag \in Nat
    BY <1>1 DEF PwmTypes
  <2>5. Wave!Quiet' => core'.enabled = (level' > 0)
    <3>. SUFFICES ASSUME Wave!Quiet' PROVE core'.enabled = (level' > 0)
      OBVIOUS
    <3>1. Wave!Quiet /\ asked = <<>> /\ consumer = "fan" /\ l = flag
      BY <1>13
    <3>2. ~doubt
      BY <2>1, <3>1 DEF Wave!Unasked
    <3>3. level = flag
      BY <3>1 DEF PwmInv, FanFlag
    <3>. QED  BY <1>2, <1>3, <2>3, <3>1, <3>2, <3>3
  <2>6. consumer = "backlight" /\ flag > 0 => core.enabled \/ Pending("off")'
    BY <1>8, <1>17, <2>1, <2>2, <2>3
  <2>7. consumer = "backlight" /\ flag = 0 => ~core.enabled \/ Pending("on")'
    <3>1. flag = 0 => ~(flag > 0)
      BY <2>4
    <3>2. flag = 0 /\ consumer = "backlight" /\ ~Wave!Unasked(l) => Pending("on")'
      BY <1>17, <2>2, <3>1
    <3>3. flag = 0 /\ consumer = "backlight" /\ ~doubt => ~core.enabled \/ Pending("on")
      BY <2>3
    <3>. QED  BY <1>8, <2>1, <3>2, <3>3
  <2>. QED  BY <1>3, <2>5, <2>6, <2>7 DEF Flags
<1>19. Duties'
  <2>. SUFFICES ASSUME ~mixed', ~raced, ~doubt' PROVE Duties'
    BY <1>3 DEF Duties
  <2>1. \A d \in Wave!All : Wave!Busy(d)' => d = c
    BY <1>2, <1>8
  <2>2. Wave!Quiet' => Right(core, level')
    <3>. SUFFICES ASSUME Wave!Quiet' PROVE Right(core, level')
      OBVIOUS
    <3>1. Wave!Quiet /\ asked = <<>> /\ consumer = "fan" /\ l = flag
      BY <1>13
    <3>2. ~doubt /\ ~mixed /\ level = flag
      BY <1>2, <3>1 DEF Wave!Unasked, PwmInv, FanFlag
    <3>. QED  BY <1>2, <3>1, <3>2 DEF PwmInv, Duties
  <2>3. Len(asked) = 2 => consumer = "backlight" \/ cell' = l
    BY <1>2, <1>4, PairHas
  <2>4. asked # <<>> => Wave!Current(c)'.op \notin {"enable", "on"}
    BY <1>4, <1>6, PairHas DEF Wave!Current, Wave!Op, Wave!compute_duty_cycle
  <2>. QED  BY <1>2, <1>3, <1>6, <1>8, <2>1, <2>2, <2>3, <2>4 DEF Duties, Right
<1>. QED  BY <1>7, <1>10, <1>11, <1>12, <1>15, <1>16, <1>18, <1>19 DEF PwmInv

(* The state the boot loader leaves, with the request of the probe function ahead. *)
LEMMA InitHolds == ASSUME Wave!Init PROVE PwmInv
<1>1. /\ consumer \in Wave!Consumers /\ boot \in BOOLEAN
      /\ core \in States /\ core.enabled = boot /\ core.duty <= core.period /\ core.period # 0
      /\ consumer = "backlight" => core.period = Scale
  BY PwmAssumption DEF Wave!Init, Wave!Found, States
<1>2. PICK l \in Wave!Levels :
       /\ cell = (IF consumer = "backlight" THEN 0 ELSE l)
       /\ caller = [c \in Wave!All |-> IF c = Wave!Probe
            THEN [Wave!Idle EXCEPT !.level = l,
                              !.calls = IF consumer = "fan" THEN Wave!fan_set_pwm(l) ELSE Wave!Requested(l)]
            ELSE Wave!Idle]
       /\ doubt = (consumer = "backlight" /\ boot /\ l = 0)
  BY DEF Wave!Init
<1>3. /\ clk = Wave!ProbeClocks + Wave!GetStateClocks /\ en = boot
      /\ fifo = <<>> /\ pSample = core.duty /\ duty = 0
      /\ level = 0 /\ mixed = FALSE /\ raced = FALSE /\ stopped = FALSE /\ flag = 0
  BY DEF Wave!Init
<1>. DEFINE asked == IF consumer = "fan" THEN Wave!fan_set_pwm(l) ELSE Wave!Requested(l)
<1>4. l \in Nat /\ (consumer = "backlight" => l <= Scale)
  BY PwmAssumption DEF Wave!Levels
<1>5. IF consumer = "backlight"
      THEN IF l > 0 THEN asked = <<Wave!compute_duty_cycle(l), Wave!Op("on")>> ELSE asked = <<Wave!Op("off")>>
      ELSE IF l > 0 THEN asked = <<Wave!Op("config"), Wave!Op("enable")>> ELSE asked = <<Wave!Op("disable")>>
  BY <1>1 DEF Wave!Requested, Wave!update_status, Wave!fan_set_pwm, Wave!set_pwm, Wave!Consumers
<1>6. asked \in Seq([op : Ops, to : Nat])
  BY <1>4, <1>5, RequestsAre
<1>7. /\ Wave!Idle \in Records /\ Wave!Idle.at = "idle" /\ Wave!Idle.calls = <<>> /\ Wave!Idle.level = 0
  BY IdleIs DEF Wave!Idle
<1>8. /\ caller \in [Wave!All -> Records] /\ Wave!Probe \in Wave!All
      /\ caller[Wave!Probe].level = l /\ caller[Wave!Probe].calls = asked
      /\ \A c \in Wave!All : caller[c].at = "idle" /\ (c # Wave!Probe => caller[c] = Wave!Idle)
  <2>1. PICK r : r = [Wave!Idle EXCEPT !.level = l, !.calls = asked]
    OBVIOUS
  <2>2. r \in Records /\ r.at = "idle" /\ r.level = l /\ r.calls = asked
    BY <1>4, <1>6, <1>7, <2>1 DEF Records, Wave!Idle
  <2>3. caller = [c \in Wave!All |-> IF c = Wave!Probe THEN r ELSE Wave!Idle]
    BY <1>2, <2>1
  <2>. QED  BY <1>7, <2>2, <2>3 DEF Wave!All
<1>9. PwmTypes
  <2>1. clk \in Nat /\ cell \in Nat /\ pSample \in Nat /\ duty \in Nat
    BY <1>1, <1>2, <1>3, <1>4 DEF Wave!ProbeClocks, Wave!GetStateClocks, States
  <2>2. <<>> \in Seq(Nat)
    OBVIOUS
  <2>3. doubt \in BOOLEAN /\ en \in BOOLEAN
    BY <1>1, <1>2, <1>3
  <2>. QED  BY <1>1, <1>3, <1>8, <2>1, <2>2, <2>3 DEF PwmTypes
<1>10. /\ \A c \in Wave!All : ~Wave!InCall(c) /\ (Wave!Busy(c) <=> c = Wave!Probe)
       /\ ~Closing /\ ~Opening /\ ~Resetting
  <2>1. asked # <<>>
    BY <1>5, PairHas
  <2>2. \A c \in Wave!All : ~Wave!InCall(c) /\ (Wave!Busy(c) <=> c = Wave!Probe)
    BY <1>7, <1>8, <2>1 DEF Wave!InCall, Wave!Busy
  <2>. QED  BY <1>8, <2>2 DEF Closing, Opening, Resetting, Wave!At
<1>11. Branched /\ CoreValid /\ Applied /\ Overlaps /\ Alone
  BY <1>1, <1>3, <1>8, <1>10 DEF Branched, CoreValid, Wave!Refused, Applied, Applies, Overlaps, Alone, Wave!At, States
<1>12. Scripts
  BY <1>4, <1>5, <1>7, <1>8, <1>10, PwmAssumption DEF Scripts, Script
<1>13. Clocked /\ Enabled /\ Counted
  BY <1>1, <1>3, <1>8, <1>10 DEF Clocked, Enabled, Counted, Wave!OnOff, Wave!ProbeClocks, Wave!GetStateClocks, Wave!At
<1>14. NewestIs
  BY <1>3, <1>8 DEF NewestIs, Wave!Newest, Wave!At
<1>15. ~Wave!Quiet
  BY <1>8, <1>10 DEF Wave!Quiet
<1>16. FanFlag
  BY <1>3, <1>15 DEF FanFlag
<1>17. Flags
  <2>1. consumer = "backlight" /\ l > 0 => Pending("on")
    <3>1. consumer = "backlight" /\ l > 0 => LastOp(Wave!Probe) = "on"
      <4>1. LastOp(Wave!Probe) = asked[Len(asked)].op
        BY <1>8 DEF LastOp
      <4>2. Wave!Op("on").op = "on"
        BY DEF Wave!Op
      <4>3. consumer = "backlight" /\ l > 0 => asked[Len(asked)] = Wave!Op("on")
        <5>. HIDE DEF asked
        <5>. QED  BY <1>5, PairHas
      <4>. QED  BY <4>1, <4>2, <4>3
    <3>. QED  BY <1>8, <1>10, <3>1 DEF Pending
  <2>2. ~doubt /\ consumer = "backlight" /\ core.enabled => l > 0
    <3>1. ~doubt /\ consumer = "backlight" /\ core.enabled => l # 0
      BY <1>1, <1>2
    <3>. QED  BY <1>4, <3>1
  <2>. QED  BY <1>3, <1>15, <2>1, <2>2 DEF Flags
<1>18. Duties
  <2>1. Wave!Current(Wave!Probe).op \notin {"enable", "on"}
    BY <1>5, <1>8, PairHas DEF Wave!Current, Wave!Op, Wave!compute_duty_cycle
  <2>. QED  BY <1>2, <1>8, <1>10, <1>15, <2>1 DEF Duties
<1>. QED  BY <1>9, <1>11, <1>12, <1>13, <1>14, <1>16, <1>17, <1>18 DEF PwmInv

(* What the invariant says of the output and of the clocks.                 *)
LEMMA PwmAsked == ASSUME PwmInv PROVE Wave!OutputIsAsked /\ Wave!ClocksCounted
<1>1. PwmTypes
  BY DEF PwmInv
<1>2. \A c \in Wave!All : ~Wave!Busy(c) => ~Wave!InCall(c)
  BY DEF PwmInv, Scripts, Script
<1>3. ASSUME \A c \in Wave!All : ~Wave!InCall(c)
      PROVE  /\ ~Closing /\ ~Opening /\ ~Resetting
             /\ ~stopped => en = core.enabled
             /\ ~raced => Wave!Newest = core.duty
  <2>1. \A c \in Wave!All : caller[c].at = "idle"
    BY <1>3 DEF Wave!InCall
  <2>2. ~Closing /\ ~Opening /\ ~Resetting
    BY <2>1 DEF Closing, Opening, Resetting, Wave!At
  <2>3. ~stopped => en = core.enabled
    BY <1>1, <2>2 DEF PwmInv, Enabled, PwmTypes, States
  <2>. QED  BY <2>1, <2>2, <2>3 DEF PwmInv, NewestIs
<1>4. Wave!OutputIsAsked
  <2>. SUFFICES ASSUME Wave!Quiet, ~doubt, ~stopped
                PROVE  /\ en = (level > 0)
                       /\ consumer = "backlight" /\ level > 0 /\ ~mixed /\ ~raced => Wave!Newest = level
                       /\ consumer # "backlight" /\ level = Scale /\ ~mixed /\ ~raced
                             => Wave!Newest = Scale /\ core.period = Scale
    BY DEF Wave!OutputIsAsked
  <2>1. en = core.enabled /\ (~raced => Wave!Newest = core.duty)
    BY <1>2, <1>3 DEF Wave!Quiet
  <2>2. core.enabled = (level > 0)
    BY DEF PwmInv, Flags
  <2>3. ~mixed /\ ~raced => Right(core, level)
    BY DEF PwmInv, Duties
  <2>. QED  BY <2>1, <2>2, <2>3 DEF Right
<1>5. Wave!ClocksCounted
  <2>1. ~raced /\ (\A c \in Wave!All : ~Wave!InCall(c)) => clk = Wave!OnOff(en) + Wave!OnOff(boot)
    <3>. SUFFICES ASSUME ~raced, \A c \in Wave!All : ~Wave!InCall(c) PROVE clk = Wave!OnOff(en) + Wave!OnOff(boot)
      OBVIOUS
    <3>1. en = core.enabled
      BY <1>3 DEF PwmInv, Overlaps
    <3>. QED  BY <3>1 DEF PwmInv, Counted
  <2>. QED  BY <2>1 DEF PwmInv, Clocked, Wave!ClocksCounted
<1>. QED  BY <1>4, <1>5

(* PwmInv is inductive.                                                    *)
LEMMA PwmInductive ==
  /\ Wave!Init => PwmInv
  /\ PwmInv /\ (Wave!Next \/ UNCHANGED pwmVars) => PwmInv'
<1>1. Wave!Init => PwmInv
  BY InitHolds
<1>2. ASSUME PwmInv, UNCHANGED pwmVars PROVE PwmInv'
  <2>1. /\ UNCHANGED <<consumer, boot, cell, flag, caller, core, clk, en, fifo, pSample, duty>>
        /\ UNCHANGED <<level, mixed, raced, stopped, doubt>>
    BY <1>2 DEF pwmVars
  <2>2. PwmTypes' /\ Branched' /\ CoreValid' /\ Counted' /\ NewestIs'
    BY <1>2, <2>1 DEF PwmInv, PwmTypes, Branched, CoreValid, Counted, NewestIs, Wave!Consumers, Wave!InCall, Wave!At,
                      Wave!Refused, Wave!Newest, Wave!OnOff
  <2>3. Scripts' /\ Applied' /\ Overlaps' /\ FanFlag' /\ Alone'
    BY <1>2, <2>1 DEF PwmInv, Scripts, Script, Applied, Applies, Overlaps, FanFlag, Alone, Wave!Busy, Wave!InCall,
                      Wave!Current, Wave!Refused, Wave!Quiet
  <2>4. Clocked' /\ Enabled'
    BY <1>2, <2>1 DEF PwmInv, Clocked, Enabled, Closing, Resetting, Opening, Wave!At
  <2>5. Flags' /\ Duties'
    BY <1>2, <2>1 DEF PwmInv, Flags, Duties, Pending, LastOp, Right, Wave!Busy, Wave!InCall, Wave!Current, Wave!Quiet
  <2>. QED  BY <2>2, <2>3, <2>4, <2>5 DEF PwmInv
<1>3. ASSUME PwmInv, Wave!Next PROVE PwmInv'
  <2>1. CASE \E c \in Callers, l \in 0..(Scale + 1) : Wave!Ask(c, l)
    <3>1. PICK c \in Callers, l \in 0..(Scale + 1) : Wave!Ask(c, l)
      BY <2>1
    <3>2. l \in Nat
      BY PwmAssumption
    <3>. QED  BY <1>3, <3>1, <3>2, AskKeeps
  <2>2. ASSUME NEW c \in Wave!All,
               \/ Wave!Pass(c) \/ Wave!Call(c) \/ Wave!Apply(c) \/ Wave!Clocks(c) \/ Wave!NoClocks(c)
               \/ Wave!WaitFifoSlot(c) \/ Wave!WriteSamples(c) \/ Wave!WriteControl(c) \/ Wave!Store(c)
        PROVE  PwmInv'
    BY <1>3, <2>2, PassKeeps, CallKeeps, ApplyKeeps, ClocksKeep, NoClocksKeep, WaitKeeps, SamplesKeep, ControlKeeps,
       StoreKeeps
  <2>3. CASE Wave!Consume
    BY <1>3, <2>3, ConsumeKeeps
  <2>. QED  BY <1>3, <2>1, <2>2, <2>3 DEF Wave!Next
<1>. QED  BY <1>1, <1>2, <1>3

(* With any number of callers, whose calls overlap as they may, the PWM is  *)
(* on exactly when the request that ended last is not for 0, registers are   *)
(* used with the clocks on and the clocks are counted right, but for the     *)
(* overlaps that PwmObeys excepts.                                           *)
THEOREM OutputObeys == MCSpec => []PwmObeys
<1>1. MCInit => PwmInv
  BY PwmInductive DEF MCInit
<1>2. PwmInv /\ [MCNext]_<<which, vars, diskVars, sensorVars, pwmVars, outputVars>> => PwmInv'
  BY PwmInductive DEF MCNext, AdcNext, DiskNext, SensorNext, PwmNext, OutputNext
<1>3. PwmInv => PwmObeys
  BY PwmAsked DEF PwmObeys
<1>. QED  BY <1>1, <1>2, <1>3, PTL DEF MCSpec

-----------------------------------------------------------------------------
\* Outputs: a process in a call holds a byte of its door; only write takes more than 0 and 1.
Doors == {"none", "write", "empty", "ioctl", "class", "store"}
JobsOK ==
  /\ job \in [Users -> [door : Doors, data : Bytes \cup {0, 1}]]
  /\ \A u \in Users : job[u].door \notin {"write", "empty"} => job[u].data \in {0, 1}
OutputInv == line \in {0, 1} /\ JobsOK /\ Output!LineIsLast

(* A byte sets the line exactly when it is one a caller may write.          *)
LEMMA MeantIsValid ==
  ASSUME NEW b \in Bytes \cup {0, 1}
  PROVE  /\ b \in Output!Meant <=> Output!Valid(Output!Converted(b))
         /\ b \in Output!Meant => (Output!Converted(b) = 1 <=> b \in {1, Output!Zero + 1})
         /\ b \in {0, 1} => Output!Converted(b) = b
  BY OutputAssumption
  DEF Output!Meant, Output!Valid, Output!Values, Output!Converted, Output!Zero

(* A process enters through a door and copies its value.                    *)
LEMMA EnterKeepsOutput ==
  ASSUME OutputInv, NEW u \in Users, NEW door \in Doors \ {"none"}, NEW ds,
         (ds = Bytes /\ door \in {"write", "empty"}) \/ ds = {0, 1},
         Output!Enter(u, door, ds)
  PROVE  OutputInv'
<1>1. PICK d \in ds : job' = [job EXCEPT ![u] = [door |-> door, data |-> d]]
  BY DEF Output!Enter
<1>2. UNCHANGED <<line, brightness, last>>
  BY DEF Output!Enter
<1>3. JobsOK'
  BY <1>1 DEF OutputInv, JobsOK
<1>. QED  BY <1>2, <1>3 DEF OutputInv, Output!LineIsLast

(* A process sets the line, and the LED class remembers its own value.      *)
LEMMA SetKeepsOutput ==
  ASSUME OutputInv, NEW u \in Users, Output!Set(u), job[u].door # "none",
         brightness' = IF job[u].door = "class" THEN job[u].data ELSE brightness
  PROVE  OutputInv'
<1>. DEFINE j == job[u]
<1>1. j \in [door : Doors, data : Bytes \cup {0, 1}]
  BY DEF OutputInv, JobsOK
<1>2. j.door \notin {"write", "empty"} => j.data \in {0, 1}
  BY DEF OutputInv, JobsOK
<1>3. JobsOK'
  BY DEF OutputInv, JobsOK, Output!Set, Output!Free, Doors
<1>4. /\ j.data \in Output!Meant <=> Output!Valid(Output!Status(j))
      /\ j.data \in Output!Meant => (Output!Status(j) = 1 <=> j.data \in {1, Output!Zero + 1})
  BY <1>1, <1>2, MeantIsValid DEF Output!Status
<1>5. j.door = "class" => Output!Status(j) = j.data /\ j.data \in {0, 1}
  BY <1>2 DEF Output!Status
<1>6. CASE j.data \in Output!Meant
  <2>1. line' = Output!Status(j) /\ last' = j
    BY <1>4, <1>6 DEF Output!Set
  <2>2. line' \in {0, 1}
    BY <1>4, <1>6, <2>1 DEF Output!Valid, Output!Values
  <2>. QED  BY <1>3, <1>4, <1>5, <1>6, <2>1, <2>2 DEF OutputInv, Output!LineIsLast
<1>7. CASE j.data \notin Output!Meant
  <2>1. line' = line /\ last' = last
    BY <1>4, <1>7 DEF Output!Set
  <2>2. j.door # "class"
    BY <1>5, <1>7 DEF Output!Meant
  <2>. QED  BY <1>3, <2>1, <2>2 DEF OutputInv, Output!LineIsLast
<1>. QED  BY <1>6, <1>7

(* The LED and the beeper keep their invariant.                             *)
LEMMA OutputInductive ==
  /\ Output!Init => OutputInv
  /\ OutputInv /\ [Output!Next]_outputVars => OutputInv'
<1>1. ASSUME Output!Init PROVE OutputInv
  BY <1>1 DEF Output!Init, Output!Values, Output!Free, Output!Zero, Output!LineIsLast, OutputInv, JobsOK, Doors
<1>2. ASSUME OutputInv, UNCHANGED outputVars PROVE OutputInv'
  BY <1>2 DEF outputVars, OutputInv, JobsOK, Output!LineIsLast
<1>3. ASSUME OutputInv, NEW u \in Users,
             Output!led_write(u) \/ Output!led_ioctl(u) \/ Output!gpio_led_set(u) \/ Output!led_store(u)
      PROVE  OutputInv'
  BY <1>3, EnterKeepsOutput, Zenon
  DEF Output!led_write, Output!led_ioctl, Output!gpio_led_set, Output!led_store, Output!Values, Doors
<1>4. ASSUME OutputInv, NEW u \in Users, Output!beep_write(u) \/ Output!beep_ioctl(u)
      PROVE  OutputInv'
  BY <1>4, EnterKeepsOutput, Zenon DEF Output!beep_write, Output!beep_ioctl, Output!Values, Doors
<1>5. ASSUME OutputInv, NEW u \in Users, Output!led_hardware_set(u) \/ Output!beep_hardware_set(u)
      PROVE  OutputInv'
  <2>1. /\ Output!Set(u) /\ job[u].door # "none"
        /\ brightness' = IF job[u].door = "class" THEN job[u].data ELSE brightness
    BY <1>5 DEF Output!led_hardware_set, Output!beep_hardware_set
  <2>. QED  BY <1>5, <2>1, SetKeepsOutput
<1>6. ASSUME OutputInv, NEW u \in Users, Output!Store(u) PROVE OutputInv'
  BY <1>6 DEF Output!Store, Output!Free, OutputInv, JobsOK, Output!LineIsLast, Doors
<1>. QED  BY <1>1, <1>2, <1>3, <1>4, <1>5, <1>6 DEF Output!Next

(* The line shows the request that was carried out last, whichever door it  *)
(* came through, and the LED class knows its own.                           *)
THEOREM LinesShowRequests == MCSpec => []LineIsLast
<1>1. MCInit => OutputInv
  BY OutputInductive DEF MCInit
<1>2. OutputInv /\ [MCNext]_<<which, vars, diskVars, sensorVars, pwmVars, outputVars>> => OutputInv'
  BY OutputInductive DEF MCNext, AdcNext, DiskNext, SensorNext, PwmNext, OutputNext, vars, diskVars,
     sensorVars, pwmVars, outputVars
<1>3. OutputInv => LineIsLast
  BY DEF OutputInv, LineIsLast
<1>. QED  BY <1>1, <1>2, <1>3, PTL DEF MCSpec
=============================================================================
