------------------------------- MODULE Sensors -------------------------------
(***************************************************************************)
(* The four sensor drivers with a character device: the light sensor over   *)
(* I2C messages (ch03-07) and over a register map (ch03-10/regmap_ap3216c), *)
(* the motion sensor over SPI (ch03-08) and over a register map             *)
(* (ch03-10/regmap_icm202608).  A sample is the number of the measurement   *)
(* it stems from; a channel is a word of two registers that the sensor      *)
(* holds together while its low byte and then its high byte are read.       *)
(***************************************************************************)
EXTENDS Naturals, FiniteSets

CONSTANTS Users,       \* processes that read the device
          Channels,    \* the words of a sample
          ConfigRegs,  \* the registers probe writes
          MaxSamples, MaxErrors

Drivers == {"i2c_ap", "spi_icm", "regmap_ap", "regmap_icm"}
Handler == "handler"   \* the interrupt thread of regmap_ap, which reads as well
NoWords == [c \in Channels |-> 0]

VARIABLES driver,
          bound,    \* probe has configured the sensor: interrupt and device follow
          written,  \* the configuration registers as the tree, or the default, has them
          sample,   \* the measurement now in the sensor
          pc,       \* of every reader: idle, reading, storing, copying
          regs,     \* what a reader has read, channel by channel
          data,     \* chip->data of regmap_ap, shared by all readers
          since,    \* the measurement in the sensor when the read was called
          out,      \* what the read that returned last gave its caller
          shared,   \* history: the readers under way with another one beside them
          errors

sensorVars == <<driver, bound, written, sample, pc, regs, data, since, out, shared, errors>>
Readers == Users \cup {Handler}

Init ==
  /\ driver \in Drivers /\ bound = FALSE /\ written = {} /\ sample = 1
  /\ pc = [r \in Readers |-> "idle"] /\ regs = [r \in Readers |-> NoWords]
  /\ data = NoWords /\ since = [r \in Readers |-> 0]
  /\ out = [words |-> NoWords, called |-> 0, alone |-> TRUE] /\ shared = {} /\ errors = 0

Error == errors < MaxErrors /\ errors' = errors + 1

(***************************************************************************)
(* probe writes the configuration: what the tree gives, or the defaults of  *)
(* the driver.  The drivers that build the messages themselves give up at   *)
(* the first transfer that fails; regmap_write is never asked how it went.  *)
(***************************************************************************)
WriteRegister(r) ==
  /\ ~bound /\ r \in ConfigRegs \ written
  /\ written' = written \cup {r}
  /\ UNCHANGED <<driver, bound, sample, pc, regs, data, since, out, shared, errors>>

Configured ==
  /\ ~bound /\ bound' = TRUE
  /\ UNCHANGED <<driver, written, sample, pc, regs, data, since, out, shared>>
Careful  == written = ConfigRegs /\ UNCHANGED errors
Careless == Careful \/ (written # ConfigRegs /\ Error)

I2cApProbe     == driver = "i2c_ap" /\ Careful /\ Configured
SpiIcmProbe    == driver = "spi_icm" /\ Careful /\ Configured
RegmapApProbe  == driver = "regmap_ap" /\ Careless /\ Configured
RegmapIcmProbe == driver = "regmap_icm" /\ Careless /\ Configured

Measure ==
  /\ bound /\ sample < MaxSamples
  /\ sample' = sample + 1
  /\ UNCHANGED <<driver, bound, written, pc, regs, data, since, out, shared, errors>>

-----------------------------------------------------------------------------
Begin(r) ==
  /\ bound /\ pc[r] = "idle"
  /\ pc' = [pc EXCEPT ![r] = "reading"]
  /\ since' = [since EXCEPT ![r] = sample]
  /\ shared' = LET others == {s \in Readers \ {r} : pc[s] # "idle"}
               IN (shared \ {r}) \cup others \cup (IF others = {} THEN {} ELSE {r})
  /\ UNCHANGED <<driver, bound, written, sample, regs, data, out, errors>>
\* The interrupt thread of regmap_ap.
InterruptThread == driver = "regmap_ap" /\ Begin(Handler)

\* A reader returns: what it had is gone.
Leave(r) ==
  /\ pc' = [pc EXCEPT ![r] = "idle"]
  /\ regs' = [regs EXCEPT ![r] = NoWords]
  /\ since' = [since EXCEPT ![r] = 0]
  /\ shared' = shared \ {r}

\* One transfer: the channels cs are read, and the reader goes on at then when it has all.
Transfer(r, cs, then) ==
  /\ pc[r] = "reading"
  /\ \/ /\ regs' = [regs EXCEPT ![r] = [c \in Channels |-> IF c \in cs THEN sample ELSE @[c]]]
        /\ pc' = [pc EXCEPT ![r] = IF \A c \in Channels : regs'[r][c] # 0 THEN then ELSE @]
        /\ UNCHANGED <<since, shared, errors>>
     \/ Error /\ Leave(r)
  /\ UNCHANGED <<driver, bound, written, sample, data, out>>
AtOnce(r, then)  == Transfer(r, Channels, then)
InTurn(r, then) ==
  \E c \in Channels : /\ {d \in Channels : regs[r][d] = 0} = {d \in Channels : d >= c}
                     /\ Transfer(r, {c}, then)

I2cApRead(r)     == driver = "i2c_ap" /\ InTurn(r, "copying")
(* Mutant: the motion sensor is read word by word.                          *)
SpiIcmRead_InTurn(r) == driver = "spi_icm" /\ InTurn(r, "copying")
SpiIcmRead(r)    == driver = "spi_icm" /\ AtOnce(r, "copying")
RegmapApRead(r)  == driver = "regmap_ap" /\ InTurn(r, "storing")
RegmapIcmRead(r) == driver = "regmap_icm" /\ AtOnce(r, "copying")
Read(r) == I2cApRead(r) \/ SpiIcmRead(r) \/ RegmapApRead(r) \/ RegmapIcmRead(r)

\* read_values of regmap_ap leaves the sample in the chip, for whoever copies it.
Store(r) ==
  /\ pc[r] = "storing"
  /\ data' = regs[r]
  /\ \/ r = Handler /\ Leave(r)
     \/ r # Handler /\ pc' = [pc EXCEPT ![r] = "copying"] /\ UNCHANGED <<regs, since, shared>>
  /\ UNCHANGED <<driver, bound, written, sample, out, errors>>

Copy(u) ==
  /\ pc[u] = "copying"
  /\ out' = [words |-> IF driver = "regmap_ap" THEN data ELSE regs[u],
             called |-> since[u], alone |-> u \notin shared]
  /\ Leave(u)
  /\ UNCHANGED <<driver, bound, written, sample, data, errors>>

Probe == I2cApProbe \/ SpiIcmProbe \/ RegmapApProbe \/ RegmapIcmProbe
Next == \/ Probe \/ Measure \/ InterruptThread
        \/ \E r \in ConfigRegs : WriteRegister(r)
        \/ \E u \in Users : Begin(u) \/ Copy(u)
        \/ \E r \in Readers : Read(r) \/ Store(r)
Spec == Init /\ [][Next]_sensorVars

-----------------------------------------------------------------------------
TypeOK ==
  /\ driver \in Drivers /\ bound \in BOOLEAN /\ written \subseteq ConfigRegs
  /\ pc \in [Readers -> {"idle", "reading", "storing", "copying"}]
  /\ {data} \cup {regs[r] : r \in Readers} \cup {out.words}
       \subseteq [Channels -> 0..MaxSamples]

(***************************************************************************)
(* The read functions, several processes at a time: nothing is returned     *)
(* that was measured before the call, the two motion sensor drivers return  *)
(* the words of one measurement, and the drivers that look at their         *)
(* transfers return only what was measured with the whole configuration.    *)
(* regmap_ap keeps the sample in the chip between reading and copying, and  *)
(* promises the first only to a reader that was alone.                      *)
(***************************************************************************)
ReadIsFresh ==
  /\ out.alone \/ driver # "regmap_ap" => \A c \in Channels : out.words[c] >= out.called
  /\ driver \in {"spi_icm", "regmap_icm"} =>
       \A c, d \in Channels : out.words[c] = out.words[d]
  /\ driver \in {"i2c_ap", "spi_icm"} /\ out.called > 0 => written = ConfigRegs
=============================================================================
