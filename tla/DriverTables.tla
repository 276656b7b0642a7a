---------------------------- MODULE DriverTables ----------------------------
(***************************************************************************)
(* What the drivers under src/file/ch03-* ask of the kernel, in the order   *)
(* in which they ask.  A driver is a record                                 *)
(*   probe   the calls of its probe function that take something, that can  *)
(*           fail, or that use what was taken before                        *)
(*   remove  what its remove function gives back or uses, in order          *)
(*   calls   for each way in (a device file, an attribute, an interrupt),   *)
(*           what the functions behind it use                               *)
(* A call of probe says which resources are given back, and in which order, *)
(* when it fails: that is the driver's error path.  Resources taken with    *)
(* devm_ functions are given back by the driver core, last taken first.     *)
(***************************************************************************)
EXTENDS Naturals, Sequences

Nothing == "nothing"

Call(takes, managed, fails, needs, undo) ==
  [takes |-> takes, managed |-> managed, fails |-> fails, needs |-> needs, undo |-> undo, gives |-> {}]

\* A devm_ call; a call that the driver itself must take back; one that takes nothing.
Managed(r, undo) == Call(r, TRUE, "stop", {}, undo)
Taken(r, undo)   == Call(r, FALSE, "stop", {}, undo)
Checked(needs, undo) == Call(Nothing, FALSE, "stop", needs, undo)
\* A use that cannot fail, or whose failure nobody would notice.
Uses(needs) == Call(Nothing, FALSE, "never", needs, <<>>)
\* Calls whose failure the driver does not see: it goes on without the resource.
Ignored(r, managed) == Call(r, managed, "ignored", {}, <<>>)
\* A part of the driver's own memory that the call prepares.  It goes with that
\* memory; that the list of devm_ resources holds it only lets it go sooner.
Prepared(r) == Call(r, TRUE, "never", {}, <<>>)
\* A call after which the driver no longer has r.
Giving(call, r) == [call EXCEPT !.gives = {r}]

\* What is given back by functions that do not tell the list of devm_ resources.
PutDirectly == {"cell"}

\* Steps of remove.
Drop(r)     == [drops |-> r, needs |-> {}]
UsesLast(needs) == [drops |-> Nothing, needs |-> needs]
Drops(rs)   == [i \in DOMAIN rs |-> Drop(rs[i])]

(***************************************************************************)
(* The registration of a character device, which most of the drivers share: *)
(* number, cdev, class, device, taken back in the opposite order.           *)
(***************************************************************************)
CharDevice(undo) ==
  << Taken("devid", undo),
     Taken("cdev", <<"devid">> \o undo),
     Taken("class", <<"cdev", "devid">> \o undo),
     Taken("device", <<"class", "cdev", "devid">> \o undo) >>
CharDeviceUndo == <<"device", "class", "cdev", "devid">>

-----------------------------------------------------------------------------
(* ch03-03/led and ch03-04, the same file: five mapped registers that only  *)
(* the driver can unmap, a GPIO, a character device, an attribute and an    *)
(* LED class device.                                                        *)
LedRegisters == <<"reg1", "reg2", "reg3", "reg4", "reg5">>
LedHardware ==
  << Managed("gpio", <<>>) >>
  \o [i \in 1..5 |-> Taken(LedRegisters[i], SubSeq(LedRegisters, 1, i - 1))]
  \o << Uses({"reg3"}), Managed("pinctrl", LedRegisters),
        Checked({"pinctrl"}, LedRegisters), Checked({"pinctrl"}, LedRegisters),
        Checked({}, LedRegisters), Uses({"gpio"}) >>
LedCreate ==
  CharDevice(LedRegisters)
  \o << Taken("attr", CharDeviceUndo \o LedRegisters),
        Managed("classdev", <<"attr">> \o CharDeviceUndo \o LedRegisters) >>
LedProbe  == << Managed("chip", <<>>) >> \o LedHardware \o LedCreate
LedRemove == Drops(<<"attr">> \o CharDeviceUndo \o LedRegisters)
LedCalls  == [ device |-> {"chip", "gpio"}, classdev |-> {"chip", "gpio"},
               attr |-> {"chip", "gpio", "pinctrl"} \cup {LedRegisters[i] : i \in 1..5} ]
Led == [probe |-> LedProbe, remove |-> LedRemove, calls |-> LedCalls]
\* The copy of ch03-04.
Led4Hardware == LedHardware
Led4Create   == LedCreate
Led4Probe    == << Managed("chip", <<>>) >> \o Led4Hardware \o Led4Create
Led4Remove   == LedRemove
Led4 == [probe |-> Led4Probe, remove |-> Led4Remove, calls |-> LedCalls]

(* ch03-03/miscbeep: one GPIO behind a misc device; remove switches it off. *)
BeepHardware == << Managed("gpio", <<>>), Checked({}, <<>>), Uses({"gpio"}) >>
BeepCreate   == << Taken("misc", <<>>) >>
BeepProbe    == << Managed("chip", <<>>) >> \o BeepHardware \o BeepCreate
BeepRemove   == << Drop("misc"), UsesLast({"gpio"}) >>
BeepCalls    == [ misc |-> {"chip", "gpio"} ]
Beep == [probe |-> BeepProbe, remove |-> BeepRemove, calls |-> BeepCalls]

(* ch03-07: the light sensor on I2C messages of its own.                    *)
I2cApCreate == CharDevice(<<>>)
I2cApProbe  == << Managed("chip", <<>>), Checked({"chip"}, <<>>), Checked({"chip"}, <<>>) >> \o I2cApCreate
I2cApRemove == Drops(CharDeviceUndo)
I2cApCalls  == [ device |-> {"chip"} ]
I2cAp == [probe |-> I2cApProbe, remove |-> I2cApRemove, calls |-> I2cApCalls]

(* ch03-08: the motion sensor on SPI; setup, two resets, the identity and   *)
(* eight configuration registers may each fail.                             *)
SpiIcmHardware == [i \in 1..13 |-> Checked({"chip"}, <<>>)]
SpiIcmCreate == CharDevice(<<>>)
SpiIcmProbe  == << Managed("chip", <<>>) >> \o SpiIcmHardware \o SpiIcmCreate
SpiIcmRemove == Drops(CharDeviceUndo)
SpiIcmCalls  == [ device |-> {"chip"} ]
SpiIcm == [probe |-> SpiIcmProbe, remove |-> SpiIcmRemove, calls |-> SpiIcmCalls]

(* ch03-10/regmap_ap3216c: the light sensor on a register map, with an      *)
(* interrupt.  The GPIO is compared with NULL, which devm_gpiod_get never   *)
(* returns; what is done with it accepts an error in its place.             *)
RegmapApCreate == CharDevice(<<>>)
RegmapApProbe ==
  << Managed("chip", <<>>), Managed("map", <<>>), Uses({"map"}), Uses({"map"}),
     Ignored("gpio", TRUE), Uses({"gpio"}), Managed("irq", <<>>) >> \o RegmapApCreate
RegmapApRemove == Drops(CharDeviceUndo)
RegmapApCalls  == [ device |-> {"chip", "map"}, irq |-> {"chip", "map"} ]
RegmapAp == [probe |-> RegmapApProbe, remove |-> RegmapApRemove, calls |-> RegmapApCalls]

(* ch03-10/regmap_icm202608: a failing devm_regmap_init_spi is only logged. *)
RegmapIcmHardware == << Ignored("map", TRUE) >> \o [i \in 1..11 |-> Uses({"map"})]
RegmapIcmCreate == CharDevice(<<>>)
RegmapIcmProbe  == << Managed("chip", <<>>) >> \o RegmapIcmHardware \o RegmapIcmCreate
RegmapIcmRemove == Drops(CharDeviceUndo)
RegmapIcmCalls  == [ device |-> {"chip", "map"} ]
RegmapIcm == [probe |-> RegmapIcmProbe, remove |-> RegmapIcmRemove, calls |-> RegmapIcmCalls]

(* ch03-09/iio_adc and ch03-14/iio_adc_temp, the same file.  The handler     *)
(* reads registers, which need the clock, and completes the completion: the *)
(* interrupt is requested before there is either, and freed by the driver   *)
(* core when the error path or remove has stopped the clock.                *)
AdcProbe ==
  << Managed("iio", <<>>), Managed("regs", <<>>), Checked({}, <<>>), Managed("irq", <<>>),
     Managed("clk", <<>>), Managed("vref", <<>>), Taken("vref_on", <<>>), Prepared("completion"),
     Taken("clk_on", <<"vref_on">>), Uses({"regs", "clk_on"}),
     Taken("buffer", <<"clk_on", "vref_on">>),
     Taken("iio_device", <<"buffer", "clk_on", "vref_on">>) >>
AdcRemove == Drops(<<"iio_device", "buffer", "vref_on", "clk_on">>)
AdcHandler == {"iio", "regs", "clk_on", "completion"}
AdcCalls  == [ iio_device |-> AdcHandler \cup {"vref_on", "irq"}, irq |-> AdcHandler ]
Adc == [probe |-> AdcProbe, remove |-> AdcRemove, calls |-> AdcCalls]
\* The copy of ch03-14.
AdcTempProbe  == AdcProbe
AdcTempRemove == AdcRemove
AdcTemp == [probe |-> AdcTempProbe, remove |-> AdcTempRemove, calls |-> AdcCalls]

(* The three drivers of the PCF8563 clock.  The handler of the last one may *)
(* run before the clock is allocated: the RTC core accepts a null pointer.  *)
BusRtcProbe ==
  << Managed("chip", <<>>), Checked({"chip"}, <<>>), Managed("rtc", <<>>), Managed("rtc_device", <<>>),
     Managed("gpio", <<>>), Checked({"gpio"}, <<>>), Managed("irq", <<>>) >>
BusRtcRemove == << >>
BusRtcCalls  == [ rtc_device |-> {"rtc"}, irq |-> {"chip", "rtc"} ]
BusRtc == [probe |-> BusRtcProbe, remove |-> BusRtcRemove, calls |-> BusRtcCalls]

RegmapRtcProbe ==
  << Managed("chip", <<>>), Managed("map", <<>>), Checked({"map"}, <<>>), Managed("rtc", <<>>),
     Managed("rtc_device", <<>>), Managed("gpio", <<>>), Checked({"gpio"}, <<>>), Managed("irq", <<>>) >>
RegmapRtcRemove == << >>
RegmapRtcCalls  == [ rtc_device |-> {"rtc", "chip", "map"}, irq |-> {"chip", "map", "rtc"} ]
RegmapRtc == [probe |-> RegmapRtcProbe, remove |-> RegmapRtcRemove, calls |-> RegmapRtcCalls]

PcfProbe ==
  << Managed("chip", <<>>), Managed("map", <<>>), Checked({"map"}, <<>>), Managed("gpio", <<>>),
     Uses({"gpio"}), Managed("irq", <<>>), Managed("rtc", <<>>), Managed("rtc_device", <<>>) >>
PcfRemove == << >>
PcfCalls  == [ rtc_device |-> {"rtc", "chip", "map"}, irq |-> {"chip", "map", "rtc"} ]
Pcf == [probe |-> PcfProbe, remove |-> PcfRemove, calls |-> PcfCalls]

(* The disks in memory, ch03-20 and ch03-33: without a queue, and with one, *)
(* where blk_mq_alloc_disk answers an error pointer and not the null        *)
(* pointer the driver looks for.                                            *)
BioDiskInit ==
  << Taken("major", <<>>), Taken("disk", <<"major">>), Taken("memory", <<"disk", "major">>),
     Taken("added", <<"memory", "disk", "major">>) >>
BioDiskExit  == Drops(<<"added", "disk", "major", "memory">>)
BioDiskCalls == [ added |-> {"disk", "memory"} ]
BioDisk == [probe |-> BioDiskInit, remove |-> BioDiskExit, calls |-> BioDiskCalls]
\* The same in ch03-20, with another way to say how large the disk is.
BioDisk20Init == BioDiskInit
BioDisk20Exit == BioDiskExit
BioDisk20 == [probe |-> BioDisk20Init, remove |-> BioDisk20Exit, calls |-> BioDiskCalls]

(* Mutant: a disk that is refused keeps its tags.                           *)
QueueDiskInit_Tags ==
  << Taken("major", <<>>), Taken("memory", <<"major">>), Taken("tags", <<"memory", "major">>),
     Ignored("disk", FALSE), Uses({"disk"}), Taken("added", <<"disk", "memory", "major">>) >>
QueueDiskInit ==
  << Taken("major", <<>>), Taken("memory", <<"major">>), Taken("tags", <<"memory", "major">>),
     Ignored("disk", FALSE), Uses({"disk"}), Taken("added", <<"disk", "tags", "memory", "major">>) >>
QueueDiskExit  == Drops(<<"added", "disk", "tags", "memory", "major">>)
QueueDiskCalls == [ added |-> {"disk", "tags", "memory"} ]
QueueDisk == [probe |-> QueueDiskInit, remove |-> QueueDiskExit, calls |-> QueueDiskCalls]
QueueDisk20Init == QueueDiskInit
QueueDisk20Exit == QueueDiskExit
QueueDisk20 == [probe |-> QueueDisk20Init, remove |-> QueueDisk20Exit, calls |-> QueueDiskCalls]

-----------------------------------------------------------------------------
(* ch03-05/touchscreen: two reset lines, the controller's set-up (writes    *)
(* that are not looked at, two reads that are), the interrupt, and the      *)
(* input device the interrupt reports to.                                   *)
Gt9147Gpio     == << Managed("reset", <<>>), Managed("int", <<>>), Uses({"reset", "int"}) >>
Gt9147Firmware == << Uses({"chip"}), Checked({"chip"}, <<>>), Checked({"chip"}, <<>>) >>
Gt9147Input    == << Managed("input", <<>>), Checked({"input"}, <<>>), Managed("registered", <<>>) >>
Gt9147Probe ==
  << Managed("chip", <<>>) >> \o Gt9147Gpio \o Gt9147Firmware
  \o << Managed("irq", <<>>) >> \o Gt9147Input
Gt9147Remove == << Drop("registered") >>
Gt9147Calls  == [ irq |-> {"chip", "input"} ]
Gt9147 == [probe |-> Gt9147Probe, remove |-> Gt9147Remove, calls |-> Gt9147Calls]

(* ch03-15: a watchdog that toggles a GPIO, compared with NULL as above.    *)
WdtProbe == << Managed("chip", <<>>), Ignored("gpio", TRUE), Uses({"gpio"}), Managed("wdog", <<>>) >>
WdtCalls == [ wdog |-> {"chip", "gpio"} ]
Wdt == [probe |-> WdtProbe, remove |-> << >>, calls |-> WdtCalls]

(* ch03-13: the backlight.  Levels that the tree does not give, and a PWM   *)
(* that is refused, are noticed by nobody; remove switches the PWM off.     *)
PwmBlTree  == << Ignored("levels", TRUE), Checked({}, <<>>) >>
PwmBlProbe ==
  << Managed("chip", <<>>) >> \o PwmBlTree
  \o << Ignored("pwm", TRUE), Uses({"pwm"}), Uses({"levels"}), Taken("backlight", <<>>), Uses({"pwm"}) >>
PwmBlRemove == << Drop("backlight"), UsesLast({"pwm"}) >>
PwmBlCalls  == [ backlight |-> {"chip", "pwm"} ]
PwmBl == [probe |-> PwmBlProbe, remove |-> PwmBlRemove, calls |-> PwmBlCalls]

(* ch03-12/pwm_consumer: a PWM behind a character device.                   *)
PwmConsumerHardware == << Managed("pwm", <<>>), Uses({"pwm"}) >>
PwmConsumerCreate   == CharDevice(<<>>)
PwmConsumerProbe    == << Managed("chip", <<>>) >> \o PwmConsumerHardware \o PwmConsumerCreate
PwmConsumerRemove   == Drops(CharDeviceUndo)
PwmConsumerCalls    == [ device |-> {"chip", "pwm"} ]
PwmConsumer ==
  [probe |-> PwmConsumerProbe, remove |-> PwmConsumerRemove, calls |-> PwmConsumerCalls]

(* ch03-12/pwm_provider: the clocks stay on when the boot loader left the   *)
(* PWM running; the lock is prepared after the chip is registered.          *)
PwmProviderProbe(running) ==
  << Managed("chip", <<>>), Managed("ipg", <<>>), Managed("per", <<>>), Taken("clocks", <<>>),
     Managed("regs", <<>>),
     IF running THEN Uses({"regs"}) ELSE Giving(Uses({"regs", "clocks"}), "clocks"),
     Managed("pwmchip", <<>>), Prepared("lock") >>
PwmProviderCalls == [ pwmchip |-> {"chip", "ipg", "per", "regs", "lock"} ]
PwmProvider(running) ==
  [probe |-> PwmProviderProbe(running), remove |-> << >>, calls |-> PwmProviderCalls]

(* ch03-14/pwm_device: the same with the registers before the clocks and    *)
(* the lock before both.                                                    *)
PwmDeviceProbe(running) ==
  << Managed("chip", <<>>), Managed("ipg", <<>>), Managed("per", <<>>), Prepared("lock"),
     Managed("regs", <<>>), Taken("clocks", <<>>),
     IF running THEN Uses({"regs"}) ELSE Giving(Uses({"regs", "clocks"}), "clocks"),
     Managed("pwmchip", <<>>) >>
PwmDevice(running) ==
  [probe |-> PwmDeviceProbe(running), remove |-> << >>, calls |-> PwmProviderCalls]

(* ch03-14/thermal_zone.  The search for the node of the map puts the       *)
(* device's own node, which the driver does not hold; the node of a cooling *)
(* device is never put, and what fails in the loop keeps those of the map   *)
(* and of the trip: one trip stands for all.  When the zone cannot be       *)
(* enabled it is unregistered and probe reports success.                    *)
FindMap == Giving(Call("node", FALSE, "stop", {"own_node"}, <<>>), "own_node")
ThermalTrip ==
  << Call("trip", FALSE, "never", {"node", "param"}, <<>>), Checked({"trip"}, <<>>),
     Taken("cooling", <<>>), Checked({"cooling"}, <<>>), Giving(Uses({"trip"}), "trip") >>
ThermalTree ==
  << Managed("chans", <<>>), FindMap, Checked({"node"}, <<>>), Managed("param", <<>>) >>
  \o ThermalTrip \o << Giving(Uses({"node"}), "node") >>
ThermalSensorProbe ==
  << Managed("chip", <<>>) >> \o ThermalTree
  \o << Taken("zone", <<>>), Call(Nothing, FALSE, "bound", {"zone"}, <<"zone">>) >>
ThermalSensorRemove == << UsesLast({"zone"}), Drop("zone") >>
ThermalSensorCalls  == [ zone |-> {"chip", "chans", "param", "cooling"} ]
ThermalSensor ==
  [probe |-> ThermalSensorProbe, remove |-> ThermalSensorRemove, calls |-> ThermalSensorCalls]

(* ch03-14/thermal_cooling: the fan.                                        *)
ThermalFanTree ==
  << Managed("pwm", <<>>), Checked({"pwm"}, <<>>), Managed("levels", <<>>), Checked({"levels"}, <<>>),
     Uses({"pwm", "levels"}) >>
ThermalFanProbe == << Managed("chip", <<>>) >> \o ThermalFanTree \o << Managed("cooling", <<>>) >>
ThermalFanCalls == [ cooling |-> {"chip", "pwm", "levels"} ]
ThermalFan == [probe |-> ThermalFanProbe, remove |-> << >>, calls |-> ThermalFanCalls]

(* ch03-17: the fixed regulator.  The regulator core takes the GPIO over,   *)
(* also when it refuses the regulator.                                      *)
FixedConfig == << Managed("config", <<>>), Checked({"config"}, <<>>) >>
FixedProbe ==
  << Managed("chip", <<>>) >> \o FixedConfig
  \o << Managed("name", <<>>), Managed("clock", <<>>), Managed("supply", <<>>), Taken("gpio", <<>>),
        Giving(Managed("regulator", <<"gpio">>), "gpio") >>
FixedCalls == [ regulator |-> {"chip", "name", "clock", "supply"} ]
Fixed == [probe |-> FixedProbe, remove |-> << >>, calls |-> FixedCalls]

(* ch03-09/iio_hx711: registered before its two lines are requested, which  *)
(* are compared with NULL.                                                  *)
Hx711Hardware == << Ignored("sck", TRUE), Uses({"sck"}), Ignored("sda", TRUE), Uses({"sda"}) >>
Hx711Probe ==
  << Managed("chip", <<>>), Managed("iio", <<>>) >> \o Hx711Hardware \o << Uses({"sck", "sda"}) >>
Hx711Calls == [ iio |-> {"chip", "sck", "sda"} ]
Hx711 == [probe |-> Hx711Probe, remove |-> << >>, calls |-> Hx711Calls]

(* ch03-19/nvmem_drv: the buffer is compared with error pointers, which     *)
(* devm_kzalloc never returns.                                              *)
NvmemProbe == << Managed("chip", <<>>), Ignored("buffer", TRUE), Managed("nvmem", <<>>) >>
NvmemCalls == [ nvmem |-> {"chip", "buffer"} ]
Nvmem == [probe |-> NvmemProbe, remove |-> << >>, calls |-> NvmemCalls]

(* ch03-19/nvmem_ref: three attributes; the error path puts the devm_ cell. *)
NvmemRefProbe ==
  << Managed("chip", <<>>), Taken("user_cell", <<>>), Managed("cell", <<"user_cell">>),
     Taken("uid_high", <<"cell", "user_cell">>), Taken("uid_low", <<"uid_high", "cell", "user_cell">>) >>
NvmemRefRemove == Drops(<<"user_cell", "uid_high", "uid_low">>)
NvmemRefCalls  == [ user_cell |-> {"chip", "cell"}, uid_high |-> {}, uid_low |-> {} ]
NvmemRef == [probe |-> NvmemRefProbe, remove |-> NvmemRefRemove, calls |-> NvmemRefCalls]

(* ch03-03/example and ch03-00/bus_module/driver: a character device alone. *)
ExampleCreate == CharDevice(<<>>)
ExampleProbe  == << Managed("chip", <<>>) >> \o ExampleCreate
ExampleRemove == Drops(CharDeviceUndo)
ExampleCalls  == [ device |-> {} ]
Example == [probe |-> ExampleProbe, remove |-> ExampleRemove, calls |-> ExampleCalls]

PlatformCreate == CharDevice(<<>>)
PlatformProbe  == << Managed("chip", <<>>) >> \o PlatformCreate
PlatformRemove == Drops(CharDeviceUndo)
PlatformCalls  == [ device |-> {"chip"} ]
Platform == [probe |-> PlatformProbe, remove |-> PlatformRemove, calls |-> PlatformCalls]

-----------------------------------------------------------------------------
(* ch03-22/can_driver, probe: the interface can be opened from register_candev *)
(* on; the node of the stop mode register is not given back when all is well. *)
(* Runtime power management is there, and has switched the clocks off again *)
(* when pm_runtime_put returns.                                             *)
FlexcanGet == << Managed("xceiver", <<>>), Managed("ipg", <<>>), Managed("per", <<>>), Checked({}, <<>>),
                 Managed("regs", <<>>), Checked({}, <<>>), Taken("candev", <<>>),
                 Checked({}, <<"candev">>) >>
FlexcanDown == <<"pm", "candev">>
FlexcanRegister ==
  << Taken("clocks", FlexcanDown) >>
  \o [i \in 1..4 |-> Checked({"regs", "clocks"}, <<"clocks">> \o FlexcanDown)]
  \o << Taken("registered", <<"clocks">> \o FlexcanDown),
        Giving(Uses({"regs", "clocks"}), "clocks") >>
FlexcanStopMode ==
  << Checked({}, <<"registered">> \o FlexcanDown), Taken("gpr", <<"registered">> \o FlexcanDown),
     Checked({"gpr"}, <<"gpr", "registered">> \o FlexcanDown) >>
FlexcanProbe ==
  FlexcanGet \o << Call("pm", FALSE, "never", {"candev"}, <<>>) >> \o FlexcanRegister \o FlexcanStopMode
FlexcanRemove == Drops(<<"registered">> \o FlexcanDown)
FlexcanCalls  == [ registered |-> {"candev", "pm", "regs", "xceiver", "ipg", "per"} ]
Flexcan == [probe |-> FlexcanProbe, remove |-> FlexcanRemove, calls |-> FlexcanCalls]

(* The same, flexcan_open and flexcan_close in the place of probe and       *)
(* remove; three is the variant with interrupts for errors and bus off.     *)
FlexcanOpened == <<"chip", "offload", "xceiver", "candev", "pm">>
FlexcanIrqs(three) ==
  << Taken("irq", <<"napi">> \o FlexcanOpened) >>
  \o IF three THEN << Taken("irq_boff", <<"irq", "napi">> \o FlexcanOpened),
                      Taken("irq_err", <<"irq_boff", "irq", "napi">> \o FlexcanOpened) >>
              ELSE << >>
FlexcanOpen(three) ==
  << Checked({}, <<>>), Taken("pm", <<>>), Taken("candev", <<"pm">>), Taken("xceiver", <<"candev", "pm">>),
     Taken("offload", <<"xceiver", "candev", "pm">>),
     Taken("chip", <<"offload", "xceiver", "candev", "pm">>), Call("napi", FALSE, "never", {}, <<>>) >>
  \o FlexcanIrqs(three) \o << Call("queue", FALSE, "never", {"chip"}, <<>>) >>
FlexcanClose(three) ==
  Drops(<<"queue">> \o IF three THEN <<"irq_err", "irq_boff">> ELSE << >>)
  \o Drops(<<"irq", "napi">> \o FlexcanOpened)
FlexcanHandler == {"chip", "pm", "offload", "napi"}
FlexcanUp(three) ==
  [ probe |-> FlexcanOpen(three), remove |-> FlexcanClose(three),
    calls |-> IF three THEN [ irq |-> FlexcanHandler, irq_boff |-> FlexcanHandler, irq_err |-> FlexcanHandler,
                              queue |-> {"chip", "pm", "candev"} ]
                       ELSE [ irq |-> FlexcanHandler, queue |-> {"chip", "pm", "candev"} ] ]
=============================================================================
