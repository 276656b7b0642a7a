----------------------------- MODULE DriverSet -----------------------------
(***************************************************************************)
(* The drivers whose life DriverLife goes through: those of DriverTables,   *)
(* the PWM providers with the output stopped and running when the boot      *)
(* loader hands over, the CAN controller with the interface down and up.    *)
(***************************************************************************)
EXTENDS DriverTables

MCTables ==
  [ led |-> Led, led4 |-> Led4, beep |-> Beep, i2c_ap |-> I2cAp, spi_icm |-> SpiIcm, regmap_ap |-> RegmapAp,
    regmap_icm |-> RegmapIcm, adc |-> Adc, adc_temp |-> AdcTemp, bus_rtc |-> BusRtc, regmap_rtc |-> RegmapRtc,
    pcf8563 |-> Pcf, bio_disk |-> BioDisk, bio_disk20 |-> BioDisk20, queue_disk |-> QueueDisk,
    queue_disk20 |-> QueueDisk20, gt9147 |-> Gt9147,
    wdt |-> Wdt, pwm_bl |-> PwmBl, pwm_consumer |-> PwmConsumer,
    pwm_provider |-> PwmProvider(FALSE), pwm_provider_on |-> PwmProvider(TRUE),
    pwm_device |-> PwmDevice(FALSE), pwm_device_on |-> PwmDevice(TRUE),
    thermal_sensor |-> ThermalSensor, thermal_fan |-> ThermalFan, fixed |-> Fixed,
    hx711 |-> Hx711, nvmem |-> Nvmem, nvmem_ref |-> NvmemRef, example |-> Example,
    platform |-> Platform, flexcan |-> Flexcan, flexcan_open |-> FlexcanUp(FALSE),
    flexcan_open3 |-> FlexcanUp(TRUE) ]
MCDrivers == DOMAIN MCTables

(***************************************************************************)
(* What these drivers get wrong, use by use.  The README explains each.     *)
(***************************************************************************)
\* The interrupt before what it uses is there, and after it has gone.
MCInterrupts ==
  {<<"gt9147", "irq", "input">>, <<"pcf8563", "irq", "rtc">>} \cup
  {<<d, "irq", r>> : d \in {"adc", "adc_temp"}, r \in {"completion", "clk_on"}}
\* Published before what it needs is there.
MCTooEarly ==
  {<<"hx711", "iio", r>> : r \in {"sck", "sda"}} \cup
  {<<"nvmem_ref", "user_cell", "cell">>, <<"pwm_provider", "pwmchip", "lock">>,
   <<"pwm_provider_on", "pwmchip", "lock">>}
\* The failure of the call that takes it is not noticed.
MCUnnoticed ==
  {<<"hx711", "probe", r>> : r \in {"sck", "sda"}} \cup
  {<<"regmap_ap", "probe", "gpio">>, <<"nvmem", "nvmem", "buffer">>, <<"pwm_bl", "probe", "levels">>} \cup
  {<<"pwm_bl", w, "pwm">> : w \in {"probe", "backlight", "removing"}} \cup
  {<<d, w, "disk">> : d \in {"queue_disk", "queue_disk20"}, w \in {"probe", "added", "undoing", "removing"}} \cup
  {<<"regmap_icm", w, "map">> : w \in {"probe", "device"}} \cup
  {<<"wdt", w, "gpio">> : w \in {"probe", "wdog"}}
\* Given back twice: by the error path and by the core; by the error path that
\* goes on to report success, and by remove; by the driver and by its owner.
MCTwice ==
  {<<"nvmem_ref", "core", "cell">>, <<"thermal_sensor", "removing", "zone">>,
   <<"thermal_sensor", "probe", "own_node">>}
\* Never given back.
MCLeft ==
  {<<d, "left", "clocks">> : d \in {"pwm_provider", "pwm_provider_on", "pwm_device_on"}} \cup
  {<<"thermal_sensor", "left", r>> : r \in {"node", "trip", "cooling"}} \cup {<<"flexcan", "left", "gpr">>}

MCKnown == MCInterrupts \cup MCTooEarly \cup MCUnnoticed \cup MCTwice \cup MCLeft
=============================================================================
