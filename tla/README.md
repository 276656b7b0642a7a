# TLA+ specifications of the embedded Linux examples

This directory models the programs and drivers under `src/src/file` that keep state, run concurrently or have something
to clean up: a Modbus slave built on FreeModbus, a web server and two timers, a CAN application and the driver of the
CAN controller under it, and the kernel drivers of the board. TLC checks each model on small instances; TLAPS proves the
invariants and action properties of the runs for all values of the constants. Paths below are relative to
`src/src/file`; `modbus_s` is short for `ch04-13/modbus_s`. `PROJECT.json` maps each definition to the lines it stands
for, lists the runs, one mutation of the code for each property that the property finds, and the hazards.

## 1. Inventory

The repository is a book about building an embedded Linux system; its programs are independent of each other. Each group
below is one program, one driver, or a family of drivers that have the same form.

### 1.1 Modbus slave (`modbus_s`)

| Part | State | Operations | Talks to |
|---|---|---|---|
| Event queue: `event/thread_queue.hpp`, `event/semaphore.hpp` | a `std::queue` under one mutex, a wake-up count and a condition variable under another | `send`, `receive` (with timeout), `signal`, `wait` | `xMBPortEventPost` and `xMBPortEventGet` of `port/portevent.cpp`, from every thread and from the SIGALRM handler |
| TCP run time: `port/porttcp.cpp`, `freemodbus/tcp/mbtcp.cpp`, `eMBPoll` | `rx_frame_buffer`, `rx_frame_size`, `client_fd`, statics of `eMBPoll` | accept, receive and reassemble, fetch, execute in place, reply | clients by TCP; the TCP thread and the polling thread share the buffer **without a lock**; events through the queue |
| RTU run time: `freemodbus/rtu/mbrtu.c`, `port/portserial.cpp`, `port/porttimer.cpp` | `eRcvState`, `eSndState`, `ucRTUBuf` and its position, the interval timer, `mutex_protect`, the chunk of the rx thread, `tx_buffer` | receive and transmit state machines, t3.5 timer, start, receive, send | rx thread, tx thread, main thread, signal handler on top of the main thread |
| ASCII run time: `freemodbus/ascii/mbascii.c` | like RTU, with two nested states for the end of a line and half bytes | like RTU | like RTU |
| Functions and registers: `freemodbus/functions/*`, callbacks of `main.cpp` | coils (bit buffer), holding registers, read-only buffers, lights | ten function codes, four callbacks, bit utilities | called by `eMBPoll` |
| Stack interface: `freemodbus/mb.c`, `mbfuncother.c` | `eMBState`, the mode's function pointers, table of handlers, slave identification | init, enable, disable, close, register, the table search, set ID | `main.cpp` |
| Serial device: `port/tty.hpp`, `port/fifo_manage.cpp` | a descriptor | open, read, write | rx and tx thread |

Hard: what was written for interrupt handlers that exclude each other runs in four threads; the frame buffer is handed
over by an event instead of a lock; pieces of a TCP stream arrive in any size; a signal handler takes a mutex; lengths
are unsigned; bit fields straddle bytes; a table with holes is searched up to the first hole.

Correct means: no event is lost or invented; replies are computed from the request they answer, carry its header and go
to the client that asked; nothing is executed twice; every good request is answered; buffers are not overrun; a
confirmed write has been stored, and nothing else has changed.

### 1.2 Other programs

| Program | State | Operations | What is hard | Correct means |
|---|---|---|---|---|
| Timers, `ch04-03/cv_timer`, `ch04-03/posix_timer` | `is_running_` or `stop_loop_`, mutex, condition variable, a detached thread per start | `start`, `stop`, `run` | `stop` notifies without the mutex; a quick restart leaves two threads; spurious wake-ups | a stopped timer ends, a running one goes on calling, calls do not overlap |
| Web server, `ch04-07` | one socket and one buffer per connection, the LED and its mutex | accept, route, static page, LED pages | clients that hang up, files that cannot be read, a mutex held by a thread that dies | every connection ends, with its reply |
| CAN application, `ch03-22/can_apps/can_socket.hpp` | parser (`rx_framebuffer_`, `rx_frame_state_`), `tx_buffer_`, one `can_frame` for both directions | read, parse, reply, write in pieces | the reply is written through the frame the loop is reading; requests arrive in pieces mixed with other traffic; sizes are announced by the sender | buffers are not overrun, each request gets its reply once, whole and in order |
| MQTT node, `ch04-12`; IPC and file examples, `ch04-01`, `ch04-05`; framebuffer programs, `ch04-08` | little of their own | calls of libraries | order of library callbacks | not modelled, see section 7 |

### 1.3 Kernel drivers

| Driver | State | Operations, and who calls them | What is hard | Correct means |
|---|---|---|---|---|
| Key, `ch03-05/key_input` | `protect`, the debounce timer, managed resources | interrupt handler, timer function, probe, remove | the three run at the same time and only `protect` keeps them apart | the key shows the line, nothing stuck, nothing used after its release |
| Touch screen, `ch03-05/touchscreen` | slots, bus transfers | interrupt thread, probe, remove | a transfer fails in the middle of a report; the controller scans on | the input device shows the fingers |
| Real time clocks, `ch03-11/bus_rtc`, `ch03-11/regmap_rtc`, `ch03-10/regmap_pcf8563` | the chip's registers, `c_polarity`, `voltage_low` | the RTC core under its lock; the interrupt thread without | both sides read and write back the same register | what is read is what was set; the alarm is on when asked for |
| Converter, `ch03-09/iio_adc`, `ch03-14/iio_adc_temp` | features, registers, completion and value shared by all reads | IIO core: read, mode, rate, buffer; interrupt; sleep | a conversion that outlives its read; registers written back without the lock | a read is of its own channel; the registers hold what is reported |
| PWM and above, `ch03-12`, `ch03-13`, `ch03-14` | sample FIFO, clock counts, what each user believes | apply and get_state; character device, backlight, fan | the character device lets writers in at the same time, and no lock is below it; the FIFO drains while it is filled; the PWM may refuse | the output is what was asked last; clocks balanced |
| Sensors, `ch03-07`, `ch03-08`, `ch03-10` | result buffers, the chip | read, interrupt thread, probe | two readers share a buffer; the sensor measures between two transfers | a sample is fresh and of one piece |
| RAM disks, `ch03-20`, `ch03-33` | memory, the cursor | `submit_bio`, `queue_rq` on several processors | one cursor, one lock | what is copied under one hold of the lock is whole |
| CAN controller, `ch03-22/can_driver/flexcan-core.c` | mailboxes, echo slot, error masks and state, clocks, sleep | CAN core: open, close, xmit, restart; interrupt; sleep | the state is not reported by interrupt in all versions; bus off; sleep under traffic | frames once and in order, the state known, the queue woken |
| LED and beeper, `ch03-03`, `ch03-04` | the line, brightness | write, ioctl, attribute, LED class | three ways to one line | the line shows the last request |
| Watchdog, regulator, HX711, nvmem, thermal sensor, character devices, and all above | what probe has taken | probe with each call failing, error paths, files and interrupts while it runs, remove | the order in which things are published and given back | nothing used or given back that is not held, nothing left |

## 2. Modules

| Module | Models | Proofs | Composed and run by |
|---|---|---|---|
| `EventQueue` | abstract FIFO queue with blocking receivers | | `MCThreads` (Threads.cfg) |
| `ThreadQueue` | semaphore and queue, one action per critical section | `ThreadProofs` | |
| `Timers`, `Http` | the two timer classes; the web server | `ThreadProofs` | |
| `ModbusTcp` | TCP thread, polling thread, clients | `ModbusTcpProofs` | `MCTcp` (Tcp.cfg), `MCModbusTcp` (TcpPipelined.cfg) |
| `MbRtu` | rx and tx thread, timer, signal handler, main thread, master | `SerialProofs` | `MCSerial` (Serial.cfg), `MCMbRtu` (RtuStartup.cfg) |
| `MbAscii` | the same slave in ASCII mode, character by character | `SerialProofs` | |
| `MbFunctions` | handlers, callbacks, bit operations | `MbFunctionsProofs` | `MCMbFunctions` (Functions.cfg, FuncCount.cfg) |
| `MbStack` | life cycle, handler table, slave ID | `MbStackProofs` | `MCMbStack` (Stack.cfg) |
| `CanSocket` | parser, reply, reader and writer of CAN frames | `CanProofs` | `MCCan` (Can.cfg), with the packets of `MCCanSocket` |
| `FlexCan`, `FlexCanTiming` | the controller's driver; its bit timing | `CanProofs` | |
| `KeyInput` | handler, timer, probe, remove, resources | `DriverProofs` | `MCDrivers` (Drivers.cfg) |
| `Rtc`, `Touch` | three clock drivers; the touch screen | `DriverProofs`, of `Rtc` | |
| `DriverTables`, `DriverLife`, `DriverSet` | what each of 31 drivers asks of the kernel; the life of a driver; the drivers and their known defects | `DriverProofs` | |
| `Adc` | the converter | `DeviceProofs` | `MCDevices` (Devices.cfg) |
| `RamDisk`, `Sensors`, `Pwm`, `Outputs` | disks, sensors, PWM with its users, LED and beeper | `DeviceProofs` | |

**Runs of several components.** `MCThreads`, `MCTcp`, `MCSerial`, `MCCan`, `MCDrivers` and `MCDevices` each hold
components that do not touch each other. A variable `which`, chosen in the initial state, says of which of them a
behaviour is; the variables of the others rest. Nothing of a component is changed by that: its Init and Next are used as
they stand, and its fairness is that of its module for the behaviours that are its own. Where components do interact,
the interaction is inside a module (`ModbusTcp` with its clients and the polling thread, `Pwm` with its users,
`DriverLife` with the driver core), or replaced by what a refinement allows: `ThreadQueue` implements `EventQueue`
(`ImplementsQueue`), so `ModbusTcp`, `MbRtu` and `MbAscii` use a queue whose operations are single steps.

The composing modules also state what their components take for granted of their constants, as named assumptions that
TLC evaluates on every run: `HoldersAssumption` (`MCThreads`), `AsciiAssumption` (`MCSerial`), `ChipAssumption` and
`TimingAssumption` (`MCCan`), `TimesAssumption` and `TablesAssumption` (`MCDrivers`), `DiskAssumption`,
`SensorAssumption`, `OutputAssumption` and `PwmAssumption` (`MCDevices`). The proofs about a component use its own.

How the Modbus modules fit together: `ModbusTcp` treats the execution of a request as one outcome per request (answer,
error, or "torn" when the buffer changed under it); `MbFunctions` is what happens inside one execution; `MbStack`
decides which handler `Execute` calls.

### 2.1 User programs

**ThreadQueue.** `send` is `Push` then `Signal`, `receive` is `Enter`/`Retest`/`LastTest` then `Pop`: the gaps between
the two mutexes are visible. The condition variable is the set of receivers in state "blocked"; it may wake one without
a notification (`SpuriousWake`) and the timeout may come at any time (`Expire`), after which `wait_for` evaluates the
predicate once more.

**Timers.** A thread per `start`; `Run(t)` is one step of `run`: the test of the flag, the wait, the expiry or the
wake-up, the call of the handler. `stop` is two steps, the flag and the notification. The model keeps threads of earlier
starts, since they are detached. `class` says which of the two classes it is; the posix one has a mutex that `start`
initialises again (`stale`) and a flag that `run` clears (`lost`).

**Http.** One thread per connection: request line, route, header, body in pieces, close. A client may hang up, a file
may be missing or fail to be read; without SIGPIPE ignored, a write to a client that is gone ends the server (`dead`).
The LED pages take the mutex of `led_process`.

**ModbusTcp.** Bytes are grouped into cells that remember which request they come from, so that a torn or mixed-up frame
can be told from a whole one. `Recv` returns any prefix of what has arrived. The unlocked accesses are separate actions:
the bound check and `memcpy` (`Copy`), the racing `+=` (`Grow`, with both results the compiler may produce),
`CheckFrame`, `PostReceived` on one side; `GetSize`, `GetReset`, `Receive`, `Lookup`, `Handle`, `SetLength`,
`SendResponse` on the other. The announced length keeps its 16 bits. Clients may pipeline, give up, close and reset, as
the constants say.

**MbRtu.** The four contexts of the program: an action is what one of them does between two accesses to a variable
another may see. The SIGALRM handler runs in place of the main thread (`MainRuns`). A failing `assert` ends the process
(the build does not define NDEBUG). `tty.hpp:42` opens the empty member `path_` instead of its argument, so in this
commit the serial port never opens; the model is of the code as it runs over an open device.

**MbAscii.** Characters are kinds (colon, CR, LF, a half of a hex byte). Each call of `mbascii.c` is one step, taken in
turn by rx thread, tx thread, timer handler and main thread; `MbRtu` goes into the steps of the sibling file. What
stands on the line before a request is a constant (`Noise`), in which a whole frame is followed by a silence or by
nothing (`Calm`): nobody sends while the slave is busy.

**MbFunctions.** A bit buffer is the set of its 1 bits, registers are opaque words; addresses keep the wrap-around of
their 16 bits, counts and byte counts that of their 8 or 16. Limits of the counts are constants because the real ones
(2000 coils) exceed the buffers anyway. The handlers write coils as one field (`WriteCoils`); that the byte-wise loop of
`eMBRegCoilsCB` (`WriteLoop`) comes to the same is theorem LoopIsOneWrite.

**MbStack.** One thread calls. `Removes`, `Overrides` and `Reinits` say whether the caller removes handlers, registers a
code or handler twice, and initialises again. `installed` remembers what the caller was told. This port's
`xMBTCPPortInit` does not fail and MB_PORT_HAS_CLOSE is 0.

**CanSocket.** A CAN frame is the sequence of its data bytes, the parser's buffer the sequence of its first
`rx_framesize_` bytes; the checksum is a parameter. `Write` overwrites `frame` while the index `i` of the reading loop
stays, as in the code. `faulty` records that something other than clean requests was on the bus or that a write failed.
`char` is unsigned, as on ARM.

### 2.2 Drivers

**KeyInput.** `Test`, `Set` and `Arm` of the handler and `Sample`, `Report` and `Out` of the timer function are separate
steps. `held` counts the managed resources in the order probe takes them. Interrupt controller, timer wheel and driver
core are modelled from what the driver asks of them (a latched edge, one handler at a time, `del_timer_sync` waits,
`free_irq` waits). One life of the device.

**FlexCan.** As the i.MX6ULL uses it: receive mailboxes read in the order of their time stamps, one transmit mailbox
with one echo slot. Frames are numbers in the order in which they are handed down or arrive. `load` says how much
traffic, how many bus errors, failures and sleeps a behaviour has, `quirk` what the version of the controller reports by
itself; the error mask follows from both as in the code. Sleeps from which traffic wakes the system occur only on
versions without BROKEN_WERR_STATE, since none with it has the stop mode. The interrupt handler runs step by step
against the line, the sender, the delayed restart and the two phases of suspend and resume; resume starts the queue
before the controller, so a frame may be handed down in between (`cut` remembers it). `FlexCanTiming` is the arithmetic
of the bit timing registers with the widths of their fields.

**Rtc.** The chip as a sequence of seven registers, BCD conversion by what it does to a number, one bus transfer a step.
The user side runs under the core's lock, the interrupt thread without.

**Touch.** The controller keeps a report until its status is cleared and announces it again at each scan; the handler
reads status, points, reports slot by slot, clears. Transfers may fail (`MaxErrors`).

**DriverTables, DriverLife, DriverSet.** A driver is a table: the calls of `probe` in order, each with what it takes,
what it uses and what its error path gives back in which order; what `remove` gives back; what each way in (file,
attribute, interrupt) uses. `DriverLife` walks through a table: `probe` fails at any call that can fail, files and
interrupts enter as soon as the call that publishes them has returned, the module is unloaded, the driver core gives
back what `devm_` functions took, last taken first. `misuse` and `early` remember what was used or given back without
being held. `DriverSet` instantiates it for 31 drivers (some are copies of one another, some come in two or three cases:
35 tables) and names the exceptions: `MCKnown` lists, driver by driver, the uses and leaks that the code does have.
`ResourcesKept` allows exactly these, so a new one would be found. `Sound` is a discipline that can be read off a table
without walking through it: no call of probe uses what is not certain to be held, a way in is published behind
everything it uses, the way back from each call closes a way in before it takes away what that uses, and what the core
gives back is not given back by the driver. `TablesAssumption` says that the table of every driver of which no defect is
listed is sound.

**Adc.** `SetMode` takes three read-modify-write pairs apart; `WriteRaw` reads and writes without the lock. The
interrupt is one step, since the board has one core. `stray` and `touched` are histories that name the circumstances in
which the two properties do not hold in the code.

**Pwm.** The driver under one of its three users, with the callers each lets in: writers of the character device come as
they like, the locks of the backlight and of the cooling core let one in at a time. A request is a list of calls of the
PWM core (`Requested`); each copies `pwm->state`, and `pwm_driver_apply` is one action per group of statements and
caller, with nothing between two callers but what they find in the registers. A duty cycle is a level of the user's
scale, which is the period of his device tree; `Periods` are those the boot loader may leave. The FIFO holds four
samples and drains while `wait_fifo_slot` sleeps. Five histories: `level`, what the request that ended last asked for;
`mixed`, requests were under way together; `raced`, calls of the driver overlapped; `stopped`, so did two of which one
leaves the PWM off; `doubt`, somebody went on after an error he did not look at.

**Sensors, RamDisk, Outputs.** A sample is the number of its measurement, so that "fresh" and "of one piece" can be
stated. A disk is a sequence of half sectors, copied segment by segment under the lock. The line of the LED is reached
by write, ioctl, attribute and class, with the copy from user space as a step of its own.

## 3. Runs

Passing runs, with the distinct states they visit:

| Run | Bounds | What it shows |
|---|---|---|
| threads (104 000) | queue: 2 senders, 2 receivers, 2 events, 3 sends; timers: 3 threads, 1 spurious wake-up; web: 2 connections, 5 pages, 1 hang-up | wake-ups match events, no receiver sleeps through one, the class implements the FIFO queue and with fair threads delivers every event; stopped timers end, running ones call, calls of the cv class do not overlap; connections end with their reply |
| tcp (965 000) | patient: 2 connections, 3 requests (reads and a write), buffer of 8 cells, one outstanding request each; impatient: 1 connection, 2 requests, pipelined, one announced longer than the buffer, resets | patient: the buffer changes hands although nothing locks it, replies are right, nothing runs twice, every request is answered; impatient: no write past the buffer in any interleaving, whatever length is announced, up to those that wrap to a small one |
| serial (391 000) | RTU polite: frames for us, broadcast, for another, damaged, buffer of 5; busy: 2 frames, buffer of 2, master and threads unconstrained; ASCII: 3 requests, up to 3 stray characters, half frames, full and too long frames before them | polite: each character is handed over once and in order, replies, single execution, answers; busy: what is handed over is at least of the chunk read last, and stores stay inside the buffer; no assertion fails; ASCII requests are served after any noise |
| functions (36 000) | bytes of 2 bits, 4 coils, 2 registers; addresses 0, 1, 3 and 65535, all counts 0 to 5 | stored, current, nothing else changed, lights follow the coils |
| stack (111 000) | 3 slots, 4 codes and handlers, removal | no code reaches another's handler; installed handlers are called unless the table has a hole |
| can (765 000) | application: CAN frames of 4 bytes, buffer of 10, 3 requests or noise frames; controller: 5 loads of up to 4 frames, 4 bus errors, 1 failure, 2 sleeps, on 3 versions, 2 receive mailboxes; timing: every split of a bit, ends of prescaler and jump width | buffers bounded under noise, requests answered once, whole and in order; frames echoed and received in order, the state known, the queue woken; registers hold the timing asked for |
| drivers (228 000) | key: 5 edges; 31 drivers, every failure of probe; clocks: 2 times at the ends of the century, 2 failing transfers; touch: 3 ids, 2 contacts, 3 changes, 2 failing transfers | the key follows the line outside one window and is reported, nothing used after its release but through a late timer; nothing used or left but the known cases; times and alarms read back, the alarm obeys; the input device settles on the fingers |
| devices (1 099 000) | converter: 2 users, 2 channels, modes and rates; disks: 2 processors, 2 sectors, 3 shapes of requests; sensors: 2 channels, 2 samples, 1 failure; PWM: 2 callers and the default of probe, 3 requests, levels 0 to 2 and one above, 1 failing clock, stopped or running at boot; LED and beeper: 7 bytes | reads of their own channel, registers as reported; requests whole; samples fresh; the output is on when the last request asked for it, also when writers mix, and of the level asked for when they do not, clocks on under every register access and counted right; the line shows the last request |

Why the bounds are enough: three sends let two events wait while a third is announced, with both receivers in any state;
three timer threads are the running one and two on their way out. A buffer of 8 cells holds one frame of each kind and a
part of the next, one that a frame overruns makes the bound check, the reset and the resynchronisation happen. Two bits
per byte make fields end inside, at and beyond a byte and straddle two. The key driver has three windows for an edge (in
the handler, in the timer function, during removal), and five edges leave two more to press and release it. Ten bytes of
CAN buffer hold the longest request exactly, in frames that divide it with and without rest. Two receive mailboxes fill
while the handler empties a snapshot; four bus errors take the counters through warning, passive, off and back, once
each, with traffic and sleeps in the loads that have fewer errors. Two users of the converter are the one inside and the
one that comes between (`DeviceProofs` says for any number). Two writers of the character device, three requests and the
default of probe let a request be overtaken at each of its steps and one more follow the two that met; a failing clock
is what a later request repairs. Behaviours in which a call that leaves the PWM off has met another are not followed
further (`StillPromised`), since PwmObeys says nothing of them, and users, processors and callers are interchangeable
(`MCSymmetry`). Two failing transfers are one in the middle of a call and one while it is repaired.

Deadlock is checked in functions and stack. The other configurations say CHECK_DEADLOCK FALSE because clients, masters,
edges, loads and failures are bounded: when they are used up the system waits, as it should. What must not wait is
stated as liveness.

Runs that find a violation, each of one sentence the repository says:

| Run | Property | Disagreement |
|---|---|---|
| tcp_pipelined | HeaderIsTheRequests | `mbtcp.cpp:144` says the header in the buffer is the request's; the TCP thread may have replaced it by then, and the reply to the first request goes out under the identifier of the second |
| rtu_startup | StartupEnds | `mbrtu.c:127` says the receiver gets idle when no character comes; the signal handler may run while its own thread holds `mutex_protect`, and both wait for ever |
| func_count | MalformedRefused | `mbfuncholding.c:187` says invalid counts are refused; line 185 assigns the low byte instead of adding it, and a read of 257 registers is answered with one |
| http_led | LedAsTold | `ch04-07/main.cpp:46` answers "led off", the name of the page says the same; line 45 switches the LED on |

### Fairness

Only weak fairness is assumed, of steps that the scheduler, the interrupt controller or a timer takes once they stay
possible:

* *ThreadQueue*: every step of a call that can go on (a runnable thread is scheduled; `main.cpp:110` calls `eMBPoll` for
  ever); none for timeouts, spurious wake-ups and new sends.
* *Timers*: each thread's next step (the interval of `wait_for` passes) and the notification of a `stop` that has begun;
  none for the caller.
* *Http*: each connection's thread; none for clients, which may hang up.
* *ModbusTcp*: each thread, and a successful `accept`; none for clients.
* *MbRtu*: the threads, the handler and the expiry of an armed timer. *MbAscii*: the same, and a master that goes on
  sending, since the property is about a request that is sent.
* *KeyInput*: handler thread, timer and driver core; edges and removal just happen.
* *FlexCan*: the handler while its line is up, the delayed restart, the steps of a sleep that has begun, and the
  controller, which transmits while the bus lets it.
* *Rtc*: a call that has begun and the interrupt thread. *Touch*: scans of the controller and the interrupt thread.

`MbFunctions`, `MbStack`, `CanSocket`, `DriverLife`, `Adc`, `RamDisk`, `Sensors`, `Pwm` and `Outputs` have no liveness
properties.

## 4. What the environment is assumed to do, and what the code does otherwise

Some properties hold only for a well-behaved environment, or with exceptions that a history variable names, and the
comment of each says so. Outside of these the models, or the reading that went into them, show the following. Mostly no
document of the repository promises otherwise; where a comment does, it is named (`mbport.h:101`, `kernel_pwm.c:408`,
`kernel_pwm_consumer.c:23`, the page on the key). No run is spent on any of them.

*Modbus.*
* TCP: a reset while a frame is incomplete makes `recv` return -1 into an unsigned size; the sum wraps, passes the check
  of `porttcp.cpp:69` and `memcpy` gets SIZE_MAX (the model stops in `tpc = "crashed"`). Of two pipelined requests the
  second may never be answered (`porttcp.cpp:174`). The announced length is a `uint16_t` (`porttcp.cpp:80`): one near
  65535 wraps, and what has arrived counts as a frame of a few bytes. A reply to a client that is gone is written
  without MSG_NOSIGNAL (186).
* RTU: a frame of exactly MB_SER_PDU_SIZE_MAX bytes fails the assertion `mbrtu.c:156`; an impatient master makes those
  of 232 and 349 fail, or gets a reply after a whole later frame (199). The SIGALRM handler posts to the event queue; on
  top of a `receive()` it would wait for the mutex of its own thread (the models of the run times take the queue as
  atomic, so no property covers this one). The rx thread runs before `xMBPortTimersInit` has set the handler
  (`portserial.cpp:155`). When a master sends while the slave replies, `vMBPortSerialEnable` resets the read index in
  the middle of a chunk (`portserial.cpp:71`): the receiver is handed the characters before it once more, and as many of
  the last ones never, where `mbport.h:101` has a new character returned by each call.
* ASCII: a character other than LF behind a CR ends the frame but leaves the timer running, whose assertion
  (`mbascii.c:423`) then ends the process; a frame that fills the buffer fails the one of the receive function; noise
  during a transmission fails the receiver's; with two frame events queued a late main thread executes the second frame
  twice.
* Functions: unused bits of a coil write reach the coils behind the range (`mbutils.c:77`); a multiple write does not
  compare its byte count with the length of the PDU (`mbfunccoils.c:222`); function 23 shorter than its header is
  answered without an exception (`mbfuncholding.c:246`).
* Stack: removing a handler hides those behind it (`mb.c:379`); a second handler for a code is never called (237); an
  initialisation that fails on an initialised stack leaves it ready to start (145); `eMBDisable` of a disabled stack
  returns MB_ENOERR (319); a slave ID that fills its buffer exactly is refused (`mbfuncother.c:60`).

*Timers.* A spurious wake-up ends the thread of the cv class while `is_running_` stays true, so that `start` refuses to
revive it. A quick restart leaves two threads calling. In the posix class a `stop` before `run` has started is lost
(`posix_timer/main.cpp:63`), `start` initialises a mutex and a condition variable in use (33), and calls overlap.

*Web server.* Only the first `recv` is looked at, one of exactly 1024 bytes is terminated behind the buffer
(`http_server.hpp:618`), a client that hangs up ends the process by SIGPIPE, a file that fails to be read has its 200
header followed by the 404 page (414), and "led on" is answered though the device could not be opened.

*CAN.* `==` binds tighter than `|` in the checksum test (`can_socket.hpp:97`), so a damaged packet passes unless the low
byte of its checksum is 0; a full transmit queue drops a piece in the middle of a reply (276). In the controller's
driver: a frame in flight at suspend leaves its echo slot occupied; resume starts the queue before the controller, and a
frame handed down in between is lost, its echo slot occupied and the queue stopped; a suspend that fails after the chip
has stopped leaves the interface up; a timeout while freezing returns with the chip halted; without memory at bus off
the state and the restart are lost (896), and a restart that fails is not repeated; a `noirq` resume that fails is
followed by accesses without clocks; after an overrun frames may be out of order. `prop_seg` and `phase_seg1` beyond
their fields, possible when a user sets them himself, are cut.

*Key.* An edge between the reading of the line (`kernel_input.c:90`) and the reset of `protect` (105) is reported with
the next edge only; the interrupt can arm the timer again between `del_timer_sync` (215) and its own release. The value
0 is reported as KEY_ON and called pressed in `ch03-05-01.input_subsystem.md:512`, while the device tree there declares
the line active low.

*Life of the drivers* (`MCKnown` of `DriverSet`): the interrupt is requested before what it reports to in the touch
screen and the regmap clock, and given back after it; that of the converter is requested (`kernel_iio_adc.c:722`) before
the completion is initialised (755) and the clock enabled (768), and given back by the core after the error path or
remove (812) has stopped the clock; the HX711 channel is registered before its lines, the nvmem attribute before its
cell, the PWM chip before its lock. Tests for NULL where an error pointer comes, and the reverse, in the HX711, nvmem,
watchdog, disk, regmap light sensor, regmap motion sensor and backlight drivers. Given back twice: the cell of the nvmem
consumer, the zone of the thermal sensor, and the sensor's own device tree node, which `of_find_node_by_name` puts
(`thermal_sensor.c:118`). Never given back: the clocks of both PWM drivers (of the second only when the boot loader left
it running), the nodes of the thermal sensor (of the map, of a trip when the loop returns early at 142, 149 or 158, of
each cooling device, 152), the node of the CAN controller. A file may be opened before probe fails.

*Other drivers.*
* Clocks: an alarm flag that cannot be cleared leaves an edge-triggered line low for ever (`kernel_bus_rtc.c:312`);
  `c_polarity` is learnt from the first time that is read.
* Converter: a read cut short leaves its conversion running, which completes the next read; a change of the rate holds
  no lock; a change of the mode, or resume, with the buffer enabled clears the bit that keeps it converting; the 21 and
  25 cycles are the same bits; a resume that fails is followed by an unbalanced disable in remove.
* PWM: the character device and the fan give `pwm_config` the period where it takes the duty cycle and the other way
  round (`kernel_pwm_consumer.c:71`, `thermal_fan.c:65`; the signature is in `ch03-12.pwm_frame.md:610` of the parent
  directory), so that only 0 and the full level come out, where `kernel_pwm_consumer.c:23` has 0 to 100 in the device
  tree; what is refused is enabled all the same, and write returns 0. The character device writes without a lock, and
  nothing below it has one: two writers that enable leave a reference to the clocks behind (`kernel_pwm.c:295`); of two
  of which one switches off, the other may touch registers with the clocks off, or find the PWM left in the state that
  was asked for first. `get_state` keeps a reference to the clocks of a PWM found running, against the comment at
  `kernel_pwm.c:408`. The backlight believes it is on though the PWM has refused, leaves on what it finds running when
  its default is 0, takes the period found at boot for its own, and sets its default without the lock of its users; the
  fan's level is kept though it could not be set; `wait_fifo_slot` takes for granted that its sleep frees a slot.
* Sensors: readers of the regmap light sensor and its interrupt thread share `chip->data`, so samples may be stale or
  mixed; the driver returns a count other than what it copied and requests `client->irq` instead of its own; the regmap
  motion sensor returns 0 when a read fails; errors of the configuration are not looked at; the I2C light sensor's
  channels are of different measurements.
* Disks: `queue_rq` ends a request beyond the capacity and returns an error as well.
* LED and beeper: an invalid status is acknowledged; the class brightness is stale after a write of the character
  device; a write of 0 bytes to the beeper uses a byte never set.

## 5. Proofs

Every safety invariant and every action property of the passing runs is a theorem, ResourcesKept for the 17 tables (of
35) of the drivers of which no defect is listed, and so is the refinement of the event queue. A proof holds for every
value of the constants under the named assumptions of the modules (ASSUME), with what the last column adds: clients,
masters and callers that behave as the property says.

| Module | Theorems | Further assumption |
|---|---|---|
| `ThreadProofs` | TypeCorrect, EventsAreAnnounced, ClaimsNeverFail, NoWakeupIsLost, QueueImplemented; CallsNeverOverlap of the cv timer; RepliesAreWhole of the web server | |
| `ModbusTcpProofs` | TypeCorrect, ReassemblyBounded | |
| | BufferIsOwned, RepliesAreCorrect, RequestsRunOnce; PatientClientsOwn, PatientClientsServed of the composition | Polite: patient clients, one request at a time, no resets, frames that announce their length and are shorter than the buffer |
| `SerialProofs` | TypeCorrect, GetByteStaysInChunk, TransmitterStaysInBuffer | |
| | LineInOrder, AssertionsHold, PoliteMaster, SerialAssertions | InTime: a master that waits, threads faster than the timer, frames of an address and a PDU that leave one byte of the buffer free; nothing of the ASCII line but AsciiAssumption |
| `MbFunctionsProofs` | LoopIsOneWrite | every byte of the field is given |
| | CoilsStayInBuffer, LightsShowCoils, OnlyNamedChanges | PaddedRequests: unused bits of a write are 0 |
| | WritesAreStored | PaddedRequests, and CompleteRequests: a request of function 23 has its header |
| | ReadsReturnValues | CompleteRequests, and SmallCounts: fewer than 256 registers are asked for |
| `MbStackProofs` | TypeCorrect | |
| | EnabledStackIsInitialised | nobody initialises a stack that is initialised (~Reinits) |
| | NeverAnotherHandler, InstalledHandlersAreCalled | no code or handler registered twice (~Overrides) |
| `CanProofs` | TypeCorrect, BuffersBounded, RequestsAreServed of the application | the checksum is a 16-bit number |
| | FramesKeepOrder, StateIsReported of the controller's driver, TimingIsKept | |
| `DriverProofs` | TypeCorrect, TimerIsExclusive, ProtectIsReset, KeyIsRight, NothingUsedAfterRelease of the key | |
| | TimesReadBack, AlarmModeIsKept of the clocks | |
| | SoundDriversKeepResources, ResourcesAreKept of the life of a driver | |
| `DeviceProofs` | TypeCorrect, ReadsAreOwn, RegistersAreRight of the converter | |
| | UnitsAreAtomic of the disks, ReadsAreFresh of the sensors, OutputObeys of the PWM, LinesShowRequests of LED and beeper | |

Section 4 says what the code does when such an assumption fails. The impatient clients of the run tcp and the busy
master of the run serial do not satisfy theirs, and only the theorems without one are about them.

The arguments, program by program:

* *ThreadQueue*. WakeupPerEvent is inductive with TypeOK: push adds an event and a pending signal, signal turns it into
  a wake-up, a test turns a wake-up into a claim, pop consumes both; the lemmas say how one thread's move changes the
  cardinalities. ClaimFindsEvent follows from it. NoLostWakeup is inductive with TypeOK alone. For the refinement, a
  receiver that times out may give up in the abstract queue because, with no wake-up left, each event belongs to a
  pending signal or to another receiver's claim.
* *Timers, Http*. `TimerInv`: whoever is calling holds the mutex, which has one holder. `WebInv`: at each point of a
  connection what is sent is the beginning of the reply that the page leads to, or of the page followed by the 404 page.
* *ModbusTcp*. BufferBounded needs that `base`, the size before `memcpy`, bounds `rx_frame_size` while the TCP thread
  grows it: the other thread can only reset the size (SizeWhileGrowing). For polite clients the invariant says where the
  cells of the one request of each connection are. On a connection that is not served they are all in its stream
  (OnTheWay). On the one that is served the client has no request and both threads are at rest (AtRest), or buffer,
  chunk and stream together make up his request while the polling thread is idle (Arriving), or the polling thread has
  it whole at one of its points while the TCP thread finds nothing to read (Taken). So the two threads never work at the
  same time, although nothing locks the buffer: the client's patience does.
* *MbRtu*. `InChunk`: what is left of the chunk lies behind the read index; a reset of the index only makes more room,
  and the step that uses up a character also counts it off. `Fits`: an EXECUTE event is queued only after eMBRTUReceive
  has found a frame, whose size is that of the buffer's content; so the count the transmitter starts with fits the
  buffer, although events lie between. With a master that waits (`Orderly`) the slave goes through phases (starting, at
  rest, receiving, timing the end, announcing, handling, replying), each of which fixes the states of the two machines,
  the threads and the event queue, and between line, chunk and buffer lie exactly the bytes of the frame under way
  (`Stream`). `Handed` adds that the character handed over last is the one before those that are still ahead, so the
  next one is new; the resets of the read index find nothing left in the chunk, because they come in the phases in which
  the line is empty.
* *MbAscii* (`AscInv`). While the slave is at work the receiver is idle and the line silent; the timer runs exactly
  while the receiver is not idle, but for the stray character; half a byte is waited for only where there is room. This
  holds whatever stands on the line, as long as a whole frame is followed by a silence.
* *MbFunctions*. Each step either leaves coils and lights alone or writes exactly the named range and its lights
  (Written); WriteCoilsSpan says that padded bytes set nothing outside the range. ConfirmedIsStored and ReadsAreCurrent
  are inductive over these. LoopIsOneWrite is about a recursive function: a turn of the loop adds one byte to the field,
  because what was stored before lies below the bits that it clears (LoopTurn), and the closed form is carried over the
  bytes by a least counterexample (lemma Inductive, from the well-foundedness of the naturals), since the library's
  induction theorems cannot be used here.
* *MbStack*. The table invariant: codes in the table are distinct, and a code in the table is installed with that
  handler, and the other way round. With it the search finds the right handler or, at a hole, nothing. `LifeInv`: from
  the first initialisation that succeeds the pointers are those of the current mode, whose port is initialised.
* *CanSocket*. `Announced`: from the sixth byte on the packet in the buffer is shorter than the size it announces, which
  is not too long. Since the first five bytes do not change any more, each further byte keeps it or completes the
  packet; the reply is built from what arrived and so fits as well. For the replies, `Clean`: the CAN frames that are on
  the bus lead from cursor to cursor, a cursor being how much of which request has gone by and which replies are due by
  then; the first one is what the parser has consumed, whether it stands between two frames (Between) or inside one
  (Within). The reply that is written through the frame being read does no harm because a request and its reply have the
  same length, so the last piece of the one is as long as that of the other.
* *FlexCan* (`ChipInv`). `EchoPlace`: while the mailbox holds a frame that no failed call has cut off, it is in the echo
  slot and the queue is off, so that from the completion to the waking of the queue nobody can fill it; `EchoOrder`:
  what was echoed is older than that frame. `Arrivals`: the frames that came are those delivered, queued, in the batch
  of the handler or in a mailbox, and the handler's snapshot leaves behind only later ones. `Masking`, `Errors`: a level
  that the driver believes in is the controller's, or a flag that will raise the interrupt contradicts it; that the bus
  error interrupt is on where only an error shows the passive level is what BROKEN_PERR_STATE is for, which every core
  but the S32V234's has (`ChipAssumption`). The timing is arithmetic: within the limits each part fits its field, after
  the shift between the two parts before the sample point.
* *KeyInput*. `Protected`: `protect` is 1 whenever the timer is armed, pending or running, so the handler passes its
  test only when nothing is under way (OneTimer), and each way out of that state ends in the reset (NeverStuck).
  `OnItsWay`: after an edge that was heard and not missed, an interrupt, handler, timer or fresh value is on its way to
  the key. `Timely` and `Staged` tie the timer to the stages of the driver core.
* *Rtc* (`ClockInv`). The registers hold the time that was set in BCD, and what bin2bcd writes bcd2bin reads (TimeKept,
  AlarmKept); the mode in the chip is the one asked for, and so is the copy that the interrupt thread will write back,
  unless a mode was written in between (ModeKept).
* *Life of the drivers* (`LifeInv`). For a sound table: after the calls of probe made so far, what is held lies between
  what is certain and what is possible (Sure, May), and what the driver core will give back is exactly the managed part
  of it, nothing twice and each way in behind what it uses; on the way back the same holds without what the steps so far
  have dropped. So each call, file and interrupt finds what it uses, and the core closes the ways in before it takes
  away what they use. ResourcesAreKept adds that the drivers without a listed defect have sound tables
  (TablesAssumption, which TLC evaluates).
* *Adc*. `LockHeld` says who is inside. `ReaderAlone`: while somebody reads and nothing was left to itself, no buffer is
  enabled, the conversion under way is his, and a completion carries his value; `ScanAlone` says the same of the buffer.
  For the registers, `OneChanges`: unless two came between each other, there is one user on the way from one set of
  features to the next, and `Stage` says what the registers and his copy of them hold at each point of that way;
  `Frozen` keeps resume out of it.
* *RamDisk* (`DiskInv`). Who copies holds the lock, finds the cursor where he left it, and what he has copied since is
  of one moment. *Sensors* (`SensorInv`). A word that has been read is not older than its call, and readers on their way
  at the same time know of each other. *Pwm* (`PwmInv`). What each caller still has to call makes the level that he was
  asked for (Scripts, Duties), and what he applies is that of his call (Applied). Until two calls overlap one caller at
  a time is in `pwm_driver_apply`, where each position fixes the count of the clocks (Counted) and the newest sample
  (NewestIs). When calls overlap without one that leaves the PWM off, every caller in the driver is on his way to a PWM
  that is on, so none takes the clocks from under another (Clocked) and the enable bit settles on the core's (Enabled);
  the flag of the backlight follows the core but for the requests under way (Flags). *Outputs* (`OutputInv`). A process
  in a call holds a byte that its way in lets through.

Model-checked only:

* all liveness (ImplementsFairQueue, TimerObeys, ConnectionsEnd, PatientAnswered, PoliteAnswered, AsciiServes,
  QueueWakes, KeyReported, AlarmObeys, TouchSettles), since temporal reasoning under fairness is beyond the prover, and
  with it everything of `Touch`, whose one property is that it settles;
* ResourcesKept of the 18 tables of which defects are listed: a walk through constant tables, where TLC's enumeration is
  complete.

No module uses a RECURSIVE operator: recursion is written as recursive functions and folds.


## 6. Abstractions

Logging, error codes beyond success and failure, `bind` and `listen` (once, before the first accept), the values of
registers where no property is about them, CRC and LRC arithmetic (a parameter or a flag of the frame), the pace of real
time (a timer expires at some time; `Prompt` says that threads are faster). `vMBPortTimersEnable` always arms 200 µs,
whatever t3.5 would be, which a model without real time cannot tell. `size()` and `empty()` of the queue only read.
Reading behind the end of memory has no effect in a model: the checksum over a wrapped length (`mbrtu.c:158`) and a
multiple write with too few bytes are in section 4. Kernel services (interrupt controller, timer wheel, driver core,
RTC, IIO, CAN, PWM and block core, regmap, I2C and SPI) are modelled from what the drivers ask of them and marked
external in the map. The week day of the clocks, time stamps of the CAN controller, and errata variants that only differ
in register addresses are data that nothing reads back.

What each model leaves out besides:

* *ModbusTcp*: the reply overwrites one cell of the buffer (`Handle`), which stands for the PDU behind the header; the
  death of the process by SIGPIPE at `porttcp.cpp:186`, after which there is nothing to say. *Http*: one `recv` brings
  the request line, or does not.
* *MbRtu*: under `Prompt`, which all properties of the polite master assume, the t3.5 timer does not expire while a
  character is waiting; what happens otherwise is in section 4. *MbAscii*: its timer is a second of silence.
* *FlexCan*: `restart-ms` is configured; the S32V234, whose passive level no interrupt reports, is left out. In the
  timing, the offset of the transceiver delay compensation (`flexcan-core.c:1283`) is.
* *Rtc*: a write of several registers that fails writes none; of an alarm that is read the time is looked at, not
  `enabled` and `pending`. *Outputs*: the LED class sets its brightness in the step that sets the line.
* *Adc*: the 25 cycles, stored as 21, read back as 25. *Sensors*: the words of a sample are stored in one step
  (`Store`); where that matters a reader is not alone.
* *Pwm*: Linux up to 6.1, whose PWM core takes no lock; the clocks come on in `get_state` and the software reset ends in
  time; the sample found at boot is not above the period; products of period and level stay below 2^32, and neither
  rounding nor the prescaler shows; brightness levels are their own duty cycles.
* *Drivers*: `pm_runtime_put` takes effect at once, CONFIG_PM is on; the CAN interface is not opened between
  `register_candev` and the disabling of the chip; the end of a driver is the unloading of its module, which waits for
  open files; one trip of the thermal sensor stands for all.

## 7. Not modelled, and why

* Serial device access (`tty.hpp`, `fifo_manage.cpp`): thin wrappers of system calls; their effect is in `MbRtu`.
* Modbus test clients: scripts that send one request after the other; the clients and masters of the models stand for
  them.
* MQTT node: each step is a callback of libmosquitto, whose order the source does not fix, and `libmosquitto`'s headers
  are declarations of a third party.
* IPC and file examples, small kernel modules, framebuffer programs: one page each, from top to bottom, in one thread.
* CAN statistics (ethtool): one flag that can be changed only while the interface is down.
* The operations of watchdog, regulator, HX711, nvmem and thermal sensor: they hand one value on and keep no state;
  their lives are modelled.
* Boot loader patches, device trees, build scripts, web page: copies of the vendor's files with a few lines changed, or
  declarative.

## 8. What could come next

The queue mutex in `MbRtu`, for the signal handler that posts on top of a `receive()`; the steps of `mbascii.c` taken
apart as those of `mbrtu.c` are, and with them replies and single execution in ASCII mode; a discipline for the tables
with listed defects, sound but for named calls; the safety half of the liveness properties (which step is taken next
whenever something is still due) as invariants of their own.
