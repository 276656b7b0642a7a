------------------------------- MODULE FlexCan -------------------------------
(***************************************************************************)
(* The driver of the CAN controller (ch03-22/can_driver/flexcan-core.c) as  *)
(* the i.MX6ULL uses it: one transmit mailbox, receive mailboxes that the   *)
(* interrupt empties in the order of their time stamps, the error states    *)
(* behind a controller that does not report all of them, restart after bus  *)
(* off, and system sleep with the module disabled or in stop mode.          *)
(* Frames are numbers, given in the order in which they are handed down or  *)
(* arrive, so that a frame received is its own time stamp.  The resources   *)
(* taken and given back by probe, open and close are in DriverTables.       *)
(***************************************************************************)
EXTENDS Naturals, Sequences, SequencesExt, FiniteSets, FiniteSetsExt

CONSTANTS RxMbs,    \* numbers of the receive mailboxes
          QueueMax, \* skb_queue_len_max of the offload queue
          Loads,    \* how much of everything happens: frames sent and come, error
                    \* state changes, failing calls, sleeps; and whether the device
                    \* may wake the system, in one record per case
          Quirks    \* <<BROKEN_PERR_STATE, BROKEN_WERR_STATE, BERR_REPORTING>> of the cases

None == 0

VARIABLES load, quirk, \* the case under way, fixed
          open,     \* netif_running
          chip,     \* off (disabled), run, stop (stop mode)
          clocks,   \* runtime PM has the clocks on
          masked,   \* imask and the error interrupts of ctrl are off
          errmsk,   \* FLEXCAN_CTRL_ERR_MSK
          queue,    \* the transmit queue: on, off
          attached, \* netif_device_present
          txmb,     \* the frame in the transmit mailbox
          txflag,   \* its interrupt flag
          echo,     \* the frame in the echo slot
          wire,     \* the frames the controller has sent
          echoed,   \* those reported back to the sockets
          given,    \* the number of frames handed down
          mb,       \* the receive mailboxes: a frame or None
          came,     \* the number of frames that arrived for us
          irqq,     \* skb_irq_queue, the frames read by the interrupt in progress
          rxq,      \* skb_queue, what the NAPI poll will deliver
          up,       \* the frames delivered
          counted,  \* a loss has been counted, or the mailboxes were reset
          hw,       \* the error state of the controller
          werr,     \* its warning and bus off flags
          err,      \* its bus error flag
          state,    \* can.state
          restart,  \* a restart is scheduled
          irq,      \* the interrupt handler: where, its snapshots
          sleep,    \* where the system sleep is
          errors, fails, sleeps, \* how much has happened
          cut,      \* history: a call failed, or a sleep began or ended with a frame under way
          missed    \* history: a state change found no memory, or hid behind a resume

txVars    == <<queue, txmb, txflag, echo, wire, echoed, given>>
rxVars    == <<mb, came, irqq, rxq, up, counted>>
errVars   == <<hw, werr, err, state, restart, errmsk, missed>>
powerVars == <<open, chip, clocks, masked, attached, sleep>>
tally     == <<errors, fails, sleeps, cut>>
fixed     == <<load, quirk>>
vars == <<txVars, rxVars, errVars, powerVars, tally, irq, fixed>>

PerrBroken == quirk[1]
WerrBroken == quirk[2]
Reporting  == quirk[3]
Levels == <<"active", "warning", "passive", "busoff">>
Level(s) == CHOOSE i \in 1..4 : Levels[i] = s

IrqIdle == [at |-> "idle", last |-> "stopped", pending |-> {}, batch |-> <<>>, seen |-> "stopped"]
Empty == [n \in RxMbs |-> None]
Full  == {n \in RxMbs : mb[n] # None}
Fail  == fails < load.fails /\ fails' = fails + 1

-----------------------------------------------------------------------------
(***************************************************************************)
(* flexcan_chip_start up to its last write: soft reset, mailboxes empty or  *)
(* inactive, interrupts still off; then flexcan_chip_interrupts_enable.     *)
(***************************************************************************)
DefaultErrMsk == WerrBroken \/ Reporting

ResetMailboxes ==
  /\ mb' = Empty /\ txmb' = None /\ txflag' = FALSE
  /\ counted' = (counted \/ Full # {})
ChipStart ==
  /\ chip' = "run" /\ masked' = FALSE
  /\ ResetMailboxes
  /\ hw' = "active" /\ werr' = FALSE /\ err' = FALSE
  /\ state' = "active" /\ errmsk' = DefaultErrMsk
\* Each of its stages may run into a time-out: the module is disabled again.
ChipStartFails ==
  /\ Fail
  /\ chip' = "off" /\ masked' = TRUE /\ errmsk' = FALSE
  /\ ResetMailboxes
  /\ UNCHANGED <<hw, werr, err>>

InterruptsDisable == masked' = TRUE /\ errmsk' = FALSE

\* No core with BROKEN_WERR_STATE has the stop mode a device must have to wake the system.
Init ==
  /\ load \in Loads /\ quirk \in Quirks /\ (load.wakes => ~WerrBroken)
  /\ open = FALSE /\ chip = "off" /\ clocks = FALSE /\ masked = TRUE /\ attached = TRUE
  /\ queue = "off" /\ txmb = None /\ txflag = FALSE /\ echo = None
  /\ wire = <<>> /\ echoed = <<>> /\ given = 0
  /\ mb = Empty /\ came = 0 /\ irqq = <<>> /\ rxq = <<>> /\ up = <<>> /\ counted = FALSE
  /\ hw = "active" /\ werr = FALSE /\ err = FALSE /\ errmsk = FALSE /\ missed = FALSE
  /\ state = "stopped" /\ restart = FALSE /\ irq = IrqIdle
  /\ sleep = "awake" /\ errors = 0 /\ fails = 0 /\ sleeps = 0 /\ cut = FALSE

(***************************************************************************)
(* flexcan_open: DriverTables has its error path; here it leaves the chip   *)
(* on the bus, or nothing.                                                  *)
(***************************************************************************)
Open ==
  /\ ~open /\ sleep = "awake"
  /\ open' = TRUE /\ clocks' = TRUE /\ queue' = "on"
  /\ ChipStart
  /\ UNCHANGED <<echo, wire, echoed, given, came, irqq, rxq, up, restart, missed, attached, sleep,
                 tally, irq, fixed>>

(***************************************************************************)
(* flexcan_close.  free_irq waits for the handler; the offload queues and   *)
(* the echo slot are emptied by can_rx_offload_del and close_candev, which  *)
(* calls off a restart.                                                     *)
(***************************************************************************)
Close ==
  /\ open /\ sleep = "awake" /\ irq.at = "idle"
  /\ open' = FALSE /\ queue' = "off" /\ InterruptsDisable
  /\ chip' = "off" /\ state' = "stopped" /\ clocks' = FALSE
  /\ ResetMailboxes /\ irqq' = <<>> /\ rxq' = <<>> /\ echo' = None /\ restart' = FALSE
  /\ counted' = (counted \/ Full # {} \/ rxq # <<>>)
  /\ missed' = FALSE
  /\ UNCHANGED <<wire, echoed, given, came, up, hw, werr, err, attached, sleep, tally, irq, fixed>>

-----------------------------------------------------------------------------
(***************************************************************************)
(* flexcan_start_xmit: the queue is stopped first, the frame remembered in  *)
(* the echo slot, the mailbox armed last.  can_put_echo_skb drops the frame *)
(* it is given when the slot is occupied.  The senders are frozen while the *)
(* system goes to sleep, but frames that were queued before leave as soon   *)
(* as flexcan_resume starts the queue, with the controller still stopped.   *)
(***************************************************************************)
StartXmit ==
  /\ open /\ attached /\ queue = "on" /\ given < load.sent
  /\ sleep \in {"awake", "start"}
  /\ cut' = (cut \/ sleep = "start")
  /\ given' = given + 1
  /\ queue' = "off"
  /\ echo' = IF echo = None THEN given' ELSE echo
  /\ txmb' = given' /\ UNCHANGED txflag
  /\ UNCHANGED <<wire, echoed, rxVars, errVars, powerVars, errors, fails, sleeps, irq, fixed>>

\* The controller sends what is in the mailbox.
Transmit ==
  /\ chip = "run" /\ hw # "busoff" /\ txmb # None /\ ~txflag
  /\ wire' = Append(wire, txmb) /\ txflag' = TRUE
  /\ UNCHANGED <<queue, txmb, echo, echoed, given, rxVars, errVars, powerVars, tally, irq, fixed>>

(***************************************************************************)
(* A frame arrives: it goes to the first empty mailbox, or else over the    *)
(* oldest frame, whose loss the code OVERRUN tells the driver.              *)
(***************************************************************************)
Arrive ==
  /\ chip = "run" /\ came < load.come
  /\ came' = came + 1
  /\ LET free == RxMbs \ Full
         n == IF free # {} THEN Min(free) ELSE CHOOSE i \in RxMbs : \A j \in RxMbs : mb[i] <= mb[j]
     IN mb' = [mb EXCEPT ![n] = came']
  /\ counted' = (counted \/ RxMbs = Full)
  /\ UNCHANGED <<irqq, rxq, up, txVars, errVars, powerVars, tally, irq, fixed>>

(***************************************************************************)
(* The fault confinement of the controller.  Every error sets the bus error *)
(* flag; entering the warning level or bus off has a flag of its own,       *)
(* becoming passive has none.  Only a frame that passes lowers the level,   *)
(* and that raises an interrupt too.                                        *)
(***************************************************************************)
BusError ==
  /\ chip = "run" /\ hw # "busoff" /\ errors < load.errors
  /\ errors' = errors + 1
  /\ hw' = Levels[Level(hw) + 1] /\ err' = TRUE
  /\ werr' = (werr \/ hw' = "busoff" \/ (hw' = "warning" /\ ~WerrBroken))
  /\ UNCHANGED <<state, restart, errmsk, missed, fails, sleeps, cut, txVars, rxVars, powerVars, irq, fixed>>

Recovers ==
  /\ chip = "run" /\ hw \in {"warning", "passive"} /\ txmb # None /\ ~txflag /\ errors < load.errors
  /\ errors' = errors + 1
  /\ hw' = Levels[Level(hw) - 1]
  /\ wire' = Append(wire, txmb) /\ txflag' = TRUE
  /\ UNCHANGED <<werr, err, state, restart, errmsk, missed, fails, sleeps, cut,
                 queue, txmb, echo, echoed, given, rxVars, powerVars, irq, fixed>>

-----------------------------------------------------------------------------
(***************************************************************************)
(* flexcan_irq, one step per access that another actor can come between.    *)
(***************************************************************************)
Raised == ~masked /\ (Full # {} \/ txflag \/ werr \/ (errmsk /\ err))

IrqEnter ==
  /\ open /\ clocks /\ Raised /\ irq.at = "idle"
  /\ irq' = [IrqIdle EXCEPT !.at = "rx", !.last = state]
  /\ UNCHANGED <<txVars, rxVars, errVars, powerVars, tally, fixed>>

\* The loop over the flags takes a snapshot of them, as long as a round read something.
RxRound ==
  /\ irq.at = "rx"
  /\ irq' = IF Full # {} THEN [irq EXCEPT !.at = "read", !.pending = Full]
                          ELSE [irq EXCEPT !.at = "tx"]
  /\ UNCHANGED <<txVars, rxVars, errVars, powerVars, tally, fixed>>

(***************************************************************************)
(* One mailbox of the snapshot: flexcan_mailbox_read, called by the offload *)
(* code, which puts the frame before those of the round with a later stamp. *)
(* With too many frames queued, or without memory, the frame is dropped and *)
(* counted.  Clearing the flag frees the mailbox.                           *)
(***************************************************************************)
Place(s, f) == Min({k \in DOMAIN s : s[k] > f} \cup {Len(s) + 1})
Insert(s, f) == InsertAt(s, Place(s, f), f)
(* Mutant: all the flags of the snapshot are cleared with the first.        *)
Cleared_All(n) == irq.pending
Cleared(n) == {n}

MailboxRead ==
  /\ irq.at = "read" /\ irq.pending # {}
  /\ LET n == Min(irq.pending)
         frame == mb[n]
     IN /\ frame # None    \* the driver checks that, and finds it so
        /\ mb' = [i \in RxMbs |-> IF i \in Cleared(n) THEN None ELSE mb[i]]
        /\ \/ /\ Len(rxq) <= QueueMax
              /\ irq' = [irq EXCEPT !.pending = @ \ {n}, !.batch = Insert(@, frame)]
              /\ UNCHANGED <<counted, fails>>
           \/ /\ (Len(rxq) > QueueMax /\ UNCHANGED fails) \/ Fail
              /\ counted' = TRUE
              /\ irq' = [irq EXCEPT !.pending = @ \ {n}]
  /\ UNCHANGED <<came, irqq, rxq, up, txVars, errVars, powerVars, errors, sleeps, cut, fixed>>

RxRoundEnds ==
  /\ irq.at = "read" /\ irq.pending = {}
  /\ irqq' = irqq \o irq.batch
  /\ irq' = [irq EXCEPT !.batch = <<>>, !.at = IF irq.batch = <<>> THEN "tx" ELSE "rx"]
  /\ UNCHANGED <<mb, came, rxq, up, counted, txVars, errVars, powerVars, tally, fixed>>

(***************************************************************************)
(* Transmission complete: the echo is given back, the mailbox made inactive *)
(* and its flag cleared, and only then the queue woken.                     *)
(***************************************************************************)
EchoBack ==
  /\ echoed' = IF echo = None THEN echoed ELSE Append(echoed, echo)
  /\ echo' = None
(* Mutant: the queue is woken before the mailbox is free.                   *)
TxComplete_WakesFirst ==
  \/ /\ irq.at = "tx" /\ txflag
     /\ EchoBack /\ queue' = "on"
     /\ irq' = [irq EXCEPT !.at = "wake"]
     /\ UNCHANGED <<txmb, txflag>>
  \/ /\ irq.at = "wake"
     /\ txmb' = None /\ txflag' = FALSE
     /\ irq' = [irq EXCEPT !.at = "esr"]
     /\ UNCHANGED <<queue, echo, echoed>>
TxComplete ==
  \/ /\ irq.at = "tx" /\ txflag
     /\ EchoBack
     /\ txmb' = None /\ txflag' = FALSE
     /\ irq' = [irq EXCEPT !.at = "wake"]
     /\ UNCHANGED queue
  \/ /\ irq.at = "wake"
     /\ queue' = "on"
     /\ irq' = [irq EXCEPT !.at = "esr"]
     /\ UNCHANGED <<txmb, txflag, echo, echoed>>

TxDone ==
  /\ \/ TxComplete
     \/ /\ irq.at = "tx" /\ ~txflag
        /\ irq' = [irq EXCEPT !.at = "esr"]
        /\ UNCHANGED <<queue, txmb, txflag, echo, echoed>>
  /\ UNCHANGED <<wire, given, rxVars, errVars, powerVars, tally, fixed>>

\* The error and status register is read and what it reports acknowledged.
ReadEsr ==
  /\ irq.at = "esr"
  /\ irq' = [irq EXCEPT !.at = IF werr \/ PerrBroken \/ WerrBroken THEN "state" ELSE "mask", !.seen = hw]
  /\ werr' = FALSE /\ err' = FALSE
  /\ UNCHANGED <<hw, state, restart, errmsk, missed, txVars, rxVars, powerVars, tally, fixed>>

(***************************************************************************)
(* flexcan_irq_state: a change of state is reported with a frame of its     *)
(* own, and forgotten when there is no memory for that; bus off schedules   *)
(* the restart.                                                             *)
(***************************************************************************)
IrqState ==
  /\ irq.at = "state"
  /\ irq' = [irq EXCEPT !.at = "mask"]
  /\ \/ /\ irq.seen = state /\ missed' = FALSE
        /\ UNCHANGED <<state, restart, fails>>
     \/ /\ irq.seen # state /\ missed' = FALSE
        /\ state' = irq.seen /\ restart' = (restart \/ irq.seen = "busoff")
        /\ UNCHANGED fails
     \/ /\ irq.seen # state /\ Fail /\ missed' = TRUE
        /\ UNCHANGED <<state, restart>>
  /\ UNCHANGED <<hw, werr, err, errmsk, txVars, rxVars, powerVars, errors, sleeps, cut, fixed>>

(***************************************************************************)
(* With BROKEN_PERR_STATE the passive level raises no interrupt: the bus    *)
(* error interrupt is on in the level below, so that the error that makes   *)
(* the controller passive is seen.                                          *)
(***************************************************************************)
(* Mutant: warning is handled like the levels above it.                     *)
ErrMskFor_NotInWarning(s) == s = "active" /\ WerrBroken
ErrMskFor(s) == s = "warning" \/ (s = "active" /\ WerrBroken)
IrqFinish ==
  /\ irq.at = "mask"
  /\ errmsk' = IF irq.last # state /\ PerrBroken /\ ~Reporting /\ state \in Range(Levels)
                 THEN ErrMskFor(state) ELSE errmsk
  /\ rxq' = rxq \o irqq /\ irqq' = <<>>
  /\ irq' = IrqIdle
  /\ UNCHANGED <<hw, werr, err, state, restart, missed, mb, came, up, counted, txVars, powerVars,
                 tally, fixed>>

\* The NAPI poll hands the frames to the sockets.
Poll ==
  /\ rxq # <<>>
  /\ up' = Append(up, Head(rxq)) /\ rxq' = Tail(rxq)
  /\ UNCHANGED <<mb, came, irqq, counted, txVars, errVars, powerVars, tally, irq, fixed>>

(***************************************************************************)
(* The restart after bus off: the core empties the echo slot and calls      *)
(* flexcan_set_mode.  Nobody tries again when that fails.  The work runs in *)
(* a process: on the one core of the i.MX6ULL never inside the handler.     *)
(* The core schedules it when a restart-ms is configured, which is assumed. *)
(***************************************************************************)
Restart ==
  /\ restart /\ open /\ sleep = "awake" /\ irq.at = "idle"
  /\ restart' = FALSE /\ echo' = None
  /\ \/ ChipStart /\ queue' = "on" /\ UNCHANGED <<fails, cut>>
     \/ ChipStartFails /\ cut' = TRUE /\ UNCHANGED <<queue, state>>
  /\ UNCHANGED <<wire, echoed, given, came, irqq, rxq, up, missed, open, clocks, attached, sleep,
                 errors, sleeps, irq, fixed>>

-----------------------------------------------------------------------------
(***************************************************************************)
(* System sleep: flexcan_suspend disables the module, masks the interrupts, *)
(* switches the pins and takes the interface away, in this order; a device  *)
(* that may wake the system goes to stop mode instead and keeps its         *)
(* mailboxes.  A call that fails ends the suspend where it is.              *)
(***************************************************************************)
SuspendStop ==
  /\ sleep = "awake" /\ sleeps < load.sleeps
  /\ sleeps' = sleeps + 1
  /\ \/ /\ ~open /\ state' = "sleeping" /\ sleep' = "noirq"
        /\ UNCHANGED <<chip, fails, cut>>
     \/ /\ open /\ ~load.wakes
        /\ chip' = "off" /\ state' = "stopped" /\ sleep' = "mask"
        /\ cut' = (cut \/ txmb # None) /\ UNCHANGED fails
     \/ /\ open /\ load.wakes
        /\ chip' = "stop" /\ sleep' = "detach"
        /\ cut' = (cut \/ txmb # None) /\ UNCHANGED <<state, fails>>
     \/ /\ open /\ Fail /\ cut' = TRUE
        /\ chip' \in {chip, "off"}   \* the freeze asked for may still come
        /\ UNCHANGED <<state, sleep>>
  /\ UNCHANGED <<open, clocks, masked, attached, hw, werr, err, errmsk, restart, missed,
                 txVars, rxVars, errors, irq, fixed>>

SuspendMask ==
  /\ sleep = "mask"
  /\ InterruptsDisable
  /\ \/ sleep' = "detach" /\ UNCHANGED <<fails, cut>>
     \/ sleep' = "awake" /\ Fail /\ cut' = TRUE    \* pinctrl_pm_select_sleep_state
  /\ UNCHANGED <<open, chip, clocks, attached, hw, werr, err, state, restart, missed,
                 txVars, rxVars, errors, sleeps, irq, fixed>>

SuspendDetach ==
  /\ sleep = "detach"
  /\ queue' = "off" /\ attached' = FALSE /\ state' = "sleeping" /\ sleep' = "noirq"
  /\ UNCHANGED <<open, chip, clocks, masked, hw, werr, err, errmsk, restart, missed,
                 txmb, txflag, echo, wire, echoed, given, rxVars, tally, irq, fixed>>

\* flexcan_noirq_suspend, when no handler runs any more.
NoirqSuspend ==
  /\ sleep = "noirq" /\ irq.at = "idle"
  /\ clocks' = FALSE /\ sleep' = "asleep"
  /\ UNCHANGED <<open, chip, masked, attached, txVars, rxVars, errVars, tally, irq, fixed>>

NoirqResume ==
  /\ sleep = "asleep"
  /\ sleep' = "resume"
  /\ \/ clocks' = open /\ UNCHANGED <<fails, cut>>
     \/ open /\ Fail /\ cut' = TRUE /\ UNCHANGED clocks
  /\ UNCHANGED <<open, chip, masked, attached, txVars, rxVars, errVars, errors, sleeps, irq, fixed>>

\* flexcan_resume lets the queue go before the module is back.
ResumeAttach ==
  /\ sleep = "resume"
  /\ state' = "active"
  /\ IF open THEN attached' = TRUE /\ queue' = "on" /\ sleep' = "start"
             ELSE sleep' = "awake" /\ UNCHANGED <<attached, queue>>
  /\ UNCHANGED <<open, chip, clocks, masked, hw, werr, err, errmsk, restart, missed,
                 txmb, txflag, echo, wire, echoed, given, rxVars, tally, irq, fixed>>

ResumeStart ==
  /\ sleep = "start" /\ ~load.wakes
  /\ sleep' = "awake"
  /\ \/ ChipStart /\ UNCHANGED <<fails, cut>>
     \/ ChipStartFails /\ cut' = TRUE /\ UNCHANGED state
  /\ UNCHANGED <<open, clocks, attached, restart, missed, queue, echo, wire, echoed, given,
                 came, irqq, rxq, up, errors, sleeps, irq, fixed>>

\* Out of stop mode the controller goes on where it was, on whatever error level.
ResumeFromStop ==
  /\ sleep = "start" /\ load.wakes
  /\ sleep' = "awake"
  /\ \/ chip' = "run" /\ missed' = (missed \/ state # hw) /\ UNCHANGED <<fails, cut>>
     \/ Fail /\ cut' = TRUE /\ UNCHANGED <<chip, missed>>
  /\ UNCHANGED <<open, clocks, masked, attached, hw, werr, err, errmsk, state, restart,
                 txVars, rxVars, errors, sleeps, irq, fixed>>

-----------------------------------------------------------------------------
Handler == IrqEnter \/ RxRound \/ MailboxRead \/ RxRoundEnds \/ TxDone \/ ReadEsr \/ IrqState \/ IrqFinish
Sleeping == SuspendMask \/ SuspendDetach \/ NoirqSuspend \/ NoirqResume \/ ResumeAttach \/ ResumeStart
            \/ ResumeFromStop
Next == \/ Open \/ Close \/ StartXmit \/ Transmit \/ Arrive \/ BusError \/ Recovers
        \/ Handler \/ Poll \/ Restart \/ SuspendStop \/ Sleeping

(***************************************************************************)
(* Interrupts are served, the delayed work of the restart runs, a sleep     *)
(* that began ends, and on a bus that is not off the controller sends.      *)
(***************************************************************************)
Fairness == WF_vars(Handler) /\ WF_vars(Restart) /\ WF_vars(Sleeping) /\ WF_vars(Transmit)
Spec == Init /\ [][Next]_vars /\ Fairness

-----------------------------------------------------------------------------
Frames == 0..(load.sent + load.come)
TypeOK ==
  /\ load \in Loads /\ quirk \in Quirks
  /\ chip \in {"off", "run", "stop"} /\ queue \in {"on", "off"}
  /\ {open, clocks, masked, errmsk, attached, txflag, werr, err, restart, counted, cut, missed} \subseteq BOOLEAN
  /\ {txmb, echo} \cup Range(wire) \cup Range(echoed) \subseteq 0..load.sent
  /\ Range(mb) \cup Range(irqq) \cup Range(rxq) \cup Range(up) \subseteq 0..load.come
  /\ hw \in Range(Levels) /\ state \in Range(Levels) \cup {"stopped", "sleeping"}
  /\ irq.at \in {"idle", "rx", "read", "tx", "wake", "esr", "state", "mask"} /\ irq.pending \subseteq RxMbs
  /\ sleep \in {"awake", "mask", "detach", "noirq", "asleep", "resume", "start"}

Increasing(s) == \A i, j \in DOMAIN s : i < j => s[i] < s[j]

(***************************************************************************)
(* flexcan_start_xmit and the transmit part of flexcan_irq share one echo   *)
(* slot and one mailbox, with nothing but the queue between them: the frame *)
(* waiting in the mailbox is the one in the slot, and what the sockets hear *)
(* back was sent, once and in order.  Not after a sleep that began or ended *)
(* with a frame under way: the slot survives it.                            *)
(***************************************************************************)
EchoesAreSent ==
  ~cut => /\ txmb # None /\ ~txflag => echo = txmb
          /\ Range(echoed) \subseteq Range(wire) /\ Increasing(echoed)

(***************************************************************************)
(* The rounds of flexcan_irq over the flags and flexcan_mailbox_read: as    *)
(* long as no loss is counted, frames are delivered in the order of arrival *)
(* and none is missing.  (A frame that overruns a mailbox of the snapshot   *)
(* may pass one that arrived before it.)                                    *)
(***************************************************************************)
ReceivedInOrder ==
  ~counted =>
    /\ Increasing(up \o rxq \o irqq)
    /\ 1..came = Range(up \o rxq \o irqq \o irq.batch) \cup (Range(mb) \ {None})

(***************************************************************************)
(* The comment on the error interrupts in flexcan_irq: with the interrupts  *)
(* that this controller has, can.state never stays behind its error level   *)
(* once nothing is left to handle.                                          *)
(***************************************************************************)
StateKnown ==
  open /\ sleep = "awake" /\ chip = "run" /\ irq.at = "idle" /\ ~Raised /\ ~missed /\ ~restart /\ ~cut
    => state = hw

(***************************************************************************)
(* A queue that flexcan_start_xmit stopped is woken: by the completion, by  *)
(* the restart after bus off, or by the end of the sleep.  Not when a call  *)
(* on the way fails, nor when the report of bus off finds no memory: then   *)
(* no restart is scheduled.                                                 *)
(***************************************************************************)
QueueWakes == open /\ queue = "off" ~> queue = "on" \/ ~open \/ cut \/ missed
=============================================================================
