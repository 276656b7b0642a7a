-------------------------------- MODULE MCCan --------------------------------
(***************************************************************************)
(* CAN from the socket down: the application of CanSocket, the controller   *)
(* and its driver of FlexCan, and the bit timing of FlexCanTiming.  `which' *)
(* says which of them a behaviour is of; the variables of the others rest.  *)
(***************************************************************************)
EXTENDS MCCanSocket

CONSTANTS RxMbs, QueueMax, Loads, Quirks,  \* of FlexCan
          Wanted                           \* of FlexCanTiming

VARIABLES which,
          (* FlexCan *)
          load, quirk, open, chip, clocks, masked, errmsk, queue, attached, txmb, txflag, echo,
          wire, echoed, given, mb, came, irqq, rxq, up, counted, hw, werr, err, state, restart,
          irq, sleep, errors, fails, sleeps, cut, missed,
          (* FlexCanTiming *)
          want, regs

(***************************************************************************)
(* How much of everything happens: every level of the error counters and a  *)
(* failure; traffic both ways with bus errors; bus off with a frame to      *)
(* send; a sleep under traffic; two sleeps with bus errors, woken by CAN.   *)
(* The controller tells the warning level, does not, or tells bus errors.   *)
(***************************************************************************)
Load(s, c, e, f, z, w) == [sent |-> s, come |-> c, errors |-> e, fails |-> f, sleeps |-> z, wakes |-> w]
MCLoads == {Load(0, 4, 0, 1, 0, FALSE), Load(2, 1, 3, 0, 0, FALSE), Load(1, 0, 4, 1, 0, FALSE),
            Load(3, 1, 0, 1, 1, FALSE), Load(2, 0, 2, 1, 2, TRUE)}
MCQuirks == {<<TRUE, FALSE, FALSE>>, <<TRUE, TRUE, FALSE>>, <<TRUE, FALSE, TRUE>>}
MCRxMbs == {1, 2}
Chip == INSTANCE FlexCan

(***************************************************************************)
(* BROKEN_PERR_STATE is on for every core of the device table, the          *)
(* i.MX6ULL's included, but the S32V234's, which is left out.               *)
(***************************************************************************)
ASSUME ChipAssumption ==
  /\ RxMbs \subseteq Nat /\ QueueMax \in Nat
  /\ Loads \subseteq [sent : Nat, come : Nat, errors : Nat, fails : Nat, sleeps : Nat, wakes : BOOLEAN]
  /\ Quirks \subseteq {TRUE} \X BOOLEAN \X BOOLEAN

\* Timings within the driver's limits: every split of a bit, with both ends of the
\* prescaler and of the jump width.
Timings(kind, seg1, seg2, sjw, brp) ==
  [kind : {kind}, seg1 : seg1, seg2 : seg2, sjw : sjw, brp : brp]
MCWanted == Timings("ctrl", 4..16, 2..8, 1..4, {1, 256})
              \cup Timings("cbt", 2..96, {2, 31, 32}, {1, 16}, {1, 1024})
              \cup Timings("fdcbt", 2..39, 2..8, {1, 4}, {1, 1024})
Timing == INSTANCE FlexCanTiming

\* The CAN core asks for nothing outside of the limits that the driver states.
ASSUME TimingAssumption ==
  \A w \in Wanted :
    /\ w.kind \in {"ctrl", "cbt", "fdcbt"}
    /\ w.seg1 \in Timing!Limits(w.kind).seg1 /\ w.seg2 \in Timing!Limits(w.kind).seg2
    /\ w.sjw \in Timing!Limits(w.kind).sjw /\ w.brp \in Timing!Limits(w.kind).brp

chipVars ==
  <<load, quirk, open, chip, clocks, masked, errmsk, queue, attached, txmb, txflag, echo, wire,
    echoed, given, mb, came, irqq, rxq, up, counted, hw, werr, err, state, restart, irq, sleep,
    errors, fails, sleeps, cut, missed>>
timingVars == <<want, regs>>

NoChip == load = (CHOOSE l \in Loads : TRUE) /\ quirk = (CHOOSE q \in Quirks : TRUE)
NoTiming == want = CHOOSE w \in Wanted : TRUE
MCInit ==
  /\ \/ which = "app" /\ NoChip /\ NoTiming
     \/ which = "chip" /\ NoTiming
     \/ which = "timing" /\ NoChip
  /\ Init /\ Chip!Init /\ Timing!Init
AppNext == which = "app" /\ Next /\ UNCHANGED <<which, chipVars, timingVars>>
ChipNext == which = "chip" /\ Chip!Next /\ UNCHANGED <<which, vars, timingVars>>
TimingNext == which = "timing" /\ Timing!Next /\ UNCHANGED <<which, vars, chipVars>>
MCNext == AppNext \/ ChipNext \/ TimingNext

\* The fairness of FlexCan, for the behaviours that are its own.
MCFairness ==
  /\ WF_chipVars(which = "chip" /\ Chip!Handler) /\ WF_chipVars(which = "chip" /\ Chip!Restart)
  /\ WF_chipVars(which = "chip" /\ Chip!Sleeping) /\ WF_chipVars(which = "chip" /\ Chip!Transmit)
MCSpec == MCInit /\ [][MCNext]_<<which, vars, chipVars, timingVars>> /\ MCFairness

(* can_socket and can_protocol: on a clean bus every request gets its       *)
(* reply, once, whole and in order, see CanSocket.                          *)
RequestsServed == RepliesCorrect /\ IdleMeansDone
(* flexcan_start_xmit, flexcan_irq and flexcan_mailbox_read: the echoes are *)
(* the frames that were sent, once and in order; the frames that come are   *)
(* delivered in order, none missing unless a loss is counted, see FlexCan.  *)
FramesInOrder == Chip!EchoesAreSent /\ Chip!ReceivedInOrder
(* flexcan_irq: the state of the interface is that of the controller, see   *)
(* FlexCan.                                                                 *)
StateKnown == Chip!StateKnown
(* flexcan_start_xmit, flexcan_irq, flexcan_set_mode, flexcan_resume: a     *)
(* stopped transmit queue is woken, see FlexCan.                            *)
QueueWakes == which = "chip" => Chip!QueueWakes
(* flexcan_set_bittiming: the registers hold the timing that was asked for, *)
(* see FlexCanTiming.                                                       *)
TimingKept == Timing!TimingKept
=============================================================================
