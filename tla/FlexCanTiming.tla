---------------------------- MODULE FlexCanTiming ----------------------------
(***************************************************************************)
(* The bit timing that flexcan_set_bittiming writes (flexcan-core.c): the   *)
(* CTRL register of the cores with classic CAN, the CBT and FDCBT registers *)
(* of those with CAN FD.  The CAN core chooses tseg1 and tseg2 between the  *)
(* limits the driver states and halves tseg1 into prop_seg and phase_seg1;  *)
(* the driver moves quanta from one half to the other where a field is too  *)
(* short.  Register fields keep the low bits of what is written to them.    *)
(***************************************************************************)
EXTENDS Integers

CONSTANT Wanted   \* the timings that are asked for, with the registers they go to

VARIABLES want,   \* the timing under way
          regs    \* the fields written: NoRegs before
timingVars == <<want, regs>>
NoRegs == [rate |-> 0, jump |-> 0, prop |-> 0, seg1 |-> 0, seg2 |-> 0]

\* flexcan_bittiming_const and its two fellows: what the CAN core may ask for.
Limits(kind) ==
  CASE kind = "ctrl"  -> [seg1 |-> 4..16, seg2 |-> 2..8, sjw |-> 1..4, brp |-> 1..256]
    [] kind = "cbt"   -> [seg1 |-> 2..96, seg2 |-> 2..32, sjw |-> 1..16, brp |-> 1..1024]
    [] kind = "fdcbt" -> [seg1 |-> 2..39, seg2 |-> 2..8, sjw |-> 1..4, brp |-> 1..1024]

\* The CAN core's halves of tseg1.
Prop(w)  == w.seg1 \div 2
Phase(w) == w.seg1 - Prop(w)

Low(x, bits) == x % 2^bits

WriteCtrl(w) ==
  [rate |-> Low(w.brp - 1, 8), jump |-> Low(w.sjw - 1, 2), prop |-> Low(Prop(w) - 1, 3),
   seg1 |-> Low(Phase(w) - 1, 3), seg2 |-> Low(w.seg2 - 1, 3)]

(* Mutant: phase_seg1 keeps what does not fit.                              *)
Moved_None(w, most) == [prop |-> Prop(w), phase |-> Phase(w)]
Moved(w, most) ==
  IF Phase(w) > most THEN [prop |-> Prop(w) + Phase(w) - most, phase |-> most]
                     ELSE [prop |-> Prop(w), phase |-> Phase(w)]
WriteCbt(w) ==
  LET m == Moved(w, 32)
  IN [rate |-> Low(w.brp - 1, 10), jump |-> Low(w.sjw - 1, 5), prop |-> Low(m.prop - 1, 6),
      seg1 |-> Low(m.phase - 1, 5), seg2 |-> Low(w.seg2 - 1, 5)]
\* FPROPSEG alone is not written less one.
WriteFdcbt(w) ==
  LET m == Moved(w, 8)
  IN [rate |-> Low(w.brp - 1, 10), jump |-> Low(w.sjw - 1, 3), prop |-> Low(m.prop, 5),
      seg1 |-> Low(m.phase - 1, 3), seg2 |-> Low(w.seg2 - 1, 3)]

Init == want \in Wanted /\ regs = NoRegs
SetBittiming ==
  /\ regs = NoRegs
  /\ regs' = CASE want.kind = "ctrl" -> WriteCtrl(want) [] want.kind = "cbt" -> WriteCbt(want)
               [] want.kind = "fdcbt" -> WriteFdcbt(want)
  /\ UNCHANGED want
Next == SetBittiming

\* The quanta before and after the sample point that the controller makes of its fields.
Before == regs.prop + (IF want.kind = "fdcbt" THEN 0 ELSE 1) + regs.seg1 + 1
After  == regs.seg2 + 1

(***************************************************************************)
(* The limits the driver states, the move between the halves and the widths *)
(* of the fields fit together: every timing within the limits reaches the   *)
(* controller as it was asked for, and none is cut to the low bits.         *)
(***************************************************************************)
TimingKept ==
  regs # NoRegs => /\ Before = want.seg1 /\ After = want.seg2
                   /\ regs.jump + 1 = want.sjw /\ regs.rate + 1 = want.brp
=============================================================================
