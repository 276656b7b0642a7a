-------------------------------- MODULE Touch --------------------------------
(***************************************************************************)
(* The touch screen driver ch03-05/touchscreen/kernel_gt9147.c: the handler *)
(* reads the status of the controller, the points, reports the slots and    *)
(* clears the status.  The controller, which scans on while the handler     *)
(* runs, and the input device are external: a report stays in the           *)
(* controller, and is signalled at each scan, until the status is cleared.  *)
(***************************************************************************)
EXTENDS Naturals, FiniteSets

CONSTANTS Ids,         \* the numbers the controller gives to fingers (4 bits)
          Contacts,    \* GOODIX_MAX_CONTACTS
          MaxChanges, MaxErrors

VARIABLES fingers,     \* on the glass
          ready,       \* the buffer status bit
          report,      \* the points in the controller's buffer
          irq,         \* the line has been pulsed
          step,        \* of the handler
          touches,     \* touch_num, as a set: none, or the points to be read
          points,      \* what the handler read
          slots,       \* chip->slot_state
          pressed,     \* the slots the input device shows as touched
          changes, errors
touchVars == <<fingers, ready, report, irq, step, touches, points, slots, pressed, changes, errors>>

Slots == 0..(Contacts - 1)
Init ==
  /\ fingers = {} /\ ready = FALSE /\ report = {} /\ irq = FALSE /\ step = "idle"
  /\ touches = FALSE /\ points = {} /\ slots = {} /\ pressed = {} /\ changes = 0 /\ errors = 0

Move ==
  /\ changes < MaxChanges /\ changes' = changes + 1
  /\ \E f \in SUBSET Ids : Cardinality(f) <= Contacts /\ f # fingers /\ fingers' = f
  /\ UNCHANGED <<ready, report, irq, step, touches, points, slots, pressed, errors>>

\* The controller: a report with fingers at every scan, one without them after the last.
Scan ==
  /\ \/ ready /\ UNCHANGED <<ready, report>>
     \/ ~ready /\ (fingers # {} \/ report # {}) /\ ready' = TRUE /\ report' = fingers
  /\ ~irq /\ irq' = TRUE
  /\ UNCHANGED <<fingers, step, touches, points, slots, pressed, changes, errors>>

-----------------------------------------------------------------------------
Error == errors < MaxErrors /\ errors' = errors + 1

\* IRQ_NONE, when the status cannot be read or is not set, leaves everything as it is.
ReadStatus ==
  /\ irq /\ step = "idle" /\ irq' = FALSE
  /\ \/ ready /\ step' = (IF report = {} THEN "report" ELSE "points")
        /\ touches' = (report # {}) /\ UNCHANGED errors
     \/ ~ready /\ UNCHANGED <<step, touches, errors>>
     \/ Error /\ UNCHANGED <<step, touches>>
  /\ UNCHANGED <<fingers, ready, report, points, slots, pressed, changes>>

ReadPoints ==
  /\ step = "points"
  /\ \/ points' = report /\ step' = "report" /\ UNCHANGED errors
     \/ Error /\ step' = "out" /\ UNCHANGED points
  /\ UNCHANGED <<fingers, ready, report, irq, touches, slots, pressed, changes>>

\* Numbers that are no slot are passed over.
Seen == IF touches THEN points \cap Slots ELSE {}
(* Mutant: the new state is stored before the old one is compared with it.  *)
Released_Late(seen) == seen \ seen
Released(seen) == slots \ seen
Report ==
  /\ step = "report"
  /\ pressed' = (pressed \cup Seen) \ Released(Seen)
  /\ slots' = Seen /\ points' = {} /\ step' = "out"
  /\ UNCHANGED <<fingers, ready, report, irq, touches, changes, errors>>

\* The status is cleared on every path that found it set; nobody asks whether it worked.
Out ==
  /\ step = "out" /\ step' = "idle" /\ touches' = FALSE
  /\ \/ ready' = FALSE /\ UNCHANGED errors
     \/ Error /\ UNCHANGED ready
  /\ UNCHANGED <<fingers, report, irq, points, slots, pressed, changes>>

Handler == ReadStatus \/ ReadPoints \/ Report \/ Out
Next == Move \/ Scan \/ Handler
Spec == Init /\ [][Next]_touchVars
FairSpec == Spec /\ WF_touchVars(Scan) /\ WF_touchVars(Handler)

(***************************************************************************)
(* goodix_irq_handler: whatever is lost when a transfer fails, once the     *)
(* fingers rest and the transfers work again the input device shows exactly *)
(* the fingers on the glass; none stays pressed after it was lifted.        *)
(***************************************************************************)
TouchSettles == <>[](pressed = fingers \cap Slots)
=============================================================================
