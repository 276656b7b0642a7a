----------------------------- MODULE DriverLife -----------------------------
(***************************************************************************)
(* The life of one driver of DriverTables on one device: probe, which may   *)
(* fail at any of its calls; what enters the driver from outside (files,    *)
(* attributes, interrupts) as soon as the way in exists; removal when the   *)
(* module is unloaded; and the driver core, which gives back what devm_     *)
(* functions took, last taken first, after a failed probe and after remove. *)
(***************************************************************************)
EXTENDS DriverTables, FiniteSets, SequencesExt

CONSTANTS Drivers,    \* the names of the drivers
          TableOf,    \* their tables
          Known       \* <<driver, where, resource>>: the uses of what is not held
                      \* that these drivers do make, one by one

VARIABLES driver,     \* the driver under way
          state,      \* probing, undoing, bound, removing, releasing, failed, gone
          todo,       \* the steps left of the present state
          held,       \* the resources taken and not given back
          devres,     \* those the driver core will give back, in the order taken
          files,      \* the device files that somebody has open
          misuse,     \* history: the uses of what was not held
          early       \* history: probe failed while a file was open

vars == <<driver, state, todo, held, devres, files, misuse, early>>

Table == TableOf[driver]
FileKinds == {"device", "misc"}

\* What is used at a place without being held.
Missing(where, needs) == {<<driver, where, r>> : r \in needs \ held}

\* r is given back by the driver's own code: if it is on the core's list it
\* leaves it, unless the function called does not know of that list.
Forget(r) == IF r \in Range(devres) \ PutDirectly THEN SelectSeq(devres, LAMBDA x : x # r) ELSE devres

-----------------------------------------------------------------------------
Init == /\ driver \in Drivers
        /\ state = "probing" /\ todo = Table.probe
        /\ held = {} /\ devres = <<>> /\ files = {} /\ misuse = {} /\ early = FALSE

(***************************************************************************)
(* The next call of probe succeeds, or is refused without the driver        *)
(* noticing.                                                                *)
(***************************************************************************)
ProbeCall ==
  /\ state = "probing" /\ todo # <<>>
  /\ LET c == Head(todo)
         gets == {c.takes} \ {Nothing}
     IN /\ misuse' = misuse \cup Missing("probe", c.needs)
        /\ \/ held' = (held \cup gets) \ c.gives
           \/ c.fails = "ignored" /\ held' = held \ c.gives
        /\ devres' = IF c.managed /\ gets \subseteq held' THEN Append(devres, c.takes) ELSE devres
  /\ todo' = Tail(todo)
  /\ UNCHANGED <<driver, state, files, early>>

\* The next call is refused: the error path of probe begins.
ProbeRefused ==
  /\ state = "probing" /\ todo # <<>>
  /\ Head(todo).fails \in {"stop", "bound"}
  /\ misuse' = misuse \cup Missing("probe", Head(todo).needs)
  /\ state' = IF Head(todo).fails = "stop" THEN "undoing" ELSE "clearing"
  /\ todo' = Drops(Head(todo).undo)
  /\ early' = (early \/ files # {})
  /\ UNCHANGED <<driver, held, devres, files>>

Bound ==
  /\ state \in {"probing", "clearing"} /\ todo = <<>>
  /\ state' = "bound"
  /\ UNCHANGED <<driver, todo, held, devres, files, misuse, early>>

(***************************************************************************)
(* The next step of an error path or of remove.                             *)
(***************************************************************************)
StepBack ==
  /\ state \in {"undoing", "clearing", "removing"} /\ todo # <<>>
  /\ LET s == Head(todo)
         gone == {s.drops} \ {Nothing}
     IN /\ misuse' = misuse \cup Missing(state, s.needs \cup gone)
        /\ held' = held \ gone
        /\ devres' = Forget(s.drops)
  /\ todo' = Tail(todo)
  /\ UNCHANGED <<driver, state, files, early>>

\* The module is unloaded, which nobody can while a file of it is open.
Unload ==
  /\ state = "bound" /\ files = {}
  /\ state' = "removing" /\ todo' = Table.remove
  /\ UNCHANGED <<driver, held, devres, files, misuse, early>>

Release ==
  /\ state \in {"undoing", "removing"} /\ todo = <<>> /\ devres # <<>>
  /\ LET r == devres[Len(devres)]
     IN /\ misuse' = misuse \cup Missing("core", {r})
        /\ held' = held \ {r}
  /\ devres' = Front(devres)
  /\ UNCHANGED <<driver, state, todo, files, early>>

Done ==
  /\ state \in {"undoing", "removing"} /\ todo = <<>> /\ devres = <<>>
  /\ state' = IF state = "undoing" THEN "failed" ELSE "gone"
  /\ UNCHANGED <<driver, todo, held, devres, files, misuse, early>>

-----------------------------------------------------------------------------
(***************************************************************************)
(* The world outside.  A file can be opened from the moment its device      *)
(* exists until the module is on its way out; an attribute or an interrupt  *)
(* comes in as long as it exists.                                           *)
(***************************************************************************)
OpenFile(e) ==
  /\ e \in FileKinds \cap held \cap DOMAIN Table.calls
  /\ state \in {"probing", "bound"}
  /\ files' = files \cup {e}
  /\ UNCHANGED <<driver, state, todo, held, devres, misuse, early>>

CloseFile(e) ==
  /\ e \in files
  /\ files' = files \ {e}
  /\ UNCHANGED <<driver, state, todo, held, devres, misuse, early>>

Enter(e) ==
  /\ e \in DOMAIN Table.calls
  /\ e \in IF e \in FileKinds THEN files ELSE held
  /\ misuse' = misuse \cup Missing(e, Table.calls[e])
  /\ UNCHANGED <<driver, state, todo, held, devres, files, early>>

Next == \/ ProbeCall \/ ProbeRefused \/ Bound \/ StepBack \/ Unload \/ Release \/ Done
        \/ \E e \in DOMAIN Table.calls : OpenFile(e) \/ CloseFile(e) \/ Enter(e)

Spec == Init /\ [][Next]_vars

-----------------------------------------------------------------------------
Resources == {Table.probe[i].takes : i \in DOMAIN Table.probe} \ {Nothing}

TypeOK ==
  /\ driver \in Drivers
  /\ state \in {"probing", "undoing", "clearing", "bound", "removing", "failed", "gone"}
  /\ held \subseteq Resources
  /\ Range(devres) \subseteq Resources
  /\ files \subseteq FileKinds \cap DOMAIN Table.calls
  /\ early \in BOOLEAN

(***************************************************************************)
(* The error paths of probe and the remove functions, with the driver core  *)
(* behind them: after a probe that failed at any call, and after removal,   *)
(* nothing is left taken, but for the leaks that Known lists as "left".     *)
(***************************************************************************)
NothingLeaked ==
  state \in {"failed", "gone"} => \A r \in held : <<driver, "left", r>> \in Known

(***************************************************************************)
(* The order in which the drivers take, publish and give back: no call of   *)
(* probe or remove, no file, attribute or interrupt ever uses, and nobody   *)
(* gives back, what is not held.  Apart from the uses listed in Known, it   *)
(* can only happen through a file that was opened before probe failed.      *)
(***************************************************************************)
UsedWhileHeld ==
  \A m \in misuse \ Known : early /\ m[2] \in FileKinds

-----------------------------------------------------------------------------
(***************************************************************************)
(* The discipline that most of the tables keep, read off the table without  *)
(* running it: a driver whose table is Sound does nothing wrong in any      *)
(* order of failures, files, interrupts and removal.                        *)
(***************************************************************************)
CallType == [takes : STRING, managed : BOOLEAN, fails : {"stop", "bound", "never", "ignored"},
             needs : SUBSET STRING, undo : Seq(STRING), gives : SUBSET STRING]
StepType == [drops : STRING, needs : SUBSET STRING]

\* What the driver may have, and what it has for certain, after i calls of probe.
Stays(t, j, i) == t.probe[j].takes # Nothing /\ \A k \in j..i : t.probe[j].takes \notin t.probe[k].gives
May(t, i)  == {t.probe[j].takes : j \in {j \in 1..i : Stays(t, j, i)}}
Sure(t, i) == {t.probe[j].takes : j \in {j \in 1..i : Stays(t, j, i) /\ t.probe[j].fails # "ignored"}}

\* What the driver core gives back, of the first i calls.
Core(t, i) == {t.probe[j].takes : j \in {j \in 1..i : t.probe[j].managed}}

\* Whatever way in may be open, what lies behind it is there.
Covered(t, may, sure) == \A e \in may \cap DOMAIN t.calls : t.calls[e] \subseteq sure

(* After i calls of probe, the steps back use and give back what is there,  *)
(* close each way in first, and leave nothing but what the core gives back. *)
Dropped(back, k) == {back[j].drops : j \in 1..k} \ {Nothing}
WayBack(t, i, back) ==
  /\ \A k \in DOMAIN back :
       back[k].needs \cup ({back[k].drops} \ {Nothing}) \subseteq Sure(t, i) \ Dropped(back, k - 1)
  /\ \A k \in 0..Len(back) : Covered(t, May(t, i) \ Dropped(back, k), Sure(t, i) \ Dropped(back, k))
  /\ Dropped(back, Len(back)) \cap Core(t, i) = {}
  /\ May(t, i) \ Dropped(back, Len(back)) \subseteq Core(t, i)

Sound(t) ==
  LET calls == DOMAIN t.probe IN
  /\ t.probe \in Seq(CallType) /\ t.remove \in Seq(StepType)
  /\ \A i, j \in calls : t.probe[i].takes = t.probe[j].takes => i = j \/ t.probe[i].takes = Nothing
  /\ \A i \in calls : t.probe[i].managed => t.probe[i].takes # Nothing
  /\ \A i \in calls : t.probe[i].gives \cap (Core(t, Len(t.probe)) \cup FileKinds) = {}
  /\ \A i \in calls : t.probe[i].needs \subseteq Sure(t, i - 1)
  /\ \A i \in 0..Len(t.probe) : Covered(t, May(t, i), Sure(t, i))
  /\ \A i \in calls : t.probe[i].managed /\ t.probe[i].takes \in DOMAIN t.calls =>
       t.calls[t.probe[i].takes] \subseteq Core(t, i - 1) \cap Sure(t, i - 1)
  /\ \A i \in calls : t.probe[i].fails # "bound"
  /\ \A i \in calls : t.probe[i].fails = "stop" => WayBack(t, i - 1, Drops(t.probe[i].undo))
  /\ WayBack(t, Len(t.probe), t.remove)
=============================================================================
