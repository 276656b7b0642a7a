--------------------------- MODULE MbStackProofs ---------------------------
(***************************************************************************)
(* The handler table of MbStack, for every size of the table and every set *)
(* of codes and handlers, and the life cycle of the stack.                 *)
(***************************************************************************)
EXTENDS MbStack, TLAPS

----------------------------------------------------------------------------
(* The inductive invariant of the table.                                   *)

Code(i) == xFuncHandlers[i].code
Handler(i) == xFuncHandlers[i].handler

\* A slot in use holds the handler installed for its code.
Sound == \A i \in Slots : Code(i) # 0 => installed[Code(i)] = Handler(i)

\* No two slots hold the same code.
Distinct == \A i, j \in Slots : i # j /\ Code(i) # 0 => Code(i) # Code(j)

\* An installed handler is in the table.
Complete == \A c \in Codes : installed[c] # None => \E i \in Slots : Code(i) = c

TableInv == TypeOK /\ Sound /\ Distinct /\ Complete

----------------------------------------------------------------------------
(* Lemmas.                                                                 *)

(* A slot is in use or empty; its code is a number.                        *)
LEMMA SlotIs ==
  ASSUME TypeOK, NEW i \in Slots
  PROVE  /\ Code(i) = 0 => Handler(i) = None
         /\ Code(i) # 0 => Code(i) \in Codes /\ Handler(i) \in Handlers /\ Handler(i) # None
BY StackAssumption DEF TypeOK, Entry, Empty, Code, Handler

(* What the search of eMBPoll returns when a slot holds the code and no    *)
(* slot before it is empty or holds the code, and otherwise.               *)
LEMMA LookupIs ==
  ASSUME TypeOK, NEW c \in Codes
  PROVE  \/ Lookup(c) = None
         \/ \E i \in Slots : Code(i) = c /\ Lookup(c) = Handler(i)
<1> DEFINE last == FirstOf({i \in Slots : xFuncHandlers[i].code \in {0, c}})
<1>1. CASE \E i \in last : xFuncHandlers[i].code = c
  <2>1. PICK i \in last : xFuncHandlers[i].code = c BY <1>1
  <2>2. i \in Slots BY DEF FirstOf
  <2>3. \A j \in last : j = i BY StackAssumption DEF FirstOf, Slots
  <2>4. (CHOOSE j \in last : TRUE) = i BY <2>3
  <2> HIDE DEF last
  <2>5. Lookup(c) = xFuncHandlers[i].handler BY <1>1, <2>4 DEF Lookup, last
  <2> QED BY <2>1, <2>2, <2>5 DEF Code, Handler
<1>2. CASE ~ \E i \in last : xFuncHandlers[i].code = c BY <1>2 DEF Lookup
<1> QED BY <1>1, <1>2

(* A code that a slot of a compact table holds is found.                   *)
LEMMA LookupFinds ==
  ASSUME TypeOK, Distinct, Compact, NEW c \in Codes, NEW i \in Slots, Code(i) = c
  PROVE  Lookup(c) = Handler(i)
<1> DEFINE hits == {j \in Slots : xFuncHandlers[j].code \in {0, c}}
<1>1. c # 0 BY StackAssumption
<1>2. i \in hits BY DEF Code
<1>3. ASSUME NEW j \in hits PROVE i <= j
  <2>1. j \in Slots /\ i \in Int /\ j \in Int BY StackAssumption DEF Slots
  <2>2. CASE Code(j) = 0
    <3>1. ~(j < i) BY <1>1, <2>1, <2>2 DEF Compact, Code
    <3> QED BY <2>1, <3>1
  <2>3. CASE Code(j) = c
    <3>1. j = i BY <1>1, <2>1, <2>3 DEF Distinct
    <3> QED BY <2>1, <3>1
  <2> QED BY <2>2, <2>3 DEF Code
<1>4. i \in FirstOf(hits) BY <1>2, <1>3 DEF FirstOf
<1>5. \A j \in FirstOf(hits) : j = i
  <2> SUFFICES ASSUME NEW j \in FirstOf(hits) PROVE j = i OBVIOUS
  <2>1. i <= j /\ j <= i BY <1>2, <1>4 DEF FirstOf
  <2>2. i \in Int /\ j \in Int BY StackAssumption DEF FirstOf, Slots
  <2> QED BY <2>1, <2>2
<1>6. (CHOOSE j \in FirstOf(hits) : TRUE) = i BY <1>4, <1>5
<1> HIDE DEF hits
<1>7. xFuncHandlers[i].code = c BY DEF Code
<1> QED BY <1>4, <1>6, <1>7 DEF Lookup, Handler, hits

(* Initially the table is the built-in one.                                *)
LEMMA InitTable == ASSUME Init PROVE TableInv
<1> USE StackAssumption
<1>1. Len(BuiltIn) \in Nat /\ DOMAIN BuiltIn = 1..Len(BuiltIn)
      /\ \A i \in DOMAIN BuiltIn : BuiltIn[i] \in Entry /\ i \in Slots
  BY DEF Slots
<1>2. \A i \in Slots : /\ i \in DOMAIN BuiltIn => xFuncHandlers[i] = BuiltIn[i]
                       /\ i \notin DOMAIN BuiltIn => xFuncHandlers[i] = Empty
  BY <1>1 DEF Init, Slots
<1>3. \A i \in DOMAIN BuiltIn : BuiltIn[i].code \in Codes /\ BuiltIn[i].code # 0
                                /\ BuiltIn[i].handler \in Handlers
  BY <1>1 DEF Entry
<1>4. \A i \in Slots : Code(i) # 0 => i \in DOMAIN BuiltIn BY <1>2 DEF Code, Empty
<1>5. ASSUME NEW i \in DOMAIN BuiltIn
      PROVE  installed[BuiltIn[i].code] = BuiltIn[i].handler
  <2> DEFINE c == BuiltIn[i].code
  <2>1. \A j \in DOMAIN BuiltIn : BuiltIn[j].code = c => j = i OBVIOUS
  <2>2. (CHOOSE j \in DOMAIN BuiltIn : BuiltIn[j].code = c) = i BY <2>1
  <2>3. c \in Codes BY <1>3
  <2> QED BY <2>2, <2>3 DEF Init
<1>6. TypeOK
  <2>1. xFuncHandlers \in [Slots -> Entry \cup {Empty}] BY <1>1 DEF Init, Slots
  <2>2. installed \in [Codes -> Handlers \cup {None}]
    <3> SUFFICES ASSUME NEW c \in Codes PROVE installed[c] \in Handlers \cup {None}
      BY DEF Init
    <3>1. CASE \E i \in DOMAIN BuiltIn : BuiltIn[i].code = c BY <1>3, <1>5, <3>1
    <3>2. CASE ~ \E i \in DOMAIN BuiltIn : BuiltIn[i].code = c BY <3>2 DEF Init
    <3> QED BY <3>1, <3>2
  <2> QED BY <2>1, <2>2 DEF Init, TypeOK
<1>7. Sound BY <1>2, <1>4, <1>5 DEF Sound, Code, Handler
<1>8. Distinct
  <2> SUFFICES ASSUME NEW i \in Slots, NEW j \in Slots, i # j, Code(i) # 0, Code(i) = Code(j)
               PROVE  FALSE
    BY DEF Distinct
  <2>1. i \in DOMAIN BuiltIn /\ j \in DOMAIN BuiltIn BY <1>4
  <2> QED BY <1>2, <2>1 DEF Code
<1>9. Complete
  <2> SUFFICES ASSUME NEW c \in Codes, installed[c] # None
               PROVE  \E i \in Slots : Code(i) = c
    BY DEF Complete
  <2>1. PICK i \in DOMAIN BuiltIn : BuiltIn[i].code = c BY DEF Init
  <2> QED BY <1>1, <1>2, <2>1 DEF Code
<1> QED BY <1>6, <1>7, <1>8, <1>9 DEF TableInv

(* A caller that installs only new codes and handlers writes an empty slot.*)
LEMMA InstallStep ==
  ASSUME ~Overrides, TableInv, NEW c \in Codes, NEW h \in Handlers, Install(c, h)
  PROVE  \/ UNCHANGED <<xFuncHandlers, installed>>
         \/ /\ installed[c] = None
            /\ installed' = [installed EXCEPT ![c] = h]
            /\ \E i \in Slots :
                 /\ Code(i) = 0
                 /\ xFuncHandlers' = [xFuncHandlers EXCEPT ![i] = [code |-> c, handler |-> h]]
<1>1. CASE Free(h) = {} BY <1>1 DEF Install, FirstOf
<1>2. CASE Free(h) # {}
  <2>1. PICK i \in FirstOf(Free(h)) :
           xFuncHandlers' = [xFuncHandlers EXCEPT ![i] = [code |-> c, handler |-> h]]
    BY <1>2 DEF Install
  <2>2. i \in Slots /\ Handler(i) \in {None, h} BY DEF FirstOf, Free, Handler
  <2>3. Handler(i) # h BY <2>2 DEF Install, Handler
  <2>4. Code(i) = 0 BY <2>2, <2>3, SlotIs DEF TableInv
  <2>5. installed[c] = None /\ installed' = [installed EXCEPT ![c] = h]
    BY <1>2 DEF Install
  <2> QED BY <2>1, <2>2, <2>4, <2>5
<1> QED BY <1>1, <1>2

(* A removal empties the one slot that holds the code.                     *)
LEMMA RemoveStep ==
  ASSUME TableInv, NEW c \in Codes, Remove(c)
  PROVE  /\ installed' = [installed EXCEPT ![c] = None]
         /\ \A i \in Slots : Code(i)' = IF Code(i) = c THEN 0 ELSE Code(i)
         /\ \A i \in Slots : Code(i) # c => Handler(i)' = Handler(i)
         /\ xFuncHandlers' \in [Slots -> Entry \cup {Empty}]
<1> DEFINE hits == {i \in Slots : xFuncHandlers[i].code = c}
<1>0. xFuncHandlers \in [Slots -> Entry \cup {Empty}] BY DEF TableInv, TypeOK
<1>1. installed' = [installed EXCEPT ![c] = None] BY DEF Remove
<1>2. c # 0 BY StackAssumption
<1>3. CASE hits = {} /\ UNCHANGED xFuncHandlers BY <1>0, <1>1, <1>3 DEF Code, Handler
<1>4. CASE \E i \in FirstOf(hits) : xFuncHandlers' = Removed(i)
  <2>1. PICK i \in FirstOf(hits) : xFuncHandlers' = [xFuncHandlers EXCEPT ![i] = Empty]
    BY <1>4 DEF Removed
  <2>2. i \in Slots /\ Code(i) = c BY DEF FirstOf, Code
  <2>3. \A j \in Slots : Code(j) = c => j = i BY <1>2, <2>2 DEF TableInv, Distinct
  <2>4. /\ xFuncHandlers'[i] = Empty
        /\ \A j \in Slots : j # i => xFuncHandlers'[j] = xFuncHandlers[j]
    BY <1>0, <2>1, <2>2
  <2>5. xFuncHandlers' \in [Slots -> Entry \cup {Empty}] BY <1>0, <2>1
  <2>6. Code(i)' = 0 BY <2>4 DEF Code, Empty
  <2>7. \A j \in Slots : j # i => Code(j)' = Code(j) /\ Handler(j)' = Handler(j)
    BY <2>4 DEF Code, Handler
  <2> QED BY <1>1, <2>2, <2>3, <2>5, <2>6, <2>7
<1> QED BY <1>3, <1>4 DEF Remove

----------------------------------------------------------------------------
(* The steps.                                                              *)

(* Every operation but the registration leaves the table alone.            *)
LEMMA OtherStep ==
  ASSUME [Next]_vars
  PROVE  \/ \E c \in Codes, h \in Handlers : Install(c, h)
         \/ \E c \in Codes : Remove(c)
         \/ UNCHANGED <<xFuncHandlers, installed>>
BY DEF Next, vars, eMBInit, eMBTCPInit, eMBEnable, eMBDisable, eMBClose, BadRegister, eMBSetSlaveID

(* Every step keeps the types.                                             *)
LEMMA TypeStep == ASSUME TypeOK, [Next]_vars PROVE TypeOK'
<1> USE StackAssumption
<1> DEFINE LifeType ==
             /\ eMBState \in {"ENABLED", "DISABLED", "NOT_INITIALIZED"}
             /\ {frame, eMBCurrentMode, started} \subseteq Modes \cup {"unset"}
             /\ ports \subseteq Modes
             /\ usMBSlaveIDLen \in 0..MB_FUNC_OTHER_REP_SLAVEID_BUF
           TableType ==
             /\ xFuncHandlers \in [Slots -> Entry \cup {Empty}]
             /\ installed \in [Codes -> Handlers \cup {None}]
<1>1. LifeType'
  <2>1. CASE UNCHANGED vars BY <2>1 DEF TypeOK, vars
  <2>2. ASSUME NEW m \in SerialModes, NEW a, NEW p, eMBInit(m, a, p) PROVE LifeType'
    BY <2>2 DEF eMBInit, life, TypeOK, Modes
  <2>3. CASE eMBTCPInit BY <2>3 DEF eMBTCPInit, TypeOK, Modes
  <2>4. CASE eMBEnable BY <2>4 DEF eMBEnable, TypeOK
  <2>5. CASE eMBDisable BY <2>5 DEF eMBDisable, TypeOK
  <2>6. CASE eMBClose \/ BadRegister \/ (\E c \in Codes : Remove(c))
             \/ \E c \in Codes, h \in Handlers : Install(c, h)
    <3>1. UNCHANGED <<usMBSlaveIDLen, frame, eMBCurrentMode, ports>>
      BY <2>6 DEF eMBClose, BadRegister, Remove, Install, life
    <3>2. UNCHANGED <<eMBState, started>> \/ (UNCHANGED started /\ eMBState' = "NOT_INITIALIZED")
      BY <2>6 DEF eMBClose, BadRegister, Remove, Install, life
    <3> QED BY <3>1, <3>2 DEF TypeOK
  <2>7. ASSUME NEW len \in IdLengths, eMBSetSlaveID(len) PROVE LifeType'
    <3>1. len \in Nat OBVIOUS
    <3>2. usMBSlaveIDLen' \in 0..MB_FUNC_OTHER_REP_SLAVEID_BUF
      BY <2>7, <3>1 DEF eMBSetSlaveID, TypeOK
    <3> QED BY <2>7, <3>2 DEF eMBSetSlaveID, life, TypeOK
  <2> QED BY <2>1, <2>2, <2>3, <2>4, <2>5, <2>6, <2>7 DEF Next
<1>2. TableType'
  <2>1. CASE UNCHANGED <<xFuncHandlers, installed>> BY <2>1 DEF TypeOK
  <2>2. ASSUME NEW c \in Codes, NEW h \in Handlers, Install(c, h) PROVE TableType'
    <3>1. [code |-> c, handler |-> h] \in Entry BY DEF Entry
    <3> QED BY <2>2, <3>1 DEF Install, TypeOK
  <2>3. ASSUME NEW c \in Codes, Remove(c) PROVE TableType'
    BY <2>3 DEF Remove, Removed, TypeOK
  <2> QED BY <2>1, <2>2, <2>3, OtherStep
<1> QED BY <1>1, <1>2 DEF TypeOK

(* A caller that registers new codes and handlers only keeps the table     *)
(* sound.                                                                  *)
LEMMA TableStep == ASSUME ~Overrides, TableInv, [Next]_vars PROVE TableInv'
<1> USE StackAssumption
<1>1. TypeOK' BY TypeStep DEF TableInv
<1>2. CASE UNCHANGED <<xFuncHandlers, installed>>
  BY <1>1, <1>2 DEF TableInv, Sound, Distinct, Complete, Code, Handler
<1>3. ASSUME NEW c \in Codes, NEW h \in Handlers, Install(c, h) PROVE TableInv'
  <2>1. CASE UNCHANGED <<xFuncHandlers, installed>> BY <1>2, <2>1
  <2>2. CASE /\ installed[c] = None
             /\ installed' = [installed EXCEPT ![c] = h]
             /\ \E i \in Slots :
                  /\ Code(i) = 0
                  /\ xFuncHandlers' = [xFuncHandlers EXCEPT ![i] = [code |-> c, handler |-> h]]
    <3>1. PICK i \in Slots :
             /\ Code(i) = 0
             /\ xFuncHandlers' = [xFuncHandlers EXCEPT ![i] = [code |-> c, handler |-> h]]
      BY <2>2
    <3>2. /\ Code(i)' = c /\ Handler(i)' = h
          /\ \A j \in Slots : j # i => Code(j)' = Code(j) /\ Handler(j)' = Handler(j)
      BY <3>1 DEF TableInv, TypeOK, Code, Handler
    <3>3. installed'[c] = h /\ \A d \in Codes : d # c => installed'[d] = installed[d]
      BY <2>2 DEF TableInv, TypeOK
    <3>4. \A j \in Slots : Code(j) # c
      <4> SUFFICES ASSUME NEW j \in Slots, Code(j) = c PROVE FALSE OBVIOUS
      <4>1. Code(j) # 0 OBVIOUS
      <4>2. Handler(j) # None BY <4>1, SlotIs DEF TableInv
      <4>3. installed[c] = Handler(j) BY <4>1 DEF TableInv, Sound
      <4> QED BY <2>2, <4>2, <4>3
    <3>5. Sound'
      <4> SUFFICES ASSUME NEW j \in Slots, Code(j)' # 0
                   PROVE  installed'[Code(j)'] = Handler(j)'
        BY DEF Sound
      <4>1. CASE j = i BY <3>2, <3>3, <4>1
      <4>2. CASE j # i
        <5>1. Code(j)' = Code(j) /\ Handler(j)' = Handler(j) BY <3>2, <4>2
        <5>2. Code(j) \in Codes /\ Code(j) # c BY <3>4, <5>1, SlotIs DEF TableInv
        <5>3. installed[Code(j)] = Handler(j) BY <5>1 DEF TableInv, Sound
        <5> QED BY <3>3, <5>1, <5>2, <5>3
      <4> QED BY <4>1, <4>2
    <3>6. Distinct' BY <3>2, <3>4 DEF TableInv, Distinct
    <3>7. Complete'
      <4> SUFFICES ASSUME NEW d \in Codes, installed'[d] # None
                   PROVE  \E j \in Slots : Code(j)' = d
        BY DEF Complete
      <4>1. CASE d = c BY <3>2, <4>1
      <4>2. CASE d # c
        <5>1. PICK j \in Slots : Code(j) = d BY <3>3, <4>2 DEF TableInv, Complete
        <5>2. j # i BY <3>1, <5>1
        <5> QED BY <3>2, <5>1, <5>2
      <4> QED BY <4>1, <4>2
    <3> QED BY <1>1, <3>5, <3>6, <3>7 DEF TableInv
  <2> QED BY <1>3, <2>1, <2>2, InstallStep
<1>4. ASSUME NEW c \in Codes, Remove(c) PROVE TableInv'
  <2>1. /\ installed' = [installed EXCEPT ![c] = None]
        /\ \A i \in Slots : Code(i)' = IF Code(i) = c THEN 0 ELSE Code(i)
        /\ \A i \in Slots : Code(i) # c => Handler(i)' = Handler(i)
    BY <1>4, RemoveStep
  <2>2. Sound'
    <3> SUFFICES ASSUME NEW i \in Slots, Code(i)' # 0
                 PROVE  installed'[Code(i)'] = Handler(i)'
      BY DEF Sound
    <3>1. Code(i) # c /\ Code(i)' = Code(i) /\ Handler(i)' = Handler(i) BY <2>1
    <3>2. Code(i) \in Codes BY <3>1, SlotIs DEF TableInv
    <3>3. installed'[Code(i)] = installed[Code(i)] BY <2>1, <3>1, <3>2 DEF TableInv, TypeOK
    <3>4. installed[Code(i)] = Handler(i) BY <3>1 DEF TableInv, Sound
    <3> QED BY <3>1, <3>3, <3>4
  <2>3. Distinct' BY <2>1 DEF TableInv, Distinct
  <2>4. Complete'
    <3> SUFFICES ASSUME NEW d \in Codes, installed'[d] # None
                 PROVE  \E j \in Slots : Code(j)' = d
      BY DEF Complete
    <3>1. d # c /\ installed[d] # None BY <2>1 DEF TableInv, TypeOK
    <3>2. PICK j \in Slots : Code(j) = d BY <3>1 DEF TableInv, Complete
    <3> QED BY <2>1, <3>1, <3>2
  <2> QED BY <1>1, <2>2, <2>3, <2>4 DEF TableInv
<1> QED BY <1>2, <1>3, <1>4, OtherStep

----------------------------------------------------------------------------
(* The life cycle.                                                         *)

(* From the first initialisation that succeeds on, the pointers are those  *)
(* of the current mode, whose port is initialised; an enabled stack has    *)
(* started that mode.  An initialisation that fails also sets the          *)
(* pointers, so this needs that nobody initialises a second time.          *)
LifeInv ==
  /\ eMBState \in {"ENABLED", "DISABLED", "NOT_INITIALIZED"}
  /\ eMBState # "NOT_INITIALIZED" => frame \in ports /\ eMBCurrentMode = frame
  /\ eMBState = "ENABLED" => started = frame

(* Every operation of a caller that initialises once keeps it.             *)
LEMMA LifeStep == ASSUME ~Reinits, LifeInv, [Next]_vars PROVE LifeInv'
<1>1. ASSUME NEW m \in SerialModes, NEW a \in BOOLEAN, NEW p \in BOOLEAN, eMBInit(m, a, p)
      PROVE  LifeInv'
  <2>1. eMBState = "NOT_INITIALIZED" BY <1>1 DEF eMBInit, MayInit
  <2>2. CASE ~a BY <1>1, <2>2 DEF eMBInit, life, LifeInv
  <2>3. CASE a /\ p BY <1>1, <2>3 DEF eMBInit, LifeInv
  <2>4. CASE a /\ ~p BY <1>1, <2>1, <2>4 DEF eMBInit, LifeInv
  <2> QED BY <2>2, <2>3, <2>4
<1>2. CASE eMBTCPInit BY <1>2 DEF eMBTCPInit, LifeInv
<1>3. CASE eMBEnable BY <1>3 DEF eMBEnable, LifeInv
<1>4. CASE eMBDisable BY <1>4 DEF eMBDisable, LifeInv
<1>5. CASE eMBClose \/ BadRegister BY <1>5 DEF eMBClose, BadRegister, life, LifeInv
<1>6. ASSUME NEW c \in Codes, Remove(c) \/ \E h \in Handlers : Install(c, h) PROVE LifeInv'
  BY <1>6 DEF Remove, Install, life, LifeInv
<1>7. ASSUME NEW len \in IdLengths, eMBSetSlaveID(len) PROVE LifeInv'
  BY <1>7 DEF eMBSetSlaveID, life, LifeInv
<1>8. CASE UNCHANGED vars BY <1>8 DEF vars, LifeInv
<1> QED BY <1>1, <1>2, <1>3, <1>4, <1>5, <1>6, <1>7, <1>8 DEF Next

----------------------------------------------------------------------------
(* The theorems.                                                           *)

(* Whatever order a caller that initialises once enables, disables, closes *)
(* and retries failed initialisations in: an enabled stack runs the mode   *)
(* its pointers belong to, over a port that was initialised, so that no    *)
(* pointer eMBPoll or eMBDisable calls is NULL or another mode's.          *)
THEOREM EnabledStackIsInitialised == ASSUME ~Reinits PROVE Spec => []EnabledIsInitialised
<1>1. Init => LifeInv BY DEF Init, LifeInv
<1>2. LifeInv /\ [Next]_vars => LifeInv' BY LifeStep
<1>3. LifeInv => EnabledIsInitialised BY DEF LifeInv, EnabledIsInitialised
<1> QED BY <1>1, <1>2, <1>3, PTL DEF Spec

(* Every variable keeps its type, whatever the caller does.                *)
THEOREM TypeCorrect == Spec => []TypeOK
<1>1. Init => TypeOK BY InitTable DEF TableInv
<1>2. TypeOK /\ [Next]_vars => TypeOK' BY TypeStep
<1> QED BY <1>1, <1>2, PTL DEF Spec

(* A caller that registers no code or handler twice may remove handlers    *)
(* as it likes: eMBPoll never calls another handler than the installed one.*)
THEOREM NeverAnotherHandler == ASSUME ~Overrides PROVE Spec => []NeverAnother
<1>1. Init => TableInv BY InitTable
<1>2. TableInv /\ [Next]_vars => TableInv' BY TableStep
<1>3. TableInv => NeverAnother
  <2> SUFFICES ASSUME TableInv, NEW c \in Codes PROVE Lookup(c) \in {None, installed[c]}
    BY DEF NeverAnother
  <2>1. CASE Lookup(c) = None BY <2>1
  <2>2. CASE \E i \in Slots : Code(i) = c /\ Lookup(c) = Handler(i)
    <3>1. PICK i \in Slots : Code(i) = c /\ Lookup(c) = Handler(i) BY <2>2
    <3>2. c # 0 BY StackAssumption
    <3> QED BY <3>1, <3>2 DEF TableInv, Sound
  <2> QED BY <2>1, <2>2, LookupIs DEF TableInv
<1> QED BY <1>1, <1>2, <1>3, PTL DEF Spec

(* As long as such a caller's table has no hole, every installed handler   *)
(* is called, and a code without a handler gets an exception.              *)
THEOREM InstalledHandlersAreCalled == ASSUME ~Overrides PROVE Spec => []CalledUnlessHole
<1>1. Init => TableInv BY InitTable
<1>2. TableInv /\ [Next]_vars => TableInv' BY TableStep
<1>3. TableInv => CalledUnlessHole
  <2> SUFFICES ASSUME TableInv, Compact, NEW c \in Codes PROVE Lookup(c) = installed[c]
    BY DEF CalledUnlessHole, InstalledIsCalled
  <2>0. c # 0 BY StackAssumption
  <2>1. CASE \E i \in Slots : Code(i) = c
    <3>1. PICK i \in Slots : Code(i) = c BY <2>1
    <3>2. Lookup(c) = Handler(i) BY <3>1, LookupFinds DEF TableInv
    <3>3. installed[c] = Handler(i) BY <2>0, <3>1 DEF TableInv, Sound
    <3> QED BY <3>2, <3>3
  <2>2. CASE ~ \E i \in Slots : Code(i) = c
    <3>1. Lookup(c) = None BY <2>2, LookupIs DEF TableInv
    <3>2. installed[c] = None BY <2>2 DEF TableInv, Complete
    <3> QED BY <3>1, <3>2
  <2> QED BY <2>1, <2>2
<1> QED BY <1>1, <1>2, <1>3, PTL DEF Spec
============================================================================
