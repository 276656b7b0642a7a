------------------------------ MODULE MbStack ------------------------------
(***************************************************************************)
(* The interface of the Modbus stack (ch04-13/modbus_s, freemodbus/mb.c):  *)
(* the life cycle INIT - ENABLE - DISABLE - CLOSE, the pointers to the     *)
(* functions of the transmission mode, the table of function handlers that *)
(* eMBPoll searches, and the slave identification of mbfuncother.c.        *)
(*                                                                         *)
(* Every operation is called by one thread.  What the caller does is       *)
(* limited by three constants, so that a run can state the discipline      *)
(* under which a property holds.                                           *)
(***************************************************************************)
EXTENDS Integers, Sequences

CONSTANTS
  MB_FUNC_HANDLERS_MAX,
  MB_FUNC_OTHER_REP_SLAVEID_BUF,
  Codes,         \* valid function codes the caller and the masters use
  BadCodes,      \* codes that are not valid
  Handlers,      \* handlers, compared by their address
  None,          \* NULL
  BuiltIn,       \* the initial table
  IdLengths,     \* lengths of the additional data of the identification
  Removes,       \* the caller may remove handlers
  Overrides,     \* the caller may register a code or a handler a second time
  Reinits        \* the caller may initialise an initialised stack

Slots == 1..MB_FUNC_HANDLERS_MAX
Entry == [code : Codes, handler : Handlers]
Empty == [code |-> 0, handler |-> None]

ASSUME StackAssumption ==
  /\ MB_FUNC_HANDLERS_MAX \in Nat /\ MB_FUNC_OTHER_REP_SLAVEID_BUF \in Nat
  /\ Codes \subseteq 1..127 /\ BadCodes \cap 1..127 = {}
  /\ None \notin Handlers
  /\ IdLengths \subseteq Nat
  /\ {Removes, Overrides, Reinits} \subseteq BOOLEAN
  /\ BuiltIn \in Seq(Entry) /\ Len(BuiltIn) <= MB_FUNC_HANDLERS_MAX
  /\ \A i, j \in DOMAIN BuiltIn :
       i # j => BuiltIn[i].code # BuiltIn[j].code /\ BuiltIn[i].handler # BuiltIn[j].handler

SerialModes == {"RTU", "ASCII"}
Modes == SerialModes \cup {"TCP"}

VARIABLES
  eMBState,
  frame,          \* the mode the function pointers belong to, or "unset"
  eMBCurrentMode,
  ports,          \* modes whose port is initialised
  started,        \* the mode whose pvMBFrameStart has run last, or "unset"
  xFuncHandlers,
  usMBSlaveIDLen,
  ret,            \* what the last operation returned
  installed       \* history: the handler the caller was told is installed for a code

vars == <<eMBState, frame, eMBCurrentMode, ports, started, xFuncHandlers, usMBSlaveIDLen,
          ret, installed>>
life == <<eMBState, frame, eMBCurrentMode, ports, started>>

Init ==
  /\ eMBState = "NOT_INITIALIZED" /\ frame = "unset" /\ eMBCurrentMode = "unset"
  /\ ports = {} /\ started = "unset"
  /\ xFuncHandlers = [i \in Slots |-> IF i <= Len(BuiltIn) THEN BuiltIn[i] ELSE Empty]
  /\ usMBSlaveIDLen = 0
  /\ ret = "MB_ENOERR"
  /\ installed = [c \in Codes |->
       IF \E i \in DOMAIN BuiltIn : BuiltIn[i].code = c
       THEN BuiltIn[CHOOSE i \in DOMAIN BuiltIn : BuiltIn[i].code = c].handler ELSE None]

----------------------------------------------------------------------------
(* The life cycle.                                                         *)

MayInit == Reinits \/ eMBState = "NOT_INITIALIZED"

(* The pointers are set before the port is tried: the serial device may    *)
(* fail to open.                                                           *)
eMBInit(mode, addressOk, portOk) ==
  /\ MayInit
  /\ \/ /\ ~addressOk
        /\ ret' = "MB_EINVAL"
        /\ UNCHANGED life
     \/ /\ addressOk
        /\ frame' = mode
        /\ \/ /\ portOk
              /\ ports' = ports \cup {mode}
              /\ eMBCurrentMode' = mode /\ eMBState' = "DISABLED"
              /\ ret' = "MB_ENOERR"
           \/ /\ ~portOk
              /\ ret' = "MB_EPORTERR"
              /\ UNCHANGED <<ports, eMBCurrentMode, eMBState>>
        /\ UNCHANGED started
  /\ UNCHANGED <<xFuncHandlers, usMBSlaveIDLen, installed>>

(* xMBTCPPortInit and xMBPortEventInit of this port do not fail.           *)
eMBTCPInit ==
  /\ MayInit
  /\ ports' = ports \cup {"TCP"}
  /\ frame' = "TCP" /\ eMBCurrentMode' = "TCP" /\ eMBState' = "DISABLED"
  /\ ret' = "MB_ENOERR"
  /\ UNCHANGED <<started, xFuncHandlers, usMBSlaveIDLen, installed>>

eMBEnable ==
  /\ \/ /\ eMBState = "DISABLED"
        /\ started' = frame /\ eMBState' = "ENABLED"
        /\ ret' = "MB_ENOERR"
     \/ /\ eMBState # "DISABLED"
        /\ ret' = "MB_EILLSTATE"
        /\ UNCHANGED <<started, eMBState>>
  /\ UNCHANGED <<frame, eMBCurrentMode, ports, xFuncHandlers, usMBSlaveIDLen, installed>>

eMBDisable ==
  /\ \/ /\ eMBState = "ENABLED"
        /\ eMBState' = "DISABLED"
        /\ started' = IF started = frame THEN "unset" ELSE started
        /\ ret' = "MB_ENOERR"
     \/ /\ eMBState = "DISABLED"
        /\ ret' = "MB_ENOERR"
        /\ UNCHANGED <<eMBState, started>>
     \/ /\ eMBState = "NOT_INITIALIZED"
        /\ ret' = "MB_EILLSTATE"
        /\ UNCHANGED <<eMBState, started>>
  /\ UNCHANGED <<frame, eMBCurrentMode, ports, xFuncHandlers, usMBSlaveIDLen, installed>>

(* MB_PORT_HAS_CLOSE is 0: no close function is set, none is called.       *)
eMBClose ==
  /\ ret' = IF eMBState = "DISABLED" THEN "MB_ENOERR" ELSE "MB_EILLSTATE"
  /\ UNCHANGED <<life, xFuncHandlers, usMBSlaveIDLen, installed>>

----------------------------------------------------------------------------
(* The table of handlers.                                                  *)

(* The least element of a set of slots, as a set.                          *)
FirstOf(S) == {i \in S : \A j \in S : i <= j}

(* The slots eMBRegisterCB may write.                                      *)
Free(h) == {i \in Slots : xFuncHandlers[i].handler \in {None, h}}

(* Mutant: the gap is closed, but the last slot is left as it was.         *)
Removed_Shift(i) ==
  [j \in Slots |-> IF j >= i /\ j < MB_FUNC_HANDLERS_MAX THEN xFuncHandlers[j + 1]
                   ELSE xFuncHandlers[j]]

Removed(i) == [xFuncHandlers EXCEPT ![i] = Empty]

Install(code, h) ==
  /\ Overrides \/ (installed[code] = None /\ \A i \in Slots : xFuncHandlers[i].handler # h)
  /\ \/ /\ Free(h) = {}
        /\ ret' = "MB_ENORES"
        /\ UNCHANGED <<xFuncHandlers, installed>>
     \/ /\ \E i \in FirstOf(Free(h)) :
             xFuncHandlers' = [xFuncHandlers EXCEPT ![i] = [code |-> code, handler |-> h]]
        /\ ret' = "MB_ENOERR"
        /\ installed' = [installed EXCEPT ![code] = h]
  /\ UNCHANGED <<life, usMBSlaveIDLen>>

Remove(code) ==
  LET hits == {i \in Slots : xFuncHandlers[i].code = code} IN
  /\ Removes
  /\ \/ hits = {} /\ UNCHANGED xFuncHandlers
     \/ \E i \in FirstOf(hits) : xFuncHandlers' = Removed(i)
  /\ ret' = "MB_ENOERR"
  /\ installed' = [installed EXCEPT ![code] = None]
  /\ UNCHANGED <<life, usMBSlaveIDLen>>

BadRegister ==
  /\ BadCodes # {}
  /\ ret' = "MB_EINVAL"
  /\ UNCHANGED <<life, xFuncHandlers, usMBSlaveIDLen, installed>>

(* Mutant: the search leaves out the last slot.                            *)
Lookup_Short(code) ==
  LET last == FirstOf({i \in Slots : xFuncHandlers[i].code \in {0, code}}) IN
  IF \E i \in last : i < MB_FUNC_HANDLERS_MAX /\ xFuncHandlers[i].code = code
  THEN xFuncHandlers[CHOOSE i \in last : TRUE].handler
  ELSE None

(* The handler eMBPoll calls for a code, None for the exception ILLEGAL    *)
(* FUNCTION: the search ends at the first slot that is empty.              *)
Lookup(code) ==
  LET last == FirstOf({i \in Slots : xFuncHandlers[i].code \in {0, code}}) IN
  IF \E i \in last : xFuncHandlers[i].code = code
  THEN xFuncHandlers[CHOOSE i \in last : TRUE].handler
  ELSE None

----------------------------------------------------------------------------
(* mbfuncother.c                                                           *)

eMBSetSlaveID(len) ==
  /\ \/ /\ len + 2 < MB_FUNC_OTHER_REP_SLAVEID_BUF
        /\ ret' = "MB_ENOERR" /\ usMBSlaveIDLen' = len + 2
     \/ /\ len + 2 >= MB_FUNC_OTHER_REP_SLAVEID_BUF
        /\ ret' = "MB_ENORES" /\ UNCHANGED usMBSlaveIDLen
  /\ UNCHANGED <<life, xFuncHandlers, installed>>

Next ==
  \/ \E m \in SerialModes, addressOk, portOk \in BOOLEAN : eMBInit(m, addressOk, portOk)
  \/ eMBTCPInit \/ eMBEnable \/ eMBDisable \/ eMBClose
  \/ \E c \in Codes, h \in Handlers : Install(c, h)
  \/ \E c \in Codes : Remove(c)
  \/ BadRegister
  \/ \E len \in IdLengths : eMBSetSlaveID(len)

Spec == Init /\ [][Next]_vars

----------------------------------------------------------------------------
(* Properties.                                                             *)

TypeOK ==
  /\ eMBState \in {"ENABLED", "DISABLED", "NOT_INITIALIZED"}
  /\ {frame, eMBCurrentMode, started} \subseteq Modes \cup {"unset"}
  /\ ports \subseteq Modes
  /\ xFuncHandlers \in [Slots -> Entry \cup {Empty}]
  /\ usMBSlaveIDLen \in 0..MB_FUNC_OTHER_REP_SLAVEID_BUF
  /\ installed \in [Codes -> Handlers \cup {None}]

(* An enabled stack runs the mode its pointers belong to, over a port that *)
(* was initialised: no pointer eMBPoll or eMBDisable calls is NULL.        *)
EnabledIsInitialised ==
  eMBState = "ENABLED" => frame \in ports /\ started = frame /\ eMBCurrentMode = frame

(* mb.h: "The function handler which should be called in case such a frame *)
(* is received."  eMBPoll calls, for every code, the handler installed ... *)
InstalledIsCalled == \A c \in Codes : Lookup(c) = installed[c]

\* The slots in use are the first ones: this is what removing may destroy.
Compact ==
  \A i, j \in Slots : i < j /\ xFuncHandlers[j].code # 0 => xFuncHandlers[i].code # 0

(* ... as long as the table has no hole.  Removing a handler leaves one    *)
(* unless it is the last, and what is registered next closes it again.     *)
CalledUnlessHole == Compact => InstalledIsCalled

(* Whatever is removed in between, no code is ever served by a handler     *)
(* that was installed for another one or that was removed.                 *)
NeverAnother == \A c \in Codes : Lookup(c) \in {None, installed[c]}
============================================================================
