------------------------------- MODULE MbRtu -------------------------------
(***************************************************************************)
(* The Modbus RTU slave (ch04-13/modbus_s with MODBUS_RUN_RTU):            *)
(* freemodbus/rtu/mbrtu.c, the eMBPoll path of freemodbus/mb.c, and the    *)
(* ports portserial.cpp and porttimer.cpp under it.                        *)
(*                                                                         *)
(* FreeModbus was written for interrupt handlers; here they are            *)
(*   - the rx thread, which calls xMBRTUReceiveFSM for each byte read,     *)
(*   - the tx thread, which calls xMBRTUTransmitFSM until it is finished,  *)
(*   - the SIGALRM handler, which calls xMBRTUTimerT35Expired.  The kernel *)
(*     delivers the signal to the main thread, so the handler runs in      *)
(*     place of eMBPoll.                                                   *)
(* Only the main thread and the handler take the critical section, so an   *)
(* action is what one of the four does between two accesses to a shared    *)
(* variable that another one may see.  The event queue is synchronised     *)
(* (see ThreadQueue) and a post or get is part of a step.                  *)
(*                                                                         *)
(* Requests are single writes (functions 5 and 6), whose reply repeats the *)
(* request, so the handler leaves ucRTUBuf as it is.                       *)
(***************************************************************************)
EXTENDS Naturals, Sequences

CONSTANTS
  NumRequests,  \* frames the master sends, all together (bound)
  Size,         \* bytes of each frame
  Target,       \* "me", "all" (broadcast) or "other"
  Good,         \* whether its checksum is right
  PduSizeMin,   \* MB_SER_PDU_SIZE_MIN
  PduSizeMax,   \* MB_SER_PDU_SIZE_MAX
  Polite,       \* the master waits for the reply or until the slave is at rest
  Prompt        \* threads run in time for the t3.5 timer

Requests == 1..NumRequests

ASSUME RtuAssumption ==
  /\ NumRequests \in Nat
  /\ Size \in [Requests -> Nat \ {0}]
  /\ Target \in [Requests -> {"me", "all", "other"}]
  /\ Good \in [Requests -> BOOLEAN]
  /\ PduSizeMin \in Nat /\ PduSizeMax \in Nat \ {0}
  /\ Polite \in BOOLEAN /\ Prompt \in BOOLEAN

VARIABLES
  \* master and line
  asked, wire,       \* frames sent so far; bytes not yet read
  replies, runs,     \* history: what the slave wrote; how often a PDU was executed
  \* rx thread
  rpc,               \* "read", "byte", "act" or "arm"
  rx_buffer, rx_buffer_size, left,  \* its chunk, the read index, bytes to go
  byte, seen,        \* the character, the state the switch has read
  \* rtu
  eRcvState, eSndState, ucRTUBuf, usRcvBufferPos,
  \* timer and its handler
  armed, alarm, hpc, \* interval timer, pending SIGALRM, handler's pc
  mutex_protect,     \* "free", "main" or "handler"
  \* main thread
  events, mpc, rcv,  \* event queue, pc, the frame eMBPoll's statics are about
  \* tx thread
  tx_semaphore, xpc, pucSndBufferCur, usSndBufferCount, tx_buffer,
  failed             \* the assertion that has ended the process, or "none"

lineVars  == <<asked, wire, replies, runs>>
rxVars    == <<rpc, rx_buffer, rx_buffer_size, left, byte, seen>>
rtuVars   == <<eRcvState, eSndState, ucRTUBuf, usRcvBufferPos>>
timerVars == <<armed, alarm, hpc, mutex_protect>>
mainVars  == <<events, mpc, rcv>>
txVars    == <<tx_semaphore, xpc, pucSndBufferCur, usSndBufferCount, tx_buffer>>
vars == <<lineVars, rxVars, rtuVars, timerVars, mainVars, txVars, failed>>

Byte == [req : Requests \cup {0}, at : Nat]
Nul == [req |-> 0, at |-> 0]
Frame(r) == [i \in 1..Size[r] |-> [req |-> r, at |-> i]]

RcvState == {"INIT", "IDLE", "RCV", "ERROR"}
Event == {"READY", "FRAME_RECEIVED", "EXECUTE", "FRAME_SENT"}

LineOK ==
  /\ asked \in Requests \cup {0} /\ wire \in Seq(Byte)
  /\ replies \in Seq(Seq(Byte)) /\ runs \in [Requests -> Nat]
RxOK ==
  /\ rpc \in {"read", "byte", "act", "arm"}
  /\ rx_buffer \in Seq(Byte) /\ rx_buffer_size \in Nat /\ left \in Nat
  /\ byte \in Byte /\ seen \in RcvState
RtuOK ==
  /\ eRcvState \in RcvState /\ eSndState \in {"IDLE", "XMIT"}
  /\ ucRTUBuf \in [1..PduSizeMax -> Byte] /\ usRcvBufferPos \in 0..PduSizeMax
TimerOK ==
  /\ armed \in BOOLEAN /\ alarm \in BOOLEAN
  /\ hpc \in {"none", "enter", "switch", "disable", "idle"}
  /\ mutex_protect \in {"free", "main", "handler"}
MainOK ==
  /\ events \in Seq(Event)
  /\ mpc \in {"start", "armed", "poll", "receive", "received", "execute", "send", "exit"}
  /\ rcv \in Requests \cup {0}
TxOK ==
  /\ tx_semaphore \in Nat /\ xpc \in {"wait", "fsm", "write"}
  /\ pucSndBufferCur \in Nat /\ usSndBufferCount \in Nat /\ tx_buffer \in Seq(Byte)

TypeOK ==
  /\ LineOK /\ RxOK /\ RtuOK /\ TimerOK /\ MainOK /\ TxOK
  /\ failed \in {"none", "receive", "receive_fsm", "transmit_fsm", "timer"}

(* eMBInit has started the two threads and set the signal handler.         *)
Init ==
  /\ asked = 0 /\ wire = <<>> /\ replies = <<>> /\ runs = [r \in Requests |-> 0]
  /\ rpc = "read" /\ rx_buffer = <<>> /\ rx_buffer_size = 0 /\ left = 0
  /\ byte = Nul /\ seen = "INIT"
  /\ eRcvState = "INIT" /\ eSndState = "IDLE"
  /\ ucRTUBuf = [i \in 1..PduSizeMax |-> Nul] /\ usRcvBufferPos = 0
  /\ armed = FALSE /\ alarm = FALSE /\ hpc = "none" /\ mutex_protect = "free"
  /\ events = <<>> /\ mpc = "start" /\ rcv = 0
  /\ tx_semaphore = 0 /\ xpc = "wait"
  /\ pucSndBufferCur = 1 /\ usSndBufferCount = 0 /\ tx_buffer = <<>>
  /\ failed = "none"

Alive == failed = "none"

(* An assert() that does not hold aborts the process.                      *)
Abort(where) ==
  /\ failed' = where
  /\ UNCHANGED <<lineVars, rxVars, rtuVars, timerVars, mainVars, txVars>>

----------------------------------------------------------------------------
(* The master.                                                             *)

AtRest ==
  /\ wire = <<>> /\ rpc = "read" /\ events = <<>> /\ mpc = "poll"
  /\ ~armed /\ ~alarm /\ hpc = "none"
  /\ xpc = "wait" /\ tx_semaphore = 0

Answered == \E i \in 1..Len(replies) : replies[i] # <<>> /\ replies[i][1].req = asked

(* A polite master sends when it has the reply, or when the slave has had  *)
(* all the time it needs.                                                  *)
SendFrame ==
  LET r == asked + 1 IN
  /\ Alive
  /\ r \in Requests
  /\ Polite => AtRest \/ Answered
  /\ asked' = r
  /\ wire' = wire \o Frame(r)
  /\ UNCHANGED <<replies, runs, rxVars, rtuVars, timerVars, mainVars, txVars, failed>>

----------------------------------------------------------------------------
(* The rx thread: port_tty_rx_thread and xMBRTUReceiveFSM.                 *)

(* Mutant: the read index is left where the last chunk ended.              *)
RxRead_KeepIndex ==
  /\ Alive
  /\ rpc = "read"
  /\ \E n \in 1..Len(wire) :
       /\ rx_buffer' = SubSeq(wire, 1, n)
       /\ wire' = SubSeq(wire, n + 1, Len(wire))
       /\ left' = n
  /\ rpc' = "byte"
  /\ UNCHANGED <<asked, replies, runs, rx_buffer_size, byte, seen, rtuVars, timerVars,
                 mainVars, txVars, failed>>

RxRead ==
  /\ Alive
  /\ rpc = "read"
  /\ \E n \in 1..Len(wire) :
       /\ rx_buffer' = SubSeq(wire, 1, n)
       /\ wire' = SubSeq(wire, n + 1, Len(wire))
       /\ left' = n
  /\ rx_buffer_size' = 0
  /\ rpc' = "byte"
  /\ UNCHANGED <<asked, replies, runs, byte, seen, rtuVars, timerVars, mainVars, txVars, failed>>

(* The assertion, xMBPortSerialGetByte and the switch on the state.        *)
RxByte ==
  /\ Alive
  /\ rpc = "byte"
  /\ \/ eSndState # "IDLE" /\ Abort("receive_fsm")
     \/ /\ eSndState = "IDLE"
        /\ byte' = rx_buffer[rx_buffer_size + 1]
        /\ rx_buffer_size' = rx_buffer_size + 1
        /\ seen' = eRcvState
        /\ rpc' = "act"
        /\ UNCHANGED <<lineVars, rx_buffer, left, rtuVars, timerVars, mainVars, txVars, failed>>

(* Mutant: the first character does not change the state.                  *)
RxAct_StayIdle ==
  /\ Alive
  /\ rpc = "act"
  /\ rpc' = "arm"
  /\ ucRTUBuf' = [ucRTUBuf EXCEPT ![1] = byte]
  /\ usRcvBufferPos' = 1
  /\ UNCHANGED <<lineVars, rx_buffer, rx_buffer_size, left, byte, seen, eRcvState, eSndState,
                 timerVars, mainVars, txVars, failed>>

(* The case of the switch: the first character, one more, one too many, or *)
(* none of our business.                                                   *)
RxAct ==
  /\ Alive
  /\ rpc = "act"
  /\ rpc' = "arm"
  /\ \/ /\ seen = "IDLE"
        /\ ucRTUBuf' = [ucRTUBuf EXCEPT ![1] = byte]
        /\ usRcvBufferPos' = 1
        /\ eRcvState' = "RCV"
     \/ /\ seen = "RCV" /\ usRcvBufferPos < PduSizeMax
        /\ ucRTUBuf' = [ucRTUBuf EXCEPT ![usRcvBufferPos + 1] = byte]
        /\ usRcvBufferPos' = usRcvBufferPos + 1
        /\ UNCHANGED eRcvState
     \/ /\ seen = "RCV" /\ usRcvBufferPos >= PduSizeMax
        /\ eRcvState' = "ERROR"
        /\ UNCHANGED <<ucRTUBuf, usRcvBufferPos>>
     \/ /\ seen \in {"INIT", "ERROR"}
        /\ UNCHANGED <<ucRTUBuf, usRcvBufferPos, eRcvState>>
  /\ UNCHANGED <<lineVars, rx_buffer, rx_buffer_size, left, byte, seen, eSndState, timerVars,
                 mainVars, txVars, failed>>

(* Every case ends with vMBPortTimersEnable.                               *)
RxArm ==
  /\ Alive
  /\ rpc = "arm"
  /\ armed' = TRUE
  /\ left' = left - 1
  /\ rpc' = IF left = 1 THEN "read" ELSE "byte"
  /\ UNCHANGED <<lineVars, rx_buffer, rx_buffer_size, byte, seen, rtuVars, alarm, hpc,
                 mutex_protect, mainVars, txVars, failed>>

----------------------------------------------------------------------------
(* The timer and vTimerCallback, with xMBRTUTimerT35Expired.               *)

(* The one-shot timer is up.  In a prompt system that happens only when no *)
(* character has come for a while and the main thread is polling.          *)
Expire ==
  /\ Alive
  /\ armed /\ ~alarm
  /\ Prompt => rpc = "read" /\ wire = <<>> /\ mpc = "poll"
  /\ armed' = FALSE /\ alarm' = TRUE
  /\ UNCHANGED <<lineVars, rxVars, rtuVars, hpc, mutex_protect, mainVars, txVars, failed>>

Interrupt ==
  /\ Alive
  /\ alarm /\ hpc = "none"
  /\ alarm' = FALSE /\ hpc' = "enter"
  /\ UNCHANGED <<lineVars, rxVars, rtuVars, armed, mutex_protect, mainVars, txVars, failed>>

(* EnterCriticalSection: waits for ever if it has interrupted its owner.   *)
HandlerEnter ==
  /\ Alive
  /\ hpc = "enter" /\ mutex_protect = "free"
  /\ mutex_protect' = "handler"
  /\ hpc' = "switch"
  /\ UNCHANGED <<lineVars, rxVars, rtuVars, armed, alarm, mainVars, txVars, failed>>

HandlerSwitch ==
  /\ Alive
  /\ hpc = "switch"
  /\ \/ eRcvState = "IDLE" /\ Abort("timer")
     \/ /\ eRcvState # "IDLE"
        /\ events' = CASE eRcvState = "INIT"  -> Append(events, "READY")
                       [] eRcvState = "RCV"   -> Append(events, "FRAME_RECEIVED")
                       [] eRcvState = "ERROR" -> events
        /\ hpc' = "disable"
        /\ UNCHANGED <<lineVars, rxVars, rtuVars, armed, alarm, mutex_protect, mpc, rcv, txVars, failed>>

HandlerDisable ==
  /\ Alive
  /\ hpc = "disable"
  /\ armed' = FALSE
  /\ hpc' = "idle"
  /\ UNCHANGED <<lineVars, rxVars, rtuVars, alarm, mutex_protect, mainVars, txVars, failed>>

(* Mutant: the receiver is not made ready for the next frame.              *)
HandlerIdle_KeepState ==
  /\ Alive
  /\ hpc = "idle"
  /\ mutex_protect' = "free"
  /\ hpc' = "none"
  /\ UNCHANGED <<lineVars, rxVars, rtuVars, armed, alarm, mainVars, txVars, failed>>

(* The receiver is ready for the next frame; ExitCriticalSection.          *)
HandlerIdle ==
  /\ Alive
  /\ hpc = "idle"
  /\ eRcvState' = "IDLE"
  /\ mutex_protect' = "free"
  /\ hpc' = "none"
  /\ UNCHANGED <<lineVars, rxVars, eSndState, ucRTUBuf, usRcvBufferPos, armed, alarm, mainVars,
                 txVars, failed>>

----------------------------------------------------------------------------
(* The main thread; it runs while the handler does not.                    *)

MainRuns == Alive /\ hpc = "none"

(* eMBRTUStart, up to the timer ...                                        *)
Start ==
  /\ MainRuns
  /\ mpc = "start" /\ mutex_protect = "free"
  /\ mutex_protect' = "main"
  /\ eRcvState' = "INIT"
  /\ rx_buffer_size' = 0
  /\ armed' = TRUE
  /\ mpc' = "armed"
  /\ UNCHANGED <<lineVars, rpc, rx_buffer, left, byte, seen, eSndState, ucRTUBuf, usRcvBufferPos,
                 alarm, hpc, events, rcv, txVars, failed>>

(* ... and out of the critical section.                                    *)
Started ==
  /\ MainRuns
  /\ mpc = "armed"
  /\ mutex_protect' = "free"
  /\ mpc' = "poll"
  /\ UNCHANGED <<lineVars, rxVars, rtuVars, armed, alarm, hpc, events, rcv, txVars, failed>>

(* eMBPoll takes an event; READY and FRAME_SENT need nothing.              *)
Poll ==
  /\ MainRuns
  /\ mpc = "poll" /\ events # <<>>
  /\ events' = Tail(events)
  /\ mpc' = CASE Head(events) = "FRAME_RECEIVED" -> "receive"
              [] Head(events) = "EXECUTE"        -> "execute"
              [] OTHER                           -> "poll"
  /\ UNCHANGED <<lineVars, rxVars, rtuVars, timerVars, rcv, txVars, failed>>

(* The received bytes are a whole frame with the right checksum.           *)
Whole(r) ==
  /\ Good[r]
  /\ usRcvBufferPos = Size[r] /\ usRcvBufferPos >= PduSizeMin
  /\ \A i \in 1..usRcvBufferPos : ucRTUBuf[i] = Frame(r)[i]

Received == {r \in Requests : Whole(r)}

(* eMBRTUReceive: length, checksum and address of what is in the buffer.   *)
Receive ==
  /\ MainRuns
  /\ mpc = "receive" /\ mutex_protect = "free"
  /\ \/ usRcvBufferPos >= PduSizeMax /\ Abort("receive")
     \/ /\ usRcvBufferPos < PduSizeMax
        /\ mutex_protect' = "main"
        /\ \/ \E r \in Received : rcv' = r /\ mpc' = "received"
           \/ Received = {} /\ mpc' = "exit" /\ UNCHANGED rcv
        /\ UNCHANGED <<lineVars, rxVars, rtuVars, armed, alarm, hpc, events, txVars, failed>>

(* Back in eMBPoll: is the frame for us?                                   *)
Addressed ==
  /\ MainRuns
  /\ mpc = "received"
  /\ mutex_protect' = "free"
  /\ mpc' = "poll"
  /\ events' = IF Target[rcv] \in {"me", "all"} THEN Append(events, "EXECUTE") ELSE events
  /\ UNCHANGED <<lineVars, rxVars, rtuVars, armed, alarm, hpc, rcv, txVars, failed>>

(* Mutant: broadcasts are answered like any other request.                 *)
Execute_AnswerAll ==
  /\ MainRuns
  /\ mpc = "execute"
  /\ runs' = [r \in Requests |-> IF r = ucRTUBuf[2].req THEN runs[r] + 1 ELSE runs[r]]
  /\ mpc' = "send"
  /\ UNCHANGED <<asked, wire, replies, rxVars, rtuVars, timerVars, events, rcv, txVars, failed>>

(* EV_EXECUTE: run the handler on what the buffer holds now; answer unless *)
(* the frame was a broadcast.                                              *)
Execute ==
  /\ MainRuns
  /\ mpc = "execute"
  /\ runs' = [r \in Requests |-> IF r = ucRTUBuf[2].req THEN runs[r] + 1 ELSE runs[r]]
  /\ mpc' = IF Target[rcv] = "all" THEN "poll" ELSE "send"
  /\ UNCHANGED <<asked, wire, replies, rxVars, rtuVars, timerVars, events, rcv, txVars, failed>>

(* eMBRTUSend: unless a new frame has begun, put address and checksum      *)
(* around the PDU in the buffer and start the transmitter.                 *)
Send ==
  /\ MainRuns
  /\ mpc = "send" /\ mutex_protect = "free"
  /\ mutex_protect' = "main"
  /\ mpc' = "exit"
  /\ \/ /\ eRcvState = "IDLE"
        /\ pucSndBufferCur' = 1
        /\ usSndBufferCount' = Size[rcv]
        /\ eSndState' = "XMIT"
        /\ tx_buffer' = <<>>
        /\ tx_semaphore' = tx_semaphore + 1
        /\ UNCHANGED xpc
     \/ /\ eRcvState # "IDLE"
        /\ UNCHANGED <<eSndState, txVars>>
  /\ UNCHANGED <<asked, wire, replies, runs, rxVars, eRcvState, ucRTUBuf, usRcvBufferPos, armed, alarm, hpc,
                 events, rcv, failed>>

(* ExitCriticalSection at the end of eMBRTUReceive (no frame) or Send.     *)
Exit ==
  /\ MainRuns
  /\ mpc = "exit"
  /\ mutex_protect' = "free"
  /\ mpc' = "poll"
  /\ UNCHANGED <<lineVars, rxVars, rtuVars, armed, alarm, hpc, events, rcv, txVars, failed>>

----------------------------------------------------------------------------
(* The tx thread: port_tty_tx_thread and xMBRTUTransmitFSM.                *)

TxWait ==
  /\ Alive
  /\ xpc = "wait" /\ tx_semaphore > 0
  /\ tx_semaphore' = tx_semaphore - 1
  /\ xpc' = "fsm"
  /\ UNCHANGED <<lineVars, rxVars, rtuVars, timerVars, mainVars, pucSndBufferCur, usSndBufferCount,
                 tx_buffer, failed>>

TxAssert ==
  /\ Alive
  /\ xpc = "fsm" /\ eRcvState # "IDLE"
  /\ Abort("transmit_fsm")

(* Nothing to transmit: the loop of the tx thread calls again, for ever.   *)
TxNothing ==
  /\ Alive
  /\ xpc = "fsm" /\ eRcvState = "IDLE" /\ eSndState = "IDLE"
  /\ rx_buffer_size' = 0
  /\ UNCHANGED <<lineVars, rpc, rx_buffer, left, byte, seen, rtuVars, timerVars, mainVars, txVars, failed>>

TxByte ==
  /\ Alive
  /\ xpc = "fsm" /\ eRcvState = "IDLE" /\ eSndState = "XMIT"
  /\ usSndBufferCount # 0
  /\ tx_buffer' = Append(tx_buffer, ucRTUBuf[pucSndBufferCur])
  /\ pucSndBufferCur' = pucSndBufferCur + 1
  /\ usSndBufferCount' = usSndBufferCount - 1
  /\ UNCHANGED <<lineVars, rxVars, rtuVars, timerVars, mainVars, tx_semaphore, xpc, failed>>

(* The whole frame is in tx_buffer: EV_FRAME_SENT, transmitter off.        *)
TxDone ==
  /\ Alive
  /\ xpc = "fsm" /\ eRcvState = "IDLE" /\ eSndState = "XMIT"
  /\ usSndBufferCount = 0
  /\ events' = Append(events, "FRAME_SENT")
  /\ rx_buffer_size' = 0
  /\ eSndState' = "IDLE"
  /\ xpc' = "write"
  /\ UNCHANGED <<lineVars, rpc, rx_buffer, left, byte, seen, eRcvState, ucRTUBuf, usRcvBufferPos, timerVars,
                 mpc, rcv, tx_semaphore, pucSndBufferCur, usSndBufferCount, tx_buffer, failed>>

TxWrite ==
  /\ Alive
  /\ xpc = "write"
  /\ replies' = Append(replies, tx_buffer)
  /\ xpc' = "wait"
  /\ UNCHANGED <<asked, wire, runs, rxVars, rtuVars, timerVars, mainVars, tx_semaphore,
                 pucSndBufferCur, usSndBufferCount, tx_buffer, failed>>

----------------------------------------------------------------------------
RxStep      == RxRead \/ RxByte \/ RxAct \/ RxArm
HandlerStep == Interrupt \/ HandlerEnter \/ HandlerSwitch \/ HandlerDisable \/ HandlerIdle
MainStep    == Start \/ Started \/ Poll \/ Receive \/ Addressed \/ Execute \/ Send \/ Exit
TxStep      == TxWait \/ TxAssert \/ TxNothing \/ TxByte \/ TxDone \/ TxWrite

Next == SendFrame \/ RxStep \/ Expire \/ HandlerStep \/ MainStep \/ TxStep

Spec == Init /\ [][Next]_vars

(* The kernel schedules the threads, and the timer expires.                *)
Fairness ==
  WF_vars(RxStep) /\ WF_vars(Expire) /\ WF_vars(HandlerStep) /\ WF_vars(MainStep) /\ WF_vars(TxStep)

FairSpec == Spec /\ Fairness

----------------------------------------------------------------------------
(* portserial.cpp: the character handed to the receiver was read from the  *)
(* line in this chunk, whoever resets the read index in between.           *)
GetByteInRange == rpc = "byte" => rx_buffer_size < Len(rx_buffer)

\* The character that the master sends after b.
Following(b) ==
  IF b # Nul /\ b.at < Size[b.req] THEN [req |-> b.req, at |-> b.at + 1] ELSE [req |-> b.req + 1, at |-> 1]

(* With a polite master and prompt threads: xMBPortSerialGetByte returns a *)
(* new character (mbport.h:101), the one that follows the one it returned  *)
(* before, although the main and the tx thread reset its read index        *)
(* without a lock; when the line is empty the last one has been returned.  *)
GetByteIsNew ==
  /\ rpc = "byte" => GetByteInRange /\ rx_buffer[rx_buffer_size + 1] = Following(byte)
  /\ rpc = "read" /\ wire = <<>> /\ asked # 0 => byte = [req |-> asked, at |-> Size[asked]]

(* With a polite master and prompt threads: each reply is one whole frame  *)
(* that was sent to this slave with the right checksum, and was executed.  *)
RepliesCorrect ==
  \A i \in 1..Len(replies) : \E r \in Requests :
    replies[i] = Frame(r) /\ Target[r] = "me" /\ Good[r] /\ runs[r] > 0

(* With such a master no frame is executed twice, and none that is for     *)
(* another slave or damaged.                                               *)
RunsOnce ==
  \A r \in Requests : runs[r] <= IF Target[r] # "other" /\ Good[r] THEN 1 ELSE 0

(* With such a master, the assertions of mbrtu.c hold.                     *)
NoAssertFails == failed = "none"

(* With such a master, a good request to this slave is answered.           *)
RequestsAnswered ==
  \A r \in Requests :
    (asked = r /\ Target[r] = "me" /\ Good[r]) ~> \E i \in 1..Len(replies) : replies[i] = Frame(r)

(* mbrtu.c, comment in eMBRTUStart: if no character is received the        *)
(* receiver changes to the idle state.                                     *)
StartupEnds == [](asked = 0) => <>(eRcvState = "IDLE")
============================================================================
