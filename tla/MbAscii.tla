------------------------------- MODULE MbAscii -------------------------------
(***************************************************************************)
(* The Modbus ASCII slave (ch04-13/modbus_s, MODBUS_RUN_ASCII):             *)
(* freemodbus/ascii/mbascii.c under eMBPoll and the serial port, character  *)
(* by character.  The rx thread, the tx thread, the timer handler and the   *)
(* main thread take turns between the calls of mbascii.c, each of which is  *)
(* one step; MbRtu goes into the steps of its sibling mbrtu.c.              *)
(* The master sends a request when the slave has done with the last one;    *)
(* anything may stand on the line before it.  Requests are single writes,   *)
(* which the reply repeats.                                                 *)
(***************************************************************************)
EXTENDS Naturals, Sequences

CONSTANTS
  Noise,       \* what may arrive before a request: sequences of characters and silences
  Size,        \* of each request, the bytes of its frame, with address and LRC
  Target,      \* "me", "all" or "other"
  PduSizeMin,  \* MB_SER_PDU_SIZE_MIN
  PduSizeMax   \* MB_SER_PDU_SIZE_MAX

Requests == DOMAIN Size

\* Characters; a digit is a half of byte number `at' of request `req'.
Char(k) == [kind |-> k, req |-> 0, at |-> 0, half |-> 0]
Colon == Char("colon")
CR == Char("CR")
LF == Char("LF")
Silence == Char("silence")   \* a second without a character
Digit(r, i, h) == [kind |-> "digit", req |-> r, at |-> i, half |-> h]
Digits(r, n) == [j \in 1..(2 * n) |-> Digit(r, (j + 1) \div 2, IF j % 2 = 1 THEN 1 ELSE 2)]
Frame(r) == <<Colon>> \o Digits(r, Size[r]) \o <<CR, LF>>

VARIABLES asked, line,              \* requests sent; what is still to arrive
          eRcvState, eBytePos, usRcvBufferPos, ucASCIIBuf,
          eSndState, pucSndBufferCur, usSndBufferCount, transmitting, tx_buffer,
          armed,                    \* the timer runs
          events, mpc, rcv,         \* event queue, main thread, its frame
          replies, runs,            \* history
          stray,                    \* history: a character that was not LF followed a CR
          failed                    \* the assertion that ended the process

rxVars == <<eRcvState, eBytePos, usRcvBufferPos, ucASCIIBuf, armed, stray>>
txVars == <<eSndState, pucSndBufferCur, usSndBufferCount, transmitting, tx_buffer>>
mainVars == <<events, mpc, rcv>>
asciiVars == <<asked, line, rxVars, txVars, mainVars, replies, runs, failed>>

NoByte == <<Silence, Silence>>
Init ==
  /\ asked = 0 /\ line = <<>> /\ replies = <<>> /\ runs = [r \in Requests |-> 0]
  /\ eRcvState = "IDLE" /\ eBytePos = "HIGH" /\ usRcvBufferPos = 0
  /\ ucASCIIBuf = [i \in 1..PduSizeMax |-> NoByte] /\ armed = FALSE /\ stray = FALSE
  /\ eSndState = "IDLE" /\ pucSndBufferCur = 1 /\ usSndBufferCount = 0
  /\ transmitting = FALSE /\ tx_buffer = <<>>
  /\ events = <<"READY">> /\ mpc = "poll" /\ rcv = 0 /\ failed = "none"

Alive == failed = "none"
Abort(where) ==
  /\ failed' = where
  /\ UNCHANGED <<asked, line, rxVars, txVars, mainVars, replies, runs>>

AtRest == line = <<>> /\ events = <<>> /\ mpc = "poll" /\ ~transmitting
SendRequest ==
  /\ Alive /\ AtRest /\ asked + 1 \in Requests
  /\ asked' = asked + 1 /\ \E before \in Noise : line' = before \o Frame(asked + 1)
  /\ UNCHANGED <<rxVars, txVars, mainVars, replies, runs, failed>>

-----------------------------------------------------------------------------
(* xMBASCIIReceiveFSM, case by case; c is the character.                    *)
BeginFrame ==
  /\ armed' = TRUE /\ eBytePos' = "HIGH" /\ usRcvBufferPos' = 0 /\ eRcvState' = "RCV"
  /\ UNCHANGED <<ucASCIIBuf, stray>>

(* Mutant: a new start does not throw half a byte away.                     *)
Restart_KeepHalf ==
  /\ usRcvBufferPos' = 0
  /\ UNCHANGED <<eBytePos, ucASCIIBuf, eRcvState, stray>>
Restart ==
  /\ eBytePos' = "HIGH" /\ usRcvBufferPos' = 0
  /\ UNCHANGED <<ucASCIIBuf, eRcvState, stray>>

HighNibble(c) ==
  /\ eBytePos = "HIGH" /\ usRcvBufferPos < PduSizeMax
  /\ ucASCIIBuf' = [ucASCIIBuf EXCEPT ![usRcvBufferPos + 1] = <<c, Silence>>]
  /\ eBytePos' = "LOW" /\ armed' = TRUE
  /\ UNCHANGED <<usRcvBufferPos, eRcvState, stray>>
LowNibble(c) ==
  /\ eBytePos = "LOW"
  /\ ucASCIIBuf' = [ucASCIIBuf EXCEPT ![usRcvBufferPos + 1] = <<@[1], c>>]
  /\ usRcvBufferPos' = usRcvBufferPos + 1
  /\ eBytePos' = "HIGH" /\ armed' = TRUE
  /\ UNCHANGED <<eRcvState, stray>>
Overflow ==
  /\ eBytePos = "HIGH" /\ usRcvBufferPos >= PduSizeMax
  /\ eRcvState' = "IDLE" /\ armed' = FALSE
  /\ UNCHANGED <<eBytePos, usRcvBufferPos, ucASCIIBuf, stray>>

Receiving(c) ==
  \/ c = Colon /\ Restart /\ armed' = TRUE
  \/ c = CR /\ eRcvState' = "WAIT_EOF" /\ armed' = TRUE
     /\ UNCHANGED <<eBytePos, usRcvBufferPos, ucASCIIBuf, stray>>
  \/ c \notin {Colon, CR} /\ (HighNibble(c) \/ LowNibble(c) \/ Overflow)

WaitEof(c) ==
  \/ c = LF /\ eRcvState' = "IDLE" /\ armed' = FALSE
     /\ UNCHANGED <<eBytePos, usRcvBufferPos, ucASCIIBuf, stray>>
  \/ c = Colon /\ BeginFrame
  \/ c \notin {LF, Colon} /\ eRcvState' = "IDLE" /\ stray' = TRUE
     /\ UNCHANGED <<eBytePos, usRcvBufferPos, ucASCIIBuf, armed>>

Idle(c) ==
  \/ c = Colon /\ BeginFrame
  \/ c # Colon /\ UNCHANGED rxVars

ReceiveFSM ==
  /\ Alive /\ line # <<>> /\ Head(line) # Silence
  /\ \/ eSndState # "IDLE" /\ Abort("receive_fsm")
     \/ /\ eSndState = "IDLE"
        /\ line' = Tail(line)
        /\ \/ eRcvState = "RCV" /\ Receiving(Head(line))
           \/ eRcvState = "WAIT_EOF" /\ WaitEof(Head(line))
           \/ eRcvState = "IDLE" /\ Idle(Head(line))
        /\ events' = IF eRcvState = "WAIT_EOF" /\ Head(line) = LF
                     THEN Append(events, "FRAME_RECEIVED") ELSE events
        /\ UNCHANGED <<asked, txVars, mpc, rcv, replies, runs, failed>>

\* A second is enough for the main thread and for the timer.
Quiet ==
  /\ Alive /\ line # <<>> /\ Head(line) = Silence /\ ~armed
  /\ events = <<>> /\ mpc = "poll" /\ ~transmitting
  /\ line' = Tail(line)
  /\ UNCHANGED <<asked, rxVars, txVars, mainVars, replies, runs, failed>>

\* xMBASCIITimerT1SExpired, after a second without a character.
TimerExpired ==
  /\ Alive /\ armed /\ (line = <<>> \/ Head(line) = Silence)
  /\ \/ eRcvState = "IDLE" /\ Abort("timer")
     \/ /\ eRcvState # "IDLE"
        /\ eRcvState' = "IDLE" /\ armed' = FALSE
        /\ UNCHANGED <<asked, line, eBytePos, usRcvBufferPos, ucASCIIBuf, stray, txVars, mainVars,
                       replies, runs, failed>>

-----------------------------------------------------------------------------
\* eMBPoll, for the events of this mode.
Poll ==
  /\ Alive /\ mpc = "poll" /\ events # <<>>
  /\ events' = Tail(events)
  /\ mpc' = CASE Head(events) = "FRAME_RECEIVED" -> "receive"
              [] Head(events) = "EXECUTE"        -> "execute"
              [] OTHER                           -> "poll"
  /\ UNCHANGED <<asked, line, rxVars, txVars, rcv, replies, runs, failed>>

\* prvucMBLRC is 0 for a frame as it was sent, and not for another sequence of bytes.
Received == {r \in Requests : /\ usRcvBufferPos = Size[r]
                              /\ \A i \in 1..Size[r] : ucASCIIBuf[i] = <<Digit(r, i, 1), Digit(r, i, 2)>>}
Receive ==
  /\ Alive /\ mpc = "receive"
  /\ \/ usRcvBufferPos >= PduSizeMax /\ Abort("receive")
     \/ /\ usRcvBufferPos < PduSizeMax
        /\ mpc' = "poll"
        /\ \/ \E r \in Received :
                /\ usRcvBufferPos >= PduSizeMin /\ rcv' = r
                /\ events' = IF Target[r] # "other" THEN Append(events, "EXECUTE") ELSE events
           \/ (Received = {} \/ usRcvBufferPos < PduSizeMin) /\ UNCHANGED <<rcv, events>>
        /\ UNCHANGED <<asked, line, rxVars, txVars, replies, runs, failed>>

Execute ==
  /\ Alive /\ mpc = "execute"
  /\ runs' = [r \in Requests |-> IF r = ucASCIIBuf[2][1].req THEN runs[r] + 1 ELSE runs[r]]
  /\ mpc' = IF Target[rcv] = "all" THEN "poll" ELSE "send"
  /\ UNCHANGED <<asked, line, rxVars, txVars, events, rcv, replies, failed>>

Send ==
  /\ Alive /\ mpc = "send" /\ mpc' = "poll"
  /\ \/ /\ eRcvState = "IDLE"
        /\ pucSndBufferCur' = 1 /\ usSndBufferCount' = Size[rcv] /\ eSndState' = "START"
        /\ transmitting' = TRUE /\ tx_buffer' = <<>>
     \/ eRcvState # "IDLE" /\ UNCHANGED txVars
  /\ UNCHANGED <<asked, line, rxVars, events, rcv, replies, runs, failed>>

-----------------------------------------------------------------------------
(* xMBASCIITransmitFSM, which the tx thread calls until it is finished; the *)
(* characters then go out together.                                         *)
Put(c) == tx_buffer' = Append(tx_buffer, c)
TransmitStart ==
  /\ eSndState = "START" /\ Put(Colon) /\ eSndState' = "DATA" /\ eBytePos' = "HIGH"
  /\ UNCHANGED <<pucSndBufferCur, usSndBufferCount, transmitting, events, replies>>
TransmitData ==
  /\ eSndState = "DATA"
  /\ \/ /\ usSndBufferCount > 0 /\ eBytePos = "HIGH"
        /\ Put(ucASCIIBuf[pucSndBufferCur][1]) /\ eBytePos' = "LOW"
        /\ UNCHANGED <<eSndState, pucSndBufferCur, usSndBufferCount>>
     \/ /\ usSndBufferCount > 0 /\ eBytePos = "LOW"
        /\ Put(ucASCIIBuf[pucSndBufferCur][2]) /\ eBytePos' = "HIGH"
        /\ pucSndBufferCur' = pucSndBufferCur + 1 /\ usSndBufferCount' = usSndBufferCount - 1
        /\ UNCHANGED eSndState
     \/ /\ usSndBufferCount = 0
        /\ Put(CR) /\ eSndState' = "END"
        /\ UNCHANGED <<eBytePos, pucSndBufferCur, usSndBufferCount>>
  /\ UNCHANGED <<transmitting, events, replies>>
TransmitEnd ==
  /\ eSndState = "END" /\ Put(LF) /\ eSndState' = "NOTIFY"
  /\ UNCHANGED <<eBytePos, pucSndBufferCur, usSndBufferCount, transmitting, events, replies>>
TransmitNotify ==
  /\ eSndState = "NOTIFY" /\ eSndState' = "IDLE"
  /\ events' = Append(events, "FRAME_SENT")
  /\ transmitting' = FALSE /\ tx_buffer' = <<>> /\ replies' = Append(replies, tx_buffer)
  /\ UNCHANGED <<eBytePos, pucSndBufferCur, usSndBufferCount>>

TransmitFSM ==
  /\ Alive /\ transmitting
  /\ \/ eRcvState # "IDLE" /\ Abort("transmit_fsm")
     \/ /\ eRcvState = "IDLE"
        /\ TransmitStart \/ TransmitData \/ TransmitEnd \/ TransmitNotify
        /\ UNCHANGED <<asked, line, eRcvState, usRcvBufferPos, ucASCIIBuf, armed, stray, mpc, rcv,
                       runs, failed>>

Main == Poll \/ Receive \/ Execute \/ Send
Serial == ReceiveFSM \/ Quiet \/ TimerExpired
Next == SendRequest \/ Serial \/ Main \/ TransmitFSM
Spec == Init /\ [][Next]_asciiVars
FairSpec == Spec /\ WF_asciiVars(SendRequest) /\ WF_asciiVars(Serial)
                 /\ WF_asciiVars(Main) /\ WF_asciiVars(TransmitFSM)

(***************************************************************************)
(* mbascii.c and eMBPoll: whatever stood on the line before - half a frame, *)
(* a frame begun anew, one too long, silence -, a request for this slave    *)
(* is executed and answered, once and whole; nothing else is answered or    *)
(* executed, unless an assertion ends the process.                          *)
(***************************************************************************)
Due(r) == Target[r] # "other"
Answers(r) == {i \in DOMAIN replies : replies[i] = Frame(r)}
AsciiServes ==
  /\ [](/\ \A i \in DOMAIN replies : \E r \in Requests : i \in Answers(r) /\ Target[r] = "me"
        /\ \A r \in Requests : runs[r] <= IF Due(r) THEN 1 ELSE 0)
  /\ \A r \in Requests :
       (asked = r /\ Due(r)) ~>
         (runs[r] = 1 /\ (Target[r] = "me" => Answers(r) # {})) \/ failed # "none"

(***************************************************************************)
(* The assertions of mbascii.c hold, but for two: the one of the timer,     *)
(* after a stray character behind a CR has left the timer running, and the  *)
(* one of eMBASCIIReceive, after a frame that fills the buffer.             *)
(***************************************************************************)
AssertsHold ==
  /\ failed \in {"none", "timer", "receive"}
  /\ failed = "timer" => stray
  /\ failed = "receive" => usRcvBufferPos = PduSizeMax
=============================================================================
