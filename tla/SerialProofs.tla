---------------------------- MODULE SerialProofs ----------------------------
(***************************************************************************)
(* Proofs about the serial slaves.                                         *)
(* MbRtu, for any frames, buffer size, master and scheduling: the           *)
(* characters handed to the receiver are those of the chunk read last, and  *)
(* the transmitter sends from inside the frame buffer.  For a polite master *)
(* and threads that keep up with the timer: characters are received once    *)
(* and in order, no assertion fails, replies are right, frames run once.    *)
(* MbAscii, for any requests, any buffer size and any calm noise before     *)
(* them: no assertion fails.                                                *)
(***************************************************************************)
EXTENDS MCSerial, SequenceTheorems, TLAPS

\* What is left of the chunk lies behind the read index, which may have been
\* reset by the main or the tx thread.
InChunk ==
  /\ rpc = "byte" => left >= 1 /\ rx_buffer_size + left <= Len(rx_buffer)
  /\ rpc \in {"act", "arm"} => left >= 1 /\ rx_buffer_size + left <= Len(rx_buffer) + 1

\* eMBPoll executes only frames that eMBRTUReceive has found good, which fit
\* the buffer, and the transmitter stays inside of it.
Executes == \E i \in 1..Len(events) : events[i] = "EXECUTE"
Fits ==
  /\ Executes \/ mpc \in {"received", "execute", "send"} => rcv # 0
  /\ rcv # 0 => Size[rcv] <= PduSizeMax
  /\ pucSndBufferCur >= 1 /\ pucSndBufferCur + usSndBufferCount <= PduSizeMax + 1

IInv == TypeOK /\ InChunk /\ Fits

(* xMBRTUTransmitFSM takes its characters from ucRTUBuf: the one it sends   *)
(* next is inside.                                                          *)
SentFromBuffer == usSndBufferCount # 0 => pucSndBufferCur \in 1..PduSizeMax

(* A frame on the line is a sequence of bytes.                              *)
LEMMA FrameIsBytes ==
  ASSUME NEW r \in Requests
  PROVE  Frame(r) \in Seq(Byte)
<1>1. Size[r] \in Nat
  BY RtuAssumption
<1>2. Frame(r) \in [1..Size[r] -> Byte]
  BY <1>1 DEF Frame, Byte
<1>. QED  BY <1>1, <1>2, SeqDef

(* An event more or less does not bring an EXECUTE with it.                 *)
LEMMA EventsKept ==
  ASSUME MainOK, NEW e \in Event
  PROVE  /\ Append(events, e) \in Seq(Event)
         /\ e # "EXECUTE" =>
              ((\E i \in 1..Len(Append(events, e)) : Append(events, e)[i] = "EXECUTE") => Executes)
         /\ events # <<>> =>
              /\ Tail(events) \in Seq(Event)
              /\ (\E i \in 1..Len(Tail(events)) : Tail(events)[i] = "EXECUTE") => Executes
              /\ Head(events) = "EXECUTE" => Executes
<1>1. Len(events) \in Nat /\ events \in Seq(Event)
  BY DEF MainOK
<1>2. /\ Append(events, e) \in Seq(Event) /\ Len(Append(events, e)) = Len(events) + 1
      /\ \A i \in 1..Len(events) : Append(events, e)[i] = events[i]
      /\ Append(events, e)[Len(events) + 1] = e
  BY <1>1, AppendProperties
<1>3. ASSUME e # "EXECUTE", NEW i \in 1..Len(Append(events, e)), Append(events, e)[i] = "EXECUTE"
      PROVE  Executes
  BY <1>1, <1>2, <1>3 DEF Executes
<1>4. ASSUME events # <<>>
      PROVE  /\ Tail(events) \in Seq(Event)
             /\ (\E i \in 1..Len(Tail(events)) : Tail(events)[i] = "EXECUTE") => Executes
             /\ Head(events) = "EXECUTE" => Executes
  <2>1. /\ Tail(events) \in Seq(Event) /\ Len(Tail(events)) = Len(events) - 1
        /\ \A i \in 1..Len(Tail(events)) : Tail(events)[i] = events[i + 1]
    BY <1>1, <1>4, HeadTailProperties
  <2>2. ASSUME NEW i \in 1..Len(Tail(events)), Tail(events)[i] = "EXECUTE" PROVE Executes
    BY <1>1, <2>1, <2>2 DEF Executes
  <2>3. Head(events) = events[1] /\ 1 \in 1..Len(events)
    BY <1>1, <1>4
  <2>. QED  BY <2>1, <2>2, <2>3 DEF Executes
<1>. QED  BY <1>2, <1>3, <1>4

(* The rx thread.                                                           *)
LEMMA RxKeeps ==
  ASSUME IInv, RxStep
  PROVE  IInv'
<1>. USE RtuAssumption DEF IInv, Abort, lineVars, rxVars, rtuVars, timerVars, mainVars, txVars
<1>1. CASE RxRead
  <2>1. TypeOK'
    BY <1>1 DEF RxRead, TypeOK, LineOK, RxOK, RtuOK, TimerOK, MainOK, TxOK, RcvState, Event
  <2>2. InChunk'
    BY <1>1 DEF RxRead, TypeOK, RxOK, InChunk
  <2>3. Fits'
    BY <1>1 DEF RxRead, TypeOK, MainOK, TxOK, Fits, Executes
  <2>. QED  BY <2>1, <2>2, <2>3
<1>2. CASE RxByte
  <2>1. TypeOK'
    <3>1. ASSUME rpc = "byte" PROVE rx_buffer[rx_buffer_size + 1] \in Byte
      <4>1. rx_buffer_size + 1 \in 1..Len(rx_buffer) /\ rx_buffer \in Seq(Byte)
        BY <3>1 DEF InChunk, TypeOK, RxOK
      <4>. QED  BY <4>1, ElementOfSeq
    <3>2. UNCHANGED <<lineVars, timerVars, mainVars, txVars, rtuVars, rx_buffer, left>>
      BY <1>2 DEF RxByte
    <3>3. RxOK'
      BY <1>2, <3>1 DEF RxByte, TypeOK, RxOK, RtuOK
    <3>4. failed' \in {failed, "receive_fsm"}
      BY <1>2 DEF RxByte
    <3>. QED  BY <3>2, <3>3, <3>4 DEF TypeOK, LineOK, RxOK, RtuOK, TimerOK, MainOK, TxOK
  <2>2. InChunk'
    BY <1>2 DEF RxByte, TypeOK, RxOK, InChunk
  <2>3. Fits'
    BY <1>2 DEF RxByte, TypeOK, MainOK, TxOK, Fits, Executes
  <2>. QED  BY <2>1, <2>2, <2>3
<1>3. CASE RxAct
  <2>1. TypeOK'
    BY <1>3 DEF RxAct, TypeOK, LineOK, RxOK, RtuOK, TimerOK, MainOK, TxOK, RcvState, Event
  <2>2. InChunk'
    BY <1>3 DEF RxAct, TypeOK, RxOK, InChunk
  <2>3. Fits'
    BY <1>3 DEF RxAct, TypeOK, MainOK, TxOK, Fits, Executes
  <2>. QED  BY <2>1, <2>2, <2>3
<1>4. CASE RxArm
  <2>1. TypeOK'
    BY <1>4 DEF RxArm, InChunk, TypeOK, LineOK, RxOK, RtuOK, TimerOK, MainOK, TxOK
  <2>2. InChunk'
    BY <1>4 DEF RxArm, TypeOK, RxOK, InChunk
  <2>3. Fits'
    BY <1>4 DEF RxArm, TypeOK, MainOK, TxOK, Fits, Executes
  <2>. QED  BY <2>1, <2>2, <2>3
<1>. QED  BY <1>1, <1>2, <1>3, <1>4 DEF RxStep

(* The timer and its handler.                                               *)
LEMMA HandlerKeeps ==
  ASSUME IInv, HandlerStep
  PROVE  IInv'
<1>. USE RtuAssumption DEF IInv, Abort, lineVars, rxVars, rtuVars, timerVars, mainVars, txVars
<1>1. CASE Interrupt
  <2>1. TypeOK'
    <3>1. TimerOK' /\ UNCHANGED <<lineVars, rxVars, rtuVars, mainVars, txVars, failed>>
      BY <1>1 DEF Interrupt, TypeOK, TimerOK
    <3>. QED  BY <3>1 DEF TypeOK, LineOK, RxOK, RtuOK, TimerOK, MainOK, TxOK
  <2>2. InChunk'
    BY <1>1 DEF Interrupt, TypeOK, RxOK, InChunk
  <2>3. Fits'
    BY <1>1 DEF Interrupt, TypeOK, MainOK, TxOK, Fits, Executes
  <2>. QED  BY <2>1, <2>2, <2>3
<1>2. CASE HandlerEnter
  <2>1. TypeOK'
    BY <1>2 DEF HandlerEnter, TypeOK, LineOK, RxOK, RtuOK, TimerOK, MainOK, TxOK, RcvState, Event
  <2>2. InChunk'
    BY <1>2 DEF HandlerEnter, TypeOK, RxOK, InChunk
  <2>3. Fits'
    BY <1>2 DEF HandlerEnter, TypeOK, MainOK, TxOK, Fits, Executes
  <2>. QED  BY <2>1, <2>2, <2>3
<1>3. CASE HandlerSwitch
  <2>0. events' = events \/ events' = Append(events, "READY") \/ events' = Append(events, "FRAME_RECEIVED")
    BY <1>3 DEF HandlerSwitch, TypeOK, RtuOK, RcvState
  <2>1. TypeOK'
    <3>1. events' \in Seq(Event)
      BY <2>0, EventsKept DEF TypeOK, MainOK, Event
    <3>2. hpc' \in {hpc, "disable"} /\ failed' \in {failed, "timer"}
      BY <1>3 DEF HandlerSwitch
    <3>3. UNCHANGED <<lineVars, rxVars, rtuVars, armed, alarm, mutex_protect, mpc, rcv, txVars>>
      BY <1>3 DEF HandlerSwitch
    <3>. QED  BY <3>1, <3>2, <3>3 DEF TypeOK, LineOK, RxOK, RtuOK, TimerOK, MainOK, TxOK
  <2>2. InChunk'
    BY <1>3 DEF HandlerSwitch, TypeOK, RxOK, InChunk
  <2>3. Fits'
    <3>1. Executes' => Executes
      BY <2>0, EventsKept DEF TypeOK, Event, Executes
    <3>2. UNCHANGED <<mpc, rcv, pucSndBufferCur, usSndBufferCount>>
      BY <1>3 DEF HandlerSwitch
    <3>. QED  BY <3>1, <3>2 DEF Fits
  <2>. QED  BY <2>1, <2>2, <2>3
<1>4. CASE HandlerDisable
  <2>1. TypeOK'
    <3>1. TimerOK' /\ UNCHANGED <<lineVars, rxVars, rtuVars, mainVars, txVars, failed>>
      BY <1>4 DEF HandlerDisable, TypeOK, TimerOK
    <3>. QED  BY <3>1 DEF TypeOK, LineOK, RxOK, RtuOK, TimerOK, MainOK, TxOK
  <2>2. InChunk'
    BY <1>4 DEF HandlerDisable, TypeOK, RxOK, InChunk
  <2>3. Fits'
    BY <1>4 DEF HandlerDisable, TypeOK, MainOK, TxOK, Fits, Executes
  <2>. QED  BY <2>1, <2>2, <2>3
<1>5. CASE HandlerIdle
  <2>1. TypeOK'
    BY <1>5 DEF HandlerIdle, TypeOK, LineOK, RxOK, RtuOK, TimerOK, MainOK, TxOK, RcvState, Event
  <2>2. InChunk'
    BY <1>5 DEF HandlerIdle, TypeOK, RxOK, InChunk
  <2>3. Fits'
    BY <1>5 DEF HandlerIdle, TypeOK, MainOK, TxOK, Fits, Executes
  <2>. QED  BY <2>1, <2>2, <2>3
<1>. QED  BY <1>1, <1>2, <1>3, <1>4, <1>5 DEF HandlerStep

(* The main thread.                                                         *)
LEMMA MainKeeps ==
  ASSUME IInv, MainStep
  PROVE  IInv'
<1>. USE RtuAssumption DEF IInv, Abort, lineVars, rxVars, rtuVars, timerVars, mainVars, txVars
<1>1. CASE Start
  <2>1. TypeOK'
    BY <1>1 DEF Start, MainRuns, TypeOK, LineOK, RxOK, RtuOK, TimerOK, MainOK, TxOK, RcvState, Event
  <2>2. InChunk'
    BY <1>1 DEF Start, MainRuns, TypeOK, RxOK, InChunk
  <2>3. Fits'
    BY <1>1 DEF Start, MainRuns, TypeOK, MainOK, TxOK, Fits, Executes
  <2>. QED  BY <2>1, <2>2, <2>3
<1>2. CASE Started
  <2>1. TypeOK'
    BY <1>2 DEF Started, MainRuns, TypeOK, LineOK, RxOK, RtuOK, TimerOK, MainOK, TxOK, RcvState, Event
  <2>2. InChunk'
    BY <1>2 DEF Started, MainRuns, TypeOK, RxOK, InChunk
  <2>3. Fits'
    BY <1>2 DEF Started, MainRuns, TypeOK, MainOK, TxOK, Fits, Executes
  <2>. QED  BY <2>1, <2>2, <2>3
<1>3. CASE Poll
  <2>1. TypeOK'
    <3>1. events' \in Seq(Event)
      BY <1>3, EventsKept DEF Poll, TypeOK, Event
    <3>2. mpc' \in {"receive", "execute", "poll"}
      BY <1>3 DEF Poll
    <3>3. UNCHANGED <<lineVars, rxVars, rtuVars, timerVars, rcv, txVars, failed>>
      BY <1>3 DEF Poll
    <3>. QED  BY <3>1, <3>2, <3>3 DEF TypeOK, LineOK, RxOK, RtuOK, TimerOK, MainOK, TxOK
  <2>2. InChunk'
    BY <1>3 DEF Poll, MainRuns, TypeOK, RxOK, InChunk
  <2>3. Fits'
    <3>1. (Executes' => Executes) /\ (mpc' \in {"received", "execute", "send"} => Executes)
      BY <1>3, EventsKept DEF Poll, TypeOK, Event, Executes
    <3>2. UNCHANGED <<rcv, pucSndBufferCur, usSndBufferCount>>
      BY <1>3 DEF Poll
    <3>. QED  BY <3>1, <3>2 DEF Fits
  <2>. QED  BY <2>1, <2>2, <2>3
<1>4. CASE Receive
  <2>0. \/ rcv' = rcv /\ mpc' \in {mpc, "exit"}
        \/ rcv' \in Requests /\ Size[rcv'] <= PduSizeMax /\ mpc' = "received"
    <3>1. CASE \E r \in Received : rcv' = r /\ mpc' = "received"
      <4>1. PICK r \in Requests : Whole(r) /\ rcv' = r /\ mpc' = "received"
        BY <3>1 DEF Received
      <4>2. Size[r] <= PduSizeMax
        BY <4>1 DEF Whole, TypeOK, RtuOK
      <4>. QED  BY <4>1, <4>2
    <3>2. CASE ~\E r \in Received : rcv' = r /\ mpc' = "received"
      BY <1>4, <3>2 DEF Receive
    <3>. QED  BY <3>1, <3>2
  <2>1. TypeOK'
    <3>1. mpc' \in {mpc, "exit", "received"} /\ rcv' \in Requests \cup {rcv}
      BY <2>0
    <3>2. failed' \in {failed, "receive"} /\ mutex_protect' \in {mutex_protect, "main"}
      BY <1>4 DEF Receive
    <3>3. UNCHANGED <<lineVars, rxVars, rtuVars, armed, alarm, hpc, events, txVars>>
      BY <1>4 DEF Receive
    <3>. QED  BY <3>1, <3>2, <3>3 DEF TypeOK, LineOK, RxOK, RtuOK, TimerOK, MainOK, TxOK
  <2>2. InChunk'
    BY <1>4 DEF Receive, MainRuns, TypeOK, RxOK, InChunk
  <2>3. Fits'
    <3>1. UNCHANGED <<events, pucSndBufferCur, usSndBufferCount>> /\ mpc = "receive"
      BY <1>4 DEF Receive
    <3>2. rcv' # rcv \/ mpc' = "received" => rcv' # 0 /\ Size[rcv'] <= PduSizeMax
      BY <2>0, <3>1 DEF Requests
    <3>. QED  BY <2>0, <3>1, <3>2 DEF Fits, Executes
  <2>. QED  BY <2>1, <2>2, <2>3
<1>5. CASE Addressed
  <2>1. TypeOK'
    BY <1>5 DEF Addressed, MainRuns, TypeOK, LineOK, RxOK, RtuOK, TimerOK, MainOK, TxOK, RcvState, Event
  <2>2. InChunk'
    BY <1>5 DEF Addressed, MainRuns, TypeOK, RxOK, InChunk
  <2>3. Fits'
    BY <1>5 DEF Addressed, MainRuns, TypeOK, MainOK, TxOK, Fits, Executes
  <2>. QED  BY <2>1, <2>2, <2>3
<1>6. CASE Execute
  <2>1. TypeOK'
    BY <1>6 DEF Execute, MainRuns, TypeOK, LineOK, RxOK, RtuOK, TimerOK, MainOK, TxOK, RcvState, Event
  <2>2. InChunk'
    BY <1>6 DEF Execute, MainRuns, TypeOK, RxOK, InChunk
  <2>3. Fits'
    BY <1>6 DEF Execute, MainRuns, TypeOK, MainOK, TxOK, Fits, Executes
  <2>. QED  BY <2>1, <2>2, <2>3
<1>7. CASE Send
  <2>1. TypeOK'
    <3>1. Size[rcv] \in Nat
      BY <1>7 DEF Send, Fits, TypeOK, MainOK
    <3>2. RtuOK'
      BY <1>7 DEF Send, TypeOK, RtuOK
    <3>3. TxOK'
      <4>1. CASE eRcvState = "IDLE"
        BY <1>7, <3>1, <4>1 DEF Send, TypeOK, TxOK
      <4>2. CASE eRcvState # "IDLE"
        BY <1>7, <4>2 DEF Send, TypeOK, TxOK
      <4>. QED  BY <4>1, <4>2
    <3>4. mutex_protect' = "main" /\ mpc' = "exit"
          /\ UNCHANGED <<lineVars, rxVars, armed, alarm, hpc, events, rcv, failed>>
      BY <1>7 DEF Send
    <3>. QED  BY <3>2, <3>3, <3>4 DEF TypeOK, LineOK, RxOK, RtuOK, TimerOK, MainOK, TxOK
  <2>2. InChunk'
    BY <1>7 DEF Send, MainRuns, TypeOK, RxOK, InChunk
  <2>3. Fits'
    BY <1>7 DEF Send, MainRuns, TypeOK, MainOK, TxOK, Fits, Executes
  <2>. QED  BY <2>1, <2>2, <2>3
<1>8. CASE Exit
  <2>1. TypeOK'
    BY <1>8 DEF Exit, MainRuns, TypeOK, LineOK, RxOK, RtuOK, TimerOK, MainOK, TxOK, RcvState, Event
  <2>2. InChunk'
    BY <1>8 DEF Exit, MainRuns, TypeOK, RxOK, InChunk
  <2>3. Fits'
    BY <1>8 DEF Exit, MainRuns, TypeOK, MainOK, TxOK, Fits, Executes
  <2>. QED  BY <2>1, <2>2, <2>3
<1>. QED  BY <1>1, <1>2, <1>3, <1>4, <1>5, <1>6, <1>7, <1>8 DEF MainStep

(* The tx thread.                                                           *)
LEMMA TxKeeps ==
  ASSUME IInv, TxStep
  PROVE  IInv'
<1>. USE RtuAssumption DEF IInv, Abort, lineVars, rxVars, rtuVars, timerVars, mainVars, txVars
<1>1. CASE TxWait
  <2>1. TypeOK'
    BY <1>1 DEF TxWait, TypeOK, LineOK, RxOK, RtuOK, TimerOK, MainOK, TxOK, RcvState, Event
  <2>2. InChunk'
    BY <1>1 DEF TxWait, TypeOK, RxOK, InChunk
  <2>3. Fits'
    BY <1>1 DEF TxWait, TypeOK, MainOK, TxOK, Fits, Executes
  <2>. QED  BY <2>1, <2>2, <2>3
<1>2. CASE TxAssert
  <2>1. TypeOK'
    BY <1>2 DEF TxAssert, TypeOK, LineOK, RxOK, RtuOK, TimerOK, MainOK, TxOK, RcvState, Event
  <2>2. InChunk'
    BY <1>2 DEF TxAssert, TypeOK, RxOK, InChunk
  <2>3. Fits'
    BY <1>2 DEF TxAssert, TypeOK, MainOK, TxOK, Fits, Executes
  <2>. QED  BY <2>1, <2>2, <2>3
<1>3. CASE TxNothing
  <2>1. TypeOK'
    BY <1>3 DEF TxNothing, TypeOK, LineOK, RxOK, RtuOK, TimerOK, MainOK, TxOK, RcvState, Event
  <2>2. InChunk'
    BY <1>3 DEF TxNothing, TypeOK, RxOK, InChunk
  <2>3. Fits'
    BY <1>3 DEF TxNothing, TypeOK, MainOK, TxOK, Fits, Executes
  <2>. QED  BY <2>1, <2>2, <2>3
<1>4. CASE TxByte
  <2>1. TypeOK'
    <3>1. pucSndBufferCur \in 1..PduSizeMax /\ usSndBufferCount \in Nat \ {0}
      BY <1>4 DEF TxByte, Fits, TypeOK, TxOK
    <3>2. ucRTUBuf[pucSndBufferCur] \in Byte
      BY <3>1 DEF TypeOK, RtuOK
    <3>3. tx_buffer' \in Seq(Byte)
      BY <1>4, <3>2, AppendProperties DEF TxByte, TypeOK, TxOK
    <3>4. pucSndBufferCur' \in Nat /\ usSndBufferCount' \in Nat
      BY <1>4, <3>1 DEF TxByte
    <3>5. UNCHANGED <<lineVars, rxVars, rtuVars, timerVars, mainVars, tx_semaphore, xpc, failed>>
      BY <1>4 DEF TxByte
    <3>. QED  BY <3>3, <3>4, <3>5 DEF TypeOK, LineOK, RxOK, RtuOK, TimerOK, MainOK, TxOK
  <2>2. InChunk'
    BY <1>4 DEF TxByte, TypeOK, RxOK, InChunk
  <2>3. Fits'
    BY <1>4 DEF TxByte, TypeOK, MainOK, TxOK, Fits, Executes
  <2>. QED  BY <2>1, <2>2, <2>3
<1>5. CASE TxDone
  <2>1. TypeOK'
    BY <1>5 DEF TxDone, TypeOK, LineOK, RxOK, RtuOK, TimerOK, MainOK, TxOK, RcvState, Event
  <2>2. InChunk'
    BY <1>5 DEF TxDone, TypeOK, RxOK, InChunk
  <2>3. Fits'
    BY <1>5 DEF TxDone, TypeOK, MainOK, TxOK, Fits, Executes
  <2>. QED  BY <2>1, <2>2, <2>3
<1>6. CASE TxWrite
  <2>1. TypeOK'
    BY <1>6 DEF TxWrite, TypeOK, LineOK, RxOK, RtuOK, TimerOK, MainOK, TxOK, RcvState, Event
  <2>2. InChunk'
    BY <1>6 DEF TxWrite, TypeOK, RxOK, InChunk
  <2>3. Fits'
    BY <1>6 DEF TxWrite, TypeOK, MainOK, TxOK, Fits, Executes
  <2>. QED  BY <2>1, <2>2, <2>3
<1>. QED  BY <1>1, <1>2, <1>3, <1>4, <1>5, <1>6 DEF TxStep

(* Each step of the master, the timer and the four threads keeps IInv.      *)
LEMMA Step ==
  ASSUME IInv, [Next]_vars
  PROVE  IInv'
<1>. USE DEF IInv, lineVars, rxVars, rtuVars, timerVars, mainVars, txVars
<1>1. CASE SendFrame
  <2>1. asked + 1 \in Requests /\ asked' = asked + 1 /\ wire' = wire \o Frame(asked + 1)
    BY <1>1 DEF SendFrame
  <2>2. wire' \in Seq(Byte)
    BY <2>1, FrameIsBytes, ConcatProperties DEF TypeOK, LineOK
  <2>3. UNCHANGED <<replies, runs, rxVars, rtuVars, timerVars, mainVars, txVars, failed>>
    BY <1>1 DEF SendFrame
  <2>4. LineOK'
    BY <2>1, <2>2, <2>3 DEF TypeOK, LineOK
  <2>5. TypeOK'
    BY <2>3, <2>4 DEF TypeOK, LineOK, RxOK, RtuOK, TimerOK, MainOK, TxOK
  <2>6. InChunk' /\ Fits'
    BY <2>3 DEF InChunk, Fits, Executes
  <2>. QED  BY <2>5, <2>6
<1>2. CASE Expire
  <2>1. TimerOK' /\ UNCHANGED <<lineVars, rxVars, rtuVars, mainVars, txVars, failed>>
    BY <1>2 DEF Expire, TypeOK, TimerOK
  <2>2. TypeOK'
    BY <2>1 DEF TypeOK, LineOK, RxOK, RtuOK, TimerOK, MainOK, TxOK
  <2>3. InChunk' /\ Fits'
    BY <2>1 DEF InChunk, Fits, Executes
  <2>. QED  BY <2>2, <2>3
<1>3. CASE UNCHANGED vars
  <2>1. TypeOK'
    BY <1>3 DEF vars, TypeOK, LineOK, RxOK, RtuOK, TimerOK, MainOK, TxOK
  <2>2. InChunk' /\ Fits'
    BY <1>3 DEF vars, InChunk, Fits, Executes
  <2>. QED  BY <2>1, <2>2
<1>. QED
  BY <1>1, <1>2, <1>3, RxKeeps, HandlerKeeps, MainKeeps, TxKeeps DEF Next

(* The slave starts in IInv.                                                *)
LEMMA Starts ==
  ASSUME Init
  PROVE  IInv
<1>. USE RtuAssumption DEF Init
<1>1. LineOK /\ RxOK
  BY EmptySeq DEF LineOK, RxOK, Byte, Nul, RcvState, Requests
<1>2. RtuOK /\ TimerOK
  <2>1. Nul \in Byte /\ 0 \in 0..PduSizeMax
    BY DEF Nul, Byte
  <2>2. ucRTUBuf \in [1..PduSizeMax -> Byte] /\ usRcvBufferPos \in 0..PduSizeMax
    BY <2>1
  <2>. QED  BY <2>2 DEF RtuOK, TimerOK, RcvState
<1>3. MainOK /\ TxOK
  BY EmptySeq DEF MainOK, TxOK
<1>4. InChunk
  BY DEF InChunk
<1>5. Len(events) = 0 /\ rcv = 0 /\ mpc = "start"
  OBVIOUS
<1>6. Fits
  BY <1>5 DEF Fits, Executes
<1>. QED  BY <1>1, <1>2, <1>3, <1>4, <1>6 DEF IInv, TypeOK

(* Every variable of the four threads keeps its type: in particular the     *)
(* receiver never stores behind ucRTUBuf.                                   *)
THEOREM TypeCorrect == Spec => []TypeOK
<1>1. Init => IInv
  BY Starts
<1>2. IInv /\ [Next]_vars => IInv'
  BY Step
<1>3. IInv => TypeOK
  BY DEF IInv
<1>. QED  BY <1>1, <1>2, <1>3, PTL DEF Spec

(* xMBPortSerialGetByte: whoever resets the read index in between, the      *)
(* character handed to the receiver is one of the chunk read last.          *)
THEOREM GetByteStaysInChunk == Spec => []GetByteInRange
<1>1. Init => IInv
  BY Starts
<1>2. IInv /\ [Next]_vars => IInv'
  BY Step
<1>3. ASSUME IInv PROVE GetByteInRange
  <2>1. rx_buffer_size \in Nat /\ left \in Nat /\ Len(rx_buffer) \in Nat
    BY <1>3 DEF IInv, TypeOK, RxOK
  <2>. QED  BY <1>3, <2>1 DEF IInv, InChunk, GetByteInRange
<1>. QED  BY <1>1, <1>2, <1>3, PTL DEF Spec

(* xMBRTUTransmitFSM: the transmitter never reads behind ucRTUBuf, although *)
(* the count it goes by is that of a frame checked two events before.       *)
THEOREM TransmitterStaysInBuffer == Spec => []SentFromBuffer
<1>1. Init => IInv
  BY Starts
<1>2. IInv /\ [Next]_vars => IInv'
  BY Step
<1>3. IInv => SentFromBuffer
  BY RtuAssumption DEF IInv, TypeOK, TxOK, Fits, SentFromBuffer
<1>. QED  BY <1>1, <1>2, <1>3, PTL DEF Spec

-----------------------------------------------------------------------------
(* The hypothesis of the second part: the master waits for the reply or    *)
(* until the slave is at rest, the threads run in time for the timer, and  *)
(* frames leave one byte of the buffer free (see the README) and have an   *)
(* address and a PDU.                                                      *)
InTime ==
  /\ Polite /\ Prompt /\ PduSizeMin >= 2
  /\ \A r \in Requests : Size[r] < PduSizeMax

\* A byte of the frame under way; how many the receiver has not stored yet,
\* and has.
Nth(k) == [req |-> asked, at |-> k]
Ahead == Len(wire) + (IF rpc = "read" THEN 0 ELSE IF rpc = "arm" THEN left - 1 ELSE left)
Got == Size[asked] - Ahead
LineEmpty == rpc = "read" /\ wire = <<>>

\* It is, in order, in the buffer, at hand, in the chunk and on the line.
Chunk ==
  /\ left >= 1
  /\ rx_buffer_size + left = Len(rx_buffer) + (IF rpc = "byte" THEN 0 ELSE 1)
  /\ Len(rx_buffer) + Len(wire) <= Size[asked]
  /\ \A i \in 1..Len(rx_buffer) :
       rx_buffer[i] = Nth(Size[asked] - Len(wire) - Len(rx_buffer) + i)
Stored ==
  /\ usRcvBufferPos = Got
  /\ \A i \in 1..Got : ucRTUBuf[i] = Nth(i)
Stream ==
  /\ Got >= 0
  /\ \A i \in 1..Len(wire) : wire[i] = Nth(Size[asked] - Len(wire) + i)
  /\ rpc # "read" => Chunk
  /\ rpc = "act" => byte = Nth(Got + 1) /\ seen = eRcvState
  /\ Got > 0 => Stored

\* The interval timer or its handler is under way; the handler has posted.
Still == ~armed /\ ~alarm /\ hpc = "none"
Ticking ==
  /\ armed \/ alarm \/ hpc # "none"
  /\ hpc \in {"none", "enter", "switch"}
  /\ armed => ~alarm
  /\ armed \/ alarm => hpc = "none"
Ringing == ~armed /\ ~alarm /\ hpc \in {"disable", "idle"}

TxIdle == xpc = "wait" /\ tx_semaphore = 0 /\ eSndState = "IDLE"
AtPoll == mpc \in {"poll", "exit"}
NoneLeft == events = <<>> \/ events = <<"FRAME_SENT">>
OneHere == events = <<"FRAME_RECEIVED">> \/ events = <<"FRAME_SENT", "FRAME_RECEIVED">>
Before == asked # 0 /\ runs[asked] = 0 /\ TxIdle
Whose == rcv = asked /\ Good[asked] /\ Size[asked] >= PduSizeMin

\* Where the slave is: one of these.
Starting ==
  /\ asked = 0 /\ LineEmpty /\ TxIdle /\ eRcvState = "INIT"
  /\ \/ mpc = "start" /\ Still /\ events = <<>>
     \/ mpc = "armed" /\ armed /\ Ticking /\ events = <<>>
     \/ mpc = "poll" /\ Ticking /\ events = <<>>
     \/ mpc = "poll" /\ Ringing /\ events = <<"READY">>
Resting ==
  /\ LineEmpty /\ Still /\ TxIdle /\ eRcvState = "IDLE" /\ AtPoll
  /\ NoneLeft \/ (events = <<"READY">> /\ asked = 0)
Receiving ==
  /\ Before /\ ~LineEmpty /\ ~alarm /\ hpc = "none" /\ AtPoll /\ NoneLeft
  /\ eRcvState = IF Got = 0 THEN "IDLE" ELSE "RCV"
  /\ Got > 0 /\ rpc # "arm" => armed
  /\ rpc = "arm" => Got > 0
Timing ==
  /\ Before /\ LineEmpty /\ Ticking /\ eRcvState = "RCV" /\ NoneLeft
  /\ mpc = "poll" \/ (mpc = "exit" /\ armed)
Announcing ==
  Before /\ LineEmpty /\ Ringing /\ eRcvState = "RCV" /\ mpc = "poll" /\ OneHere
Handling ==
  /\ Before /\ LineEmpty /\ Still /\ eRcvState = "IDLE"
  /\ \/ mpc = "poll" /\ OneHere
     \/ mpc = "receive" /\ events = <<>>
     \/ mpc = "received" /\ events = <<>> /\ Whose
     \/ mpc = "poll" /\ events = <<"EXECUTE">> /\ Whose /\ Target[asked] # "other"
     \/ mpc = "execute" /\ events = <<>> /\ Whose /\ Target[asked] # "other"
Sent ==
  /\ pucSndBufferCur + usSndBufferCount = Size[asked] + 1
  /\ Len(tx_buffer) + 1 = pucSndBufferCur
  /\ \A i \in 1..Len(tx_buffer) : tx_buffer[i] = Nth(i)
Replying ==
  /\ LineEmpty /\ Still /\ eRcvState = "IDLE" /\ asked # 0 /\ runs[asked] = 1
  /\ Whose /\ Target[asked] = "me" /\ ~Answered
  /\ \/ mpc = "send" /\ TxIdle /\ events = <<>>
     \/ /\ AtPoll /\ events = <<>> /\ eSndState = "XMIT" /\ Sent
        /\ \/ tx_semaphore = 1 /\ xpc = "wait"
           \/ tx_semaphore = 0 /\ xpc = "fsm"
     \/ /\ AtPoll /\ NoneLeft /\ eSndState = "IDLE"
        /\ tx_semaphore = 0 /\ xpc = "write" /\ tx_buffer = Frame(asked)

Phases == Starting \/ Resting \/ Receiving \/ Timing \/ Announcing \/ Handling \/ Replying
History == RunsOnce /\ RepliesCorrect /\ \A r \in Requests : r > asked => runs[r] = 0
Orderly == NoAssertFails /\ History /\ Phases /\ (asked # 0 => Stream)

----------------------------------------------------------------------------
(* What the event queue holds at each point is one of a few short           *)
(* sequences.                                                               *)
LEMMA Queues ==
  ASSUME NEW e, NEW f
  PROVE  /\ Append(<<>>, e) = <<e>> /\ Append(<<f>>, e) = <<f, e>>
         /\ <<e>> # <<>> /\ Head(<<e>>) = e /\ Tail(<<e>>) = <<>>
         /\ <<f, e>> # <<>> /\ Head(<<f, e>>) = f /\ Tail(<<f, e>>) = <<e>>
         /\ <<e>> = <<f>> => e = f
         /\ \A g : <<g>> # <<f, e>>
<1>1. Append(<<>>, e) = <<e>> /\ Append(<<f>>, e) = <<f, e>>
  <2>. DEFINE S == {e, f}
  <2>1. <<>> \in Seq(S) /\ <<f>> \in Seq(S) /\ <<e>> \in Seq(S) /\ <<f, e>> \in Seq(S) /\ e \in S
    OBVIOUS
  <2>. HIDE DEF S
  <2>2. Append(<<>>, e) \in Seq(S) /\ Len(Append(<<>>, e)) = 1 /\ Append(<<>>, e)[1] = e
    BY <2>1, AppendProperties
  <2>3. /\ Append(<<f>>, e) \in Seq(S) /\ Len(Append(<<f>>, e)) = 2
        /\ Append(<<f>>, e)[1] = f /\ Append(<<f>>, e)[2] = e
    BY <2>1, AppendProperties
  <2>4. Append(<<>>, e) = <<e>>
    BY <2>1, <2>2, SeqEqual
  <2>5. Append(<<f>>, e) = <<f, e>>
    <3>1. Len(<<f, e>>) = 2 /\ <<f, e>>[1] = f /\ <<f, e>>[2] = e
      OBVIOUS
    <3>2. \A i \in 1..2 : Append(<<f>>, e)[i] = <<f, e>>[i]
      BY <2>3, <3>1
    <3>. QED  BY <2>1, <2>3, <3>1, <3>2, SeqEqual
  <2>. QED  BY <2>4, <2>5
<1>2. Len(<<e>>) = 1 /\ Len(<<f, e>>) = 2 /\ Len(<<>>) = 0 /\ \A g : Len(<<g>>) = 1
  OBVIOUS
<1>3. Head(<<e>>) = e /\ Tail(<<e>>) = <<>> /\ Head(<<f, e>>) = f /\ Tail(<<f, e>>) = <<e>>
  OBVIOUS
<1>4. <<e>> = <<f>> => e = f
  OBVIOUS
<1>5. <<e>> # <<>> /\ <<f, e>> # <<>> /\ \A g : <<g>> # <<f, e>>
  BY <1>2
<1>. QED  BY <1>1, <1>3, <1>4, <1>5

(* Steps that run nothing and write nothing leave the history as it is.     *)
LEMMA HistoryKept ==
  ASSUME History, UNCHANGED <<asked, runs, replies>>
  PROVE  History' /\ Answered' = Answered
BY DEF History, RunsOnce, RepliesCorrect, Answered

(* Steps that leave the line and the receiver alone leave the frame where   *)
(* it is.                                                                   *)
LEMMA StreamKept ==
  ASSUME Stream, UNCHANGED <<asked, wire, rpc, left, rx_buffer, byte, ucRTUBuf, usRcvBufferPos>>,
         rpc = "read" \/ UNCHANGED <<rx_buffer_size, seen, eRcvState>>
  PROVE  Stream' /\ Got' = Got
<1>1. UNCHANGED <<Ahead, Got>> /\ \A k : Nth(k)' = Nth(k)
  BY DEF Ahead, Got, Nth
<1>2. Chunk /\ rpc # "read" => Chunk'
  BY <1>1 DEF Chunk
<1>3. Stored => Stored'
  BY <1>1 DEF Stored
<1>. QED  BY <1>1, <1>2, <1>3 DEF Stream

(* What was answered was executed.                                          *)
LEMMA AnsweredRan ==
  ASSUME History, Answered
  PROVE  asked # 0 /\ runs[asked] # 0
<1>1. PICK i \in 1..Len(replies) : replies[i] # <<>> /\ replies[i][1].req = asked
  BY DEF Answered
<1>2. PICK r \in Requests : replies[i] = Frame(r) /\ runs[r] > 0
  BY <1>1 DEF History, RepliesCorrect
<1>3. Frame(r)[1].req = r
  <2>1. 1 \in 1..Size[r]
    BY RtuAssumption
  <2>. QED  BY <2>1 DEF Frame
<1>. QED  BY <1>1, <1>2, <1>3 DEF Requests

(* Steps after the last byte of a frame, or of the main thread alone, leave *)
(* history and frame as they are.                                           *)
LEMMA LineKept ==
  ASSUME Orderly, UNCHANGED <<lineVars, rpc, left, rx_buffer, byte, ucRTUBuf, usRcvBufferPos, failed>>,
         LineEmpty \/ UNCHANGED <<rx_buffer_size, seen, eRcvState>>
  PROVE  /\ NoAssertFails' /\ History' /\ (asked' # 0 => Stream')
         /\ Answered' = Answered /\ LineEmpty' = LineEmpty
         /\ Got' = Got /\ UNCHANGED <<asked, runs>>
<1>1. UNCHANGED <<asked, runs, replies, wire, Ahead, Got>>
  BY DEF lineVars, Ahead, Got
<1>. QED  BY <1>1, HistoryKept, StreamKept DEF Orderly, NoAssertFails, LineEmpty

(* The master only sends to a slave that is at rest.                        *)
LEMMA RestingWhenAsked ==
  ASSUME IInv, Orderly, AtRest \/ Answered
  PROVE  Resting /\ NoneLeft
<1>1. CASE AtRest
  BY <1>1, Queues DEF AtRest, Orderly, Phases, Starting, Receiving, Timing, Announcing, Handling,
     Replying, Resting, LineEmpty, Ticking, Ringing, TxIdle, OneHere, NoneLeft
<1>2. CASE Answered
  BY <1>2, AnsweredRan DEF Orderly, Phases, Starting, Resting, Receiving, Timing, Announcing, Handling,
     Replying, Before
<1>. QED  BY <1>1, <1>2

(* The master sends: the whole frame is ahead.                              *)
LEMMA SendKeepsOrder ==
  ASSUME InTime, IInv, Orderly, SendFrame
  PROVE  Orderly'
<1>. DEFINE r == asked + 1
<1>1. Resting /\ NoneLeft
  BY RestingWhenAsked DEF SendFrame, InTime
<1>2. r \in Requests /\ asked' = r /\ wire = <<>> /\ wire' = Frame(r) /\ rpc = "read"
  <2>1. wire = <<>> /\ rpc = "read" /\ wire' = wire \o Frame(r)
    BY <1>1 DEF Resting, LineEmpty, SendFrame
  <2>2. <<>> \o Frame(r) = Frame(r)
    BY FrameIsBytes, ConcatEmptySeq DEF SendFrame
  <2>. QED  BY <2>1, <2>2 DEF SendFrame
<1>3. UNCHANGED <<replies, runs, rxVars, rtuVars, timerVars, mainVars, txVars, failed>>
  BY DEF SendFrame
<1>4. asked \in Nat /\ r # 0 /\ Size[r] \in Nat \ {0}
  BY <1>2, RtuAssumption DEF IInv, TypeOK, LineOK, Requests
<1>5. History' /\ runs'[r] = 0
  BY <1>2, <1>3, <1>4 DEF Orderly, History, RunsOnce, RepliesCorrect, Requests
<1>6. Len(wire') = Size[r] /\ \A i \in 1..Len(wire') : wire'[i] = Nth(i)'
  <2>1. Len(Frame(r)) = Size[r]
    BY <1>4 DEF Frame
  <2>. QED  BY <1>2, <1>4, <2>1 DEF Frame, Nth
<1>7. Ahead' = Size[r] /\ Got' = 0
  BY <1>2, <1>3, <1>4, <1>6 DEF Ahead, Got, rxVars
<1>8. Stream'
  BY <1>2, <1>3, <1>4, <1>6, <1>7 DEF Stream, rxVars
<1>9. wire' # <<>>
  BY <1>4, <1>6
<1>10. Receiving'
  BY <1>1, <1>2, <1>3, <1>4, <1>5, <1>7, <1>9
     DEF Resting, Receiving, Before, LineEmpty, Still, TxIdle, AtPoll, NoneLeft,
         rxVars, rtuVars, timerVars, mainVars, txVars
<1>. QED  BY <1>3, <1>5, <1>8, <1>10 DEF Orderly, Phases, NoAssertFails

(* A byte or a chunk more in the receiver.                                  *)
LEMMA RxKeepsOrder ==
  ASSUME InTime, IInv, Orderly, RxStep
  PROVE  Orderly'
<1>0. /\ Len(wire) \in Nat /\ wire \in Seq(Byte) /\ left \in Nat /\ rx_buffer_size \in Nat
      /\ rx_buffer \in Seq(Byte) /\ Len(rx_buffer) \in Nat /\ asked \in Requests \cup {0}
      /\ rpc \in {"read", "byte", "act", "arm"}
  BY DEF IInv, TypeOK, LineOK, RxOK
<1>1. rpc # "read" \/ wire # <<>>
  BY <1>0 DEF RxStep, RxRead, RxByte, RxAct, RxArm
<1>2. Receiving
  BY <1>1 DEF Orderly, Phases, Starting, Resting, Timing, Announcing, Handling, Replying, LineEmpty
<1>3. asked \in Requests /\ Size[asked] \in Nat \ {0} /\ Stream /\ Size[asked] < PduSizeMax
      /\ PduSizeMax \in Nat
  BY <1>0, <1>2, RtuAssumption DEF Receiving, Before, Orderly, InTime
<1>4. UNCHANGED <<asked, runs, replies, failed, eSndState, alarm, hpc, mpc, events, rcv, tx_semaphore, xpc>>
  BY <1>2 DEF RxStep, RxRead, RxByte, RxAct, RxArm, Receiving, Before, TxIdle, lineVars, rxVars,
     rtuVars, timerVars, mainVars, txVars
<1>5. History'
  BY <1>4, HistoryKept DEF Orderly
<1>6. NoAssertFails'
  BY <1>4 DEF Orderly, NoAssertFails
<1>7. Ahead \in Int /\ Got \in Nat /\ \A k : Nth(k)' = Nth(k)
  BY <1>0, <1>3, <1>4 DEF Ahead, Got, Nth, Stream
<1>8. CASE RxRead
  <2>1. PICK n \in 1..Len(wire) :
          rx_buffer' = SubSeq(wire, 1, n) /\ wire' = SubSeq(wire, n + 1, Len(wire)) /\ left' = n
    BY <1>8 DEF RxRead
  <2>2. rpc = "read" /\ rpc' = "byte" /\ rx_buffer_size' = 0
        /\ UNCHANGED <<eRcvState, ucRTUBuf, usRcvBufferPos, armed>>
    BY <1>8 DEF RxRead, rtuVars, timerVars
  <2>3. /\ Len(rx_buffer') = n /\ \A i \in 1..n : rx_buffer'[i] = wire[i]
        /\ Len(wire') = Len(wire) - n /\ \A i \in 1..Len(wire') : wire'[i] = wire[n + i]
    <3>1. \A i \in 1..Len(wire) : wire[i] \in Byte
      BY <1>0
    <3>2. Len(rx_buffer') = n /\ \A i \in 1..n : rx_buffer'[i] = wire[i]
      BY <1>0, <2>1, <3>1, SubSeqProperties
    <3>. QED  BY <1>0, <2>1, <3>1, <3>2, SubSeqProperties
  <2>4. Ahead' = Ahead /\ Got' = Got
    BY <1>0, <1>4, <2>1, <2>2, <2>3 DEF Ahead, Got
  <2>5. Chunk'
    <3>1. Len(rx_buffer') + Len(wire') = Len(wire) /\ Len(wire) <= Size[asked]
      <4>1. Got = Size[asked] - (Len(wire) + 0)
        BY <2>2 DEF Got, Ahead
      <4>. QED  BY <1>0, <1>3, <1>7, <2>3, <4>1
    <3>2. \A i \in 1..n : rx_buffer'[i] = Nth(Size[asked] - Len(wire) + i)
      <4>. SUFFICES ASSUME NEW i \in 1..n PROVE rx_buffer'[i] = Nth(Size[asked] - Len(wire) + i)
        OBVIOUS
      <4>. QED  BY <1>0, <1>3, <2>1, <2>3 DEF Stream
    <3>. QED  BY <1>0, <1>3, <1>4, <2>1, <2>2, <2>3, <3>1, <3>2 DEF Chunk, Nth
  <2>6. Stored => Stored'
    BY <1>7, <2>2, <2>4 DEF Stored
  <2>7. \A i \in 1..Len(wire') : wire'[i] = Nth(Size[asked] - Len(wire') + i)
    <3>. SUFFICES ASSUME NEW i \in 1..Len(wire') PROVE wire'[i] = Nth(Size[asked] - Len(wire') + i)
      OBVIOUS
    <3>1. n + i \in 1..Len(wire) /\ Size[asked] - Len(wire) + (n + i) = Size[asked] - Len(wire') + i
      BY <1>0, <1>3, <2>1, <2>3
    <3>2. wire[n + i] = Nth(Size[asked] - Len(wire) + (n + i))
      BY <1>3, <3>1 DEF Stream
    <3>. QED  BY <2>3, <3>1, <3>2
  <2>8. Stream'
    BY <1>3, <1>4, <1>7, <2>2, <2>4, <2>5, <2>6, <2>7 DEF Stream, Nth
  <2>9. Receiving'
    BY <1>2, <1>4, <2>2, <2>4 DEF Receiving, Before, LineEmpty, TxIdle, AtPoll, NoneLeft
  <2>. QED  BY <1>5, <1>6, <2>8, <2>9 DEF Orderly, Phases
<1>9. CASE RxByte
  <2>1. /\ byte' = rx_buffer[rx_buffer_size + 1] /\ rx_buffer_size' = rx_buffer_size + 1
        /\ seen' = eRcvState /\ rpc = "byte" /\ rpc' = "act"
        /\ UNCHANGED <<wire, rx_buffer, left, eRcvState, ucRTUBuf, usRcvBufferPos, armed>>
    BY <1>2, <1>9 DEF RxByte, Receiving, Before, TxIdle, lineVars, rtuVars, timerVars
  <2>2. Chunk
    BY <1>3, <2>1 DEF Stream
  <2>3. Ahead' = Ahead /\ Got' = Got
    BY <1>4, <2>1 DEF Ahead, Got
  <2>4. byte' = Nth(Got + 1)
    <3>1. rx_buffer_size + 1 \in 1..Len(rx_buffer)
      BY <1>0, <2>1, <2>2 DEF Chunk
    <3>2. Size[asked] - Len(wire) - Len(rx_buffer) + (rx_buffer_size + 1) = Got + 1
      <4>1. Got = Size[asked] - (Len(wire) + left) /\ rx_buffer_size + left = Len(rx_buffer)
        BY <2>1, <2>2 DEF Chunk, Got, Ahead
      <4>. QED  BY <1>0, <1>3, <1>7, <4>1
    <3>. QED  BY <2>1, <2>2, <3>1, <3>2 DEF Chunk
  <2>5. Chunk'
    BY <1>0, <1>4, <1>7, <2>1, <2>2 DEF Chunk
  <2>6. Stored => Stored'
    BY <1>7, <2>1, <2>3 DEF Stored
  <2>7. Stream'
    BY <1>3, <1>4, <1>7, <2>1, <2>3, <2>4, <2>5, <2>6 DEF Stream
  <2>8. Receiving'
    BY <1>2, <1>4, <2>1, <2>3 DEF Receiving, Before, LineEmpty, TxIdle, AtPoll, NoneLeft
  <2>. QED  BY <1>5, <1>6, <2>7, <2>8 DEF Orderly, Phases
<1>10. CASE RxAct
  <2>1. rpc = "act" /\ rpc' = "arm" /\ UNCHANGED <<wire, rx_buffer, rx_buffer_size, left, armed>>
    BY <1>10 DEF RxAct, lineVars, timerVars
  <2>2. Chunk /\ byte = Nth(Got + 1) /\ seen = eRcvState /\ (Got > 0 => Stored)
    BY <1>3, <2>1 DEF Stream
  <2>3. Got' = Got + 1 /\ Got < Size[asked]
    BY <1>0, <1>3, <1>4, <2>1, <2>2 DEF Ahead, Got, Chunk
  <2>4. eRcvState' = "RCV" /\ usRcvBufferPos' = Got + 1 /\ ucRTUBuf' = [ucRTUBuf EXCEPT ![Got + 1] = byte]
    <3>1. CASE Got = 0
      <4>1. seen = "IDLE"
        BY <1>2, <2>2, <3>1 DEF Receiving
      <4>. QED  BY <1>10, <3>1, <4>1 DEF RxAct
    <3>2. CASE Got # 0
      <4>1. eRcvState = "RCV" /\ seen = "RCV"
        BY <1>2, <2>2, <3>2 DEF Receiving
      <4>2. usRcvBufferPos = Got /\ usRcvBufferPos < PduSizeMax
        BY <1>3, <1>7, <2>2, <2>3, <3>2 DEF Stored
      <4>3. eRcvState' = eRcvState
        BY <1>3, <1>7, <1>10, <4>1, <4>2 DEF RxAct
      <4>. QED  BY <1>10, <4>1, <4>2, <4>3 DEF RxAct
    <3>. QED  BY <3>1, <3>2
  <2>5. Stored'
    <3>1. ucRTUBuf \in [1..PduSizeMax -> Byte]
      BY DEF IInv, TypeOK, RtuOK
    <3>2. \A i \in 1..(Got + 1) : ucRTUBuf'[i] = Nth(i)
      <4>. SUFFICES ASSUME NEW i \in 1..(Got + 1) PROVE ucRTUBuf'[i] = Nth(i)
        OBVIOUS
      <4>1. i \in 1..PduSizeMax /\ Got + 1 \in 1..PduSizeMax
        BY <1>3, <1>7, <2>3
      <4>2. i # Got + 1 => i \in 1..Got /\ Got > 0
        BY <1>7
      <4>. QED  BY <2>2, <2>4, <3>1, <4>1, <4>2 DEF Stored
    <3>. QED  BY <1>7, <2>3, <2>4, <3>2 DEF Stored
  <2>6. Chunk'
    BY <1>0, <1>4, <1>7, <2>1, <2>2 DEF Chunk
  <2>7. Stream'
    BY <1>3, <1>4, <1>7, <2>1, <2>3, <2>5, <2>6 DEF Stream
  <2>8. Receiving'
    BY <1>2, <1>4, <1>7, <2>1, <2>3, <2>4 DEF Receiving, Before, LineEmpty, TxIdle, AtPoll, NoneLeft
  <2>. QED  BY <1>5, <1>6, <2>7, <2>8 DEF Orderly, Phases
<1>11. CASE RxArm
  <2>1. /\ rpc = "arm" /\ left' = left - 1 /\ rpc' = (IF left = 1 THEN "read" ELSE "byte") /\ armed'
        /\ UNCHANGED <<wire, rx_buffer, rx_buffer_size, byte, eRcvState, ucRTUBuf, usRcvBufferPos>>
    BY <1>11 DEF RxArm, lineVars, rtuVars
  <2>2. Chunk /\ Got > 0 /\ Stored
    BY <1>2, <1>3, <2>1 DEF Stream, Receiving
  <2>3. Got' = Got
    BY <1>0, <1>3, <1>4, <2>1, <2>2 DEF Ahead, Got, Chunk
  <2>4. rpc' # "read" => Chunk'
    BY <1>0, <1>4, <1>7, <2>1, <2>2 DEF Chunk
  <2>5. Stored'
    BY <1>7, <2>1, <2>2, <2>3 DEF Stored
  <2>6. Stream'
    BY <1>3, <1>4, <1>7, <2>1, <2>3, <2>4, <2>5 DEF Stream
  <2>7. eRcvState = "RCV"
    BY <1>2, <2>2 DEF Receiving
  <2>8. LineEmpty' => Timing'
    BY <1>2, <1>4, <2>1, <2>7 DEF Receiving, Timing, Ticking, Before, LineEmpty, TxIdle, AtPoll, NoneLeft
  <2>9. ~LineEmpty' => Receiving'
    BY <1>2, <1>4, <2>1, <2>2, <2>3, <2>7 DEF Receiving, Before, LineEmpty, TxIdle, AtPoll, NoneLeft
  <2>. QED  BY <1>5, <1>6, <2>6, <2>8, <2>9 DEF Orderly, Phases
<1>. QED  BY <1>8, <1>9, <1>10, <1>11 DEF RxStep

(* The timer expires, its handler posts what has come and makes the         *)
(* receiver ready.                                                          *)
LEMMA HandlerKeepsOrder ==
  ASSUME InTime, IInv, Orderly, Expire \/ HandlerStep
  PROVE  Orderly'
<1>. USE DEF rxVars, rtuVars, timerVars, mainVars, txVars, Ticking, Ringing, Still, TxIdle
<1>1. CASE Expire
  <2>1. LineEmpty /\ mpc = "poll" /\ armed /\ (Starting \/ Timing)
    BY <1>1 DEF InTime, Expire, LineEmpty, Orderly, Phases, Resting, Receiving, Announcing, Handling,
       Replying
  <2>2. NoAssertFails' /\ History' /\ (asked' # 0 => Stream') /\ LineEmpty' /\ UNCHANGED <<asked, runs>>
    BY <1>1, <2>1, LineKept DEF Expire
  <2>3. Starting' \/ Timing'
    BY <1>1, <2>1, <2>2 DEF Expire, Starting, Timing, Before, NoneLeft
  <2>. QED  BY <2>2, <2>3 DEF Orderly, Phases
<1>2. CASE Interrupt
  <2>1. LineEmpty /\ alarm /\ (Starting \/ Timing)
    BY <1>2 DEF Interrupt, Orderly, Phases, Starting, Timing, Resting, Receiving, Announcing, Handling,
       Replying
  <2>2. NoAssertFails' /\ History' /\ (asked' # 0 => Stream') /\ LineEmpty' /\ UNCHANGED <<asked, runs>>
    BY <1>2, <2>1, LineKept DEF Interrupt
  <2>3. Starting' \/ Timing'
    BY <1>2, <2>1, <2>2 DEF Interrupt, Starting, Timing, Before, NoneLeft
  <2>. QED  BY <2>2, <2>3 DEF Orderly, Phases
<1>3. CASE HandlerEnter
  <2>1. LineEmpty /\ hpc = "enter" /\ (Starting \/ Timing)
    BY <1>3 DEF HandlerEnter, Orderly, Phases, Starting, Timing, Resting, Receiving, Announcing,
       Handling, Replying
  <2>2. NoAssertFails' /\ History' /\ (asked' # 0 => Stream') /\ LineEmpty' /\ UNCHANGED <<asked, runs>>
    BY <1>3, <2>1, LineKept DEF HandlerEnter
  <2>3. Starting' \/ Timing'
    BY <1>3, <2>1, <2>2 DEF HandlerEnter, Starting, Timing, Before, NoneLeft
  <2>. QED  BY <2>2, <2>3 DEF Orderly, Phases
<1>4. CASE HandlerSwitch
  <2>1. LineEmpty /\ hpc = "switch" /\ (Starting \/ Timing)
    BY <1>4 DEF HandlerSwitch, Orderly, Phases, Starting, Timing, Resting, Receiving, Announcing,
       Handling, Replying
  <2>2. /\ eRcvState \in {"INIT", "RCV"} /\ hpc' = "disable"
        /\ events' = Append(events, IF eRcvState = "INIT" THEN "READY" ELSE "FRAME_RECEIVED")
        /\ UNCHANGED <<lineVars, rxVars, rtuVars, armed, alarm, mpc, rcv, txVars, failed>>
    BY <1>4, <2>1 DEF HandlerSwitch, Starting, Timing
  <2>3. NoAssertFails' /\ History' /\ (asked' # 0 => Stream') /\ LineEmpty' /\ UNCHANGED <<asked, runs>>
    BY <2>1, <2>2, LineKept
  <2>4. CASE Starting
    <3>1. events' = <<"READY">>
      BY <2>1, <2>2, <2>4, Queues DEF Starting
    <3>2. Starting'
      BY <2>1, <2>2, <2>3, <2>4, <3>1 DEF Starting
    <3>. QED  BY <2>3, <3>2 DEF Orderly, Phases
  <2>5. CASE Timing
    <3>1. events' = Append(events, "FRAME_RECEIVED")
      BY <2>2, <2>5 DEF Timing
    <3>2. OneHere'
      <4>1. events = <<>> => events' = <<"FRAME_RECEIVED">>
        BY <3>1, Queues
      <4>2. events = <<"FRAME_SENT">> => events' = <<"FRAME_SENT", "FRAME_RECEIVED">>
        <5>1. Append(<<"FRAME_SENT">>, "FRAME_RECEIVED") = <<"FRAME_SENT", "FRAME_RECEIVED">>
          BY Queues
        <5>. QED  BY <3>1, <5>1
      <4>. QED  BY <2>5, <4>1, <4>2 DEF Timing, NoneLeft, OneHere
    <3>3. Announcing'
      BY <2>1, <2>2, <2>3, <2>5, <3>2 DEF Timing, Announcing, Before
    <3>. QED  BY <2>3, <3>3 DEF Orderly, Phases
  <2>. QED  BY <2>1, <2>4, <2>5
<1>5. CASE HandlerDisable
  <2>1. LineEmpty /\ hpc = "disable" /\ (Starting \/ Announcing)
    BY <1>5 DEF HandlerDisable, Orderly, Phases, Starting, Timing, Resting, Receiving, Announcing,
       Handling, Replying
  <2>2. NoAssertFails' /\ History' /\ (asked' # 0 => Stream') /\ LineEmpty' /\ UNCHANGED <<asked, runs>>
    BY <1>5, <2>1, LineKept DEF HandlerDisable
  <2>3. Starting' \/ Announcing'
    BY <1>5, <2>1, <2>2 DEF HandlerDisable, Starting, Announcing, Before, OneHere
  <2>. QED  BY <2>2, <2>3 DEF Orderly, Phases
<1>6. CASE HandlerIdle
  <2>1. LineEmpty /\ hpc = "idle" /\ (Starting \/ Announcing)
    BY <1>6 DEF HandlerIdle, Orderly, Phases, Starting, Timing, Resting, Receiving, Announcing,
       Handling, Replying
  <2>2. NoAssertFails' /\ History' /\ (asked' # 0 => Stream') /\ LineEmpty' /\ UNCHANGED <<asked, runs>>
    BY <1>6, <2>1, LineKept DEF HandlerIdle
  <2>3. Starting => Resting'
    BY <1>6, <2>1, <2>2 DEF HandlerIdle, Starting, Resting, AtPoll
  <2>4. Announcing => Handling'
    BY <1>6, <2>1, <2>2 DEF HandlerIdle, Announcing, Handling, Before, OneHere
  <2>. QED  BY <2>1, <2>2, <2>3, <2>4 DEF Orderly, Phases
<1>. QED  BY <1>1, <1>2, <1>3, <1>4, <1>5, <1>6 DEF HandlerStep

(* The main thread polls, receives, executes and answers.                   *)
LEMMA MainKeepsOrder ==
  ASSUME InTime, IInv, Orderly, MainStep
  PROVE  Orderly'
<1>. USE DEF rxVars, rtuVars, timerVars, mainVars, txVars, Ticking, Ringing, Still, TxIdle, MainRuns
<1>1. CASE Start
  <2>1. LineEmpty /\ Starting
    BY <1>1 DEF Start, Orderly, Phases, Starting, Timing, Resting, Receiving, Announcing, Handling,
       Replying, AtPoll
  <2>2. NoAssertFails' /\ History' /\ (asked' # 0 => Stream') /\ LineEmpty' /\ UNCHANGED <<asked, runs>>
    BY <1>1, <2>1, LineKept DEF Start
  <2>3. Starting'
    BY <1>1, <2>1, <2>2 DEF Start, Starting
  <2>. QED  BY <2>2, <2>3 DEF Orderly, Phases
<1>2. CASE Started
  <2>1. LineEmpty /\ Starting
    BY <1>2 DEF Started, Orderly, Phases, Starting, Timing, Resting, Receiving, Announcing, Handling,
       Replying, AtPoll
  <2>2. NoAssertFails' /\ History' /\ (asked' # 0 => Stream') /\ LineEmpty' /\ UNCHANGED <<asked, runs>>
    BY <1>2, <2>1, LineKept DEF Started
  <2>3. Starting'
    BY <1>2, <2>1, <2>2 DEF Started, Starting
  <2>. QED  BY <2>2, <2>3 DEF Orderly, Phases
<1>3. CASE Poll
  <2>1. /\ mpc = "poll" /\ events # <<>> /\ events' = Tail(events) /\ hpc = "none"
        /\ mpc' = (CASE Head(events) = "FRAME_RECEIVED" -> "receive"
                     [] Head(events) = "EXECUTE" -> "execute"
                     [] OTHER -> "poll")
        /\ UNCHANGED <<lineVars, rxVars, rtuVars, timerVars, rcv, txVars, failed>>
    BY <1>3 DEF Poll
  <2>2. /\ NoAssertFails' /\ History' /\ (asked' # 0 => Stream') /\ LineEmpty' = LineEmpty
        /\ Got' = Got /\ Answered' = Answered /\ UNCHANGED <<asked, runs>>
    BY <2>1, LineKept
  <2>3. /\ events = <<"FRAME_SENT">> => events' = <<>> /\ mpc' = "poll"
        /\ events = <<"READY">> => events' = <<>> /\ mpc' = "poll"
        /\ events = <<"FRAME_RECEIVED">> => events' = <<>> /\ mpc' = "receive"
        /\ events = <<"FRAME_SENT", "FRAME_RECEIVED">> => events' = <<"FRAME_RECEIVED">> /\ mpc' = "poll"
        /\ events = <<"EXECUTE">> => events' = <<>> /\ mpc' = "execute"
    BY <2>1, Queues
  <2>4. Resting \/ Receiving \/ Timing \/ Handling \/ Replying
    BY <2>1, Queues DEF Orderly, Phases, Starting, Announcing
  <2>5. Resting => Resting'
    BY <2>1, <2>2, <2>3 DEF Resting, AtPoll, NoneLeft
  <2>6. Receiving => Receiving'
    BY <2>1, <2>2, <2>3 DEF Receiving, AtPoll, NoneLeft, Before
  <2>7. Timing => Timing'
    BY <2>1, <2>2, <2>3 DEF Timing, NoneLeft, Before
  <2>8. Handling => Handling'
    BY <2>1, <2>2, <2>3 DEF Handling, OneHere, Before, Whose
  <2>9. Replying => Replying'
    <3>1. Sent => Sent'
      BY <2>1, <2>2 DEF Sent, Nth
    <3>2. Frame(asked)' = Frame(asked)
      BY <2>2 DEF Frame
    <3>. QED  BY <2>1, <2>2, <2>3, <3>1, <3>2 DEF Replying, AtPoll, NoneLeft, Whose
  <2>. QED  BY <2>2, <2>4, <2>5, <2>6, <2>7, <2>8, <2>9 DEF Orderly, Phases
<1>4. CASE Receive
  <2>1. mpc = "receive" /\ LineEmpty /\ Handling
    BY <1>4 DEF Receive, Orderly, Phases, Starting, Timing, Resting, Receiving, Announcing, Handling,
       Replying, AtPoll
  <2>2. asked \in Requests /\ Size[asked] \in Nat \ {0} /\ Size[asked] < PduSizeMax
    BY <2>1, RtuAssumption DEF Handling, Before, IInv, TypeOK, LineOK, InTime
  <2>3. Stored /\ Got = Size[asked]
    <3>1. Len(wire) = 0
      BY <2>1 DEF LineEmpty
    <3>2. Got = Size[asked]
      BY <2>1, <2>2, <3>1 DEF Got, Ahead, LineEmpty
    <3>. QED  BY <2>1, <2>2, <3>2 DEF Orderly, Stream, Handling, Before
  <2>4. /\ mutex_protect' = "main"
        /\ \/ \E r \in Received : rcv' = r /\ mpc' = "received"
           \/ mpc' = "exit" /\ UNCHANGED rcv
        /\ UNCHANGED <<lineVars, rxVars, rtuVars, armed, alarm, hpc, events, txVars, failed>>
    <3>1. usRcvBufferPos < PduSizeMax /\ ~(usRcvBufferPos >= PduSizeMax)
      BY <2>2, <2>3, RtuAssumption DEF Stored
    <3>2. ~(usRcvBufferPos >= PduSizeMax /\ Abort("receive"))
      BY <3>1
    <3>. QED  BY <1>4, <3>1, <3>2 DEF Receive
  <2>5. NoAssertFails' /\ History' /\ (asked' # 0 => Stream') /\ LineEmpty' /\ UNCHANGED <<asked, runs>>
    BY <2>1, <2>4, LineKept
  <2>6. ASSUME NEW r \in Received PROVE r = asked /\ Good[r] /\ Size[r] >= PduSizeMin
    <3>1. r \in Requests /\ Whole(r)
      BY DEF Received
    <3>2. 1 \in 1..usRcvBufferPos /\ 1 \in 1..Size[r] /\ 1 \in 1..Got
      BY <2>2, <2>3, <3>1 DEF Stored, Whole
    <3>3. ucRTUBuf[1] = Nth(1) /\ ucRTUBuf[1] = Frame(r)[1]
      BY <2>3, <3>1, <3>2 DEF Stored, Whole
    <3>. QED  BY <3>1, <3>2, <3>3 DEF Frame, Nth, Whole
  <2>7. CASE mpc' = "exit"
    <3>1. Resting'
      BY <2>1, <2>4, <2>5, <2>7 DEF Handling, Before, Resting, AtPoll, NoneLeft
    <3>. QED  BY <2>5, <3>1 DEF Orderly, Phases
  <2>8. CASE \E r \in Received : rcv' = r /\ mpc' = "received"
    <3>1. rcv' = asked /\ mpc' = "received" /\ Good[asked] /\ Size[asked] >= PduSizeMin
      BY <2>6, <2>8
    <3>2. Handling'
      BY <2>1, <2>4, <2>5, <3>1 DEF Handling, Before, Whose
    <3>. QED  BY <2>5, <3>2 DEF Orderly, Phases
  <2>. QED  BY <2>4, <2>7, <2>8
<1>5. CASE Addressed
  <2>1. mpc = "received" /\ LineEmpty /\ Handling /\ events = <<>> /\ Whose
    BY <1>5 DEF Addressed, Orderly, Phases, Starting, Timing, Resting, Receiving, Announcing, Handling,
       Replying, AtPoll
  <2>2. NoAssertFails' /\ History' /\ (asked' # 0 => Stream') /\ LineEmpty' /\ UNCHANGED <<asked, runs>>
    BY <1>5, <2>1, LineKept DEF Addressed
  <2>3. asked \in Requests /\ Target[asked] \in {"me", "all", "other"}
    BY <2>1, RtuAssumption DEF Handling, Before, IInv, TypeOK, LineOK
  <2>4. CASE Target[asked] = "other"
    <3>1. Resting'
      BY <1>5, <2>1, <2>2, <2>4 DEF Addressed, Handling, Before, Resting, AtPoll, NoneLeft, Whose
    <3>. QED  BY <2>2, <3>1 DEF Orderly, Phases
  <2>5. CASE Target[asked] # "other"
    <3>1. events' = <<"EXECUTE">>
      BY <1>5, <2>1, <2>3, <2>5, Queues DEF Addressed, Whose
    <3>2. Handling'
      BY <1>5, <2>1, <2>2, <2>5, <3>1 DEF Addressed, Handling, Before, Whose
    <3>. QED  BY <2>2, <3>2 DEF Orderly, Phases
  <2>. QED  BY <2>4, <2>5
<1>6. CASE Execute
  <2>1. mpc = "execute" /\ LineEmpty /\ Handling /\ events = <<>> /\ Whose /\ Target[asked] # "other"
    BY <1>6 DEF Execute, Orderly, Phases, Starting, Timing, Resting, Receiving, Announcing, Handling,
       Replying, AtPoll
  <2>2. asked \in Requests /\ Target[asked] \in {"me", "all"} /\ Good[asked] /\ rcv = asked /\ runs[asked] = 0
        /\ Size[asked] \in Nat /\ Size[asked] >= 2 /\ PduSizeMin \in Nat
    BY <2>1, RtuAssumption DEF Handling, Before, IInv, TypeOK, LineOK, Whose, InTime
  <2>3. ucRTUBuf[2].req = asked
    <3>1. Len(wire) = 0
      BY <2>1 DEF LineEmpty
    <3>2. Got = Size[asked]
      BY <2>1, <2>2, <3>1 DEF Got, Ahead, LineEmpty
    <3>3. Stored /\ 2 \in 1..Got
      BY <2>1, <2>2, <3>2 DEF Orderly, Stream, Handling, Before
    <3>4. ucRTUBuf[2] = Nth(2)
      BY <3>3 DEF Stored
    <3>. QED  BY <3>4 DEF Nth
  <2>4. runs' = [r \in Requests |-> IF r = asked THEN runs[r] + 1 ELSE runs[r]]
    BY <1>6, <2>3 DEF Execute
  <2>5. UNCHANGED <<asked, wire, replies, rxVars, rtuVars, timerVars, events, rcv, txVars, failed>>
    BY <1>6 DEF Execute
  <2>6. runs \in [Requests -> Nat]
    BY DEF IInv, TypeOK, LineOK
  <2>7. runs'[asked] = 1 /\ \A r \in Requests : runs'[r] >= runs[r]
    BY <2>2, <2>4, <2>6
  <2>8. History'
    <3>1. RunsOnce'
      BY <2>2, <2>4, <2>6 DEF Orderly, History, RunsOnce
    <3>2. RepliesCorrect'
      <4>. SUFFICES ASSUME NEW i \in 1..Len(replies)
                    PROVE  \E r \in Requests :
                             replies[i] = Frame(r) /\ Target[r] = "me" /\ Good[r] /\ runs'[r] > 0
        BY <2>5 DEF RepliesCorrect
      <4>1. PICK r \in Requests : replies[i] = Frame(r) /\ Target[r] = "me" /\ Good[r] /\ runs[r] > 0
        BY DEF Orderly, History, RepliesCorrect
      <4>2. runs'[r] > 0
        BY <2>2, <2>4, <2>6, <4>1
      <4>. QED  BY <4>1, <4>2
    <3>3. \A r \in Requests : r > asked => runs'[r] = 0
      BY <2>2, <2>4 DEF Orderly, History, Requests
    <3>. QED  BY <2>5, <3>1, <3>2, <3>3 DEF History
  <2>9. Stream' /\ NoAssertFails' /\ LineEmpty'
    BY <2>1, <2>2, <2>5, StreamKept DEF Orderly, NoAssertFails, LineEmpty, Requests
  <2>10. ~Answered'
    <3>1. ~Answered
      BY <2>2, AnsweredRan DEF Orderly
    <3>. QED  BY <2>5, <3>1 DEF Answered
  <2>11. CASE Target[asked] = "all"
    <3>1. Resting'
      BY <1>6, <2>1, <2>2, <2>5, <2>9, <2>11 DEF Execute, Handling, Before, Resting, AtPoll, NoneLeft
    <3>. QED  BY <2>8, <2>9, <3>1 DEF Orderly, Phases
  <2>12. CASE Target[asked] = "me"
    <3>1. Replying'
      BY <1>6, <2>1, <2>2, <2>5, <2>7, <2>9, <2>10, <2>12 DEF Execute, Handling, Before, Replying, Whose
    <3>. QED  BY <2>8, <2>9, <3>1 DEF Orderly, Phases
  <2>. QED  BY <2>2, <2>11, <2>12
<1>7. CASE Send
  <2>1. mpc = "send" /\ LineEmpty /\ Replying /\ TxIdle /\ events = <<>> /\ eRcvState = "IDLE"
    BY <1>7 DEF Send, Orderly, Phases, Starting, Timing, Resting, Receiving, Announcing, Handling,
       Replying, AtPoll
  <2>2. NoAssertFails' /\ History' /\ (asked' # 0 => Stream') /\ LineEmpty' /\ Answered' = Answered
        /\ UNCHANGED <<asked, runs>>
    BY <1>7, <2>1, LineKept DEF Send, lineVars
  <2>3. mpc' = "exit" /\ pucSndBufferCur' = 1 /\ usSndBufferCount' = Size[asked] /\ eSndState' = "XMIT"
        /\ tx_buffer' = <<>> /\ tx_semaphore' = 1 /\ xpc' = "wait"
    BY <1>7, <2>1 DEF Send, Replying, Whose
  <2>4. Sent'
    <3>1. Size[asked] \in Nat
      BY <2>1, RtuAssumption DEF Replying, IInv, TypeOK, LineOK
    <3>2. Len(tx_buffer') = 0
      BY <2>3
    <3>. QED  BY <2>2, <2>3, <3>1, <3>2 DEF Sent
  <2>5. Replying'
    BY <1>7, <2>1, <2>2, <2>3, <2>4 DEF Send, Replying, AtPoll, Whose
  <2>. QED  BY <2>2, <2>5 DEF Orderly, Phases
<1>8. CASE Exit
  <2>1. mpc = "exit" /\ mpc' = "poll"
        /\ UNCHANGED <<lineVars, rxVars, rtuVars, armed, alarm, hpc, events, rcv, txVars, failed>>
    BY <1>8 DEF Exit
  <2>2. /\ NoAssertFails' /\ History' /\ (asked' # 0 => Stream') /\ LineEmpty' = LineEmpty
        /\ Got' = Got /\ Answered' = Answered /\ UNCHANGED <<asked, runs>>
    BY <2>1, LineKept
  <2>3. Resting \/ Receiving \/ Timing \/ Replying
    BY <2>1 DEF Orderly, Phases, Starting, Announcing, Handling
  <2>4. Resting => Resting'
    BY <2>1, <2>2 DEF Resting, AtPoll, NoneLeft
  <2>5. Receiving => Receiving'
    BY <2>1, <2>2 DEF Receiving, AtPoll, NoneLeft, Before
  <2>6. Timing => Timing'
    BY <2>1, <2>2 DEF Timing, NoneLeft, Before
  <2>7. Replying => Replying'
    <3>1. Sent => Sent'
      BY <2>1, <2>2 DEF Sent, Nth
    <3>2. Frame(asked)' = Frame(asked)
      BY <2>2 DEF Frame
    <3>. QED  BY <2>1, <2>2, <3>1, <3>2 DEF Replying, AtPoll, NoneLeft, Whose
  <2>. QED  BY <2>2, <2>3, <2>4, <2>5, <2>6, <2>7 DEF Orderly, Phases
<1>. QED  BY <1>1, <1>2, <1>3, <1>4, <1>5, <1>6, <1>7, <1>8 DEF MainStep

(* The transmitter sends the frame in the buffer back.                      *)
LEMMA TxKeepsOrder ==
  ASSUME InTime, IInv, Orderly, TxStep
  PROVE  Orderly'
<1>. USE DEF rxVars, rtuVars, timerVars, mainVars, txVars
<1>1. xpc # "wait" \/ tx_semaphore > 0
  BY DEF TxStep, TxWait, TxAssert, TxNothing, TxByte, TxDone, TxWrite
<1>2. Replying /\ ~TxIdle
  BY <1>1 DEF Orderly, Phases, Starting, Timing, Resting, Receiving, Announcing, Handling, Before, TxIdle
<1>3. /\ asked \in Requests /\ Size[asked] \in Nat \ {0} /\ LineEmpty /\ eRcvState = "IDLE"
      /\ pucSndBufferCur \in Nat /\ usSndBufferCount \in Nat /\ tx_buffer \in Seq(Byte)
      /\ Len(tx_buffer) \in Nat /\ Target[asked] = "me" /\ Good[asked] /\ runs[asked] = 1
  BY <1>2, RtuAssumption DEF Replying, IInv, TypeOK, LineOK, TxOK, Whose
<1>4. CASE TxWait
  <2>1. NoAssertFails' /\ History' /\ (asked' # 0 => Stream') /\ LineEmpty' /\ Answered' = Answered
        /\ UNCHANGED <<asked, runs>>
    BY <1>3, <1>4, LineKept DEF TxWait
  <2>2. Sent => Sent'
    BY <1>4, <2>1 DEF TxWait, Sent, Nth
  <2>3. Replying'
    BY <1>2, <1>4, <2>1, <2>2 DEF TxWait, Replying, Still, AtPoll, Whose, TxIdle
  <2>. QED  BY <2>1, <2>3 DEF Orderly, Phases
<1>5. CASE TxAssert
  BY <1>3, <1>5 DEF TxAssert
<1>6. CASE TxNothing
  BY <1>2, <1>6 DEF TxNothing, Replying, TxIdle
<1>7. CASE TxByte
  <2>1. NoAssertFails' /\ History' /\ (asked' # 0 => Stream') /\ LineEmpty' /\ Answered' = Answered
        /\ UNCHANGED <<asked, runs>>
    BY <1>3, <1>7, LineKept DEF TxByte
  <2>2. Sent /\ AtPoll /\ events = <<>> /\ tx_semaphore = 0 /\ xpc = "fsm"
    BY <1>2, <1>7 DEF TxByte, Replying, TxIdle
  <2>3. pucSndBufferCur \in 1..Size[asked]
    BY <1>3, <1>7, <2>2 DEF TxByte, Sent
  <2>4. ucRTUBuf[pucSndBufferCur] = Nth(pucSndBufferCur)
    <3>1. Len(wire) = 0
      BY <1>3 DEF LineEmpty
    <3>2. Got = Size[asked]
      BY <1>3, <3>1 DEF Got, Ahead, LineEmpty
    <3>3. Stored
      BY <1>3, <3>2 DEF Orderly, Stream, Requests
    <3>. QED  BY <2>3, <3>2, <3>3 DEF Stored
  <2>5. ucRTUBuf[pucSndBufferCur] \in Byte
    BY <1>3, <2>3, <2>4 DEF Nth, Byte
  <2>6. /\ Len(tx_buffer') = Len(tx_buffer) + 1
        /\ \A i \in 1..Len(tx_buffer) : tx_buffer'[i] = tx_buffer[i]
        /\ tx_buffer'[Len(tx_buffer) + 1] = Nth(pucSndBufferCur)
    BY <1>3, <1>7, <2>4, <2>5, AppendProperties DEF TxByte
  <2>7. pucSndBufferCur' = pucSndBufferCur + 1 /\ usSndBufferCount' = usSndBufferCount - 1
    BY <1>7 DEF TxByte
  <2>8. Sent'
    <3>1. ASSUME NEW i \in 1..Len(tx_buffer') PROVE tx_buffer'[i] = Nth(i)
      <4>1. i \in 1..Len(tx_buffer) \/ i = Len(tx_buffer) + 1
        BY <1>3, <2>6
      <4>. QED  BY <2>2, <2>6, <4>1 DEF Sent
    <3>2. pucSndBufferCur' + usSndBufferCount' = Size[asked] + 1 /\ Len(tx_buffer') + 1 = pucSndBufferCur'
      BY <1>3, <2>2, <2>6, <2>7 DEF Sent
    <3>. QED  BY <2>1, <3>1, <3>2 DEF Sent, Nth
  <2>9. Replying'
    BY <1>2, <1>7, <2>1, <2>2, <2>8 DEF TxByte, Replying, Still, AtPoll, Whose, TxIdle
  <2>. QED  BY <2>1, <2>9 DEF Orderly, Phases
<1>8. CASE TxDone
  <2>1. NoAssertFails' /\ History' /\ (asked' # 0 => Stream') /\ LineEmpty' /\ Answered' = Answered
        /\ UNCHANGED <<asked, runs>>
    BY <1>3, <1>8, LineKept DEF TxDone
  <2>2. Sent /\ AtPoll /\ events = <<>> /\ tx_semaphore = 0 /\ xpc = "fsm"
    BY <1>2, <1>8 DEF TxDone, Replying, TxIdle
  <2>3. tx_buffer = Frame(asked)
    <3>1. Len(tx_buffer) = Size[asked]
      BY <1>3, <1>8, <2>2 DEF TxDone, Sent
    <3>2. Frame(asked) \in Seq(Byte) /\ Len(Frame(asked)) = Size[asked]
      BY <1>3, FrameIsBytes DEF Frame
    <3>3. \A i \in 1..Len(tx_buffer) : tx_buffer[i] = Frame(asked)[i]
      BY <2>2, <3>1 DEF Sent, Nth, Frame
    <3>. QED  BY <1>3, <3>1, <3>2, <3>3, SeqEqual
  <2>4. events' = <<"FRAME_SENT">>
    BY <1>8, <2>2, Queues DEF TxDone
  <2>5. Frame(asked)' = Frame(asked)
    BY <2>1 DEF Frame
  <2>6. Replying'
    BY <1>2, <1>8, <2>1, <2>2, <2>3, <2>4, <2>5
       DEF TxDone, Replying, Still, AtPoll, NoneLeft, Whose, TxIdle
  <2>. QED  BY <2>1, <2>6 DEF Orderly, Phases
<1>9. CASE TxWrite
  <2>1. tx_buffer = Frame(asked) /\ AtPoll /\ NoneLeft /\ eSndState = "IDLE" /\ tx_semaphore = 0
    BY <1>2, <1>9 DEF TxWrite, Replying, TxIdle
  <2>2. replies' = Append(replies, Frame(asked)) /\ xpc' = "wait"
        /\ UNCHANGED <<asked, wire, runs, rxVars, rtuVars, timerVars, mainVars, tx_semaphore, failed>>
    BY <1>9, <2>1 DEF TxWrite
  <2>3. Stream' /\ NoAssertFails' /\ LineEmpty'
    BY <1>3, <2>2, StreamKept DEF Orderly, NoAssertFails, LineEmpty, Requests
  <2>4. RepliesCorrect'
    <3>. SUFFICES ASSUME NEW i \in 1..Len(replies')
                  PROVE  \E r \in Requests :
                           replies'[i] = Frame(r) /\ Target[r] = "me" /\ Good[r] /\ runs[r] > 0
      BY <2>2 DEF RepliesCorrect
    <3>1. replies \in Seq(Seq(Byte)) /\ Frame(asked) \in Seq(Byte)
      BY <1>3, FrameIsBytes DEF IInv, TypeOK, LineOK
    <3>2. /\ Len(replies') = Len(replies) + 1 /\ Len(replies) \in Nat
          /\ \A j \in 1..Len(replies) : replies'[j] = replies[j]
          /\ replies'[Len(replies) + 1] = Frame(asked)
      BY <2>2, <3>1, AppendProperties
    <3>3. CASE i = Len(replies) + 1
      BY <1>3, <3>2, <3>3
    <3>4. CASE i \in 1..Len(replies)
      BY <3>2, <3>4 DEF Orderly, History, RepliesCorrect
    <3>. QED  BY <3>2, <3>3, <3>4
  <2>5. History'
    BY <2>2, <2>4 DEF Orderly, History, RunsOnce
  <2>6. Resting'
    BY <1>2, <2>1, <2>2, <2>3 DEF Replying, Resting, Still, AtPoll, NoneLeft, TxIdle
  <2>. QED  BY <2>3, <2>5, <2>6 DEF Orderly, Phases
<1>. QED  BY <1>4, <1>5, <1>6, <1>7, <1>8, <1>9 DEF TxStep

(* The slave starts in order, and each step keeps it.                       *)
LEMMA InOrder ==
  ASSUME InTime
  PROVE  /\ Init => Orderly
         /\ IInv /\ Orderly /\ [Next]_vars => Orderly'
<1>1. ASSUME Init PROVE Orderly
  <2>1. Starting
    BY <1>1 DEF Init, Starting, LineEmpty, TxIdle, Still
  <2>2. History
    BY <1>1, RtuAssumption DEF Init, History, RunsOnce, RepliesCorrect
  <2>. QED  BY <1>1, <2>1, <2>2 DEF Init, Orderly, Phases, NoAssertFails
<1>2. ASSUME IInv, Orderly, UNCHANGED vars PROVE Orderly'
  <2>1. /\ NoAssertFails' /\ History' /\ (asked' # 0 => Stream') /\ LineEmpty' = LineEmpty
        /\ Got' = Got /\ Answered' = Answered /\ UNCHANGED <<asked, runs>>
    BY <1>2, LineKept DEF vars, rxVars, rtuVars
  <2>2. Sent => Sent'
    BY <1>2 DEF vars, lineVars, txVars, Sent, Nth
  <2>3. Frame(asked)' = Frame(asked)
    BY <2>1 DEF Frame
  <2>4. Phases'
    BY <1>2, <2>1, <2>2, <2>3 DEF vars, rxVars, rtuVars, timerVars, mainVars, txVars, Orderly, Phases,
       Starting, Resting, Receiving, Timing, Announcing, Handling, Replying, Before, Whose, Still,
       Ticking, Ringing, TxIdle, AtPoll, NoneLeft, OneHere
  <2>. QED  BY <2>1, <2>4 DEF Orderly
<1>. QED
  BY <1>1, <1>2, SendKeepsOrder, RxKeepsOrder, HandlerKeepsOrder, MainKeepsOrder, TxKeepsOrder DEF Next

(* mbrtu.c: with a polite master and threads in time, no assertion fails:   *)
(* no character comes while the transmitter is busy, the timer never fires  *)
(* at an idle receiver, and what is transmitted, is transmitted from idle.  *)
THEOREM AssertionsHold == InTime => (Spec => []NoAssertFails)
<1>. SUFFICES ASSUME InTime PROVE Spec => []NoAssertFails
  OBVIOUS
<1>1. Init => IInv /\ Orderly
  BY Starts, InOrder
<1>2. IInv /\ Orderly /\ [Next]_vars => (IInv /\ Orderly)'
  BY Step, InOrder
<1>3. IInv /\ Orderly => NoAssertFails
  BY DEF Orderly
<1>. QED  BY <1>1, <1>2, <1>3, PTL DEF Spec

(* With such a master each reply is the frame that was asked for, whole and *)
(* executed, and no frame is executed twice, or if it is damaged or for     *)
(* another slave - although every request and reply shares one buffer.      *)
THEOREM PoliteMaster == InTime => (MCSpec => []PoliteServed)
<1>. SUFFICES ASSUME InTime PROVE MCSpec => []PoliteServed
  OBVIOUS
<1>. DEFINE Inv == which = "polite" => IInv /\ Orderly
<1>1. MCInit => Inv
  BY Starts, InOrder DEF MCInit
<1>2. Inv /\ [MCNext]_<<which, vars, asciiVars>> => Inv'
  <2>1. IInv /\ Orderly /\ [Next]_vars => IInv' /\ Orderly'
    BY Step, InOrder
  <2>. QED  BY <2>1 DEF MCNext, PoliteNext, BusyNext, AsciiNext
<1>3. Inv => PoliteServed
  BY DEF PoliteServed, Orderly, History
<1>. QED  BY <1>1, <1>2, <1>3, PTL DEF MCSpec

\* The character handed over last, and the last one of a frame.
LastOf(r) == IF r = 0 THEN Nul ELSE [req |-> r, at |-> Size[r]]
Handed ==
  IF asked = 0 THEN byte = Nul
  ELSE rpc # "act" => byte = IF Got > 0 THEN Nth(Got) ELSE LastOf(asked - 1)

(* Each step leaves the character that the receiver was handed last the one *)
(* before those that are still ahead.                                       *)
LEMMA HandedKept ==
  ASSUME InTime, IInv, Orderly, Handed, [Next]_vars
  PROVE  Handed'
<1>1. /\ Len(wire) \in Nat /\ wire \in Seq(Byte) /\ left \in Nat /\ asked \in Nat
      /\ rpc \in {"read", "byte", "act", "arm"}
  BY DEF IInv, TypeOK, LineOK, RxOK, Requests
<1>2. ~LineEmpty => asked \in Requests /\ Size[asked] \in Nat \ {0} /\ Stream
  <2>1. ~LineEmpty => Receiving
    BY DEF Orderly, Phases, Starting, Resting, Timing, Announcing, Handling, Replying
  <2>. QED  BY <2>1, RtuAssumption DEF Receiving, Before, Orderly, IInv, TypeOK, LineOK
<1>3. CASE SendFrame
  <2>. DEFINE r == asked + 1
  <2>1. Resting
    BY <1>3, RestingWhenAsked DEF SendFrame, InTime
  <2>2. asked' = r /\ r \in Requests /\ wire' = <<>> \o Frame(r) /\ wire = <<>> /\ rpc = "read"
        /\ UNCHANGED <<rpc, byte, left>>
    BY <1>3, <2>1 DEF SendFrame, Resting, LineEmpty, rxVars
  <2>3. wire' = Frame(r) /\ Size[r] \in Nat /\ Len(Frame(r)) = Size[r]
    BY <2>2, FrameIsBytes, ConcatEmptySeq, RtuAssumption DEF Frame
  <2>4. Got' = 0
    BY <2>2, <2>3 DEF Got, Ahead
  <2>5. byte = LastOf(asked)
    <3>1. CASE asked = 0
      BY <3>1 DEF Handed, LastOf
    <3>2. CASE asked # 0
      <4>1. Size[asked] \in Nat \ {0}
        BY <1>1, <2>2, <3>2, RtuAssumption DEF Requests, IInv, TypeOK, LineOK
      <4>2. Len(wire) = 0
        BY <2>2
      <4>3. Got = Size[asked]
        BY <2>2, <4>1, <4>2 DEF Got, Ahead
      <4>. QED  BY <2>2, <3>2, <4>1, <4>3 DEF Handed, LastOf, Nth
    <3>. QED  BY <3>1, <3>2
  <2>6. asked' # 0 /\ asked' - 1 = asked
    BY <1>1, <2>2
  <2>. QED  BY <2>2, <2>4, <2>5, <2>6 DEF Handed, LastOf
<1>4. CASE RxRead
  <2>1. PICK n \in 1..Len(wire) : wire' = SubSeq(wire, n + 1, Len(wire)) /\ left' = n
    BY <1>4 DEF RxRead
  <2>2. rpc = "read" /\ rpc' = "byte" /\ UNCHANGED <<asked, byte>> /\ wire # <<>>
    BY <1>4, <2>1 DEF RxRead
  <2>3. Len(wire') = Len(wire) - n
    <3>1. \A i \in 1..Len(wire) : wire[i] \in Byte
      BY <1>1
    <3>. QED  BY <1>1, <2>1, <3>1, SubSeqProperties
  <2>4. Got' = Got
    <3>1. Ahead' = Ahead
      BY <1>1, <2>1, <2>2, <2>3 DEF Ahead
    <3>. QED  BY <2>2, <3>1 DEF Got
  <2>. QED  BY <2>2, <2>4 DEF Handed, Nth, LastOf
<1>5. CASE RxByte
  <2>1. asked # 0 /\ eSndState = "IDLE"
    BY <1>2, <1>5 DEF RxByte, LineEmpty, Requests, Orderly, Phases, Starting, Resting, Receiving, Timing, Announcing,
                      Handling, Replying, Before, TxIdle
  <2>2. rpc' = "act" /\ asked' = asked
    BY <1>5, <2>1 DEF RxByte, lineVars
  <2>. QED  BY <2>1, <2>2 DEF Handed
<1>6. CASE RxAct
  <2>1. rpc = "act" /\ rpc' = "arm" /\ UNCHANGED <<wire, left, byte, asked>>
    BY <1>6 DEF RxAct, lineVars
  <2>2. asked \in Requests /\ asked # 0 /\ Size[asked] \in Nat /\ byte = Nth(Got + 1) /\ Got \in Nat /\ left >= 1
    BY <1>1, <1>2, <2>1 DEF LineEmpty, Stream, Chunk, Requests, Got, Ahead
  <2>3. Got' = Got + 1
    BY <1>1, <2>1, <2>2 DEF Got, Ahead
  <2>. QED  BY <2>1, <2>2, <2>3 DEF Handed, Nth
<1>7. CASE RxArm
  <2>1. rpc = "arm" /\ left' = left - 1 /\ rpc' = (IF left = 1 THEN "read" ELSE "byte")
        /\ UNCHANGED <<wire, byte, asked>>
    BY <1>7 DEF RxArm, lineVars
  <2>2. Ahead' = Ahead
    BY <1>1, <2>1 DEF Ahead
  <2>3. Got' = Got
    BY <2>1, <2>2 DEF Got
  <2>. QED  BY <2>1, <2>3 DEF Handed, Nth, LastOf
<1>8. CASE UNCHANGED <<asked, wire, rpc, left, byte>>
  <2>1. Got' = Got
    BY <1>8 DEF Got, Ahead
  <2>. QED  BY <1>8, <2>1 DEF Handed, Nth, LastOf
<1>9. Expire \/ HandlerStep \/ MainStep \/ TxStep \/ UNCHANGED vars => UNCHANGED <<asked, wire, rpc, left, byte>>
  <2>. USE DEF lineVars, rxVars, rtuVars, timerVars, mainVars, txVars, Abort
  <2>1. Expire \/ UNCHANGED vars => UNCHANGED <<asked, wire, rpc, left, byte>>
    BY DEF Expire, vars
  <2>2. HandlerStep => UNCHANGED <<asked, wire, rpc, left, byte>>
    BY DEF HandlerStep, Interrupt, HandlerEnter, HandlerSwitch, HandlerDisable, HandlerIdle
  <2>3. MainStep => UNCHANGED <<asked, wire, rpc, left, byte>>
    BY DEF MainStep, Start, Started, Poll, Receive, Addressed, Execute, Send, Exit
  <2>4. TxStep => UNCHANGED <<asked, wire, rpc, left, byte>>
    BY DEF TxStep, TxWait, TxAssert, TxNothing, TxByte, TxDone, TxWrite
  <2>. QED  BY <2>1, <2>2, <2>3, <2>4
<1>. QED  BY <1>3, <1>4, <1>5, <1>6, <1>7, <1>8, <1>9 DEF Next, RxStep

(* So what is handed over next follows it.                                  *)
LEMMA NextIsNew ==
  ASSUME InTime, IInv, Orderly, Handed
  PROVE  GetByteIsNew
<1>1. /\ Len(wire) \in Nat /\ left \in Nat /\ asked \in Nat /\ rx_buffer_size \in Nat /\ Len(rx_buffer) \in Nat
      /\ asked \in Requests \cup {0}
  BY DEF IInv, TypeOK, LineOK, RxOK, Requests
<1>2. asked # 0 => asked \in Requests /\ Size[asked] \in Nat \ {0} /\ Stream
  BY <1>1, RtuAssumption DEF Orderly
<1>3. ASSUME rpc = "byte" PROVE GetByteInRange /\ rx_buffer[rx_buffer_size + 1] = Following(byte)
  <2>1. asked # 0 /\ Stream /\ Chunk /\ Size[asked] \in Nat \ {0}
    <3>1. Receiving
      BY <1>3 DEF Orderly, Phases, Starting, Resting, Timing, Announcing, Handling, Replying, LineEmpty
    <3>. QED  BY <1>2, <1>3, <3>1 DEF Receiving, Before, Stream
  <2>2. rx_buffer_size + left = Len(rx_buffer) /\ left >= 1
    BY <1>3, <2>1 DEF Chunk
  <2>3. GetByteInRange
    BY <1>1, <2>2 DEF GetByteInRange
  <2>4. Got \in Nat /\ Got = Size[asked] - (Len(wire) + left)
    BY <1>1, <1>3, <2>1 DEF Got, Ahead, Stream
  <2>5. rx_buffer[rx_buffer_size + 1] = Nth(Got + 1)
    <3>1. rx_buffer_size + 1 \in 1..Len(rx_buffer)
      BY <1>1, <2>2
    <3>2. Size[asked] - Len(wire) - Len(rx_buffer) + (rx_buffer_size + 1) = Got + 1
      BY <1>1, <2>1, <2>2, <2>4
    <3>. QED  BY <2>1, <3>1, <3>2 DEF Chunk
  <2>6. Following(byte) = Nth(Got + 1)
    <3>1. CASE Got > 0
      <4>1. byte = Nth(Got) /\ Got < Size[asked]
        BY <1>1, <1>3, <2>1, <2>2, <2>4, <3>1 DEF Handed
      <4>2. byte.req = asked /\ byte.at = Got /\ byte # Nul
        BY <2>1, <4>1 DEF Nth, Nul
      <4>. QED  BY <4>1, <4>2 DEF Following, Nth
    <3>2. CASE Got = 0
      <4>1. byte = LastOf(asked - 1)
        BY <1>3, <2>1, <3>2 DEF Handed
      <4>2. CASE asked = 1
        BY <3>2, <4>1, <4>2 DEF LastOf, Following, Nul, Nth
      <4>3. CASE asked # 1
        <5>1. asked - 1 # 0 /\ asked - 1 \in Requests
          BY <1>1, <2>1, <4>3, RtuAssumption DEF Requests
        <5>2. byte.req = asked - 1 /\ byte.at = Size[asked - 1] /\ Size[asked - 1] \in Nat
          BY <4>1, <5>1, RtuAssumption DEF LastOf
        <5>3. ~(byte.at < Size[byte.req]) /\ byte.req + 1 = asked
          BY <1>1, <5>2
        <5>. QED  BY <3>2, <5>3 DEF Following, Nth
      <4>. QED  BY <4>2, <4>3
    <3>. QED  BY <2>4, <3>1, <3>2
  <2>. QED  BY <2>3, <2>5, <2>6
<1>4. ASSUME rpc = "read", wire = <<>>, asked # 0 PROVE byte = [req |-> asked, at |-> Size[asked]]
  <2>1. Len(wire) = 0
    BY <1>4
  <2>2. Got = Size[asked] /\ Got > 0
    BY <1>2, <1>4, <2>1 DEF Got, Ahead
  <2>. QED  BY <1>4, <2>2 DEF Handed, Nth
<1>. QED  BY <1>3, <1>4 DEF GetByteIsNew

----------------------------------------------------------------------
(* MbAscii.  The slave is at work from the end of a frame to the end of     *)
(* its reply.                                                               *)
AtWork == aEvents # <<>> \/ aMpc # "poll" \/ transmitting

\* A frame on the line is followed by a silence or ends the line.
Spaced(q) ==
  \A i \in 1..(Len(q) - 1) :
    q[i] = Ascii!CR /\ q[i + 1] = Ascii!LF => i + 1 = Len(q) \/ q[i + 2] = Ascii!Silence
Hushed(q) == q = <<>> \/ q[1] = Ascii!Silence

\* Whatever is sent ends with CR and LF: with nothing on the line the receiver
\* is idle, and before the LF it does not take data.
Ended ==
  /\ line = <<>> => aRcvState = "IDLE"
  /\ Len(line) = 1 => line[1] = Ascii!LF /\ aRcvState # "RCV"
  /\ Len(line) > 1 => line[Len(line) - 1] = Ascii!CR /\ line[Len(line)] = Ascii!LF

\* While the slave is at work, the receiver is idle and the line silent; the
\* timer runs exactly as long as the receiver is not idle, but for the stray
\* character; half a byte is only waited for where there is room.
AscInv ==
  /\ Ascii!AssertsHold
  /\ line \in Seq(Character) /\ Spaced(line) /\ Ended
  /\ aRcvState \in {"IDLE", "RCV", "WAIT_EOF"} /\ aRcvBufferPos \in 0..AscPduSizeMax
  /\ aRcvState = "WAIT_EOF" /\ line # <<>> /\ line[1] = Ascii!LF => Hushed(Tail(line))
  /\ AtWork => aRcvState = "IDLE" /\ Hushed(line)
  /\ aSndState # "IDLE" => transmitting
  /\ aRcvState = "IDLE" /\ aArmed => stray
  /\ aRcvState # "IDLE" => aArmed
  /\ aRcvState = "RCV" /\ eBytePos = "LOW" => aRcvBufferPos < AscPduSizeMax

(* The characters that are no digits.                                       *)
LEMMA Kinds ==
  /\ Ascii!Colon \in Character /\ Ascii!CR \in Character /\ Ascii!LF \in Character
  /\ Ascii!Colon.kind = "colon" /\ Ascii!CR.kind = "CR" /\ Ascii!LF.kind = "LF"
  /\ Ascii!Silence.kind = "silence"
BY DEF Ascii!Colon, Ascii!CR, Ascii!LF, Ascii!Silence, Ascii!Char, Character

(* A request on the line: its only CR stands before its last character.     *)
LEMMA AscFrame ==
  ASSUME NEW r \in DOMAIN AscSize
  PROVE  /\ Ascii!Frame(r) \in Seq(Character) /\ Len(Ascii!Frame(r)) > 1
         /\ Ascii!Frame(r)[1] = Ascii!Colon
         /\ Ascii!Frame(r)[Len(Ascii!Frame(r)) - 1] = Ascii!CR
         /\ Ascii!Frame(r)[Len(Ascii!Frame(r))] = Ascii!LF
         /\ \A i \in 1..Len(Ascii!Frame(r)) :
              Ascii!Frame(r)[i] = Ascii!CR => i + 1 = Len(Ascii!Frame(r))
<1>. DEFINE n == AscSize[r]
            D == Ascii!Digits(r, n)
            E == <<Ascii!CR, Ascii!LF>>
<1>1. n \in Nat /\ r \in Nat
  BY AsciiAssumption
<1>2. D \in Seq(Character) /\ Len(D) = 2 * n /\ \A i \in 1..(2 * n) : D[i].kind = "digit"
  <2>1. ASSUME NEW j \in 1..(2 * n)
        PROVE  /\ Ascii!Digit(r, (j + 1) \div 2, IF j % 2 = 1 THEN 1 ELSE 2) \in Character
               /\ Ascii!Digit(r, (j + 1) \div 2, IF j % 2 = 1 THEN 1 ELSE 2).kind = "digit"
    <3>1. (j + 1) \div 2 \in Nat
      BY <1>1
    <3>. QED  BY <1>1, <3>1 DEF Ascii!Digit, Character
  <2>2. D \in [1..(2 * n) -> Character] /\ \A i \in 1..(2 * n) : D[i].kind = "digit"
    BY <2>1 DEF Ascii!Digits
  <2>. QED  BY <1>1, <2>2, SeqDef
<1>3. <<Ascii!Colon>> \in Seq(Character) /\ Len(<<Ascii!Colon>>) = 1 /\ <<Ascii!Colon>>[1] = Ascii!Colon
  BY Kinds
<1>4. E \in Seq(Character) /\ Len(E) = 2 /\ E[1] = Ascii!CR /\ E[2] = Ascii!LF
  BY Kinds
<1>. HIDE DEF D, E, n
<1>. DEFINE C == <<Ascii!Colon>>
            G == C \o D
            F == G \o E
<1>. HIDE DEF C
<1>5. /\ G \in Seq(Character) /\ Len(G) = 1 + 2 * n
      /\ G[1] = Ascii!Colon /\ \A i \in 2..(1 + 2 * n) : G[i].kind = "digit"
  <2>1. C \in Seq(Character) /\ Len(C) = 1 /\ C[1] = Ascii!Colon
    BY <1>3 DEF C
  <2>2. /\ G \in Seq(Character) /\ Len(G) = Len(C) + Len(D)
        /\ \A i \in 1..Len(G) : G[i] = IF i <= Len(C) THEN C[i] ELSE D[i - Len(C)]
    BY <1>2, <2>1, ConcatProperties
  <2>3. G[1] = Ascii!Colon
    BY <1>1, <1>2, <2>1, <2>2
  <2>4. ASSUME NEW i \in 2..(1 + 2 * n) PROVE G[i].kind = "digit"
    <3>1. G[i] = D[i - 1] /\ i - 1 \in 1..(2 * n)
      BY <1>1, <1>2, <2>1, <2>2
    <3>. QED  BY <1>2, <3>1
  <2>. QED  BY <1>2, <2>1, <2>2, <2>3, <2>4
<1>. HIDE DEF G
<1>6. /\ F \in Seq(Character) /\ Len(F) = 3 + 2 * n
      /\ \A i \in 1..(1 + 2 * n) : F[i] = G[i]
      /\ F[2 + 2 * n] = Ascii!CR /\ F[3 + 2 * n] = Ascii!LF
  <2>1. /\ F \in Seq(Character) /\ Len(F) = Len(G) + Len(E)
        /\ \A i \in 1..Len(F) : F[i] = IF i <= Len(G) THEN G[i] ELSE E[i - Len(G)]
    <3>1. G \in Seq(Character) /\ E \in Seq(Character)
      BY <1>4, <1>5
    <3>. QED  BY <3>1, ConcatProperties
  <2>2. Len(F) = 3 + 2 * n
    BY <1>1, <1>4, <1>5, <2>1
  <2>3. \A i \in 1..(1 + 2 * n) : F[i] = G[i]
    BY <1>1, <1>5, <2>1, <2>2
  <2>4. F[2 + 2 * n] = E[1] /\ F[3 + 2 * n] = E[2]
    BY <1>1, <1>5, <2>1, <2>2
  <2>. QED  BY <1>4, <2>1, <2>2, <2>3, <2>4
<1>. HIDE DEF F
<1>7. F[1] = Ascii!Colon
  BY <1>1, <1>5, <1>6
<1>8. ASSUME NEW i \in 1..Len(F), F[i] = Ascii!CR PROVE i + 1 = Len(F)
  <2>1. i # 1 /\ i # 3 + 2 * n
    BY <1>6, <1>7, <1>8, Kinds
  <2>2. i \notin 2..(1 + 2 * n)
    <3>1. i \in 2..(1 + 2 * n) => F[i].kind = "digit"
      BY <1>1, <1>5, <1>6
    <3>. QED  BY <1>8, <3>1, Kinds
  <2>. QED  BY <1>1, <1>6, <2>1, <2>2
<1>9. Ascii!Frame(r) = F
  BY DEF Ascii!Frame, F, G, C, D, E, n
<1>. QED  BY <1>1, <1>6, <1>7, <1>8, <1>9

(* Behind what may stand before it, too, a request is spaced.               *)
LEMMA LineSpaced ==
  ASSUME NEW r \in DOMAIN AscSize, NEW n \in Noise
  PROVE  /\ n \o Ascii!Frame(r) \in Seq(Character) /\ Spaced(n \o Ascii!Frame(r))
         /\ Len(n \o Ascii!Frame(r)) > 1
         /\ (n \o Ascii!Frame(r))[Len(n \o Ascii!Frame(r)) - 1] = Ascii!CR
         /\ (n \o Ascii!Frame(r))[Len(n \o Ascii!Frame(r))] = Ascii!LF
<1>. DEFINE F == Ascii!Frame(r)
            L == n \o F
<1>1. n \in Seq(Character) /\ Calm(n)
  BY AsciiAssumption
<1>2. /\ F \in Seq(Character) /\ Len(F) > 1 /\ F[1] = Ascii!Colon
      /\ F[Len(F) - 1] = Ascii!CR /\ F[Len(F)] = Ascii!LF
      /\ \A i \in 1..Len(F) : F[i] = Ascii!CR => i + 1 = Len(F)
  BY AscFrame
<1>. HIDE DEF F
<1>3. /\ L \in Seq(Character) /\ Len(L) = Len(n) + Len(F)
      /\ \A i \in 1..Len(L) : L[i] = IF i <= Len(n) THEN n[i] ELSE F[i - Len(n)]
  BY <1>1, <1>2, ConcatProperties
<1>. HIDE DEF L
<1>4. Len(n) \in Nat /\ Len(F) \in Nat
  BY <1>1, <1>2
<1>5. ASSUME NEW i \in 1..(Len(L) - 1), L[i] = Ascii!CR, L[i + 1] = Ascii!LF
      PROVE  i + 1 = Len(L) \/ L[i + 2] = Ascii!Silence
  <2>1. CASE i < Len(n)
    <3>1. n[i] = Ascii!CR /\ n[i + 1] = Ascii!LF
      BY <1>3, <1>4, <1>5, <2>1
    <3>2. i + 2 <= Len(n) /\ n[i + 2] = Ascii!Silence
      BY <1>1, <1>4, <2>1, <3>1 DEF Calm
    <3>. QED  BY <1>3, <1>4, <3>2
  <2>2. CASE i = Len(n)
    BY <1>2, <1>3, <1>4, <1>5, <2>2, Kinds
  <2>3. CASE i > Len(n)
    <3>1. i - Len(n) \in 1..Len(F) /\ F[i - Len(n)] = Ascii!CR
      BY <1>3, <1>4, <1>5, <2>3
    <3>2. (i - Len(n)) + 1 = Len(F)
      BY <1>2, <3>1
    <3>. QED  BY <1>3, <1>4, <3>2
  <2>. QED  BY <1>4, <2>1, <2>2, <2>3
<1>6. Len(L) > 1 /\ L[Len(L) - 1] = Ascii!CR /\ L[Len(L)] = Ascii!LF
  <2>1. /\ Len(L) > 1 /\ Len(L) \in 1..Len(L) /\ Len(L) - 1 \in 1..Len(L)
        /\ Len(L) > Len(n) /\ Len(L) - 1 > Len(n)
        /\ Len(L) - Len(n) = Len(F) /\ (Len(L) - 1) - Len(n) = Len(F) - 1
    BY <1>2, <1>3, <1>4
  <2>2. L[Len(L)] = F[Len(L) - Len(n)] /\ L[Len(L) - 1] = F[(Len(L) - 1) - Len(n)]
    BY <1>3, <1>4, <2>1
  <2>. QED  BY <1>2, <2>1, <2>2
<1>. QED  BY <1>3, <1>5, <1>6 DEF Spaced, L, F

(* A character less on the line.                                            *)
LEMMA TailSpaced ==
  ASSUME NEW q \in Seq(Character), q # <<>>, Spaced(q)
  PROVE  /\ Tail(q) \in Seq(Character) /\ Spaced(Tail(q)) /\ q[1] = Head(q)
         /\ q[1] = Ascii!CR /\ Tail(q) # <<>> /\ Tail(q)[1] = Ascii!LF => Hushed(Tail(Tail(q)))
<1>1. /\ Tail(q) \in Seq(Character) /\ Len(Tail(q)) = Len(q) - 1 /\ Len(q) \in Nat \ {0} /\ Len(Tail(q)) \in Nat
      /\ \A i \in 1..Len(Tail(q)) : Tail(q)[i] = q[i + 1]
  BY HeadTailProperties
<1>2. Spaced(Tail(q))
  <2>. SUFFICES ASSUME NEW i \in 1..(Len(Tail(q)) - 1),
                       Tail(q)[i] = Ascii!CR, Tail(q)[i + 1] = Ascii!LF
                PROVE  i + 1 = Len(Tail(q)) \/ Tail(q)[i + 2] = Ascii!Silence
    BY DEF Spaced
  <2>1. i + 1 \in 1..(Len(q) - 1) /\ q[i + 1] = Ascii!CR /\ q[(i + 1) + 1] = Ascii!LF
    BY <1>1
  <2>2. (i + 1) + 1 = Len(q) \/ q[(i + 1) + 2] = Ascii!Silence
    BY <2>1 DEF Spaced
  <2>. DEFINE m == Len(Tail(q))
  <2>3. m \in Nat /\ i \in 1..(m - 1) /\ Len(q) = m + 1 /\ \A j \in 1..m : Tail(q)[j] = q[j + 1]
    BY <1>1
  <2>. HIDE DEF m
  <2>4. i + 1 = m \/ Tail(q)[i + 2] = q[(i + 1) + 2]
    BY <2>3
  <2>5. i + 1 = m \/ Tail(q)[i + 2] = Ascii!Silence
    BY <2>2, <2>3, <2>4
  <2>. QED  BY <2>5 DEF m
<1>3. ASSUME q[1] = Ascii!CR, Tail(q) # <<>>, Tail(q)[1] = Ascii!LF
      PROVE  Hushed(Tail(Tail(q)))
  <2>1. /\ Len(Tail(Tail(q))) = Len(q) - 2 /\ Len(q) >= 2 /\ Tail(Tail(q)) \in Seq(Character)
        /\ \A i \in 1..Len(Tail(Tail(q))) : Tail(Tail(q))[i] = q[i + 2]
    BY <1>1, <1>3, HeadTailProperties
  <2>2. q[1 + 1] = Ascii!LF
    BY <1>1, <1>3, <2>1
  <2>3. Len(q) = 2 \/ q[1 + 2] = Ascii!Silence
    <3>1. 1 \in 1..(Len(q) - 1) /\ (1 + 1 = Len(q) <=> Len(q) = 2)
      BY <1>1, <2>1
    <3>. QED  BY <1>3, <2>2, <3>1 DEF Spaced
  <2>4. Len(q) = 2 => Tail(Tail(q)) = <<>>
    <3>1. Len(q) = 2 => Len(Tail(Tail(q))) = 0
      BY <1>1, <2>1
    <3>. QED  BY <2>1, <3>1, EmptySeq
  <2>. QED  BY <1>1, <2>1, <2>3, <2>4 DEF Hushed
<1>. QED  BY <1>1, <1>2, <1>3

(* The slave at rest is sent noise and a request.                           *)
LEMMA AscSend ==
  ASSUME AscInv, Ascii!SendRequest
  PROVE  AscInv'
<1>1. PICK n \in Noise : line' = n \o Ascii!Frame(aAsked + 1)
  BY DEF Ascii!SendRequest
<1>2. aAsked + 1 \in DOMAIN AscSize
  BY DEF Ascii!SendRequest, Ascii!Requests
<1>3. /\ line' \in Seq(Character) /\ Spaced(line') /\ Len(line') > 1
      /\ line'[Len(line') - 1] = Ascii!CR /\ line'[Len(line')] = Ascii!LF
  BY <1>1, <1>2, LineSpaced
<1>4. ~AtWork /\ UNCHANGED <<aEvents, aMpc, transmitting, aRcvState, aRcvBufferPos, aSndState, aArmed, stray,
                             eBytePos, aFailed>>
  BY DEF Ascii!SendRequest, Ascii!AtRest, AtWork, Ascii!rxVars, Ascii!txVars, Ascii!mainVars
<1>5. aRcvState = "IDLE"
  BY DEF Ascii!SendRequest, Ascii!AtRest, AscInv, Ended
<1>6. Ended'
  <2>1. line' # <<>> /\ Len(line') \in Nat /\ Len(line') # 1
    BY <1>3
  <2>. QED  BY <1>3, <2>1 DEF Ended
<1>. QED  BY <1>3, <1>4, <1>5, <1>6 DEF AscInv, AtWork, Ascii!AssertsHold

(* A character less: what is left ends as before.                           *)
LEMMA TailEnded ==
  ASSUME line \in Seq(Character), line # <<>>, Ended, line' = Tail(line),
         Len(line) = 1 => aRcvState' = "IDLE",
         Len(line) = 2 => aRcvState' # "RCV"
  PROVE  Ended'
<1>1. /\ Tail(line) \in Seq(Character) /\ Len(line) \in Nat \ {0}
      /\ \A i \in 1..Len(Tail(line)) : Tail(line)[i] = line[i + 1]
  BY HeadTailProperties
<1>. DEFINE m == Len(Tail(line))
<1>2. m \in Nat /\ Len(line) = m + 1 /\ Len(line') = m
  BY HeadTailProperties
<1>3. \A i \in 1..m : line'[i] = line[i + 1]
  BY <1>1
<1>. HIDE DEF m
<1>4. m = 0 => line' = <<>> /\ aRcvState' = "IDLE"
  BY <1>1, <1>2, EmptySeq
<1>5. m = 1 => line'[1] = Ascii!LF /\ aRcvState' # "RCV"
  <2>1. m = 1 => Len(line) = 2 /\ Len(line) > 1 /\ line'[1] = line[2]
    <3>. SUFFICES ASSUME m = 1 PROVE Len(line) = 2 /\ Len(line) > 1 /\ line'[1] = line[2]
      OBVIOUS
    <3>1. Len(line) = 2 /\ Len(line) > 1 /\ 1 \in 1..m /\ 1 + 1 = 2
      BY <1>2
    <3>2. line'[1] = line[1 + 1]
      BY <1>3, <3>1
    <3>3. line'[1] = line[2]
      BY ONLY <3>1, <3>2
    <3>. QED  BY <3>1, <3>3
  <2>. QED  BY <2>1 DEF Ended
<1>6. m > 1 => line'[m - 1] = Ascii!CR /\ line'[m] = Ascii!LF
  BY <1>2, <1>3 DEF Ended
<1>7. line' = <<>> => m = 0
  BY <1>2
<1>. QED  BY <1>2, <1>4, <1>5, <1>6, <1>7 DEF Ended

(* xMBASCIIReceiveFSM: it never runs while the transmitter does, and leaves *)
(* the slave at work only with a silence or nothing ahead.                  *)
LEMMA AscReceives ==
  ASSUME AscInv, Ascii!ReceiveFSM
  PROVE  AscInv'
<1>. DEFINE c == Head(line)
<1>. USE DEF Ascii!rxVars, Ascii!txVars, Ascii!mainVars
<1>1. line # <<>> /\ c # Ascii!Silence /\ c = line[1] /\ line \in Seq(Character) /\ Spaced(line)
  BY TailSpaced DEF Ascii!ReceiveFSM, AscInv
<1>2. ~AtWork /\ aSndState = "IDLE" /\ aFailed = "none"
  BY <1>1 DEF AscInv, Hushed, AtWork, Ascii!ReceiveFSM, Ascii!Alive
<1>3. /\ line' = Tail(line)
      /\ \/ aRcvState = "RCV" /\ Ascii!Receiving(c)
         \/ aRcvState = "WAIT_EOF" /\ Ascii!WaitEof(c)
         \/ aRcvState = "IDLE" /\ Ascii!Idle(c)
      /\ aEvents' = (IF aRcvState = "WAIT_EOF" /\ c = Ascii!LF
                     THEN Append(aEvents, "FRAME_RECEIVED") ELSE aEvents)
      /\ UNCHANGED <<aSndState, transmitting, aMpc, aFailed>>
  BY <1>2 DEF Ascii!ReceiveFSM
<1>4. line' \in Seq(Character) /\ Spaced(line')
      /\ (c = Ascii!CR /\ line' # <<>> /\ line'[1] = Ascii!LF => Hushed(Tail(line')))
  BY <1>1, <1>3, TailSpaced
<1>5. Ended'
  <2>1. Len(line) = 1 => aRcvState' = "IDLE"
    <3>1. Len(line) = 1 => c = Ascii!LF /\ aRcvState # "RCV"
      BY <1>1 DEF AscInv, Ended
    <3>. QED  BY <1>3, <3>1, Kinds DEF Ascii!WaitEof, Ascii!Idle
  <2>2. Len(line) = 2 => aRcvState' # "RCV"
    <3>1. Len(line) = 2 => c = Ascii!CR
      BY <1>1 DEF AscInv, Ended
    <3>2. c = Ascii!CR => aRcvState' # "RCV"
      BY <1>3, Kinds DEF Ascii!WaitEof, Ascii!Idle, Ascii!Receiving
    <3>. QED  BY <3>1, <3>2
  <2>. QED  BY <1>1, <1>3, <2>1, <2>2, TailEnded DEF AscInv
<1>6. CASE aRcvState = "RCV"
  <2>1. /\ Ascii!Receiving(c) /\ aEvents' = aEvents /\ aArmed
        /\ aRcvBufferPos \in 0..AscPduSizeMax /\ AscPduSizeMax \in Nat
        /\ eBytePos = "LOW" => aRcvBufferPos < AscPduSizeMax
    BY <1>3, <1>6, AsciiAssumption DEF AscInv
  <2>2. /\ aRcvBufferPos' \in 0..AscPduSizeMax /\ aRcvState' \in {"IDLE", "RCV", "WAIT_EOF"}
        /\ aRcvState' = "RCV" /\ eBytePos' = "LOW" => aRcvBufferPos' < AscPduSizeMax
        /\ aRcvState' = "IDLE" => ~aArmed'
        /\ aRcvState' # "IDLE" => aArmed'
        /\ aRcvState' = "WAIT_EOF" => c = Ascii!CR
        /\ stray' = stray
    <3>1. CASE c = Ascii!Colon /\ Ascii!Restart /\ aArmed' = TRUE
      BY <1>6, <2>1, <3>1 DEF Ascii!Restart
    <3>2. CASE c = Ascii!CR /\ aRcvState' = "WAIT_EOF" /\ aArmed' = TRUE
               /\ UNCHANGED <<eBytePos, aRcvBufferPos, ucASCIIBuf, stray>>
      BY <2>1, <3>2
    <3>3. CASE Ascii!HighNibble(c)
      BY <1>6, <2>1, <3>3 DEF Ascii!HighNibble
    <3>4. CASE Ascii!LowNibble(c)
      BY <1>6, <2>1, <3>4 DEF Ascii!LowNibble
    <3>5. CASE Ascii!Overflow
      BY <2>1, <3>5 DEF Ascii!Overflow
    <3>. QED  BY <2>1, <3>1, <3>2, <3>3, <3>4, <3>5 DEF Ascii!Receiving
  <2>. QED  BY <1>2, <1>3, <1>4, <1>5, <2>1, <2>2 DEF AscInv, AtWork, Ascii!AssertsHold
<1>7. CASE aRcvState = "WAIT_EOF"
  <2>1. Ascii!WaitEof(c) /\ aArmed /\ AscPduSizeMax \in Nat /\ aRcvBufferPos \in 0..AscPduSizeMax
    BY <1>3, <1>7, AsciiAssumption DEF AscInv
  <2>2. CASE c = Ascii!LF
    <3>1. aRcvState' = "IDLE" /\ ~aArmed' /\ UNCHANGED <<aRcvBufferPos, stray>>
      BY <2>1, <2>2, Kinds DEF Ascii!WaitEof
    <3>2. Hushed(line')
      BY <1>1, <1>3, <1>7, <2>2 DEF AscInv
    <3>. QED  BY <1>2, <1>3, <1>4, <1>5, <2>1, <3>1, <3>2 DEF AscInv, AtWork, Ascii!AssertsHold
  <2>3. CASE c # Ascii!LF
    <3>1. aEvents' = aEvents
      BY <1>3, <2>3
    <3>2. CASE Ascii!BeginFrame
      <4>1. aRcvState' = "RCV" /\ aArmed' /\ aRcvBufferPos' = 0 /\ eBytePos' = "HIGH" /\ stray' = stray
        BY <3>2 DEF Ascii!BeginFrame
      <4>. QED  BY <1>2, <1>3, <1>4, <1>5, <2>1, <3>1, <4>1 DEF AscInv, AtWork, Ascii!AssertsHold
    <3>3. CASE aRcvState' = "IDLE" /\ stray' = TRUE /\ UNCHANGED <<eBytePos, aRcvBufferPos, ucASCIIBuf, aArmed>>
      BY <1>2, <1>3, <1>4, <1>5, <2>1, <3>1, <3>3 DEF AscInv, AtWork, Ascii!AssertsHold
    <3>. QED  BY <2>1, <2>3, <3>2, <3>3 DEF Ascii!WaitEof
  <2>. QED  BY <2>2, <2>3
<1>8. CASE aRcvState = "IDLE"
  <2>1. Ascii!Idle(c) /\ aEvents' = aEvents /\ AscPduSizeMax \in Nat
    BY <1>3, <1>8, AsciiAssumption
  <2>2. CASE Ascii!BeginFrame
    <3>1. aRcvState' = "RCV" /\ aArmed' /\ aRcvBufferPos' = 0 /\ eBytePos' = "HIGH" /\ stray' = stray
      BY <2>2 DEF Ascii!BeginFrame
    <3>. QED  BY <1>2, <1>3, <1>4, <1>5, <2>1, <3>1 DEF AscInv, AtWork, Ascii!AssertsHold
  <2>3. CASE UNCHANGED <<aRcvState, eBytePos, aRcvBufferPos, ucASCIIBuf, aArmed, stray>>
    BY <1>2, <1>3, <1>4, <1>5, <1>8, <2>1, <2>3 DEF AscInv, AtWork, Ascii!AssertsHold
  <2>. QED  BY <2>1, <2>2, <2>3 DEF Ascii!Idle
<1>. QED  BY <1>3, <1>6, <1>7, <1>8

(* A silence passes, or the timer expires in it.                            *)
LEMMA AscWaits ==
  ASSUME AscInv, Ascii!Quiet \/ Ascii!TimerExpired
  PROVE  AscInv'
<1>. USE DEF Ascii!rxVars, Ascii!txVars, Ascii!mainVars
<1>1. CASE Ascii!Quiet
  <2>1. /\ line # <<>> /\ Head(line) = Ascii!Silence /\ ~AtWork /\ ~aArmed /\ line' = Tail(line)
        /\ UNCHANGED <<aRcvState, eBytePos, aRcvBufferPos, aArmed, stray, aSndState, transmitting,
                       aEvents, aMpc, aFailed>>
    BY <1>1 DEF Ascii!Quiet, AtWork
  <2>2. line' \in Seq(Character) /\ Spaced(line') /\ line[1] = Head(line) /\ line \in Seq(Character)
    BY <2>1, TailSpaced DEF AscInv
  <2>3. aRcvState = "IDLE"
    BY <2>1 DEF AscInv
  <2>4. Ended'
    <3>1. Len(line) = 1 => line[1] = Ascii!LF
      BY DEF AscInv, Ended
    <3>2. Len(line) = 2 => line[1] = Ascii!CR
      <4>1. Len(line) = 2 => Len(line) > 1 /\ Len(line) - 1 = 1
        OBVIOUS
      <4>. QED  BY <4>1 DEF AscInv, Ended
    <3>3. Len(line) # 1 /\ Len(line) # 2
      BY <2>1, <2>2, <3>1, <3>2, Kinds
    <3>. QED  BY <2>1, <2>2, <3>3, TailEnded DEF AscInv
  <2>. QED  BY <2>1, <2>2, <2>3, <2>4 DEF AscInv, AtWork, Ascii!AssertsHold
<1>2. CASE Ascii!TimerExpired
  <2>1. CASE aRcvState = "IDLE"
    <3>1. aFailed' = "timer" /\ stray
          /\ UNCHANGED <<line, aRcvState, eBytePos, aRcvBufferPos, aArmed, stray, aSndState, transmitting,
                         aEvents, aMpc>>
      BY <1>2, <2>1 DEF Ascii!TimerExpired, Ascii!Abort, AscInv
    <3>2. Ended'
      BY <3>1 DEF AscInv, Ended
    <3>. QED  BY <2>1, <3>1, <3>2 DEF AscInv, AtWork, Ascii!AssertsHold
  <2>2. CASE aRcvState # "IDLE"
    <3>1. aRcvState' = "IDLE" /\ ~aArmed'
          /\ UNCHANGED <<line, eBytePos, aRcvBufferPos, stray, aSndState, transmitting, aEvents, aMpc, aFailed>>
      BY <1>2, <2>2 DEF Ascii!TimerExpired
    <3>2. Ended'
      BY <3>1 DEF AscInv, Ended
    <3>. QED  BY <2>2, <3>1, <3>2 DEF AscInv, AtWork, Ascii!AssertsHold
  <2>. QED  BY <2>1, <2>2
<1>. QED  BY <1>1, <1>2

(* The main thread and the transmitter only run with the slave at work.     *)
LEMMA AscWorks ==
  ASSUME AscInv, Ascii!Main \/ Ascii!TransmitFSM
  PROVE  AscInv'
<1>. USE DEF Ascii!rxVars, Ascii!txVars, Ascii!mainVars
<1>1. AtWork /\ UNCHANGED <<line, aRcvState, aRcvBufferPos, aArmed, stray>>
  BY DEF Ascii!Main, Ascii!Poll, Ascii!Receive, Ascii!Execute, Ascii!Send, Ascii!TransmitFSM,
     Ascii!Abort, AtWork
<1>2. aRcvState = "IDLE" /\ Hushed(line)
  BY <1>1 DEF AscInv
<1>3. aSndState' # "IDLE" => transmitting'
  BY DEF AscInv, Ascii!Main, Ascii!Poll, Ascii!Receive, Ascii!Execute, Ascii!Send, Ascii!TransmitFSM,
     Ascii!Abort, Ascii!TransmitStart, Ascii!TransmitData, Ascii!TransmitEnd, Ascii!TransmitNotify
<1>4. aFailed' = aFailed \/ (aFailed' = "receive" /\ aRcvBufferPos = AscPduSizeMax)
  BY <1>2, AsciiAssumption DEF AscInv, Ascii!Main, Ascii!Poll, Ascii!Receive, Ascii!Execute, Ascii!Send,
     Ascii!TransmitFSM, Ascii!Abort
<1>5. Ended'
  BY <1>1 DEF AscInv, Ended
<1>. QED  BY <1>1, <1>2, <1>3, <1>4, <1>5 DEF AscInv, AtWork, Ascii!AssertsHold

(* Together.                                                                *)
LEMMA AscInductive ==
  /\ Ascii!Init => AscInv
  /\ AscInv /\ [Ascii!Next]_asciiVars => AscInv'
<1>1. ASSUME Ascii!Init PROVE AscInv
  <2>1. line = <<>> /\ line \in Seq(Character) /\ Len(line) = 0
    BY <1>1, EmptySeq DEF Ascii!Init
  <2>2. Ended /\ Spaced(line)
    BY <1>1, <2>1 DEF Ended, Spaced, Ascii!Init
  <2>. QED  BY <1>1, <2>1, <2>2, AsciiAssumption DEF Ascii!Init, AscInv, AtWork, Hushed, Ascii!AssertsHold
<1>2. ASSUME AscInv, UNCHANGED asciiVars PROVE AscInv'
  BY <1>2 DEF asciiVars, AscInv, AtWork, Hushed, Ended, Ascii!AssertsHold
<1>. QED  BY <1>1, <1>2, AscSend, AscReceives, AscWaits, AscWorks DEF Ascii!Next, Ascii!Serial

(* The receiver with a master that keeps to nothing: Busy has the actions   *)
(* of MbRtu, with a buffer of two bytes.                                    *)
LEMMA BusyBounded ==
  /\ Busy!Init => usRcvBufferPos \in 0..2
  /\ usRcvBufferPos \in 0..2 /\ [Busy!Next]_vars => usRcvBufferPos' \in 0..2
<1>. USE DEF vars, lineVars, rxVars, rtuVars, timerVars, mainVars, txVars,
     Busy!lineVars, Busy!rxVars, Busy!rtuVars, Busy!timerVars, Busy!mainVars, Busy!txVars, Busy!Abort
<1>1. Busy!Init => usRcvBufferPos \in 0..2
  BY DEF Busy!Init
<1>. SUFFICES ASSUME usRcvBufferPos \in 0..2, [Busy!Next]_vars PROVE usRcvBufferPos' \in 0..2
  BY <1>1
<1>2. CASE Busy!RxAct
  BY <1>2 DEF Busy!RxAct
<1>3. CASE Busy!SendFrame \/ Busy!Expire \/ Busy!RxRead \/ Busy!RxByte \/ Busy!RxArm
  BY <1>3 DEF Busy!SendFrame, Busy!Expire, Busy!RxRead, Busy!RxByte, Busy!RxArm
<1>4. CASE Busy!HandlerStep
  BY <1>4 DEF Busy!HandlerStep, Busy!Interrupt, Busy!HandlerEnter, Busy!HandlerSwitch,
     Busy!HandlerDisable, Busy!HandlerIdle
<1>5. CASE Busy!MainStep
  BY <1>5 DEF Busy!MainStep, Busy!Start, Busy!Started, Busy!Poll, Busy!Receive, Busy!Addressed,
     Busy!Execute, Busy!Send, Busy!Exit
<1>6. CASE Busy!TxStep
  BY <1>6 DEF Busy!TxStep, Busy!TxWait, Busy!TxAssert, Busy!TxNothing, Busy!TxByte, Busy!TxDone,
     Busy!TxWrite
<1>. QED  BY <1>2, <1>3, <1>4, <1>5, <1>6 DEF Busy!Next, Busy!RxStep

\* What is left of the chunk, with such a master.
BusyChunk ==
  /\ wire \in Seq(Busy!Byte) /\ rx_buffer \in Seq(Busy!Byte) /\ rx_buffer_size \in Nat /\ left \in Nat
  /\ rpc = "byte" => left >= 1 /\ rx_buffer_size + left <= Len(rx_buffer)
  /\ rpc \in {"act", "arm"} => left >= 1 /\ rx_buffer_size + left <= Len(rx_buffer) + 1

(* Whoever resets the read index, it stays inside of the chunk.             *)
LEMMA BusyInChunk ==
  /\ Busy!Init => BusyChunk
  /\ BusyChunk /\ [Busy!Next]_vars => BusyChunk'
<1>. USE DEF vars, lineVars, rxVars, rtuVars, timerVars, mainVars, txVars,
     Busy!lineVars, Busy!rxVars, Busy!rtuVars, Busy!timerVars, Busy!mainVars, Busy!txVars, Busy!Abort
<1>1. Busy!Init => BusyChunk
  BY EmptySeq DEF Busy!Init, BusyChunk
<1>. SUFFICES ASSUME BusyChunk, [Busy!Next]_vars PROVE BusyChunk'
  BY <1>1
<1>2. CASE Busy!SendFrame
  <2>. DEFINE r == asked + 1
  <2>1. r \in {1, 2} /\ wire' = wire \o Busy!Frame(r) /\ UNCHANGED <<rpc, rx_buffer, rx_buffer_size, left>>
    BY <1>2 DEF Busy!SendFrame, Busy!Requests
  <2>2. Busy!Frame(r) \in Seq(Busy!Byte)
    <3>1. MCLongSize[r] \in Nat /\ r \in Busy!Requests
      BY <2>1 DEF MCLongSize, Busy!Requests
    <3>2. \A i \in 1..MCLongSize[r] : [req |-> r, at |-> i] \in Busy!Byte
      BY <3>1 DEF Busy!Byte
    <3>3. Busy!Frame(r) \in [1..MCLongSize[r] -> Busy!Byte]
      BY <3>1, <3>2 DEF Busy!Frame
    <3>. QED  BY <3>1, <3>3, SeqDef
  <2>3. wire' \in Seq(Busy!Byte)
    BY <2>1, <2>2, ConcatProperties DEF BusyChunk
  <2>. QED  BY <2>1, <2>3 DEF BusyChunk
<1>3. CASE Busy!RxRead
  <2>1. PICK n \in 1..Len(wire) :
          rx_buffer' = SubSeq(wire, 1, n) /\ wire' = SubSeq(wire, n + 1, Len(wire)) /\ left' = n
    BY <1>3 DEF Busy!RxRead
  <2>2. rpc' = "byte" /\ rx_buffer_size' = 0
    BY <1>3 DEF Busy!RxRead
  <2>3. Len(wire) \in Nat /\ \A i \in 1..Len(wire) : wire[i] \in Busy!Byte
    BY DEF BusyChunk
  <2>4. rx_buffer' \in Seq(Busy!Byte) /\ Len(rx_buffer') = n
    BY <2>1, <2>3, SubSeqProperties
  <2>5. wire' \in Seq(Busy!Byte)
    BY <2>1, <2>3, SubSeqProperties
  <2>. QED  BY <2>1, <2>2, <2>4, <2>5 DEF BusyChunk
<1>4. CASE Busy!RxByte \/ Busy!RxAct \/ Busy!RxArm
  <2>1. Len(rx_buffer) \in Nat /\ UNCHANGED <<wire, rx_buffer>>
    BY <1>4 DEF BusyChunk, Busy!RxByte, Busy!RxAct, Busy!RxArm
  <2>2. CASE Busy!RxByte
    BY <2>1, <2>2 DEF BusyChunk, Busy!RxByte
  <2>3. CASE Busy!RxAct
    BY <2>1, <2>3 DEF BusyChunk, Busy!RxAct
  <2>4. CASE Busy!RxArm
    BY <2>1, <2>4 DEF BusyChunk, Busy!RxArm
  <2>. QED  BY <1>4, <2>2, <2>3, <2>4
<1>5. ASSUME UNCHANGED <<wire, rpc, rx_buffer, left>>, rx_buffer_size' = rx_buffer_size \/ rx_buffer_size' = 0
      PROVE  BusyChunk'
  <2>1. Len(rx_buffer) \in Nat
    BY DEF BusyChunk
  <2>. QED  BY <1>5, <2>1 DEF BusyChunk
<1>6. ASSUME Busy!Expire \/ Busy!HandlerStep \/ Busy!MainStep \/ Busy!TxStep \/ UNCHANGED vars
      PROVE  /\ UNCHANGED <<wire, rpc, rx_buffer, left>>
             /\ rx_buffer_size' = rx_buffer_size \/ rx_buffer_size' = 0
  <2>1. CASE Busy!Expire \/ UNCHANGED vars
    BY <2>1 DEF Busy!Expire
  <2>2. CASE Busy!HandlerStep
    BY <2>2 DEF Busy!HandlerStep, Busy!Interrupt, Busy!HandlerEnter, Busy!HandlerSwitch, Busy!HandlerDisable,
                Busy!HandlerIdle
  <2>3. CASE Busy!MainStep
    BY <2>3 DEF Busy!MainStep, Busy!Start, Busy!Started, Busy!Poll, Busy!Receive, Busy!Addressed, Busy!Execute,
                Busy!Send, Busy!Exit
  <2>4. CASE Busy!TxStep
    BY <2>4 DEF Busy!TxStep, Busy!TxWait, Busy!TxAssert, Busy!TxNothing, Busy!TxByte, Busy!TxDone, Busy!TxWrite
  <2>. QED  BY <1>6, <2>1, <2>2, <2>3, <2>4
<1>. QED  BY <1>2, <1>3, <1>4, <1>5, <1>6 DEF Busy!Next, Busy!RxStep

(* portserial.cpp: with a polite master the receiver is handed each         *)
(* character of the line once and in order, for any frames and chunks,      *)
(* although two other threads reset the read index; with any other master   *)
(* it is at least handed characters of the chunk.                           *)
THEOREM LineInOrder == InTime => (MCSpec => []CharactersInOrder)
<1>. SUFFICES ASSUME InTime PROVE MCSpec => []CharactersInOrder
  OBVIOUS
<1>. DEFINE Inv == /\ which = "polite" => IInv /\ Orderly /\ Handed
                   /\ which = "busy" => BusyChunk
<1>1. MCInit => Inv
  BY Starts, InOrder, BusyInChunk DEF MCInit, Init, Handed
<1>2. Inv /\ [MCNext]_<<which, vars, asciiVars>> => Inv'
  <2>. SUFFICES ASSUME Inv, [MCNext]_<<which, vars, asciiVars>> PROVE Inv'
    OBVIOUS
  <2>1. which' = which /\ (which = "polite" => [Next]_vars) /\ (which = "busy" => [Busy!Next]_vars)
    BY DEF MCNext, PoliteNext, BusyNext, AsciiNext
  <2>2. CASE which = "polite"
    BY <2>1, <2>2, Step, InOrder, HandedKept
  <2>3. CASE which # "polite"
    BY <2>1, <2>3, BusyInChunk
  <2>. QED  BY <2>2, <2>3
<1>3. ASSUME Inv PROVE CharactersInOrder
  <2>1. which = "busy" => Busy!GetByteInRange
    <3>1. which = "busy" => rx_buffer_size \in Nat /\ left \in Nat /\ Len(rx_buffer) \in Nat
      BY <1>3 DEF BusyChunk
    <3>. QED  BY <1>3, <3>1 DEF BusyChunk, Busy!GetByteInRange
  <2>. QED  BY <1>3, <2>1, NextIsNew DEF CharactersInOrder
<1>. QED  BY <1>1, <1>2, <1>3, PTL DEF MCSpec

(* mbascii.c: whatever stands on the line before a request, no character is *)
(* received while the transmitter runs and nothing is transmitted while one *)
(* is; the timer finds an idle receiver only behind a stray character, and  *)
(* the buffer is only too long for eMBASCIIReceive when it is full.  With   *)
(* it, MbRtu: no assertion fails with a polite master, and with any other   *)
(* the receiver stays inside of a buffer of two bytes.                      *)
THEOREM SerialAssertions == InTime => (MCSpec => []AssertsHold)
<1>. SUFFICES ASSUME InTime PROVE MCSpec => []AssertsHold
  OBVIOUS
<1>. DEFINE Inv == /\ which = "polite" => IInv /\ Orderly
                   /\ which = "busy" => usRcvBufferPos \in 0..2
                   /\ which = "ascii" => AscInv
<1>1. MCInit => Inv
  BY Starts, InOrder, AscInductive, BusyBounded DEF MCInit
<1>2. Inv /\ [MCNext]_<<which, vars, asciiVars>> => Inv'
  <2>. SUFFICES ASSUME Inv, [MCNext]_<<which, vars, asciiVars>> PROVE Inv'
    OBVIOUS
  <2>1. which' = which /\ (which = "polite" => [Next]_vars) /\ (which = "busy" => [Busy!Next]_vars)
        /\ (which = "ascii" => [Ascii!Next]_asciiVars)
    BY DEF MCNext, PoliteNext, BusyNext, AsciiNext
  <2>2. CASE which = "polite"
    BY <2>1, <2>2, Step, InOrder
  <2>3. CASE which = "busy"
    BY <2>1, <2>3, BusyBounded
  <2>4. CASE which = "ascii"
    BY <2>1, <2>4, AscInductive
  <2>. QED  BY <2>1, <2>2, <2>3, <2>4
<1>3. Inv => AssertsHold
  BY DEF AssertsHold, Orderly, AscInv
<1>. QED  BY <1>1, <1>2, <1>3, PTL DEF MCSpec
=============================================================================
