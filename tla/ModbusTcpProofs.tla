-------------------------- MODULE ModbusTcpProofs --------------------------
(***************************************************************************)
(* Proofs about ModbusTcp for every number of connections, clients and     *)
(* requests, every frame layout and every buffer size: for every client    *)
(* behaviour the types, and that reassembly stays inside the buffer; for   *)
(* clients that wait for their replies, that the buffer changes hands with *)
(* the event, that replies are right and that no request runs twice.       *)
(***************************************************************************)
EXTENDS MCTcp, SequenceTheorems, FiniteSetTheorems, TLAPS

USE DEF HeaderCells, Range0

----------------------------------------------------------------------------
(* The data the actions move are cells.                                    *)

(* A cell built from a request and a known part is a cell.                 *)
LEMMA CellType ==
  ASSUME NEW r \in Requests \cup {0}, NEW p \in Part
  PROVE  cell(r, p) \in Cell
BY DEF cell, Cell

(* A request on the wire is a sequence of cells.                           *)
LEMMA FrameType ==
  ASSUME NEW r \in Requests
  PROVE  Frame(r) \in Seq(Cell)
<1>1. 3 + Data[r] \in Nat
  BY TcpAssumption
<1>2. \A i \in 1..(3 + Data[r]) : Frame(r)[i] \in Cell
  BY CellType DEF Frame, Part
<1>3. Frame(r) \in [1..(3 + Data[r]) -> Cell]
  BY <1>2 DEF Frame
<1>. QED  BY <1>1, <1>3

(* A handler leaves a cell where the request's function code was.          *)
LEMMA OutcomeType ==
  ASSUME TypeOK, NEW c \in Cell, NEW pdu \in Outcome(c)
  PROVE  pdu \in Cell
<1>1. c.req \in Requests \cup {0}
  BY DEF Cell
<1>2. \E p \in {"answer", "torn", "error"} : pdu = cell(c.req, p)
  BY DEF Outcome
<1>. QED  BY <1>1, <1>2, CellType DEF Part

(* Cutting a stream of cells in two leaves two streams of cells.           *)
LEMMA PrefixType ==
  ASSUME NEW q \in Seq(Cell), NEW n \in 1..Len(q)
  PROVE  /\ SubSeq(q, 1, n) \in Seq(Cell) /\ Len(SubSeq(q, 1, n)) = n
         /\ SubSeq(q, n + 1, Len(q)) \in Seq(Cell)
<1>1. SubSeq(q, 1, n) \in Seq(Cell) /\ Len(SubSeq(q, 1, n)) = n
  BY SubSeqProperties
<1>2. \A i \in n + 1..Len(q) : q[i] \in Cell
  OBVIOUS
<1>. QED  BY <1>1, <1>2, SubSeqProperties

----------------------------------------------------------------------------
(* Every step keeps the types.                                             *)
LEMMA ClientTypes ==
  ASSUME TypeOK, NEW s \in Sessions, ClientStep(s)
  PROVE  TypeOK'
<1>. USE DEF TypeOK, sockVars, cliVars, tcpVars, bufVars, mainVars
<1>1. CASE Connect(s)
  BY <1>1 DEF Connect
<1>2. CASE SendRequest(s)
  <2>1. asked + 1 \in Requests /\ Frame(asked + 1) \in Seq(Cell)
    BY <1>2, FrameType DEF SendRequest
  <2>2. stream[s] \o Frame(asked + 1) \in Seq(Cell)
    BY <2>1, ConcatProperties
  <2>. QED  BY <1>2, <2>1, <2>2 DEF SendRequest
<1>3. CASE Timeout(s)
  BY <1>3 DEF Timeout
<1>4. CASE Disconnect(s)
  BY <1>4 DEF Disconnect
<1>5. CASE Abort(s)
  <2>1. <<>> \in Seq(Cell)
    OBVIOUS
  <2>. QED  BY <1>5, <2>1 DEF Abort
<1>. QED  BY <1>1, <1>2, <1>3, <1>4, <1>5 DEF ClientStep

LEMMA TcpTypes ==
  ASSUME TypeOK, TcpStep
  PROVE  TypeOK'
<1>. USE TcpAssumption DEF TypeOK, TState, sockVars, cliVars, tcpVars, bufVars, mainVars
<1>1. CASE Accept
  <2>1. Head(backlog) \in Sessions /\ Tail(backlog) \in Seq(Sessions)
    BY <1>1, HeadTailProperties DEF Accept
  <2>. QED  BY <1>1, <2>1 DEF Accept
<1>2. CASE AcceptFails
  BY <1>2 DEF AcceptFails
<1>10. CASE StartSession
  BY <1>10 DEF StartSession
<1>3. CASE Recv
  <2>. PICK n \in 1..Len(stream[client_fd]) :
         /\ rx_buffer' = SubSeq(stream[client_fd], 1, n)
         /\ stream' = [stream EXCEPT ![client_fd] =
                          SubSeq(stream[client_fd], n + 1, Len(stream[client_fd]))]
    BY <1>3 DEF Recv
  <2>1. client_fd \in Sessions => stream' \in [Sessions -> Seq(Cell)] /\ rx_buffer' \in Seq(Cell)
    BY PrefixType
  <2>2. client_fd \in Sessions
    BY <1>3 DEF Recv
  <2>. QED  BY <1>3, <2>1, <2>2 DEF Recv
<1>4. CASE RecvEnd \/ RecvFails
  BY <1>4 DEF RecvEnd, RecvFails
<1>5. CASE Copy
  <2>1. \A i \in DOMAIN rx_frame_buffer :
          i \in rx_frame_size..(rx_frame_size + Len(rx_buffer) - 1)
            => rx_buffer[i - rx_frame_size + 1] \in Cell
    OBVIOUS
  <2>2. rx_frame_buffer' \in [0..(BufCells - 1) -> Cell]
    <3>1. DOMAIN rx_frame_buffer = 0..(BufCells - 1)
          /\ \A i \in 0..(BufCells - 1) : rx_frame_buffer[i] \in Cell
      OBVIOUS
    <3>2. \/ rx_frame_buffer' = rx_frame_buffer
          \/ rx_frame_buffer' =
               [i \in DOMAIN rx_frame_buffer |->
                  IF i \in rx_frame_size..(rx_frame_size + Len(rx_buffer) - 1)
                  THEN rx_buffer[i - rx_frame_size + 1] ELSE rx_frame_buffer[i]]
      BY <1>5, Zenon DEF Copy
    <3>. HIDE DEF TypeOK
    <3>3. CASE rx_frame_buffer' = rx_frame_buffer
      BY <3>1, <3>3 DEF TypeOK
    <3>4. CASE rx_frame_buffer' # rx_frame_buffer
      <4>1. \A i \in DOMAIN rx_frame_buffer : 
              (IF i \in rx_frame_size..(rx_frame_size + Len(rx_buffer) - 1)
               THEN rx_buffer[i - rx_frame_size + 1] ELSE rx_frame_buffer[i]) \in Cell
        BY <2>1, <3>1
      <4>. QED  BY <3>1, <3>2, <3>4, <4>1, Zenon
    <3>. QED  BY <3>3, <3>4
  <2>. QED  BY <1>5, <2>2 DEF Copy
<1>6. CASE Grow
  BY <1>6 DEF Grow
<1>7. CASE CheckFrame
  BY <1>7 DEF CheckFrame
<1>8. CASE PostReceived
  BY <1>8 DEF PostReceived
<1>9. CASE CloseSession
  BY <1>9 DEF CloseSession
<1>. QED
  BY <1>1, <1>2, <1>3, <1>4, <1>5, <1>6, <1>7, <1>8, <1>9, <1>10 DEF TcpStep

LEMMA MainTypes ==
  ASSUME TypeOK, MainStep
  PROVE  TypeOK'
<1>. USE TcpAssumption DEF TypeOK, MState, sockVars, cliVars, tcpVars, bufVars, mainVars
<1>1. CASE Poll
  <2>1. Tail(events) \in Seq({"EV_FRAME_RECEIVED", "EV_EXECUTE"})
    BY <1>1, HeadTailProperties DEF Poll
  <2>. QED  BY <1>1, <2>1 DEF Poll
<1>2. CASE GetSize \/ GetReset
  BY <1>2 DEF GetSize, GetReset
<1>3. CASE Receive
  <2>1. (usTCPLength - 2) % 65536 \in Nat
    OBVIOUS
  <2>2. \/ /\ usLength' = (usTCPLength - 2) % 65536
           /\ events' = Append(events, "EV_EXECUTE")
        \/ usLength' = usLength /\ events' = events
    <3>. HIDE DEF TypeOK
    <3>. QED  BY <1>3 DEF Receive
  <2>3. usLength' \in Nat
    BY <2>1, <2>2
  <2>4. events' \in Seq({"EV_FRAME_RECEIVED", "EV_EXECUTE"})
    <3>1. Append(events, "EV_EXECUTE") \in Seq({"EV_FRAME_RECEIVED", "EV_EXECUTE"})
      BY AppendProperties
    <3>2. events \in Seq({"EV_FRAME_RECEIVED", "EV_EXECUTE"})
      OBVIOUS
    <3>. HIDE DEF TypeOK
    <3>3. CASE events' = Append(events, "EV_EXECUTE")
      BY <3>1, <3>3
    <3>4. CASE events' = events
      BY <3>2, <3>4
    <3>. QED  BY <2>2, <3>3, <3>4
  <2>. QED  BY <1>3, <2>3, <2>4 DEF Receive
<1>4. CASE Lookup
  BY <1>4 DEF Lookup
<1>5. CASE Handle
  <2>. PICK pdu \in Outcome(function) :
         /\ rx_frame_buffer' = [rx_frame_buffer EXCEPT ![2] = pdu]
         /\ runs' = [r \in Requests |->
                       IF r = pdu.req /\ pdu.part # "error" THEN runs[r] + 1 ELSE runs[r]]
    BY <1>5 DEF Handle
  <2>1. pdu \in Cell
    BY OutcomeType
  <2>. QED  BY <1>5, <2>1 DEF Handle
<1>6. CASE SetLength
  <2>1. cell(function.req, "rlen") \in Cell
    BY CellType DEF Cell, Part
  <2>. QED  BY <1>6, <2>1 DEF SetLength
<1>7. CASE SendResponse
  <2>1. rx_frame_buffer[0] \in Cell /\ rx_frame_buffer[2] \in Cell
    OBVIOUS
  <2>2. CASE Reaches(client_fd)
    <3>1. [to |-> client_fd, tid |-> rx_frame_buffer[0], pdu |-> rx_frame_buffer[2]]
             \in [to : Sessions, tid : Cell, pdu : Cell]
      BY <2>1, <2>2 DEF Reaches
    <3>2. replies' \subseteq [to : Sessions, tid : Cell, pdu : Cell]
      <4>1. replies' = replies \cup
              {[to |-> client_fd, tid |-> rx_frame_buffer[0], pdu |-> rx_frame_buffer[2]]}
        BY <1>7, <2>2, Zenon DEF SendResponse
      <4>2. replies \subseteq [to : Sessions, tid : Cell, pdu : Cell]
        OBVIOUS
      <4>. QED  BY <3>1, <4>1, <4>2, Zenon
    <3>3. waiting' \in [Sessions -> SUBSET Requests]
      <4>1. waiting' = [waiting EXCEPT ![client_fd] = @ \ {rx_frame_buffer[0].req}]
        BY <1>7, <2>2, SMT DEF SendResponse
      <4>2. waiting \in [Sessions -> SUBSET Requests]
        OBVIOUS
      <4>. HIDE DEF TypeOK
      <4>. QED  BY <4>1, <4>2
    <3>. QED  BY <1>7, <3>2, <3>3 DEF SendResponse
  <2>3. CASE ~Reaches(client_fd)
    BY <1>7, <2>3 DEF SendResponse
  <2>. QED  BY <2>2, <2>3
<1>. QED  BY <1>1, <1>2, <1>3, <1>4, <1>5, <1>6, <1>7 DEF MainStep

(* The types hold at first and are kept by every step.                     *)
LEMMA InitTypes == Init => TypeOK
<1>. SUFFICES ASSUME Init PROVE TypeOK
  OBVIOUS
<1>1. Zero \in Cell
  BY CellType DEF Zero, Part
<1>. QED  BY <1>1, TcpAssumption DEF Init, TypeOK, TState, MState

LEMMA StepTypes == TypeOK /\ [Next]_vars => TypeOK'
<1>. SUFFICES ASSUME TypeOK, [Next]_vars PROVE TypeOK'
  OBVIOUS
<1>1. CASE UNCHANGED vars
  BY <1>1 DEF vars, TypeOK, sockVars, cliVars, tcpVars, bufVars, mainVars
<1>. QED  BY <1>1, ClientTypes, TcpTypes, MainTypes DEF Next

(* ModbusTcp's variables keep their types.                                 *)
THEOREM TypeCorrect == Spec => []TypeOK
BY InitTypes, StepTypes, PTL DEF Spec

----------------------------------------------------------------------------
(* Reassembly stays inside the frame buffer.  Between memcpy and the end   *)
(* of += the size is either the one memcpy started from or, if the polling *)
(* thread took the frame meanwhile, zero; this makes BufferBounded         *)
(* inductive.                                                              *)
SizeWhileGrowing == tpc = "grow" => rx_frame_size \in {base, 0}

(* No client, segmentation or interleaving of the two threads makes the    *)
(* reassembled frame reach the end of rx_frame_buffer.                     *)
THEOREM ReassemblyBounded == Spec => []BufferBounded
<1>. DEFINE IInv == BufferBounded /\ SizeWhileGrowing
<1>1. Init => IInv
  BY TcpAssumption DEF Init, BufferBounded, SizeWhileGrowing
<1>2. TypeOK /\ IInv /\ [Next]_vars => IInv'
  <2>. SUFFICES ASSUME TypeOK, IInv, [Next]_vars PROVE IInv'
    OBVIOUS
  <2>0. /\ BufCells \in Nat /\ BufCells > 0 /\ base \in Nat /\ rx_frame_size \in Nat
        /\ Len(rx_buffer) \in Nat
    BY TcpAssumption DEF TypeOK
  <2>. USE <2>0 DEF BufferBounded, SizeWhileGrowing, sockVars, cliVars, tcpVars, bufVars, mainVars
  <2>1. ASSUME NEW s \in Sessions, ClientStep(s) PROVE IInv'
    BY <2>1 DEF ClientStep, Connect, SendRequest, Timeout, Disconnect, Abort
  <2>2. CASE Copy
    BY <2>2 DEF Copy
  <2>3. CASE Grow
    BY <2>3 DEF Grow
  <2>4. CASE Accept \/ AcceptFails \/ StartSession \/ Recv \/ RecvEnd \/ RecvFails
    BY <2>4 DEF Accept, AcceptFails, StartSession, Recv, RecvEnd, RecvFails
  <2>5. CASE CheckFrame \/ PostReceived \/ CloseSession
    BY <2>5 DEF CheckFrame, PostReceived, CloseSession
  <2>6. CASE GetReset
    BY <2>6 DEF GetReset
  <2>7. CASE Poll \/ GetSize \/ Receive \/ Lookup
    BY <2>7 DEF Poll, GetSize, Receive, Lookup
  <2>8. CASE Handle \/ SetLength \/ SendResponse
    <3>1. UNCHANGED <<tpc, base, rx_buffer, rx_frame_size>>
      <4>1. CASE Handle
        BY <4>1 DEF Handle
      <4>2. CASE SetLength
        BY <4>2 DEF SetLength
      <4>3. CASE SendResponse
        BY <4>3 DEF SendResponse
      <4>. QED  BY <2>8, <4>1, <4>2, <4>3
    <3>. QED  BY <3>1
  <2>9. CASE UNCHANGED vars
    BY <2>9 DEF vars
  <2>. QED
    BY <2>1, <2>2, <2>3, <2>4, <2>5, <2>6, <2>7, <2>8, <2>9 DEF Next, TcpStep, MainStep
<1>3. IInv => BufferBounded
  OBVIOUS
<1>. QED  BY <1>1, <1>2, <1>3, TypeCorrect, PTL DEF Spec

----------------------------------------------------------------------------
(* Clients that wait.  Theirs are the connections the slave was written    *)
(* for: one request at a time, which announces its own length and fits     *)
(* into the buffer, and no resets.                                         *)
Cells(r) == 3 + Data[r]
Polite ==
  /\ Patient /\ ~MayReset /\ Window = 1
  /\ BufCells < 65536
  /\ \A r \in Requests : Pid[r] /\ Announced[r] = Data[r] + 1 /\ Cells(r) < BufCells

(* The TCP thread has a connection, the polling thread has nothing to do;  *)
(* q holds what follows the first n cells of request r; the buffer holds   *)
(* these n cells.                                                          *)
Serving == tpc \notin {"accept", "reset"}
Idle == mpc = "poll" /\ events = <<>>
Rest(q, r, n) == Len(q) = Cells(r) - n /\ \A i \in 1..Len(q) : q[i] = Frame(r)[n + i]
Reassembled(r, n) == n <= Cells(r) /\ \A i \in 0..(n - 1) : rx_frame_buffer[i] = Frame(r)[i + 1]

(* The inductive invariant.  Links: who waits for what, and which          *)
(* connections are in the backlog, served and closed.  A client waits for  *)
(* one request of its own; requests that were not sent have not run; a     *)
(* connection is accepted once; there are no resets.                       *)
OneEach ==
  \A s \in Sessions :
    /\ \A r \in waiting[s] : owner[r] = s /\ r <= asked
    /\ \A r, q \in waiting[s] : r = q
    /\ waiting[s] # {} => phase[s] = "up"
Fresh == \A r \in Requests : r > asked => owner[r] = NoSession /\ runs[r] = 0
AcceptedOnce ==
  /\ \A i, j \in 1..Len(backlog) : backlog[i] = backlog[j] => i = j
  /\ \A i \in 1..Len(backlog) :
       /\ backlog[i] \notin closed /\ phase[backlog[i]] # "new"
       /\ tpc # "accept" => backlog[i] # client_fd
  /\ tpc # "accept" => client_fd \notin closed /\ phase[client_fd] # "new"
  /\ \A s \in closed : phase[s] = "down"
NoResets == broken = {} /\ tpc # "crashed"
(* Frames: where the cells of each request are.  On a connection that is   *)
(* not served they are all in the stream ...                               *)
OnTheWay ==
  \A s \in Sessions : ~(Serving /\ client_fd = s) =>
    /\ waiting[s] = {} => stream[s] = <<>>
    /\ \A r \in waiting[s] : Rest(stream[s], r, 0) /\ runs[r] = 0
(* ... and on the one that is served there is no request,                  *)
AtRest ==
  /\ Idle /\ stream[client_fd] = <<>> /\ rx_frame_size = 0
  /\ tpc = "recv" \/ (tpc = "close" /\ phase[client_fd] = "down")
(* or the TCP thread has it and the polling thread is idle: what is in the *)
(* buffer, in the chunk and in the stream makes up the request,            *)
Arriving(r) ==
  /\ Idle /\ runs[r] = 0
  /\ \/ /\ tpc = "recv" /\ rx_frame_size < Cells(r)
        /\ Reassembled(r, rx_frame_size) /\ Rest(stream[client_fd], r, rx_frame_size)
     \/ /\ tpc = "copy" /\ Len(rx_buffer) > 0
        /\ \A i \in 1..Len(rx_buffer) : rx_buffer[i] = Frame(r)[rx_frame_size + i]
        /\ rx_frame_size + Len(rx_buffer) <= Cells(r)
        /\ Reassembled(r, rx_frame_size) /\ Rest(stream[client_fd], r, rx_frame_size + Len(rx_buffer))
     \/ /\ tpc = "grow" /\ base = rx_frame_size /\ Len(rx_buffer) > 0
        /\ Reassembled(r, base + Len(rx_buffer)) /\ Rest(stream[client_fd], r, base + Len(rx_buffer))
     \/ /\ tpc = "check" /\ rx_frame_size > 0
        /\ Reassembled(r, rx_frame_size) /\ Rest(stream[client_fd], r, rx_frame_size)
     \/ /\ tpc = "post" /\ rx_frame_size = Cells(r)
        /\ Reassembled(r, rx_frame_size) /\ Rest(stream[client_fd], r, rx_frame_size)
(* or the polling thread has it, and the TCP thread has nothing to read.   *)
Taken(r) ==
  /\ tpc = "recv" /\ stream[client_fd] = <<>>
  /\ \/ /\ runs[r] = 0 /\ Reassembled(r, Cells(r))
        /\ \/ mpc = "poll" /\ events = <<"EV_FRAME_RECEIVED">> /\ rx_frame_size = Cells(r)
           \/ mpc = "size" /\ events = <<>> /\ rx_frame_size = Cells(r)
           \/ mpc = "zero" /\ events = <<>> /\ usTCPLength = Cells(r)
           \/ mpc = "pid" /\ events = <<>> /\ usTCPLength = Cells(r) /\ rx_frame_size = 0
           \/ mpc = "poll" /\ events = <<"EV_EXECUTE">> /\ usLength = 1 + Data[r] /\ rx_frame_size = 0
           \/ mpc = "lookup" /\ events = <<>> /\ usLength = 1 + Data[r] /\ rx_frame_size = 0
           \/ /\ mpc = "handle" /\ events = <<>> /\ usLength = 1 + Data[r] /\ rx_frame_size = 0
              /\ function = cell(r, "func")
     \/ /\ mpc \in {"header", "send"} /\ events = <<>> /\ rx_frame_size = 0 /\ runs[r] = 1
        /\ rx_frame_buffer[0] = cell(r, "tid") /\ rx_frame_buffer[2] = cell(r, "answer")
Served ==
  Serving => /\ waiting[client_fd] = {} => AtRest
             /\ \A r \in waiting[client_fd] : Arriving(r) \/ Taken(r)
IdleBetween == ~Serving => Idle
Links == OneEach /\ Fresh /\ AcceptedOnce /\ NoResets
Frames == OnTheWay /\ Served /\ IdleBetween
IInv == Links /\ Frames /\ RunsOnce /\ RepliesCorrect

(* The cells of a request, one by one.                                     *)
LEMMA FrameCells ==
  ASSUME NEW r \in Requests
  PROVE  /\ Cells(r) \in Nat /\ Data[r] \in Nat /\ Cells(r) = 3 + Data[r]
         /\ Len(Frame(r)) = Cells(r)
         /\ Frame(r)[1] = cell(r, "tid") /\ Frame(r)[2] = cell(r, "len")
         /\ Frame(r)[3] = cell(r, "func")
         /\ \A i \in 1..Data[r] : Frame(r)[3 + i] = cell(r, "data")
<1>1. Data[r] \in Nat
  BY TcpAssumption
<1>2. Frame(r) \in Seq(Cell)
  BY FrameType
<1>3. DOMAIN Frame(r) = 1..(3 + Data[r])
  BY DEF Frame
<1>4. Len(Frame(r)) = 3 + Data[r]
  BY <1>1, <1>2, <1>3, LenProperties
<1>. QED  BY <1>1, <1>4 DEF Cells, Frame

----------------------------------------------------------------------------
(* A client with a window of one sends when it waits for nothing.          *)
LEMMA NothingOutstanding ==
  ASSUME TypeOK, Polite, NEW s \in Sessions, SendRequest(s)
  PROVE  waiting[s] = {}
<1>1. IsFiniteSet(waiting[s])
  <2>1. IsFiniteSet(Requests)
    BY FS_Interval, TcpAssumption DEF Requests
  <2>. QED  BY <2>1, FS_Subset DEF TypeOK
<1>2. Cardinality(waiting[s]) < 1 /\ Cardinality(waiting[s]) \in Nat
  BY <1>1, FS_CardinalityType DEF SendRequest, Polite
<1>. QED  BY <1>1, <1>2, FS_EmptySet

(* What clients do keeps the invariant.                                    *)
LEMMA ClientsKeepLinks ==
  ASSUME TypeOK, Polite, IInv, NEW s \in Sessions, ClientStep(s)
  PROVE  Links'
<1>. USE DEF Links, sockVars, cliVars, tcpVars, bufVars, mainVars
<1>0. ~Timeout(s) /\ ~Abort(s)
  BY DEF Polite, Timeout, Abort
<1>1. CASE Connect(s)
  <2>1. Links
    BY DEF IInv
  <2>2. OneEach' /\ Fresh' /\ NoResets'
    BY <1>1, <2>1 DEF Connect, OneEach, Fresh, NoResets, TypeOK
  <2>3. AcceptedOnce'
    <3>1. backlog \in Seq(Sessions) /\ backlog' = Append(backlog, s)
      BY <1>1 DEF Connect, TypeOK
    <3>2. /\ Len(backlog') = Len(backlog) + 1 /\ backlog'[Len(backlog) + 1] = s
          /\ \A i \in 1..Len(backlog) : backlog'[i] = backlog[i]
          /\ Len(backlog) \in Nat
      BY <3>1
    <3>3. \A i \in 1..Len(backlog) : backlog[i] # s
      BY <1>1, <2>1 DEF Connect, AcceptedOnce
    <3>4. s \notin closed
      BY <1>1, <2>1 DEF Connect, AcceptedOnce
    <3>5. tpc # "accept" => client_fd # s
      BY <1>1, <2>1 DEF Connect, AcceptedOnce
    <3>6. /\ \A q \in Sessions : phase'[q] = IF q = s THEN "up" ELSE phase[q]
          /\ closed' = closed /\ tpc' = tpc /\ client_fd' = client_fd
          /\ closed \subseteq Sessions /\ (tpc # "accept" => client_fd \in Sessions)
          /\ \A i \in 1..Len(backlog) : backlog[i] \in Sessions
      BY <1>1, <3>1 DEF Connect, TypeOK
    <3>7. \A i, j \in 1..Len(backlog') : backlog'[i] = backlog'[j] => i = j
      BY <3>2, <3>3, <2>1 DEF AcceptedOnce
    <3>8. \A i \in 1..Len(backlog') :
            /\ backlog'[i] \notin closed' /\ phase'[backlog'[i]] # "new"
            /\ tpc' # "accept" => backlog'[i] # client_fd'
      BY <3>2, <3>4, <3>5, <3>6, <2>1 DEF AcceptedOnce
    <3>9. /\ tpc' # "accept" => client_fd' \notin closed' /\ phase'[client_fd'] # "new"
          /\ \A q \in closed' : phase'[q] = "down"
      BY <3>4, <3>5, <3>6, <2>1 DEF AcceptedOnce
    <3>. QED  BY <3>7, <3>8, <3>9 DEF AcceptedOnce
  <2>. QED  BY <2>2, <2>3
<1>2. CASE SendRequest(s)
  <2>1. waiting[s] = {}
    BY <1>2, NothingOutstanding
  <2>2. /\ asked' = asked + 1 /\ asked' \in Requests /\ asked \in Nat
        /\ owner' = [owner EXCEPT ![asked + 1] = s]
        /\ waiting' = [waiting EXCEPT ![s] = @ \cup {asked + 1}]
        /\ UNCHANGED <<phase, backlog, broken, closed, replies, runs, tpc, client_fd>>
        /\ phase[s] = "up"
    BY <1>2, TcpAssumption DEF SendRequest, TypeOK, Requests
  <2>3. OneEach'
    BY <2>1, <2>2 DEF IInv, OneEach, TypeOK, Requests
  <2>4. Fresh' /\ NoResets' /\ AcceptedOnce'
    BY <2>2 DEF IInv, Fresh, NoResets, AcceptedOnce, TypeOK, Requests
  <2>. QED  BY <2>3, <2>4
<1>3. CASE Disconnect(s)
  <2>1. OneEach' /\ Fresh' /\ NoResets'
    BY <1>3 DEF Disconnect, IInv, OneEach, Fresh, NoResets, TypeOK
  <2>2. /\ \A q \in Sessions : phase'[q] = IF q = s THEN "down" ELSE phase[q]
        /\ closed' = closed /\ tpc' = tpc /\ client_fd' = client_fd /\ backlog' = backlog
        /\ closed \subseteq Sessions /\ (tpc # "accept" => client_fd \in Sessions)
        /\ \A i \in 1..Len(backlog) : backlog[i] \in Sessions
    BY <1>3 DEF Disconnect, TypeOK
  <2>3. AcceptedOnce'
    BY <2>2 DEF IInv, AcceptedOnce
  <2>. QED  BY <2>1, <2>3
<1>. QED  BY <1>0, <1>1, <1>2, <1>3 DEF ClientStep

LEMMA ClientsKeepFrames ==
  ASSUME TypeOK, Polite, IInv, NEW s \in Sessions, ClientStep(s)
  PROVE  Frames' /\ RunsOnce' /\ RepliesCorrect'
<1>. USE DEF sockVars, cliVars, tcpVars, bufVars, mainVars
<1>0. ~Timeout(s) /\ ~Abort(s)
  BY DEF Polite, Timeout, Abort
<1>1. CASE Connect(s)
  <2>1. /\ \A q \in Sessions : phase[q] = "down" => phase'[q] = "down"
        /\ UNCHANGED <<stream, broken, closed, cliVars, tcpVars, bufVars, mainVars, events>>
    BY <1>1 DEF Connect, TypeOK
  <2>2. OnTheWay'
    BY <2>1 DEF IInv, Frames, OnTheWay, Rest, Serving
  <2>3. Served'
    BY <2>1 DEF IInv, Frames, Served, Serving, TypeOK, AtRest, Arriving, Taken, Rest, Reassembled, Idle
  <2>4. IdleBetween' /\ RunsOnce' /\ RepliesCorrect'
    BY <2>1 DEF IInv, Frames, IdleBetween, Serving, Idle, RunsOnce, RepliesCorrect
  <2>. QED  BY <2>2, <2>3, <2>4 DEF Frames
<1>3. CASE Disconnect(s)
  <2>1. /\ \A q \in Sessions : phase[q] = "down" => phase'[q] = "down"
        /\ UNCHANGED <<stream, broken, closed, cliVars, tcpVars, bufVars, mainVars, events>>
    BY <1>3 DEF Disconnect, TypeOK
  <2>2. OnTheWay'
    BY <2>1 DEF IInv, Frames, OnTheWay, Rest, Serving
  <2>3. Served'
    BY <2>1 DEF IInv, Frames, Served, Serving, TypeOK, AtRest, Arriving, Taken, Rest, Reassembled, Idle
  <2>4. IdleBetween' /\ RunsOnce' /\ RepliesCorrect'
    BY <2>1 DEF IInv, Frames, IdleBetween, Serving, Idle, RunsOnce, RepliesCorrect
  <2>. QED  BY <2>2, <2>3, <2>4 DEF Frames
<1>2. CASE SendRequest(s)
  <2>. PICK r \in Requests : r = asked + 1
    BY <1>2 DEF SendRequest
  <2>1. waiting[s] = {}
    BY <1>2, NothingOutstanding
  <2>2. /\ r \in Requests /\ asked \in Nat
        /\ owner' = [owner EXCEPT ![r] = s]
        /\ waiting' = [waiting EXCEPT ![s] = @ \cup {r}]
        /\ stream' = [stream EXCEPT ![s] = @ \o Frame(r)]
        /\ UNCHANGED <<phase, backlog, broken, closed, replies, runs, tcpVars, bufVars, mainVars, events>>
        /\ phase[s] = "up"
    BY <1>2, TcpAssumption DEF SendRequest, TypeOK, Requests
  <2>3. owner[r] = NoSession /\ runs[r] = 0
    BY <2>2 DEF IInv, Links, Fresh
  <2>4. stream[s] = <<>>
    BY <2>1, <2>2 DEF IInv, Frames, OnTheWay, Served, AtRest
  <2>5. Frame(r) \in Seq(Cell) /\ stream'[s] = Frame(r)
    BY <2>2, <2>4, FrameType DEF TypeOK
  <2>6. waiting'[s] = {r} /\ Rest(stream'[s], r, 0)
    <3>1. Rest(Frame(r), r, 0)
      BY FrameCells DEF Rest
    <3>2. waiting'[s] = {r}
      BY <2>1, <2>2 DEF TypeOK
    <3>. QED  BY <3>1, <3>2, <2>5
  <2>7. \A q \in Sessions : q # s => waiting'[q] = waiting[q] /\ stream'[q] = stream[q]
    BY <2>2 DEF TypeOK
  <2>8. OnTheWay'
    BY <2>2, <2>3, <2>6, <2>7 DEF IInv, Frames, OnTheWay, Serving
  <2>9. Served'
    <3>1. CASE client_fd # s /\ Serving
      <4>1. waiting'[client_fd] = waiting[client_fd] /\ stream'[client_fd] = stream[client_fd]
        BY <2>7, <3>1 DEF TypeOK, Serving
      <4>. QED
        BY <2>2, <3>1, <4>1 DEF IInv, Frames, Served, Serving, AtRest, Arriving, Taken, Rest, Reassembled, Idle
    <3>2. CASE client_fd = s /\ Serving
      <4>1. AtRest /\ tpc = "recv"
        BY <2>1, <2>2, <3>2 DEF IInv, Frames, Served, AtRest
      <4>2. Arriving(r)'
        BY <4>1, <2>2, <2>3, <2>6, <3>2, FrameCells DEF Arriving, AtRest, Idle, Reassembled
      <4>. QED  BY <4>2, <2>2, <2>6, <3>2 DEF Served
    <3>3. CASE ~Serving
      BY <3>3, <2>2 DEF Served, Serving
    <3>. QED  BY <3>1, <3>2, <3>3
  <2>10. IdleBetween' /\ RunsOnce'
    BY <2>2 DEF IInv, Frames, IdleBetween, Serving, Idle, RunsOnce
  <2>11. RepliesCorrect'
    <3>. SUFFICES ASSUME NEW rep \in replies
                  PROVE  \E q \in Requests : /\ owner'[q] = rep.to /\ rep.tid = cell(q, "tid")
                                             /\ rep.pdu = cell(q, "answer")
      BY <2>2 DEF RepliesCorrect
    <3>. PICK q \in Requests : owner[q] = rep.to /\ rep.tid = cell(q, "tid") /\ rep.pdu = cell(q, "answer")
      BY DEF IInv, RepliesCorrect
    <3>1. rep.to \in Sessions
      BY DEF TypeOK
    <3>2. q # r
      BY <2>3, <3>1, TcpAssumption
    <3>. QED  BY <3>2, <2>2 DEF TypeOK
  <2>. QED  BY <2>8, <2>9, <2>10, <2>11 DEF Frames
<1>. QED  BY <1>0, <1>1, <1>2, <1>3 DEF ClientStep

----------------------------------------------------------------------------
(* The TCP thread keeps the invariant: accepting and closing move a        *)
(* connection, everything else moves cells of one request.                 *)
LEMMA TcpKeepsLinks ==
  ASSUME TypeOK, Polite, IInv, TcpStep
  PROVE  Links'
<1>. USE DEF IInv, Links, sockVars, cliVars, tcpVars, bufVars, mainVars
<1>1. CASE Accept
  <2>1. OneEach' /\ Fresh' /\ NoResets'
    BY <1>1 DEF Accept, OneEach, Fresh, NoResets
  <2>2. /\ backlog # <<>> /\ backlog \in Seq(Sessions) /\ backlog' = Tail(backlog)
        /\ client_fd' = Head(backlog) /\ UNCHANGED <<phase, closed>>
    BY <1>1 DEF Accept, TypeOK
  <2>3. /\ Len(backlog) \in Nat /\ Len(backlog) > 0
        /\ Len(backlog') = Len(backlog) - 1 /\ client_fd' = backlog[1]
        /\ \A i \in 1..Len(backlog') : backlog'[i] = backlog[i + 1]
    BY <2>2
  <2>4. AcceptedOnce'
    BY <2>2, <2>3 DEF AcceptedOnce
  <2>. QED  BY <2>1, <2>4
<1>2. CASE CloseSession
  <2>1. OneEach' /\ Fresh' /\ NoResets'
    BY <1>2 DEF CloseSession, OneEach, Fresh, NoResets
  <2>2. tpc = "close" /\ Serving /\ client_fd \in Sessions
    BY <1>2 DEF CloseSession, Serving, TypeOK
  <2>3. phase[client_fd] = "down"
    BY <2>2 DEF Frames, Served, AtRest, Arriving, Taken
  <2>4. AcceptedOnce'
    BY <1>2, <2>2, <2>3 DEF CloseSession, AcceptedOnce
  <2>. QED  BY <2>1, <2>4
<1>3. CASE RecvFails
  BY <1>3 DEF RecvFails, NoResets
<1>4. CASE AcceptFails \/ StartSession \/ Recv \/ RecvEnd \/ Copy \/ Grow \/ CheckFrame \/ PostReceived
  <2>1. /\ UNCHANGED <<phase, backlog, broken, closed, cliVars>>
        /\ \/ tpc' = "accept"
           \/ tpc # "accept" /\ tpc' # "crashed" /\ client_fd' = client_fd
    <3>1. CASE AcceptFails
      BY <3>1 DEF AcceptFails
    <3>2. CASE StartSession \/ Recv \/ RecvEnd
      BY <3>2 DEF StartSession, Recv, RecvEnd
    <3>3. CASE Copy
      BY <3>3 DEF Copy
    <3>4. CASE Grow \/ CheckFrame \/ PostReceived
      BY <3>4 DEF Grow, CheckFrame, PostReceived
    <3>. QED  BY <1>4, <3>1, <3>2, <3>3, <3>4
  <2>2. OneEach' /\ Fresh' /\ NoResets'
    BY <2>1 DEF OneEach, Fresh, NoResets
  <2>3. AcceptedOnce'
    BY <2>1 DEF AcceptedOnce
  <2>. QED  BY <2>2, <2>3
<1>. QED  BY <1>1, <1>2, <1>3, <1>4 DEF TcpStep

LEMMA TcpKeepsFrames ==
  ASSUME TypeOK, Polite, IInv, TcpStep
  PROVE  Frames' /\ RunsOnce' /\ RepliesCorrect'
<1>. USE DEF sockVars, cliVars, tcpVars, bufVars, mainVars
<1>0. RunsOnce' /\ RepliesCorrect'
  <2>1. UNCHANGED cliVars
    BY DEF TcpStep, Accept, AcceptFails, StartSession, Recv, RecvEnd, RecvFails, Copy, Grow, CheckFrame,
           PostReceived, CloseSession
  <2>. QED  BY <2>1 DEF IInv, RunsOnce, RepliesCorrect
<1>1. CASE Accept
  <2>1. ~Serving /\ ~Serving' /\ UNCHANGED <<stream, waiting, runs, mpc, events>>
    BY <1>1 DEF Accept, Serving
  <2>. QED  BY <1>0, <2>1 DEF IInv, Frames, OnTheWay, Served, IdleBetween, Idle, Rest
<1>2. CASE AcceptFails
  <2>1. ~Serving /\ ~Serving' /\ UNCHANGED <<stream, waiting, runs, mpc, events>>
    BY <1>2 DEF AcceptFails, Serving
  <2>. QED  BY <1>0, <2>1 DEF IInv, Frames, OnTheWay, Served, IdleBetween, Idle, Rest
<1>3. CASE StartSession
  <2>1. /\ ~Serving /\ Serving' /\ UNCHANGED <<stream, waiting, runs, mpc, events, client_fd, rx_frame_buffer>>
        /\ tpc' = "recv" /\ rx_frame_size' = 0 /\ client_fd \in Sessions
    BY <1>3 DEF StartSession, Serving, TypeOK
  <2>2. Idle /\ Idle'
    BY <2>1 DEF IInv, Frames, IdleBetween, Idle
  <2>3. OnTheWay' /\ IdleBetween'
    BY <2>1 DEF IInv, Frames, OnTheWay, IdleBetween, Rest
  <2>4. waiting[client_fd] = {} => AtRest'
    BY <2>1, <2>2 DEF IInv, Frames, OnTheWay, AtRest
  <2>5. ASSUME NEW r \in waiting[client_fd] PROVE Arriving(r)'
    <3>1. r \in Requests
      BY <2>1 DEF TypeOK
    <3>2. Rest(stream[client_fd], r, 0) /\ runs[r] = 0
      BY <2>1 DEF IInv, Frames, OnTheWay
    <3>. QED  BY <2>1, <2>2, <3>1, <3>2, FrameCells DEF Arriving, Reassembled, Rest
  <2>. QED  BY <1>0, <2>1, <2>3, <2>4, <2>5 DEF Frames, Served
<1>4. CASE RecvFails
  BY <1>4 DEF RecvFails, IInv, Links, NoResets
<1>5. CASE CloseSession
  <2>1. tpc = "close" /\ Serving /\ ~Serving' /\ UNCHANGED <<stream, waiting, runs, mpc, events>>
    BY <1>5 DEF CloseSession, Serving
  <2>2. waiting[client_fd] = {} /\ AtRest
    BY <2>1 DEF IInv, Frames, Served, AtRest, Arriving, Taken
  <2>. QED  BY <1>0, <2>1, <2>2 DEF IInv, Frames, OnTheWay, Served, IdleBetween, Idle, Rest, AtRest
<1>6. CASE Recv \/ RecvEnd \/ Copy \/ Grow \/ CheckFrame \/ PostReceived
  <2>1. Serving /\ Serving' /\ client_fd' = client_fd /\ client_fd \in Sessions /\ UNCHANGED <<waiting, runs>>
        /\ \A s \in Sessions : s # client_fd => stream'[s] = stream[s]
    <3>1. CASE Recv
      BY <3>1 DEF Recv, Serving, TypeOK
    <3>2. CASE RecvEnd \/ Grow \/ CheckFrame \/ PostReceived
      BY <3>2 DEF RecvEnd, Grow, CheckFrame, PostReceived, Serving, TypeOK
    <3>3. CASE Copy
      BY <3>3 DEF Copy, Serving, TypeOK
    <3>. QED  BY <1>6, <3>1, <3>2, <3>3
  <2>2. OnTheWay' /\ IdleBetween'
    BY <2>1 DEF IInv, Frames, OnTheWay, IdleBetween, Rest
  <2>. SUFFICES ASSUME TRUE PROVE Served'
    BY <1>0, <2>2 DEF Frames
  <2>3. CASE waiting[client_fd] = {}
    <3>1. AtRest
      BY <2>1, <2>3 DEF IInv, Frames, Served
    <3>2. RecvEnd
      <4>1. ~Recv
        BY <3>1, <2>1 DEF AtRest, Recv
      <4>. QED  BY <1>6, <3>1, <4>1 DEF AtRest, Copy, Grow, CheckFrame, PostReceived
    <3>. QED  BY <2>1, <2>3, <3>1, <3>2 DEF RecvEnd, AtRest, Served, Idle
  <2>4. ASSUME NEW r \in waiting[client_fd] PROVE Arriving(r)' \/ Taken(r)'
    <3>1. r \in Requests
      BY <2>1 DEF TypeOK
    <3>2. /\ Cells(r) \in Nat /\ Data[r] \in Nat /\ Cells(r) = 3 + Data[r]
          /\ Cells(r) < BufCells /\ Announced[r] = Data[r] + 1 /\ BufCells \in Nat /\ BufCells < 65536
          /\ Frame(r)[2] = cell(r, "len") /\ Frame(r)[1] = cell(r, "tid")
      BY <3>1, FrameCells, TcpAssumption DEF Polite
    <3>3. Arriving(r) \/ Taken(r)
      BY <2>1 DEF IInv, Frames, Served
    <3>t. /\ rx_frame_size \in Nat /\ base \in Nat /\ rx_buffer \in Seq(Cell) /\ Len(rx_buffer) \in Nat
          /\ stream[client_fd] \in Seq(Cell) /\ Len(stream[client_fd]) \in Nat
      BY <2>1 DEF TypeOK
    <3>4. CASE Recv
      <4>. PICK n \in 1..Len(stream[client_fd]) :
             /\ rx_buffer' = SubSeq(stream[client_fd], 1, n)
             /\ stream' = [stream EXCEPT ![client_fd] =
                              SubSeq(stream[client_fd], n + 1, Len(stream[client_fd]))]
        BY <3>4 DEF Recv
      <4>1. Arriving(r) /\ tpc = "recv"
        BY <3>3, <3>4, <3>t DEF Recv, Taken
      <4>2. /\ Reassembled(r, rx_frame_size) /\ Rest(stream[client_fd], r, rx_frame_size)
            /\ Idle /\ runs[r] = 0
        BY <4>1 DEF Arriving
      <4>3. /\ Len(rx_buffer') = n /\ \A i \in 1..n : rx_buffer'[i] = stream[client_fd][i]
            /\ Len(stream'[client_fd]) = Len(stream[client_fd]) - n
            /\ \A i \in 1..(Len(stream[client_fd]) - n) :
                  stream'[client_fd][i] = stream[client_fd][n + i]
        BY <2>1, <3>t DEF TypeOK
      <4>4. tpc' = "copy" /\ UNCHANGED <<mpc, events, rx_frame_buffer, rx_frame_size>>
        BY <3>4 DEF Recv
      <4>5. /\ \A i \in 1..Len(rx_buffer') : rx_buffer'[i] = Frame(r)[rx_frame_size + i]
            /\ rx_frame_size + Len(rx_buffer') <= Cells(r)
        <5>1. \A i \in 1..n : stream[client_fd][i] = Frame(r)[rx_frame_size + i]
          <6>1. \A i \in 1..n : i \in 1..Len(stream[client_fd])
            BY <3>t
          <6>. QED  BY <4>2, <6>1 DEF Rest
        <5>2. rx_frame_size + n <= Cells(r)
          BY <3>2, <3>t, <4>2 DEF Rest
        <5>. QED  BY <4>3, <5>1, <5>2
      <4>6. Rest(stream'[client_fd], r, rx_frame_size + Len(rx_buffer'))
        <5>1. \A i \in 1..(Len(stream[client_fd]) - n) :
                stream'[client_fd][i] = Frame(r)[rx_frame_size + (n + i)]
          <6>1. \A i \in 1..(Len(stream[client_fd]) - n) : n + i \in 1..Len(stream[client_fd])
            BY <3>t
          <6>. QED  BY <4>2, <4>3, <6>1 DEF Rest
        <5>2. \A i \in 1..(Len(stream[client_fd]) - n) : rx_frame_size + (n + i) = rx_frame_size + n + i
          BY <3>t
        <5>3. Len(stream[client_fd]) - n = Cells(r) - (rx_frame_size + n)
          BY <3>2, <3>t, <4>2 DEF Rest
        <5>. QED  BY <4>3, <5>1, <5>2, <5>3 DEF Rest
      <4>. QED  BY <2>1, <4>2, <4>3, <4>4, <4>5, <4>6 DEF Arriving, Reassembled, Idle
    <3>5. CASE RecvEnd
      <4>1. phase[client_fd] = "up"
        BY <2>1 DEF IInv, Links, OneEach
      <4>. QED  BY <3>5, <4>1 DEF RecvEnd
    <3>6. CASE Copy
      <4>1. Arriving(r) /\ tpc = "copy"
        BY <3>3, <3>6 DEF Copy, Taken
      <4>2. rx_frame_size + Len(rx_buffer) < BufCells
        BY <4>1, <3>2, <3>t DEF Arriving
      <4>3. /\ rx_frame_buffer' =
                  [i \in DOMAIN rx_frame_buffer |->
                     IF i \in rx_frame_size..(rx_frame_size + Len(rx_buffer) - 1)
                     THEN rx_buffer[i - rx_frame_size + 1] ELSE rx_frame_buffer[i]]
            /\ tpc' = "grow" /\ base' = rx_frame_size
            /\ UNCHANGED <<rx_frame_size, stream, mpc, events, rx_buffer>>
        BY <3>6, <4>2, <3>t, <3>2 DEF Copy
      <4>4. DOMAIN rx_frame_buffer = 0..(BufCells - 1)
        <5>1. rx_frame_buffer \in [0..(BufCells - 1) -> Cell]
          BY DEF TypeOK
        <5>. QED  BY <5>1
      <4>5. Reassembled(r, rx_frame_size + Len(rx_buffer))'
        <5>. SUFFICES ASSUME NEW i \in 0..(rx_frame_size + Len(rx_buffer) - 1)
                      PROVE  rx_frame_buffer'[i] = Frame(r)[i + 1]
          BY <3>t, <4>1, <4>3 DEF Arriving, Reassembled
        <5>1. i \in DOMAIN rx_frame_buffer
          BY <3>t, <3>2, <4>2, <4>4
        <5>2. CASE i < rx_frame_size
          BY <5>1, <5>2, <4>1, <4>3, <3>t DEF Arriving, Reassembled
        <5>3. CASE i >= rx_frame_size
          <6>1. i - rx_frame_size + 1 \in 1..Len(rx_buffer)
            BY <5>3, <3>t
          <6>2. rx_frame_buffer'[i] = rx_buffer[i - rx_frame_size + 1]
            BY <5>1, <5>3, <4>3, <3>t
          <6>3. rx_buffer[i - rx_frame_size + 1] = Frame(r)[rx_frame_size + (i - rx_frame_size + 1)]
            BY <4>1, <6>1 DEF Arriving
          <6>. QED  BY <6>2, <6>3, <3>t
        <5>. QED  BY <5>2, <5>3, <3>t
      <4>6. /\ Idle' /\ runs'[r] = 0 /\ Len(rx_buffer) > 0
            /\ Rest(stream[client_fd], r, rx_frame_size + Len(rx_buffer))
        BY <4>1, <4>3, <2>1 DEF Arriving, Idle
      <4>. QED  BY <2>1, <4>3, <4>5, <4>6 DEF Arriving, Rest
    <3>7. CASE Grow
      <4>1. Arriving(r) /\ tpc = "grow"
        BY <3>3, <3>7 DEF Grow, Taken
      <4>2. /\ rx_frame_size' = base + Len(rx_buffer) /\ tpc' = "check"
            /\ UNCHANGED <<rx_frame_buffer, stream, mpc, events>>
        BY <3>7, <4>1 DEF Grow, Arriving
      <4>. QED  BY <2>1, <4>1, <4>2, <3>t DEF Arriving, Idle, Rest, Reassembled
    <3>8. CASE CheckFrame
      <4>1. Arriving(r) /\ tpc = "check"
        BY <3>3, <3>8 DEF CheckFrame, Taken
      <4>2. rx_frame_size >= 2 => rx_frame_buffer[1] = cell(r, "len")
        BY <4>1, <3>2, <3>t DEF Arriving, Reassembled
      <4>3. rx_frame_size >= 2 => LengthField(rx_frame_buffer[1]) = {Data[r] + 1}
        BY <4>2, <3>2 DEF LengthField, cell
      <4>4. /\ rx_frame_size' = rx_frame_size /\ UNCHANGED <<rx_frame_buffer, stream, mpc, events>>
            /\ tpc' = IF rx_frame_size >= Cells(r) THEN "post" ELSE "recv"
        <5>1. CASE rx_frame_size < 2
          BY <5>1, <3>8, <3>2, <3>t DEF CheckFrame
        <5>2. CASE rx_frame_size >= 2
          <6>. DEFINE len == (Data[r] + 1 + 2) % 65536
          <6>0. \/ len > BufCells /\ rx_frame_size' = 0 /\ tpc' = "recv"
                \/ /\ len <= BufCells
                   /\ tpc' = IF rx_frame_size >= len THEN "post" ELSE "recv"
                   /\ UNCHANGED rx_frame_size
            BY <3>8, <5>2, <4>3, <3>t DEF CheckFrame
          <6>1. len = Cells(r)
            <7>1. Data[r] + 1 + 2 = Cells(r) /\ Cells(r) \in Nat /\ Cells(r) < 65536
              BY <3>2
            <7>2. ASSUME NEW n \in Nat, n < 65536 PROVE n % 65536 = n
              BY <7>2
            <7>3. len = Cells(r) % 65536
              BY <7>1
            <7>. QED  BY <7>1, <7>2, <7>3
          <6>. QED  BY <3>8, <6>0, <6>1, <3>2 DEF CheckFrame
        <5>. QED  BY <5>1, <5>2, <3>t
      <4>5. rx_frame_size <= Cells(r)
        BY <4>1 DEF Arriving, Reassembled
      <4>. QED  BY <2>1, <4>1, <4>4, <4>5, <3>t, <3>2 DEF Arriving, Idle, Rest, Reassembled
    <3>9. CASE PostReceived
      <4>1. Arriving(r) /\ tpc = "post" /\ Idle
        BY <3>3, <3>9 DEF PostReceived, Taken, Arriving
      <4>2. stream[client_fd] = <<>>
        BY <4>1, <3>t, <3>2 DEF Arriving, Rest
      <4>3. /\ events' = <<"EV_FRAME_RECEIVED">> /\ mpc' = "poll" /\ tpc' = "recv"
            /\ UNCHANGED <<rx_frame_buffer, rx_frame_size, stream>>
        BY <3>9, <4>1 DEF PostReceived, Idle
      <4>. QED  BY <2>1, <4>1, <4>2, <4>3 DEF Arriving, Taken, Reassembled
    <3>. QED  BY <1>6, <3>4, <3>5, <3>6, <3>7, <3>8, <3>9
  <2>. QED  BY <2>1, <2>3, <2>4 DEF Served
<1>. QED  BY <1>1, <1>2, <1>3, <1>4, <1>5, <1>6 DEF TcpStep

----------------------------------------------------------------------------
(* The polling thread keeps the invariant.  It has something to do only    *)
(* when the request of the connection that is served has arrived.          *)
LEMMA MainKeeps ==
  ASSUME TypeOK, Polite, IInv, MainStep
  PROVE  IInv'
<1>. USE DEF sockVars, cliVars, tcpVars, bufVars, mainVars
<1>1. ~Idle
  BY DEF Idle, MainStep, Poll, GetSize, GetReset, Receive, Lookup, Handle, SetLength, SendResponse
<1>2. Serving /\ client_fd \in Sessions
  BY <1>1 DEF IInv, Frames, IdleBetween, Serving, TypeOK
<1>3. waiting[client_fd] # {}
  BY <1>1, <1>2 DEF IInv, Frames, Served, AtRest
<1>. PICK r \in waiting[client_fd] : TRUE
  BY <1>3
<1>4. r \in Requests /\ waiting[client_fd] = {r} /\ owner[r] = client_fd /\ r <= asked
  BY <1>2 DEF IInv, Links, OneEach, TypeOK
<1>5. Taken(r)
  BY <1>1, <1>2 DEF IInv, Frames, Served, Arriving
<1>6. /\ Cells(r) \in Nat /\ Data[r] \in Nat /\ Cells(r) = 3 + Data[r] /\ BufCells \in Nat
      /\ Cells(r) < BufCells /\ BufCells < 65536 /\ Pid[r]
      /\ Frame(r)[1] = cell(r, "tid") /\ Frame(r)[3] = cell(r, "func")
      /\ \A i \in 1..Data[r] : Frame(r)[3 + i] = cell(r, "data")
  BY <1>4, FrameCells, TcpAssumption DEF Polite
<1>7. UNCHANGED <<sockVars, asked, owner, tpc, client_fd, rx_buffer, base>>
  <2>1. CASE Poll \/ GetSize \/ GetReset \/ Receive \/ Lookup
    BY <2>1 DEF Poll, GetSize, GetReset, Receive, Lookup
  <2>2. CASE Handle
    BY <2>2 DEF Handle
  <2>3. CASE SetLength
    BY <2>3 DEF SetLength
  <2>4. CASE SendResponse
    BY <2>4 DEF SendResponse
  <2>. QED  BY <2>1, <2>2, <2>3, <2>4 DEF MainStep
\* What is left to show of a step that does not touch the clients.
<1>8. ASSUME UNCHANGED <<waiting, replies, runs>>, Taken(r)' PROVE IInv'
  <2>1. Links'
    BY <1>7, <1>8 DEF IInv, Links, OneEach, Fresh, AcceptedOnce, NoResets
  <2>2. Frames'
    BY <1>2, <1>4, <1>7, <1>8 DEF IInv, Frames, OnTheWay, Served, IdleBetween, Serving, Rest
  <2>3. RunsOnce' /\ RepliesCorrect'
    BY <1>7, <1>8 DEF IInv, RunsOnce, RepliesCorrect
  <2>. QED  BY <2>1, <2>2, <2>3 DEF IInv
<1>9. CASE Poll
  <2>1. \/ events = <<"EV_FRAME_RECEIVED">> /\ rx_frame_size = Cells(r)
        \/ events = <<"EV_EXECUTE">> /\ usLength = 1 + Data[r] /\ rx_frame_size = 0
    BY <1>5, <1>9 DEF Taken, Poll
  <2>2. runs[r] = 0 /\ Reassembled(r, Cells(r))
    BY <1>5, <1>9 DEF Taken, Poll
  <2>3. /\ events' = <<>>
        /\ mpc' = IF events[1] = "EV_FRAME_RECEIVED" THEN "size" ELSE "lookup"
        /\ UNCHANGED <<waiting, replies, runs, bufVars, usTCPLength, usLength, function>>
    BY <1>9, <2>1 DEF Poll
  <2>4. Taken(r)'
    BY <1>5, <1>7, <2>1, <2>2, <2>3 DEF Taken, Reassembled
  <2>. QED  BY <1>8, <2>3, <2>4
<1>10. CASE GetSize
  BY <1>10, <1>5, <1>7, <1>8 DEF GetSize, Taken, Reassembled
<1>11. CASE GetReset
  BY <1>11, <1>5, <1>7, <1>8 DEF GetReset, Taken, Reassembled
<1>12. CASE Receive
  <2>1. /\ usTCPLength = Cells(r) /\ rx_frame_size = 0 /\ events = <<>>
        /\ runs[r] = 0 /\ Reassembled(r, Cells(r))
    BY <1>5, <1>12 DEF Taken, Receive
  <2>2. rx_frame_buffer[0] = cell(r, "tid")
    BY <2>1, <1>6 DEF Reassembled
  <2>3. Protocol(rx_frame_buffer[0]) = {"modbus"}
    BY <2>2, <1>6 DEF Protocol, cell
  <2>4. /\ usLength' = (usTCPLength - 2) % 65536 /\ events' = Append(events, "EV_EXECUTE") /\ mpc' = "poll"
        /\ UNCHANGED <<waiting, replies, runs, bufVars>>
    BY <1>12, <2>3 DEF Receive
  <2>5. usLength' = 1 + Data[r]
    BY <2>1, <2>4, <1>6
  <2>6. events' = <<"EV_EXECUTE">>
    BY <2>1, <2>4
  <2>. QED  BY <1>5, <1>7, <1>8, <2>1, <2>4, <2>5, <2>6 DEF Taken, Reassembled
<1>13. CASE Lookup
  <2>1. /\ usLength = 1 + Data[r] /\ rx_frame_size = 0 /\ events = <<>>
        /\ runs[r] = 0 /\ Reassembled(r, Cells(r))
    BY <1>5, <1>13 DEF Taken, Lookup
  <2>2. rx_frame_buffer[2] = cell(r, "func")
    BY <2>1, <1>6 DEF Reassembled
  <2>. QED  BY <1>5, <1>7, <1>8, <1>13, <2>1, <2>2 DEF Lookup, Taken, Reassembled
<1>14. CASE Handle
  <2>1. /\ usLength = 1 + Data[r] /\ rx_frame_size = 0 /\ events = <<>> /\ function = cell(r, "func")
        /\ runs[r] = 0 /\ Reassembled(r, Cells(r))
    BY <1>5, <1>14 DEF Taken, Handle
  <2>2. DataIntact(r) /\ LengthAccepted(r)
    <3>1. LengthAccepted(r)
      BY <2>1, <1>6 DEF LengthAccepted
    <3>2. ASSUME NEW i \in 1..Data[r] PROVE 2 + i < BufCells /\ rx_frame_buffer[2 + i] = cell(r, "data")
      <4>1. 2 + i \in 0..(Cells(r) - 1) /\ 2 + i < BufCells /\ (2 + i) + 1 = 3 + i
        BY <1>6
      <4>. QED  BY <4>1, <2>1, <1>6 DEF Reassembled
    <3>. QED  BY <3>1, <3>2 DEF DataIntact
  <2>3. Outcome(function) = {cell(r, "answer")}
    BY <2>1, <2>2 DEF Outcome, cell
  <2>4. /\ rx_frame_buffer' = [rx_frame_buffer EXCEPT ![2] = cell(r, "answer")]
        /\ runs' = [q \in Requests |-> IF q = r THEN runs[q] + 1 ELSE runs[q]]
        /\ mpc' = "header" /\ UNCHANGED <<waiting, replies, rx_frame_size, events>>
    <3>. PICK pdu \in Outcome(function) :
           /\ rx_frame_buffer' = [rx_frame_buffer EXCEPT ![2] = pdu]
           /\ runs' = [q \in Requests |-> IF q = pdu.req /\ pdu.part # "error" THEN runs[q] + 1 ELSE runs[q]]
      BY <1>14 DEF Handle
    <3>1. pdu = cell(r, "answer")
      BY <2>3
    <3>2. pdu.req = r /\ pdu.part # "error"
      BY <3>1 DEF cell
    <3>. QED  BY <1>14, <3>1, <3>2 DEF Handle
  <2>5. rx_frame_buffer \in [0..(BufCells - 1) -> Cell] /\ rx_frame_buffer[0] = cell(r, "tid")
    <3>1. rx_frame_buffer \in [0..(BufCells - 1) -> Cell]
      BY DEF TypeOK
    <3>. QED  BY <3>1, <2>1, <1>6 DEF Reassembled
  <2>6. rx_frame_buffer'[0] = cell(r, "tid") /\ rx_frame_buffer'[2] = cell(r, "answer")
    BY <2>4, <2>5, <1>6
  <2>7. runs'[r] = 1 /\ \A q \in Requests : q # r => runs'[q] = runs[q]
    BY <2>1, <2>4, <1>4
  <2>8. Taken(r)'
    BY <1>5, <1>7, <2>1, <2>4, <2>6, <2>7 DEF Taken
  <2>9. Links'
    <3>1. asked \in Nat /\ r \in Nat
      BY <1>4 DEF TypeOK, Requests
    <3>2. Fresh'
      BY <1>4, <1>7, <2>7, <3>1 DEF IInv, Links, Fresh
    <3>. QED  BY <1>7, <2>4, <3>2 DEF IInv, Links, OneEach, AcceptedOnce, NoResets
  <2>10. \A s \in Sessions : s # client_fd => r \notin waiting[s]
    BY <1>4 DEF IInv, Links, OneEach
  <2>11. Frames'
    <3>1. \A s \in Sessions : \A q \in waiting[s] : s # client_fd => runs'[q] = runs[q]
      BY <2>7, <2>10 DEF TypeOK
    <3>2. OnTheWay'
      BY <1>2, <1>7, <2>4, <3>1 DEF IInv, Frames, OnTheWay, Serving, Rest
    <3>3. Served' /\ IdleBetween'
      BY <1>2, <1>4, <1>7, <2>4, <2>8 DEF Served, IdleBetween, Serving
    <3>. QED  BY <3>2, <3>3 DEF Frames
  <2>12. RunsOnce' /\ RepliesCorrect'
    BY <1>4, <1>7, <2>4, <2>7 DEF IInv, RunsOnce, RepliesCorrect
  <2>. QED  BY <2>9, <2>11, <2>12 DEF IInv
<1>15. CASE SetLength
  <2>1. /\ rx_frame_size = 0 /\ events = <<>> /\ runs[r] = 1
        /\ rx_frame_buffer[0] = cell(r, "tid") /\ rx_frame_buffer[2] = cell(r, "answer")
    BY <1>5, <1>15 DEF Taken, SetLength
  <2>2. rx_frame_buffer'[0] = cell(r, "tid") /\ rx_frame_buffer'[2] = cell(r, "answer")
    <3>1. rx_frame_buffer \in [0..(BufCells - 1) -> Cell]
      BY DEF TypeOK
    <3>2. rx_frame_buffer' = [rx_frame_buffer EXCEPT ![1] = cell(function.req, "rlen")]
      BY <1>15 DEF SetLength
    <3>. QED  BY <3>1, <3>2, <2>1, <1>6
  <2>. QED  BY <1>5, <1>7, <1>8, <1>15, <2>1, <2>2 DEF SetLength, Taken
<1>16. CASE SendResponse
  <2>1. /\ rx_frame_size = 0 /\ events = <<>> /\ runs[r] = 1 /\ tpc = "recv" /\ stream[client_fd] = <<>>
        /\ rx_frame_buffer[0] = cell(r, "tid") /\ rx_frame_buffer[2] = cell(r, "answer")
    BY <1>5, <1>16 DEF Taken, SendResponse
  <2>2. Reaches(client_fd)
    BY <1>2, <1>4, <2>1 DEF IInv, Links, OneEach, AcceptedOnce, Reaches
  <2>3. /\ replies' = replies \cup {[to |-> client_fd, tid |-> cell(r, "tid"), pdu |-> cell(r, "answer")]}
        /\ waiting' = [waiting EXCEPT ![client_fd] = @ \ {r}]
        /\ mpc' = "poll" /\ UNCHANGED <<runs, bufVars, events>>
    BY <1>16, <2>1, <2>2 DEF SendResponse, cell
  <2>4. waiting'[client_fd] = {} /\ \A s \in Sessions : s # client_fd => waiting'[s] = waiting[s]
    BY <1>2, <1>4, <2>3 DEF TypeOK
  <2>5. Links'
    BY <1>2, <1>7, <2>3, <2>4 DEF IInv, Links, OneEach, Fresh, AcceptedOnce, NoResets
  <2>6. AtRest'
    BY <1>7, <2>1, <2>3 DEF AtRest, Idle
  <2>7. Frames'
    BY <1>2, <1>7, <2>1, <2>3, <2>4, <2>6
       DEF IInv, Frames, OnTheWay, Served, IdleBetween, Serving, Rest
  <2>8. RunsOnce' /\ RepliesCorrect'
    <3>1. owner'[r] = client_fd
      BY <1>4, <1>7
    <3>. QED  BY <1>4, <1>7, <2>3, <3>1 DEF IInv, RunsOnce, RepliesCorrect
  <2>. QED  BY <2>5, <2>7, <2>8 DEF IInv
<1>. QED
  BY <1>9, <1>10, <1>11, <1>12, <1>13, <1>14, <1>15, <1>16 DEF MainStep

----------------------------------------------------------------------------
(* The invariant is inductive and gives the properties.                    *)
LEMMA PoliteInductive ==
  ASSUME Polite
  PROVE  /\ Init => IInv
         /\ TypeOK /\ IInv /\ [Next]_vars => IInv'
         /\ TypeOK /\ IInv => BufferOwned
<1>1. Init => IInv
  BY TcpAssumption DEF Init, IInv, Links, OneEach, Fresh, AcceptedOnce, NoResets, Frames, OnTheWay,
     Served, Serving, IdleBetween, Idle, RunsOnce, RepliesCorrect
<1>2. ASSUME TypeOK, IInv, [Next]_vars PROVE IInv'
  <2>1. CASE UNCHANGED vars
    BY <1>2, <2>1 DEF vars, sockVars, cliVars, tcpVars, bufVars, mainVars, IInv, Links, OneEach, Fresh,
       AcceptedOnce, NoResets, Frames, OnTheWay, Served, Serving, IdleBetween, Idle, RunsOnce,
       RepliesCorrect, Rest, AtRest, Arriving, Taken, Reassembled
  <2>2. ASSUME NEW s \in Sessions, ClientStep(s) PROVE IInv'
    BY <1>2, <2>2, ClientsKeepLinks, ClientsKeepFrames DEF IInv
  <2>3. CASE TcpStep
    BY <1>2, <2>3, TcpKeepsLinks, TcpKeepsFrames DEF IInv
  <2>4. CASE MainStep
    BY <1>2, <2>4, MainKeeps
  <2>. QED  BY <1>2, <2>1, <2>2, <2>3, <2>4 DEF Next
<1>3. ASSUME TypeOK, IInv PROVE BufferOwned
  <2>. SUFFICES ASSUME ~Idle PROVE tpc = "recv"
    BY DEF BufferOwned, Idle
  <2>1. Serving /\ client_fd \in Sessions
    BY <1>3 DEF IInv, Frames, IdleBetween, Serving, TypeOK
  <2>2. \E r \in waiting[client_fd] : Taken(r)
    BY <1>3, <2>1 DEF IInv, Frames, Served, AtRest, Arriving
  <2>. QED  BY <2>2 DEF Taken
<1>. QED  BY <1>1, <1>2, <1>3

(* With clients that wait, the TCP thread leaves the frame buffer alone    *)
(* from the post of a frame to its reply, although nothing locks it.       *)
THEOREM BufferIsOwned == Polite => (Spec => []BufferOwned)
<1>. SUFFICES ASSUME Polite PROVE Spec => []BufferOwned
  OBVIOUS
<1>1. /\ Init => IInv
      /\ TypeOK /\ IInv /\ [Next]_vars => IInv'
      /\ TypeOK /\ IInv => BufferOwned
  BY PoliteInductive
<1>. QED  BY <1>1, TypeCorrect, PTL DEF Spec

(* With such clients every reply has the identifier of the request it was  *)
(* computed from and goes to the client that sent it.                      *)
THEOREM RepliesAreCorrect == Polite => (Spec => []RepliesCorrect)
<1>. SUFFICES ASSUME Polite PROVE Spec => []RepliesCorrect
  OBVIOUS
<1>1. /\ Init => IInv
      /\ TypeOK /\ IInv /\ [Next]_vars => IInv'
      /\ IInv => RepliesCorrect
  BY PoliteInductive DEF IInv
<1>. QED  BY <1>1, TypeCorrect, PTL DEF Spec

(* With such clients no handler runs twice for a request, although an      *)
(* event is posted for whatever recv() returns.                            *)
THEOREM RequestsRunOnce == Polite => (Spec => []RunsOnce)
<1>. SUFFICES ASSUME Polite PROVE Spec => []RunsOnce
  OBVIOUS
<1>1. /\ Init => IInv
      /\ TypeOK /\ IInv /\ [Next]_vars => IInv'
      /\ IInv => RunsOnce
  BY PoliteInductive DEF IInv
<1>. QED  BY <1>1, TypeCorrect, PTL DEF Spec

(* In the composition with clients that do not wait, the invariant holds in *)
(* the behaviours of those that do.                                        *)
PatientInv == which = "patient" => TypeOK /\ IInv

LEMMA PatientInductive == Polite => (MCSpec => []PatientInv)
<1>. SUFFICES ASSUME Polite PROVE MCSpec => []PatientInv
  OBVIOUS
<1>1. MCInit => PatientInv
  BY PoliteInductive, InitTypes DEF MCInit, PatientInv
<1>2. PatientInv /\ [MCNext]_<<which, vars>> => PatientInv'
  <2>1. TypeOK /\ IInv /\ [Next]_vars => TypeOK' /\ IInv'
    BY PoliteInductive, StepTypes
  <2>. QED  BY <2>1 DEF MCNext, PatientNext, ImpatientNext, PatientInv
<1>. QED  BY <1>1, <1>2, PTL DEF MCSpec

(* There the frame buffer belongs to one thread at a time.                  *)
THEOREM PatientClientsOwn == Polite => (MCSpec => []PatientOwned)
<1>. SUFFICES ASSUME Polite PROVE MCSpec => []PatientOwned
  OBVIOUS
<1>1. PatientInv => PatientOwned
  BY PoliteInductive DEF PatientOwned, PatientInv
<1>. QED  BY <1>1, PatientInductive, PTL

(* And there requests run once and replies are right.                       *)
THEOREM PatientClientsServed == Polite => (MCSpec => []PatientServed)
<1>. SUFFICES ASSUME Polite PROVE MCSpec => []PatientServed
  OBVIOUS
<1>1. PatientInv => PatientServed
  BY DEF PatientServed, PatientInv, IInv
<1>. QED  BY <1>1, PatientInductive, PTL
============================================================================
