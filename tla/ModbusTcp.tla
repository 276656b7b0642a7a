----------------------------- MODULE ModbusTcp -----------------------------
(***************************************************************************)
(* The Modbus TCP slave at run time (ch04-13/modbus_s, MODBUS_RUN_TCP):    *)
(* the TCP thread of port/porttcp.cpp that accepts one client at a time    *)
(* and reassembles frames in rx_frame_buffer; the polling thread of        *)
(* freemodbus/mb.c that fetches a frame, executes it in place and sends    *)
(* the buffer back (freemodbus/tcp/mbtcp.cpp); and the clients.            *)
(*                                                                         *)
(* rx_frame_buffer, rx_frame_size and client_fd are shared by the two      *)
(* threads without a lock.  Only the event queue is synchronised: a post   *)
(* and a get are single steps here, which ThreadQueue justifies.           *)
(*                                                                         *)
(* Bytes are grouped into cells: a request is a transaction cell (tid and  *)
(* pid), a length cell, a function cell and Data[r] data cells.  The six   *)
(* bytes of the MBAP header are the first two cells, and the length cell   *)
(* announces Announced[r] cells after them.                                *)
(***************************************************************************)
EXTENDS Integers, Sequences, FiniteSets

CONSTANTS
  Sessions,    \* TCP connections clients may open
  NoSession,   \* client_fd = -1
  NumRequests, \* requests the clients send, all together (bound)
  Data,        \* data cells each request really has
  Announced,   \* cells its length field announces
  Pid,         \* whether its protocol identifier is 0
  Exact,       \* whether its handler insists on the exact length
  BufCells,    \* TCP_RX_BUFFER_SIZE
  Window,      \* requests a client may have outstanding
  Patient,     \* clients wait for a reply before they give up or close
  MayReset     \* clients may abort a connection with a reset

Requests == 1..NumRequests
HeaderCells == 2

ASSUME TcpAssumption ==
  /\ NoSession \notin Sessions
  /\ NumRequests \in Nat
  /\ Data \in [Requests -> Nat] /\ Announced \in [Requests -> Nat]
  /\ Pid \in [Requests -> BOOLEAN] /\ Exact \in [Requests -> BOOLEAN]
  /\ BufCells \in Nat /\ BufCells > HeaderCells
  /\ Window \in Nat
  /\ Patient \in BOOLEAN /\ MayReset \in BOOLEAN

VARIABLES
  \* sockets
  phase,           \* client side of each connection: "new", "up" or "down"
  backlog,         \* connections accept() has not returned yet
  stream,          \* cells sent and not yet read by recv()
  broken,          \* connections with a pending reset
  closed,          \* connections the slave has closed
  \* clients
  asked,           \* requests sent so far
  owner,           \* the connection each request was sent over
  waiting,         \* requests each client still expects a reply to
  replies,         \* history: the replies that reached a client
  runs,            \* history: how often a handler ran each request
  \* TCP thread
  tpc,             \* its program counter
  client_fd,       \* porttcp_info.client_fd
  rx_buffer,       \* the cells of the last recv()
  base,            \* rx_frame_size as the bound check and memcpy read it
  rx_frame_buffer,
  rx_frame_size,
  \* polling thread
  events,          \* the event queue
  mpc,             \* its program counter
  usTCPLength,     \* the size xMBTCPPortGetRequest read
  usLength,        \* eMBPoll's static PDU length
  function         \* eMBPoll's static ucFunctionCode: the cell it was read from

sockVars == <<phase, backlog, stream, broken, closed>>
cliVars  == <<asked, owner, waiting, replies, runs>>
tcpVars  == <<tpc, client_fd, rx_buffer, base>>
bufVars  == <<rx_frame_buffer, rx_frame_size>>
mainVars == <<mpc, usTCPLength, usLength, function>>
vars == <<sockVars, cliVars, tcpVars, bufVars, mainVars, events>>

Range0(n) == 0..(n - 1)

Part == {"tid", "len", "func", "data", "rlen", "answer", "torn", "error", "zero"}
Cell == [req : Requests \cup {0}, part : Part]
cell(r, p) == [req |-> r, part |-> p]
Zero == cell(0, "zero")

Frame(r) ==
  [i \in 1..(3 + Data[r]) |->
     cell(r, IF i = 1 THEN "tid" ELSE IF i = 2 THEN "len" ELSE IF i = 3 THEN "func" ELSE "data")]

TState == {"accept", "reset", "recv", "copy", "grow", "check", "post", "close", "crashed"}
MState == {"poll", "size", "zero", "pid", "lookup", "handle", "header", "send"}

TypeOK ==
  /\ phase \in [Sessions -> {"new", "up", "down"}]
  /\ backlog \in Seq(Sessions)
  /\ stream \in [Sessions -> Seq(Cell)]
  /\ broken \subseteq Sessions /\ closed \subseteq Sessions
  /\ asked \in Requests \cup {0}
  /\ owner \in [Requests -> Sessions \cup {NoSession}]
  /\ waiting \in [Sessions -> SUBSET Requests]
  /\ replies \subseteq [to : Sessions, tid : Cell, pdu : Cell]
  /\ runs \in [Requests -> Nat]
  /\ tpc \in TState
  /\ client_fd \in Sessions \cup {NoSession}
  /\ tpc # "accept" => client_fd \in Sessions
  /\ rx_buffer \in Seq(Cell)
  /\ base \in Nat
  /\ rx_frame_buffer \in [Range0(BufCells) -> Cell]
  /\ rx_frame_size \in Nat
  /\ events \in Seq({"EV_FRAME_RECEIVED", "EV_EXECUTE"})
  /\ mpc \in MState
  /\ usTCPLength \in Nat /\ usLength \in Nat
  /\ function \in Cell

(* xMBTCPPortInit clears porttcp_info and starts the TCP thread; the       *)
(* polling thread enters its loop.                                         *)
Init ==
  /\ phase = [s \in Sessions |-> "new"]
  /\ backlog = <<>> /\ stream = [s \in Sessions |-> <<>>]
  /\ broken = {} /\ closed = {}
  /\ asked = 0 /\ owner = [r \in Requests |-> NoSession]
  /\ waiting = [s \in Sessions |-> {}]
  /\ replies = {} /\ runs = [r \in Requests |-> 0]
  /\ tpc = "accept" /\ client_fd = NoSession /\ rx_buffer = <<>> /\ base = 0
  /\ rx_frame_buffer = [i \in Range0(BufCells) |-> Zero] /\ rx_frame_size = 0
  /\ events = <<>>
  /\ mpc = "poll" /\ usTCPLength = 0 /\ usLength = 0 /\ function = Zero

----------------------------------------------------------------------------
(* Clients.                                                                *)

Connect(s) ==
  /\ phase[s] = "new"
  /\ phase' = [phase EXCEPT ![s] = "up"]
  /\ backlog' = Append(backlog, s)
  /\ UNCHANGED <<stream, broken, closed, cliVars, tcpVars, bufVars, mainVars, events>>

SendRequest(s) ==
  LET r == asked + 1 IN
  /\ phase[s] = "up"
  /\ r \in Requests
  /\ Cardinality(waiting[s]) < Window
  /\ asked' = r
  /\ owner' = [owner EXCEPT ![r] = s]
  /\ waiting' = [waiting EXCEPT ![s] = @ \cup {r}]
  /\ stream' = [stream EXCEPT ![s] = @ \o Frame(r)]
  /\ UNCHANGED <<phase, backlog, broken, closed, replies, runs, tcpVars, bufVars, mainVars, events>>

(* A client's own timeout: it no longer waits and may send again.          *)
Timeout(s) ==
  /\ ~Patient
  /\ phase[s] = "up" /\ waiting[s] # {}
  /\ waiting' = [waiting EXCEPT ![s] = {}]
  /\ UNCHANGED <<sockVars, asked, owner, replies, runs, tcpVars, bufVars, mainVars, events>>

Disconnect(s) ==
  /\ phase[s] = "up"
  /\ waiting[s] = {}
  /\ phase' = [phase EXCEPT ![s] = "down"]
  /\ UNCHANGED <<backlog, stream, broken, closed, cliVars, tcpVars, bufVars, mainVars, events>>

(* A reset discards what was not read and makes recv() fail once.          *)
Abort(s) ==
  /\ MayReset
  /\ phase[s] = "up"
  /\ phase' = [phase EXCEPT ![s] = "down"]
  /\ broken' = broken \cup {s}
  /\ stream' = [stream EXCEPT ![s] = <<>>]
  /\ waiting' = [waiting EXCEPT ![s] = {}]
  /\ UNCHANGED <<backlog, closed, asked, owner, replies, runs, tcpVars, bufVars, mainVars, events>>

----------------------------------------------------------------------------
(* The TCP thread: mb_tcp_process_task and tcp_rx_process.                 *)

Accept ==
  /\ tpc = "accept" /\ backlog # <<>>
  /\ client_fd' = Head(backlog)
  /\ backlog' = Tail(backlog)
  /\ tpc' = "reset"
  /\ UNCHANGED <<phase, stream, broken, closed, cliVars, rx_buffer, base, bufVars, mainVars, events>>

(* accept() fails: client_fd is -1 until the next connection.              *)
AcceptFails ==
  /\ tpc = "accept" /\ backlog # <<>>
  /\ client_fd' = NoSession
  /\ UNCHANGED <<sockVars, cliVars, tpc, rx_buffer, base, bufVars, mainVars, events>>

StartSession ==
  /\ tpc = "reset"
  /\ rx_frame_size' = 0
  /\ tpc' = "recv"
  /\ UNCHANGED <<sockVars, cliVars, client_fd, rx_buffer, base, rx_frame_buffer, mainVars, events>>

(* recv() returns any prefix of what has arrived, at most the buffer size. *)
Recv ==
  LET s == client_fd IN
  /\ tpc = "recv" /\ s \notin broken
  /\ \E n \in 1..Len(stream[s]) :
       /\ n <= BufCells
       /\ rx_buffer' = SubSeq(stream[s], 1, n)
       /\ stream' = [stream EXCEPT ![s] = SubSeq(@, n + 1, Len(@))]
  /\ tpc' = "copy"
  /\ UNCHANGED <<phase, backlog, broken, closed, cliVars, client_fd, base, bufVars, mainVars, events>>

(* recv() returns 0 once the client has closed and everything is read.     *)
RecvEnd ==
  /\ tpc = "recv" /\ client_fd \notin broken
  /\ phase[client_fd] = "down" /\ stream[client_fd] = <<>>
  /\ tpc' = "close"
  /\ UNCHANGED <<sockVars, cliVars, client_fd, rx_buffer, base, bufVars, mainVars, events>>

(* recv() returns -1, which the unsigned rx_size turns into SIZE_MAX: the  *)
(* test for < 0 is never true.  With an empty frame buffer the size is out *)
(* of range and the loop goes on; otherwise the sum wraps around to        *)
(* rx_frame_size - 1, passes the bound check, and memcpy runs off.         *)
RecvFails ==
  /\ tpc = "recv" /\ client_fd \in broken
  /\ broken' = broken \ {client_fd}
  /\ tpc' = IF rx_frame_size = 0 THEN "recv" ELSE "crashed"
  /\ UNCHANGED <<phase, backlog, stream, closed, cliVars, client_fd, rx_buffer, base, bufVars,
                 mainVars, events>>

(* Mutant: the bound check lets the buffer fill up (<= for <).             *)
Copy_Full ==
  LET n == Len(rx_buffer) IN
  /\ tpc = "copy"
  /\ base' = rx_frame_size
  /\ rx_frame_buffer' =
       [i \in DOMAIN rx_frame_buffer |->
          IF i \in rx_frame_size..(rx_frame_size + n - 1)
          THEN rx_buffer[i - rx_frame_size + 1] ELSE rx_frame_buffer[i]]
  /\ IF rx_frame_size + n <= BufCells
     THEN tpc' = "grow" /\ UNCHANGED rx_frame_size
     ELSE tpc' = "recv" /\ rx_frame_size' = 0
  /\ UNCHANGED <<sockVars, cliVars, client_fd, rx_buffer, mainVars, events>>

(* The bound check and memcpy; a chunk that does not fit is dropped with   *)
(* everything reassembled so far.                                          *)
Copy ==
  LET n == Len(rx_buffer) IN
  /\ tpc = "copy"
  /\ base' = rx_frame_size
  /\ \/ /\ rx_frame_size + n < BufCells
        /\ rx_frame_buffer' =
             [i \in DOMAIN rx_frame_buffer |->
                IF i \in rx_frame_size..(rx_frame_size + n - 1)
                THEN rx_buffer[i - rx_frame_size + 1] ELSE rx_frame_buffer[i]]
        /\ tpc' = "grow"
        /\ UNCHANGED rx_frame_size
     \/ /\ rx_frame_size + n >= BufCells
        /\ rx_frame_size' = 0
        /\ tpc' = "recv"
        /\ UNCHANGED rx_frame_buffer
  /\ UNCHANGED <<sockVars, cliVars, client_fd, rx_buffer, mainVars, events>>

(* rx_frame_size += rx_size races with the polling thread's reset: the     *)
(* compiler may add to the value read before memcpy or read it again.      *)
Grow ==
  /\ tpc = "grow"
  /\ rx_frame_size' \in {base + Len(rx_buffer), rx_frame_size + Len(rx_buffer)}
  /\ tpc' = "check"
  /\ UNCHANGED <<sockVars, cliVars, client_fd, rx_buffer, base, rx_frame_buffer, mainVars, events>>

(* What a cell says where the length field is expected: a cell of another  *)
(* kind may hold any number, of which a small one, a too large one and one *)
(* that wraps with the header added matter.                                *)
LengthField(c) ==
  CASE c.part = "len"  -> {Announced[c.req]}
    [] c.part = "rlen" -> {1}
    [] c.part = "zero" -> {0}
    [] OTHER           -> {0, BufCells, 65535}

(* Mutants: the frame is posted as soon as its header is there; a frame is *)
(* complete only when something follows it (> for >=).                     *)
CheckFrame_Early ==
  /\ tpc = "check"
  /\ tpc' = IF rx_frame_size >= HeaderCells THEN "post" ELSE "recv"
  /\ UNCHANGED <<sockVars, cliVars, client_fd, rx_buffer, base, bufVars, mainVars, events>>

CheckFrame_Strict ==
  /\ tpc = "check"
  /\ \E a \in LengthField(rx_frame_buffer[1]) :
       tpc' = IF rx_frame_size > (a + HeaderCells) % 65536 THEN "post" ELSE "recv"
  /\ UNCHANGED <<sockVars, cliVars, client_fd, rx_buffer, base, bufVars, mainVars, events>>

(* Is the frame complete, too long, or still arriving?  Its length is a    *)
(* uint16_t.                                                               *)
CheckFrame ==
  /\ tpc = "check"
  /\ \/ /\ rx_frame_size < HeaderCells
        /\ tpc' = "recv" /\ UNCHANGED rx_frame_size
     \/ /\ rx_frame_size >= HeaderCells
        /\ \E a \in LengthField(rx_frame_buffer[1]) :
             LET len == (a + HeaderCells) % 65536 IN
             \/ len > BufCells /\ rx_frame_size' = 0 /\ tpc' = "recv"
             \/ /\ len <= BufCells
                /\ tpc' = IF rx_frame_size >= len THEN "post" ELSE "recv"
                /\ UNCHANGED rx_frame_size
  /\ UNCHANGED <<sockVars, cliVars, client_fd, rx_buffer, base, rx_frame_buffer, mainVars, events>>

PostReceived ==
  /\ tpc = "post"
  /\ events' = Append(events, "EV_FRAME_RECEIVED")
  /\ tpc' = "recv"
  /\ UNCHANGED <<sockVars, cliVars, client_fd, rx_buffer, base, bufVars, mainVars>>

(* close(client_fd): the global client_fd keeps the old descriptor.        *)
CloseSession ==
  /\ tpc = "close"
  /\ closed' = closed \cup {client_fd}
  /\ tpc' = "accept"
  /\ UNCHANGED <<phase, backlog, stream, broken, cliVars, client_fd, rx_buffer, base, bufVars,
                 mainVars, events>>

----------------------------------------------------------------------------
(* The polling thread: eMBPoll.  A crash of the TCP thread ends it too.    *)

Running == tpc # "crashed"

(* xMBPortEventGet.                                                        *)
Poll ==
  /\ Running
  /\ mpc = "poll" /\ events # <<>>
  /\ events' = Tail(events)
  /\ mpc' = IF Head(events) = "EV_FRAME_RECEIVED" THEN "size" ELSE "lookup"
  /\ UNCHANGED <<sockVars, cliVars, tcpVars, bufVars, usTCPLength, usLength, function>>

(* xMBTCPPortGetRequest: read the size ...                                 *)
GetSize ==
  /\ Running
  /\ mpc = "size"
  /\ usTCPLength' = rx_frame_size
  /\ mpc' = "zero"
  /\ UNCHANGED <<sockVars, cliVars, tcpVars, bufVars, usLength, function, events>>

(* Mutant: the size is not reset.                                          *)
GetReset_Missing ==
  /\ Running
  /\ mpc = "zero"
  /\ mpc' = "pid"
  /\ UNCHANGED <<sockVars, cliVars, tcpVars, bufVars, usTCPLength, usLength, function, events>>

(* ... and start the next frame at the beginning of the same buffer.       *)
GetReset ==
  /\ Running
  /\ mpc = "zero"
  /\ rx_frame_size' = 0
  /\ mpc' = "pid"
  /\ UNCHANGED <<sockVars, cliVars, tcpVars, rx_frame_buffer, usTCPLength, usLength, function, events>>

(* Which protocol identifier a cell may read as: 0 is Modbus.              *)
Protocol(c) ==
  CASE c.part = "tid"  -> {IF Pid[c.req] THEN "modbus" ELSE "other"}
    [] c.part = "zero" -> {"modbus"}
    [] OTHER           -> {"modbus", "other"}

(* eMBTCPReceive: a Modbus frame is scheduled for execution; its PDU       *)
(* length is an unsigned 16-bit difference.                                *)
Receive ==
  /\ Running
  /\ mpc = "pid"
  /\ mpc' = "poll"
  /\ \/ /\ "modbus" \in Protocol(rx_frame_buffer[0])
        /\ usLength' = (usTCPLength - HeaderCells) % 65536
        /\ events' = Append(events, "EV_EXECUTE")
     \/ "other" \in Protocol(rx_frame_buffer[0]) /\ UNCHANGED <<usLength, events>>
  /\ UNCHANGED <<sockVars, cliVars, tcpVars, bufVars, usTCPLength, function>>

(* EV_EXECUTE: read the function code from the buffer ...                  *)
Lookup ==
  /\ Running
  /\ mpc = "lookup"
  /\ function' = rx_frame_buffer[2]
  /\ mpc' = "handle"
  /\ UNCHANGED <<sockVars, cliVars, tcpVars, bufVars, usTCPLength, usLength, events>>

DataIntact(r) ==
  \A i \in 1..Data[r] : 2 + i < BufCells /\ rx_frame_buffer[2 + i] = cell(r, "data")

LengthAccepted(r) ==
  IF Exact[r] THEN usLength = 1 + Data[r] ELSE usLength >= 1 + Data[r]

(* What the handler makes of the buffer: the reply's PDU.  "torn" is a     *)
(* request executed on data that is not its own; bytes that are no request *)
(* may look like one.                                                      *)
Outcome(c) ==
  CASE c.part = "func" /\ LengthAccepted(c.req) ->
         {cell(c.req, IF DataIntact(c.req) THEN "answer" ELSE "torn")}
    [] c.part = "func" /\ ~LengthAccepted(c.req) -> {cell(c.req, "error")}
    [] c.part \in {"zero", "error"} -> {cell(c.req, "error")}
    [] OTHER -> {cell(c.req, "torn"), cell(c.req, "error")}

(* ... run the handler, which overwrites the request with the reply; an    *)
(* exception overwrites it with an error frame.                            *)
Handle ==
  /\ Running
  /\ mpc = "handle"
  /\ mpc' = "header"
  /\ \E pdu \in Outcome(function) :
       /\ rx_frame_buffer' = [rx_frame_buffer EXCEPT ![2] = pdu]
       /\ runs' = [r \in Requests |->
                     IF r = pdu.req /\ pdu.part # "error" THEN runs[r] + 1 ELSE runs[r]]
  /\ usLength' = 1
  /\ UNCHANGED <<sockVars, asked, owner, waiting, replies, tcpVars, rx_frame_size, usTCPLength,
                 function, events>>

(* eMBTCPSend: only the length of the header in the buffer is updated.     *)
SetLength ==
  /\ Running
  /\ mpc = "header"
  /\ rx_frame_buffer' = [rx_frame_buffer EXCEPT ![1] = cell(function.req, "rlen")]
  /\ mpc' = "send"
  /\ UNCHANGED <<sockVars, cliVars, tcpVars, rx_frame_size, usTCPLength, usLength, function, events>>

(* A send() over descriptor s gets through to its client.                  *)
Reaches(s) == s \in Sessions /\ s \notin closed /\ phase[s] = "up"

(* xMBTCPPortSendResponse: whatever the buffer holds goes to whoever is    *)
(* connected; a closed descriptor makes send() fail, and a client that has *)
(* gone does not see the reply.  A client takes the reply with the tid of  *)
(* a request it waits for.                                                 *)
SendResponse ==
  LET s   == client_fd
      rep == [to |-> s, tid |-> rx_frame_buffer[0], pdu |-> rx_frame_buffer[2]] IN
  /\ Running
  /\ mpc = "send"
  /\ mpc' = "poll"
  /\ \/ /\ Reaches(s)
        /\ replies' = replies \cup {rep}
        /\ waiting' = [waiting EXCEPT ![s] = @ \ {rep.tid.req}]
     \/ ~Reaches(s) /\ UNCHANGED <<replies, waiting>>
  /\ UNCHANGED <<sockVars, asked, owner, runs, tcpVars, bufVars, usTCPLength, usLength, function, events>>

----------------------------------------------------------------------------
ClientStep(s) ==
  Connect(s) \/ SendRequest(s) \/ Timeout(s) \/ Disconnect(s) \/ Abort(s)

TcpStep ==
  \/ Accept \/ AcceptFails \/ StartSession \/ Recv \/ RecvEnd \/ RecvFails
  \/ Copy \/ Grow \/ CheckFrame \/ PostReceived \/ CloseSession

MainStep ==
  Poll \/ GetSize \/ GetReset \/ Receive \/ Lookup \/ Handle \/ SetLength \/ SendResponse

Next == (\E s \in Sessions : Running /\ ClientStep(s)) \/ TcpStep \/ MainStep

Spec == Init /\ [][Next]_vars

(* The scheduler runs both threads; accept() does not fail for ever.       *)
(* Nothing is assumed of the clients.                                      *)
Fairness ==
  /\ WF_vars(MainStep)
  /\ WF_vars(Accept)
  /\ WF_vars(StartSession \/ Recv \/ RecvEnd \/ RecvFails \/ Copy \/ Grow
             \/ CheckFrame \/ PostReceived \/ CloseSession)

FairSpec == Spec /\ Fairness

----------------------------------------------------------------------------
(* Reassembly stays inside rx_frame_buffer whatever the clients send and   *)
(* however the two threads interleave: the bound check of tcp_rx_process   *)
(* covers memcpy and the racing += as well.                                *)
BufferBounded ==
  /\ rx_frame_size < BufCells
  /\ tpc = "grow" => base + Len(rx_buffer) < BufCells

(* With clients that wait for the reply, the TCP thread never touches the  *)
(* frame buffer or its size from the moment a frame is posted until its    *)
(* reply is sent: the unlocked buffer changes hands with the event.        *)
BufferOwned ==
  (mpc # "poll" \/ events # <<>>) => tpc \notin {"reset", "copy", "grow", "check"}

(* With such clients, each reply carries the tid of the request it answers *)
(* and was computed from that request's own function and data; it goes to  *)
(* the client that asked.                                                  *)
RepliesCorrect ==
  \A rep \in replies : \E r \in Requests :
    /\ owner[r] = rep.to
    /\ rep.tid = cell(r, "tid")
    /\ rep.pdu = cell(r, "answer")

(* With such clients, no request is executed twice - a write is not        *)
(* repeated - although the TCP thread posts an event on every recv().      *)
RunsOnce == \A r \in Requests : runs[r] <= 1

(* mb.c: a request that was not a broadcast is answered, if its client is  *)
(* the one being served.                                                   *)
RequestsAnswered ==
  \A s \in Sessions : \A r \in Requests :
    (r \in waiting[s] /\ client_fd = s /\ s \notin closed) ~> r \notin waiting[s]

(* One client at a time: if every client closes or resets its connection   *)
(* sooner or later, every connection in the backlog is accepted; a reset   *)
(* that finds no partial frame does not end the accept loop.  (A reset     *)
(* that finds one ends the program: RecvFails.)                            *)
ClientsServed ==
  (/\ \A s \in Sessions : []<>(phase[s] # "up")
   /\ [](tpc # "crashed"))
    => \A s \in Sessions : (\E i \in 1..Len(backlog) : backlog[i] = s) ~> client_fd = s

(* mbtcp.cpp, comment in eMBTCPSend: the header in the buffer is the one   *)
(* of the request being answered.                                          *)
HeaderIsTheRequests ==
  mpc = "send" => rx_frame_buffer[0] = cell(function.req, "tid")
============================================================================
