----------------------------- MODULE CanSocket -----------------------------
(***************************************************************************)
(* The CAN application of ch03-22/can_apps: the thread of can_socket that  *)
(* reads CAN frames, feeds their bytes one by one to the parser of         *)
(* can_protocol and writes the reply, cut into CAN frames.  One can_frame  *)
(* serves both directions: the reply is written through the frame whose    *)
(* bytes the loop is still going over.                                     *)
(*                                                                         *)
(* A CAN frame is the sequence of its can_dlc data bytes.  The parser's    *)
(* buffer is the sequence of its first rx_framesize_ bytes.  char is       *)
(* unsigned, as on the ARM target the CMakeLists.txt builds for.           *)
(***************************************************************************)
EXTENDS Integers, Sequences, SequencesExt

CONSTANTS
  MaxFrameBuffer,  \* MAX_FRAME_BUFFER
  CanMaxDlen,      \* CAN_MAX_DLEN
  Crc,             \* crc16_modbus, a function of sequences of bytes
  Requests,        \* the requests a master sends: records ver, cmd, data
  Noise,           \* CAN frames that are no part of a request
  MaxSent          \* bound: requests and noise frames on the bus

HEADER    == 60    \* CAN_UI_HEADR
HeadSize  == 5     \* CAN_HEAD_SIZE
Version   == 1     \* CAN_PROTOCOL_VERSION
SHOW_INFO == 1     \* CAN_REQUEST_SHOW_INFO and CAN_RESPONSE_SHOW_INFO
Byte      == 0..255
Ushort    == 65535 \* UINT16_MAX

ASSUME CanAssumption ==
  /\ CanMaxDlen \in Nat \ {0} /\ MaxFrameBuffer \in Nat /\ MaxFrameBuffer > HeadSize + 2
  /\ MaxFrameBuffer <= Ushort
  /\ \A r \in Requests : /\ r.ver \in Byte /\ r.cmd \in Byte
                         /\ r.data \in Seq(Byte) /\ Len(r.data) + 7 <= MaxFrameBuffer
  /\ \A f \in Noise : f \in Seq(Byte) /\ Len(f) <= CanMaxDlen
  /\ MaxSent \in Nat

VARIABLES
  bus,              \* CAN frames the socket has received and run() has not read
  frame, i,         \* frame_ and the index of the next byte of the loop
  rx_frame_state_, rx_framebuffer_,
  tx_buffer_, sent, \* the reply and how much of it is written
  out,              \* bytes written to the bus
  packet,           \* the rest of the request a master is sending
  due, count,       \* bytes of the replies the masters expect; what has been sent
  faulty            \* a master sent noise or write() failed

rxVars == <<rx_frame_state_, rx_framebuffer_>>
txVars == <<tx_buffer_, sent>>
vars   == <<bus, frame, i, rxVars, txVars, out, packet, due, count, faulty>>

----------------------------------------------------------------------------
(* Frames of the protocol.                                                 *)

\* A uint16_t, high byte first.
TwoBytes(n) == <<n \div 256, n % 256>>

\* create_can_tx_buffer: a packet with this version, command and data.
Body(ver, cmd, load)   == <<HEADER, ver, cmd>> \o TwoBytes(Len(load)) \o load
Packet(ver, cmd, load) == Body(ver, cmd, load) \o TwoBytes(Crc[Body(ver, cmd, load)])

\* frame_size, from the two size bytes of the buffer.
FrameSize(f) == f[4] * 256 + f[5] + 7

(* Mutant: the limit is off by one.                                        *)
TooLong_Late(f) == FrameSize(f) > MaxFrameBuffer + 1
TooLong(f) == FrameSize(f) > MaxFrameBuffer

\* In "a == b | c" the comparison comes first: any low byte but 0 passes.
ChecksumPasses(f) ==
  \/ Crc[SubSeq(f, 1, Len(f) - 2)] = f[Len(f) - 1] * 256
  \/ f[Len(f)] # 0

\* protocol_process: the reply to the packet in the buffer, <<>> when there is none.
Reply(f) ==
  IF f[2] <= Version /\ f[3] = SHOW_INFO
  THEN Packet(Version, SHOW_INFO, SubSeq(f, 6, Len(f)))
  ELSE <<>>

----------------------------------------------------------------------------
(* The bus.                                                                *)

(* Mutant: the rest is sent as a full frame.                               *)
Piece_Full(s, n) == [k \in 1..CanMaxDlen |-> IF n + k <= Len(s) THEN s[n + k] ELSE 0]
\* The bytes of s after the first n that fit one CAN frame.
Piece(s, n) ==
  SubSeq(s, n + 1, IF n + CanMaxDlen <= Len(s) THEN n + CanMaxDlen ELSE Len(s))

Init ==
  /\ bus = <<>> /\ frame = <<>> /\ i = 0
  /\ rx_frame_state_ = "EMPTY" /\ rx_framebuffer_ = <<>>
  /\ tx_buffer_ = <<>> /\ sent = 0 /\ out = <<>>
  /\ packet = <<>> /\ due = <<>> /\ count = 0 /\ faulty = FALSE

\* The reply to a request: its data, in a packet of the program's version.
Answer(r) ==
  IF r.ver <= Version /\ r.cmd = SHOW_INFO THEN Packet(Version, SHOW_INFO, r.data) ELSE <<>>

\* A master has a request for the program ...
Ask ==
  /\ count < MaxSent /\ packet = <<>>
  /\ \E r \in Requests : /\ packet' = Packet(r.ver, r.cmd, r.data)
                         /\ due' = due \o Answer(r)
  /\ count' = count + 1
  /\ UNCHANGED <<bus, frame, i, rxVars, txVars, out, faulty>>

\* ... and sends it in CAN frames it fills.
SendPiece ==
  /\ packet # <<>>
  /\ \E n \in 1..Len(packet) :
       /\ n = CanMaxDlen \/ (n = Len(packet) /\ n < CanMaxDlen)
       /\ bus' = Append(bus, SubSeq(packet, 1, n))
       /\ packet' = SubSeq(packet, n + 1, Len(packet))
  /\ UNCHANGED <<frame, i, rxVars, txVars, out, due, count, faulty>>

\* A damaged request, a packet cut elsewhere, the frames of another node: no
\* filter is set and the identifier is not looked at.
SendNoise ==
  /\ count < MaxSent
  /\ \E f \in Noise : bus' = Append(bus, f)
  /\ count' = count + 1 /\ faulty' = TRUE
  /\ UNCHANGED <<frame, i, rxVars, txVars, out, packet, due>>

----------------------------------------------------------------------------
(* run(): one frame after the other, one byte after the other.             *)

Writing  == sent < Len(tx_buffer_)
FrameEnd == ~Writing /\ i >= Len(frame)

\* read() fills frame_ when the loop over the last one has ended.
Read ==
  /\ FrameEnd /\ bus # <<>>
  /\ frame' = Head(bus) /\ i' = 0
  /\ bus' = Tail(bus)
  /\ UNCHANGED <<rxVars, txVars, out, packet, due, count, faulty>>

\* The next byte of frame_ goes to process_rx_frame.
data == frame[i + 1]
NextByte ==
  /\ ~Writing /\ i < Len(frame)
  /\ i' = i + 1
  /\ UNCHANGED <<bus, frame, out, packet, due, count, faulty>>

\* Outside a packet only the header byte matters.
Outside ==
  /\ NextByte /\ rx_frame_state_ = "EMPTY" /\ UNCHANGED txVars
  /\ \/ data = HEADER /\ rx_frame_state_' = "RECEIVED" /\ rx_framebuffer_' = <<data>>
     \/ data # HEADER /\ UNCHANGED rx_frame_state_ /\ rx_framebuffer_' = <<>>

\* The buffer with the byte that has just arrived.
Received == Append(rx_framebuffer_, data)
Sized(f) == Len(f) > HeadSize
Whole(f) == Sized(f) /\ ~TooLong(f) /\ Len(f) >= FrameSize(f)

\* Inside a packet that is not complete.
Inside ==
  /\ NextByte /\ rx_frame_state_ = "RECEIVED" /\ UNCHANGED txVars
  /\ Sized(Received) => ~TooLong(Received) /\ ~Whole(Received)
  /\ rx_framebuffer_' = Received
  /\ UNCHANGED rx_frame_state_

\* A packet announced longer than the buffer, or whose checksum fails, is dropped.
Drop ==
  /\ NextByte /\ rx_frame_state_ = "RECEIVED" /\ UNCHANGED txVars
  /\ \/ Sized(Received) /\ TooLong(Received)
     \/ Whole(Received) /\ ~ChecksumPasses(Received)
  /\ rx_frame_state_' = "EMPTY" /\ rx_framebuffer_' = <<>>

\* A complete packet is executed; rx_framesize_ leaves the checksum out.
Complete ==
  /\ NextByte /\ rx_frame_state_ = "RECEIVED"
  /\ Whole(Received) /\ ChecksumPasses(Received)
  /\ rx_frame_state_' = "EMPTY"
  /\ rx_framebuffer_' = SubSeq(Received, 1, Len(Received) - 2)
  /\ tx_buffer_' = Reply(rx_framebuffer_') /\ sent' = 0

\* can_write_buffer: the next piece of the reply is copied over frame_ and
\* written; what write() returns is not looked at.
Write ==
  /\ Writing
  /\ frame' = Piece(tx_buffer_, sent) /\ sent' = sent + Len(frame')
  /\ \/ out' = out \o frame' /\ UNCHANGED faulty
     \/ out' = out /\ faulty' = TRUE
  /\ UNCHANGED <<bus, i, rxVars, tx_buffer_, packet, due, count>>

Run  == Read \/ Outside \/ Inside \/ Drop \/ Complete \/ Write
Next == Ask \/ SendPiece \/ SendNoise \/ Run

Spec == Init /\ [][Next]_vars

----------------------------------------------------------------------------
\* A CAN frame: the bytes of its data field.
CanFrame == {f \in Seq(Byte) : Len(f) <= CanMaxDlen}

TypeOK ==
  /\ bus \in Seq(CanFrame) /\ frame \in CanFrame /\ i \in Nat
  /\ rx_frame_state_ \in {"EMPTY", "RECEIVED"} /\ rx_framebuffer_ \in Seq(Byte)
  /\ tx_buffer_ \in Seq(Byte) /\ sent \in Nat /\ out \in Seq(Byte)
  /\ packet \in Seq(Byte) /\ due \in Seq(Byte)
  /\ count \in 0..MaxSent /\ faulty \in BOOLEAN

(* Whatever arrives, in whatever pieces, process_rx_frame writes inside    *)
(* rx_framebuffer_ and the reply fits tx_buffer_.  The limit is tested     *)
(* only once the size bytes are in, and the reply is built from the size   *)
(* that arrived.                                                           *)
BufferBounded ==
  /\ Len(rx_framebuffer_) <= MaxFrameBuffer
  /\ rx_frame_state_ = "RECEIVED" => Len(rx_framebuffer_) < MaxFrameBuffer
  /\ Len(tx_buffer_) <= MaxFrameBuffer

(* As long as masters begin each request in a CAN frame of its own and     *)
(* fill the frames, what is written is what they expect, byte by byte and  *)
(* in order: writing the reply through frame_ ends the loop over frame_,   *)
(* so the thread never parses its own reply.                               *)
RepliesCorrect == ~faulty => IsPrefix(out, due)

(* When the thread waits for the next CAN frame and none is there, every   *)
(* request has been answered whole and the parser is outside any packet:   *)
(* no request leaves the parser waiting for bytes of the next one.         *)
IdleMeansDone ==
  (~faulty /\ packet = <<>> /\ bus = <<>> /\ FrameEnd) => out = due /\ rx_frame_state_ = "EMPTY"
============================================================================
