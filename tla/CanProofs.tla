------------------------------ MODULE CanProofs ------------------------------
(***************************************************************************)
(* Proofs about CAN, for every value of the constants: the buffers of the   *)
(* application (CanSocket), then the driver of the controller (FlexCan) and *)
(* its bit timing (FlexCanTiming) in the composition of MCCan.              *)
(***************************************************************************)
EXTENDS MCCan, SequenceTheorems, WellFoundedInduction, TLAPS

USE DEF HeadSize

\* The checksum is a uint16_t.
CrcIsShort == \A s \in Seq(Byte) : Crc[s] \in Nat /\ Crc[s] <= Ushort

\* What BufferBounded rests on: the size a packet announces is tested with its
\* sixth byte, and from then on the packet is shorter than that size.
Announced ==
  rx_frame_state_ = "RECEIVED" =>
    /\ Len(rx_framebuffer_) >= 1
    /\ Len(rx_framebuffer_) > HeadSize =>
         ~TooLong(rx_framebuffer_) /\ Len(rx_framebuffer_) < FrameSize(rx_framebuffer_)

IInv == TypeOK /\ BufferBounded /\ Announced /\ sent <= Len(tx_buffer_)

----------------------------------------------------------------------------
(* Packets and their pieces.                                               *)

(* The two bytes of a short are bytes.                                     *)
LEMMA TwoBytesType ==
  ASSUME NEW n \in Nat, n <= Ushort
  PROVE  TwoBytes(n) \in Seq(Byte) /\ Len(TwoBytes(n)) = 2
<1>1. n % 256 \in 0..255
  OBVIOUS
<1>2. n \div 256 \in Int
  OBVIOUS
<1>3. n \div 256 <= 255
  BY DEF Ushort
<1>4. n \div 256 >= 0
  OBVIOUS
<1>5. n \div 256 \in Byte /\ n % 256 \in Byte
  BY <1>1, <1>2, <1>3, <1>4 DEF Byte
<1>. QED  BY <1>5 DEF TwoBytes

(* Two sequences of bytes make one.                                        *)
LEMMA JoinType ==
  ASSUME NEW s \in Seq(Byte), NEW t \in Seq(Byte)
  PROVE  s \o t \in Seq(Byte) /\ Len(s \o t) = Len(s) + Len(t)
BY ConcatProperties

(* A packet is seven bytes longer than its data.                           *)
LEMMA BodyType ==
  ASSUME NEW ver \in Byte, NEW cmd \in Byte, NEW payload \in Seq(Byte), Len(payload) <= Ushort
  PROVE  Body(ver, cmd, payload) \in Seq(Byte) /\ Len(Body(ver, cmd, payload)) = Len(payload) + 5
<1>1. <<HEADER, ver, cmd>> \in Seq(Byte) /\ Len(<<HEADER, ver, cmd>>) = 3
  <2>1. HEADER \in Byte
    BY DEF HEADER, Byte
  <2>. QED  BY <2>1
<1>2. TwoBytes(Len(payload)) \in Seq(Byte) /\ Len(TwoBytes(Len(payload))) = 2
  BY TwoBytesType
<1>3. <<HEADER, ver, cmd>> \o TwoBytes(Len(payload)) \in Seq(Byte)
  BY <1>1, <1>2, JoinType, Zenon
<1>4. /\ <<HEADER, ver, cmd>> \o TwoBytes(Len(payload)) \o payload \in Seq(Byte)
      /\ Len(<<HEADER, ver, cmd>> \o TwoBytes(Len(payload)) \o payload)
           = Len(<<HEADER, ver, cmd>> \o TwoBytes(Len(payload))) + Len(payload)
  BY <1>3, JoinType, Zenon
<1>5. Len(<<HEADER, ver, cmd>> \o TwoBytes(Len(payload)))
        = Len(<<HEADER, ver, cmd>>) + Len(TwoBytes(Len(payload)))
  BY <1>1, <1>2, JoinType, Zenon
<1>6. Len(Body(ver, cmd, payload)) = 3 + 2 + Len(payload)
  BY <1>1, <1>2, <1>4, <1>5, Zenon DEF Body
<1>. QED  BY <1>4, <1>6 DEF Body

(* So is a whole packet, with its checksum.                                *)
LEMMA PacketType ==
  ASSUME CrcIsShort, NEW ver \in Byte, NEW cmd \in Byte, NEW payload \in Seq(Byte), Len(payload) <= Ushort
  PROVE  Packet(ver, cmd, payload) \in Seq(Byte) /\ Len(Packet(ver, cmd, payload)) = Len(payload) + 7
<1>1. Body(ver, cmd, payload) \in Seq(Byte) /\ Len(Body(ver, cmd, payload)) = Len(payload) + 5
  BY BodyType
<1>2. Crc[Body(ver, cmd, payload)] \in Nat /\ Crc[Body(ver, cmd, payload)] <= Ushort
  BY <1>1 DEF CrcIsShort
<1>3. /\ TwoBytes(Crc[Body(ver, cmd, payload)]) \in Seq(Byte)
      /\ Len(TwoBytes(Crc[Body(ver, cmd, payload)])) = 2
  BY <1>2, TwoBytesType
<1>4. /\ Packet(ver, cmd, payload) \in Seq(Byte)
      /\ Len(Packet(ver, cmd, payload)) = Len(Body(ver, cmd, payload)) + 2
  BY <1>1, <1>3, JoinType, Zenon DEF Packet
<1>. QED  BY <1>1, <1>4

(* A part of a sequence of bytes is one.                                   *)
LEMMA PartType ==
  ASSUME NEW s \in Seq(Byte), NEW m \in 1..Len(s) + 1, NEW n \in (m - 1)..Len(s)
  PROVE  SubSeq(s, m, n) \in Seq(Byte) /\ Len(SubSeq(s, m, n)) = n - m + 1
BY SubSeqProperties

(* A piece is not empty, fits a CAN frame and ends inside the sequence.    *)
LEMMA PieceType ==
  ASSUME NEW s \in Seq(Byte), NEW n \in Nat, n < Len(s)
  PROVE  /\ Piece(s, n) \in Seq(Byte)
         /\ Len(Piece(s, n)) \in 1..CanMaxDlen /\ n + Len(Piece(s, n)) <= Len(s)
<1>. DEFINE e == IF n + CanMaxDlen <= Len(s) THEN n + CanMaxDlen ELSE Len(s)
<1>1. CanMaxDlen \in Nat \ {0}
  BY CanAssumption
<1>2. e \in Nat /\ e > n /\ e <= Len(s) /\ e <= n + CanMaxDlen
  BY <1>1
<1>3. Piece(s, n) = SubSeq(s, n + 1, e)
  BY DEF Piece
<1>. HIDE DEF e
<1>4. n + 1 \in 1..Len(s) + 1 /\ e \in ((n + 1) - 1)..Len(s)
  BY <1>2
<1>5. SubSeq(s, n + 1, e) \in Seq(Byte) /\ Len(SubSeq(s, n + 1, e)) = e - (n + 1) + 1
  BY <1>4, PartType, Zenon
<1>. QED  BY <1>1, <1>2, <1>3, <1>5

(* A byte is a number.                                                     *)
LEMMA ByteIsNat == ASSUME NEW b \in Byte PROVE b \in Nat
BY DEF Byte

(* The size a packet of at least five bytes announces, and that the sixth  *)
(* byte and the later ones do not change it.                               *)
LEMMA SizeType ==
  ASSUME NEW f \in Seq(Byte), Len(f) >= 5
  PROVE  FrameSize(f) \in Nat /\ FrameSize(f) >= 7
<1>1. f[4] \in Byte /\ f[5] \in Byte
  OBVIOUS
<1>2. f[4] \in Nat /\ f[5] \in Nat
  BY <1>1, ByteIsNat, Zenon
<1>. QED  BY <1>2 DEF FrameSize

(* A byte more does not change the size a packet announces.                *)
LEMMA SizeStable ==
  ASSUME NEW f \in Seq(Byte), Len(f) >= 5, NEW b \in Byte
  PROVE  FrameSize(Append(f, b)) = FrameSize(f)
<1>1. Append(f, b)[4] = f[4] /\ Append(f, b)[5] = f[5]
  OBVIOUS
<1>. QED  BY <1>1 DEF FrameSize

(* A reply to a packet without its checksum is as long as the packet was.  *)
LEMMA ReplyType ==
  ASSUME CrcIsShort, NEW f \in Seq(Byte), Len(f) >= 5, Len(f) <= Ushort
  PROVE  /\ Reply(f) \in Seq(Byte) /\ Len(Reply(f)) <= Len(f) + 2
<1>. DEFINE payload == SubSeq(f, 6, Len(f))
<1>1. 6 \in 1..Len(f) + 1 /\ Len(f) \in (6 - 1)..Len(f)
  OBVIOUS
<1>2. payload \in Seq(Byte) /\ Len(payload) = Len(f) - 6 + 1
  BY <1>1, PartType
<1>3. Len(payload) <= Ushort
  BY <1>2 DEF Ushort
<1>4. Version \in Byte /\ SHOW_INFO \in Byte
  BY DEF Version, SHOW_INFO, Byte
<1>. HIDE DEF payload
<1>5. /\ Packet(Version, SHOW_INFO, payload) \in Seq(Byte)
      /\ Len(Packet(Version, SHOW_INFO, payload)) = Len(payload) + 7
  BY <1>2, <1>3, <1>4, PacketType, Zenon
<1>6. CASE Reply(f) = Packet(Version, SHOW_INFO, payload)
  BY <1>2, <1>5, <1>6
<1>7. CASE Reply(f) = <<>>
  BY <1>7
<1>. QED  BY <1>6, <1>7 DEF Reply, payload

----------------------------------------------------------------------------
(* Steps.                                                                  *)

(* The bound on what is sent is kept.                                      *)
LEMMA CountType ==
  ASSUME TypeOK, count < MaxSent, count' = count + 1
  PROVE  count' \in 0..MaxSent
<1>1. count \in 0..MaxSent /\ MaxSent \in Nat
  BY CanAssumption DEF TypeOK
<1>. QED  BY <1>1

(* The buffer outside a packet and at its first byte.                      *)
LEMMA ShortType ==
  /\ <<>> \in Seq(Byte) /\ Len(<<>>) <= 1
  /\ \A b \in Byte : /\ <<b>> \in Seq(Byte)
                       /\ Len(<<b>>) <= 1 /\ Len(<<b>>) >= 1 /\ ~(Len(<<b>>) > HeadSize)
OBVIOUS

(* Whatever a master or another node does.                                 *)
LEMMA BusStep ==
  ASSUME CrcIsShort, IInv, Ask \/ SendPiece \/ SendNoise
  PROVE  IInv'
<1>. USE DEF IInv, TypeOK, rxVars, txVars
<1>1. BufferBounded' /\ Announced' /\ (sent <= Len(tx_buffer_))'
  <2>1. UNCHANGED <<rxVars, txVars>>
    BY DEF Ask, SendPiece, SendNoise
  <2>. QED  BY <2>1 DEF BufferBounded, Announced, TooLong, FrameSize
<1>2. CASE Ask
  <2>1. PICK r \in Requests : packet' = Packet(r.ver, r.cmd, r.data) /\ due' = due \o Answer(r)
    BY <1>2 DEF Ask
  <2>2. r.ver \in Byte /\ r.cmd \in Byte /\ r.data \in Seq(Byte) /\ Len(r.data) + 7 <= MaxFrameBuffer
    BY CanAssumption
  <2>3. Len(r.data) <= Ushort
    BY <2>2, CanAssumption DEF Ushort
  <2>4. packet' \in Seq(Byte)
    BY <2>1, <2>2, <2>3, PacketType, Zenon
  <2>5. Version \in Byte /\ SHOW_INFO \in Byte
    BY DEF Version, SHOW_INFO, Byte
  <2>6. Packet(Version, SHOW_INFO, r.data) \in Seq(Byte)
    BY <2>2, <2>3, <2>5, PacketType, Zenon
  <2>7. Answer(r) \in Seq(Byte)
    BY <2>6 DEF Answer
  <2>8. due' \in Seq(Byte)
    BY <2>1, <2>7, JoinType
  <2>9. count' \in 0..MaxSent
    BY <1>2, CountType DEF Ask
  <2>. QED  BY <1>1, <1>2, <2>4, <2>8, <2>9 DEF Ask
<1>3. CASE SendPiece
  <2>1. PICK n \in 1..Len(packet) : /\ n = CanMaxDlen \/ (n = Len(packet) /\ n < CanMaxDlen)
                                    /\ bus' = Append(bus, SubSeq(packet, 1, n))
                                    /\ packet' = SubSeq(packet, n + 1, Len(packet))
    BY <1>3 DEF SendPiece
  <2>6. n <= CanMaxDlen
    BY <2>1, CanAssumption
  <2>2. SubSeq(packet, n + 1, Len(packet)) \in Seq(Byte)
    BY PartType
  <2>3. SubSeq(packet, 1, n) \in Seq(Byte) /\ Len(SubSeq(packet, 1, n)) = n
    BY PartType
  <2>4. SubSeq(packet, 1, n) \in CanFrame
    BY <2>6, <2>3 DEF CanFrame
  <2>5. bus' \in Seq(CanFrame)
    BY <2>1, <2>4
  <2>. QED  BY <1>1, <1>3, <2>1, <2>2, <2>5 DEF SendPiece
<1>4. CASE SendNoise
  <2>1. PICK f \in Noise : bus' = Append(bus, f)
    BY <1>4 DEF SendNoise
  <2>2. f \in CanFrame
    BY CanAssumption DEF CanFrame
  <2>3. bus' \in Seq(CanFrame)
    BY <2>1, <2>2
  <2>4. count' \in 0..MaxSent
    BY <1>4, CountType DEF SendNoise
  <2>. QED  BY <1>1, <1>4, <2>3, <2>4 DEF SendNoise
<1>. QED  BY <1>2, <1>3, <1>4

(* The byte of the loop and the buffer with it.                            *)
LEMMA ByteType ==
  ASSUME IInv, NextByte
  PROVE  /\ data \in Byte /\ i' \in Nat
         /\ Received \in Seq(Byte) /\ Len(Received) = Len(rx_framebuffer_) + 1
<1>1. data \in Byte /\ i' \in Nat
  BY DEF IInv, TypeOK, CanFrame, NextByte, data
<1>. QED  BY <1>1 DEF IInv, TypeOK, Received

(* A complete packet is as long as it announced, and so fits the buffer.   *)
LEMMA WholeFits ==
  ASSUME IInv, NextByte, rx_frame_state_ = "RECEIVED", Whole(Received)
  PROVE  Len(Received) >= 7 /\ Len(Received) <= MaxFrameBuffer
<1>1. /\ data \in Byte /\ Received \in Seq(Byte) /\ rx_framebuffer_ \in Seq(Byte)
      /\ Len(Received) = Len(rx_framebuffer_) + 1
  BY ByteType DEF IInv, TypeOK
<1>2. /\ Len(Received) > 5 /\ Len(Received) >= FrameSize(Received)
      /\ ~TooLong(Received)
  BY DEF Whole, Sized
<1>3. FrameSize(Received) \in Nat /\ FrameSize(Received) >= 7
  BY <1>1, <1>2, SizeType
<1>4. FrameSize(Received) = FrameSize(rx_framebuffer_)
  BY <1>1, <1>2, SizeStable DEF Received
<1>5. MaxFrameBuffer \in Nat
  BY CanAssumption
<1>6. FrameSize(Received) <= MaxFrameBuffer
  BY <1>2, <1>3, <1>5 DEF TooLong
<1>7. Len(rx_framebuffer_) > 5
  BY <1>1, <1>2, <1>3
<1>8. Len(rx_framebuffer_) < FrameSize(rx_framebuffer_)
  BY <1>7 DEF IInv, Announced
<1>. QED  BY <1>1, <1>2, <1>3, <1>4, <1>5, <1>6, <1>8

(* Whatever the thread does.                                               *)
LEMMA RunStep ==
  ASSUME CrcIsShort, IInv, Run
  PROVE  IInv'
<1>. USE DEF IInv, TypeOK, rxVars, txVars
<1>0. MaxFrameBuffer \in Nat /\ MaxFrameBuffer > 7 /\ MaxFrameBuffer <= Ushort
  BY CanAssumption
<1>1. CASE Read
  <2>1. Head(bus) \in CanFrame /\ Tail(bus) \in Seq(CanFrame)
    BY <1>1 DEF Read
  <2>2. TypeOK'
    BY <1>1, <2>1 DEF Read
  <2>3. UNCHANGED <<rxVars, txVars>>
    BY <1>1 DEF Read
  <2>. QED  BY <2>2, <2>3 DEF BufferBounded, Announced, TooLong, FrameSize
<1>2. CASE Outside
  <2>1. data \in Byte /\ i' \in Nat
    BY <1>2, ByteType DEF Outside
  <2>2. rx_framebuffer_' = <<data>> \/ rx_framebuffer_' = <<>>
    BY <1>2 DEF Outside
  <2>7. rx_framebuffer_' \in Seq(Byte) /\ Len(rx_framebuffer_') <= 1
    BY <2>1, <2>2, ShortType, Zenon
  <2>3. rx_frame_state_' \in {"EMPTY", "RECEIVED"}
    BY <1>2 DEF Outside
  <2>4. TypeOK'
    BY <1>2, <2>1, <2>7, <2>3 DEF Outside, NextByte
  <2>5. BufferBounded'
    BY <1>0, <1>2, <2>7 DEF Outside, BufferBounded
  <2>8. rx_frame_state_' = "RECEIVED" => rx_framebuffer_' = <<data>>
    BY <1>2 DEF Outside
  <2>9. rx_frame_state_' = "RECEIVED" =>
          Len(rx_framebuffer_') >= 1 /\ ~(Len(rx_framebuffer_') > HeadSize)
    BY <2>1, <2>8, ShortType, Zenon
  <2>6. Announced'
    BY <2>9, Zenon DEF Announced
  <2>. QED  BY <1>2, <2>4, <2>5, <2>6 DEF Outside
<1>3. CASE Inside
  <2>1. /\ i' \in Nat /\ Received \in Seq(Byte)
        /\ Len(Received) = Len(rx_framebuffer_) + 1
    BY <1>3, ByteType DEF Inside
  <2>2. rx_framebuffer_' = Received /\ rx_frame_state_' = "RECEIVED"
    BY <1>3 DEF Inside
  <2>3. TypeOK'
    BY <1>3, <2>1, <2>2 DEF Inside, NextByte
  <2>4. Len(Received) > 5 => ~TooLong(Received) /\ Len(Received) < FrameSize(Received)
    <3>1. SUFFICES ASSUME Len(Received) > 5 PROVE ~TooLong(Received) /\ Len(Received) < FrameSize(Received)
      OBVIOUS
    <3>2. ~TooLong(Received) /\ ~Whole(Received)
      BY <1>3, <3>1 DEF Inside, Sized
    <3>3. FrameSize(Received) \in Nat
      BY <2>1, <3>1, SizeType
    <3>. QED  BY <2>1, <3>1, <3>2, <3>3 DEF Whole, Sized
  <2>5. Announced'
    BY <2>1, <2>2, <2>4 DEF Announced, TooLong, FrameSize
  <2>6. Len(Received) < MaxFrameBuffer
    <3>1. CASE Len(Received) <= 5
      BY <1>0, <2>1, <3>1
    <3>2. CASE Len(Received) > 5
      <4>1. FrameSize(Received) \in Nat
        BY <2>1, <3>2, SizeType
      <4>. QED  BY <1>0, <2>1, <2>4, <3>2, <4>1 DEF TooLong
    <3>. QED  BY <2>1, <3>1, <3>2
  <2>7. BufferBounded'
    BY <1>0, <1>3, <2>1, <2>2, <2>6 DEF Inside, BufferBounded
  <2>. QED  BY <1>3, <2>3, <2>5, <2>7 DEF Inside
<1>4. CASE Drop
  <2>1. i' \in Nat
    BY <1>4, ByteType DEF Drop
  <2>2. rx_framebuffer_' = <<>> /\ rx_frame_state_' = "EMPTY"
    BY <1>4 DEF Drop
  <2>. QED  BY <1>0, <1>4, <2>1, <2>2 DEF Drop, NextByte, BufferBounded, Announced
<1>5. CASE Complete
  <2>1. /\ i' \in Nat /\ Received \in Seq(Byte)
        /\ Len(Received) >= 7 /\ Len(Received) <= MaxFrameBuffer
    BY <1>5, ByteType, WholeFits DEF Complete
  <2>. DEFINE f == SubSeq(Received, 1, Len(Received) - 2)
  <2>2. 1 \in 1..Len(Received) + 1 /\ Len(Received) - 2 \in (1 - 1)..Len(Received)
    BY <2>1
  <2>3. f \in Seq(Byte) /\ Len(f) = Len(Received) - 2 - 1 + 1
    BY <2>1, <2>2, PartType, Zenon
  <2>4. /\ rx_framebuffer_' = f /\ rx_frame_state_' = "EMPTY"
        /\ tx_buffer_' = Reply(f) /\ sent' = 0
    BY <1>5 DEF Complete
  <2>. HIDE DEF f
  <2>5. Len(f) >= 5 /\ Len(f) <= Ushort
    BY <1>0, <2>1, <2>3 DEF Ushort
  <2>6. Reply(f) \in Seq(Byte) /\ Len(Reply(f)) <= Len(f) + 2
    BY <2>3, <2>5, ReplyType
  <2>7. TypeOK'
    BY <1>5, <2>1, <2>3, <2>4, <2>6 DEF Complete, NextByte
  <2>8. BufferBounded'
    BY <1>0, <2>1, <2>3, <2>4, <2>6 DEF BufferBounded
  <2>9. Announced' /\ (sent <= Len(tx_buffer_))'
    BY <2>4, <2>6 DEF Announced
  <2>. QED  BY <2>7, <2>8, <2>9
<1>6. CASE Write
  <2>1. /\ Piece(tx_buffer_, sent) \in Seq(Byte)
        /\ Len(Piece(tx_buffer_, sent)) \in 1..CanMaxDlen
        /\ sent + Len(Piece(tx_buffer_, sent)) <= Len(tx_buffer_)
    BY <1>6, PieceType DEF Write, Writing
  <2>2. /\ frame' = Piece(tx_buffer_, sent) /\ sent' = sent + Len(Piece(tx_buffer_, sent))
        /\ UNCHANGED <<bus, i, rxVars, tx_buffer_, packet, due, count>>
    BY <1>6 DEF Write
  <2>3. CanMaxDlen \in Nat
    BY CanAssumption
  <2>4. frame' \in Seq(Byte) /\ frame' \in CanFrame /\ sent' \in Nat
    BY <2>1, <2>2, <2>3 DEF CanFrame
  <2>5. out' \in Seq(Byte) /\ faulty' \in BOOLEAN
    <3>1. CASE out' = out \o frame' /\ UNCHANGED faulty
      BY <2>4, <3>1, JoinType
    <3>2. CASE out' = out /\ faulty' = TRUE
      BY <3>2
    <3>. QED  BY <1>6, <3>1, <3>2 DEF Write
  <2>6. TypeOK'
    BY <2>2, <2>4, <2>5
  <2>7. BufferBounded' /\ Announced'
    BY <2>2 DEF BufferBounded, Announced, TooLong, FrameSize
  <2>8. (sent <= Len(tx_buffer_))'
    BY <2>1, <2>2
  <2>. QED  BY <2>6, <2>7, <2>8
<1>. QED  BY <1>1, <1>2, <1>3, <1>4, <1>5, <1>6 DEF Run

----------------------------------------------------------------------------
(* The buffers are bounded at the start, and stay so.                       *)
LEMMA AppStarts == CrcIsShort /\ Init => IInv
<1>. SUFFICES ASSUME Init PROVE IInv
  OBVIOUS
<1>1. MaxFrameBuffer \in Nat /\ MaxFrameBuffer > 7 /\ CanMaxDlen \in Nat /\ MaxSent \in Nat
  BY CanAssumption
<1>2. <<>> \in CanFrame
  BY <1>1 DEF CanFrame
<1>3. <<>> \in Seq(CanFrame) /\ <<>> \in Seq(Byte) /\ Len(<<>>) = 0
  OBVIOUS
<1>4. 0 \in 0..MaxSent
  BY <1>1
<1>5. 0 \in Nat /\ FALSE \in BOOLEAN /\ "EMPTY" \in {"EMPTY", "RECEIVED"}
  OBVIOUS
<1>6. TypeOK
  BY <1>2, <1>3, <1>4, <1>5, Zenon DEF Init, TypeOK
<1>7. TypeOK /\ sent <= Len(tx_buffer_)
  BY <1>3, <1>6 DEF Init
<1>8. BufferBounded /\ Announced
  BY <1>1 DEF Init, BufferBounded, Announced
<1>. QED  BY <1>7, <1>8 DEF IInv

(* Every step keeps the buffers bounded.                                   *)
LEMMA AppSteps == CrcIsShort /\ IInv /\ [Next]_vars => IInv'
<1>. SUFFICES ASSUME CrcIsShort, IInv, [Next]_vars PROVE IInv'
  OBVIOUS
<1>1. CASE Ask \/ SendPiece \/ SendNoise
  BY <1>1, BusStep
<1>2. CASE Run
  BY <1>2, RunStep
<1>3. CASE UNCHANGED vars
  BY <1>3 DEF vars, rxVars, txVars, IInv, TypeOK, BufferBounded, Announced, TooLong, FrameSize
<1>. QED  BY <1>1, <1>2, <1>3 DEF Next

(* So the buffers are bounded always.                                      *)
LEMMA Invariant ==
  ASSUME CrcIsShort
  PROVE  Spec => []IInv
BY AppStarts, AppSteps, PTL DEF Spec

(* Every variable keeps its type, and a CAN frame never carries more than  *)
(* its data field holds, whatever is on the bus.                           *)
THEOREM TypeCorrect ==
  ASSUME CrcIsShort
  PROVE  Spec => []TypeOK
<1>1. IInv => TypeOK
  BY DEF IInv
<1>. QED  BY <1>1, Invariant, PTL

(* Neither rx_framebuffer_ nor tx_buffer_ is ever written past its end,    *)
(* whatever is on the bus and however large the buffer is.                 *)
THEOREM BuffersBounded ==
  ASSUME CrcIsShort
  PROVE  Spec => []BufferBounded
<1>1. IInv => BufferBounded
  BY DEF IInv
<1>. QED  BY <1>1, Invariant, PTL

-----------------------------------------------------------------------------
(***************************************************************************)
(* Requests and their replies on a clean bus.  A cursor is a place in what  *)
(* the masters send: the replies to everything before it (base) and, inside *)
(* of a request (req), how many of its bytes lie before it (off).  There is *)
(* one behind each frame that waits, and each frame leads from one cursor   *)
(* to the next.                                                             *)
(***************************************************************************)
Wire(r) == Packet(r.ver, r.cmd, r.data)

IsCursor(c) ==
  /\ c.base \in Seq(Byte) /\ \E t \in Seq(Byte) : due = c.base \o t
  /\ c.off \in Nat
  /\ c.off # 0 => /\ c.req \in Requests /\ c.off < Len(Wire(c.req))
                  /\ \E k \in Nat : c.off = k * CanMaxDlen

\* Frame f takes a part of request r, from cursor c to cursor d.
Carries(c, r, f, d) ==
  /\ r \in Requests /\ (c.off # 0 => r = c.req)
  /\ Len(f) \in 1..CanMaxDlen /\ c.off + Len(f) <= Len(Wire(r))
  /\ \A k \in 1..Len(f) : f[k] = Wire(r)[c.off + k]
  /\ c.off + Len(f) = Len(Wire(r)) => d.off = 0 /\ d.base = c.base \o Answer(r)
  /\ c.off + Len(f) # Len(Wire(r)) =>
       Len(f) = CanMaxDlen /\ d.off = c.off + Len(f) /\ d.req = r /\ d.base = c.base

\* What a master has still to send comes behind the last cursor.
Sends(c) ==
  /\ packet = <<>> => c.off = 0 /\ due = c.base
  /\ packet # <<>> => \E r \in Requests :
       /\ c.off # 0 => r = c.req
       /\ packet = SubSeq(Wire(r), c.off + 1, Len(Wire(r))) /\ due = c.base \o Answer(r)

\* k bytes of request r are parsed, and the replies before it are base.
Parsed(base, r, k) ==
  /\ out \o SubSeq(tx_buffer_, sent + 1, Len(tx_buffer_)) = base
  /\ k = 0 => rx_frame_state_ = "EMPTY"
  /\ k # 0 => rx_frame_state_ = "RECEIVED" /\ rx_framebuffer_ = SubSeq(Wire(r), 1, k)

\* The loop over a frame has ended, or will end because the frame of the last
\* piece of the reply is as long as that of the last piece of the request was.
Between(c) ==
  /\ Writing \/ i >= Len(frame)
  /\ Parsed(c.base, c.req, c.off)
  /\ Writing => i \in 1..CanMaxDlen /\ \E m \in Nat : Len(tx_buffer_) - sent = m * CanMaxDlen + i

\* The loop is inside of a frame that leads to cursor c.
Within(c) ==
  /\ ~Writing /\ i < Len(frame)
  /\ \E b, r : IsCursor(b) /\ Carries(b, r, frame, c) /\ Parsed(b.base, r, b.off + i)

Chain(c) ==
  /\ \A k \in 0..Len(bus) : IsCursor(c[k])
  /\ \A k \in 1..Len(bus) : \E r : Carries(c[k - 1], r, bus[k], c[k])
  /\ Sends(c[Len(bus)])
  /\ Between(c[0]) \/ Within(c[0])

Clean == ~faulty => \E c : Chain(c)

(* A request and its answer are packets that fit the buffers, of the same   *)
(* length if there is an answer.                                            *)
LEMMA WireType ==
  ASSUME CrcIsShort, NEW r \in Requests
  PROVE  /\ r.ver \in Byte /\ r.cmd \in Byte /\ r.data \in Seq(Byte) /\ Len(r.data) <= Ushort
         /\ Wire(r) \in Seq(Byte) /\ Len(Wire(r)) = Len(r.data) + 7 /\ Len(Wire(r)) <= MaxFrameBuffer
         /\ Answer(r) \in Seq(Byte)
         /\ Answer(r) # <<>> => Len(Answer(r)) = Len(Wire(r))
<1>1. r.ver \in Byte /\ r.cmd \in Byte /\ r.data \in Seq(Byte) /\ Len(r.data) + 7 <= MaxFrameBuffer
  BY CanAssumption
<1>2. Len(r.data) <= Ushort
  BY <1>1, CanAssumption DEF Ushort
<1>3. Wire(r) \in Seq(Byte) /\ Len(Wire(r)) = Len(r.data) + 7
  BY <1>1, <1>2, PacketType, Zenon DEF Wire
<1>4. Version \in Byte /\ SHOW_INFO \in Byte
  BY DEF Version, SHOW_INFO, Byte
<1>5. /\ Packet(Version, SHOW_INFO, r.data) \in Seq(Byte)
      /\ Len(Packet(Version, SHOW_INFO, r.data)) = Len(r.data) + 7
  BY <1>1, <1>2, <1>4, PacketType, Zenon
<1>6. Answer(r) \in Seq(Byte) /\ (Answer(r) # <<>> => Len(Answer(r)) = Len(r.data) + 7)
  <2>1. CASE r.ver <= Version /\ r.cmd = SHOW_INFO
    <3>1. Answer(r) = Packet(Version, SHOW_INFO, r.data)
      BY <2>1, Zenon DEF Answer
    <3>. QED  BY <1>5, <3>1, Zenon
  <2>2. CASE ~(r.ver <= Version /\ r.cmd = SHOW_INFO)
    <3>1. Answer(r) = <<>>
      BY <2>2, Zenon DEF Answer
    <3>. QED  BY <3>1
  <2>. QED  BY <2>1, <2>2
<1>7. Len(Wire(r)) <= MaxFrameBuffer
  BY <1>1, <1>3
<1>. QED  BY <1>1, <1>2, <1>3, <1>6, <1>7, Zenon

(* The bytes of a packet before its checksum.                              *)
LEMMA BodyBytes ==
  ASSUME NEW ver \in Byte, NEW cmd \in Byte, NEW payload \in Seq(Byte), Len(payload) <= Ushort
  PROVE  /\ Body(ver, cmd, payload)[1] = HEADER
         /\ Body(ver, cmd, payload)[2] = ver /\ Body(ver, cmd, payload)[3] = cmd
         /\ Body(ver, cmd, payload)[4] = TwoBytes(Len(payload))[1]
         /\ Body(ver, cmd, payload)[5] = TwoBytes(Len(payload))[2]
         /\ \A k \in 1..Len(payload) : Body(ver, cmd, payload)[5 + k] = payload[k]
<1>. DEFINE h == <<HEADER, ver, cmd>>
            t == TwoBytes(Len(payload))
            g == h \o t
<1>1. /\ h \in Seq(Byte) /\ Len(h) = 3
      /\ h[1] = HEADER /\ h[2] = ver /\ h[3] = cmd
  <2>1. HEADER \in Byte
    BY DEF HEADER, Byte
  <2>. QED  BY <2>1
<1>2. t \in Seq(Byte) /\ Len(t) = 2
  BY TwoBytesType
<1>. HIDE DEF h, t
<1>4. /\ g \in Seq(Byte) /\ Len(g) = Len(h) + Len(t)
      /\ \A k \in 1..Len(h) + Len(t) : g[k] = IF k <= Len(h) THEN h[k] ELSE t[k - Len(h)]
  BY <1>1, <1>2, ConcatProperties
<1>. HIDE DEF g
<1>5. g[1] = HEADER /\ g[2] = ver /\ g[3] = cmd
  BY <1>1, <1>2, <1>4
<1>6. g[4] = t[1] /\ g[5] = t[2]
  BY <1>1, <1>2, <1>4
<1>7. \A k \in 1..Len(g) + Len(payload) :
        (g \o payload)[k] = IF k <= Len(g) THEN g[k] ELSE payload[k - Len(g)]
  BY <1>4, ConcatProperties
<1>8. Body(ver, cmd, payload) = g \o payload
  BY DEF Body, g, h, t
<1>9. Len(g) = 5 /\ Len(payload) \in Nat
  BY <1>1, <1>2, <1>4
<1>10. ASSUME NEW k \in 1..5 PROVE (g \o payload)[k] = g[k]
  <2>1. k \in 1..Len(g) + Len(payload) /\ k <= Len(g)
    BY <1>9
  <2>. QED  BY <1>7, <2>1
<1>11. ASSUME NEW k \in 1..Len(payload) PROVE (g \o payload)[5 + k] = payload[k]
  <2>1. /\ 5 + k \in 1..Len(g) + Len(payload) /\ ~(5 + k <= Len(g))
        /\ 5 + k - Len(g) = k
    BY <1>9
  <2>. QED  BY <1>7, <2>1
<1>12. /\ (g \o payload)[1] = HEADER /\ (g \o payload)[2] = ver /\ (g \o payload)[3] = cmd
       /\ (g \o payload)[4] = t[1] /\ (g \o payload)[5] = t[2]
  <2>1. 1 \in 1..5 /\ 2 \in 1..5 /\ 3 \in 1..5 /\ 4 \in 1..5 /\ 5 \in 1..5
    OBVIOUS
  <2>. QED  BY <1>5, <1>6, <1>10, <2>1, Zenon
<1>. QED  BY <1>8, <1>11, <1>12 DEF t

(* A packet is its body, then the two bytes of the checksum.                *)
LEMMA PacketBytes ==
  ASSUME CrcIsShort, NEW ver \in Byte, NEW cmd \in Byte, NEW payload \in Seq(Byte), Len(payload) <= Ushort
  PROVE  /\ \A k \in 1..Len(payload) + 5 :
              Packet(ver, cmd, payload)[k] = Body(ver, cmd, payload)[k]
         /\ Packet(ver, cmd, payload)[Len(payload) + 6] = Crc[Body(ver, cmd, payload)] \div 256
         /\ Packet(ver, cmd, payload)[Len(payload) + 7] = Crc[Body(ver, cmd, payload)] % 256
         /\ SubSeq(Packet(ver, cmd, payload), 1, Len(payload) + 5) = Body(ver, cmd, payload)
<1>. DEFINE s == Body(ver, cmd, payload)
            t == TwoBytes(Crc[s])
<1>1. s \in Seq(Byte) /\ Len(s) = Len(payload) + 5
  BY BodyType
<1>2. Crc[s] \in Nat /\ Crc[s] <= Ushort
  BY <1>1 DEF CrcIsShort
<1>. HIDE DEF s
<1>3. t \in Seq(Byte) /\ Len(t) = 2
  BY <1>2, TwoBytesType
<1>4. t[1] = Crc[s] \div 256 /\ t[2] = Crc[s] % 256
  BY DEF TwoBytes
<1>. HIDE DEF t
<1>5. \A k \in 1..Len(s) + Len(t) : (s \o t)[k] = IF k <= Len(s) THEN s[k] ELSE t[k - Len(s)]
  BY <1>1, <1>3, ConcatProperties
<1>6. Packet(ver, cmd, payload) = s \o t
  BY DEF Packet, s, t
<1>7. SubSeq(s \o t, 1, Len(s)) = SubSeq(s, 1, Len(s))
  <2>1. 1 \in 1..Len(s) /\ Len(s) \in 1..Len(s)
    BY <1>1
  <2>. QED  BY <1>1, <1>3, <2>1, SubSeqOfConcat1, Zenon
<1>8. SubSeq(s, 1, Len(s)) = s
  BY <1>1, SubSeqFull
<1>9. \A k \in 1..Len(payload) + 5 : (s \o t)[k] = s[k]
  BY <1>1, <1>3, <1>5
<1>10. (s \o t)[Len(payload) + 6] = t[1] /\ (s \o t)[Len(payload) + 7] = t[2]
  <2>. DEFINE p == Len(payload) + 6
              q == Len(payload) + 7
  <2>1. /\ p \in 1..Len(s) + Len(t) /\ ~(p <= Len(s)) /\ p - Len(s) = 1
        /\ q \in 1..Len(s) + Len(t) /\ ~(q <= Len(s)) /\ q - Len(s) = 2
    BY <1>1, <1>3
  <2>. HIDE DEF p, q
  <2>2. (s \o t)[p] = t[1] /\ (s \o t)[q] = t[2]
    BY <1>5, <2>1
  <2>. QED  BY <2>2 DEF p, q
<1>11. SubSeq(s \o t, 1, Len(payload) + 5) = s
  BY <1>1, <1>7, <1>8
<1>. QED  BY <1>4, <1>6, <1>9, <1>10, <1>11 DEF s

(* What the parser makes of a request: its size, that its checksum passes,  *)
(* and that the reply is the answer to it.                                  *)
LEMMA WireBytes ==
  ASSUME CrcIsShort, NEW r \in Requests
  PROVE  /\ Wire(r)[1] = HEADER
         /\ Wire(r)[4] * 256 + Wire(r)[5] + 7 = Len(Wire(r))
         /\ ChecksumPasses(Wire(r))
         /\ Reply(SubSeq(Wire(r), 1, Len(Wire(r)) - 2)) = Answer(r)
<1>. DEFINE s == Body(r.ver, r.cmd, r.data)
            w == Wire(r)
            n == Len(r.data)
<1>1. /\ r.ver \in Byte /\ r.cmd \in Byte /\ r.data \in Seq(Byte) /\ n <= Ushort
      /\ Len(w) = n + 7
  BY WireType
<1>2. s \in Seq(Byte) /\ Len(s) = n + 5
  BY <1>1, BodyType
<1>3. /\ s[1] = HEADER /\ s[2] = r.ver /\ s[3] = r.cmd
      /\ s[4] = n \div 256 /\ s[5] = n % 256
      /\ \A k \in 1..n : s[5 + k] = r.data[k]
  <2>1. r.ver \in Byte /\ r.cmd \in Byte /\ r.data \in Seq(Byte) /\ Len(r.data) <= Ushort
    BY <1>1
  <2>2. s[1] = HEADER /\ s[2] = r.ver /\ s[3] = r.cmd
    BY <2>1, BodyBytes
  <2>3. s[4] = n \div 256 /\ s[5] = n % 256
    <3>1. s[4] = TwoBytes(n)[1] /\ s[5] = TwoBytes(n)[2]
      BY <2>1, BodyBytes
    <3>. HIDE DEF s, n
    <3>. QED  BY <3>1 DEF TwoBytes
  <2>4. \A k \in 1..n : s[5 + k] = r.data[k]
    BY <2>1, BodyBytes
  <2>. QED  BY <2>2, <2>3, <2>4
<1>4. /\ \A k \in 1..n + 5 : w[k] = s[k]
      /\ w[n + 6] = Crc[s] \div 256 /\ w[n + 7] = Crc[s] % 256
      /\ SubSeq(w, 1, n + 5) = s
  BY <1>1, PacketBytes DEF Wire
<1>5. Crc[s] \in Nat
  BY <1>2 DEF CrcIsShort
<1>6. n \in Nat
  BY <1>1
<1>. HIDE DEF s, w, n
<1>7. w[1] = HEADER /\ w[4] = n \div 256 /\ w[5] = n % 256
  BY <1>3, <1>4, <1>6
<1>8. w[4] * 256 + w[5] + 7 = Len(w)
  BY <1>1, <1>6, <1>7
<1>9. ChecksumPasses(w)
  <2>1. Len(w) - 2 = n + 5 /\ Len(w) - 1 = n + 6
    BY <1>1, <1>6
  <2>2. Crc[s] % 256 = 0 => Crc[s] = (Crc[s] \div 256) * 256
    BY <1>5
  <2>3. w[Len(w)] = 0 => Crc[SubSeq(w, 1, Len(w) - 2)] = w[Len(w) - 1] * 256
    BY <1>1, <1>4, <2>1, <2>2
  <2>. QED  BY <2>3 DEF ChecksumPasses
<1>10. SubSeq(s, 6, Len(s)) = r.data
  <2>1. \A k \in 6..Len(s) : s[k] \in Byte
    BY <1>2, <1>6
  <2>2. /\ SubSeq(s, 6, Len(s)) \in Seq(Byte)
        /\ Len(SubSeq(s, 6, Len(s))) = IF 6 <= Len(s) THEN Len(s) - 6 + 1 ELSE 0
        /\ \A k \in 1..Len(s) - 6 + 1 : SubSeq(s, 6, Len(s))[k] = s[6 + k - 1]
    BY <1>2, <1>6, <2>1, SubSeqProperties
  <2>3. Len(SubSeq(s, 6, Len(s))) = n
    BY <1>2, <1>6, <2>2
  <2>4. \A k \in 1..n : SubSeq(s, 6, Len(s))[k] = r.data[k]
    <3>. SUFFICES ASSUME NEW k \in 1..n PROVE SubSeq(s, 6, Len(s))[k] = r.data[k]
      OBVIOUS
    <3>1. 6 + k - 1 = 5 + k /\ k \in 1..Len(s) - 6 + 1
      BY <1>2, <1>6
    <3>. QED  BY <1>3, <2>2, <3>1
  <2>5. Len(r.data) = n
    BY DEF n
  <2>. QED  BY <1>1, <2>2, <2>3, <2>4, <2>5, SeqEqual
<1>11. Reply(s) = Answer(r)
  BY <1>3, <1>10 DEF Reply, Answer
<1>12. SubSeq(w, 1, Len(w) - 2) = s
  <2>1. Len(w) - 2 = n + 5
    BY <1>1, <1>6
  <2>. QED  BY <1>4, <2>1
<1>. QED  BY <1>7, <1>8, <1>9, <1>11, <1>12 DEF w

(* The size the parser reads from a part of a request, and the part with    *)
(* the next byte.                                                          *)
LEMMA PartOfWire ==
  ASSUME CrcIsShort, NEW r \in Requests, NEW k \in 1..Len(Wire(r))
  PROVE  /\ SubSeq(Wire(r), 1, k) \in Seq(Byte) /\ Len(SubSeq(Wire(r), 1, k)) = k
         /\ k >= 5 => FrameSize(SubSeq(Wire(r), 1, k)) = Len(Wire(r))
<1>. DEFINE w == Wire(r)
            n == Len(w)
            p == SubSeq(w, 1, k)
<1>1. w \in Seq(Byte) /\ n \in Nat /\ w[4] * 256 + w[5] + 7 = n
  BY WireType, WireBytes
<1>2. k \in Nat /\ 1 <= k /\ k <= n
  BY <1>1
<1>. HIDE DEF w
<1>3. \A m \in 1..k : w[m] \in Byte
  BY <1>1, <1>2
<1>4. /\ p \in Seq(Byte) /\ Len(p) = IF 1 <= k THEN k - 1 + 1 ELSE 0
      /\ \A m \in 1..(k - 1 + 1) : p[m] = w[1 + m - 1]
  BY <1>2, <1>3, SubSeqProperties
<1>5. k >= 5 => p[4] = w[4] /\ p[5] = w[5]
  BY <1>2, <1>4
<1>6. k >= 5 => p[4] * 256 + p[5] + 7 = n
  BY <1>1, <1>5
<1>7. Len(p) = k
  BY <1>2, <1>4
<1>. HIDE DEF p, n
<1>8. k >= 5 => FrameSize(p) = n
  BY <1>6 DEF FrameSize
<1>. QED  BY <1>4, <1>7, <1>8 DEF w, p, n

(* A part of a request and the next byte are a longer part.                *)
LEMMA NextOfWire ==
  ASSUME CrcIsShort, NEW r \in Requests, NEW k \in Nat, 1 <= k, k < Len(Wire(r))
  PROVE  Append(SubSeq(Wire(r), 1, k), Wire(r)[k + 1]) = SubSeq(Wire(r), 1, k + 1)
<1>. DEFINE w == Wire(r)
            n == Len(w)
            p == SubSeq(w, 1, k)
<1>1. w \in Seq(Byte) /\ n \in Nat
  BY WireType
<1>2. k < n
  OBVIOUS
<1>. HIDE DEF w, n
<1>3. 1 \in 1..Len(w) /\ k + 1 \in 1..Len(w) /\ w[k + 1] \in Byte
  BY <1>1, <1>2 DEF n
<1>4. SubSeq(w, 1, k + 1) = SubSeq(w, 1, k + 1 - 1) \o <<w[k + 1]>>
  BY <1>1, <1>3, SubSeqRecursiveSecond
<1>5. k + 1 - 1 = k
  OBVIOUS
<1>6. p \in Seq(Byte)
  BY <1>1, <1>2, PartOfWire DEF w, n
<1>7. Append(p, w[k + 1]) = p \o <<w[k + 1]>>
  BY <1>3, <1>6, AppendIsConcat
<1>. QED  BY <1>4, <1>5, <1>7 DEF w, p

(* Three sequences of bytes make one, in either order of joining them.      *)
LEMMA JoinedTwice == \A s, t, u \in Seq(Byte) : (s \o t) \o u = s \o (t \o u)
BY ConcatAssociative

(* A master asks: the cursors stay, and the last one is where the request   *)
(* begins.                                                                 *)
LEMMA CursorStays ==
  ASSUME IInv, NEW c, IsCursor(c), NEW s \in Seq(Byte), due' = due \o s
  PROVE  IsCursor(c)'
<1>1. PICK t \in Seq(Byte) : due = c.base \o t
  BY DEF IsCursor
<1>2. c.base \in Seq(Byte)
  BY DEF IsCursor
<1>3. due' = c.base \o (t \o s) /\ t \o s \in Seq(Byte)
  <2>1. (c.base \o t) \o s = c.base \o (t \o s)
    BY <1>2, JoinedTwice
  <2>2. t \o s \in Seq(Byte)
    BY ConcatProperties, Zenon
  <2>. QED  BY <1>1, <2>1, <2>2, Zenon
<1>. QED  BY <1>3 DEF IsCursor

(* A new request begins at the last cursor.                                *)
LEMMA AskKeeps ==
  ASSUME CrcIsShort, IInv, Clean, Ask
  PROVE  Clean'
<1>. SUFFICES ASSUME ~faulty' PROVE \E c : Chain(c)'
  BY DEF Clean
<1>1. PICK c : Chain(c)
  BY DEF Clean, Ask
<1>2. PICK r \in Requests : packet' = Wire(r) /\ due' = due \o Answer(r)
  BY DEF Ask, Wire
<1>3. /\ Answer(r) \in Seq(Byte) /\ Wire(r) \in Seq(Byte) /\ Len(Wire(r)) >= 7
  <2>1. /\ Answer(r) \in Seq(Byte) /\ Wire(r) \in Seq(Byte) /\ Len(Wire(r)) = Len(r.data) + 7
        /\ r.data \in Seq(Byte)
    BY WireType
  <2>. QED  BY <2>1
<1>4. UNCHANGED <<bus, frame, i, rx_frame_state_, rx_framebuffer_, tx_buffer_, sent, out>> /\ packet = <<>>
  BY DEF Ask, rxVars, txVars
<1>5. \A k \in 0..Len(bus) : IsCursor(c[k])'
  BY <1>1, <1>2, <1>3, CursorStays DEF Chain
<1>6. Sends(c[Len(bus)])'
  <2>0. PICK d : d = c[Len(bus)]
    OBVIOUS
  <2>1. d.off = 0 /\ due = d.base
    BY <1>1, <1>4, <2>0 DEF Chain, Sends
  <2>2. packet' # <<>>
    BY <1>2, <1>3
  <2>3. packet' = SubSeq(Wire(r), d.off + 1, Len(Wire(r)))
    BY <1>2, <1>3, <2>1, SubSeqFull
  <2>4. Sends(d)'
    BY <1>2, <2>1, <2>2, <2>3 DEF Sends
  <2>. QED  BY <1>4, <2>0, <2>4
<1>7. (Between(c[0]) \/ Within(c[0]))'
  <2>1. Between(c[0]) => Between(c[0])'
    BY <1>4 DEF Between, Parsed, Writing
  <2>2. ASSUME Within(c[0]) PROVE Within(c[0])'
    <3>1. PICK b, q : IsCursor(b) /\ Carries(b, q, frame, c[0]) /\ Parsed(b.base, q, b.off + i)
      BY <2>2 DEF Within
    <3>2. IsCursor(b)'
      BY <1>2, <1>3, <3>1, CursorStays
    <3>3. Parsed(b.base, q, b.off + i)'
      BY <1>4, <3>1 DEF Parsed
    <3>4. Carries(b, q, frame, c[0])'
      BY <1>4, <3>1 DEF Carries
    <3>. QED  BY <1>4, <2>2, <3>2, <3>3, <3>4 DEF Within, Writing
  <2>. QED  BY <1>1, <2>1, <2>2 DEF Chain
<1>8. \A k \in 1..Len(bus') : \E q : Carries(c[k - 1], q, bus'[k], c[k])
  BY <1>1, <1>4 DEF Chain
<1>. QED  BY <1>4, <1>5, <1>6, <1>7, <1>8 DEF Chain, Carries

(* The bytes of a part of a sequence.                                       *)
LEMMA PartBytes ==
  ASSUME NEW s \in Seq(Byte), NEW a \in Nat, NEW b \in Nat, a <= b, b <= Len(s)
  PROVE  /\ SubSeq(s, a + 1, b) \in Seq(Byte) /\ Len(SubSeq(s, a + 1, b)) = b - a
         /\ \A k \in 1..(b - a) : SubSeq(s, a + 1, b)[k] = s[a + k]
<1>. DEFINE p == SubSeq(s, a + 1, b)
<1>1. \A k \in (a + 1)..b : s[k] \in Byte
  OBVIOUS
<1>2. /\ p \in Seq(Byte) /\ Len(p) = IF a + 1 <= b THEN b - (a + 1) + 1 ELSE 0
      /\ \A k \in 1..(b - (a + 1) + 1) : p[k] = s[a + 1 + k - 1]
  BY <1>1, SubSeqProperties
<1>. HIDE DEF p
<1>3. Len(p) = b - a
  BY <1>2
<1>4. \A k \in 1..(b - a) : p[k] = s[a + k]
  <2>. SUFFICES ASSUME NEW k \in 1..(b - a) PROVE p[k] = s[a + k]
    OBVIOUS
  <2>1. k \in 1..(b - (a + 1) + 1) /\ a + 1 + k - 1 = a + k
    OBVIOUS
  <2>. QED  BY <1>2, <2>1
<1>. QED  BY <1>2, <1>3, <1>4 DEF p

(* What a master sends next leads to a cursor with the rest behind it.      *)
LEMMA PieceLeads ==
  ASSUME CrcIsShort, IInv, SendPiece, NEW d, IsCursor(d), Sends(d)
  PROVE  \E f, e, r : /\ f \in CanFrame /\ bus' = Append(bus, f)
                      /\ Carries(d, r, f, e) /\ IsCursor(e)' /\ Sends(e)'
<1>1. packet # <<>> /\ packet \in Seq(Byte) /\ due' = due
  BY DEF SendPiece, IInv, TypeOK
<1>2. PICK n \in 1..Len(packet) :
        /\ n = CanMaxDlen \/ (n = Len(packet) /\ n < CanMaxDlen)
        /\ bus' = Append(bus, SubSeq(packet, 1, n))
        /\ packet' = SubSeq(packet, n + 1, Len(packet))
  BY DEF SendPiece
<1>3. PICK r \in Requests : /\ d.off # 0 => r = d.req
                            /\ packet = SubSeq(Wire(r), d.off + 1, Len(Wire(r)))
                            /\ due = d.base \o Answer(r)
  BY <1>1 DEF Sends
<1>4. CanMaxDlen \in Nat /\ n \in Nat /\ 1 <= n /\ n <= Len(packet) /\ n <= CanMaxDlen
  BY <1>1, <1>2, CanAssumption
<1>. DEFINE f == SubSeq(packet, 1, n)
<1>5. /\ f \in Seq(Byte) /\ Len(f) = n /\ \A k \in 1..n : f[k] = packet[k]
  <2>1. \A k \in 1..n : packet[k] \in Byte
    BY <1>1, <1>4
  <2>2. /\ f \in Seq(Byte) /\ Len(f) = IF 1 <= n THEN n - 1 + 1 ELSE 0
        /\ \A k \in 1..(n - 1 + 1) : f[k] = packet[1 + k - 1]
    BY <1>4, <2>1, SubSeqProperties
  <2>. QED  BY <1>4, <2>2
<1>6. f \in CanFrame
  BY <1>4, <1>5 DEF CanFrame
<1>. DEFINE w == Wire(r)
            m == Len(w)
<1>7. w \in Seq(Byte) /\ m \in Nat /\ m >= 7 /\ Answer(r) \in Seq(Byte)
  <2>1. /\ w \in Seq(Byte) /\ m = Len(r.data) + 7 /\ r.data \in Seq(Byte) /\ Answer(r) \in Seq(Byte)
    BY WireType
  <2>. QED  BY <2>1
<1>8. d.off \in Nat /\ d.off < m /\ d.base \in Seq(Byte)
  BY <1>3, <1>7 DEF IsCursor
<1>o. PICK o \in Nat : o = d.off
  BY <1>8
<1>. HIDE DEF w, f
<1>9. Len(packet) = m - o /\ \A k \in 1..Len(packet) : packet[k] = w[o + k]
  <2>1. packet = SubSeq(w, o + 1, m) /\ o <= m /\ m <= Len(w)
    BY <1>3, <1>7, <1>8, <1>o DEF w
  <2>. HIDE DEF m
  <2>2. /\ Len(SubSeq(w, o + 1, m)) = m - o
        /\ \A k \in 1..(m - o) : SubSeq(w, o + 1, m)[k] = w[o + k]
    BY <1>7, <2>1, PartBytes
  <2>. QED  BY <2>1, <2>2
<1>. HIDE DEF m
<1>10. /\ o + n <= m /\ Len(f) \in 1..CanMaxDlen
       /\ \A k \in 1..Len(f) : f[k] = w[o + k]
  <2>1. o + n <= m /\ Len(f) \in 1..CanMaxDlen
    BY <1>4, <1>5, <1>7, <1>9
  <2>2. ASSUME NEW k \in 1..Len(f) PROVE f[k] = w[o + k]
    <3>1. k \in 1..n /\ k \in 1..Len(packet)
      BY <1>1, <1>4, <1>5
    <3>. QED  BY <1>5, <1>9, <3>1
  <2>. QED  BY <2>1, <2>2
<1>11. CASE n = Len(packet)
  <2>1. PICK e : e = [base |-> d.base \o Answer(r), req |-> r, off |-> 0]
    OBVIOUS
  <2>2. e.base = due /\ e.off = 0 /\ e.base = d.base \o Answer(r)
    BY <1>3, <2>1
  <2>3. o + n = m
    BY <1>7, <1>9, <1>11
  <2>4. Carries(d, r, f, e)
    BY <1>3, <1>5, <1>8, <1>o, <1>10, <2>2, <2>3 DEF Carries, w, m
  <2>5. due \in Seq(Byte) /\ due = due \o <<>>
    BY ConcatEmptySeq DEF IInv, TypeOK
  <2>6. IsCursor(e)'
    <3>1. e.base \in Seq(Byte) /\ due' = e.base \o <<>> /\ <<>> \in Seq(Byte)
      BY <1>1, <2>2, <2>5
    <3>2. \E s \in Seq(Byte) : due' = e.base \o s
      BY <3>1
    <3>3. e.off \in Nat /\ ~(e.off # 0)
      BY <2>2
    <3>. QED  BY <3>1, <3>2, <3>3, Zenon DEF IsCursor
  <2>7. packet' = <<>>
    BY <1>2, <1>4, <1>11, SubSeqEmpty
  <2>8. Sends(e)'
    BY <1>1, <2>2, <2>7 DEF Sends
  <2>. QED  BY <1>2, <1>6, <2>4, <2>6, <2>8 DEF f
<1>12. CASE n # Len(packet)
  <2>0. n = CanMaxDlen
    BY <1>2, <1>12
  <2>1. PICK e : e = [base |-> d.base, req |-> r, off |-> o + n]
    OBVIOUS
  <2>2. e.base = d.base /\ e.req = r /\ e.off = o + n
    BY <2>1
  <2>3. o + n < m /\ o + n # m /\ o + n # 0
    BY <1>4, <1>7, <1>9, <1>12
  <2>4. Carries(d, r, f, e)
    BY <1>3, <1>5, <1>8, <1>o, <1>10, <2>0, <2>2, <2>3 DEF Carries, w, m
  <2>5. \E k \in Nat : d.off = k * CanMaxDlen
    <3>1. CASE d.off = 0
      <4>1. 0 = 0 * CanMaxDlen
        BY <1>4
      <4>. QED  BY <3>1, <4>1
    <3>2. CASE d.off # 0
      BY <3>2 DEF IsCursor
    <3>. QED  BY <3>1, <3>2
  <2>6. \E k \in Nat : e.off = k * CanMaxDlen
    <3>1. PICK k \in Nat : d.off = k * CanMaxDlen
      BY <2>5
    <3>2. (k + 1) * CanMaxDlen = k * CanMaxDlen + CanMaxDlen
      BY <1>4
    <3>3. k + 1 \in Nat /\ e.off = (k + 1) * CanMaxDlen
      BY <1>o, <2>0, <2>2, <3>1, <3>2
    <3>. QED  BY <3>3
  <2>7. IsCursor(e)'
    <3>1. PICK t \in Seq(Byte) : due = d.base \o t
      BY DEF IsCursor
    <3>2. e.off \in Nat
      BY <1>4, <2>2
    <3>. QED  BY <1>1, <1>3, <1>8, <2>2, <2>3, <2>6, <3>1, <3>2 DEF IsCursor, w, m
  <2>8. packet' = SubSeq(w, e.off + 1, m)
    <3>. DEFINE p == SubSeq(packet, n + 1, Len(packet))
                q == SubSeq(w, o + n + 1, m)
                l == m - (o + n)
                v == Len(packet)
    <3>1. l \in Nat /\ l = v - n /\ v \in Nat /\ n <= v
      BY <1>1, <1>4, <1>7, <1>9, <2>3
    <3>2. /\ p \in Seq(Byte) /\ Len(p) = l /\ \A k \in 1..l : p[k] = packet[n + k]
      BY <1>1, <1>4, <3>1, PartBytes
    <3>3. /\ q \in Seq(Byte) /\ Len(q) = l /\ \A k \in 1..l : q[k] = w[o + n + k]
      <4>1. o + n \in Nat /\ o + n <= m /\ m <= Len(w)
        BY <1>4, <1>7, <1>10 DEF m
      <4>. QED  BY <1>7, <4>1, PartBytes
    <3>. HIDE DEF p, q, l
    <3>4. \A k \in 1..l : p[k] = q[k]
      <4>. SUFFICES ASSUME NEW k \in 1..l PROVE p[k] = q[k]
        OBVIOUS
      <4>1. n + k \in 1..v /\ o + (n + k) = o + n + k
        BY <1>4, <3>1
      <4>. QED  BY <1>9, <3>2, <3>3, <4>1
    <3>5. p = q
      BY <3>2, <3>3, <3>4, SeqEqual
    <3>. QED  BY <1>2, <2>2, <3>5 DEF p, q
  <2>9. packet' # <<>>
    <3>1. Len(packet') = Len(packet) - n
      BY <1>1, <1>2, <1>4, <1>12, PartType
    <3>. QED  BY <1>1, <1>4, <1>12, <3>1
  <2>10. Sends(e)'
    BY <1>1, <1>3, <2>2, <2>8, <2>9 DEF Sends, w, m
  <2>. QED  BY <1>2, <1>6, <2>4, <2>7, <2>10 DEF f
<1>. QED  BY <1>11, <1>12

(* The place of the thread is the same as long as it rests.                 *)
LEMMA PlaceStays ==
  ASSUME NEW c, Between(c) \/ Within(c),
         UNCHANGED <<frame, i, rx_frame_state_, rx_framebuffer_, tx_buffer_, sent, out, due>>
  PROVE  (Between(c) \/ Within(c))'
<1>1. Between(c) => Between(c)'
  BY DEF Between, Parsed, Writing
<1>2. Within(c) => Within(c)'
  BY DEF Within, IsCursor, Carries, Parsed, Writing
<1>. QED  BY <1>1, <1>2

(* The next CAN frame of a request is one more with a cursor behind it.    *)
LEMMA SendPieceKeeps ==
  ASSUME CrcIsShort, IInv, Clean, SendPiece
  PROVE  Clean'
<1>. SUFFICES ASSUME ~faulty' PROVE \E g : Chain(g)'
  BY DEF Clean
<1>1. PICK c : Chain(c)
  BY DEF Clean, SendPiece
<1>2. PICK n \in Nat : n = Len(bus)
  BY DEF IInv, TypeOK
<1>3. IsCursor(c[n]) /\ Sends(c[n])
  BY <1>1, <1>2 DEF Chain
<1>4. PICK f, e, r : /\ f \in CanFrame /\ bus' = Append(bus, f)
                     /\ Carries(c[n], r, f, e) /\ IsCursor(e)' /\ Sends(e)'
  BY <1>3, PieceLeads
<1>5. UNCHANGED <<frame, i, rx_frame_state_, rx_framebuffer_, tx_buffer_, sent, out, due>>
  BY DEF SendPiece, rxVars, txVars
<1>6. /\ Len(bus') = n + 1 /\ bus'[n + 1] = f /\ \A k \in 1..n : bus'[k] = bus[k]
  BY <1>2, <1>4, AppendProperties DEF IInv, TypeOK
<1>7. PICK g : g = [k \in 0..(n + 1) |-> IF k = n + 1 THEN e ELSE c[k]]
  OBVIOUS
<1>8. g[n + 1] = e /\ \A k \in 0..n : g[k] = c[k]
  BY <1>2, <1>7
<1>9. \A k \in 0..n : IsCursor(c[k])'
  BY <1>1, <1>2, <1>5 DEF Chain, IsCursor
<1>10. \A k \in 0..Len(bus') : IsCursor(g[k])'
  <2>. SUFFICES ASSUME NEW k \in 0..Len(bus') PROVE IsCursor(g[k])'
    OBVIOUS
  <2>1. k = n + 1 \/ k \in 0..n
    BY <1>2, <1>6
  <2>. QED  BY <1>4, <1>8, <1>9, <2>1
<1>11. \A k \in 1..Len(bus') : \E q : Carries(g[k - 1], q, bus'[k], g[k])
  <2>. SUFFICES ASSUME NEW k \in 1..Len(bus') PROVE \E q : Carries(g[k - 1], q, bus'[k], g[k])
    OBVIOUS
  <2>1. CASE k = n + 1
    <3>1. g[k - 1] = c[n] /\ bus'[k] = f /\ g[k] = e
      BY <1>2, <1>6, <1>8, <2>1
    <3>. QED  BY <1>4, <3>1
  <2>2. CASE k # n + 1
    <3>1. k \in 1..n /\ k \in 0..n /\ k - 1 \in 0..n
      BY <1>2, <1>6, <2>2
    <3>2. g[k - 1] = c[k - 1] /\ bus'[k] = bus[k] /\ g[k] = c[k]
      BY <1>6, <1>8, <3>1
    <3>3. \E q : Carries(c[k - 1], q, bus[k], c[k])
      BY <1>1, <1>2, <3>1 DEF Chain
    <3>. QED  BY <3>2, <3>3
  <2>. QED  BY <2>1, <2>2
<1>12. g[0] = c[0]
  BY <1>2, <1>8
<1>13. (Between(g[0]) \/ Within(g[0]))'
  BY <1>1, <1>5, <1>12, PlaceStays DEF Chain
<1>14. Sends(g[Len(bus)])'
  BY <1>4, <1>6, <1>8
<1>15. Chain(g)'
  BY <1>10, <1>11, <1>13, <1>14 DEF Chain, Carries
<1>. QED  BY <1>15

(* The loop begins with the next frame.                                     *)
LEMMA ReadKeeps ==
  ASSUME CrcIsShort, IInv, Clean, Read
  PROVE  Clean'
<1>. SUFFICES ASSUME ~faulty' PROVE \E g : Chain(g)'
  BY DEF Clean
<1>1. PICK c : Chain(c)
  BY DEF Clean, Read
<1>2. PICK n \in Nat : n = Len(bus)
  BY DEF IInv, TypeOK
<1>3. /\ bus \in Seq(CanFrame) /\ bus # <<>> /\ frame' = Head(bus) /\ i' = 0 /\ bus' = Tail(bus)
      /\ ~Writing /\ i >= Len(frame)
      /\ UNCHANGED <<rx_frame_state_, rx_framebuffer_, tx_buffer_, sent, out, due, packet>>
  BY DEF Read, FrameEnd, IInv, TypeOK, rxVars, txVars
<1>4. /\ n >= 1 /\ frame' = bus[1] /\ Len(bus') = n - 1
      /\ \A k \in 1..(n - 1) : bus'[k] = bus[k + 1]
  <2>1. n >= 1 /\ Head(bus) = bus[1]
    BY <1>2, <1>3
  <2>. QED  BY <1>2, <1>3, <2>1, HeadTailProperties
<1>5. \A k \in 0..n : IsCursor(c[k])'
  BY <1>1, <1>2, <1>3 DEF Chain, IsCursor
<1>6. PICK g : g = [k \in 0..(n - 1) |-> c[k + 1]]
  OBVIOUS
<1>7. \A k \in 0..(n - 1) : g[k] = c[k + 1]
  BY <1>6
<1>8. \A k \in 0..(n - 1) : k + 1 \in 0..n
  BY <1>2
<1>9. \A k \in 0..Len(bus') : IsCursor(g[k])'
  BY <1>4, <1>5, <1>7, <1>8
<1>10. \A k \in 1..Len(bus') : \E q : Carries(g[k - 1], q, bus'[k], g[k])
  <2>. SUFFICES ASSUME NEW k \in 1..Len(bus') PROVE \E q : Carries(g[k - 1], q, bus'[k], g[k])
    OBVIOUS
  <2>1. k \in 0..(n - 1) /\ k - 1 \in 0..(n - 1) /\ k \in 1..(n - 1) /\ k + 1 \in 1..n /\ (k - 1) + 1 = k
    BY <1>2, <1>4
  <2>2. g[k - 1] = c[k] /\ bus'[k] = bus[k + 1] /\ g[k] = c[k + 1]
    BY <1>4, <1>7, <2>1
  <2>3. \E q : Carries(c[(k + 1) - 1], q, bus[k + 1], c[k + 1])
    BY <1>1, <1>2, <2>1 DEF Chain
  <2>4. (k + 1) - 1 = k
    BY <2>1
  <2>. QED  BY <2>2, <2>3, <2>4
<1>11. Sends(g[Len(bus)])'
  <2>1. Len(bus') \in 0..(n - 1) /\ Len(bus') + 1 = n
    BY <1>2, <1>4
  <2>2. g[Len(bus')] = c[n]
    BY <1>7, <2>1
  <2>3. Sends(c[n])
    BY <1>1, <1>2 DEF Chain
  <2>4. Sends(c[n])'
    BY <1>3, <2>3 DEF Sends
  <2>. QED  BY <2>2, <2>4
<1>12. PICK b, e : b = c[0] /\ e = c[1]
  OBVIOUS
<1>13. PICK r : Carries(b, r, bus[1], e)
  <2>1. 1 \in 1..n /\ 1 - 1 = 0
    BY <1>2, <1>4
  <2>2. \E q : Carries(c[1 - 1], q, bus[1], c[1])
    BY <1>1, <1>2, <2>1 DEF Chain
  <2>. QED  BY <1>12, <2>1, <2>2
<1>14. Parsed(b.base, b.req, b.off) /\ IsCursor(b)' /\ b.off \in Nat
  <2>1. Between(b) \/ Within(b)
    BY <1>1, <1>12 DEF Chain
  <2>2. ~Within(b)
    BY <1>3 DEF Within, IInv, TypeOK, CanFrame
  <2>3. 0 \in 0..n
    BY <1>2
  <2>4. IsCursor(b)'
    BY <1>5, <1>12, <2>3
  <2>. QED  BY <2>1, <2>2, <2>4 DEF Between, IsCursor
<1>15. Within(e)'
  <2>1. Parsed(b.base, r, b.off + i)'
    <3>1. b.off + i' = b.off
      BY <1>3, <1>14
    <3>2. b.off # 0 => r = b.req
      BY <1>13 DEF Carries
    <3>3. Parsed(b.base, r, b.off)
      BY <1>14, <3>2 DEF Parsed
    <3>. QED  BY <1>3, <3>1, <3>3 DEF Parsed
  <2>2. ~Writing'
    BY <1>3 DEF Writing
  <2>3. i' < Len(frame')
    <3>1. Len(frame') \in 1..CanMaxDlen
      BY <1>4, <1>13 DEF Carries
    <3>. QED  BY <1>3, <3>1, CanAssumption
  <2>4. Carries(b, r, frame', e)
    BY <1>4, <1>13
  <2>. QED  BY <1>14, <2>1, <2>2, <2>3, <2>4 DEF Within, Carries
<1>16. (Between(g[0]) \/ Within(g[0]))'
  <2>1. 0 \in 0..(n - 1)
    BY <1>2, <1>4
  <2>2. g[0] = e
    BY <1>7, <1>12, <2>1
  <2>. QED  BY <1>15, <2>2
<1>17. Chain(g)'
  BY <1>9, <1>10, <1>11, <1>16 DEF Chain, Carries
<1>. QED  BY <1>17

(* The byte the loop takes is the next one of the request, and the replies  *)
(* before it are written.                                                  *)
LEMMA ByteOfWire ==
  ASSUME CrcIsShort, IInv, NextByte, NEW b, NEW r, NEW c, NEW k, k = b.off + i,
         IsCursor(b), Carries(b, r, frame, c), Parsed(b.base, r, k)
  PROVE  /\ r \in Requests /\ k \in Nat /\ k + 1 <= Len(Wire(r)) /\ Len(Wire(r)) \in Nat
         /\ data = Wire(r)[k + 1] /\ out = b.base
<1>1. i \in Nat /\ b.off \in Nat /\ frame \in Seq(Byte) /\ i < Len(frame) /\ ~Writing
  BY DEF IInv, TypeOK, CanFrame, IsCursor, NextByte
<1>2. r \in Requests /\ b.off + Len(frame) <= Len(Wire(r))
  BY DEF Carries
<1>3. Len(Wire(r)) \in Nat
  BY <1>2, WireType
<1>4. i + 1 \in 1..Len(frame) /\ b.off + (i + 1) = k + 1
  BY <1>1
<1>5. data = Wire(r)[k + 1]
  BY <1>4 DEF Carries, data
<1>6. k \in Nat /\ k + 1 <= Len(Wire(r))
  BY <1>1, <1>2, <1>3
<1>7. SubSeq(tx_buffer_, sent + 1, Len(tx_buffer_)) = <<>>
  <2>1. sent \in Nat /\ Len(tx_buffer_) \in Nat /\ Len(tx_buffer_) < sent + 1
    BY <1>1 DEF Writing, IInv, TypeOK
  <2>. QED  BY <2>1, SubSeqEmpty
<1>8. out = b.base
  BY <1>7, ConcatEmptySeq DEF Parsed, IInv, TypeOK
<1>. QED  BY <1>2, <1>3, <1>5, <1>6, <1>8

(* The parser is one byte further, and the packet is not complete.          *)
LEMMA ParsesOn ==
  ASSUME IInv, NextByte, UNCHANGED <<tx_buffer_, sent>>, NEW b, NEW r, NEW c, NEW k \in Nat, k = b.off + i,
         IsCursor(b), Carries(b, r, frame, c), Parsed(b.base, r, k), k + 1 < Len(Wire(r)),
         rx_frame_state_' = "RECEIVED", rx_framebuffer_' = SubSeq(Wire(r), 1, k + 1)
  PROVE  (Between(c) \/ Within(c))'
<1>1. /\ i \in Nat /\ b.off \in Nat /\ Len(frame) \in Nat /\ i < Len(frame) /\ ~Writing
      /\ i' = i + 1 /\ UNCHANGED <<frame, out, due>>
  BY DEF IInv, TypeOK, CanFrame, IsCursor, NextByte
<1>2. ~Writing'
  BY <1>1 DEF Writing
<1>3. out \o SubSeq(tx_buffer_, sent + 1, Len(tx_buffer_)) = b.base
  BY DEF Parsed
<1>4. k + 1 # 0
  OBVIOUS
<1>5. CASE i + 1 < Len(frame)
  <2>1. b.off + i' = k + 1
    <3>1. PICK o \in Nat : o = b.off
      BY <1>1
    <3>2. k = o + i /\ i' = i + 1 /\ i \in Nat
      BY <1>1, <3>1
    <3>. QED  BY <3>1, <3>2
  <2>2. Parsed(b.base, r, b.off + i)'
    BY <1>1, <1>3, <1>4, <2>1 DEF Parsed
  <2>3. IsCursor(b)' /\ Carries(b, r, frame, c)'
    BY <1>1 DEF IsCursor, Carries
  <2>4. i' < Len(frame')
    BY <1>1, <1>5
  <2>. QED  BY <1>2, <2>2, <2>3, <2>4 DEF Within
<1>6. CASE ~(i + 1 < Len(frame))
  <2>1. b.off + Len(frame) = k + 1 /\ b.off + Len(frame) # Len(Wire(r)) /\ i' >= Len(frame')
    BY <1>1, <1>6
  <2>2. c.off = k + 1 /\ c.req = r /\ c.base = b.base
    BY <2>1 DEF Carries
  <2>3. Parsed(c.base, c.req, c.off)'
    BY <1>1, <1>3, <1>4, <2>2 DEF Parsed
  <2>. QED  BY <1>2, <2>1, <2>3 DEF Between
<1>. QED  BY <1>5, <1>6

(* Outside of a packet, and inside of one that is not complete.             *)
LEMMA OutsideParses ==
  ASSUME CrcIsShort, IInv, NEW c, Within(c), Outside
  PROVE  (Between(c) \/ Within(c))'
<1>1. PICK b, r : IsCursor(b) /\ Carries(b, r, frame, c) /\ Parsed(b.base, r, b.off + i)
  BY DEF Within
<1>2. PICK k : k = b.off + i
  OBVIOUS
<1>3. NextByte /\ rx_frame_state_ = "EMPTY" /\ UNCHANGED <<tx_buffer_, sent>>
  BY DEF Outside, txVars
<1>4. /\ r \in Requests /\ k \in Nat /\ k + 1 <= Len(Wire(r)) /\ Len(Wire(r)) \in Nat
      /\ data = Wire(r)[k + 1]
  BY <1>1, <1>2, <1>3, ByteOfWire
<1>5. k = 0
  BY <1>1, <1>2, <1>3 DEF Parsed
<1>6. /\ Wire(r) \in Seq(Byte) /\ Wire(r)[1] = HEADER /\ Len(Wire(r)) >= 7
  <2>1. Wire(r) \in Seq(Byte) /\ Len(Wire(r)) = Len(r.data) + 7 /\ r.data \in Seq(Byte)
    BY <1>4, WireType
  <2>. QED  BY <1>4, <2>1, WireBytes
<1>7. data = HEADER
  BY <1>4, <1>5, <1>6
<1>8. rx_frame_state_' = "RECEIVED" /\ rx_framebuffer_' = <<data>>
  BY <1>7 DEF Outside
<1>9. <<data>> = SubSeq(Wire(r), 1, k + 1)
  <2>1. data \in Byte
    BY <1>3, ByteType
  <2>2. /\ SubSeq(Wire(r), 0 + 1, 1) \in Seq(Byte) /\ Len(SubSeq(Wire(r), 0 + 1, 1)) = 1 - 0
        /\ \A j \in 1..(1 - 0) : SubSeq(Wire(r), 0 + 1, 1)[j] = Wire(r)[0 + j]
    BY <1>6, PartBytes
  <2>3. SubSeq(Wire(r), 0 + 1, 1)[1] = data
    BY <1>6, <1>7, <2>2
  <2>4. <<data>> \in Seq(Byte) /\ Len(<<data>>) = 1 /\ <<data>>[1] = data
    BY <2>1
  <2>5. 0 + 1 = 1 /\ k + 1 = 1
    BY <1>5
  <2>. DEFINE p == SubSeq(Wire(r), 1, 1)
              q == <<data>>
  <2>6. p \in Seq(Byte) /\ Len(p) = 1 /\ p[1] = data
    BY <2>2, <2>3, <2>5
  <2>7. q \in Seq(Byte) /\ Len(q) = 1 /\ q[1] = data
    BY <2>4
  <2>. HIDE DEF p, q
  <2>8. \A j \in 1..Len(p) : p[j] = q[j]
    BY <2>6, <2>7
  <2>9. p = q
    BY <2>6, <2>7, <2>8, SeqEqual
  <2>. QED  BY <2>5, <2>9 DEF p, q
<1>10. k + 1 < Len(Wire(r))
  BY <1>5, <1>6
<1>. QED  BY <1>1, <1>2, <1>3, <1>4, <1>8, <1>9, <1>10, ParsesOn

(* Inside of a packet the buffer with the next byte is a part of the        *)
(* request; it is never too long, and complete when it is all of it.        *)
LEMMA ReceivedPart ==
  ASSUME CrcIsShort, IInv, NextByte, rx_frame_state_ = "RECEIVED", NEW b, NEW r, NEW c, NEW k,
         k = b.off + i, IsCursor(b), Carries(b, r, frame, c), Parsed(b.base, r, k)
  PROVE  /\ Received = SubSeq(Wire(r), 1, k + 1)
         /\ Sized(Received) => ~TooLong(Received)
         /\ Whole(Received) <=> k + 1 = Len(Wire(r))
<1>1. /\ r \in Requests /\ k \in Nat /\ k + 1 <= Len(Wire(r)) /\ Len(Wire(r)) \in Nat
      /\ data = Wire(r)[k + 1]
  BY ByteOfWire
<1>2. k # 0 /\ rx_framebuffer_ = SubSeq(Wire(r), 1, k)
  BY DEF Parsed
<1>3. Received = SubSeq(Wire(r), 1, k + 1)
  <2>1. 1 <= k /\ k < Len(Wire(r))
    BY <1>1, <1>2
  <2>. QED  BY <1>1, <1>2, <2>1, NextOfWire DEF Received
<1>4. Len(Wire(r)) <= MaxFrameBuffer /\ MaxFrameBuffer \in Nat /\ Len(Wire(r)) >= 7
  <2>1. /\ Len(Wire(r)) <= MaxFrameBuffer /\ Len(Wire(r)) = Len(r.data) + 7 /\ r.data \in Seq(Byte)
    BY <1>1, WireType
  <2>. QED  BY <2>1, CanAssumption
<1>. DEFINE m == Len(Wire(r))
<1>5. Len(Received) = k + 1 /\ (k + 1 >= 5 => FrameSize(Received) = m)
  <2>1. k + 1 \in 1..m
    BY <1>1
  <2>. QED  BY <1>1, <1>3, <2>1, PartOfWire
<1>6. m \in Nat /\ m <= MaxFrameBuffer /\ m >= 7 /\ k + 1 <= m
  BY <1>1, <1>4
<1>. HIDE DEF m
<1>7. Sized(Received) => FrameSize(Received) = m
  BY <1>1, <1>5 DEF Sized
<1>8. Sized(Received) => ~TooLong(Received)
  BY <1>4, <1>6, <1>7 DEF TooLong
<1>9. Whole(Received) => k + 1 = m
  BY <1>1, <1>5, <1>6, <1>7 DEF Whole
<1>10. k + 1 = m => Whole(Received)
  <2>. SUFFICES ASSUME k + 1 = m PROVE Whole(Received)
    OBVIOUS
  <2>1. Sized(Received)
    BY <1>5, <1>6 DEF Sized
  <2>. QED  BY <1>5, <1>6, <1>7, <1>8, <2>1 DEF Whole
<1>. QED  BY <1>3, <1>8, <1>9, <1>10 DEF m

(* Each byte inside of a packet that is not complete is parsed.            *)
LEMMA InsideParses ==
  ASSUME CrcIsShort, IInv, NEW c, Within(c), Inside
  PROVE  (Between(c) \/ Within(c))'
<1>1. PICK b, r : IsCursor(b) /\ Carries(b, r, frame, c) /\ Parsed(b.base, r, b.off + i)
  BY DEF Within
<1>2. PICK k : k = b.off + i
  OBVIOUS
<1>3. /\ NextByte /\ rx_frame_state_ = "RECEIVED" /\ UNCHANGED <<tx_buffer_, sent>>
      /\ rx_framebuffer_' = Received /\ rx_frame_state_' = "RECEIVED"
      /\ Sized(Received) => ~Whole(Received)
  BY DEF Inside, txVars
<1>4. r \in Requests /\ k \in Nat /\ k + 1 <= Len(Wire(r)) /\ Len(Wire(r)) \in Nat
  BY <1>1, <1>2, <1>3, ByteOfWire
<1>5. /\ Received = SubSeq(Wire(r), 1, k + 1)
      /\ Whole(Received) <=> k + 1 = Len(Wire(r))
  BY <1>1, <1>2, <1>3, ReceivedPart
<1>6. k + 1 < Len(Wire(r))
  BY <1>3, <1>4, <1>5 DEF Whole
<1>. QED  BY <1>1, <1>2, <1>3, <1>4, <1>5, <1>6, ParsesOn

(* No request is dropped.                                                  *)
LEMMA NeverDropped ==
  ASSUME CrcIsShort, IInv, NEW c, Within(c), Drop
  PROVE  FALSE
<1>1. PICK b, r : IsCursor(b) /\ Carries(b, r, frame, c) /\ Parsed(b.base, r, b.off + i)
  BY DEF Within
<1>2. PICK k : k = b.off + i
  OBVIOUS
<1>3. NextByte /\ rx_frame_state_ = "RECEIVED"
  BY DEF Drop
<1>5. /\ Received = SubSeq(Wire(r), 1, k + 1) /\ (Sized(Received) => ~TooLong(Received))
      /\ Whole(Received) => k + 1 = Len(Wire(r))
  BY <1>1, <1>2, <1>3, ReceivedPart
<1>6. Whole(Received) => Received = Wire(r)
  <2>1. r \in Requests
    BY <1>1 DEF Carries
  <2>2. Wire(r) \in Seq(Byte)
    BY <2>1, WireType
  <2>. QED  BY <1>5, <2>2, SubSeqFull
<1>7. Whole(Received) => ChecksumPasses(Received)
  <2>1. r \in Requests
    BY <1>1 DEF Carries
  <2>. QED  BY <1>6, <2>1, WireBytes
<1>. QED  BY <1>5, <1>7 DEF Drop

(* The last byte of a request ends its frame; the reply is its answer, and  *)
(* as long as the request, so that their last pieces are as long as each    *)
(* other.                                                                  *)
LEMMA CompleteParses ==
  ASSUME CrcIsShort, IInv, NEW c, Within(c), Complete
  PROVE  (Between(c) \/ Within(c))'
<1>1. PICK b, r : IsCursor(b) /\ Carries(b, r, frame, c) /\ Parsed(b.base, r, b.off + i)
  BY DEF Within
<1>2. PICK k : k = b.off + i
  OBVIOUS
<1>3. /\ NextByte /\ rx_frame_state_ = "RECEIVED" /\ Whole(Received)
      /\ rx_frame_state_' = "EMPTY"
      /\ tx_buffer_' = Reply(SubSeq(Received, 1, Len(Received) - 2)) /\ sent' = 0
      /\ i' = i + 1 /\ UNCHANGED <<frame, out>>
  BY DEF Complete, NextByte
<1>4. /\ r \in Requests /\ k \in Nat /\ k + 1 <= Len(Wire(r)) /\ Len(Wire(r)) \in Nat
      /\ out = b.base
  BY <1>1, <1>2, <1>3, ByteOfWire
<1>5. Received = SubSeq(Wire(r), 1, k + 1) /\ k + 1 = Len(Wire(r))
  BY <1>1, <1>2, <1>3, ReceivedPart
<1>6. Wire(r) \in Seq(Byte) /\ Answer(r) \in Seq(Byte)
      /\ (Answer(r) # <<>> => Len(Answer(r)) = Len(Wire(r)))
  BY <1>4, WireType
<1>7. Received = Wire(r)
  BY <1>5, <1>6, SubSeqFull
<1>8. tx_buffer_' = Answer(r)
  BY <1>3, <1>4, <1>7, WireBytes
<1>9. PICK o \in Nat : o = b.off
  BY <1>1 DEF IsCursor
<1>10. /\ i \in Nat /\ Len(frame) \in Nat /\ i < Len(frame) /\ Len(frame) <= CanMaxDlen
       /\ CanMaxDlen \in Nat
  BY <1>3, CanAssumption DEF IInv, TypeOK, CanFrame, NextByte
<1>11. o + Len(frame) = Len(Wire(r)) /\ Len(frame) = i + 1
  <2>1. o + Len(frame) <= Len(Wire(r))
    BY <1>1, <1>9 DEF Carries
  <2>2. k = o + i /\ k + 1 = Len(Wire(r))
    BY <1>2, <1>5, <1>9
  <2>3. PICK m \in Nat : m = Len(Wire(r))
    BY <1>4
  <2>4. o + Len(frame) <= m /\ o + i + 1 = m
    BY <1>9, <1>10, <2>1, <2>2, <2>3
  <2>. QED  BY <1>9, <1>10, <2>3, <2>4
<1>12. c.off = 0 /\ c.base = b.base \o Answer(r)
  BY <1>1, <1>9, <1>11 DEF Carries
<1>13. i' >= Len(frame') /\ i' \in 1..CanMaxDlen
  BY <1>3, <1>10, <1>11
<1>14. Parsed(c.base, c.req, c.off)'
  <2>1. SubSeq(tx_buffer_', sent' + 1, Len(tx_buffer_')) = Answer(r)
    BY <1>3, <1>6, <1>8, SubSeqFull
  <2>2. out' \o SubSeq(tx_buffer_', sent' + 1, Len(tx_buffer_')) = c.base
    BY <1>3, <1>4, <1>12, <2>1
  <2>. QED  BY <1>3, <1>12, <2>2 DEF Parsed
<1>15. \E m \in Nat : o = m * CanMaxDlen
  <2>1. CASE o = 0
    <3>1. 0 = 0 * CanMaxDlen
      BY <1>10
    <3>. QED  BY <2>1, <3>1
  <2>2. CASE o # 0
    BY <1>1, <1>9, <2>2 DEF IsCursor
  <2>. QED  BY <2>1, <2>2
<1>16. ASSUME Writing' PROVE \E m \in Nat : Len(tx_buffer_') - sent' = m * CanMaxDlen + i'
  <2>1. Answer(r) # <<>>
    BY <1>3, <1>8, <1>16 DEF Writing
  <2>2. Len(tx_buffer_') = o + i'
    BY <1>3, <1>6, <1>8, <1>11, <2>1
  <2>3. PICK m \in Nat : o = m * CanMaxDlen
    BY <1>15
  <2>4. Len(tx_buffer_') - sent' = m * CanMaxDlen + i'
    BY <1>3, <1>9, <1>10, <2>2, <2>3
  <2>. QED  BY <2>4
<1>17. Between(c)'
  BY <1>13, <1>14, <1>16 DEF Between
<1>. QED  BY <1>17

(* A piece of the reply is written; the last one is as long as the piece    *)
(* of the request that the loop has just gone over.                         *)
LEMMA WriteGoesOn ==
  ASSUME IInv, NEW c, Between(c) \/ Within(c), Write, ~faulty'
  PROVE  (Between(c) \/ Within(c))'
<1>1. Writing /\ Between(c)
  BY DEF Write, Within
<1>. DEFINE f == Piece(tx_buffer_, sent)
            n == Len(tx_buffer_)
<1>2. /\ frame' = f /\ sent' = sent + Len(f) /\ out' = out \o f
      /\ UNCHANGED <<i, rx_frame_state_, rx_framebuffer_, tx_buffer_>>
  BY DEF Write, rxVars
<1>3. /\ tx_buffer_ \in Seq(Byte) /\ n \in Nat /\ sent \in Nat /\ sent < n /\ out \in Seq(Byte)
      /\ CanMaxDlen \in Nat \ {0}
  BY <1>1, CanAssumption DEF IInv, TypeOK, Writing
<1>4. PICK e : e = IF sent + CanMaxDlen <= n THEN sent + CanMaxDlen ELSE n
  OBVIOUS
<1>5. e \in Nat /\ sent < e /\ e <= n /\ f = SubSeq(tx_buffer_, sent + 1, e)
  BY <1>3, <1>4 DEF Piece
<1>6. f \in Seq(Byte) /\ Len(f) = e - sent
  BY <1>3, <1>5, PartBytes
<1>. HIDE DEF f
<1>7. sent' = e
  BY <1>2, <1>3, <1>5, <1>6
<1>. DEFINE rest == SubSeq(tx_buffer_, e + 1, n)
<1>8. SubSeq(tx_buffer_, sent + 1, n) = f \o rest
  <2>1. sent + 1 \in 1..Len(tx_buffer_) + 1 /\ e \in (sent + 1) - 1..Len(tx_buffer_)
        /\ n \in e..Len(tx_buffer_)
    BY <1>3, <1>5
  <2>. QED  BY <1>3, <1>5, <2>1, ConcatAdjacentSubSeq
<1>9. rest \in Seq(Byte)
  BY <1>3, <1>5, PartBytes
<1>. HIDE DEF rest
<1>10. (out \o f) \o rest = out \o (f \o rest)
  <2>1. out \in Seq(Byte) /\ f \in Seq(Byte) /\ rest \in Seq(Byte)
    BY <1>3, <1>6, <1>9
  <2>. QED  BY <2>1, JoinedTwice
<1>11. out \o (f \o rest) = c.base
  BY <1>1, <1>8 DEF Between, Parsed
<1>12. Parsed(c.base, c.req, c.off)'
  <2>1. out' \o SubSeq(tx_buffer_', sent' + 1, Len(tx_buffer_')) = c.base
    BY <1>2, <1>7, <1>10, <1>11 DEF rest
  <2>. QED  BY <1>1, <1>2, <2>1 DEF Between, Parsed
<1>13. i \in 1..CanMaxDlen /\ \E m \in Nat : n - sent = m * CanMaxDlen + i
  BY <1>1 DEF Between
<1>14. PICK m \in Nat : n - sent = m * CanMaxDlen + i
  BY <1>13
<1>. HIDE DEF n
<1>15. CASE m = 0
  <2>1. m * CanMaxDlen = 0
    BY <1>3, <1>15
  <2>2. e = n /\ Len(f) = i
    BY <1>3, <1>4, <1>6, <1>13, <1>14, <2>1
  <2>3. ~Writing' /\ i' >= Len(frame')
    BY <1>2, <1>3, <1>7, <1>13, <2>2 DEF Writing, n
  <2>. QED  BY <1>12, <2>3 DEF Between
<1>16. CASE m # 0
  <2>1. PICK l \in Nat : m = l + 1
    <3>1. m - 1 \in Nat /\ m = (m - 1) + 1
      BY <1>16
    <3>. QED  BY <3>1
  <2>2. (l + 1) * CanMaxDlen = l * CanMaxDlen + CanMaxDlen /\ l * CanMaxDlen \in Nat
    BY <1>3
  <2>3. PICK a \in Nat : a = l * CanMaxDlen
    BY <2>2
  <2>4. n - sent = a + CanMaxDlen + i
    BY <1>14, <2>1, <2>2, <2>3
  <2>5. e = sent + CanMaxDlen /\ e < n /\ n - e = a + i
    BY <1>3, <1>4, <1>13, <2>4
  <2>6. Writing' /\ Len(tx_buffer_') - sent' = l * CanMaxDlen + i'
    BY <1>2, <1>7, <2>3, <2>5 DEF Writing, n
  <2>. QED  BY <1>2, <1>12, <1>13, <2>6 DEF Between
<1>. QED  BY <1>15, <1>16

(* Whatever the thread does keeps the bus clean.                            *)
LEMMA RunKeeps ==
  ASSUME CrcIsShort, IInv, Clean, Run
  PROVE  Clean'
<1>1. CASE Read
  BY <1>1, ReadKeeps
<1>2. CASE Outside \/ Inside \/ Drop \/ Complete \/ Write
  <2>. SUFFICES ASSUME ~faulty' PROVE \E g : Chain(g)'
    BY DEF Clean
  <2>1. ~faulty
    BY <1>2 DEF Outside, Inside, Drop, Complete, NextByte, Write
  <2>2. PICK c : Chain(c)
    BY <2>1 DEF Clean
  <2>3. UNCHANGED <<bus, packet, due>>
    BY <1>2 DEF Outside, Inside, Drop, Complete, NextByte, Write
  <2>4. PICK d : d = c[0]
    OBVIOUS
  <2>5. Between(d) \/ Within(d)
    BY <2>2, <2>4 DEF Chain
  <2>6. (Between(d) \/ Within(d))'
    <3>1. CASE Write
      BY <2>5, <3>1, WriteGoesOn
    <3>2. CASE Outside \/ Inside \/ Drop \/ Complete
      <4>1. NextByte
        BY <3>2 DEF Outside, Inside, Drop, Complete
      <4>2. Within(d)
        BY <2>5, <4>1 DEF NextByte, Between, IInv, TypeOK, CanFrame
      <4>. QED  BY <3>2, <4>2, OutsideParses, InsideParses, NeverDropped, CompleteParses
    <3>. QED  BY <1>2, <3>1, <3>2
  <2>7. Chain(c)'
    BY <2>2, <2>3, <2>4, <2>6 DEF Chain, Sends, IsCursor, Carries
  <2>. QED  BY <2>7
<1>. QED  BY <1>1, <1>2 DEF Run

(* What is written so far is the beginning of what is expected.             *)
LEMMA WrittenIsExpected ==
  ASSUME IInv, NEW c, IsCursor(c), NEW x \in Seq(Byte), out \o x = c.base
  PROVE  IsPrefix(out, due)
<1>1. out \in Seq(Byte)
  BY DEF IInv, TypeOK
<1>2. PICK t \in Seq(Byte) : due = c.base \o t
  BY DEF IsCursor
<1>3. (out \o x) \o t = out \o (x \o t)
  BY <1>1, JoinedTwice
<1>. DEFINE y == x \o t
<1>4. y \in Seq(Byte) /\ due = out \o y
  BY <1>2, <1>3, ConcatProperties
<1>. HIDE DEF y
<1>5. Len(out) <= Len(due)
  BY <1>1, <1>4, ConcatProperties
<1>6. SubSeq(out, 1, Len(out)) = SubSeq(due, 1, Len(out))
  <2>1. CASE out = <<>>
    <3>1. Len(out) = 0 /\ SubSeq(out, 1, 0) = <<>> /\ SubSeq(due, 1, 0) = <<>>
      BY <2>1, SubSeqEmpty
    <3>. QED  BY <3>1
  <2>2. CASE out # <<>>
    <3>1. 1 \in 1..Len(out) /\ Len(out) \in 1..Len(out)
      BY <1>1, <2>2
    <3>. QED  BY <1>1, <1>4, <3>1, SubSeqOfConcat1
  <2>. QED  BY <2>1, <2>2
<1>. QED  BY <1>5, <1>6 DEF IsPrefix

(* On a clean bus the replies are those that are expected, and none is missing.*)
LEMMA CleanIsServed ==
  ASSUME CrcIsShort, IInv, Clean
  PROVE  RepliesCorrect /\ IdleMeansDone
<1>. SUFFICES ASSUME ~faulty PROVE RepliesCorrect /\ IdleMeansDone
  BY DEF RepliesCorrect, IdleMeansDone
<1>1. PICK c : Chain(c)
  BY DEF Clean
<1>2. PICK d : d = c[0]
  OBVIOUS
<1>3. Len(bus) \in Nat /\ sent \in Nat /\ Len(tx_buffer_) \in Nat /\ sent <= Len(tx_buffer_)
      /\ tx_buffer_ \in Seq(Byte) /\ out \in Seq(Byte) /\ i \in Nat /\ Len(frame) \in Nat
  BY DEF IInv, TypeOK, CanFrame
<1>4. IsCursor(d) /\ (Between(d) \/ Within(d))
  BY <1>1, <1>2, <1>3 DEF Chain
<1>. DEFINE x == SubSeq(tx_buffer_, sent + 1, Len(tx_buffer_))
<1>5. x \in Seq(Byte)
  BY <1>3, PartBytes
<1>6. \E b : IsCursor(b) /\ out \o x = b.base
  BY <1>4 DEF Between, Within, Parsed
<1>. HIDE DEF x
<1>7. RepliesCorrect
  BY <1>5, <1>6, WrittenIsExpected DEF RepliesCorrect
<1>8. IdleMeansDone
  <2>. SUFFICES ASSUME packet = <<>>, bus = <<>>, FrameEnd PROVE out = due /\ rx_frame_state_ = "EMPTY"
    BY DEF IdleMeansDone
  <2>1. d.off = 0 /\ due = d.base
    <3>1. Len(bus) = 0
      OBVIOUS
    <3>. QED  BY <1>1, <1>2, <3>1 DEF Chain, Sends
  <2>2. Between(d)
    BY <1>3, <1>4 DEF FrameEnd, Within
  <2>3. x = <<>>
    BY <1>3, SubSeqEmpty DEF FrameEnd, Writing, x
  <2>4. out \o x = d.base
    BY <2>2 DEF Between, Parsed, x
  <2>. QED  BY <1>3, <2>1, <2>2, <2>3, <2>4, ConcatEmptySeq DEF Between, Parsed
<1>. QED  BY <1>7, <1>8

(* At the start nothing is sent, and nothing expected.                     *)
LEMMA StartIsClean ==
  ASSUME CrcIsShort, Init
  PROVE  Clean
<1>1. PICK d : d = [base |-> <<>>, req |-> <<>>, off |-> 0]
  OBVIOUS
<1>2. PICK c : c = [k \in {0} |-> d]
  OBVIOUS
<1>3. d.base = <<>> /\ d.off = 0 /\ c[0] = d
  BY <1>1, <1>2
<1>4. /\ bus = <<>> /\ frame = <<>> /\ i = 0 /\ rx_frame_state_ = "EMPTY" /\ tx_buffer_ = <<>>
      /\ sent = 0 /\ out = <<>> /\ packet = <<>> /\ due = <<>>
  BY DEF Init
<1>5. <<>> \in Seq(Byte) /\ <<>> \o <<>> = <<>> /\ Len(<<>>) = 0 /\ SubSeq(<<>>, 0 + 1, 0) = <<>>
  BY ConcatEmptySeq, SubSeqEmpty
<1>6. IsCursor(d)
  <2>1. \E t \in Seq(Byte) : due = d.base \o t
    BY <1>3, <1>4, <1>5
  <2>. QED  BY <1>3, <1>5, <2>1 DEF IsCursor
<1>7. Sends(d)
  BY <1>3, <1>4 DEF Sends
<1>8. ~Writing /\ i >= Len(frame)
  BY <1>4, <1>5 DEF Writing
<1>9. Between(d)
  BY <1>3, <1>4, <1>5, <1>8 DEF Between, Parsed
<1>10. Len(bus) = 0
  BY <1>4, <1>5
<1>11. Chain(c)
  BY <1>3, <1>6, <1>7, <1>9, <1>10 DEF Chain
<1>. QED  BY <1>11 DEF Clean

(* can_socket and can_protocol: as long as masters begin each request in a  *)
(* CAN frame of its own and fill the frames, and every write succeeds, each *)
(* request gets its reply once, whole and in order, whatever the data and   *)
(* the sizes of frames and buffers - although the reply is written through  *)
(* the frame that the loop is reading.                                      *)
THEOREM RequestsAreServed == CrcIsShort => (MCSpec => []RequestsServed)
<1>. SUFFICES ASSUME CrcIsShort PROVE MCSpec => []RequestsServed
  OBVIOUS
<1>1. MCInit => IInv /\ Clean
  BY AppStarts, StartIsClean DEF MCInit
<1>2. IInv /\ Clean /\ [MCNext]_<<which, vars, chipVars, timingVars>> => (IInv /\ Clean)'
  <2>1. SUFFICES ASSUME IInv, Clean, [MCNext]_<<which, vars, chipVars, timingVars>>
                 PROVE  (IInv /\ Clean)'
    OBVIOUS
  <2>2. [Next]_vars
    BY <2>1 DEF MCNext, AppNext, ChipNext, TimingNext
  <2>3. IInv'
    BY <2>1, <2>2, AppSteps
  <2>4. Clean'
    <3>1. CASE Ask
      BY <2>1, <3>1, AskKeeps
    <3>2. CASE SendPiece
      BY <2>1, <3>2, SendPieceKeeps
    <3>3. CASE SendNoise
      BY <3>3 DEF SendNoise, Clean
    <3>4. CASE Run
      BY <2>1, <3>4, RunKeeps
    <3>5. CASE UNCHANGED vars
      <4>1. /\ UNCHANGED <<frame, i, rx_frame_state_, rx_framebuffer_, tx_buffer_, sent, out, due>>
            /\ UNCHANGED <<bus, packet, faulty>>
        BY <3>5 DEF vars, rxVars, txVars
      <4>2. ASSUME NEW c, Chain(c) PROVE Chain(c)'
        <5>1. (Between(c[0]) \/ Within(c[0]))'
          BY <4>1, <4>2, PlaceStays DEF Chain
        <5>. QED  BY <4>1, <4>2, <5>1 DEF Chain, Sends, IsCursor, Carries
      <4>. QED  BY <2>1, <4>1, <4>2 DEF Clean
    <3>. QED  BY <2>2, <3>1, <3>2, <3>3, <3>4, <3>5 DEF Next
  <2>. QED  BY <2>3, <2>4
<1>3. IInv /\ Clean => RequestsServed
  BY CleanIsServed DEF RequestsServed
<1>. QED  BY <1>1, <1>2, <1>3, PTL DEF MCSpec

-----------------------------------------------------------------------------
(***************************************************************************)
(* The driver of the controller.  Its types, those of the sequences        *)
(* included.                                                               *)
(***************************************************************************)
ErrorLevels == {"active", "warning", "passive", "busoff"}
States == ErrorLevels \cup {"stopped", "sleeping"}
Ats == {"idle", "rx", "read", "tx", "wake", "esr", "state", "mask"}

TxTypes == given \in Nat /\ txmb \in Nat /\ echo \in Nat /\ wire \in Seq(Nat) /\ echoed \in Seq(Nat)
RxTypes ==
  /\ mb \in [RxMbs -> Nat] /\ came \in Nat
  /\ irqq \in Seq(Nat) /\ rxq \in Seq(Nat) /\ up \in Seq(Nat)
IrqTypes ==
  /\ irq \in [at : Ats, last : States, pending : SUBSET RxMbs, batch : Seq(Nat), seen : States]
  /\ hw \in ErrorLevels /\ state \in States
ChipTypes == load \in Loads /\ quirk \in Quirks /\ TxTypes /\ RxTypes /\ IrqTypes

(* A set of natural numbers has a least element.                           *)
LEMMA Least ==
  ASSUME NEW S, S \subseteq Nat, S # {}
  PROVE  Chip!Min(S) \in S /\ \A y \in S : Chip!Min(S) <= y
<1>. DEFINE R == OpToRel(<, Nat)
<1>1. IsWellFoundedOn(R, Nat)
  BY NatLessThanWellFounded
<1>2. \A x, y \in Nat : x < y => <<x, y>> \in R
  BY DEF OpToRel
<1>. HIDE DEF R
<1>3. \E x \in S : \A y \in S : <<y, x>> \notin R
  BY <1>1, WFMin
<1>4. \E x \in S : \A y \in S : x <= y
  <2>1. PICK x \in S : \A y \in S : <<y, x>> \notin R
    BY <1>3
  <2>2. ASSUME NEW y \in S PROVE x <= y
    <3>1. x \in Nat /\ y \in Nat /\ ~(y < x)
      BY <1>2, <2>1
    <3>. QED  BY <3>1
  <2>. QED  BY <2>2
<1>. QED  BY <1>4 DEF Chip!Min

(* A part of a sequence.                                                   *)
LEMMA Part ==
  ASSUME NEW s \in Seq(Nat), NEW m \in 1..Len(s) + 1, NEW n \in (m - 1)..Len(s)
  PROVE  /\ SubSeq(s, m, n) \in Seq(Nat) /\ Len(SubSeq(s, m, n)) = n - m + 1
         /\ \A k \in 1..(n - m + 1) : SubSeq(s, m, n)[k] = s[m + k - 1]
<1>1. m \in Int /\ n \in Int /\ \A k \in m..n : s[k] \in Nat
  BY LenProperties
<1>2. /\ SubSeq(s, m, n) \in Seq(Nat) /\ Len(SubSeq(s, m, n)) = IF m <= n THEN n - m + 1 ELSE 0
      /\ \A k \in 1..(n - m + 1) : SubSeq(s, m, n)[k] = s[m + k - 1]
  BY <1>1, SubSeqProperties
<1>. QED  BY <1>1, <1>2

(* What InsertAt makes.                                                    *)
LEMMA Inserting ==
  ASSUME NEW s \in Seq(Nat), NEW f \in Nat, NEW p \in 1..(Len(s) + 1)
  PROVE  /\ Chip!InsertAt(s, p, f) \in Seq(Nat) /\ Len(Chip!InsertAt(s, p, f)) = Len(s) + 1
         /\ \A k \in 1..(Len(s) + 1) :
              Chip!InsertAt(s, p, f)[k] = IF k < p THEN s[k] ELSE IF k = p THEN f ELSE s[k - 1]
<1>. DEFINE n == Len(s)
            a == SubSeq(s, 1, p - 1)
            b == SubSeq(s, p, n)
            c == a \o <<f>>
<1>0. n \in Nat /\ p \in Nat
  OBVIOUS
<1>1. a \in Seq(Nat) /\ Len(a) = p - 1 /\ \A k \in 1..(p - 1) : a[k] = s[k]
  <2>1. 1 \in 1..Len(s) + 1 /\ p - 1 \in (1 - 1)..Len(s) /\ (p - 1) - 1 + 1 = p - 1
    BY <1>0
  <2>. QED  BY <1>0, <2>1, Part
<1>2. b \in Seq(Nat) /\ Len(b) = n - p + 1 /\ \A k \in 1..(n - p + 1) : b[k] = s[p + k - 1]
  <2>1. p \in 1..Len(s) + 1 /\ n \in (p - 1)..Len(s)
    BY <1>0
  <2>. QED  BY <1>0, <2>1, Part
<1>. HIDE DEF a, b, n
<1>3. c \in Seq(Nat) /\ Len(c) = p /\ c[p] = f /\ \A k \in 1..(p - 1) : c[k] = s[k]
  <2>1. <<f>> \in Seq(Nat) /\ Len(<<f>>) = 1 /\ <<f>>[1] = f
    OBVIOUS
  <2>2. /\ c \in Seq(Nat) /\ Len(c) = Len(a) + Len(<<f>>)
        /\ \A k \in 1..(Len(a) + Len(<<f>>)) : c[k] = IF k <= Len(a) THEN a[k] ELSE <<f>>[k - Len(a)]
    BY <1>1, <2>1, ConcatProperties
  <2>3. Len(a) + Len(<<f>>) = p /\ p - Len(a) = 1 /\ ~(p <= Len(a))
    BY <1>0, <1>1, <2>1
  <2>4. c[p] = f
    BY <1>0, <2>1, <2>2, <2>3
  <2>5. \A k \in 1..(p - 1) : c[k] = s[k]
    BY <1>0, <1>1, <2>2, <2>3
  <2>. QED  BY <2>2, <2>3, <2>4, <2>5
<1>. HIDE DEF c
<1>4. /\ c \o b \in Seq(Nat) /\ Len(c \o b) = n + 1
      /\ \A k \in 1..(n + 1) : (c \o b)[k] = IF k <= p THEN c[k] ELSE b[k - p]
  <2>1. /\ c \o b \in Seq(Nat) /\ Len(c \o b) = Len(c) + Len(b)
        /\ \A k \in 1..(Len(c) + Len(b)) : (c \o b)[k] = IF k <= Len(c) THEN c[k] ELSE b[k - Len(c)]
    BY <1>2, <1>3, ConcatProperties
  <2>2. Len(c) + Len(b) = n + 1 /\ Len(c) = p
    BY <1>0, <1>2, <1>3
  <2>. QED  BY <2>1, <2>2
<1>5. \A k \in 1..(n + 1) : k > p => b[k - p] = s[k - 1]
  <2>. SUFFICES ASSUME NEW k \in 1..(n + 1), k > p PROVE b[k - p] = s[k - 1]
    OBVIOUS
  <2>1. k - p \in 1..(n - p + 1) /\ p + (k - p) - 1 = k - 1
    BY <1>0
  <2>. QED  BY <1>2, <2>1
<1>6. Chip!InsertAt(s, p, f) = c \o b
  BY DEF Chip!InsertAt, c, a, b, n
<1>. DEFINE t == c \o b
<1>. HIDE DEF t
<1>7. \A k \in 1..(n + 1) : t[k] = IF k < p THEN s[k] ELSE IF k = p THEN f ELSE s[k - 1]
  <2>. SUFFICES ASSUME NEW k \in 1..(n + 1)
                PROVE  t[k] = IF k < p THEN s[k] ELSE IF k = p THEN f ELSE s[k - 1]
    OBVIOUS
  <2>1. t[k] = IF k <= p THEN c[k] ELSE b[k - p]
    BY <1>4 DEF t
  <2>2. CASE k < p
    BY <1>0, <1>3, <2>1, <2>2
  <2>3. CASE k = p
    BY <1>0, <1>3, <2>1, <2>3
  <2>4. CASE k > p
    BY <1>0, <1>5, <2>1, <2>4
  <2>. QED  BY <1>0, <2>2, <2>3, <2>4
<1>. QED  BY <1>4, <1>6, <1>7 DEF n, t

(* A frame put into its place.                                             *)
LEMMA Inserted ==
  ASSUME NEW s \in Seq(Nat), NEW f \in Nat
  PROVE  /\ Chip!Insert(s, f) \in Seq(Nat)
         /\ {Chip!Insert(s, f)[k] : k \in DOMAIN Chip!Insert(s, f)} = {s[k] : k \in DOMAIN s} \cup {f}
         /\ Chip!Increasing(s) /\ (\A k \in DOMAIN s : s[k] # f) => Chip!Increasing(Chip!Insert(s, f))
<1>. DEFINE n == Len(s)
            T == {k \in DOMAIN s : s[k] > f} \cup {Len(s) + 1}
            p == Chip!Place(s, f)
            t == Chip!Insert(s, f)
<1>1. n \in Nat /\ DOMAIN s = 1..n /\ \A k \in 1..n : s[k] \in Nat
  OBVIOUS
<1>2. p \in T /\ p \in 1..(n + 1) /\ \A k \in T : p <= k
  <2>1. T \subseteq Nat /\ T # {} /\ T \subseteq 1..(n + 1)
    BY <1>1
  <2>. QED  BY <2>1, Least DEF Chip!Place
<1>3. /\ t \in Seq(Nat) /\ DOMAIN t = 1..(n + 1)
      /\ \A k \in 1..(n + 1) : t[k] = IF k < p THEN s[k] ELSE IF k = p THEN f ELSE s[k - 1]
  <2>1. t = Chip!InsertAt(s, p, f)
    BY DEF Chip!Insert
  <2>2. p \in 1..(Len(s) + 1)
    BY <1>2
  <2>. HIDE DEF t, p
  <2>3. /\ t \in Seq(Nat) /\ Len(t) = Len(s) + 1
        /\ \A k \in 1..(Len(s) + 1) : t[k] = IF k < p THEN s[k] ELSE IF k = p THEN f ELSE s[k - 1]
    <3>1. /\ Chip!InsertAt(s, p, f) \in Seq(Nat) /\ Len(Chip!InsertAt(s, p, f)) = Len(s) + 1
          /\ \A k \in 1..(Len(s) + 1) :
               Chip!InsertAt(s, p, f)[k] = IF k < p THEN s[k] ELSE IF k = p THEN f ELSE s[k - 1]
      BY <2>2, Inserting, Zenon
    <3>. QED  BY <2>1, <3>1, Zenon
  <2>. QED  BY <2>3
<1>. HIDE DEF t, p
<1>4. ASSUME Chip!Increasing(s), \A k \in DOMAIN s : s[k] # f
      PROVE  Chip!Increasing(t)
  <2>4. \A k \in 1..n : k < p => s[k] < f
    <3>. SUFFICES ASSUME NEW k \in 1..n, k < p PROVE s[k] < f
      OBVIOUS
    <3>1. k \notin T
      BY <1>1, <1>2
    <3>2. s[k] # f /\ s[k] \in Nat
      BY <1>1, <1>4
    <3>. QED  BY <1>1, <3>1, <3>2
  <2>5. \A k \in 1..n : p <= k => f < s[k]
    <3>. SUFFICES ASSUME NEW k \in 1..n, p <= k PROVE f < s[k]
      OBVIOUS
    <3>1. p \in 1..n /\ s[p] > f
      BY <1>1, <1>2
    <3>2. p < k => s[p] < s[k]
      BY <1>1, <1>4, <3>1 DEF Chip!Increasing
    <3>. QED  BY <1>1, <3>1, <3>2
  <2>. HIDE DEF T, n
  <2>. SUFFICES ASSUME NEW q \in 1..(n + 1), NEW j \in 1..(n + 1), q < j
                PROVE  t[q] < t[j]
    BY <1>3 DEF Chip!Increasing
  <2>6. CASE j < p
    <3>1. t[q] = s[q] /\ t[j] = s[j] /\ q \in 1..n /\ j \in 1..n
      BY <1>1, <1>2, <1>3, <2>6
    <3>. QED  BY <1>1, <1>4, <3>1 DEF Chip!Increasing
  <2>7. CASE j = p
    BY <1>1, <1>2, <1>3, <2>4, <2>7
  <2>8. CASE j > p /\ q < p
    <3>0. q \in 1..n /\ j - 1 \in 1..n /\ p <= j - 1
      BY <1>1, <1>2, <2>8
    <3>1. s[q] < f /\ f < s[j - 1] /\ s[q] \in Nat /\ s[j - 1] \in Nat
      BY <1>1, <2>4, <2>5, <2>8, <3>0
    <3>2. t[q] = s[q]
      BY <1>3, <2>8
    <3>3. t[j] = s[j - 1]
      BY <1>1, <1>2, <1>3, <2>8
    <3>. QED  BY <3>1, <3>2, <3>3
  <2>9. CASE j > p /\ q = p
    BY <1>1, <1>2, <1>3, <2>5, <2>9
  <2>10. CASE j > p /\ q > p
    <3>0. q - 1 \in 1..n /\ j - 1 \in 1..n /\ q - 1 < j - 1
      BY <1>1, <1>2, <2>10
    <3>1. t[q] = s[q - 1]
      <4>1. ~(q < p) /\ q # p
        BY <1>1, <1>2, <2>10
      <4>. QED  BY <1>3, <4>1, Zenon
    <3>2. t[j] = s[j - 1]
      <4>1. ~(j < p) /\ j # p
        BY <1>1, <1>2, <2>10
      <4>. QED  BY <1>3, <4>1, Zenon
    <3>3. s[q - 1] < s[j - 1]
      BY <1>1, <1>4, <3>0 DEF Chip!Increasing
    <3>. QED  BY <3>1, <3>2, <3>3
  <2>. QED  BY <1>1, <1>2, <2>6, <2>7, <2>8, <2>9, <2>10
<1>. HIDE DEF n, T
<1>5. \A k \in 1..(n + 1) : t[k] \in {s[q] : q \in 1..n} \cup {f}
  <2>. SUFFICES ASSUME NEW k \in 1..(n + 1), k # p PROVE \E q \in 1..n : t[k] = s[q]
    BY <1>2, <1>3
  <2>1. CASE k < p
    BY <1>1, <1>2, <1>3, <2>1
  <2>2. CASE k > p
    <3>1. k - 1 \in 1..n /\ t[k] = s[k - 1]
      BY <1>1, <1>2, <1>3, <2>2
    <3>. QED  BY <3>1
  <2>. QED  BY <1>1, <1>2, <2>1, <2>2
<1>6. \A q \in 1..n : \E k \in 1..(n + 1) : t[k] = s[q]
  <2>. SUFFICES ASSUME NEW q \in 1..n PROVE \E k \in 1..(n + 1) : t[k] = s[q]
    OBVIOUS
  <2>1. CASE q < p
    BY <1>1, <1>2, <1>3, <2>1
  <2>2. CASE q >= p
    <3>1. q + 1 \in 1..(n + 1) /\ ~(q + 1 < p) /\ q + 1 # p /\ (q + 1) - 1 = q
      BY <1>1, <1>2, <2>2
    <3>2. t[q + 1] = s[q]
      BY <1>3, <3>1
    <3>. QED  BY <3>1, <3>2
  <2>. QED  BY <1>1, <1>2, <2>1, <2>2
<1>7. t[p] = f
  BY <1>2, <1>3
<1>8. {t[k] : k \in DOMAIN t} = {s[k] : k \in DOMAIN s} \cup {f}
  <2>1. p \in 1..(n + 1)
    BY <1>2
  <2>2. {t[k] : k \in 1..(n + 1)} = {s[k] : k \in 1..n} \cup {f}
    BY <1>5, <1>6, <1>7, <2>1
  <2>. QED  BY <1>1, <1>3, <2>2
<1>. QED  BY <1>3, <1>4, <1>8 DEF t
(* The levels of the controller, one up and one down.                      *)
LEMMA NextLevel ==
  /\ \A s \in ErrorLevels : s # "busoff" => Chip!Levels[Chip!Level(s) + 1] =
       (CASE s = "active" -> "warning" [] s = "warning" -> "passive" [] s = "passive" -> "busoff")
  /\ \A s \in {"warning", "passive"} : Chip!Levels[Chip!Level(s) - 1] \in ErrorLevels
<1>. DEFINE L == <<"active", "warning", "passive", "busoff">>
<1>1. L[1] = "active" /\ L[2] = "warning" /\ L[3] = "passive" /\ L[4] = "busoff"
  OBVIOUS
<1>2. \A s \in ErrorLevels :
        \/ s = "active" /\ Chip!Level(s) = 1
        \/ s = "warning" /\ Chip!Level(s) = 2
        \/ s = "passive" /\ Chip!Level(s) = 3
        \/ s = "busoff" /\ Chip!Level(s) = 4
  <2>1. \A q \in 1..4 : q = 1 \/ q = 2 \/ q = 3 \/ q = 4
    OBVIOUS
  <2>. HIDE DEF L
  <2>2. \A s : Chip!Level(s) = CHOOSE q \in 1..4 : L[q] = s
    BY DEF Chip!Level, Chip!Levels, L
  <2>3. (CHOOSE q \in 1..4 : L[q] = "active") = 1
    BY <1>1, <2>1
  <2>4. (CHOOSE q \in 1..4 : L[q] = "warning") = 2
    BY <1>1, <2>1
  <2>5. (CHOOSE q \in 1..4 : L[q] = "passive") = 3
    BY <1>1, <2>1
  <2>6. (CHOOSE q \in 1..4 : L[q] = "busoff") = 4
    BY <1>1, <2>1
  <2>7. /\ Chip!Level("active") = 1 /\ Chip!Level("warning") = 2
        /\ Chip!Level("passive") = 3 /\ Chip!Level("busoff") = 4
    BY <2>2, <2>3, <2>4, <2>5, <2>6, Zenon
  <2>8. \A s \in ErrorLevels : s = "active" \/ s = "warning" \/ s = "passive" \/ s = "busoff"
    BY DEF ErrorLevels
  <2>. SUFFICES ASSUME NEW s \in ErrorLevels
                PROVE  \/ s = "active" /\ Chip!Level(s) = 1
                       \/ s = "warning" /\ Chip!Level(s) = 2
                       \/ s = "passive" /\ Chip!Level(s) = 3
                       \/ s = "busoff" /\ Chip!Level(s) = 4
    OBVIOUS
  <2>9. CASE s = "active"
    BY <2>7, <2>9, Zenon
  <2>10. CASE s = "warning"
    BY <2>7, <2>10, Zenon
  <2>11. CASE s = "passive"
    BY <2>7, <2>11, Zenon
  <2>12. CASE s = "busoff"
    BY <2>7, <2>12, Zenon
  <2>. QED  BY <2>8, <2>9, <2>10, <2>11, <2>12
<1>. HIDE DEF L
<1>3. Chip!Levels = L
  BY DEF Chip!Levels, L
<1>4. ASSUME NEW s \in ErrorLevels, s # "busoff"
      PROVE  Chip!Levels[Chip!Level(s) + 1] =
       (CASE s = "active" -> "warning" [] s = "warning" -> "passive" [] s = "passive" -> "busoff")
  BY <1>1, <1>2, <1>3, <1>4
<1>5. ASSUME NEW s \in {"warning", "passive"} PROVE Chip!Levels[Chip!Level(s) - 1] \in ErrorLevels
  BY <1>1, <1>2, <1>3 DEF ErrorLevels
<1>. QED  BY <1>4, <1>5

(* Every step keeps the types.                                             *)
LEMMA TxStepTypes ==
  ASSUME TxTypes, Chip!Next PROVE TxTypes'
<1>. USE DEF TxTypes, Chip!None
<1>1. CASE UNCHANGED Chip!txVars
  BY <1>1 DEF Chip!txVars
<1>2. CASE Chip!StartXmit
  BY <1>2 DEF Chip!StartXmit
<1>3. CASE Chip!Transmit \/ Chip!Recovers
  <2>1. wire' = Append(wire, txmb) /\ UNCHANGED <<given, txmb, echo, echoed>>
    BY <1>3 DEF Chip!Transmit, Chip!Recovers
  <2>2. wire' \in Seq(Nat)
    BY <2>1, AppendProperties
  <2>. QED  BY <2>1, <2>2
<1>4. CASE Chip!TxDone
  <2>1. /\ echoed' = echoed \/ echoed' = Append(echoed, echo)
        /\ txmb' = txmb \/ txmb' = 0
        /\ echo' = echo \/ echo' = 0
        /\ UNCHANGED <<given, wire>>
    BY <1>4 DEF Chip!TxDone, Chip!TxComplete, Chip!EchoBack
  <2>2. Append(echoed, echo) \in Seq(Nat)
    BY AppendProperties
  <2>3. echoed' \in Seq(Nat)
    BY <2>1, <2>2, Zenon
  <2>. QED  BY <2>1, <2>3
<1>5. CASE Chip!SuspendDetach \/ Chip!ResumeAttach
  BY <1>5 DEF Chip!SuspendDetach, Chip!ResumeAttach
<1>6. CASE Chip!Open \/ Chip!Close \/ Chip!Restart \/ Chip!ResumeStart
  BY <1>6 DEF Chip!Open, Chip!Close, Chip!Restart, Chip!ResumeStart, Chip!ChipStart,
     Chip!ChipStartFails, Chip!ResetMailboxes
<1>7. \/ UNCHANGED Chip!txVars \/ Chip!StartXmit \/ Chip!Transmit \/ Chip!Recovers \/ Chip!TxDone
      \/ Chip!SuspendDetach \/ Chip!ResumeAttach
      \/ Chip!Open \/ Chip!Close \/ Chip!Restart \/ Chip!ResumeStart
  BY DEF Chip!Next, Chip!Handler, Chip!Sleeping, Chip!Arrive, Chip!BusError, Chip!IrqEnter, Chip!RxRound,
     Chip!MailboxRead, Chip!RxRoundEnds, Chip!ReadEsr, Chip!IrqState, Chip!IrqFinish, Chip!Poll,
     Chip!SuspendStop, Chip!SuspendMask, Chip!NoirqSuspend, Chip!NoirqResume, Chip!ResumeFromStop
<1>. QED  BY <1>1, <1>2, <1>3, <1>4, <1>5, <1>6, <1>7

LEMMA RxStepTypes ==
  ASSUME RxTypes, IrqTypes, Chip!Next PROVE RxTypes'
<1>. USE DEF RxTypes, Chip!None
<1>1. CASE UNCHANGED Chip!rxVars
  BY <1>1 DEF Chip!rxVars
<1>2. CASE Chip!Arrive
  <2>1. came' = came + 1 /\ UNCHANGED <<irqq, rxq, up>>
    BY <1>2 DEF Chip!Arrive
  <2>2. PICK n : mb' = [mb EXCEPT ![n] = came']
    BY <1>2 DEF Chip!Arrive
  <2>3. came' \in Nat
    BY <2>1
  <2>4. mb' \in [RxMbs -> Nat]
    BY <2>2, <2>3
  <2>. QED  BY <2>1, <2>3, <2>4
<1>3. CASE Chip!MailboxRead
  <2>1. mb' \in [RxMbs -> Nat] /\ UNCHANGED <<came, irqq, rxq, up>>
    BY <1>3 DEF Chip!MailboxRead
  <2>. QED  BY <2>1
<1>4. CASE Chip!RxRoundEnds
  <2>1. irqq' \in Seq(Nat)
    <3>1. irq.batch \in Seq(Nat)
      BY DEF IrqTypes
    <3>2. irqq' = irqq \o irq.batch
      BY <1>4 DEF Chip!RxRoundEnds
    <3>. QED  BY <3>1, <3>2, ConcatProperties
  <2>. QED  BY <1>4, <2>1 DEF Chip!RxRoundEnds
<1>5. CASE Chip!IrqFinish
  <2>1. rxq' \in Seq(Nat) /\ irqq' \in Seq(Nat)
    <3>1. rxq' = rxq \o irqq /\ irqq' = <<>>
      BY <1>5 DEF Chip!IrqFinish
    <3>. QED  BY <3>1, ConcatProperties
  <2>. QED  BY <1>5, <2>1 DEF Chip!IrqFinish
<1>6. CASE Chip!Poll
  <2>1. up' \in Seq(Nat) /\ rxq' \in Seq(Nat)
    BY <1>6 DEF Chip!Poll
  <2>. QED  BY <1>6, <2>1 DEF Chip!Poll
<1>7. CASE Chip!Open \/ Chip!Close \/ Chip!Restart \/ Chip!ResumeStart
  <2>1. Chip!ResetMailboxes
    BY <1>7 DEF Chip!Open, Chip!Close, Chip!Restart, Chip!ResumeStart, Chip!ChipStart, Chip!ChipStartFails
  <2>2. mb' \in [RxMbs -> Nat]
    BY <2>1 DEF Chip!ResetMailboxes, Chip!Empty
  <2>3. came' = came /\ up' = up /\ (irqq' = irqq \/ irqq' = <<>>) /\ (rxq' = rxq \/ rxq' = <<>>)
    BY <1>7 DEF Chip!Open, Chip!Close, Chip!Restart, Chip!ResumeStart
  <2>4. <<>> \in Seq(Nat)
    OBVIOUS
  <2>5. irqq' \in Seq(Nat) /\ rxq' \in Seq(Nat)
    BY <2>3, <2>4, Zenon
  <2>. QED  BY <2>2, <2>3, <2>5
<1>8. \/ UNCHANGED Chip!rxVars \/ Chip!Arrive \/ Chip!MailboxRead \/ Chip!RxRoundEnds
      \/ Chip!IrqFinish \/ Chip!Poll
      \/ Chip!Open \/ Chip!Close \/ Chip!Restart \/ Chip!ResumeStart
  BY DEF Chip!Next, Chip!Handler, Chip!Sleeping, Chip!StartXmit, Chip!Transmit, Chip!BusError,
     Chip!Recovers, Chip!IrqEnter, Chip!RxRound, Chip!TxDone, Chip!ReadEsr, Chip!IrqState,
     Chip!SuspendStop, Chip!SuspendMask, Chip!SuspendDetach, Chip!NoirqSuspend, Chip!NoirqResume,
     Chip!ResumeAttach, Chip!ResumeFromStop
<1>. QED  BY <1>1, <1>2, <1>3, <1>4, <1>5, <1>6, <1>7, <1>8

LEMMA IrqStepTypes ==
  ASSUME RxTypes, IrqTypes, Chip!Next PROVE IrqTypes'
<1>. USE DEF IrqTypes
<1>0. irq' \in [at : Ats, last : States, pending : SUBSET RxMbs, batch : Seq(Nat), seen : States]
  <2>1. CASE UNCHANGED irq
    BY <2>1
  <2>2. CASE Chip!IrqEnter \/ Chip!IrqFinish
    <3>1. Chip!IrqIdle \in [at : Ats, last : States, pending : SUBSET RxMbs, batch : Seq(Nat), seen : States]
      BY DEF Chip!IrqIdle, Ats, States
    <3>2. irq' = Chip!IrqIdle \/ irq' = [Chip!IrqIdle EXCEPT !.at = "rx", !.last = state]
      BY <2>2 DEF Chip!IrqEnter, Chip!IrqFinish
    <3>. QED  BY <3>1, <3>2 DEF Ats
  <2>3. CASE Chip!RxRound
    <3>1. irq' = [irq EXCEPT !.at = "read", !.pending = Chip!Full] \/ irq' = [irq EXCEPT !.at = "tx"]
      BY <2>3 DEF Chip!RxRound
    <3>2. Chip!Full \in SUBSET RxMbs
      BY DEF Chip!Full
    <3>. QED  BY <3>1, <3>2 DEF Ats
  <2>4. CASE Chip!MailboxRead
    <3>. DEFINE n == Chip!Min(irq.pending)
    <3>1. \/ irq' = [irq EXCEPT !.pending = @ \ {n}, !.batch = Chip!Insert(@, mb[n])]
          \/ irq' = [irq EXCEPT !.pending = @ \ {n}]
      BY <2>4 DEF Chip!MailboxRead
    <3>2. irq.pending # {}
      BY <2>4 DEF Chip!MailboxRead
    <3>3. n \in RxMbs
      BY <3>2, Least, ChipAssumption
    <3>4. mb[n] \in Nat
      BY <3>3 DEF RxTypes
    <3>5. Chip!Insert(irq.batch, mb[n]) \in Seq(Nat)
      BY <3>4, Inserted
    <3>. HIDE DEF n
    <3>. QED  BY <3>1, <3>5
  <2>5. CASE Chip!RxRoundEnds
    <3>1. \/ irq' = [irq EXCEPT !.batch = <<>>, !.at = "tx"]
          \/ irq' = [irq EXCEPT !.batch = <<>>, !.at = "rx"]
      BY <2>5 DEF Chip!RxRoundEnds
    <3>2. <<>> \in Seq(Nat)
      OBVIOUS
    <3>. QED  BY <3>1, <3>2 DEF Ats
  <2>6. CASE Chip!TxDone
    <3>1. irq' = [irq EXCEPT !.at = "wake"] \/ irq' = [irq EXCEPT !.at = "esr"]
      BY <2>6 DEF Chip!TxDone, Chip!TxComplete
    <3>. QED  BY <3>1 DEF Ats
  <2>7. CASE Chip!ReadEsr
    <3>1. \/ irq' = [irq EXCEPT !.at = "state", !.seen = hw]
          \/ irq' = [irq EXCEPT !.at = "mask", !.seen = hw]
      BY <2>7 DEF Chip!ReadEsr
    <3>. QED  BY <3>1 DEF Ats, States
  <2>8. CASE Chip!IrqState
    <3>1. irq' = [irq EXCEPT !.at = "mask"]
      BY <2>8 DEF Chip!IrqState
    <3>. QED  BY <3>1 DEF Ats
  <2>9. UNCHANGED irq \/ Chip!Handler
    BY DEF Chip!Next, Chip!Sleeping, Chip!Open, Chip!Close, Chip!StartXmit, Chip!Transmit, Chip!Arrive,
       Chip!BusError, Chip!Recovers, Chip!Poll, Chip!Restart, Chip!SuspendStop, Chip!SuspendMask,
       Chip!SuspendDetach, Chip!NoirqSuspend, Chip!NoirqResume, Chip!ResumeAttach, Chip!ResumeStart,
       Chip!ResumeFromStop
  <2>. QED  BY <2>1, <2>2, <2>3, <2>4, <2>5, <2>6, <2>7, <2>8, <2>9 DEF Chip!Handler
<1>1. hw' \in ErrorLevels
  <2>1. CASE Chip!BusError
    BY <2>1, NextLevel DEF Chip!BusError, ErrorLevels
  <2>2. CASE Chip!Recovers
    BY <2>2, NextLevel DEF Chip!Recovers
  <2>3. hw' = hw \/ hw' = "active" \/ Chip!BusError \/ Chip!Recovers
    BY DEF Chip!Next, Chip!Handler, Chip!Sleeping, Chip!Open, Chip!Close, Chip!StartXmit, Chip!Transmit,
       Chip!Arrive, Chip!Poll, Chip!Restart, Chip!SuspendStop, Chip!SuspendMask, Chip!SuspendDetach,
       Chip!NoirqSuspend, Chip!NoirqResume, Chip!ResumeAttach, Chip!ResumeStart, Chip!ResumeFromStop,
       Chip!IrqEnter, Chip!RxRound, Chip!MailboxRead, Chip!RxRoundEnds, Chip!TxDone, Chip!ReadEsr,
       Chip!IrqState, Chip!IrqFinish, Chip!ChipStart, Chip!ChipStartFails, Chip!errVars
  <2>. QED  BY <2>1, <2>2, <2>3 DEF ErrorLevels
<1>2. state' \in States
  <2>1. state' \in {state, irq.seen, "active", "stopped", "sleeping"}
    BY DEF Chip!Next, Chip!Handler, Chip!Sleeping, Chip!Open, Chip!Close, Chip!StartXmit, Chip!Transmit,
       Chip!Arrive, Chip!BusError, Chip!Recovers, Chip!Poll, Chip!Restart, Chip!SuspendStop,
       Chip!SuspendMask, Chip!SuspendDetach, Chip!NoirqSuspend, Chip!NoirqResume, Chip!ResumeAttach,
       Chip!ResumeStart, Chip!ResumeFromStop, Chip!IrqEnter, Chip!RxRound, Chip!MailboxRead,
       Chip!RxRoundEnds, Chip!TxDone, Chip!ReadEsr, Chip!IrqState, Chip!IrqFinish, Chip!ChipStart,
       Chip!errVars
  <2>. QED  BY <2>1 DEF States, ErrorLevels
<1>. QED  BY <1>0, <1>1, <1>2

(* So does the step as a whole.                                            *)
LEMMA ChipStepTypes ==
  ASSUME ChipTypes, Chip!Next PROVE ChipTypes'
<1>1. UNCHANGED Chip!fixed
  BY DEF Chip!Next, Chip!Handler, Chip!Sleeping, Chip!Open, Chip!Close, Chip!StartXmit, Chip!Transmit,
       Chip!Arrive, Chip!BusError, Chip!Recovers, Chip!Poll, Chip!Restart, Chip!SuspendStop,
       Chip!SuspendMask, Chip!SuspendDetach, Chip!NoirqSuspend, Chip!NoirqResume, Chip!ResumeAttach,
       Chip!ResumeStart, Chip!ResumeFromStop, Chip!IrqEnter, Chip!RxRound, Chip!MailboxRead,
       Chip!RxRoundEnds, Chip!TxDone, Chip!ReadEsr, Chip!IrqState, Chip!IrqFinish
<1>. QED  BY <1>1, TxStepTypes, RxStepTypes, IrqStepTypes DEF ChipTypes, Chip!fixed

(***************************************************************************)
(* The steps of the handler, each with the fields of irq it leaves behind.  *)
(***************************************************************************)
SameIrq == irq'.last = irq.last /\ irq'.seen = irq.seen
SameRound == irq'.pending = irq.pending /\ irq'.batch = irq.batch
SameTx == UNCHANGED <<queue, txmb, txflag, echo, echoed>>
LEMMA IrqMoves ==
  ASSUME IrqTypes
  PROVE  /\ Chip!IrqEnter => /\ irq'.at = "rx" /\ irq'.last = state
                             /\ irq'.pending = {} /\ irq'.batch = <<>>
         /\ Chip!RxRound =>
              /\ irq.at = "rx" /\ SameIrq /\ irq'.batch = irq.batch
              /\ \/ Chip!Full # {} /\ irq'.at = "read" /\ irq'.pending = Chip!Full
                 \/ Chip!Full = {} /\ irq'.at = "tx" /\ irq'.pending = irq.pending
         /\ Chip!MailboxRead =>
              /\ irq.at = "read" /\ irq'.at = "read" /\ SameIrq
              /\ irq'.pending = irq.pending \ {Chip!Min(irq.pending)}
              /\ \/ irq'.batch = Chip!Insert(irq.batch, mb[Chip!Min(irq.pending)]) /\ UNCHANGED counted
                 \/ irq'.batch = irq.batch /\ counted'
         /\ Chip!RxRoundEnds =>
              /\ irq.at = "read" /\ irq.pending = {} /\ SameIrq /\ irq'.pending = {} /\ irq'.batch = <<>>
              /\ irq'.at = "tx" \/ irq'.at = "rx"
         /\ Chip!TxDone =>
              /\ SameIrq /\ SameRound
              /\ \/ irq.at = "tx" /\ txflag /\ irq'.at = "wake"
                 \/ irq.at = "tx" /\ ~txflag /\ irq'.at = "esr" /\ SameTx
                 \/ irq.at = "wake" /\ irq'.at = "esr"
         /\ Chip!ReadEsr =>
              /\ irq.at = "esr" /\ SameRound /\ irq'.last = irq.last /\ irq'.seen = hw
              /\ irq'.at = IF werr \/ Chip!PerrBroken \/ Chip!WerrBroken THEN "state" ELSE "mask"
         /\ Chip!IrqState => irq.at = "state" /\ irq'.at = "mask" /\ SameIrq /\ SameRound
         /\ Chip!IrqFinish =>
              irq.at = "mask" /\ irq'.at = "idle" /\ irq'.pending = {} /\ irq'.batch = <<>>
<1>. USE DEF IrqTypes, SameIrq, SameRound, SameTx
<1>1. ASSUME Chip!IrqEnter
      PROVE  irq'.at = "rx" /\ irq'.last = state /\ irq'.pending = {} /\ irq'.batch = <<>>
  <2>1. irq' = [Chip!IrqIdle EXCEPT !.at = "rx", !.last = state]
    BY <1>1 DEF Chip!IrqEnter
  <2>. QED  BY <2>1 DEF Chip!IrqIdle
<1>2. ASSUME Chip!RxRound
      PROVE  /\ irq.at = "rx" /\ SameIrq /\ irq'.batch = irq.batch
             /\ \/ Chip!Full # {} /\ irq'.at = "read" /\ irq'.pending = Chip!Full
                \/ Chip!Full = {} /\ irq'.at = "tx" /\ irq'.pending = irq.pending
  <2>1. /\ irq.at = "rx"
        /\ \/ Chip!Full # {} /\ irq' = [irq EXCEPT !.at = "read", !.pending = Chip!Full]
           \/ Chip!Full = {} /\ irq' = [irq EXCEPT !.at = "tx"]
    BY <1>2 DEF Chip!RxRound
  <2>. QED  BY <2>1
<1>3. ASSUME Chip!MailboxRead
      PROVE  /\ irq.at = "read" /\ irq'.at = "read" /\ SameIrq
             /\ irq'.pending = irq.pending \ {Chip!Min(irq.pending)}
             /\ \/ irq'.batch = Chip!Insert(irq.batch, mb[Chip!Min(irq.pending)]) /\ UNCHANGED counted
                \/ irq'.batch = irq.batch /\ counted'
  <2>. DEFINE n == Chip!Min(irq.pending)
              b == Chip!Insert(irq.batch, mb[n])
  <2>1. /\ irq.at = "read"
        /\ \/ irq' = [irq EXCEPT !.pending = @ \ {n}, !.batch = b] /\ UNCHANGED counted
           \/ irq' = [irq EXCEPT !.pending = @ \ {n}] /\ counted'
    BY <1>3 DEF Chip!MailboxRead
  <2>. HIDE DEF n, b
  <2>2. /\ irq'.at = irq.at /\ SameIrq /\ irq'.pending = irq.pending \ {n}
        /\ \/ irq'.batch = b /\ UNCHANGED counted
           \/ irq'.batch = irq.batch /\ counted'
    BY <2>1
  <2>. QED  BY <2>1, <2>2 DEF n, b
<1>4. ASSUME Chip!RxRoundEnds
      PROVE  /\ irq.at = "read" /\ irq.pending = {} /\ SameIrq /\ irq'.pending = {} /\ irq'.batch = <<>>
             /\ irq'.at = "tx" \/ irq'.at = "rx"
  <2>1. /\ irq.at = "read" /\ irq.pending = {}
        /\ \/ irq' = [irq EXCEPT !.batch = <<>>, !.at = "tx"]
           \/ irq' = [irq EXCEPT !.batch = <<>>, !.at = "rx"]
    BY <1>4 DEF Chip!RxRoundEnds
  <2>. QED  BY <2>1
<1>5. ASSUME Chip!TxDone
      PROVE  /\ SameIrq /\ SameRound
             /\ \/ irq.at = "tx" /\ txflag /\ irq'.at = "wake"
                \/ irq.at = "tx" /\ ~txflag /\ irq'.at = "esr" /\ SameTx
                \/ irq.at = "wake" /\ irq'.at = "esr"
  <2>1. \/ irq.at = "tx" /\ txflag /\ irq' = [irq EXCEPT !.at = "wake"]
        \/ /\ irq.at = "tx" /\ ~txflag /\ irq' = [irq EXCEPT !.at = "esr"]
           /\ UNCHANGED <<queue, txmb, txflag, echo, echoed>>
        \/ irq.at = "wake" /\ irq' = [irq EXCEPT !.at = "esr"]
    BY <1>5 DEF Chip!TxDone, Chip!TxComplete
  <2>. QED  BY <2>1
<1>6. ASSUME Chip!ReadEsr
      PROVE  /\ irq.at = "esr" /\ SameRound /\ irq'.last = irq.last /\ irq'.seen = hw
             /\ irq'.at = IF werr \/ Chip!PerrBroken \/ Chip!WerrBroken THEN "state" ELSE "mask"
  <2>. DEFINE a == IF werr \/ Chip!PerrBroken \/ Chip!WerrBroken THEN "state" ELSE "mask"
  <2>1. irq.at = "esr" /\ irq' = [irq EXCEPT !.at = a, !.seen = hw]
    BY <1>6 DEF Chip!ReadEsr
  <2>. HIDE DEF a
  <2>2. SameRound /\ irq'.last = irq.last /\ irq'.seen = hw /\ irq'.at = a
    BY <2>1
  <2>. QED  BY <2>1, <2>2 DEF a
<1>7. ASSUME Chip!IrqState
      PROVE  irq.at = "state" /\ irq'.at = "mask" /\ SameIrq /\ SameRound
  <2>1. irq.at = "state" /\ irq' = [irq EXCEPT !.at = "mask"]
    BY <1>7 DEF Chip!IrqState
  <2>. QED  BY <2>1
<1>8. ASSUME Chip!IrqFinish
      PROVE  irq.at = "mask" /\ irq'.at = "idle" /\ irq'.pending = {} /\ irq'.batch = <<>>
  <2>1. irq.at = "mask" /\ irq' = Chip!IrqIdle
    BY <1>8 DEF Chip!IrqFinish
  <2>. QED  BY <2>1 DEF Chip!IrqIdle
<1>. QED  BY <1>1, <1>2, <1>3, <1>4, <1>5, <1>6, <1>7, <1>8

(* Membership in a sequence, and what appending changes of it.             *)
In(x, s) == \E k \in DOMAIN s : s[k] = x
LEMMA Appended ==
  ASSUME NEW s \in Seq(Nat), NEW f \in Nat
  PROVE  /\ Append(s, f) \in Seq(Nat)
         /\ \A x : In(x, Append(s, f)) <=> In(x, s) \/ x = f
         /\ Chip!Increasing(s) /\ (\A x \in Nat : In(x, s) => x < f) => Chip!Increasing(Append(s, f))
<1>. DEFINE t == Append(s, f)
            n == Len(s)
<1>1. /\ t \in Seq(Nat) /\ n \in Nat /\ DOMAIN s = 1..n /\ DOMAIN t = 1..(n + 1)
      /\ t[n + 1] = f /\ \A k \in 1..n : t[k] = s[k] /\ s[k] \in Nat
  BY AppendProperties
<1>. HIDE DEF t, n
<1>2. ASSUME NEW x PROVE In(x, t) <=> In(x, s) \/ x = f
  <2>1. \A k \in 1..(n + 1) : k \in 1..n \/ k = n + 1
    BY <1>1
  <2>2. 1..n \subseteq 1..(n + 1) /\ n + 1 \in 1..(n + 1)
    BY <1>1
  <2>. QED  BY <1>1, <2>1, <2>2 DEF In
<1>3. ASSUME Chip!Increasing(s), \A x \in Nat : In(x, s) => x < f PROVE Chip!Increasing(t)
  <2>. SUFFICES ASSUME NEW q \in 1..(n + 1), NEW j \in 1..(n + 1), q < j PROVE t[q] < t[j]
    BY <1>1 DEF Chip!Increasing
  <2>1. q \in 1..n /\ t[q] = s[q]
    BY <1>1
  <2>2. CASE j = n + 1
    <3>1. In(s[q], s) /\ s[q] \in Nat
      BY <1>1, <2>1 DEF In
    <3>. QED  BY <1>1, <1>3, <2>1, <2>2, <3>1
  <2>3. CASE j \in 1..n
    BY <1>1, <1>3, <2>1, <2>3 DEF Chip!Increasing
  <2>. QED  BY <1>1, <2>2, <2>3
<1>. QED  BY <1>1, <1>2, <1>3 DEF t

(***************************************************************************)
(* The transmit side.  Who may touch the one mailbox: while it holds a      *)
(* frame that no failed call has cut off, the queue is off, the system      *)
(* awake, the interface open, and the frame is in the echo slot; between    *)
(* the completion and the waking of the queue nobody can fill it.           *)
(***************************************************************************)
EchoPlace ==
  /\ txflag => txmb # 0
  /\ ~open => irq.at = "idle" /\ queue = "off" /\ txmb = 0
  /\ ~cut =>
      /\ echo = txmb
      /\ queue = "on" => txmb = 0
      /\ sleep # "awake" => txmb = 0
      /\ irq.at = "wake" => /\ txmb = 0
                            /\ sleep = "awake" => queue # "on"
                            /\ sleep \notin {"asleep", "resume", "start"}
(* What was echoed was sent, once and in order, and is older than the frame *)
(* in the mailbox.                                                          *)
EchoOrder ==
  /\ txmb <= given
  /\ ~cut =>
      /\ \A x \in Nat : In(x, echoed) => x <= given
      /\ txflag => In(txmb, wire)
      /\ \A x \in Nat : In(x, echoed) => In(x, wire)
      /\ Chip!Increasing(echoed)
      /\ txmb # 0 => \A x \in Nat : In(x, echoed) => x < txmb

LEMMA EchoPlaceStep ==
  ASSUME TxTypes, IrqTypes, EchoPlace, Chip!Next PROVE EchoPlace'
<1>. USE DEF TxTypes, IrqTypes, EchoPlace, Chip!None
<1>1. CASE Chip!Open \/ Chip!Close
  BY <1>1 DEF Chip!Open, Chip!Close, Chip!ChipStart, Chip!ResetMailboxes, Chip!tally, Chip!IrqIdle
<1>2. CASE Chip!StartXmit
  <2>1. /\ open /\ queue = "on" /\ queue' = "off" /\ txmb' = given'
        /\ echo' = (IF echo = 0 THEN given' ELSE echo) /\ UNCHANGED <<open, sleep, irq, txflag>>
    BY <1>2 DEF Chip!StartXmit, Chip!powerVars
  <2>2. ~cut' => ~cut /\ sleep = "awake"
    BY <1>2 DEF Chip!StartXmit
  <2>3. given' = given + 1 /\ given \in Nat
    BY <1>2 DEF Chip!StartXmit
  <2>. QED  BY <2>1, <2>2, <2>3
<1>3. CASE Chip!Transmit \/ Chip!Recovers
  BY <1>3 DEF Chip!Transmit, Chip!Recovers, Chip!powerVars, Chip!tally
<1>4. CASE Chip!Arrive \/ Chip!BusError \/ Chip!Poll
  BY <1>4 DEF Chip!Arrive, Chip!BusError, Chip!Poll, Chip!txVars, Chip!powerVars, Chip!tally
<1>5. CASE Chip!IrqEnter \/ Chip!IrqFinish \/ Chip!RxRound \/ Chip!RxRoundEnds \/ Chip!MailboxRead
           \/ Chip!ReadEsr \/ Chip!IrqState
  <2>1. irq'.at # "wake" /\ UNCHANGED <<txmb, txflag, echo, queue, open, sleep, cut>>
    BY <1>5, IrqMoves DEF Chip!IrqEnter, Chip!IrqFinish, Chip!RxRound, Chip!RxRoundEnds,
       Chip!MailboxRead, Chip!ReadEsr, Chip!IrqState, Chip!txVars, Chip!powerVars, Chip!tally
  <2>2. open
    BY <1>5, IrqMoves DEF Chip!IrqEnter
  <2>. QED  BY <2>1, <2>2
<1>6. CASE Chip!TxDone
  <2>1. UNCHANGED <<open, sleep, cut>>
    BY <1>6 DEF Chip!TxDone, Chip!powerVars, Chip!tally
  <2>2. CASE irq.at = "tx" /\ txflag
    <3>1. irq'.at = "wake" /\ txmb' = 0 /\ txflag' = FALSE /\ echo' = 0 /\ queue' = queue
      BY <1>6, <2>2, IrqMoves DEF Chip!TxDone, Chip!TxComplete, Chip!EchoBack
    <3>. QED  BY <2>1, <2>2, <3>1
  <2>3. CASE irq.at = "tx" /\ ~txflag
    BY <1>6, <2>1, <2>3, IrqMoves DEF SameTx
  <2>4. CASE irq.at = "wake"
    <3>1. irq'.at = "esr" /\ queue' = "on" /\ UNCHANGED <<txmb, txflag, echo>>
      BY <1>6, <2>4, IrqMoves DEF Chip!TxDone, Chip!TxComplete
    <3>. QED  BY <2>1, <2>4, <3>1
  <2>. QED  BY <1>6, <2>2, <2>3, <2>4, IrqMoves
<1>10. CASE Chip!Restart
  BY <1>10 DEF Chip!Restart, Chip!ChipStart, Chip!ChipStartFails, Chip!ResetMailboxes
<1>11. CASE Chip!SuspendStop \/ Chip!SuspendMask \/ Chip!SuspendDetach \/ Chip!NoirqSuspend
  <2>1. irq' = irq /\ open' = open /\ UNCHANGED <<txmb, txflag, echo>> /\ (cut => cut')
    BY <1>11 DEF Chip!SuspendStop, Chip!SuspendMask, Chip!SuspendDetach, Chip!NoirqSuspend, Chip!txVars,
       Chip!tally
  <2>2. queue' = queue \/ queue' = "off"
    BY <1>11 DEF Chip!SuspendStop, Chip!SuspendMask, Chip!SuspendDetach, Chip!NoirqSuspend, Chip!txVars
  <2>3. sleep' = "asleep" => irq.at = "idle"
    BY <1>11 DEF Chip!SuspendStop, Chip!SuspendMask, Chip!SuspendDetach, Chip!NoirqSuspend
  <2>4. sleep' \notin {"resume", "start"} \/ sleep' = sleep
    BY <1>11 DEF Chip!SuspendStop, Chip!SuspendMask, Chip!SuspendDetach, Chip!NoirqSuspend
  <2>5. ~cut' => (sleep' = "awake" => sleep = "awake") /\ (sleep' # "awake" => txmb = 0)
    BY <1>11 DEF Chip!SuspendStop, Chip!SuspendMask, Chip!SuspendDetach, Chip!NoirqSuspend,
       Chip!txVars, Chip!tally
  <2>. QED  BY <2>1, <2>2, <2>3, <2>4, <2>5
<1>12. CASE Chip!NoirqResume \/ Chip!ResumeAttach \/ Chip!ResumeStart \/ Chip!ResumeFromStop
  BY <1>12 DEF Chip!NoirqResume, Chip!ResumeAttach, Chip!ResumeStart, Chip!ResumeFromStop, Chip!txVars,
     Chip!tally, Chip!ChipStart, Chip!ChipStartFails, Chip!ResetMailboxes
<1>. QED
  BY <1>1, <1>2, <1>3, <1>4, <1>5, <1>6, <1>10, <1>11, <1>12
     DEF Chip!Next, Chip!Handler, Chip!Sleeping

LEMMA EchoOrderStep ==
  ASSUME TxTypes, EchoPlace, EchoOrder, Chip!Next PROVE EchoOrder'
<1>. USE DEF EchoOrder, Chip!None
<1>0. given \in Nat /\ txmb \in Nat /\ echo \in Nat /\ wire \in Seq(Nat) /\ echoed \in Seq(Nat)
  BY DEF TxTypes
<1>1. cut => cut'
  BY DEF Chip!Next, Chip!Handler, Chip!Sleeping, Chip!Open, Chip!Close, Chip!StartXmit, Chip!Transmit,
     Chip!Arrive, Chip!BusError, Chip!Recovers, Chip!Poll, Chip!Restart, Chip!SuspendStop,
     Chip!SuspendMask, Chip!SuspendDetach, Chip!NoirqSuspend, Chip!NoirqResume, Chip!ResumeAttach,
     Chip!ResumeStart, Chip!ResumeFromStop, Chip!IrqEnter, Chip!RxRound, Chip!MailboxRead,
     Chip!RxRoundEnds, Chip!TxDone, Chip!ReadEsr, Chip!IrqState, Chip!IrqFinish, Chip!tally
<1>2. CASE /\ UNCHANGED <<given, wire, echoed>>
           /\ UNCHANGED <<txmb, txflag>> \/ (txmb' = 0 /\ txflag' = FALSE)
  BY <1>0, <1>1, <1>2
<1>3. CASE Chip!StartXmit
  <2>1. /\ given' = given + 1 /\ txmb' = given' /\ queue = "on"
        /\ UNCHANGED <<txflag, wire, echoed>>
    BY <1>3 DEF Chip!StartXmit
  <2>2. ~cut => ~txflag
    BY <2>1 DEF EchoPlace
  <2>. QED  BY <1>0, <1>1, <2>1, <2>2
<1>4. CASE Chip!Transmit \/ Chip!Recovers
  <2>1. wire' = Append(wire, txmb) /\ UNCHANGED <<given, txmb, echoed, cut>>
    BY <1>4 DEF Chip!Transmit, Chip!Recovers, Chip!tally
  <2>2. \A x : In(x, wire') <=> In(x, wire) \/ x = txmb
    BY <1>0, <2>1, Appended
  <2>. QED  BY <1>0, <2>1, <2>2
<1>5. CASE Chip!TxDone
  <2>1. UNCHANGED <<given, wire, cut>>
    BY <1>5 DEF Chip!TxDone, Chip!tally
  <2>2. CASE UNCHANGED <<txmb, txflag, echoed>>
    BY <2>1, <2>2
  <2>3. CASE txflag /\ echo = 0 /\ echoed' = echoed /\ txmb' = 0 /\ txflag' = FALSE
    BY <1>0, <2>1, <2>3
  <2>4. CASE /\ txflag /\ echo # 0 /\ echoed' = Append(echoed, echo)
             /\ txmb' = 0 /\ txflag' = FALSE
    <3>1. \A x : In(x, echoed') <=> In(x, echoed) \/ x = echo
      BY <1>0, <2>4, Appended
    <3>2. (\A x \in Nat : In(x, echoed) => x < echo) /\ Chip!Increasing(echoed)
            => Chip!Increasing(echoed')
      BY <1>0, <2>4, Appended
    <3>3. txmb # 0 /\ (~cut => echo = txmb)
      BY <2>4 DEF EchoPlace
    <3>. HIDE DEF EchoOrder
    <3>. QED  BY <1>0, <2>1, <2>4, <3>1, <3>2, <3>3 DEF EchoOrder
  <2>. QED  BY <1>5, <2>2, <2>3, <2>4 DEF Chip!TxDone, Chip!TxComplete, Chip!EchoBack
<1>6. \/ Chip!StartXmit \/ Chip!Transmit \/ Chip!Recovers \/ Chip!TxDone
      \/ /\ UNCHANGED <<given, wire, echoed>>
         /\ UNCHANGED <<txmb, txflag>> \/ (txmb' = 0 /\ txflag' = FALSE)
  BY DEF Chip!Next, Chip!Handler, Chip!Sleeping, Chip!Open, Chip!Close,
     Chip!Arrive, Chip!BusError, Chip!Poll, Chip!Restart, Chip!SuspendStop,
     Chip!SuspendMask, Chip!SuspendDetach, Chip!NoirqSuspend, Chip!NoirqResume, Chip!ResumeAttach,
     Chip!ResumeStart, Chip!ResumeFromStop, Chip!IrqEnter, Chip!RxRound, Chip!MailboxRead,
     Chip!RxRoundEnds, Chip!ReadEsr, Chip!IrqState, Chip!IrqFinish, Chip!txVars, Chip!ChipStart,
     Chip!ChipStartFails, Chip!ResetMailboxes
<1>. QED  BY <1>2, <1>3, <1>4, <1>5, <1>6

(***************************************************************************)
(* The error states.  Mask(s): whether the bus error interrupt has to be on *)
(* for a driver that believes in level s.  A level the driver believes in   *)
(* or is about to believe in is either right or contradicted by a flag that *)
(* raises the interrupt: its completion of a frame, the warning and bus off *)
(* flag, or an error while the bus error interrupt is on.                   *)
(***************************************************************************)
Mask(s) == Chip!Reporting \/ Chip!ErrMskFor(s)
Base == IF irq.at = "idle" THEN state ELSE irq.last
Noted(s) == s = hw \/ werr \/ txflag \/ (err /\ Mask(s))
Masking ==
  /\ ~open => irq.at = "idle" /\ masked
  /\ load.wakes => ~Chip!WerrBroken
  /\ sleep = "mask" => open /\ ~load.wakes
  /\ sleep = "start" => open
  /\ ~load.wakes /\ sleep \in {"detach", "noirq", "asleep", "resume", "start"} => masked
  /\ ~load.wakes /\ sleep \in {"asleep", "resume", "start"} => irq.at = "idle"
  /\ open /\ ~cut /\ (sleep \in {"awake", "mask"} \/ load.wakes) => ~masked
Errors ==
  /\ ~masked => (Mask(Base) => errmsk)
  /\ irq.at = "state" => Noted(irq.seen)
  /\ open /\ ~cut /\ sleep = "awake" /\ irq.at \in {"idle", "mask"} /\ ~missed => Noted(state)

(* The case under way, and with it its quirks, stays.                      *)
LEMMA CaseStays ==
  ASSUME Chip!Next PROVE load' = load /\ quirk' = quirk
BY DEF Chip!Next, Chip!Handler, Chip!Sleeping, Chip!Open, Chip!Close, Chip!StartXmit, Chip!Transmit,
     Chip!Arrive, Chip!BusError, Chip!Recovers, Chip!Poll, Chip!Restart, Chip!SuspendStop,
     Chip!SuspendMask, Chip!SuspendDetach, Chip!NoirqSuspend, Chip!NoirqResume, Chip!ResumeAttach,
     Chip!ResumeStart, Chip!ResumeFromStop, Chip!IrqEnter, Chip!RxRound, Chip!MailboxRead,
     Chip!RxRoundEnds, Chip!TxDone, Chip!ReadEsr, Chip!IrqState, Chip!IrqFinish, Chip!fixed

LEMMA MaskingStep ==
  ASSUME IrqTypes, Masking, Chip!Next PROVE Masking'
<1>. USE DEF Masking
<1>0. load' = load /\ (Chip!WerrBroken' <=> Chip!WerrBroken)
  BY CaseStays DEF Chip!WerrBroken
<1>1. CASE Chip!Open \/ Chip!Close \/ Chip!Restart
  BY <1>0, <1>1 DEF Chip!Open, Chip!Close, Chip!Restart, Chip!ChipStart, Chip!ChipStartFails,
     Chip!InterruptsDisable, Chip!tally
<1>2. CASE UNCHANGED <<open, masked, sleep, irq, cut>>
  BY <1>0, <1>2
<1>3. CASE Chip!Handler
  <2>1. UNCHANGED <<open, masked, sleep, cut>>
    BY <1>3 DEF Chip!Handler, Chip!IrqEnter, Chip!IrqFinish, Chip!RxRound, Chip!RxRoundEnds,
       Chip!MailboxRead, Chip!TxDone, Chip!ReadEsr, Chip!IrqState, Chip!powerVars, Chip!tally
  <2>2. CASE Chip!IrqEnter
    <3>1. open /\ ~masked
      BY <2>2 DEF Chip!IrqEnter, Chip!Raised
    <3>. QED  BY <1>0, <2>1, <3>1
  <2>3. CASE ~Chip!IrqEnter
    <3>1. irq.at # "idle"
      BY <1>3, <2>3, IrqMoves DEF Chip!Handler
    <3>. QED  BY <1>0, <2>1, <3>1
  <2>. QED  BY <2>2, <2>3
<1>4. CASE Chip!SuspendStop
  BY <1>0, <1>4 DEF Chip!SuspendStop
<1>5. CASE Chip!SuspendMask
  BY <1>0, <1>5 DEF Chip!SuspendMask, Chip!InterruptsDisable
<1>6. CASE Chip!SuspendDetach \/ Chip!NoirqSuspend
  BY <1>0, <1>6 DEF Chip!SuspendDetach, Chip!NoirqSuspend, Chip!tally
<1>7. CASE Chip!NoirqResume \/ Chip!ResumeAttach
  BY <1>0, <1>7 DEF Chip!NoirqResume, Chip!ResumeAttach, Chip!tally
<1>8. CASE Chip!ResumeStart \/ Chip!ResumeFromStop
  BY <1>0, <1>8 DEF Chip!ResumeStart, Chip!ResumeFromStop, Chip!ChipStart, Chip!ChipStartFails
<1>9. Chip!Transmit \/ Chip!Arrive \/ Chip!BusError \/ Chip!Recovers \/ Chip!Poll
        => UNCHANGED <<open, masked, sleep, irq, cut>>
  BY DEF Chip!Transmit, Chip!Arrive, Chip!BusError, Chip!Recovers, Chip!Poll, Chip!powerVars, Chip!tally
<1>10. CASE Chip!StartXmit
  <2>1. UNCHANGED <<open, masked, sleep, irq>> /\ (~cut' => ~cut)
    BY <1>10 DEF Chip!StartXmit, Chip!powerVars
  <2>. QED  BY <1>0, <2>1
<1>. QED
  BY <1>1, <1>2, <1>3, <1>4, <1>5, <1>6, <1>7, <1>8, <1>9, <1>10 DEF Chip!Next, Chip!Sleeping

LEMMA ErrorsStep ==
  ASSUME ChipTypes, Masking, Errors, Chip!Next PROVE Errors'
<1>. USE DEF Errors, Base, Noted
<1>0. /\ load' = load
      /\ \A s : Mask(s)' <=> Mask(s)
      /\ Mask("active") <=> Chip!DefaultErrMsk
      /\ Mask("warning") /\ (Mask("stopped") <=> Chip!Reporting) /\ (Mask("sleeping") <=> Chip!Reporting)
      /\ \A s : Chip!Reporting => Mask(s)
      /\ Chip!PerrBroken
  <2>1. quirk[1] = TRUE
    BY ChipAssumption DEF ChipTypes
  <2>. QED
    BY <2>1, CaseStays DEF Mask, Chip!ErrMskFor, Chip!Reporting, Chip!WerrBroken, Chip!DefaultErrMsk,
       Chip!PerrBroken
<1>. HIDE DEF Errors
<1>1. CASE Chip!Open \/ Chip!Restart \/ Chip!ResumeStart
  <2>1. CASE Chip!ChipStart
    <3>1. /\ irq' = irq /\ irq.at = "idle" /\ state' = hw' /\ state' = "active"
          /\ errmsk' <=> Chip!DefaultErrMsk
      BY <1>1, <2>1 DEF Chip!Open, Chip!Restart, Chip!ResumeStart, Chip!ChipStart, Masking
    <3>. QED  BY <1>0, <3>1 DEF Errors
  <2>2. CASE Chip!ChipStartFails
    <3>1. irq' = irq /\ irq.at = "idle" /\ masked' /\ cut'
      BY <1>1, <2>2 DEF Chip!Open, Chip!Restart, Chip!ResumeStart, Chip!ChipStart, Chip!ChipStartFails,
         Masking
    <3>. QED  BY <1>0, <3>1 DEF Errors
  <2>. QED  BY <1>1, <2>1, <2>2 DEF Chip!Open, Chip!Restart, Chip!ResumeStart
<1>2. CASE Chip!Close
  BY <1>0, <1>2 DEF Errors, Chip!Close, Chip!InterruptsDisable
<1>3. CASE UNCHANGED <<open, masked, sleep, irq, cut, state, hw, werr, txflag, err, errmsk, missed>>
  BY <1>0, <1>3 DEF Errors
<1>4. CASE Chip!Transmit \/ Chip!Recovers
  <2>1. txflag' = TRUE /\ UNCHANGED <<open, masked, sleep, irq, cut, state, errmsk, missed>>
    BY <1>4 DEF Chip!Transmit, Chip!Recovers, Chip!powerVars, Chip!tally, Chip!errVars
  <2>. QED  BY <1>0, <2>1 DEF Errors
<1>5. CASE Chip!BusError
  <2>1. err' = TRUE /\ UNCHANGED <<open, masked, sleep, irq, cut, state, errmsk, missed, txflag>>
    BY <1>5 DEF Chip!BusError, Chip!powerVars, Chip!txVars
  <2>2. \/ hw = "active" /\ hw' = "warning"
        \/ hw = "warning" /\ hw' = "passive"
        \/ hw = "passive" /\ hw' = "busoff"
    BY <1>5, NextLevel DEF Chip!BusError, ChipTypes, IrqTypes, ErrorLevels
  <2>3. (werr => werr') /\ (hw' = "busoff" => werr') /\ (hw' = "warning" /\ ~Chip!WerrBroken => werr')
    BY <1>5 DEF Chip!BusError
  <2>4. Chip!WerrBroken => Mask("active")
    BY <1>0 DEF Chip!DefaultErrMsk
  <2>5. \A s \in States : Noted(s) => Noted(s)'
    BY <1>0, <2>1, <2>2, <2>3, <2>4
  <2>6. state \in States /\ irq.seen \in States
    BY DEF ChipTypes, IrqTypes
  <2>. QED  BY <1>0, <2>1, <2>5, <2>6 DEF Errors
<1>6. CASE Chip!IrqEnter
  <2>1. /\ irq'.at = "rx" /\ irq'.last = state /\ irq.at = "idle"
        /\ UNCHANGED <<open, masked, state, errmsk>>
    BY <1>6, IrqMoves DEF Chip!IrqEnter, Chip!powerVars, Chip!errVars, ChipTypes
  <2>. QED  BY <1>0, <2>1 DEF Errors
<1>7. CASE Chip!RxRound \/ Chip!RxRoundEnds \/ Chip!MailboxRead \/ Chip!TxDone
  <2>1. /\ irq'.at \notin {"idle", "mask", "state"} /\ irq'.last = irq.last /\ irq.at # "idle"
        /\ UNCHANGED <<masked, state, errmsk>>
    BY <1>7, IrqMoves DEF Chip!RxRound, Chip!RxRoundEnds, Chip!MailboxRead, Chip!TxDone, Chip!powerVars,
       Chip!errVars, ChipTypes, SameIrq
  <2>. QED  BY <1>0, <2>1 DEF Errors
<1>8. CASE Chip!ReadEsr
  <2>1. /\ irq'.at = "state" /\ irq'.last = irq.last /\ irq.at # "idle" /\ irq'.seen = hw
        /\ UNCHANGED <<masked, state, errmsk, hw>>
    BY <1>0, <1>8, IrqMoves DEF Chip!ReadEsr, Chip!powerVars, ChipTypes
  <2>. QED  BY <1>0, <2>1 DEF Errors
<1>9. CASE Chip!IrqState
  <2>1. /\ irq.at = "state" /\ irq'.at = "mask" /\ irq'.last = irq.last
        /\ UNCHANGED <<open, sleep, masked, errmsk, hw, werr, err, txflag>>
    BY <1>9, IrqMoves DEF Chip!IrqState, Chip!powerVars, Chip!txVars, ChipTypes, SameIrq
  <2>2. state' = irq.seen \/ missed'
    BY <1>9 DEF Chip!IrqState
  <2>. QED  BY <1>0, <2>1, <2>2 DEF Errors
<1>10. CASE Chip!IrqFinish
  <2>1. /\ irq.at = "mask" /\ irq'.at = "idle"
        /\ UNCHANGED <<open, sleep, masked, cut, state, hw, werr, err, txflag, missed>>
    BY <1>10, IrqMoves DEF Chip!IrqFinish, Chip!powerVars, Chip!txVars, Chip!tally, ChipTypes
  <2>2. Chip!Range(Chip!Levels) = ErrorLevels
    <3>. DEFINE L == <<"active", "warning", "passive", "busoff">>
    <3>1. /\ DOMAIN L = 1..4
          /\ L[1] = "active" /\ L[2] = "warning" /\ L[3] = "passive" /\ L[4] = "busoff"
      OBVIOUS
    <3>2. \A q : q \in 1..4 <=> q = 1 \/ q = 2 \/ q = 3 \/ q = 4
      OBVIOUS
    <3>. HIDE DEF L
    <3>3. Chip!Levels = L
      BY DEF Chip!Levels, L
    <3>. QED  BY <3>1, <3>2, <3>3 DEF Chip!Range, ErrorLevels
  <2>3. ~masked => (Mask(state) => errmsk')
    <3>1. CASE irq.last # state /\ ~Chip!Reporting /\ state \in ErrorLevels
      BY <1>0, <1>10, <2>2, <3>1 DEF Chip!IrqFinish, Mask
    <3>2. CASE ~(irq.last # state /\ ~Chip!Reporting /\ state \in ErrorLevels)
      <4>1. errmsk' = errmsk
        BY <1>10, <2>2, <3>2 DEF Chip!IrqFinish
      <4>2. Mask(state) => irq.last = state \/ Chip!Reporting
        BY <3>2, <1>0 DEF ChipTypes, IrqTypes, States
      <4>. QED  BY <1>0, <2>1, <4>1, <4>2 DEF Errors
    <3>. QED  BY <3>1, <3>2
  <2>. QED  BY <1>0, <2>1, <2>3 DEF Errors
<1>11. CASE Chip!SuspendStop \/ Chip!SuspendDetach
  <2>1. UNCHANGED <<open, masked, irq, errmsk, hw, werr, err, txflag, missed>>
    BY <1>11 DEF Chip!SuspendStop, Chip!SuspendDetach, Chip!txVars
  <2>2. sleep' = "awake" => cut'
    BY <1>11 DEF Chip!SuspendStop, Chip!SuspendDetach
  <2>3. state' = state \/ state' = "sleeping" \/ state' = "stopped"
    BY <1>11 DEF Chip!SuspendStop, Chip!SuspendDetach
  <2>. QED  BY <1>0, <2>1, <2>2, <2>3 DEF Errors
<1>12. CASE Chip!SuspendMask
  <2>1. masked' /\ UNCHANGED <<irq, hw, werr, err, txflag>> /\ (sleep' = "awake" => cut')
    BY <1>12 DEF Chip!SuspendMask, Chip!InterruptsDisable, Chip!txVars
  <2>. QED  BY <1>0, <2>1 DEF Errors
<1>13. CASE Chip!NoirqSuspend \/ Chip!NoirqResume
  <2>1. UNCHANGED <<open, masked, irq, state, errmsk, hw, werr, err, txflag>> /\ sleep' # "awake"
    BY <1>13 DEF Chip!NoirqSuspend, Chip!NoirqResume, Chip!errVars, Chip!txVars
  <2>. QED  BY <1>0, <2>1 DEF Errors
<1>14. CASE Chip!ResumeAttach
  <2>1. UNCHANGED <<open, masked, irq, errmsk, hw, werr, err, txflag>> /\ state' = "active"
    BY <1>14 DEF Chip!ResumeAttach
  <2>2. (sleep' = "awake" => ~open) /\ sleep = "resume"
    BY <1>14 DEF Chip!ResumeAttach
  <2>3. ~masked => ~Chip!WerrBroken
    BY <2>2 DEF Masking
  <2>4. ~masked /\ Mask("active") => Chip!Reporting
    BY <1>0, <2>3 DEF Chip!DefaultErrMsk
  <2>. QED  BY <1>0, <2>1, <2>2, <2>4 DEF Errors
<1>15. CASE Chip!ResumeFromStop
  <2>1. UNCHANGED <<open, masked, irq, errmsk, hw, werr, err, txflag, state>>
    BY <1>15 DEF Chip!ResumeFromStop, Chip!txVars
  <2>2. cut' \/ missed' \/ state = hw
    BY <1>15 DEF Chip!ResumeFromStop
  <2>. QED  BY <1>0, <2>1, <2>2 DEF Errors
<1>17. CASE Chip!StartXmit
  <2>1. UNCHANGED <<open, masked, sleep, irq, state, hw, werr, txflag, err, errmsk, missed>> /\ (~cut' => ~cut)
    BY <1>17 DEF Chip!StartXmit, Chip!powerVars, Chip!errVars
  <2>. QED  BY <1>0, <2>1 DEF Errors
<1>16. Chip!Arrive \/ Chip!Poll
         => UNCHANGED <<open, masked, sleep, irq, cut, state, hw, werr, txflag, err, errmsk, missed>>
  BY DEF Chip!Arrive, Chip!Poll, Chip!powerVars, Chip!tally, Chip!errVars, Chip!txVars
<1>. QED
  BY <1>1, <1>2, <1>3, <1>4, <1>5, <1>6, <1>7, <1>8, <1>9, <1>10, <1>11, <1>12, <1>13, <1>14, <1>15,
     <1>16, <1>17 DEF Chip!Next, Chip!Handler, Chip!Sleeping

(* With nothing left to handle, no flag contradicts what the driver knows. *)
LEMMA StateIsKnown ==
  ASSUME Masking, Errors PROVE StateKnown
BY DEF StateKnown, Chip!StateKnown, Chip!Raised, Masking, Errors, Base, Noted

(* Two sequences joined, and the first of a sequence moved to another.     *)
LEMMA Joined ==
  ASSUME NEW s \in Seq(Nat), NEW t \in Seq(Nat)
  PROVE  /\ s \o t \in Seq(Nat)
         /\ \A x : In(x, s \o t) <=> In(x, s) \/ In(x, t)
         /\ /\ Chip!Increasing(s) /\ Chip!Increasing(t)
            /\ \A x, y \in Nat : In(x, s) /\ In(y, t) => x < y
            => Chip!Increasing(s \o t)
<1>. DEFINE u == s \o t
            n == Len(s)
            m == Len(t)
<1>1. /\ u \in Seq(Nat) /\ n \in Nat /\ m \in Nat /\ DOMAIN s = 1..n /\ DOMAIN t = 1..m
      /\ DOMAIN u = 1..(n + m)
      /\ \A k \in 1..(n + m) : u[k] = IF k <= n THEN s[k] ELSE t[k - n]
  <2>1. u \in Seq(Nat) /\ Len(u) = Len(s) + Len(t)
        /\ \A k \in 1..(Len(s) + Len(t)) : u[k] = IF k <= Len(s) THEN s[k] ELSE t[k - Len(s)]
    BY ConcatProperties
  <2>. HIDE DEF u
  <2>. QED  BY <2>1, LenProperties
<1>2. (\A k \in 1..n : s[k] \in Nat) /\ (\A k \in 1..m : t[k] \in Nat)
  BY ElementOfSeq
<1>. HIDE DEF u, n, m
<1>3. ASSUME NEW k \in 1..(n + m)
      PROVE  \/ k \in 1..n /\ u[k] = s[k]
             \/ k - n \in 1..m /\ k > n /\ u[k] = t[k - n]
  BY <1>1
<1>4. ASSUME NEW k \in 1..n PROVE k \in 1..(n + m) /\ u[k] = s[k]
  BY <1>1
<1>5. ASSUME NEW k \in 1..m PROVE k + n \in 1..(n + m) /\ u[k + n] = t[k]
  <2>1. k + n \in 1..(n + m) /\ ~(k + n <= n) /\ (k + n) - n = k
    BY <1>1
  <2>. QED  BY <1>1, <2>1
<1>6. ASSUME NEW x PROVE In(x, u) <=> In(x, s) \/ In(x, t)
  <2>1. ASSUME In(x, u) PROVE In(x, s) \/ In(x, t)
    <3>1. PICK k \in 1..(n + m) : u[k] = x
      BY <1>1, <2>1 DEF In
    <3>. QED  BY <1>1, <1>3, <3>1 DEF In
  <2>2. ASSUME In(x, s) PROVE In(x, u)
    <3>1. PICK k \in 1..n : s[k] = x
      BY <1>1, <2>2 DEF In
    <3>. QED  BY <1>1, <1>4, <3>1 DEF In
  <2>3. ASSUME In(x, t) PROVE In(x, u)
    <3>1. PICK k \in 1..m : t[k] = x
      BY <1>1, <2>3 DEF In
    <3>. QED  BY <1>1, <1>5, <3>1 DEF In
  <2>. QED  BY <2>1, <2>2, <2>3
<1>7. ASSUME Chip!Increasing(s), Chip!Increasing(t), \A x, y \in Nat : In(x, s) /\ In(y, t) => x < y
      PROVE  Chip!Increasing(u)
  <2>. SUFFICES ASSUME NEW g \in 1..(n + m), NEW h \in 1..(n + m), g < h PROVE u[g] < u[h]
    BY <1>1 DEF Chip!Increasing
  <2>1. CASE h \in 1..n
    <3>1. g \in 1..n
      BY <1>1, <2>1
    <3>. QED  BY <1>1, <1>4, <1>7, <2>1, <3>1 DEF Chip!Increasing
  <2>2. CASE h \notin 1..n /\ g \in 1..n
    <3>1. u[g] = s[g] /\ h - n \in 1..m /\ u[h] = t[h - n]
      BY <1>3, <1>4, <2>2
    <3>2. In(s[g], s) /\ s[g] \in Nat /\ In(t[h - n], t) /\ t[h - n] \in Nat
      BY <1>1, <1>2, <2>2, <3>1 DEF In
    <3>. QED  BY <1>7, <3>1, <3>2
  <2>3. CASE h \notin 1..n /\ g \notin 1..n
    <3>1. g - n \in 1..m /\ u[g] = t[g - n] /\ h - n \in 1..m /\ u[h] = t[h - n] /\ g - n < h - n
      BY <1>1, <1>3, <2>3
    <3>. QED  BY <1>1, <1>7, <3>1 DEF Chip!Increasing
  <2>. QED  BY <2>1, <2>2, <2>3
<1>. QED  BY <1>1, <1>6, <1>7 DEF u

LEMMA Associative ==
  ASSUME NEW a \in Seq(Nat), NEW b \in Seq(Nat), NEW c \in Seq(Nat)
  PROVE  (a \o b) \o c = a \o (b \o c)
BY ConcatAssociative

LEMMA Moved ==
  ASSUME NEW s \in Seq(Nat), NEW t \in Seq(Nat), t # <<>>
  PROVE  /\ Head(t) \in Nat /\ Tail(t) \in Seq(Nat) /\ Append(s, Head(t)) \in Seq(Nat)
         /\ Append(s, Head(t)) \o Tail(t) = s \o t
<1>1. Head(t) \in Nat /\ Tail(t) \in Seq(Nat)
  BY HeadTailProperties
<1>. DEFINE h == <<Head(t)>>
<1>2. h \in Seq(Nat)
  BY <1>1
<1>3. h \o Tail(t) = t
  BY <1>1
<1>4. Append(s, Head(t)) = s \o h
  BY <1>1, AppendIsConcat
<1>5. Append(s, Head(t)) \in Seq(Nat)
  BY <1>1, AppendProperties
<1>. HIDE DEF h
<1>6. (s \o h) \o Tail(t) = s \o (h \o Tail(t))
  BY <1>1, <1>2, Associative
<1>. QED  BY <1>1, <1>3, <1>4, <1>5, <1>6

(***************************************************************************)
(* The receive side.  Every frame that came is in one of three places, in   *)
(* this order of age: read (given up, or on its way up in the two queues),  *)
(* in the batch of the round under way together with the mailboxes of the   *)
(* round's snapshot, in a mailbox filled since.                             *)
(***************************************************************************)
Taken == up \o rxq \o irqq
Holds(f, x) == \E n \in RxMbs : f[n] = x
Waits(x) == In(x, irq.batch) \/ (x # 0 /\ Holds(mb, x))
Round ==
  /\ irq.at # "read" => irq.batch = <<>> /\ irq.pending = {}
  /\ irq.at = "idle" => irqq = <<>>
Accounted ==
  /\ Chip!Increasing(Taken) /\ Chip!Increasing(irq.batch)
  /\ \A x \in Nat : (1 <= x /\ x <= came) <=> In(x, Taken) \/ Waits(x)
  /\ \A x, y \in Nat : In(x, Taken) /\ Waits(y) => x < y
Snapshot ==
  /\ \A n, m \in RxMbs : mb[n] = mb[m] /\ mb[n] # 0 => n = m
  /\ \A n \in irq.pending : mb[n] # 0
  /\ \A n \in RxMbs : ~In(mb[n], irq.batch)
  /\ \A m \in RxMbs \ irq.pending : mb[m] # 0 =>
       /\ \A x \in Nat : In(x, irq.batch) => x < mb[m]
       /\ \A n \in irq.pending : mb[n] < mb[m]
Arrivals == Round /\ (~counted => Accounted /\ Snapshot)

LEMMA RoundStep ==
  ASSUME IrqTypes, EchoPlace, Round, Chip!Next PROVE Round'
<1>. USE DEF Round
<1>1. CASE Chip!Open \/ Chip!Close
  BY <1>1 DEF Chip!Open, Chip!Close
<1>2. CASE Chip!Handler
  BY <1>2, IrqMoves DEF Chip!Handler, SameRound, Chip!IrqEnter, Chip!IrqFinish, Chip!RxRound,
     Chip!RxRoundEnds, Chip!MailboxRead, Chip!TxDone, Chip!ReadEsr, Chip!IrqState, Chip!rxVars
<1>3. UNCHANGED <<irq, irqq>> \/ Chip!Open \/ Chip!Close \/ Chip!Handler
  BY DEF Chip!Next, Chip!Sleeping, Chip!StartXmit, Chip!Transmit, Chip!Arrive, Chip!BusError,
     Chip!Recovers, Chip!Poll, Chip!Restart, Chip!SuspendStop, Chip!SuspendMask, Chip!SuspendDetach,
     Chip!NoirqSuspend, Chip!NoirqResume, Chip!ResumeAttach, Chip!ResumeStart, Chip!ResumeFromStop,
     Chip!rxVars
<1>. QED  BY <1>1, <1>2, <1>3

(* A step that touches neither the frames nor the round keeps the account. *)
LEMMA ArrivalsRest ==
  ASSUME Accounted, Snapshot, UNCHANGED <<mb, came, irqq, rxq, up>>,
         irq'.batch = irq.batch, irq'.pending = irq.pending
  PROVE  Accounted' /\ Snapshot'
BY DEF Accounted, Snapshot, Taken, Waits, Holds

LEMMA ResetArrivals ==
  ASSUME RxTypes, IrqTypes, EchoPlace, Arrivals, ~counted', irq' = irq, came' = came, up' = up,
         Chip!ResetMailboxes,
         \/ rxq' = rxq /\ irqq' = irqq
         \/ rxq = <<>> /\ rxq' = <<>> /\ irq.at = "idle" /\ irqq' = <<>>
  PROVE  Accounted' /\ Snapshot'
<1>1. ~counted /\ Chip!Full = {}
  BY DEF Chip!ResetMailboxes
<1>2. mb' = mb
  <2>1. \A n \in RxMbs : mb[n] = 0
    BY <1>1 DEF Chip!Full, Chip!None
  <2>. QED  BY <2>1 DEF Chip!ResetMailboxes, Chip!Empty, Chip!None, RxTypes
<1>3. rxq' = rxq /\ irqq' = irqq
  BY DEF Arrivals, Round
<1>. QED  BY <1>1, <1>2, <1>3, ArrivalsRest DEF Arrivals

LEMMA ArriveStep ==
  ASSUME RxTypes, IrqTypes, Accounted, Snapshot, Chip!Arrive, ~counted'
  PROVE  Accounted' /\ Snapshot'
<1>1. /\ came' = came + 1 /\ irq' = irq /\ UNCHANGED <<irqq, rxq, up>>
      /\ RxMbs # Chip!Full
  BY DEF Chip!Arrive
<1>2. PICK n \in RxMbs : mb[n] = 0 /\ mb' = [mb EXCEPT ![n] = came']
  <2>. DEFINE free == RxMbs \ Chip!Full
  <2>1. free # {} /\ free \subseteq Nat
    BY <1>1, ChipAssumption DEF Chip!Full
  <2>2. Chip!Min(free) \in free
    BY <2>1, Least
  <2>3. mb' = [mb EXCEPT ![Chip!Min(free)] = came']
    BY <2>1 DEF Chip!Arrive
  <2>. QED  BY <2>2, <2>3 DEF Chip!Full, Chip!None
<1>3. came \in Nat /\ irq.pending \subseteq RxMbs /\ \A m \in RxMbs : mb[m] \in Nat
  BY DEF RxTypes, IrqTypes
<1>4. mb'[n] = came + 1 /\ \A m \in RxMbs : m # n => mb'[m] = mb[m]
  BY <1>1, <1>2 DEF RxTypes
<1>5. \A x \in Nat : Holds(mb', x) /\ x # 0 <=> x = came + 1 \/ (Holds(mb, x) /\ x # 0)
  BY <1>2, <1>3, <1>4 DEF Holds
<1>6. \A x \in Nat : In(x, Taken) \/ Waits(x) => x <= came
  BY DEF Accounted
<1>7. \A x \in Nat : Waits(x)' <=> x = came + 1 \/ Waits(x)
  BY <1>1, <1>5 DEF Waits
<1>8. Taken' = Taken
  BY <1>1 DEF Taken
<1>9. Accounted'
  BY <1>1, <1>3, <1>6, <1>7, <1>8 DEF Accounted
<1>10. \A m \in RxMbs : mb[m] <= came
  BY <1>3, <1>6 DEF Waits, Holds
<1>11. n \notin irq.pending
  BY <1>2 DEF Snapshot
<1>12. Snapshot'
  <2>1. \A m, k \in RxMbs : mb'[m] = mb'[k] /\ mb'[m] # 0 => m = k
    BY <1>3, <1>4, <1>10 DEF Snapshot
  <2>2. \A m \in irq.pending : mb'[m] # 0
    BY <1>3, <1>4, <1>11 DEF Snapshot
  <2>3. \A m \in RxMbs : ~In(mb'[m], irq.batch)
    <3>1. ~In(came + 1, irq.batch)
      BY <1>3, <1>6 DEF Waits
    <3>. QED  BY <1>4, <3>1 DEF Snapshot
  <2>4. ASSUME NEW m \in RxMbs \ irq.pending, mb'[m] # 0
        PROVE  /\ \A x \in Nat : In(x, irq.batch) => x < mb'[m]
               /\ \A k \in irq.pending : mb'[k] < mb'[m]
    <3>1. CASE m = n
      <4>1. \A x \in Nat : In(x, irq.batch) => x < came + 1
        BY <1>3, <1>6 DEF Waits
      <4>2. \A k \in irq.pending : mb'[k] < came + 1
        BY <1>3, <1>4, <1>10, <1>11
      <4>. QED  BY <1>4, <3>1, <4>1, <4>2
    <3>2. CASE m # n
      BY <1>3, <1>4, <1>11, <2>4, <3>2 DEF Snapshot
    <3>. QED  BY <3>1, <3>2
  <2>. QED  BY <1>1, <2>1, <2>2, <2>3, <2>4 DEF Snapshot
<1>. QED  BY <1>9, <1>12

LEMMA MailboxReadStep ==
  ASSUME RxTypes, IrqTypes, Accounted, Snapshot, Chip!MailboxRead, ~counted'
  PROVE  Accounted' /\ Snapshot'
<1>. DEFINE n == Chip!Min(irq.pending)
<1>1. /\ irq.pending # {} /\ mb' = [m \in RxMbs |-> IF m \in Chip!Cleared(n) THEN 0 ELSE mb[m]]
      /\ UNCHANGED <<came, irqq, rxq, up>>
  BY DEF Chip!MailboxRead, Chip!None
<1>2. irq'.pending = irq.pending \ {n} /\ irq'.batch = Chip!Insert(irq.batch, mb[n])
  BY IrqMoves
<1>3. n \in irq.pending /\ n \in RxMbs
  BY <1>1, Least, ChipAssumption DEF IrqTypes
<1>. HIDE DEF n
<1>4. mb'[n] = 0 /\ \A m \in RxMbs : m # n => mb'[m] = mb[m]
  BY <1>1, <1>3 DEF Chip!Cleared
<1>5. came \in Nat /\ irq.pending \subseteq RxMbs /\ irq.batch \in Seq(Nat) /\ \A m \in RxMbs : mb[m] \in Nat
  BY DEF RxTypes, IrqTypes
<1>6. mb[n] # 0
  BY <1>3 DEF Snapshot
<1>7. /\ \A x : In(x, irq'.batch) <=> In(x, irq.batch) \/ x = mb[n]
      /\ Chip!Increasing(irq'.batch)
  <2>. DEFINE s == irq.batch
              f == mb[n]
              t == Chip!Insert(s, f)
  <2>1. s \in Seq(Nat) /\ f \in Nat /\ Chip!Increasing(s) /\ \A k \in DOMAIN s : s[k] # f
    BY <1>3, <1>5 DEF Accounted, Snapshot, In
  <2>. HIDE DEF s, f
  <2>2. Chip!Increasing(t) /\ {t[k] : k \in DOMAIN t} = {s[k] : k \in DOMAIN s} \cup {f}
    BY <2>1, Inserted
  <2>. HIDE DEF t
  <2>3. \A x : In(x, t) <=> In(x, s) \/ x = f
    <3>1. \A x : In(x, t) <=> x \in {t[k] : k \in DOMAIN t}
      BY DEF In
    <3>2. \A x : In(x, s) <=> x \in {s[k] : k \in DOMAIN s}
      BY DEF In
    <3>. QED  BY <2>2, <3>1, <3>2
  <2>4. irq'.batch = t
    BY <1>2 DEF t, s, f
  <2>. QED  BY <2>2, <2>3, <2>4 DEF s, f
<1>8. \A x \in Nat : Holds(mb, x) /\ x # 0 <=> x = mb[n] \/ (Holds(mb', x) /\ x # 0)
  <2>1. ASSUME NEW x \in Nat, x # 0, Holds(mb, x) PROVE x = mb[n] \/ Holds(mb', x)
    BY <1>4, <2>1 DEF Holds
  <2>2. ASSUME NEW x \in Nat, x # 0, Holds(mb', x) PROVE Holds(mb, x)
    BY <1>3, <1>4, <2>2 DEF Holds
  <2>. QED  BY <1>3, <1>6, <2>1, <2>2 DEF Holds
<1>9. \A x \in Nat : Waits(x)' <=> Waits(x)
  BY <1>7, <1>8 DEF Waits
<1>10. Accounted'
  <2>1. Taken' = Taken /\ came' = came
    BY <1>1 DEF Taken
  <2>. QED  BY <1>7, <1>9, <2>1 DEF Accounted
<1>11. ~In(0, irq'.batch)
  <2>1. ~Waits(0)
    BY <1>5 DEF Accounted
  <2>. QED  BY <1>6, <1>7, <2>1 DEF Waits
<1>12. Snapshot'
  <2>1. \A m, k \in RxMbs : mb'[m] = mb'[k] /\ mb'[m] # 0 => m = k
    BY <1>3, <1>4 DEF Snapshot
  <2>2. \A m \in irq'.pending : mb'[m] # 0
    BY <1>2, <1>4, <1>5 DEF Snapshot
  <2>3. ASSUME NEW m \in RxMbs PROVE ~In(mb'[m], irq'.batch)
    <3>1. CASE mb'[m] = 0
      BY <1>11, <3>1
    <3>2. CASE mb'[m] # 0
      <4>1. m # n /\ mb'[m] = mb[m] /\ mb[m] # mb[n]
        BY <1>3, <1>4, <3>2 DEF Snapshot
      <4>. QED  BY <1>7, <4>1 DEF Snapshot
    <3>. QED  BY <3>1, <3>2
  <2>4. ASSUME NEW m \in RxMbs \ irq'.pending, mb'[m] # 0
        PROVE  /\ \A x \in Nat : In(x, irq'.batch) => x < mb'[m]
               /\ \A k \in irq'.pending : mb'[k] < mb'[m]
    <3>1. m # n /\ m \in RxMbs \ irq.pending /\ mb'[m] = mb[m]
      BY <1>2, <1>4, <2>4
    <3>2. mb[m] # 0 /\ mb[n] < mb[m]
      BY <1>3, <2>4, <3>1 DEF Snapshot
    <3>3. \A x \in Nat : In(x, irq.batch) => x < mb[m]
      BY <3>1, <3>2 DEF Snapshot
    <3>4. \A k \in irq.pending : mb[k] < mb[m]
      BY <3>1, <3>2 DEF Snapshot
    <3>5. \A k \in irq'.pending : mb'[k] = mb[k] /\ k \in irq.pending
      BY <1>2, <1>4, <1>5
    <3>. QED  BY <1>7, <3>1, <3>2, <3>3, <3>4, <3>5
  <2>. QED  BY <2>1, <2>2, <2>3, <2>4 DEF Snapshot
<1>. QED  BY <1>10, <1>12

LEMMA RoundEndsStep ==
  ASSUME RxTypes, IrqTypes, Accounted, Snapshot, Chip!RxRoundEnds
  PROVE  Accounted' /\ Snapshot'
<1>1. /\ irq.pending = {} /\ irq'.pending = {} /\ irq'.batch = <<>> /\ irqq' = irqq \o irq.batch
      /\ UNCHANGED <<mb, came, rxq, up>>
  BY IrqMoves DEF Chip!RxRoundEnds
<1>2. came \in Nat /\ irq.batch \in Seq(Nat) /\ \A m \in RxMbs : mb[m] \in Nat
  BY DEF RxTypes, IrqTypes
<1>3. Taken \in Seq(Nat) /\ Taken' = Taken \o irq.batch
  <2>1. up \in Seq(Nat) /\ rxq \in Seq(Nat) /\ irqq \in Seq(Nat)
    BY DEF RxTypes
  <2>2. up \o rxq \in Seq(Nat)
    BY <2>1, ConcatProperties
  <2>3. (up \o rxq) \o irqq \in Seq(Nat)
    BY <2>1, <2>2, ConcatProperties
  <2>5. ((up \o rxq) \o irqq) \o irq.batch = (up \o rxq) \o (irqq \o irq.batch)
    BY <1>2, <2>1, <2>2, Associative
  <2>. QED  BY <1>1, <2>3, <2>5 DEF Taken
<1>4. \A x, y \in Nat : In(x, Taken) /\ In(y, irq.batch) => x < y
  BY DEF Accounted, Waits
<1>5. \A x : In(x, Taken') <=> In(x, Taken) \/ In(x, irq.batch)
  BY <1>2, <1>3, Joined
<1>6. Chip!Increasing(Taken')
  BY <1>2, <1>3, <1>4, Joined DEF Accounted
<1>7. ~(\E x : In(x, irq'.batch)) /\ Chip!Increasing(irq'.batch)
  BY <1>1 DEF In, Chip!Increasing
<1>8. \A x \in Nat : Waits(x)' <=> x # 0 /\ Holds(mb, x)
  BY <1>1, <1>7 DEF Waits
<1>9. \A x, y \in Nat : In(x, irq.batch) /\ y # 0 /\ Holds(mb, y) => x < y
  BY <1>1 DEF Snapshot, Holds
<1>10. Accounted'
  BY <1>1, <1>5, <1>6, <1>7, <1>8, <1>9 DEF Accounted, Waits
<1>11. Snapshot'
  BY <1>1, <1>7 DEF Snapshot
<1>. QED  BY <1>10, <1>11

LEMMA ArrivalsStep ==
  ASSUME RxTypes, IrqTypes, EchoPlace, Arrivals, Chip!Next PROVE Arrivals'
<1>. SUFFICES ASSUME ~counted' PROVE Accounted' /\ Snapshot'
  BY RoundStep DEF Arrivals
<1>1. CASE Chip!Open \/ Chip!Close \/ Chip!Restart \/ Chip!ResumeStart
  BY <1>1, ResetArrivals DEF Chip!Open, Chip!Close, Chip!Restart, Chip!ResumeStart, Chip!ChipStart,
     Chip!ChipStartFails, Chip!ResetMailboxes
<1>2. counted => counted'
  BY DEF Chip!Next, Chip!Handler, Chip!Sleeping, Chip!Open, Chip!Close, Chip!StartXmit, Chip!Transmit,
     Chip!Arrive, Chip!BusError, Chip!Recovers, Chip!Poll, Chip!Restart, Chip!SuspendStop,
     Chip!SuspendMask, Chip!SuspendDetach, Chip!NoirqSuspend, Chip!NoirqResume, Chip!ResumeAttach,
     Chip!ResumeStart, Chip!ResumeFromStop, Chip!IrqEnter, Chip!RxRound, Chip!MailboxRead,
     Chip!RxRoundEnds, Chip!TxDone, Chip!ReadEsr, Chip!IrqState, Chip!IrqFinish, Chip!rxVars,
     Chip!ChipStart, Chip!ChipStartFails, Chip!ResetMailboxes
<1>3. Round /\ Accounted /\ Snapshot
  BY <1>2 DEF Arrivals
<1>4. CASE Chip!Arrive
  BY <1>3, <1>4, ArriveStep
<1>5. CASE Chip!MailboxRead
  BY <1>3, <1>5, MailboxReadStep
<1>6. CASE Chip!RxRoundEnds
  BY <1>3, <1>6, RoundEndsStep
<1>7. CASE Chip!RxRound
  <2>1. /\ irq.at = "rx" /\ irq'.batch = irq.batch /\ UNCHANGED <<mb, came, irqq, rxq, up>>
        /\ irq'.pending = Chip!Full \/ irq'.pending = irq.pending
    BY <1>7, IrqMoves DEF Chip!RxRound, Chip!rxVars
  <2>2. irq.batch = <<>> /\ irq.pending = {}
    BY <1>3, <2>1 DEF Round
  <2>3. Accounted'
    BY <1>3, <2>1 DEF Accounted, Taken, Waits
  <2>4. \A m \in RxMbs : mb[m] # 0 <=> m \in Chip!Full
    BY DEF Chip!Full, Chip!None
  <2>5. ~\E x : In(x, irq.batch)
    BY <2>2 DEF In
  <2>6. Chip!Full \subseteq RxMbs
    BY DEF Chip!Full
  <2>7. Snapshot'
    BY <1>3, <2>1, <2>2, <2>4, <2>5, <2>6 DEF Snapshot
  <2>. QED  BY <2>3, <2>7
<1>8. CASE Chip!IrqEnter
  <2>1. /\ irq.at = "idle" /\ irq'.batch = <<>> /\ irq'.pending = {} /\ UNCHANGED <<mb, came, irqq, rxq, up>>
    BY <1>8, IrqMoves DEF Chip!IrqEnter, Chip!rxVars
  <2>. QED  BY <1>3, <2>1, ArrivalsRest DEF Round
<1>9. CASE Chip!IrqFinish
  <2>1. /\ irq.at = "mask" /\ irq'.batch = <<>> /\ irq'.pending = {} /\ UNCHANGED <<mb, came, up>>
        /\ rxq' = rxq \o irqq /\ irqq' = <<>>
    BY <1>9, IrqMoves DEF Chip!IrqFinish
  <2>2. irq.batch = <<>> /\ irq.pending = {}
    BY <1>3, <2>1 DEF Round
  <2>3. Taken' = Taken
    <3>1. up \in Seq(Nat) /\ rxq \in Seq(Nat) /\ irqq \in Seq(Nat)
      BY DEF RxTypes
    <3>2. rxq \o irqq \in Seq(Nat) /\ up \o (rxq \o irqq) \in Seq(Nat)
      BY <3>1, ConcatProperties
    <3>3. (up \o (rxq \o irqq)) \o <<>> = up \o (rxq \o irqq)
      BY <3>2, ConcatEmptySeq
    <3>4. (up \o rxq) \o irqq = up \o (rxq \o irqq)
      BY <3>1, ConcatAssociative
    <3>. QED  BY <2>1, <3>3, <3>4 DEF Taken
  <2>. QED  BY <1>3, <2>1, <2>2, <2>3 DEF Accounted, Snapshot, Waits
<1>10. CASE Chip!Poll
  <2>1. /\ rxq # <<>> /\ up' = Append(up, Head(rxq)) /\ rxq' = Tail(rxq)
        /\ UNCHANGED <<mb, came, irqq, irq>>
    BY <1>10 DEF Chip!Poll
  <2>2. up' \o rxq' = up \o rxq
    BY <2>1, Moved DEF RxTypes
  <2>3. Taken' = Taken
    BY <2>1, <2>2 DEF Taken
  <2>. QED  BY <1>3, <2>1, <2>3 DEF Accounted, Snapshot, Waits
<1>11. CASE UNCHANGED <<mb, came, irqq, rxq, up>> /\ SameRound
  BY <1>3, <1>11, ArrivalsRest DEF SameRound
<1>12. Chip!TxDone \/ Chip!ReadEsr \/ Chip!IrqState
         => UNCHANGED <<mb, came, irqq, rxq, up>> /\ SameRound
  BY IrqMoves DEF Chip!TxDone, Chip!ReadEsr, Chip!IrqState, Chip!rxVars
<1>13. \/ Chip!StartXmit \/ Chip!Transmit \/ Chip!BusError \/ Chip!Recovers \/ Chip!SuspendStop
       \/ Chip!SuspendMask \/ Chip!SuspendDetach \/ Chip!NoirqSuspend \/ Chip!NoirqResume
       \/ Chip!ResumeAttach \/ Chip!ResumeFromStop
       => UNCHANGED <<mb, came, irqq, rxq, up>> /\ SameRound
  BY DEF Chip!StartXmit, Chip!Transmit, Chip!BusError, Chip!Recovers, Chip!SuspendStop,
     Chip!SuspendMask, Chip!SuspendDetach, Chip!NoirqSuspend, Chip!NoirqResume, Chip!ResumeAttach,
     Chip!ResumeFromStop, Chip!rxVars, SameRound
<1>. QED
  BY <1>1, <1>4, <1>5, <1>6, <1>7, <1>8, <1>9, <1>10, <1>11, <1>12, <1>13
     DEF Chip!Next, Chip!Handler, Chip!Sleeping

(***************************************************************************)
(* The bit timing.  A field keeps what fits it.                             *)
(***************************************************************************)
LEMMA Fits ==
  /\ \A x \in 0..3 : Timing!Low(x, 2) = x
  /\ \A x \in 0..7 : Timing!Low(x, 3) = x
  /\ \A x \in 0..31 : Timing!Low(x, 5) = x
  /\ \A x \in 0..63 : Timing!Low(x, 6) = x
  /\ \A x \in 0..255 : Timing!Low(x, 8) = x
  /\ \A x \in 0..1023 : Timing!Low(x, 10) = x
<1>1. 2^2 = 4 /\ 2^3 = 8 /\ 2^5 = 32 /\ 2^6 = 64 /\ 2^8 = 256 /\ 2^10 = 1024
  OBVIOUS
<1>. QED  BY <1>1 DEF Timing!Low

LEMMA CtrlKept ==
  ASSUME want' \in Wanted, want'.kind = "ctrl", regs' = Timing!WriteCtrl(want')
  PROVE  TimingKept'
<1>. DEFINE w == want'
<1>1. w.seg1 \in 4..16 /\ w.seg2 \in 2..8 /\ w.sjw \in 1..4 /\ w.brp \in 1..256
  BY TimingAssumption DEF Timing!Limits
<1>. DEFINE a == w.seg1 \div 2
            b == w.seg1 - a
<1>2. a \in 2..8 /\ b \in 2..8 /\ a + b = w.seg1
  BY <1>1
<1>3. /\ regs'.rate = w.brp - 1 /\ regs'.jump = w.sjw - 1 /\ regs'.prop = a - 1
      /\ regs'.seg1 = b - 1 /\ regs'.seg2 = w.seg2 - 1
  <2>1. Timing!Prop(w) = a /\ Timing!Phase(w) = b
    BY DEF Timing!Prop, Timing!Phase
  <2>. HIDE DEF a, b
  <2>. QED  BY <1>1, <1>2, <2>1, Fits DEF Timing!WriteCtrl
<1>. HIDE DEF a, b
<1>4. regs'.prop + (IF want'.kind = "fdcbt" THEN 0 ELSE 1) + regs'.seg1 + 1 = w.seg1
  BY <1>1, <1>2, <1>3
<1>5. regs'.seg2 + 1 = w.seg2 /\ regs'.jump + 1 = w.sjw /\ regs'.rate + 1 = w.brp
  BY <1>1, <1>3
<1>. QED  BY <1>4, <1>5 DEF TimingKept, Timing!TimingKept, Timing!Before, Timing!After

LEMMA CbtKept ==
  ASSUME want' \in Wanted, want'.kind = "cbt", regs' = Timing!WriteCbt(want')
  PROVE  TimingKept'
<1>. DEFINE w == want'
<1>1. w.seg1 \in 2..96 /\ w.seg2 \in 2..32 /\ w.sjw \in 1..16 /\ w.brp \in 1..1024
  BY TimingAssumption DEF Timing!Limits
<1>. DEFINE m == Timing!Moved(w, 32)
<1>2. m.prop \in 1..64 /\ m.phase \in 1..32 /\ m.prop + m.phase = w.seg1
  <2>. DEFINE a == w.seg1 \div 2
              b == w.seg1 - a
  <2>1. a \in 1..48 /\ b \in 1..48 /\ a + b = w.seg1
    BY <1>1
  <2>2. m = IF b > 32 THEN [prop |-> a + b - 32, phase |-> 32] ELSE [prop |-> a, phase |-> b]
    BY DEF Timing!Moved, Timing!Prop, Timing!Phase
  <2>. HIDE DEF a, b, m
  <2>. QED  BY <1>1, <2>1, <2>2
<1>3. /\ regs'.rate = w.brp - 1 /\ regs'.jump = w.sjw - 1 /\ regs'.prop = m.prop - 1
      /\ regs'.seg1 = m.phase - 1 /\ regs'.seg2 = w.seg2 - 1
  <2>1. regs' = [rate |-> Timing!Low(w.brp - 1, 10), jump |-> Timing!Low(w.sjw - 1, 5),
                prop |-> Timing!Low(m.prop - 1, 6), seg1 |-> Timing!Low(m.phase - 1, 5),
                seg2 |-> Timing!Low(w.seg2 - 1, 5)]
    BY DEF Timing!WriteCbt
  <2>. HIDE DEF m
  <2>. QED  BY <1>1, <1>2, <2>1, Fits
<1>. HIDE DEF m
<1>4. regs'.prop + (IF want'.kind = "fdcbt" THEN 0 ELSE 1) + regs'.seg1 + 1 = w.seg1
  BY <1>1, <1>2, <1>3
<1>5. regs'.seg2 + 1 = w.seg2 /\ regs'.jump + 1 = w.sjw /\ regs'.rate + 1 = w.brp
  BY <1>1, <1>3
<1>. QED  BY <1>4, <1>5 DEF TimingKept, Timing!TimingKept, Timing!Before, Timing!After

LEMMA FdcbtKept ==
  ASSUME want' \in Wanted, want'.kind = "fdcbt", regs' = Timing!WriteFdcbt(want')
  PROVE  TimingKept'
<1>. DEFINE w == want'
<1>1. w.seg1 \in 2..39 /\ w.seg2 \in 2..8 /\ w.sjw \in 1..4 /\ w.brp \in 1..1024
  BY TimingAssumption DEF Timing!Limits
<1>. DEFINE m == Timing!Moved(w, 8)
<1>2. m.prop \in 1..31 /\ m.phase \in 1..8 /\ m.prop + m.phase = w.seg1
  <2>. DEFINE a == w.seg1 \div 2
              b == w.seg1 - a
  <2>1. a \in 1..19 /\ b \in 1..20 /\ a + b = w.seg1
    BY <1>1
  <2>2. m = IF b > 8 THEN [prop |-> a + b - 8, phase |-> 8] ELSE [prop |-> a, phase |-> b]
    BY DEF Timing!Moved, Timing!Prop, Timing!Phase
  <2>. HIDE DEF a, b, m
  <2>. QED  BY <1>1, <2>1, <2>2
<1>3. /\ regs'.rate = w.brp - 1 /\ regs'.jump = w.sjw - 1 /\ regs'.prop = m.prop
      /\ regs'.seg1 = m.phase - 1 /\ regs'.seg2 = w.seg2 - 1
  <2>1. regs' = [rate |-> Timing!Low(w.brp - 1, 10), jump |-> Timing!Low(w.sjw - 1, 3),
                prop |-> Timing!Low(m.prop, 5), seg1 |-> Timing!Low(m.phase - 1, 3),
                seg2 |-> Timing!Low(w.seg2 - 1, 3)]
    BY DEF Timing!WriteFdcbt
  <2>. HIDE DEF m
  <2>. QED  BY <1>1, <1>2, <2>1, Fits
<1>. HIDE DEF m
<1>4. regs'.prop + (IF want'.kind = "fdcbt" THEN 0 ELSE 1) + regs'.seg1 + 1 = w.seg1
  BY <1>1, <1>2, <1>3
<1>5. regs'.seg2 + 1 = w.seg2 /\ regs'.jump + 1 = w.sjw /\ regs'.rate + 1 = w.brp
  BY <1>1, <1>3
<1>. QED  BY <1>4, <1>5 DEF TimingKept, Timing!TimingKept, Timing!Before, Timing!After

(***************************************************************************)
(* The invariants of the driver together, in its initial states and over    *)
(* its steps, then in every behaviour of the composition.                   *)
(***************************************************************************)
ChipInv == ChipTypes /\ EchoPlace /\ EchoOrder /\ Arrivals /\ Masking /\ Errors

LEMMA ChipInitially ==
  ASSUME Chip!Init PROVE ChipInv
<1>. USE DEF Chip!Init, Chip!None
<1>1. ChipTypes
  <2>1. <<>> \in Seq(Nat)
    OBVIOUS
  <2>2. irq \in [at : Ats, last : States, pending : SUBSET RxMbs, batch : Seq(Nat), seen : States]
    BY <2>1 DEF Chip!IrqIdle, Ats, States
  <2>3. mb \in [RxMbs -> Nat]
    BY DEF Chip!Empty
  <2>. QED  BY <2>1, <2>2, <2>3 DEF ChipTypes, TxTypes, RxTypes, IrqTypes, ErrorLevels, States
<1>2. irq.at = "idle" /\ irq.batch = <<>> /\ irq.pending = {}
  BY DEF Chip!IrqIdle
<1>3. EchoPlace
  BY <1>2 DEF EchoPlace
<1>4. ~(\E x : In(x, <<>>)) /\ Chip!Increasing(<<>>)
  BY DEF In, Chip!Increasing
<1>5. EchoOrder
  BY <1>4 DEF EchoOrder
<1>6. Arrivals
  <2>1. Taken = <<>>
    <3>1. <<>> \o <<>> = <<>>
      OBVIOUS
    <3>. QED  BY <3>1 DEF Taken
  <2>2. \A n \in RxMbs : mb[n] = 0
    BY DEF Chip!Empty
  <2>3. \A x : ~Waits(x)
    BY <1>2, <1>4, <2>2 DEF Waits, Holds
  <2>4. Accounted
    BY <1>2, <1>4, <2>1, <2>3 DEF Accounted
  <2>5. Snapshot
    BY <1>2, <1>4, <2>2 DEF Snapshot
  <2>. QED  BY <1>2, <2>4, <2>5 DEF Arrivals, Round
<1>7. Masking
  BY <1>2 DEF Masking
<1>8. Errors
  BY <1>2 DEF Errors
<1>. QED  BY <1>1, <1>3, <1>5, <1>6, <1>7, <1>8 DEF ChipInv

LEMMA ChipStep ==
  ASSUME ChipInv, Chip!Next PROVE ChipInv'
BY ChipStepTypes, EchoPlaceStep, EchoOrderStep, ArrivalsStep, MaskingStep, ErrorsStep
   DEF ChipInv, ChipTypes

LEMMA ChipRests ==
  ASSUME ChipInv, UNCHANGED chipVars PROVE ChipInv'
<1>. USE DEF chipVars
<1>1. ChipTypes' /\ EchoPlace' /\ EchoOrder'
  BY DEF ChipInv, ChipTypes, TxTypes, RxTypes, IrqTypes, EchoPlace, EchoOrder
<1>2. Arrivals'
  BY DEF ChipInv, Arrivals, Round, Accounted, Snapshot, Taken, Waits
<1>3. Masking' /\ Errors'
  BY DEF ChipInv, Masking, Errors, Base, Noted, Mask, Chip!Reporting, Chip!ErrMskFor, Chip!WerrBroken
<1>. QED  BY <1>1, <1>2, <1>3 DEF ChipInv

LEMMA ChipInductive == MCSpec => []ChipInv
<1>1. MCInit => ChipInv
  BY ChipInitially DEF MCInit
<1>2. ChipInv /\ [MCNext]_<<which, vars, chipVars, timingVars>> => ChipInv'
  BY ChipStep, ChipRests DEF MCNext, AppNext, ChipNext, TimingNext
<1>. QED  BY <1>1, <1>2, PTL DEF MCSpec

(***************************************************************************)
(* Every echo the sockets hear is of a frame that was sent, once and in     *)
(* order, and as long as no loss is counted the frames that came are        *)
(* delivered in the order of their arrival, none missing: for any mailboxes,*)
(* queue length, traffic, errors, failing calls and sleeps.                 *)
(***************************************************************************)
THEOREM FramesKeepOrder == MCSpec => []FramesInOrder
<1>1. ASSUME ChipInv PROVE Chip!EchoesAreSent
  <2>. SUFFICES ASSUME ~cut PROVE /\ txmb # 0 /\ ~txflag => echo = txmb
                                  /\ Chip!Range(echoed) \subseteq Chip!Range(wire)
                                  /\ Chip!Increasing(echoed)
    BY DEF Chip!EchoesAreSent, Chip!None
  <2>1. echo = txmb /\ Chip!Increasing(echoed)
    BY <1>1 DEF ChipInv, EchoPlace, EchoOrder
  <2>2. ASSUME NEW k \in DOMAIN echoed PROVE \E h \in DOMAIN wire : wire[h] = echoed[k]
    <3>1. echoed[k] \in Nat
      BY <1>1 DEF ChipInv, ChipTypes, TxTypes
    <3>. QED  BY <1>1, <3>1 DEF ChipInv, EchoOrder, In
  <2>. QED  BY <2>1, <2>2 DEF Chip!Range
<1>2. ASSUME ChipInv PROVE Chip!ReceivedInOrder
  <2>. SUFFICES ASSUME ~counted
                PROVE  /\ Chip!Increasing(Taken)
                       /\ 1..came = Chip!Range(Taken \o irq.batch) \cup (Chip!Range(mb) \ {0})
    BY DEF Chip!ReceivedInOrder, Taken, Chip!None
  <2>1. Accounted
    BY <1>2 DEF ChipInv, Arrivals
  <2>2. Taken \in Seq(Nat) /\ irq.batch \in Seq(Nat) /\ mb \in [RxMbs -> Nat] /\ came \in Nat
    <3>1. up \in Seq(Nat) /\ rxq \in Seq(Nat) /\ irqq \in Seq(Nat)
      BY <1>2 DEF ChipInv, ChipTypes, RxTypes
    <3>2. up \o rxq \in Seq(Nat)
      BY <3>1, ConcatProperties
    <3>3. (up \o rxq) \o irqq \in Seq(Nat)
      BY <3>1, <3>2, ConcatProperties
    <3>. QED  BY <1>2, <3>3 DEF ChipInv, ChipTypes, RxTypes, IrqTypes, Taken
  <2>3. \A x : x \in Chip!Range(Taken \o irq.batch) <=> In(x, Taken) \/ In(x, irq.batch)
    <3>1. \A x : In(x, Taken \o irq.batch) <=> In(x, Taken) \/ In(x, irq.batch)
      BY <2>2, Joined
    <3>. QED  BY <3>1 DEF In, Chip!Range
  <2>4. \A x : x \in Chip!Range(mb) <=> Holds(mb, x)
    BY <2>2 DEF Chip!Range, Holds
  <2>5. \A x : In(x, Taken) \/ Waits(x) => x \in Nat
    BY <2>2, ElementOfSeq DEF In, Waits, Holds
  <2>6. \A x : x \in 1..came <=> x \in Nat /\ 1 <= x /\ x <= came
    BY <2>2
  <2>. QED  BY <2>1, <2>3, <2>4, <2>5, <2>6 DEF Accounted, Waits
<1>3. ChipInv => FramesInOrder
  BY <1>1, <1>2 DEF FramesInOrder
<1>. QED  BY <1>3, ChipInductive, PTL

(* Once nothing is left to handle, the state the interface reports is that  *)
(* of the controller, for any traffic, errors, failing calls and sleeps, on *)
(* every core of the device table.                                          *)
THEOREM StateIsReported == MCSpec => []StateKnown
<1>1. ChipInv => StateKnown
  BY StateIsKnown DEF ChipInv
<1>. QED  BY <1>1, ChipInductive, PTL

(* Whatever timing the CAN core asks for within the limits of the driver,   *)
(* the controller gets it as it was asked for.                              *)
THEOREM TimingIsKept == MCSpec => []TimingKept
<1>. DEFINE Inv == want \in Wanted /\ TimingKept
<1>1. MCInit => Inv
  BY DEF MCInit, Timing!Init, TimingKept, Timing!TimingKept
<1>2. ASSUME Inv, Timing!Next PROVE Inv'
  <2>1. want' = want /\ want \in Wanted
    BY <1>2 DEF Timing!Next, Timing!SetBittiming
  <2>2. want.kind \in {"ctrl", "cbt", "fdcbt"}
    BY <2>1, TimingAssumption
  <2>3. CASE want.kind = "ctrl"
    <3>1. regs' = Timing!WriteCtrl(want')
      BY <1>2, <2>1, <2>3 DEF Timing!Next, Timing!SetBittiming
    <3>. QED  BY <2>1, <2>3, <3>1, CtrlKept
  <2>4. CASE want.kind = "cbt"
    <3>1. regs' = Timing!WriteCbt(want')
      BY <1>2, <2>1, <2>4 DEF Timing!Next, Timing!SetBittiming
    <3>. QED  BY <2>1, <2>4, <3>1, CbtKept
  <2>5. CASE want.kind = "fdcbt"
    <3>1. regs' = Timing!WriteFdcbt(want')
      BY <1>2, <2>1, <2>5 DEF Timing!Next, Timing!SetBittiming
    <3>. QED  BY <2>1, <2>5, <3>1, FdcbtKept
  <2>. QED  BY <2>1, <2>2, <2>3, <2>4, <2>5
<1>3. ASSUME Inv, UNCHANGED timingVars PROVE Inv'
  BY <1>3 DEF timingVars, TimingKept, Timing!TimingKept, Timing!Before, Timing!After
<1>4. Inv /\ [MCNext]_<<which, vars, chipVars, timingVars>> => Inv'
  BY <1>2, <1>3 DEF MCNext, AppNext, ChipNext, TimingNext
<1>. HIDE DEF Inv
<1>5. MCSpec => []Inv
  BY <1>1, <1>4, PTL DEF MCSpec
<1>6. Inv => TimingKept
  BY DEF Inv
<1>. QED  BY <1>5, <1>6, PTL
=============================================================================
