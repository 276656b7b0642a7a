---------------------------- MODULE MCCanSocket ----------------------------
(* CanSocket with CAN frames of four bytes, a buffer of ten and a checksum *)
(* in place of the CRC.                                                    *)
EXTENDS CanSocket

MCCrc == [s \in Seq(Byte) |-> FoldLeft(LAMBDA c, b : (5 * c + b + 1) % 65536, 5, s)]

\* Requests whose data hold the header byte, without data and as long as the
\* buffer, with versions and commands the program does not know.
MCRequests ==
  {[ver |-> 1, cmd |-> 1, data |-> d] : d \in {<<>>, <<60, 60>>, <<60, 1, 1>>}}
    \cup {[ver |-> 0, cmd |-> 1, data |-> <<60>>],
          [ver |-> 2, cmd |-> 1, data |-> <<7>>], [ver |-> 1, cmd |-> 2, data |-> <<60, 60, 7>>]}

\* Headers alone and in the middle, sizes within, at and beyond the limit.
MCNoise == {<<60, 1, 1, 0>>, <<3, 0, 0, 0>>, <<4, 60>>, <<0, 1, 60, 60>>, <<60>>}
============================================================================
