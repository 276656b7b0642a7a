---------------------------- MODULE MCModbusTcp ----------------------------
(* ModbusTcp with three requests over two connections.  The frame buffer   *)
(* holds one frame of each kind and part of the next.                      *)
EXTENDS ModbusTcp

\* A read (exact length), a multiple write (length not checked), a read.
MCData == <<1, 2, 1>>
MCExact == <<TRUE, FALSE, TRUE>>
MCAnnounced == [r \in 1..3 |-> MCData[r] + 1]
MCPid == [r \in 1..3 |-> TRUE]

\* Two requests, for the runs with more interleaving.
MCTwoData == <<1, 1>>
MCTwoExact == <<TRUE, FALSE>>
MCTwoAnnounced == <<2, 2>>
MCTwoPid == <<TRUE, TRUE>>

\* The second frame announces more than the buffer holds.
MCBadAnnounced == <<2, 9>>
============================================================================
