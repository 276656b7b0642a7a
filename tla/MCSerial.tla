------------------------------ MODULE MCSerial ------------------------------
(***************************************************************************)
(* The serial slave: MbRtu with a master that keeps to the protocol, MbRtu  *)
(* with one that does not and a process that is scheduled late, on a buffer *)
(* that frames overrun, and MbAscii.  `which' says which of them a          *)
(* behaviour is of.                                                         *)
(***************************************************************************)
EXTENDS MCMbRtu

CONSTANTS Noise, AscSize, AscTarget, AscPduSizeMin, AscPduSizeMax   \* of MbAscii

VARIABLES which,
          (* of MbAscii, those MbRtu has too with an `a' before the name    *)
          aAsked, line, aRcvState, eBytePos, aRcvBufferPos, ucASCIIBuf, aSndState,
          aSndBufferCur, aSndBufferCount, transmitting, a_buffer, aArmed, aEvents, aMpc, aRcv,
          aReplies, aRuns, stray, aFailed

Busy == INSTANCE MbRtu WITH
  NumRequests <- 2, Size <- MCLongSize, Target <- MCTwoTarget, Good <- MCTwoGood,
  PduSizeMin <- 1, PduSizeMax <- 2, Polite <- FALSE, Prompt <- FALSE

Ascii == INSTANCE MbAscii WITH
  Size <- AscSize, Target <- AscTarget, PduSizeMin <- AscPduSizeMin, PduSizeMax <- AscPduSizeMax,
  asked <- aAsked, eRcvState <- aRcvState, usRcvBufferPos <- aRcvBufferPos,
  eSndState <- aSndState, pucSndBufferCur <- aSndBufferCur, usSndBufferCount <- aSndBufferCount,
  tx_buffer <- a_buffer, armed <- aArmed, events <- aEvents, mpc <- aMpc, rcv <- aRcv,
  replies <- aReplies, runs <- aRuns, failed <- aFailed

\* What stands on the line before a request holds no whole frame that is not
\* followed by a silence: nobody sends while the slave is busy.
Character == [kind : {"colon", "CR", "LF", "silence", "digit"}, req : Nat, at : Nat, half : 0..2]
Calm(n) ==
  \A i \in 1..(Len(n) - 1) :
    n[i] = Ascii!CR /\ n[i + 1] = Ascii!LF => i + 2 <= Len(n) /\ n[i + 2] = Ascii!Silence
ASSUME AsciiAssumption ==
  /\ AscPduSizeMax \in Nat /\ AscSize \in Seq(Nat)
  /\ \A n \in Noise : n \in Seq(Character) /\ Calm(n)

(***************************************************************************)
(* The requests of MbAscii are three single writes; before one may stand:   *)
(* up to three characters of any kind in any order, half a frame, a frame   *)
(* that fills the buffer and one that is too long.                          *)
(***************************************************************************)
MCAscSize == <<3, 3, 3>>
MCAscTarget == <<"me", "all", "me">>
Mark(k) == [kind |-> k, req |-> 0, at |-> 0, half |-> 0]
Half(n) == [j \in 1..(2 * n) |->
              [kind |-> "digit", req |-> 0, at |-> (j + 1) \div 2, half |-> IF j % 2 = 1 THEN 1 ELSE 2]]
Ending == <<Mark("CR"), Mark("LF")>>
Short ==
  UNION {[1..k -> {Mark(m) : m \in {"colon", "CR", "LF", "silence"}} \cup {Half(1)[1]}] : k \in 0..3}
MCNoise ==
  {n \in Short : ~\E i \in 1..(Len(n) - 1) : <<n[i], n[i + 1]>> = Ending}
    \cup {<<Mark("colon")>> \o Half(k) \o e : k \in {3, 4, 5},
          e \in {<<>>, <<Mark("CR")>>, Ending \o <<Mark("silence")>>}}

asciiVars ==
  <<aAsked, line, aRcvState, eBytePos, aRcvBufferPos, ucASCIIBuf, aSndState, aSndBufferCur,
    aSndBufferCount, transmitting, a_buffer, aArmed, aEvents, aMpc, aRcv, aReplies, aRuns,
    stray, aFailed>>

MCInit ==
  /\ which \in {"polite", "busy", "ascii"}
  /\ IF which = "busy" THEN Busy!Init ELSE Init
  /\ Ascii!Init
PoliteNext == which = "polite" /\ Next /\ UNCHANGED <<which, asciiVars>>
BusyNext == which = "busy" /\ Busy!Next /\ UNCHANGED <<which, asciiVars>>
AsciiNext == which = "ascii" /\ Ascii!Next /\ UNCHANGED <<which, vars>>
MCNext == PoliteNext \/ BusyNext \/ AsciiNext

\* The fairness of each, for the behaviours that are its own.
MCFairness ==
  /\ WF_vars(which = "polite" /\ RxStep) /\ WF_vars(which = "polite" /\ Expire)
  /\ WF_vars(which = "polite" /\ HandlerStep) /\ WF_vars(which = "polite" /\ MainStep)
  /\ WF_vars(which = "polite" /\ TxStep)
  /\ WF_asciiVars(which = "ascii" /\ Ascii!SendRequest)
  /\ WF_asciiVars(which = "ascii" /\ Ascii!Serial)
  /\ WF_asciiVars(which = "ascii" /\ Ascii!Main)
  /\ WF_asciiVars(which = "ascii" /\ Ascii!TransmitFSM)
MCSpec == MCInit /\ [][MCNext]_<<which, vars, asciiVars>> /\ MCFairness

(* With a polite master the receiver is handed every character of the line  *)
(* once and in order, see GetByteIsNew in MbRtu.  With one that sends while *)
(* the slave is busy the read index may be reset in the middle of a chunk,  *)
(* the characters before it are then handed over again and as many of the   *)
(* last ones never: only that they are of the chunk is left.                *)
CharactersInOrder ==
  /\ which = "polite" => GetByteIsNew
  /\ which = "busy" => Busy!GetByteInRange

(* With a polite master: replies are right and requests run once, every     *)
(* good request to this slave is answered, see MbRtu.                       *)
PoliteServed == which = "polite" => RepliesCorrect /\ RunsOnce
PoliteAnswered == which = "polite" => RequestsAnswered
(* mbascii.c: requests are served whatever stood on the line before them,   *)
(* see MbAscii.                                                             *)
AsciiServes == which = "ascii" => Ascii!AsciiServes
(* The assertions of mbrtu.c hold with a polite master, and the receiver    *)
(* never stores behind its buffer (of 2 bytes) whatever the master does;    *)
(* those of mbascii.c hold whatever arrives but for two.                    *)
AssertsHold ==
  /\ which = "polite" => NoAssertFails
  /\ which = "busy" => usRcvBufferPos <= 2
  /\ which = "ascii" => Ascii!AssertsHold
=============================================================================
