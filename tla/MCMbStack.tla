------------------------------ MODULE MCMbStack ------------------------------
(* MbStack with a table of three slots and one handler built in.           *)
EXTENDS MbStack

MCBuiltIn == <<[code |-> 1, handler |-> "h1"]>>
MCIdLengths == 0..3
==============================================================================
