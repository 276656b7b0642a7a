------------------------------ MODULE MCMbRtu ------------------------------
(* MbRtu with frames of 3 and 4 bytes in a buffer of 5, or shorter.        *)
EXTENDS MbRtu

\* One request to this slave, a broadcast, one to another slave, a damaged one.
MCSize == <<4, 3, 4, 3>>
MCTarget == <<"me", "all", "other", "me">>
MCGood == <<TRUE, TRUE, TRUE, FALSE>>

\* Two requests to this slave.
MCTwoSize == <<3, 3>>
MCTwoTarget == <<"me", "me">>
MCTwoGood == <<TRUE, TRUE>>

\* A frame as long as the buffer of 5; one longer than a buffer of 2.
MCMaxSize == <<5>>
MCLongSize == <<1, 3>>
MCOneTarget == <<"me">>
MCOneGood == <<TRUE>>
============================================================================
