------------------------------ MODULE MCEventBus ------------------------------
(***************************************************************************)
(* Two events, two handlers on the project's channel and two on the global *)
(* one, each with two listeners at most.                                   *)
(***************************************************************************)
EXTENDS EventBusProperties

CONSTANTS h1, g1, g2

MCUses ==
    {[channels |-> {}, publishers |-> 2, clears |-> TRUE]}
        \cup [channels : {{"project"}, {"global"}}, publishers : {1}, clears : {FALSE}]
MCEvents == 1..2
MCProjectHandlers == {h1}
MCGlobalHandlers == {g1, g2}
===============================================================================
