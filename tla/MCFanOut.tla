------------------------------ MODULE MCFanOut ------------------------------
(* One strand with both streams, followed by one tab.                      *)
EXTENDS FanOut
CONSTANTS s1, v1
=============================================================================
