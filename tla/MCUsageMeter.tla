----------------------------- MODULE MCUsageMeter -----------------------------
(* A process reached under two URLs, and one more of each of them.         *)
EXTENDS UsageMeter
CONSTANTS p1, p2, p3, u1, u2, i1
Aliases == [p \in Proc |-> IF p = p1 THEN Url ELSE IF p = p2 THEN {u1} ELSE {u2}]
=============================================================================
