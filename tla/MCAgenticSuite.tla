--------------------------- MODULE MCAgenticSuite ---------------------------
(* One bench job with either suite, and two bench runs of the controller,  *)
(* on one endpoint or on two.                                              *)
EXTENDS AgenticSuite
CONSTANTS eval1, r1, r2, u1, u2

MCKindOf == [j \in Job |-> "agentic"]
OneOrTwo == {[r \in Run |-> u1], [r \in Run |-> IF r = r1 THEN u1 ELSE u2]}
JustOne == {[r \in Run |-> u1]}
=============================================================================
