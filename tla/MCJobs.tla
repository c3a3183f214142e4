------------------------------- MODULE MCJobs -------------------------------
(* A load and a stop.                                                      *)
EXTENDS Jobs
CONSTANTS load1, halt

MCKindOf == [j \in Job |-> IF j = halt THEN "stop" ELSE "serve"]
=============================================================================
