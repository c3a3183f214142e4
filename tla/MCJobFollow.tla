---------------------------- MODULE MCJobFollow ----------------------------
(* One load, followed by the page that started it.                        *)
EXTENDS JobFollow
CONSTANTS load1

MCKindOf == [j \in Job |-> "serve"]
=============================================================================
