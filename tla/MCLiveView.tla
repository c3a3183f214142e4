----------------------------- MODULE MCLiveView -----------------------------
(* Two snapshots with different models.                                    *)
EXTENDS LiveView
CONSTANTS m1, m2

TwoSnapshots == <<m1, m2>>
=============================================================================
