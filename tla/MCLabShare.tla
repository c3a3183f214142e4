----------------------------- MODULE MCLabShare -----------------------------
(* Two runs of any content and the slugs they may draw.                    *)
EXTENDS LabShare, TLC
CONSTANTS r1, r2, s1, s2, s3

Names == Permutations({r1, r2}) \cup Permutations({s1, s2, s3})
=============================================================================
