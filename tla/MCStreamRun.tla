---------------------------- MODULE MCStreamRun ----------------------------
(* Two runs of three strands on one endpoint: benches of two levels, the    *)
(* first of two waves (or of a prompt that does not fit), and loads.       *)
EXTENDS StreamRun
CONSTANTS s1, s2, s3

Uneven == << << {s1}, {s2} >>, << {s3} >> >>
=============================================================================
