---------------------------- MODULE MCBatchRollout ----------------------------
(* A batch of three episodes in waves of two: the second wave is not full.  *)
EXTENDS BatchRollout
MCSpecs == 1..3
MCTaskOf == <<"x", "x", "y">>
\* The code treats the episodes alike; letting one of them say everything and
\* the others less keeps what they may do together small.
MCTextsOf == <<{"act"}, {"act", "odd"}, {"finish"}>>
=============================================================================
