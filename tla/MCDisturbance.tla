--------------------------- MODULE MCDisturbance ---------------------------
(* Disturbance on one bank of three rows: the known target between two       *)
(* hammered rows, itself written.                                            *)
EXTENDS Disturbance

CONSTANTS b1, r1

MCEngines == {<<"none", TRUE>>, <<"oracle", FALSE>>}

MCRankOf == [b \in {b1} |-> r1]
MCAnchor == [k \in {b1} \X (0 .. 2) |-> 2 * k[2]]

(* The second cell of the outer rows takes over the byte of their first.      *)
MCCellSeq ==
  [k \in {b1} \X (0 .. 2) |->
     IF k = <<b1, 1>> THEN <<<<0, 0>>, <<1, 1>>>>
     ELSE <<<<0, 1>>, <<0, 2>>>>]
MCBlast == <<<<1, 1>>>>
MCTarget == <<b1, 1>>
MCKnownHc == [single |-> 6, double |-> 5]
MCSampledHc ==
  [k \in {b1} \X (0 .. 2) |->
     [single |-> [all_zeros |-> 2, all_ones |-> 3], double |-> [all_zeros |-> 2, all_ones |-> 2]]]
MCGain == [single |-> 2, double |-> 5]

(* The largest threshold that still protects the target: 2 * (tRH - 1) < 5.   *)
MCtRH == 3

MCChunks == {{0}}
MCRequested == {<<b1, 0>>, <<b1, 2>>}
MCWritten == {<<b1, 1>>}
=============================================================================
