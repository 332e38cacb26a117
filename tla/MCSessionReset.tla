--------------------------- MODULE MCSessionReset ---------------------------
(* Two sessions that may choose the same secret mapper, two builds, one key    *)
(* rotation.  The measurements: one family, a training chip with two of its    *)
(* four rows held out, and a held-out chip.                                   *)
EXTENDS SessionReset

Chip(n) == <<"hisasa", n>>
MCHoldoutChips == {Chip(3)}
MCHoldoutRows  == {<<Chip(1), 3>>, <<Chip(1), 4>>}
MCFacts        == "DDR4" :> FALSE @@ "HBM2" :> TRUE
MCGeometry     == [standard |-> "DDR4", pseudochannel |-> FALSE, classified |-> TRUE]

(* Single-sided counts above double-sided ones, all ones the weaker pattern.   *)
Count(class, pattern, row) ==
  (IF class = "single" THEN 6 ELSE 3) + (IF pattern = "all_zeros" THEN 2 ELSE 0) + (row % 2)
Rd == {[chip |-> c, row |-> r, class |-> k, pattern |-> p, hc |-> Count(k, p, r), flips |-> 1] :
         c \in {Chip(1), Chip(3)}, r \in 1..4, k \in AGGR_CLASSES, p \in DATA_PATTERNS}
Ds(temps) == {[chip |-> Chip(1), temp |-> t, row |-> 1, hc |-> 3] : t \in temps}
Recipe(standard) == [profile_id |-> "ddr4_vts25_v1", standard |-> standard, extrapolation |-> FALSE]
Good == [pin |-> "admitted", hashed |-> TRUE, parsed |-> TRUE, counted |-> TRUE, ks |-> TRUE,
         rd |-> Rd, ds |-> Ds({50}), config |-> Recipe("DDR4")]

(* Another good source; a module far off its fit; rows whose direction is the  *)
(* other one; too few samples; data that is not the pinned data; another        *)
(* standard.                                                                 *)
MCSources ==
  "good"    :> Good @@
  "warm"    :> [Good EXCEPT !.ds = Ds({50, 80})] @@
  "drifted" :> [Good EXCEPT !.rd = {IF r.chip = Chip(3) THEN [r EXCEPT !.hc = 4 * @] ELSE r : r \in Rd}] @@
  "turned"  :> [Good EXCEPT !.rd = {IF r.chip = Chip(1) /\ r.row > 2 /\ r.pattern = "all_zeros"
                                    THEN [r EXCEPT !.hc = @ - 3] ELSE r : r \in Rd}] @@
  "thin"    :> [Good EXCEPT !.rd = {r \in Rd : r.row # 1}] @@
  "altered" :> [Good EXCEPT !.hashed = FALSE] @@
  "lpddr"   :> [Good EXCEPT !.config = Recipe("LPDDR5")]

Request(m, t) == [mapper |-> m, mitigation |-> "none", temperature |-> t, profile_id |-> "ddr4_vts25_v1"]
MCSymmetry == Permutations(Sessions) \cup Permutations(Builders)
MCRequests ==
  {Request("xor1", 50), Request("xor2", 80), [Request("public", 50) EXCEPT !.mitigation = "para"],
   [Request("public", 50) EXCEPT !.profile_id = "hbm2_read_disturbance"]}
=============================================================================
