---------------------------- MODULE ProfileModel ----------------------------
(***************************************************************************)
(* What a profile build computes from a checkout (profile_builder), and what *)
(* the disturbance engine asks of the profile it loads.                      *)
(*                                                                         *)
(* A source is [pin, hashed, parsed, counted, rd, ds, ks, config]: the        *)
(* manifest entry's state, whether the data files match their hashes, whether *)
(* every row parses and is counted, the measurements, whether the             *)
(* Kolmogorov-Smirnov distances are within their gate, and the recipe.  A     *)
(* chip is <<family, number>>.  Activation counts are small integers.         *)
(***************************************************************************)
EXTENDS Integers, FiniteSets, SequencesExt

CONSTANTS
  HOLDOUT_CHIPS,     \* chips kept for validation
  HoldoutRows,       \* <<chip, row>> pairs the row hash keeps for validation
  STANDARD_FACTS     \* standards with an adapter -> has it pseudo channels

AGGR_CLASSES  == {"single", "double"}
DATA_PATTERNS == {"all_ones", "all_zeros"}
Ratio(num, den) == [num |-> num, den |-> den]
row_median_ratio_gate  == Ratio(3, 2)
chip_median_ratio_gate == Ratio(5, 2)
direction_bias_min_strength == Ratio(115, 100)

family_of(chip) == chip[1]
Families(recs)  == {family_of(r.chip) : r \in recs}

-----------------------------------------------------------------------------
(* The split.                                                               *)

is_holdout_row(chip, row) == <<chip, row>> \in HoldoutRows
IsHoldout(r) == r.chip \in HOLDOUT_CHIPS \/ is_holdout_row(r.chip, r.row)
Train(recs)       == {r \in recs : ~IsHoldout(r)}
row_holdout(recs)  == {r \in recs : IsHoldout(r) /\ r.chip \notin HOLDOUT_CHIPS}
chip_holdout(recs) == {r \in recs : r.chip \in HOLDOUT_CHIPS}

-----------------------------------------------------------------------------
(* Medians and geometric means, compared without division.                   *)

Flipped(recs, f, c, p) ==
  {r \in recs : family_of(r.chip) = f /\ r.class = c /\ r.pattern = p /\ r.flips > 0}

(* Twice the median.                                                         *)
Median2(recs) ==
  LET q == SetToSortSeq(recs, LAMBDA a, b : a.hc < b.hc)
      n == Len(q)
  IN q[(n + 1) \div 2].hc + q[n \div 2 + 1].hc

Product(recs) == FoldSet(LAMBDA r, acc : r.hc * acc, 1, recs)

(* The median of held against exp(mu) of the fit: within a factor g.          *)
Within(held, fit, g) ==
  LET n == Cardinality(fit)
      m == Median2(held)
  IN /\ Product(fit) * (2 * g.den)^n <= (m * g.num)^n
     /\ (m * g.den)^n <= Product(fit) * (2 * g.num)^n

-----------------------------------------------------------------------------
(* The fit: per family, the samples of each stratum and the direction.        *)

FitStratum(train, f, c, p) == {r \in Flipped(train, f, c, p) : r.hc > 0}

Fits(rd) ==
  \A f \in Families(rd), c \in AGGR_CLASSES, p \in DATA_PATTERNS :
    Cardinality(FitStratum(Train(rd), f, c, p)) >= 2

(* A pattern without samples counts as infinitely strong.                    *)
Single(recs, f, p) == Flipped(recs, f, "single", p)
dominant_pattern(recs, f) ==
  IF /\ Single(recs, f, "all_zeros") # {}
     /\ \/ Single(recs, f, "all_ones") = {}
        \/ Median2(Single(recs, f, "all_zeros")) < Median2(Single(recs, f, "all_ones"))
  THEN "all_zeros" ELSE "all_ones"

Biased(train, f) ==
  /\ \A p \in DATA_PATTERNS : Single(train, f, p) # {}
  /\ LET ones  == Median2(Single(train, f, "all_ones"))
         zeros == Median2(Single(train, f, "all_zeros"))
         g     == direction_bias_min_strength
     IN /\ ones > 0 /\ zeros > 0
        /\ ones * g.den >= zeros * g.num \/ zeros * g.den >= ones * g.num

supported_temperatures(ds) == {d.temp : d \in ds}

-----------------------------------------------------------------------------
(* The held-out report.  A check without enough samples is not made.          *)

MedianGate(held, train, f, c, p, g) ==
  LET h == Flipped(held, f, c, p)
  IN Cardinality(h) >= 2 => Within(h, FitStratum(train, f, c, p), g)

OrderingGate(held, f, p) ==
  LET single == Flipped(held, f, "single", p)
      double == Flipped(held, f, "double", p)
  IN single # {} /\ double # {} => Median2(single) > Median2(double)

DirectionGate(held, train, f) ==
  LET ones  == Single(held, f, "all_ones")
      zeros == Single(held, f, "all_zeros")
  IN Biased(train, f) /\ ones # {} /\ zeros # {} =>
       dominant_pattern(train, f) = IF Median2(ones) < Median2(zeros) THEN "all_ones" ELSE "all_zeros"

report_passed(src) ==
  LET train == Train(src.rd)
      rows  == row_holdout(src.rd)
      chips == chip_holdout(src.rd)
  IN /\ {r.chip : r \in train} \cap HOLDOUT_CHIPS = {}
     /\ src.ks
     /\ \A f \in Families(src.rd), p \in DATA_PATTERNS :
          /\ \A c \in AGGR_CLASSES :
               /\ MedianGate(rows, train, f, c, p, row_median_ratio_gate)
               /\ MedianGate(chips, train, f, c, p, chip_median_ratio_gate)
          /\ \A held \in {rows, chips} : OrderingGate(held, f, p) /\ DirectionGate(held, train, f)

-----------------------------------------------------------------------------
(* The gates of a build, in order: the pin, the tables, the fit, the report,  *)
(* the standard.                                                             *)

pinned(src) == src.pin = "admitted" /\ src.hashed

(* (A bug: the report is written down and not looked at.)                    *)
Unvalidated(src) ==
  /\ pinned(src) /\ src.parsed /\ src.counted
  /\ Fits(src.rd)
  /\ src.config.standard \in DOMAIN STANDARD_FACTS

Admissible(src) ==
  /\ pinned(src) /\ src.parsed /\ src.counted
  /\ Fits(src.rd)
  /\ report_passed(src)
  /\ src.config.standard \in DOMAIN STANDARD_FACTS

Profile(src) ==
  [profile_id    |-> src.config.profile_id,
   standard      |-> src.config.standard,
   temps         |-> supported_temperatures(src.ds),
   extrapolation |-> src.config.extrapolation]

-----------------------------------------------------------------------------
(* What the engine answers to a loaded profile: "ok", a stable code, or        *)
(* "ValueError" for an error no handler knows.                                *)

(* The standard must have an adapter, and the geometry its levels.            *)
from_geometry(geometry) ==
  IF geometry.standard \notin DOMAIN STANDARD_FACTS THEN "UNAVAILABLE_CAPABILITY"
  ELSE IF STANDARD_FACTS[geometry.standard] # geometry.pseudochannel THEN "PROFILE_REJECTED"
  ELSE "ok"

Engine(profile, geometry, temperature) ==
  IF profile.standard # geometry.standard THEN "PROFILE_REJECTED"
  ELSE IF from_geometry(geometry) # "ok" THEN from_geometry(geometry)
  ELSE IF profile.extrapolation THEN "ValueError"
  ELSE IF temperature \notin profile.temps THEN "PROFILE_REJECTED"
  ELSE IF ~geometry.classified THEN "ValueError"
  ELSE "ok"
=============================================================================
