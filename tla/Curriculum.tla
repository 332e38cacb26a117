------------------------------ MODULE Curriculum ------------------------------
(***************************************************************************)
(* A training configuration and what its readers make of it: the ladder of    *)
(* stages (rowhammer_env/llm/curriculum.py), the scoped experiment             *)
(* (rowhammer_env/poc.py), the selection of one stage and its prompts          *)
(* (scripts/train_grpo.py), the shaping weight (llm/shaping.py).               *)
(*                                                                         *)
(* A seed spec is [list, range], either Unset.  A stage entry is [name, tier, *)
(* band, tasks, spec, ref, weight]; reference_min_success and the reward        *)
(* weights are counted in tenths.                                            *)
(***************************************************************************)
EXTENDS Integers, Sequences, FiniteSets, SequencesExt

CONSTANTS
  Unset, Bad,     \* an absent field; what a parser that raises returns
  TASK_PATHS,     \* the scoped tasks, in order
  MIN_TEST_SEEDS, MIN_TURNS

TIER_ORDER == <<"tier0", "tier2a", "tier2b">>
BAND_ORDER == <<"", "easy", "medium", "hard">>
Position(list, x) == CHOOSE i \in DOMAIN list : list[i] = x

Upward(lo, hi) == [i \in 1..(hi - lo + 1) |-> lo + i - 1]

-----------------------------------------------------------------------------
(* Three readers of seeds.  The ladder's takes one form and lets a list repeat *)
(* itself, the trainer's prefers the range and lets it be empty, the           *)
(* experiment's allows neither.                                              *)

_parse_seeds(spec) ==
  IF spec.list # Unset /\ spec.range # Unset THEN Bad
  ELSE IF spec.range # Unset THEN IF spec.range[2] < spec.range[1] THEN Bad ELSE Upward(spec.range[1], spec.range[2])
  ELSE IF spec.list \in {Unset, <<>>} THEN Bad ELSE spec.list

_parse_seed_spec(spec) ==
  IF spec.range # Unset THEN Upward(spec.range[1], spec.range[2])
  ELSE IF spec.list \in {Unset, <<>>} THEN Bad ELSE spec.list

seed_list(spec) ==
  LET seeds == _parse_seeds(spec)
  IN IF seeds = Bad \/ ~IsInjective(seeds) THEN Bad ELSE seeds

-----------------------------------------------------------------------------
(* The ladder: well-formed stages, never a harder one before an easier.       *)

_stage_from_entry(e) ==
  /\ e.tier \in ToSet(TIER_ORDER) /\ e.band \in ToSet(BAND_ORDER)
  /\ e.tasks # <<>>
  /\ _parse_seeds(e.spec) # Bad
  /\ e.ref \in 0..10

Rank(e) == <<Position(TIER_ORDER, e.tier), Position(BAND_ORDER, e.band)>>
Harder(a, b) == a[1] > b[1] \/ (a[1] = b[1] /\ a[2] > b[2])

_assert_non_decreasing_difficulty(stages) ==
  \A i \in 2..Len(stages) : ~Harder(Rank(stages[i - 1]), Rank(stages[i]))

load_curriculum(cfg) ==
  /\ cfg.curriculum # <<>>
  /\ \A i \in DOMAIN cfg.curriculum : _stage_from_entry(cfg.curriculum[i])
  /\ _assert_non_decreasing_difficulty(cfg.curriculum)

-----------------------------------------------------------------------------
(* The shaping weight.                                                      *)

validate_shaping_weight(success, probe) == success > 0 /\ probe >= 0 /\ probe < success

DEFAULT_PROBE_SHAPING_WEIGHT == 0
WeightOf(probe) == IF probe = Unset THEN DEFAULT_PROBE_SHAPING_WEIGHT ELSE probe

-----------------------------------------------------------------------------
(* The scoped experiment.                                                   *)

Seeds(stages) == UNION {ToSet(_parse_seeds(stages[i].spec)) : i \in DOMAIN stages}

(* (A bug: the benchmark is only compared with the validation seeds.)          *)
disjoint_from_validation(train, validation, test) == validation \cap (train \cup test) = {}

disjoint(train, validation, test) == train \cap validation = {} /\ train \cap test = {} /\ validation \cap test = {}

validate_config(cfg) ==
  /\ load_curriculum(cfg)
  /\ FlattenSeq([i \in DOMAIN cfg.curriculum |-> cfg.curriculum[i].tasks]) = TASK_PATHS
  /\ \A spec \in {cfg.eval, cfg.benchmark} : spec # Unset /\ seed_list(spec) # Bad
  /\ LET validation == ToSet(seed_list(cfg.eval))
         test       == ToSet(seed_list(cfg.benchmark))
     IN disjoint(Seeds(cfg.curriculum), validation, test) /\ Cardinality(test) >= MIN_TEST_SEEDS
  /\ cfg.probe # Unset /\ validate_shaping_weight(cfg.success, cfg.probe)
  /\ cfg.max_turns >= MIN_TURNS

-----------------------------------------------------------------------------
(* One stage of it: the positions of that name, the weight the first of them    *)
(* sets, and what the run trains and validates on.                            *)

filter_curriculum_to_stage(cfg, name) == {i \in DOMAIN cfg.curriculum : cfg.curriculum[i].name = name}

first_entry(cfg, name) ==
  LET at == filter_curriculum_to_stage(cfg, name) IN cfg.curriculum[CHOOSE i \in at : \A j \in at : i <= j]

probe_shaping_weight(cfg, name) ==
  LET weight == first_entry(cfg, name).weight IN WeightOf(IF weight # Unset THEN weight ELSE cfg.probe)

task_seed_pairs(cfg, at) ==
  UNION {ToSet(cfg.curriculum[i].tasks) \X ToSet(_parse_seeds(cfg.curriculum[i].spec)) : i \in at}

eval_task_seed_pairs(cfg, at) ==
  IF cfg.eval = Unset THEN {}
  ELSE (UNION {ToSet(cfg.curriculum[i].tasks) : i \in at}) \X ToSet(_parse_seed_spec(cfg.eval))
=============================================================================
