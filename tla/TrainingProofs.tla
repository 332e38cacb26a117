---------------------------- MODULE TrainingProofs ----------------------------
(***************************************************************************)
(* Proofs about Training: for every configuration, bound and patience, the     *)
(* ladder trains easy before hard, nothing is scored on its training seeds,    *)
(* no lost rollout outearns a won one, the scoped experiment trains against    *)
(* its own kind of server, and what says complete is whole.                   *)
(***************************************************************************)
EXTENDS Training, SequenceTheorems, FiniteSetTheorems, TLAPS

-----------------------------------------------------------------------------
(* The inductive invariant.                                                 *)

Adapter == [line : Seq(Paths(cfg)), seeds : SUBSET Seeds(Stages)]

(* A line that ends with stage k: from the first one, or from the warm start.  *)
FromFirst(line, k) == line = SubSeq(names, 1, k)
FromWarm(line, k)  == \E j \in 1..k : line = <<"sft">> \o SubSeq(names, j, k)
Climbed(line, k)   == FromFirst(line, k) \/ FromWarm(line, k)

(* What stage k starts from.                                                *)
Below(line, k) ==
  \/ k = 1 /\ line = <<>>
  \/ line = <<"sft">>
  \/ k > 1 /\ Climbed(line, k - 1)

Fits(line, d) ==
  \/ d = "sft" /\ line = <<"sft">>
  \/ \E k \in DOMAIN Stages : d = names[k] /\ Climbed(line, k)

Programs == {"none", "grpo", "sft", "eval"}
GrpoPcs  == {"validate", "launch", "poll", "hang", "surface", "gate", "load", "manifest", "weigh",
             "train", "save", "mark", "stop"}
SftPcs   == {"check", "train", "save", "mark", "stop"}
EvalPcs  == {"begin", "episode", "export", "summary", "report"}
Ports    == {"free", "ours", "orphan", "foreign"}
Statuses == {"none", "running", "complete", "failed"}

Pcs      == {"off"} \cup GrpoPcs \cup SftPcs \cup EvalPcs

(* Fields that need no type are left as they are.                             *)
RunType ==
  /\ run \in [kind : Programs, pc : Pcs, name : {run.name}, resume : {run.resume}, ckpt : {run.ckpt},
              server : {run.server}, weights : Adapter, steps : Nat, zero : {run.zero}, bundle : {run.bundle},
              split : {run.split}, adapter : {run.adapter}, left : {run.left}, at : {run.at},
              status : {run.status}, why : {run.why}]
  /\ run.kind = "none" <=> run.pc = "off"
  /\ run.kind = "grpo" => run.pc \in GrpoPcs
  /\ run.kind = "sft" => run.pc \in SftPcs
  /\ run.kind = "eval" => run.pc \in EvalPcs

Directory == [manifest : BOOLEAN, weights : Adapter, marker : BOOLEAN, ckpt : Adapter]

DirType ==
  /\ dirs \in [Paths(cfg) -> Directory]
  /\ \A d \in Paths(cfg) :
       /\ dirs[d].weights.line # <<>> => Fits(dirs[d].weights.line, d)
       /\ dirs[d].ckpt.line # <<>> => Fits(dirs[d].ckpt.line, d)
       /\ dirs[d].marker => dirs[d].weights.line # <<>>
       /\ dirs[d].ckpt # Base => dirs[d].ckpt.line # <<>>
       /\ d # "sft" /\ (dirs[d].ckpt.line # <<>> \/ dirs[d].weights.line # <<>>) => load_curriculum(cfg)

(* The stage a run is of, and the stage before it.                           *)
Resumes(resume, k) ==
  \/ resume = None /\ k = 1
  \/ resume = "sft"
  \/ k > 1 /\ resume = names[k - 1]

GrpoInv ==
  run.kind = "grpo" =>
    /\ load_curriculum(cfg)
    /\ \E k \in DOMAIN Stages :
         /\ run.name = names[k]
         /\ \/ run.resume = None /\ run.ckpt = run.name /\ dirs[run.name].ckpt # Base
            \/ run.ckpt = None /\ Resumes(run.resume, k)
         /\ run.pc \in {"manifest", "weigh"} /\ run.ckpt = None => Below(run.weights.line, k)
         /\ run.pc = "train" => Climbed(run.weights.line, k) \/ (run.steps = 0 /\ Below(run.weights.line, k))
         /\ run.pc \in {"save", "mark"} => Climbed(run.weights.line, k)
    /\ run.pc \in {"validate", "launch", "poll", "hang", "surface", "gate", "load"} => run.weights = Base
    /\ run.pc \notin {"train", "save", "mark", "stop"} => run.steps = 0
    /\ run.pc = "mark" => dirs[run.name].weights.line # <<>>
    /\ cfg.poc /\ run.pc # "validate" => validate_config(cfg)
    /\ cfg.poc /\ run.pc \in {"gate", "load", "manifest", "weigh", "train"} => run.server # "foreign"
    /\ run.pc = "train" => validate_shaping_weight(cfg.success, shaping_weight)

SftInv ==
  run.kind = "sft" =>
    /\ run.name = "sft" /\ run.bundle \in Bundles
    /\ run.pc \in {"train", "save", "mark"} => run.weights.line = <<"sft">>
    /\ run.pc = "mark" => dirs["sft"].weights.line # <<>>

LadderInv ==
  /\ ladder \in [pc : {"off", "next", "waiting"}, at : Nat, resume : {ladder.resume}]
  /\ ladder.pc # "off" => /\ load_curriculum(cfg) /\ ladder.at # 0
                          /\ Resumes(ladder.resume, ladder.at)
  /\ ladder.pc = "waiting" => ladder.at \in DOMAIN Stages
  /\ ladder.pc = "next" => run.pc = "off"

PortInv == port \in Ports /\ (port = "ours" => run.kind = "grpo" /\ run.pc \notin {"validate", "launch"})

(* A bundle, whoever wrote it.                                              *)
Once(split)  == [at \in Planned(split) |-> 1]
Never(split) == [at \in Planned(split) |-> 0]

Counts(bundle) ==
  /\ DOMAIN bundle.sft = DOMAIN bundle.lines
  /\ \A at \in DOMAIN bundle.lines :
       bundle.lines[at] \in 0..1 /\ bundle.sft[at] \in 0..bundle.lines[at] /\ (bundle.sft[at] > 0 => at \in bundle.won)

Entire(bundle) ==
  /\ bundle.lines = Once(bundle.split) /\ bundle.sft \in {Once(bundle.split), Never(bundle.split)}
  /\ bundle.summary = summarize_records(bundle.lines, bundle.won)

BundleInv ==
  /\ DOMAIN bundles = Bundles
  /\ \A b \in Bundles :
       /\ bundles[b] \in [status : Statuses, split : Splits, weights : Adapter, lines : {bundles[b].lines},
                          won : {bundles[b].won}, sft : {bundles[b].sft}, summary : {bundles[b].summary}]
       /\ Counts(bundles[b])
       /\ bundles[b].status # "none" => validate_config(cfg)
       /\ bundles[b].status = "complete" => Entire(bundles[b])

(* The bundle of the evaluation that runs: an episode is a line once it is no    *)
(* longer to do, and is exported with it or not at all.                         *)
Written(bundle, left, exports, but) ==
  /\ bundle.split = run.split
  /\ left \subseteq Planned(run.split)
  /\ bundle.lines = [at \in Planned(run.split) |-> IF at \in left THEN 0 ELSE 1]
  /\ bundle.sft = [at \in Planned(run.split) |-> IF exports /\ at \notin left \cup but THEN 1 ELSE 0]

EvalInv ==
  run.kind = "eval" =>
    /\ run.bundle \in Bundles /\ run.split \in Splits /\ run.adapter \in Paths(cfg) \cup {None}
    /\ run.status \in {"complete", "failed"}
    /\ run.pc # "begin" => validate_config(cfg) /\ Bundle.status = "running"
    /\ run.pc = "episode" => Written(Bundle, run.left, Exports, {})
    /\ run.pc = "export" => /\ Exports /\ Written(Bundle, run.left, TRUE, {run.at})
                            /\ run.at \in Planned(run.split) \ run.left /\ run.at \in Bundle.won
    /\ run.pc \in {"summary", "report"} /\ run.status = "complete" =>
         Bundle.split = run.split /\ Bundle.lines = Once(run.split) /\ Bundle.sft \in {Once(run.split), Never(run.split)}
    /\ run.pc = "report" => Bundle.summary = summarize_records(Bundle.lines, Bundle.won)

IInv ==
  /\ cfg \in Configs /\ acts \in 0..MaxActs
  /\ RunType /\ DirType /\ GrpoInv /\ SftInv /\ LadderInv /\ PortInv /\ BundleInv /\ EvalInv

-----------------------------------------------------------------------------
(* Lines.                                                                   *)

(* The stages of a configuration have names of their own.                     *)
LEMMA NamesOf ==
  ASSUME cfg \in Configs
  PROVE  /\ Stages \in Seq({Stages[i] : i \in DOMAIN Stages}) /\ Len(Stages) \in Nat
         /\ DOMAIN Stages = 1..Len(Stages)
         /\ names \in Seq(Paths(cfg)) /\ Len(names) = Len(Stages) /\ DOMAIN names = DOMAIN Stages
         /\ \A i \in DOMAIN Stages : names[i] \in Paths(cfg) /\ names[i] # "sft" /\ names[i] # None
         /\ \A i, j \in DOMAIN Stages : names[i] = names[j] => i = j
         /\ "sft" \in Paths(cfg) /\ None \notin Paths(cfg) /\ cfg.poc \in BOOLEAN
<1>1. Stages \in Seq({Stages[i] : i \in DOMAIN Stages}) BY TrainingAssumption DEF Stages
<1>2. Len(Stages) \in Nat /\ DOMAIN Stages = 1..Len(Stages) BY <1>1, LenProperties
<1>3. \A i \in DOMAIN Stages : names[i] = cfg.curriculum[i].name /\ names[i] \in Paths(cfg)
  BY DEF names, Stages, Paths
<1>4. names \in Seq(Paths(cfg)) /\ Len(names) = Len(Stages) /\ DOMAIN names = DOMAIN Stages
  BY <1>2, <1>3 DEF names
<1>5. \A i, j \in DOMAIN Stages : names[i] = names[j] => i = j
  BY <1>3, TrainingAssumption DEF Stages
<1>6. \A i \in DOMAIN Stages : names[i] # "sft" BY <1>3, TrainingAssumption DEF Stages
<1>7. "sft" \in Paths(cfg) /\ None \notin Paths(cfg) /\ cfg.poc \in BOOLEAN BY TrainingAssumption DEF Paths
<1>8. QED BY <1>1, <1>2, <1>3, <1>4, <1>5, <1>6, <1>7

(* A stretch of the ladder is a sequence that ends with its last stage.        *)
LEMMA Stretch ==
  ASSUME cfg \in Configs, NEW k \in DOMAIN Stages, NEW j \in 1..k
  PROVE  /\ SubSeq(names, j, k) \in Seq(Paths(cfg)) /\ Len(SubSeq(names, j, k)) = k - j + 1
         /\ SubSeq(names, j, k)[k - j + 1] = names[k]
         /\ j < k => SubSeq(names, j, k) = Append(SubSeq(names, j, k - 1), names[k])
         /\ j = k => SubSeq(names, j, k) = <<names[k]>>
<1>1. k \in 1..Len(names) /\ Len(names) \in Nat /\ names \in Seq(Paths(cfg)) BY NamesOf
<1>2. \A i \in 1..Len(names) : names[i] \in Paths(cfg) BY <1>1
<1>3. SubSeq(names, j, k) \in Seq(Paths(cfg)) BY <1>1, <1>2
<1>4. Len(SubSeq(names, j, k)) = k - j + 1 /\ SubSeq(names, j, k)[k - j + 1] = names[k] BY <1>1
<1>5. ASSUME j < k PROVE SubSeq(names, j, k) = Append(SubSeq(names, j, k - 1), names[k])
  <2>1. j \in 1..Len(names) /\ k \in j..Len(names) BY <1>1
  <2> HIDE DEF names
  <2>2. SubSeq(names, j, k) = SubSeq(names, j, k - 1) \o <<names[k]>>
    BY <1>1, <2>1, SubSeqRecursiveSecond
  <2>3. SubSeq(names, j, k - 1) \in Seq(Paths(cfg)) BY <1>1, <1>2, <2>1
  <2>4. QED BY <2>2, <2>3, <1>1, <1>2, AppendIsConcat
<1>6. ASSUME j = k PROVE SubSeq(names, j, k) = <<names[k]>>
  <2>1. k - j + 1 = 1 BY <1>1, <1>6
  <2>2. Len(SubSeq(names, j, k)) = 1 /\ SubSeq(names, j, k)[1] = names[k] BY <1>4, <2>1
  <2>3. <<names[k]>> \in Seq(Paths(cfg)) /\ Len(<<names[k]>>) = 1 /\ <<names[k]>>[1] = names[k] BY <1>1, <1>2
  <2>4. \A i \in 1..1 : i = 1 OBVIOUS
  <2>5. QED BY <2>2, <2>3, <2>4, <1>3, SeqEqual
<1>7. QED BY <1>3, <1>4, <1>5, <1>6

LEMMA ClimbedLine ==
  ASSUME cfg \in Configs, NEW k \in DOMAIN Stages, NEW line, Climbed(line, k)
  PROVE  line \in Seq(Paths(cfg)) /\ line # <<>> /\ Last(line) = names[k]
<1>1. k \in 1..Len(names) /\ "sft" \in Paths(cfg) /\ 1 \in 1..k BY NamesOf
<1>2. CASE FromFirst(line, k)
  <2>1. line \in Seq(Paths(cfg)) /\ Len(line) = k /\ line[k] = names[k] BY <1>1, <1>2, Stretch DEF FromFirst
  <2>2. QED BY <2>1, <1>1 DEF Last
<1>3. CASE FromWarm(line, k)
  <2>1. PICK j \in 1..k : line = <<"sft">> \o SubSeq(names, j, k) BY <1>3 DEF FromWarm
  <2> DEFINE tail == SubSeq(names, j, k)
  <2>2. tail \in Seq(Paths(cfg)) /\ Len(tail) = k - j + 1 /\ tail[k - j + 1] = names[k] BY <2>1, Stretch
  <2> HIDE DEF tail
  <2>3. line = <<"sft">> \o tail BY <2>1 DEF tail
  <2>4. line \in Seq(Paths(cfg)) /\ Len(line) = k - j + 2 /\ line[k - j + 2] = names[k]
    BY <2>2, <2>3, <1>1
  <2>5. QED BY <2>4, <1>1 DEF Last
<1>4. QED BY <1>2, <1>3 DEF Climbed

(* A stage appends its name to the line it starts from.                       *)
LEMMA Climbs ==
  ASSUME cfg \in Configs, NEW k \in DOMAIN Stages, NEW line \in Seq(Paths(cfg)), Below(line, k)
  PROVE  Climbed(Append(line, names[k]), k) /\ (line # <<>> => Last(line) # names[k])
<1>1. /\ k \in 1..Len(names) /\ "sft" \in Paths(cfg) /\ names[k] \in Paths(cfg) /\ names[k] # "sft"
      /\ k \in 1..k /\ 1 \in 1..k
  BY NamesOf
<1>2. CASE k = 1 /\ line = <<>>
  <2>1. Append(line, names[k]) = SubSeq(names, 1, k) BY <1>1, <1>2, Stretch
  <2>2. QED BY <1>2, <2>1 DEF Climbed, FromFirst
<1>3. CASE line = <<"sft">>
  <2>1. Append(line, names[k]) = <<"sft">> \o <<names[k]>> BY <1>3, <1>1
  <2>2. <<names[k]>> = SubSeq(names, k, k) BY <1>1, Stretch
  <2>3. Last(line) = "sft" BY <1>3 DEF Last
  <2>4. QED BY <1>1, <2>1, <2>2, <2>3 DEF Climbed, FromWarm
<1>4. CASE k > 1 /\ Climbed(line, k - 1)
  <2>1. k - 1 \in DOMAIN Stages /\ k \in Nat BY <1>4, <1>1, NamesOf
  <2>2. Last(line) = names[k - 1] BY <2>1, <1>4, ClimbedLine
  <2>3. names[k - 1] # names[k] BY <2>1, NamesOf
  <2>4. CASE FromFirst(line, k - 1)
    <3>1. 1 < k BY <1>4, <2>1
    <3>2. SubSeq(names, 1, k) = Append(line, names[k]) BY <3>1, <1>1, <2>4, Stretch DEF FromFirst
    <3>3. QED BY <3>2, <2>2, <2>3 DEF Climbed, FromFirst
  <2>5. CASE FromWarm(line, k - 1)
    <3>1. PICK j \in 1..(k - 1) : line = <<"sft">> \o SubSeq(names, j, k - 1) BY <2>5 DEF FromWarm
    <3>2. j \in 1..k /\ j < k /\ j \in 1..(k - 1) BY <2>1, <3>1
    <3> DEFINE tail == SubSeq(names, j, k - 1)
    <3>3. SubSeq(names, j, k) = Append(tail, names[k]) BY <3>2, <1>1, Stretch
    <3>4. tail \in Seq(Paths(cfg)) BY <3>2, <2>1, Stretch
    <3>5. line = <<"sft">> \o tail BY <3>1
    <3> HIDE DEF tail
    <3>6. Append(line, names[k]) = <<"sft">> \o Append(tail, names[k])
      <4>1. <<"sft">> \in Seq(Paths(cfg)) /\ <<names[k]>> \in Seq(Paths(cfg)) BY <1>1
      <4>2. (<<"sft">> \o tail) \o <<names[k]>> = <<"sft">> \o (tail \o <<names[k]>>)
        BY <4>1, <3>4, ConcatAssociative
      <4>3. Append(tail, names[k]) = tail \o <<names[k]>> BY <3>4, <1>1, AppendIsConcat
      <4>4. Append(line, names[k]) = line \o <<names[k]>> BY <1>1, AppendIsConcat
      <4>5. QED BY <4>2, <4>3, <4>4, <3>5
    <3>7. Append(line, names[k]) = <<"sft">> \o SubSeq(names, j, k) BY <3>3, <3>6
    <3>8. QED BY <3>7, <3>2, <2>2, <2>3 DEF Climbed, FromWarm
  <2>6. QED BY <1>4, <2>4, <2>5 DEF Climbed
<1>5. QED BY <1>2, <1>3, <1>4 DEF Below

(* A batch of stage k: the line it starts from climbs, and then stays.         *)
LEMMA TrainedClimbs ==
  ASSUME cfg \in Configs, NEW k \in DOMAIN Stages, NEW w \in Adapter, NEW seeds \in SUBSET Seeds(Stages),
         Below(w.line, k) \/ Climbed(w.line, k)
  PROVE  Trained(w, names[k], seeds) \in Adapter /\ Climbed(Trained(w, names[k], seeds).line, k)
<1>1. w.line \in Seq(Paths(cfg)) /\ w.seeds \subseteq Seeds(Stages) /\ names[k] \in Paths(cfg)
  BY NamesOf DEF Adapter
<1>2. CASE w.line # <<>> /\ Last(w.line) = names[k]
  <2>1. Climbed(w.line, k) BY <1>1, <1>2, Climbs
  <2>2. Trained(w, names[k], seeds) = [line |-> w.line, seeds |-> w.seeds \cup seeds] BY <1>2 DEF Trained
  <2>3. QED BY <1>1, <2>1, <2>2 DEF Adapter
<1>3. CASE ~(w.line # <<>> /\ Last(w.line) = names[k])
  <2>1. Below(w.line, k) BY <1>3, ClimbedLine
  <2>2. Trained(w, names[k], seeds) = [line |-> Append(w.line, names[k]), seeds |-> w.seeds \cup seeds]
    BY <1>3 DEF Trained
  <2>3. Append(w.line, names[k]) \in Seq(Paths(cfg)) BY <1>1
  <2>4. Climbed(Append(w.line, names[k]), k) BY <1>1, <2>1, Climbs
  <2>5. QED BY <1>1, <2>2, <2>3, <2>4 DEF Adapter
<1>4. QED BY <1>2, <1>3

-----------------------------------------------------------------------------
(* Seeds.                                                                   *)

(* What a stage trains on are training seeds of the experiment.               *)
LEMMA TrainsOnTrainSeeds ==
  ASSUME NEW name
  PROVE  {pair[2] : pair \in task_seed_pairs(cfg, filter_curriculum_to_stage(cfg, name))} \subseteq Seeds(Stages)
BY DEF task_seed_pairs, filter_curriculum_to_stage, Seeds, Stages

(* Where the experiment's reader accepts seeds, the trainer's reads the same.   *)
LEMMA ReadersAgree ==
  ASSUME NEW spec, seed_list(spec) # Bad
  PROVE  _parse_seed_spec(spec) = seed_list(spec) /\ seed_list(spec) = _parse_seeds(spec)
<1>1. _parse_seeds(spec) # Bad /\ seed_list(spec) = _parse_seeds(spec) BY DEF seed_list
<1>2. ~(spec.list # Unset /\ spec.range # Unset) BY <1>1 DEF _parse_seeds
<1>3. CASE spec.range # Unset BY <1>1, <1>2, <1>3 DEF _parse_seeds, _parse_seed_spec
<1>4. CASE spec.range = Unset BY <1>1, <1>2, <1>4 DEF _parse_seeds, _parse_seed_spec
<1>5. QED BY <1>1, <1>3, <1>4

(* In a valid experiment held-out seeds are no training seeds.                *)
LEMMA HeldOutSeeds ==
  ASSUME validate_config(cfg)
  PROVE  /\ seed_list(cfg.eval) # Bad /\ seed_list(cfg.benchmark) # Bad
         /\ ToSet(seed_list(cfg.eval)) \cap Seeds(Stages) = {}
         /\ ToSet(seed_list(cfg.benchmark)) \cap Seeds(Stages) = {}
BY DEF validate_config, disjoint, Stages

LEMMA SplitHeldOut ==
  ASSUME validate_config(cfg), NEW split \in Splits \ {"train"}, NEW at \in Planned(split)
  PROVE  SeedOf(split, at) \notin Seeds(Stages)
<1>1. SplitSeeds(split, at[1]) \in {seed_list(cfg.eval), seed_list(cfg.benchmark)} BY DEF SplitSeeds, Splits
<1>2. SplitSeeds(split, at[1]) # Bad BY <1>1, HeldOutSeeds
<1>3. PICK i \in DOMAIN Stages : at \in {i} \X Episodes(SplitSeeds(split, i)) BY DEF Planned
<1>4. at[1] = i /\ at[2] \in DOMAIN SplitSeeds(split, at[1]) BY <1>2, <1>3 DEF Episodes
<1>5. SeedOf(split, at) \in ToSet(SplitSeeds(split, at[1])) BY <1>4 DEF SeedOf, ToSet
<1>6. QED BY <1>1, <1>5, HeldOutSeeds

-----------------------------------------------------------------------------
(* Scores.                                                                  *)

(* A score is a part of the whole.                                          *)
LEMMA ScoreIsPart ==
  ASSUME NEW kind, NEW meta \in Disclosed, NEW issues \in Transcripts, NEW traced \in BOOLEAN
  PROVE  /\ Score(kind, meta, trajectory(issues, traced)) \in Nat /\ Whole(kind, meta) \in Nat \ {0}
         /\ Score(kind, meta, trajectory(issues, traced)) <= Whole(kind, meta)
<1> DEFINE traj == trajectory(issues, traced)
           n    == Len(meta.candidates)
           f    == [i \in 1..n |-> _address_token(meta.candidates[i])]
<1>1. n \in Nat /\ DOMAIN meta.candidates = 1..n BY TrainingAssumption
<1>2. Candidates(meta) = {f[i] : i \in 1..n} BY <1>1 DEF Candidates, ToSet
<1>3. IsFiniteSet(1..n) /\ Cardinality(1..n) = n BY <1>1, FS_Interval
<1>4. IsFiniteSet(Candidates(meta)) /\ Cardinality(Candidates(meta)) <= n
  <2>1. f \in Surjection(1..n, Candidates(meta)) BY <1>2 DEF Surjection
  <2> HIDE DEF n, f
  <2>2. QED BY <2>1, <1>3, FS_Surjection
<1>5. /\ unique_probe_shaping_reward(meta, traj) \in Nat
      /\ unique_probe_shaping_reward(meta, traj) <= n
  <2>1. unique_probe_candidates(meta, traj) \subseteq Candidates(meta) BY DEF unique_probe_candidates
  <2> HIDE DEF n, f, traj
  <2>2. Cardinality(unique_probe_candidates(meta, traj)) <= Cardinality(Candidates(meta))
    BY <2>1, <1>4, FS_Subset
  <2>3. Cardinality(unique_probe_candidates(meta, traj)) \in Nat /\ Cardinality(Candidates(meta)) \in Nat
    BY <2>1, <1>4, FS_Subset, FS_CardinalityType
  <2>4. QED BY <2>2, <2>3, <1>1, <1>4 DEF unique_probe_shaping_reward
<1>6. probe_shaping_reward(traj) \in 0..SATURATES
  <2>1. DOMAIN traj \subseteq DOMAIN issues BY DEF trajectory
  <2>2. IsFiniteSet(DOMAIN issues) BY TrainingAssumption, FS_Interval
  <2> HIDE DEF traj
  <2>3. IsFiniteSet({i \in DOMAIN traj : is_decisive_probe(traj[i])}) BY <2>1, <2>2, FS_Subset
  <2>4. count_decisive_probes(traj) \in Nat BY <2>3, FS_CardinalityType DEF count_decisive_probes
  <2>5. QED BY <2>4 DEF probe_shaping_reward, SATURATES
<1>7. CASE kind # "unique_candidate_probe" BY <1>6, <1>7 DEF Score, Whole, SATURATES
<1>8. CASE kind = "unique_candidate_probe"
  <2>1. n = 0 => Whole(kind, meta) \in Nat \ {0} /\ Whole(kind, meta) >= n BY <1>8, <1>1 DEF Whole
  <2>2. n # 0 => meta.candidates # <<>> BY <1>1
  <2>3. n # 0 => Whole(kind, meta) = n BY <1>8, <2>2 DEF Whole
  <2>4. QED BY <1>1, <1>5, <1>8, <2>1, <2>3 DEF Score
<1>9. QED BY <1>7, <1>8

(* A whole reward outweighs a part of a smaller weight.                       *)
LEMMA WinOutweighs ==
  ASSUME NEW whole \in Nat \ {0}, NEW success \in Int, NEW weight \in Int, success > 0, weight >= 0, weight < success,
         NEW won \in Nat, NEW lost \in Nat, lost <= whole
  PROVE  whole * success * 1 + weight * won > whole * success * 0 + weight * lost
<1>1. weight * won >= 0 /\ weight * won \in Int OBVIOUS
<1>2. weight * lost <= weight * whole /\ weight * lost \in Int OBVIOUS
<1>3. weight * whole < success * whole OBVIOUS
<1>4. whole * success = success * whole /\ whole * success \in Int OBVIOUS
<1>5. whole * success * 1 = whole * success /\ whole * success * 0 = 0 BY <1>4
<1>6. QED BY <1>1, <1>2, <1>3, <1>4, <1>5

-----------------------------------------------------------------------------
(* Frames: what does not change while the configuration stays.                *)

LEMMA Frame ==
  ASSUME cfg' = cfg
  PROVE  /\ Stages' = Stages /\ names' = names /\ Paths(cfg)' = Paths(cfg) /\ Adapter' = Adapter
         /\ Directory' = Directory
         /\ \A line, k : (Climbed(line, k)' <=> Climbed(line, k)) /\ (Below(line, k)' <=> Below(line, k))
         /\ \A line, d : Fits(line, d)' <=> Fits(line, d)
         /\ \A resume, k : Resumes(resume, k)' <=> Resumes(resume, k)
         /\ \A split : /\ Planned(split)' = Planned(split)
                       /\ Once(split)' = Once(split) /\ Never(split)' = Never(split)
<1>1. Stages' = Stages /\ names' = names BY DEF Stages, names
<1>2. Paths(cfg)' = Paths(cfg) BY DEF Paths
<1>3. Adapter' = Adapter /\ Directory' = Directory BY <1>1, <1>2 DEF Adapter, Directory
<1>4. \A line, k : Climbed(line, k)' <=> Climbed(line, k) BY <1>1 DEF Climbed, FromFirst, FromWarm
<1>5. \A line, k : Below(line, k)' <=> Below(line, k) BY <1>4 DEF Below
<1>6. \A line, d : Fits(line, d)' <=> Fits(line, d) BY <1>1, <1>4 DEF Fits
<1>7. \A resume, k : Resumes(resume, k)' <=> Resumes(resume, k) BY <1>1 DEF Resumes
<1>8. \A split, i : SplitSeeds(split, i)' = SplitSeeds(split, i) BY <1>1 DEF SplitSeeds
<1>9. \A split : Planned(split)' = Planned(split) BY <1>1, <1>8 DEF Planned
<1>10. \A split : Once(split)' = Once(split) /\ Never(split)' = Never(split) BY <1>9 DEF Once, Never
<1>11. QED BY <1>1, <1>2, <1>3, <1>4, <1>5, <1>6, <1>7, <1>9, <1>10

(* A step of a training run: the bundles and the ladder stay as they are.       *)
LEMMA KeptFrame ==
  ASSUME IInv, Kept, run.pc # "off", RunType', DirType', GrpoInv', SftInv', PortInv', run'.kind # "eval"
  PROVE  IInv'
<1>1. cfg' = cfg /\ bundles' = bundles /\ ladder' = ladder /\ acts' = acts BY DEF Kept
<1>2. cfg' \in Configs /\ acts' \in 0..MaxActs BY <1>1 DEF IInv
<1>3. LadderInv' BY <1>1, Frame DEF IInv, LadderInv
<1>4. BundleInv' BY <1>1, Frame DEF IInv, BundleInv, Counts, Entire
<1>5. EvalInv' BY DEF EvalInv
<1>6. QED BY <1>2, <1>3, <1>4, <1>5 DEF IInv

(* A step of an evaluation: the directories, the port and the ladder stay.      *)
LEMMA EvalFrame ==
  ASSUME IInv, EvalKept, run.kind = "eval", RunType', BundleInv', EvalInv', run'.kind \in {"eval", "none"}
  PROVE  IInv'
<1>1. cfg' = cfg /\ dirs' = dirs /\ port' = port /\ ladder' = ladder /\ acts' = acts BY DEF EvalKept
<1>2. cfg' \in Configs /\ acts' \in 0..MaxActs BY <1>1 DEF IInv
<1>3. run.pc # "off" /\ ladder.pc # "next" BY DEF IInv, RunType, LadderInv, EvalPcs
<1>4. LadderInv' BY <1>1, <1>3, Frame DEF IInv, LadderInv
<1>5. PortInv' BY <1>1 DEF IInv, PortInv
<1>6. DirType' BY <1>1, Frame DEF IInv, DirType
<1>7. GrpoInv' /\ SftInv' BY DEF GrpoInv, SftInv
<1>8. QED BY <1>2, <1>4, <1>5, <1>6, <1>7 DEF IInv

-----------------------------------------------------------------------------
(* Steps of a training run.                                                 *)

(* Only the program counter, and what goes with it, moves.                    *)
LEMMA RunMoves ==
  ASSUME RunType, cfg' = cfg, NEW pc \in Pcs, NEW server, NEW weights \in Adapter, NEW steps \in Nat, NEW zero, NEW why,
         run' = [run EXCEPT !.pc = pc, !.server = server, !.weights = weights, !.steps = steps, !.zero = zero, !.why = why],
         run.pc # "off", pc # "off",
         run.kind = "grpo" => pc \in GrpoPcs, run.kind = "sft" => pc \in SftPcs, run.kind = "eval" => pc \in EvalPcs
  PROVE  /\ RunType'
         /\ run'.pc = pc /\ run'.server = server /\ run'.weights = weights /\ run'.steps = steps /\ run'.zero = zero
         /\ run'.kind = run.kind /\ run'.name = run.name /\ run'.resume = run.resume /\ run'.ckpt = run.ckpt
         /\ run'.bundle = run.bundle /\ run'.split = run.split /\ run'.adapter = run.adapter
         /\ run'.left = run.left /\ run'.at = run.at /\ run'.status = run.status /\ run'.why = why
<1>1. Adapter' = Adapter BY Frame
<1>2. /\ run'.pc = pc /\ run'.server = server /\ run'.weights = weights /\ run'.steps = steps /\ run'.zero = zero
      /\ run'.kind = run.kind /\ run'.name = run.name /\ run'.resume = run.resume /\ run'.ckpt = run.ckpt
      /\ run'.bundle = run.bundle /\ run'.split = run.split /\ run'.adapter = run.adapter
      /\ run'.left = run.left /\ run'.at = run.at /\ run'.status = run.status /\ run'.why = why
  BY DEF RunType
<1>3. run' \in [kind : Programs, pc : Pcs, name : {run.name}, resume : {run.resume}, ckpt : {run.ckpt},
              server : {server}, weights : Adapter, steps : Nat, zero : {zero}, bundle : {run.bundle},
              split : {run.split}, adapter : {run.adapter}, left : {run.left}, at : {run.at},
              status : {run.status}, why : {why}]
  BY DEF RunType
<1>4. QED BY <1>1, <1>2, <1>3 DEF RunType

(* A run that ended.                                                        *)
LEMMA RunEnds ==
  ASSUME cfg' = cfg, NEW why, run' = Off(why)
  PROVE  RunType' /\ run'.kind = "none" /\ run'.pc = "off"
<1>1. Adapter' = Adapter BY Frame
<1>2. Base \in Adapter BY DEF Base, Adapter
<1>3. QED BY <1>1, <1>2 DEF Off, NoRun, RunType, Programs, Pcs

(* What a step of a program leaves of it.                                    *)
SameRun ==
  /\ run'.kind = run.kind /\ run'.name = run.name /\ run'.resume = run.resume /\ run'.ckpt = run.ckpt
  /\ run'.bundle = run.bundle /\ run'.split = run.split /\ run'.adapter = run.adapter

LEMMA RunGoes ==
  ASSUME RunType, cfg' = cfg, NEW pc \in Pcs, Goes(pc), run.pc # "off", pc # "off",
         run.kind = "grpo" => pc \in GrpoPcs, run.kind = "sft" => pc \in SftPcs, run.kind = "eval" => pc \in EvalPcs
  PROVE  /\ RunType' /\ SameRun /\ run'.pc = pc /\ run'.server = run.server /\ run'.weights = run.weights
         /\ run'.steps = run.steps /\ run'.left = run.left /\ run'.at = run.at /\ run'.status = run.status
<1>1. /\ SameRun /\ run'.pc = pc /\ run'.server = run.server /\ run'.weights = run.weights
      /\ run'.steps = run.steps /\ run'.left = run.left /\ run'.at = run.at /\ run'.status = run.status
  BY DEF Goes, RunType, SameRun
<1>2. run' \in [kind : Programs, pc : Pcs, name : {run.name}, resume : {run.resume}, ckpt : {run.ckpt},
              server : {run.server}, weights : Adapter, steps : Nat, zero : {run.zero}, bundle : {run.bundle},
              split : {run.split}, adapter : {run.adapter}, left : {run.left}, at : {run.at},
              status : {run.status}, why : {run.why}]
  BY DEF Goes, RunType
<1>3. QED BY <1>1, <1>2, Frame DEF RunType, SameRun

LEMMA RunRaises ==
  ASSUME RunType, cfg' = cfg, NEW why, Raises(why), run.kind \in {"grpo", "sft"}
  PROVE  RunType' /\ SameRun /\ run'.pc = "stop"
<1>1. run' = [run EXCEPT !.pc = "stop", !.server = run.server, !.weights = run.weights, !.steps = run.steps,
                         !.zero = run.zero, !.why = why]
  BY DEF Raises, RunType
<1>2. /\ run.weights \in Adapter /\ run.steps \in Nat /\ run.pc # "off"
      /\ "stop" \in Pcs /\ "stop" \in GrpoPcs /\ "stop" \in SftPcs
  BY DEF RunType, Pcs, GrpoPcs, SftPcs
<1>3. QED BY <1>1, <1>2, RunMoves DEF SameRun

(* A run that raises, or ends, keeps the invariant.                           *)
LEMMA Raised ==
  ASSUME IInv, Kept, UNCHANGED <<dirs, port>>, NEW why, Raises(why), run.kind \in {"grpo", "sft"},
         run.kind = "grpo" => run.pc \notin {"validate", "launch"}
  PROVE  IInv'
<1>1. cfg' = cfg /\ RunType /\ run.pc # "off" BY DEF Kept, IInv, RunType, GrpoPcs, SftPcs
<1>2. RunType' /\ SameRun /\ run'.pc = "stop" BY <1>1, RunRaises
<1>3. DirType' BY <1>1, Frame DEF IInv, DirType
<1>4. GrpoInv' BY <1>1, <1>2, Frame DEF IInv, GrpoInv, SameRun
<1>5. SftInv' BY <1>1, <1>2 DEF IInv, SftInv, SameRun
<1>6. PortInv' BY <1>2 DEF IInv, PortInv, SameRun
<1>7. run'.kind # "eval" BY <1>2 DEF SameRun
<1>8. QED BY <1>1, <1>2, <1>3, <1>4, <1>5, <1>6, <1>7, KeptFrame

LEMMA Ended ==
  ASSUME IInv, Kept, UNCHANGED dirs, NEW why, run' = Off(why), run.kind \in {"grpo", "sft"},
         port' = IF port = "ours" THEN "free" ELSE port
  PROVE  IInv'
<1>1. cfg' = cfg /\ run.pc # "off" BY DEF Kept, IInv, RunType, GrpoPcs, SftPcs
<1>2. RunType' /\ run'.kind = "none" BY <1>1, RunEnds
<1>3. DirType' BY <1>1, Frame DEF IInv, DirType
<1>4. GrpoInv' /\ SftInv' /\ PortInv' BY <1>2 DEF IInv, GrpoInv, SftInv, PortInv, Ports
<1>5. QED BY <1>1, <1>2, <1>3, <1>4, KeptFrame

(* A GRPO run that goes on: what its new step asks of it.                      *)
LEMMA GrpoGoes ==
  ASSUME IInv, Kept, UNCHANGED <<dirs, port>>, run.kind = "grpo", NEW pc \in GrpoPcs, Goes(pc),
         run.pc \in {"validate", "launch"} <=> pc \in {"validate", "launch"}, GrpoInv'
  PROVE  IInv'
<1>1. cfg' = cfg /\ RunType /\ run.pc # "off" /\ pc # "off" /\ pc \in Pcs
  BY DEF Kept, IInv, RunType, GrpoPcs, Pcs
<1>2. RunType' /\ SameRun /\ run'.pc = pc BY <1>1, RunGoes
<1>3. DirType' BY <1>1, Frame DEF IInv, DirType
<1>4. SftInv' /\ run'.kind # "eval" BY <1>2 DEF SftInv, SameRun
<1>5. PortInv' BY <1>2 DEF IInv, PortInv, SameRun
<1>6. QED BY <1>1, <1>2, <1>3, <1>4, <1>5, KeptFrame

LEMMA ValidateKeeps == IInv /\ Validate => IInv'
<1> SUFFICES ASSUME IInv, Validate PROVE IInv'
  OBVIOUS
<1>1. Kept /\ UNCHANGED <<dirs, port>> /\ run.kind = "grpo" /\ run.pc = "validate" /\ cfg' = cfg /\ RunType
  BY DEF Validate, At, Kept, IInv
<1>2. CASE run' = Off("error")
  <2>1. port # "ours" BY <1>1 DEF IInv, PortInv
  <2>2. QED BY <1>1, <1>2, <2>1, Ended
<1>3. CASE Goes("launch") /\ (cfg.poc => validate_config(cfg))
  <2>1. "launch" \in GrpoPcs /\ "launch" \in Pcs BY DEF GrpoPcs, Pcs
  <2>2. SameRun /\ run'.pc = "launch" /\ run'.weights = run.weights /\ run'.steps = run.steps
    BY <1>1, <1>3, <2>1, RunGoes
  <2>3. GrpoInv' BY <1>1, <1>3, <2>2, Frame DEF IInv, GrpoInv, SameRun
  <2>4. QED BY <1>1, <1>3, <2>1, <2>3, GrpoGoes
<1>4. QED BY <1>2, <1>3 DEF Validate

LEMMA LaunchKeeps == IInv /\ LaunchServer => IInv'
<1> SUFFICES ASSUME IInv, LaunchServer PROVE IInv'
  OBVIOUS
<1>1. PICK pc \in {"poll", "hang"} : Goes(pc) BY DEF LaunchServer
<1>2. /\ Kept /\ UNCHANGED dirs /\ run.kind = "grpo" /\ run.pc = "launch" /\ cfg' = cfg /\ RunType /\ run.pc # "off"
      /\ pc \in Pcs /\ pc \in GrpoPcs /\ pc # "off" /\ port' = IF port = "free" THEN "ours" ELSE port
  BY <1>1 DEF LaunchServer, At, Kept, IInv, Pcs, GrpoPcs
<1>3. RunType' /\ SameRun /\ run'.pc = pc /\ run'.weights = run.weights /\ run'.steps = run.steps
  BY <1>1, <1>2, RunGoes
<1>4. DirType' BY <1>2, Frame DEF IInv, DirType
<1>5. GrpoInv' BY <1>2, <1>3, Frame DEF IInv, GrpoInv, SameRun
<1>6. SftInv' /\ run'.kind # "eval" BY <1>2, <1>3 DEF SftInv, SameRun
<1>7. PortInv' BY <1>2, <1>3 DEF IInv, PortInv, SameRun, Ports
<1>8. QED BY <1>2, <1>3, <1>4, <1>5, <1>6, <1>7, KeptFrame

LEMMA HealthyKeeps == IInv /\ Healthy => IInv'
<1> SUFFICES ASSUME IInv, Healthy PROVE IInv'
  OBVIOUS
<1>1. /\ Kept /\ UNCHANGED <<dirs, port>> /\ run.kind = "grpo" /\ run.pc = "poll" /\ cfg' = cfg /\ RunType
      /\ run.pc # "off" /\ "surface" \in Pcs /\ "surface" \in GrpoPcs
  BY DEF Healthy, At, Kept, IInv, Pcs, GrpoPcs
<1>2. /\ RunType' /\ SameRun /\ run'.pc = "surface" /\ run'.weights = run.weights /\ run'.steps = run.steps
  <2>1. SameRun /\ run'.pc = "surface" /\ run'.server = port /\ run'.weights = run.weights /\ run'.steps = run.steps
    BY <1>1 DEF Healthy, RunType, SameRun
  <2>2. run' \in [kind : Programs, pc : Pcs, name : {run.name}, resume : {run.resume}, ckpt : {run.ckpt},
              server : {port}, weights : Adapter, steps : Nat, zero : {run.zero}, bundle : {run.bundle},
              split : {run.split}, adapter : {run.adapter}, left : {run.left}, at : {run.at},
              status : {run.status}, why : {run.why}]
    BY <1>1 DEF Healthy, RunType
  <2>3. QED BY <1>1, <2>1, <2>2, Frame DEF RunType, SameRun
<1>3. DirType' BY <1>1, Frame DEF IInv, DirType
<1>4. GrpoInv' BY <1>1, <1>2, Frame DEF IInv, GrpoInv, SameRun
<1>5. SftInv' /\ run'.kind # "eval" BY <1>1, <1>2 DEF SftInv, SameRun
<1>6. PortInv' BY <1>1, <1>2 DEF IInv, PortInv, SameRun
<1>7. QED BY <1>1, <1>2, <1>3, <1>4, <1>5, <1>6, KeptFrame

LEMMA StartupFailsKeeps == IInv /\ StartupFails => IInv'
BY Ended DEF StartupFails, At

LEMMA SurfaceKeeps == IInv /\ Surface => IInv'
<1> SUFFICES ASSUME IInv, Surface PROVE IInv'
  OBVIOUS
<1>1. /\ Kept /\ UNCHANGED <<dirs, port>> /\ run.kind = "grpo" /\ run.pc = "surface" /\ cfg' = cfg /\ RunType
      /\ "gate" \in Pcs /\ "gate" \in GrpoPcs
  BY DEF Surface, At, Kept, IInv, Pcs, GrpoPcs
<1>2. CASE Raises("error") BY <1>1, <1>2, Raised
<1>3. CASE Goes("gate") /\ (cfg.poc => run.server # "foreign")
  <2>1. /\ SameRun /\ run'.pc = "gate" /\ run'.weights = run.weights /\ run'.server = run.server
        /\ run'.steps = run.steps
    BY <1>1, <1>3, RunGoes
  <2>2. GrpoInv' BY <1>1, <1>3, <2>1, Frame DEF IInv, GrpoInv, SameRun
  <2>3. QED BY <1>1, <1>3, <2>2, GrpoGoes
<1>4. QED BY <1>2, <1>3 DEF Surface, speaks_poc

LEMMA GateKeeps == IInv /\ Gate => IInv'
<1> SUFFICES ASSUME IInv, Gate PROVE IInv'
  OBVIOUS
<1>1. /\ Kept /\ UNCHANGED <<dirs, port>> /\ run.kind = "grpo" /\ run.pc = "gate" /\ cfg' = cfg /\ RunType
      /\ "load" \in Pcs /\ "load" \in GrpoPcs
  BY DEF Gate, At, Kept, IInv, Pcs, GrpoPcs
<1>2. CASE Raises("error") BY <1>1, <1>2, Raised
<1>3. CASE Goes("load")
  <2>1. /\ SameRun /\ run'.pc = "load" /\ run'.weights = run.weights /\ run'.server = run.server
        /\ run'.steps = run.steps
    BY <1>1, <1>3, RunGoes
  <2>2. GrpoInv' BY <1>1, <1>3, <2>1, Frame DEF IInv, GrpoInv, SameRun
  <2>3. QED BY <1>1, <1>3, <2>2, GrpoGoes
<1>4. QED BY <1>2, <1>3 DEF Gate

LEMMA LoadAdapterKeeps == IInv /\ LoadAdapter => IInv'
<1> SUFFICES ASSUME IInv, LoadAdapter PROVE IInv'
  OBVIOUS
<1>1. /\ Kept /\ UNCHANGED <<dirs, port>> /\ run.kind = "grpo" /\ run.pc = "load" /\ cfg' = cfg /\ RunType
      /\ "manifest" \in Pcs /\ "manifest" \in GrpoPcs /\ cfg \in Configs /\ run.pc # "off"
  BY DEF LoadAdapter, At, Kept, IInv, Pcs, GrpoPcs
<1>2. PICK k \in DOMAIN Stages :
        /\ run.name = names[k]
        /\ \/ run.resume = None /\ run.ckpt = run.name /\ dirs[run.name].ckpt # Base
           \/ run.ckpt = None /\ Resumes(run.resume, k)
  BY <1>1 DEF IInv, GrpoInv
<1>3. run.weights = Base /\ run.steps = 0 BY <1>1 DEF IInv, GrpoInv
<1>4. CASE Raises("error") BY <1>1, <1>4, Raised
<1>5. CASE run.resume = None /\ Goes("manifest")
  <2>1. /\ SameRun /\ run'.pc = "manifest" /\ run'.weights = run.weights /\ run'.server = run.server
        /\ run'.steps = run.steps
    BY <1>1, <1>5, RunGoes
  <2>2. run.ckpt = None => k = 1 BY <1>1, <1>2, <1>5, NamesOf DEF Resumes
  <2>3. run.ckpt = None => Below(run.weights.line, k) BY <1>3, <2>2 DEF Below, Base
  <2>4. GrpoInv' BY <1>1, <1>2, <1>3, <2>1, <2>3, Frame DEF IInv, GrpoInv, SameRun
  <2>5. QED BY <1>1, <1>5, <2>4, GrpoGoes
<1>6. CASE run.resume # None /\ dirs[run.resume].marker
             /\ run' = [run EXCEPT !.pc = "manifest", !.weights = dirs[run.resume].weights]
  <2>1. run.ckpt = None /\ Resumes(run.resume, k) BY <1>2, <1>6
  <2> DEFINE w == dirs[run.resume].weights
  <2>2. run.resume = "sft" \/ (k > 1 /\ run.resume = names[k - 1]) BY <2>1, <1>6 DEF Resumes
  <2>3. run.resume \in Paths(cfg) BY <1>1, <2>2, NamesOf
  <2>4. w \in Adapter /\ Fits(w.line, run.resume) BY <2>3, <1>6 DEF IInv, DirType, Directory
  <2>5. Below(w.line, k) BY <1>1, <2>2, <2>4, NamesOf DEF Fits, Below
  <2> HIDE DEF w
  <2>6. run' = [run EXCEPT !.pc = "manifest", !.weights = w] BY <1>6 DEF w
  <2>7. /\ SameRun /\ run'.pc = "manifest" /\ run'.server = run.server /\ run'.weights = w /\ run'.steps = run.steps
    BY <1>1, <2>6 DEF RunType, SameRun
  <2>8. run' \in [kind : Programs, pc : Pcs, name : {run.name}, resume : {run.resume}, ckpt : {run.ckpt},
              server : {run.server}, weights : Adapter, steps : Nat, zero : {run.zero}, bundle : {run.bundle},
              split : {run.split}, adapter : {run.adapter}, left : {run.left}, at : {run.at},
              status : {run.status}, why : {run.why}]
    BY <1>1, <2>4, <2>6 DEF RunType
  <2>9. RunType' BY <1>1, <2>7, <2>8, Frame DEF RunType, SameRun
  <2>10. DirType' BY <1>1, Frame DEF IInv, DirType
  <2>11. GrpoInv' BY <1>1, <1>2, <1>3, <2>1, <2>5, <2>7, Frame DEF IInv, GrpoInv, SameRun
  <2>12. SftInv' /\ run'.kind # "eval" BY <1>1, <2>7 DEF SftInv, SameRun
  <2>13. PortInv' BY <1>1, <2>7 DEF IInv, PortInv, SameRun
  <2>14. QED BY <1>1, <2>9, <2>10, <2>11, <2>12, <2>13, KeptFrame
<1>7. QED BY <1>4, <1>5, <1>6 DEF LoadAdapter

(* A directory that is written.                                             *)
LEMMA DirWritten ==
  ASSUME DirType, cfg' = cfg, NEW d \in Paths(cfg), NEW r \in Directory, dirs' = [dirs EXCEPT ![d] = r],
         r.weights.line # <<>> => Fits(r.weights.line, d), r.ckpt.line # <<>> => Fits(r.ckpt.line, d),
         r.marker => r.weights.line # <<>>, r.ckpt # Base => r.ckpt.line # <<>>,
         d # "sft" /\ (r.ckpt.line # <<>> \/ r.weights.line # <<>>) => load_curriculum(cfg)
  PROVE  DirType' /\ dirs'[d] = r /\ \A e \in Paths(cfg) \ {d} : dirs'[e] = dirs[e]
<1>1. dirs' \in [Paths(cfg) -> Directory] BY DEF DirType
<1>2. dirs'[d] = r /\ \A e \in Paths(cfg) \ {d} : dirs'[e] = dirs[e] BY DEF DirType
<1>3. Base' = Base BY DEF Base
<1>4. QED BY <1>1, <1>2, <1>3, Frame DEF DirType

LEMMA ManifestKeeps == IInv /\ Manifest => IInv'
<1> SUFFICES ASSUME IInv, Manifest PROVE IInv'
  OBVIOUS
<1>1. /\ Kept /\ UNCHANGED port /\ run.kind = "grpo" /\ run.pc = "manifest" /\ cfg' = cfg /\ RunType
      /\ "weigh" \in Pcs /\ "weigh" \in GrpoPcs /\ cfg \in Configs /\ run.pc # "off"
  BY DEF Manifest, At, Kept, IInv, Pcs, GrpoPcs
<1>2. CASE Raises("error") /\ UNCHANGED dirs BY <1>1, <1>2, Raised
<1>3. CASE Goes("weigh") /\ (dirs' = dirs \/ dirs' = [dirs EXCEPT ![run.name].manifest = TRUE])
  <2>1. /\ RunType' /\ SameRun /\ run'.pc = "weigh" /\ run'.weights = run.weights /\ run'.server = run.server
        /\ run'.steps = run.steps
    BY <1>1, <1>3, RunGoes
  <2>2. run.name \in Paths(cfg) BY <1>1, NamesOf DEF IInv, GrpoInv
  <2>3. DirType' /\ dirs'[run.name].ckpt = dirs[run.name].ckpt
    <3>1. CASE dirs' = dirs BY <1>1, <3>1, Frame DEF IInv, DirType
    <3>2. CASE dirs' = [dirs EXCEPT ![run.name].manifest = TRUE]
      <4> DEFINE r == [dirs[run.name] EXCEPT !.manifest = TRUE]
      <4>1. dirs[run.name] \in Directory BY <2>2 DEF IInv, DirType
      <4>2. /\ r \in Directory /\ r.weights = dirs[run.name].weights /\ r.ckpt = dirs[run.name].ckpt
            /\ r.marker = dirs[run.name].marker
        BY <4>1 DEF Directory
      <4>3. dirs' = [dirs EXCEPT ![run.name] = r] BY <3>2
      <4> HIDE DEF r
      <4>4. DirType' /\ dirs'[run.name] = r BY <1>1, <2>2, <4>2, <4>3, DirWritten DEF IInv, DirType
      <4>5. QED BY <4>2, <4>4
    <3>3. QED BY <1>3, <3>1, <3>2
  <2>5. GrpoInv' BY <1>1, <2>1, <2>2, <2>3, Frame DEF IInv, GrpoInv, SameRun
  <2>6. SftInv' /\ run'.kind # "eval" BY <1>1, <2>1 DEF SftInv, SameRun
  <2>7. PortInv' BY <1>1, <2>1 DEF IInv, PortInv, SameRun
  <2>8. QED BY <1>1, <2>1, <2>3, <2>5, <2>6, <2>7, KeptFrame
<1>4. QED BY <1>2, <1>3 DEF Manifest

LEMMA WeighKeeps == IInv /\ Weigh => IInv'
<1> SUFFICES ASSUME IInv, Weigh PROVE IInv'
  OBVIOUS
<1>1. /\ Kept /\ UNCHANGED <<dirs, port>> /\ run.kind = "grpo" /\ run.pc = "weigh" /\ cfg' = cfg /\ RunType
      /\ "train" \in Pcs /\ "train" \in GrpoPcs /\ cfg \in Configs /\ run.pc # "off"
  BY DEF Weigh, At, Kept, IInv, Pcs, GrpoPcs
<1>2. PICK k \in DOMAIN Stages :
        /\ run.name = names[k]
        /\ \/ run.resume = None /\ run.ckpt = run.name /\ dirs[run.name].ckpt # Base
           \/ run.ckpt = None /\ Resumes(run.resume, k)
        /\ run.ckpt = None => Below(run.weights.line, k)
  BY <1>1 DEF IInv, GrpoInv
<1>3. CASE Raises("error") BY <1>1, <1>3, Raised
<1>4. CASE validate_shaping_weight(cfg.success, shaping_weight)
             /\ run' = [run EXCEPT !.pc = "train", !.weights = IF run.ckpt = None THEN @ ELSE dirs[run.ckpt].ckpt]
  <2> DEFINE w == IF run.ckpt = None THEN run.weights ELSE dirs[run.ckpt].ckpt
  <2>1. names[k] \in Paths(cfg) /\ names[k] # None /\ names[k] # "sft" BY <1>1, NamesOf
  <2>2. w \in Adapter /\ (Climbed(w.line, k) \/ Below(w.line, k))
    <3>1. CASE run.ckpt = None BY <1>1, <1>2, <3>1 DEF RunType
    <3>2. CASE run.ckpt # None
      <4>1. run.ckpt = names[k] /\ dirs[names[k]].ckpt # Base BY <1>2, <3>2
      <4>2. dirs[names[k]].ckpt \in Adapter /\ Fits(dirs[names[k]].ckpt.line, names[k])
        BY <2>1, <4>1 DEF IInv, DirType, Directory
      <4>3. Climbed(dirs[names[k]].ckpt.line, k) BY <1>1, <2>1, <4>2, NamesOf DEF Fits
      <4>4. QED BY <3>2, <4>1, <4>2, <4>3
    <3>3. QED BY <3>1, <3>2
  <2> HIDE DEF w
  <2>3. run' = [run EXCEPT !.pc = "train", !.weights = w] BY <1>4 DEF w
  <2>5. RunType' /\ SameRun /\ run'.pc = "train" /\ run'.weights = w /\ run'.server = run.server /\ run'.steps = run.steps
    <3>1. SameRun /\ run'.pc = "train" /\ run'.weights = w /\ run'.server = run.server /\ run'.steps = run.steps
      BY <1>1, <2>3 DEF RunType, SameRun
    <3>2. run' \in [kind : Programs, pc : Pcs, name : {run.name}, resume : {run.resume}, ckpt : {run.ckpt},
              server : {run.server}, weights : Adapter, steps : Nat, zero : {run.zero}, bundle : {run.bundle},
              split : {run.split}, adapter : {run.adapter}, left : {run.left}, at : {run.at},
              status : {run.status}, why : {run.why}]
      BY <1>1, <2>2, <2>3 DEF RunType
    <3>3. QED BY <1>1, <3>1, <3>2, Frame DEF RunType, SameRun
  <2>6. DirType' BY <1>1, Frame DEF IInv, DirType
  <2>7. shaping_weight' = shaping_weight BY <1>1, <2>5 DEF shaping_weight, SameRun
  <2>8. run.steps = 0 BY <1>1 DEF IInv, GrpoInv
  <2>9. GrpoInv' BY <1>1, <1>2, <1>4, <2>2, <2>5, <2>7, <2>8, Frame DEF IInv, GrpoInv, SameRun
  <2>10. SftInv' /\ run'.kind # "eval" BY <1>1, <2>5 DEF SftInv, SameRun
  <2>11. PortInv' BY <1>1, <2>5 DEF IInv, PortInv, SameRun
  <2>12. QED BY <1>1, <2>5, <2>6, <2>9, <2>10, <2>11, KeptFrame
<1>5. QED BY <1>3, <1>4 DEF Weigh

LEMMA BatchKeeps == IInv /\ Batch => IInv'
<1> SUFFICES ASSUME IInv, Batch PROVE IInv'
  OBVIOUS
<1> DEFINE w == Trained(run.weights, run.name, TrainSeeds)
<1>1. /\ Kept /\ UNCHANGED port /\ run.kind = "grpo" /\ run.pc = "train" /\ cfg' = cfg /\ RunType
      /\ "train" \in Pcs /\ "train" \in GrpoPcs /\ cfg \in Configs /\ run.pc # "off"
  BY DEF Batch, At, Kept, IInv, Pcs, GrpoPcs
<1>2. PICK k \in DOMAIN Stages :
        /\ run.name = names[k]
        /\ \/ run.resume = None /\ run.ckpt = run.name /\ dirs[run.name].ckpt # Base
           \/ run.ckpt = None /\ Resumes(run.resume, k)
        /\ Climbed(run.weights.line, k) \/ (run.steps = 0 /\ Below(run.weights.line, k))
  BY <1>1 DEF IInv, GrpoInv
<1>3. names[k] \in Paths(cfg) /\ names[k] # "sft" BY <1>1, NamesOf
<1>4. w \in Adapter /\ Climbed(w.line, k) /\ w.line # <<>>
  <2>1. TrainSeeds \subseteq Seeds(Stages) BY TrainsOnTrainSeeds DEF TrainSeeds, stage
  <2>2. run.weights \in Adapter BY <1>1 DEF RunType
  <2>3. Trained(run.weights, names[k], TrainSeeds) \in Adapter /\ Climbed(Trained(run.weights, names[k], TrainSeeds).line, k)
    BY <1>1, <1>2, <2>1, <2>2, TrainedClimbs
  <2>4. w \in Adapter /\ Climbed(w.line, k) BY <1>2, <2>3
  <2>5. QED BY <1>1, <2>4, ClimbedLine
<1>5. PICK meta \in Disclosed : \E a, b \in Rollout(meta), saves \in BOOLEAN :
        LET zero == IF Mixed(meta, {a, b}) THEN 0 ELSE run.zero + 1
        IN IF PATIENCE > 0 /\ zero >= PATIENCE
           THEN /\ Raises("error")
                /\ ~saves /\ UNCHANGED dirs
           ELSE /\ run' = [run EXCEPT !.steps = @ + 1, !.zero = zero, !.weights = w]
                /\ dirs' = IF saves THEN [dirs EXCEPT ![run.name].ckpt = w] ELSE dirs
  BY DEF Batch
<1> HIDE DEF w
<1>6. \/ Raises("error") /\ UNCHANGED dirs
      \/ \E zero : /\ run' = [run EXCEPT !.steps = @ + 1, !.zero = zero, !.weights = w]
                   /\ dirs' = [dirs EXCEPT ![run.name].ckpt = w] \/ dirs' = dirs
  BY <1>5
<1>7. CASE Raises("error") /\ UNCHANGED dirs BY <1>1, <1>7, Raised
<1>8. CASE \E zero : /\ run' = [run EXCEPT !.steps = @ + 1, !.zero = zero, !.weights = w]
                     /\ dirs' = [dirs EXCEPT ![run.name].ckpt = w] \/ dirs' = dirs
  <2>1. PICK zero : /\ run' = [run EXCEPT !.steps = @ + 1, !.zero = zero, !.weights = w]
                    /\ dirs' = [dirs EXCEPT ![run.name].ckpt = w] \/ dirs' = dirs
    BY <1>8
  <2>2. SameRun /\ run'.pc = "train" /\ run'.weights = w /\ run'.server = run.server
    BY <1>1, <2>1 DEF RunType, SameRun
  <2>3. run' \in [kind : Programs, pc : Pcs, name : {run.name}, resume : {run.resume}, ckpt : {run.ckpt},
              server : {run.server}, weights : Adapter, steps : Nat, zero : {zero}, bundle : {run.bundle},
              split : {run.split}, adapter : {run.adapter}, left : {run.left}, at : {run.at},
              status : {run.status}, why : {run.why}]
    <3> DEFINE next == run.steps + 1
    <3>1. next \in Nat /\ run' = [run EXCEPT !.steps = next, !.zero = zero, !.weights = w] BY <1>1, <2>1 DEF RunType
    <3> HIDE DEF next
    <3>2. QED BY <1>1, <1>4, <3>1 DEF RunType
  <2>4. RunType' BY <1>1, <2>2, <2>3, Frame DEF RunType, SameRun
  <2>5. Fits(w.line, run.name) BY <1>2, <1>4 DEF Fits
  <2>6. load_curriculum(cfg) BY <1>1 DEF IInv, GrpoInv
  <2>7. DirType' /\ (dirs[run.name].ckpt # Base => dirs'[run.name].ckpt # Base)
    <3>1. CASE dirs' = dirs BY <1>1, <3>1, Frame DEF IInv, DirType
    <3>2. CASE dirs' = [dirs EXCEPT ![run.name].ckpt = w]
      <4> DEFINE r == [dirs[run.name] EXCEPT !.ckpt = w]
      <4>1. dirs[run.name] \in Directory BY <1>2, <1>3 DEF IInv, DirType
      <4>2. /\ r \in Directory /\ r.weights = dirs[run.name].weights /\ r.ckpt = w
            /\ r.marker = dirs[run.name].marker
        BY <1>4, <4>1 DEF Directory
      <4>3. dirs' = [dirs EXCEPT ![run.name] = r] BY <3>2
      <4> HIDE DEF r
      <4>4. /\ r.weights.line # <<>> => Fits(r.weights.line, run.name)
            /\ r.marker => r.weights.line # <<>>
            /\ run.name \in Paths(cfg) /\ DirType
        BY <1>2, <1>3, <4>2 DEF IInv, DirType
      <4>5. DirType' /\ dirs'[run.name] = r BY <1>1, <1>4, <2>5, <2>6, <4>2, <4>3, <4>4, DirWritten
      <4>6. QED BY <1>4, <4>2, <4>5 DEF Base
    <3>3. QED BY <2>1, <3>1, <3>2
  <2>8. shaping_weight' = shaping_weight BY <1>1, <2>2 DEF shaping_weight, SameRun
  <2>9. Base' = Base BY DEF Base
  <2>10. GrpoInv' BY <1>1, <1>2, <1>4, <2>2, <2>7, <2>8, <2>9, Frame DEF IInv, GrpoInv, SameRun
  <2>11. SftInv' /\ run'.kind # "eval" BY <1>1, <2>2 DEF SftInv, SameRun
  <2>12. PortInv' BY <1>1, <2>2 DEF IInv, PortInv, SameRun
  <2>13. QED BY <1>1, <2>4, <2>7, <2>10, <2>11, <2>12, KeptFrame
<1>9. QED BY <1>6, <1>7, <1>8

LEMMA BatchRaisesKeeps == IInv /\ BatchRaises => IInv'
BY Raised DEF BatchRaises, At

(* Only a run that trained saves.                                            *)
LEMMA TrainEndsKeeps == IInv /\ TrainEnds => IInv'
<1> SUFFICES ASSUME IInv, TrainEnds PROVE IInv'
  OBVIOUS
<1>1. /\ Kept /\ UNCHANGED <<dirs, port>> /\ run.pc = "train" /\ cfg' = cfg /\ RunType /\ run.kind \in {"grpo", "sft"}
      /\ "save" \in Pcs /\ "save" \in GrpoPcs /\ "save" \in SftPcs
  BY DEF TrainEnds, Kept, IInv, RunType, Programs, Pcs, GrpoPcs, SftPcs, EvalPcs
<1>2. CASE Raises("error") BY <1>1, <1>2, Raised
<1>3. CASE Goes("save")
  <2>1. RunType' /\ SameRun /\ run'.pc = "save" /\ run'.weights = run.weights BY <1>1, <1>3, RunGoes
  <2>2. DirType' BY <1>1, Frame DEF IInv, DirType
  <2>3. run.kind = "grpo" => run.steps # 0 BY TrainingAssumption DEF TrainEnds
  <2>4. GrpoInv' BY <1>1, <2>1, <2>3, Frame DEF IInv, GrpoInv, SameRun
  <2>5. SftInv' /\ run'.kind # "eval" BY <1>1, <2>1 DEF IInv, SftInv, SameRun
  <2>6. PortInv' BY <1>1, <2>1 DEF IInv, PortInv, SameRun
  <2>7. QED BY <1>1, <2>1, <2>2, <2>4, <2>5, <2>6, KeptFrame
<1>4. QED BY <1>2, <1>3 DEF TrainEnds

(* What is saved fits its directory.                                         *)
LEMMA SavedFits ==
  ASSUME IInv, run.pc \in {"save", "mark"}
  PROVE  /\ run.kind \in {"grpo", "sft"} /\ run.name \in Paths(cfg)
         /\ run.weights \in Adapter /\ run.weights.line # <<>> /\ Fits(run.weights.line, run.name)
         /\ run.name # "sft" => load_curriculum(cfg)
         /\ run.pc = "mark" => dirs[run.name].weights.line # <<>>
<1>1. run.kind \in {"grpo", "sft"} BY DEF IInv, RunType, Programs, EvalPcs
<1>2. run.weights \in Adapter /\ cfg \in Configs BY DEF IInv, RunType
<1>3. CASE run.kind = "grpo"
  <2>1. PICK k \in DOMAIN Stages : run.name = names[k] /\ Climbed(run.weights.line, k) BY <1>3 DEF IInv, GrpoInv
  <2>2. run.weights.line # <<>> /\ names[k] \in Paths(cfg) BY <1>2, <2>1, ClimbedLine, NamesOf
  <2>3. Fits(run.weights.line, run.name) BY <2>1 DEF Fits
  <2>4. QED BY <1>2, <1>3, <2>1, <2>2, <2>3 DEF IInv, GrpoInv
<1>4. CASE run.kind = "sft"
  <2>1. run.name = "sft" /\ run.weights.line = <<"sft">> /\ "sft" \in Paths(cfg) BY <1>2, <1>4, NamesOf DEF IInv, SftInv
  <2>2. QED BY <1>2, <1>4, <2>1 DEF Fits, IInv, SftInv
<1>5. QED BY <1>1, <1>3, <1>4

LEMMA SaveWeightsKeeps == IInv /\ SaveWeights => IInv'
<1> SUFFICES ASSUME IInv, SaveWeights PROVE IInv'
  OBVIOUS
<1>1. /\ Kept /\ UNCHANGED port /\ run.pc = "save" /\ cfg' = cfg /\ RunType /\ Goes("mark") /\ DirType
      /\ "mark" \in Pcs /\ "mark" \in GrpoPcs /\ "mark" \in SftPcs
  BY DEF SaveWeights, Kept, IInv, Pcs, GrpoPcs, SftPcs
<1>2. /\ run.kind \in {"grpo", "sft"} /\ run.name \in Paths(cfg)
      /\ run.weights \in Adapter /\ run.weights.line # <<>> /\ Fits(run.weights.line, run.name)
      /\ run.name # "sft" => load_curriculum(cfg)
  BY <1>1, SavedFits
<1>3. RunType' /\ SameRun /\ run'.pc = "mark" /\ run'.weights = run.weights BY <1>1, <1>2, RunGoes
<1> DEFINE r == [dirs[run.name] EXCEPT !.weights = run.weights]
<1>4. dirs[run.name] \in Directory BY <1>1, <1>2 DEF DirType
<1>5. r \in Directory /\ r.weights = run.weights /\ r.ckpt = dirs[run.name].ckpt BY <1>2, <1>4 DEF Directory
<1>6. dirs' = [dirs EXCEPT ![run.name] = r] BY DEF SaveWeights
<1> HIDE DEF r
<1>7. /\ r.ckpt.line # <<>> => Fits(r.ckpt.line, run.name)
      /\ r.ckpt # Base => r.ckpt.line # <<>>
      /\ r.weights.line # <<>> /\ Fits(r.weights.line, run.name)
  BY <1>1, <1>2, <1>5 DEF DirType
<1>8. DirType' /\ dirs'[run.name] = r BY <1>1, <1>2, <1>5, <1>6, <1>7, DirWritten
<1>9. Base' = Base BY DEF Base
<1>10. GrpoInv' BY <1>1, <1>2, <1>3, <1>5, <1>8, <1>9, Frame DEF IInv, GrpoInv, SameRun
<1>11. SftInv' /\ run'.kind # "eval" BY <1>1, <1>2, <1>3, <1>5, <1>8 DEF IInv, SftInv, SameRun
<1>12. PortInv' BY <1>1, <1>3 DEF IInv, PortInv, SameRun
<1>13. run.pc # "off" BY <1>1
<1>14. QED BY <1>1, <1>3, <1>8, <1>10, <1>11, <1>12, <1>13, KeptFrame

LEMMA SaveConfigKeeps == IInv /\ SaveConfig => IInv'
<1> SUFFICES ASSUME IInv, SaveConfig PROVE IInv'
  OBVIOUS
<1>1. Kept /\ UNCHANGED port /\ run.pc = "mark" /\ cfg' = cfg /\ RunType /\ Raises("ok") /\ DirType
  BY DEF SaveConfig, Kept, IInv
<1>2. /\ run.kind \in {"grpo", "sft"} /\ run.name \in Paths(cfg) /\ dirs[run.name].weights.line # <<>>
      /\ run.name # "sft" => load_curriculum(cfg)
  BY <1>1, SavedFits
<1>3. RunType' /\ SameRun /\ run'.pc = "stop" BY <1>1, <1>2, RunRaises
<1> DEFINE r == [dirs[run.name] EXCEPT !.marker = TRUE]
<1>4. dirs[run.name] \in Directory BY <1>1, <1>2 DEF DirType
<1>5. r \in Directory /\ r.weights = dirs[run.name].weights /\ r.ckpt = dirs[run.name].ckpt BY <1>4 DEF Directory
<1>6. dirs' = [dirs EXCEPT ![run.name] = r] BY DEF SaveConfig
<1> HIDE DEF r
<1>7. /\ r.ckpt.line # <<>> => Fits(r.ckpt.line, run.name)
      /\ r.ckpt # Base => r.ckpt.line # <<>>
      /\ Fits(r.weights.line, run.name) /\ r.weights.line # <<>>
  BY <1>1, <1>2, <1>5 DEF DirType
<1>8. DirType' /\ dirs'[run.name] = r BY <1>1, <1>2, <1>5, <1>6, <1>7, DirWritten
<1>9. Base' = Base BY DEF Base
<1>10. GrpoInv' BY <1>1, <1>2, <1>3, <1>5, <1>8, <1>9, Frame DEF IInv, GrpoInv, SameRun
<1>11. SftInv' /\ run'.kind # "eval" BY <1>1, <1>2, <1>3 DEF IInv, SftInv, SameRun
<1>12. PortInv' BY <1>1, <1>3 DEF IInv, PortInv, SameRun
<1>13. run.pc # "off" BY <1>1
<1>14. QED BY <1>1, <1>3, <1>8, <1>10, <1>11, <1>12, <1>13, KeptFrame

LEMMA StopKeeps == IInv /\ Stop => IInv'
<1> SUFFICES ASSUME IInv, Stop PROVE IInv'
  OBVIOUS
<1>1. run.kind \in {"grpo", "sft"} BY DEF Stop, IInv, RunType, Programs, EvalPcs
<1>2. QED BY <1>1, Ended DEF Stop

(* The warm start takes the exported episodes only if their seeds are training  *)
(* seeds.                                                                   *)
LEMMA SftChecksKeeps == IInv /\ SftChecks => IInv'
<1> SUFFICES ASSUME IInv, SftChecks PROVE IInv'
  OBVIOUS
<1>1. /\ Kept /\ UNCHANGED port /\ run.kind = "sft" /\ run.pc = "check" /\ cfg' = cfg /\ RunType /\ DirType
      /\ "train" \in Pcs /\ "train" \in SftPcs /\ cfg \in Configs /\ run.pc # "off" /\ "sft" \in Paths(cfg)
  BY NamesOf DEF SftChecks, At, Kept, IInv, Pcs, SftPcs
<1>2. CASE Raises("error") /\ UNCHANGED dirs BY <1>1, <1>2, Raised
<1> DEFINE seeds == SftSeeds(run.bundle)
           w == Trained(Base, "sft", seeds)
<1>3. CASE /\ seeds \subseteq Seeds(Stages)
           /\ run' = [run EXCEPT !.pc = "train", !.weights = w]
           /\ dirs' = [dirs EXCEPT !["sft"].manifest = TRUE]
  <2>1. w = [line |-> <<"sft">>, seeds |-> seeds] BY DEF Trained, Base
  <2> HIDE DEF w
  <2>2. w \in Adapter /\ w.line = <<"sft">>
    <3>1. <<"sft">> \in Seq(Paths(cfg)) BY <1>1
    <3>2. QED BY <1>3, <2>1, <3>1 DEF Adapter
  <2>3. SameRun /\ run'.pc = "train" /\ run'.weights = w BY <1>1, <1>3 DEF RunType, SameRun
  <2>4. run' \in [kind : Programs, pc : Pcs, name : {run.name}, resume : {run.resume}, ckpt : {run.ckpt},
              server : {run.server}, weights : Adapter, steps : Nat, zero : {run.zero}, bundle : {run.bundle},
              split : {run.split}, adapter : {run.adapter}, left : {run.left}, at : {run.at},
              status : {run.status}, why : {run.why}]
    BY <1>1, <1>3, <2>2 DEF RunType
  <2>5. RunType' BY <1>1, <2>3, <2>4, Frame DEF RunType, SameRun
  <2> DEFINE r == [dirs["sft"] EXCEPT !.manifest = TRUE]
  <2>6. dirs["sft"] \in Directory BY <1>1 DEF DirType
  <2>7. /\ r \in Directory /\ r.weights = dirs["sft"].weights /\ r.ckpt = dirs["sft"].ckpt
        /\ r.marker = dirs["sft"].marker
    BY <2>6 DEF Directory
  <2>8. dirs' = [dirs EXCEPT !["sft"] = r] BY <1>3
  <2> HIDE DEF r
  <2>9. /\ r.weights.line # <<>> => Fits(r.weights.line, "sft")
        /\ r.ckpt.line # <<>> => Fits(r.ckpt.line, "sft")
        /\ r.marker => r.weights.line # <<>>
        /\ r.ckpt # Base => r.ckpt.line # <<>>
    BY <1>1, <2>7 DEF DirType
  <2>10. DirType' BY <1>1, <2>7, <2>8, <2>9, DirWritten
  <2>11. GrpoInv' /\ run'.kind # "eval" BY <1>1, <2>3 DEF GrpoInv, SameRun
  <2>12. SftInv' BY <1>1, <2>2, <2>3 DEF IInv, SftInv, SameRun
  <2>13. PortInv' BY <1>1, <2>3 DEF IInv, PortInv, SameRun
  <2>14. QED BY <1>1, <2>5, <2>10, <2>11, <2>12, <2>13, KeptFrame
<1>4. QED BY <1>2, <1>3 DEF SftChecks

-----------------------------------------------------------------------------
(* Steps of an evaluation.                                                  *)

BundleSet(r) ==
  [status : Statuses, split : Splits, weights : Adapter, lines : {r.lines}, won : {r.won}, sft : {r.sft},
   summary : {r.summary}]

(* A bundle that is written.                                                *)
LEMMA BundleWritten ==
  ASSUME BundleInv, cfg' = cfg, NEW b \in Bundles, NEW r, r \in BundleSet(r), bundles' = [bundles EXCEPT ![b] = r],
         Counts(r), r.status # "none" => validate_config(cfg), r.status = "complete" => Entire(r)
  PROVE  BundleInv' /\ bundles'[b] = r
<1>1. DOMAIN bundles' = Bundles /\ bundles'[b] = r /\ \A e \in Bundles \ {b} : bundles'[e] = bundles[e]
  BY DEF BundleInv
<1>2. \A e \in Bundles : (bundles'[e] \in BundleSet(bundles'[e])) /\ Counts(bundles'[e])
                         /\ (bundles'[e].status # "none" => validate_config(cfg))
                         /\ (bundles'[e].status = "complete" => Entire(bundles'[e]))
  BY <1>1 DEF BundleInv, BundleSet
<1>3. Adapter' = Adapter /\ \A x : (Counts(x)' <=> Counts(x)) /\ (Entire(x)' <=> Entire(x))
  BY Frame DEF Counts, Entire
<1>4. QED BY <1>1, <1>2, <1>3 DEF BundleInv, BundleSet

(* What every step of an evaluation starts from.                             *)
LEMMA EvalFacts ==
  ASSUME IInv, EvalKept, run.kind = "eval"
  PROVE  /\ cfg' = cfg /\ RunType /\ run.pc # "off" /\ BundleInv /\ run.bundle \in Bundles
         /\ run.split \in Splits /\ Bundle \in BundleSet(Bundle) /\ Counts(Bundle)
         /\ run.adapter \in Paths(cfg) \cup {None}
BY DEF IInv, EvalKept, RunType, EvalPcs, EvalInv, BundleInv, Bundle, BundleSet

LEMMA EvalRunType ==
  ASSUME RunType, cfg' = cfg, run.kind = "eval", NEW pc \in EvalPcs, NEW left, NEW at, NEW status,
         run' = [run EXCEPT !.pc = pc, !.left = left, !.at = at, !.status = status]
  PROVE  RunType' /\ SameRun /\ run'.pc = pc /\ run'.left = left /\ run'.at = at /\ run'.status = status
<1>1. SameRun /\ run'.pc = pc /\ run'.left = left /\ run'.at = at /\ run'.status = status BY DEF RunType, SameRun
<1>2. run' \in [kind : Programs, pc : Pcs, name : {run.name}, resume : {run.resume}, ckpt : {run.ckpt},
              server : {run.server}, weights : Adapter, steps : Nat, zero : {run.zero}, bundle : {run.bundle},
              split : {run.split}, adapter : {run.adapter}, left : {left}, at : {at},
              status : {status}, why : {run.why}]
  BY DEF RunType, Pcs
<1>3. pc # "off" /\ run.pc # "off" BY DEF RunType, EvalPcs
<1>4. QED BY <1>1, <1>2, <1>3, Frame DEF RunType, SameRun

LEMMA EvalBeginsKeeps == IInv /\ EvalBegins => IInv'
<1> SUFFICES ASSUME IInv, EvalBegins PROVE IInv'
  OBVIOUS
<1>1. EvalKept /\ run.kind = "eval" /\ run.pc = "begin" BY DEF EvalBegins, At
<1>2. /\ cfg' = cfg /\ RunType /\ run.pc # "off" /\ BundleInv /\ run.bundle \in Bundles /\ run.split \in Splits
      /\ run.adapter \in Paths(cfg) \cup {None}
  BY <1>1, EvalFacts
<1>3. CASE run' = Off("error") /\ UNCHANGED bundles
  <2>1. RunType' /\ run'.kind = "none" BY <1>2, <1>3, RunEnds
  <2>2. BundleInv' BY <1>2, <1>3, Frame DEF BundleInv, Counts, Entire
  <2>3. QED BY <1>1, <2>1, <2>2, EvalFrame DEF EvalInv
<1>4. CASE /\ validate_config(cfg) /\ run' = [run EXCEPT !.pc = "episode", !.left = Planned(run.split)]
           /\ bundles' = [bundles EXCEPT ![run.bundle] = Opened]
  <2> DEFINE r == Opened
             wts == IF run.adapter = None THEN Base ELSE dirs[run.adapter].weights
  <2>1. wts \in Adapter
    <3>1. Base \in Adapter BY DEF Base, Adapter
    <3>2. QED BY <1>2, <3>1 DEF IInv, DirType, Directory
  <2>2. /\ r.status = "running" /\ r.split = run.split /\ r.lines = Empty /\ r.sft = Empty
        /\ r \in BundleSet(r)
    BY <1>2, <2>1 DEF Opened, EmptyBundle, BundleSet, Statuses
  <2> HIDE DEF r
  <2>3. Counts(r) BY <2>2 DEF Counts, Empty
  <2>4. bundles' = [bundles EXCEPT ![run.bundle] = r] BY <1>4 DEF r
  <2>5. BundleInv' /\ bundles'[run.bundle] = r BY <1>2, <1>4, <2>2, <2>3, <2>4, BundleWritten
  <2>6. SameRun /\ run'.pc = "episode" /\ run'.left = Planned(run.split) /\ run'.at = run.at /\ run'.status = run.status
    BY <1>2, <1>4 DEF RunType, SameRun
  <2>7. RunType'
    <3>1. run' \in [kind : Programs, pc : Pcs, name : {run.name}, resume : {run.resume}, ckpt : {run.ckpt},
              server : {run.server}, weights : Adapter, steps : Nat, zero : {run.zero}, bundle : {run.bundle},
              split : {run.split}, adapter : {run.adapter}, left : {Planned(run.split)}, at : {run.at},
              status : {run.status}, why : {run.why}]
      BY <1>2, <1>4 DEF RunType, Pcs, EvalPcs
    <3>2. QED BY <1>1, <1>2, <2>6, <3>1, Frame DEF RunType, SameRun, EvalPcs
  <2>8. Written(r, Planned(run.split), Exports, {}) BY <2>2 DEF Written, Empty
  <2>9. EvalInv' BY <1>1, <1>2, <1>4, <2>2, <2>5, <2>6, <2>8, Frame DEF IInv, EvalInv, SameRun, Bundle, Written, Exports
  <2>10. QED BY <1>1, <2>5, <2>6, <2>7, <2>9, EvalFrame DEF SameRun
<1>5. QED BY <1>3, <1>4 DEF EvalBegins, Admitted

(* An evaluation that failed keeps the invariant.                            *)
LEMMA FailedKeeps ==
  ASSUME IInv, EvalKept, run.kind = "eval", run.pc # "begin", run' = Failed, BundleInv',
         bundles'[run.bundle].status = "running"
  PROVE  IInv'
<1>1. cfg' = cfg /\ RunType /\ "summary" \in EvalPcs /\ run.bundle \in Bundles BY EvalFacts DEF EvalPcs
<1>2. run' = [run EXCEPT !.pc = "summary", !.left = run.left, !.at = None, !.status = "failed"]
  BY <1>1 DEF Failed, RunType
<1>3. RunType' /\ SameRun /\ run'.pc = "summary" /\ run'.status = "failed"
  <2>1. SameRun /\ run'.pc = "summary" /\ run'.status = "failed"
    BY <1>1 DEF RunType, SameRun, Failed
  <2>2. run' \in [kind : Programs, pc : Pcs, name : {run.name}, resume : {run.resume}, ckpt : {run.ckpt},
              server : {run.server}, weights : Adapter, steps : Nat, zero : {run.zero}, bundle : {run.bundle},
              split : {run.split}, adapter : {run.adapter}, left : {run.left}, at : {None},
              status : {"failed"}, why : {run.why}]
    BY <1>1 DEF RunType, Failed, Pcs
  <2>3. run'.at = None /\ run.pc # "off" BY <1>1 DEF Failed, RunType, EvalPcs
  <2>4. QED BY <1>1, <2>1, <2>2, <2>3, Frame DEF RunType, SameRun
<1>4. EvalInv' BY <1>1, <1>3, Frame DEF IInv, EvalInv, SameRun, Bundle
<1>5. QED BY <1>1, <1>3, <1>4, EvalFrame DEF SameRun

LEMMA EpisodeKeeps == IInv /\ Episode => IInv'
<1> SUFFICES ASSUME IInv, Episode PROVE IInv'
  OBVIOUS
<1>1. EvalKept /\ run.kind = "eval" /\ run.pc = "episode" BY DEF Episode, At
<1>2. /\ cfg' = cfg /\ RunType /\ run.pc # "off" /\ BundleInv /\ run.bundle \in Bundles /\ run.split \in Splits
      /\ run.adapter \in Paths(cfg) \cup {None} /\ Bundle \in BundleSet(Bundle) /\ Counts(Bundle)
  BY <1>1, EvalFacts
<1>3. /\ validate_config(cfg) /\ Bundle.status = "running" /\ Written(Bundle, run.left, Exports, {})
      /\ run.status \in {"complete", "failed"}
  BY <1>1 DEF IInv, EvalInv
<1>4. PICK at \in run.left, success \in BOOLEAN :
        /\ bundles' = [bundles EXCEPT ![run.bundle] = append(@, at, success)]
        /\ run' = IF ~Exports THEN [run EXCEPT !.left = @ \ {at}]
                  ELSE IF success THEN [run EXCEPT !.pc = "export", !.left = @ \ {at}, !.at = at]
                  ELSE Failed
  BY DEF Episode
<1> DEFINE r == append(Bundle, at, success)
           left == run.left \ {at}
<1>5. at \in Planned(run.split) /\ run.left \subseteq Planned(run.split) BY <1>3, <1>4 DEF Written
<1>6. Bundle.lines[at] = 0 /\ at \in DOMAIN Bundle.lines BY <1>3, <1>4, <1>5 DEF Written
<1>7. /\ r.status = Bundle.status /\ r.split = Bundle.split /\ r.sft = Bundle.sft /\ r.summary = Bundle.summary
      /\ r.lines = [Bundle.lines EXCEPT ![at] = 1] /\ Bundle.won \subseteq r.won /\ (success => at \in r.won)
      /\ r \in BundleSet(r)
  <2> DEFINE lines == [Bundle.lines EXCEPT ![at] = @ + 1]
             won == IF success THEN Bundle.won \cup {at} ELSE Bundle.won
  <2>1. r = [Bundle EXCEPT !.lines = lines, !.won = won] BY DEF append
  <2>2. lines = [Bundle.lines EXCEPT ![at] = 1] BY <1>6
  <2>3. Bundle.won \subseteq won /\ (success => at \in won) OBVIOUS
  <2> HIDE DEF lines, won, r
  <2>4. /\ r.status = Bundle.status /\ r.split = Bundle.split /\ r.sft = Bundle.sft /\ r.summary = Bundle.summary
        /\ r.lines = lines /\ r.won = won /\ r.weights = Bundle.weights
    BY <1>2, <2>1 DEF BundleSet
  <2>5. r \in [status : Statuses, split : Splits, weights : Adapter, lines : {lines}, won : {won}, sft : {Bundle.sft},
              summary : {Bundle.summary}]
    BY <1>2, <2>1 DEF BundleSet
  <2>6. QED BY <2>2, <2>3, <2>4, <2>5 DEF BundleSet
<1>8. bundles' = [bundles EXCEPT ![run.bundle] = r] BY <1>4 DEF Bundle
<1> HIDE DEF r
<1>9. r.lines = [p \in Planned(run.split) |-> IF p \in left THEN 0 ELSE 1]
  BY <1>3, <1>5, <1>7 DEF Written
<1>10. r.sft = [p \in Planned(run.split) |-> IF Exports /\ p \notin left \cup {at} THEN 1 ELSE 0]
  BY <1>3, <1>4, <1>7 DEF Written
<1>11. Counts(r) BY <1>2, <1>7 DEF Counts
<1>12. BundleInv' /\ bundles'[run.bundle] = r BY <1>2, <1>3, <1>7, <1>8, <1>11, BundleWritten
<1>13. Written(r, left, Exports, {at}) BY <1>3, <1>5, <1>7, <1>9, <1>10 DEF Written
<1>14. CASE ~Exports
  <2>1. run' = [run EXCEPT !.left = left] BY <1>4, <1>14
  <2>2. SameRun /\ run'.pc = "episode" /\ run'.left = left /\ run'.at = run.at /\ run'.status = run.status
    BY <1>1, <1>2, <2>1 DEF RunType, SameRun
  <2> HIDE DEF left
  <2>3. RunType'
    <3>1. run' \in [kind : Programs, pc : Pcs, name : {run.name}, resume : {run.resume}, ckpt : {run.ckpt},
              server : {run.server}, weights : Adapter, steps : Nat, zero : {run.zero}, bundle : {run.bundle},
              split : {run.split}, adapter : {run.adapter}, left : {left}, at : {run.at},
              status : {run.status}, why : {run.why}]
      BY <1>2, <2>1 DEF RunType
    <3>2. QED BY <1>1, <1>2, <2>2, <3>1, Frame DEF RunType, SameRun
  <2>4. Written(r, left, FALSE, {}) BY <1>13, <1>14 DEF Written
  <2>5. Written(r, left, Exports, {}) BY <1>14, <2>4 DEF Written
  <2>6. EvalInv' BY <1>1, <1>2, <1>3, <1>7, <1>12, <2>2, <2>5, Frame DEF EvalInv, SameRun, Bundle, Written, Exports
  <2>7. QED BY <1>1, <1>12, <2>2, <2>3, <2>6, EvalFrame DEF SameRun
<1>15. CASE Exports /\ success
  <2>1. run' = [run EXCEPT !.pc = "export", !.left = left, !.at = at] BY <1>4, <1>15
  <2>2. SameRun /\ run'.pc = "export" /\ run'.left = left /\ run'.at = at /\ run'.status = run.status
    BY <1>1, <1>2, <2>1 DEF RunType, SameRun
  <2>3. at \in Planned(run.split) \ left BY <1>5
  <2> HIDE DEF left
  <2>4. RunType'
    <3>1. run' \in [kind : Programs, pc : Pcs, name : {run.name}, resume : {run.resume}, ckpt : {run.ckpt},
              server : {run.server}, weights : Adapter, steps : Nat, zero : {run.zero}, bundle : {run.bundle},
              split : {run.split}, adapter : {run.adapter}, left : {left}, at : {at},
              status : {run.status}, why : {run.why}]
      BY <1>2, <2>1 DEF RunType, Pcs, EvalPcs
    <3>2. QED BY <1>1, <1>2, <2>2, <3>1, Frame DEF RunType, SameRun, EvalPcs
  <2>5. Written(r, left, TRUE, {at}) BY <1>13, <1>15 DEF Written
  <2>6. EvalInv'
    BY <1>1, <1>2, <1>3, <1>7, <1>12, <1>15, <2>2, <2>3, <2>5, Frame DEF EvalInv, SameRun, Bundle, Written, Exports
  <2>7. QED BY <1>1, <1>12, <2>2, <2>4, <2>6, EvalFrame DEF SameRun
<1>16. CASE run' = Failed BY <1>1, <1>3, <1>7, <1>12, <1>16, FailedKeeps
<1>17. QED BY <1>4, <1>14, <1>15, <1>16

LEMMA ExportKeeps == IInv /\ Export => IInv'
<1> SUFFICES ASSUME IInv, Export PROVE IInv'
  OBVIOUS
<1>1. EvalKept /\ run.kind = "eval" /\ run.pc = "export" BY DEF Export, At
<1>2. /\ cfg' = cfg /\ RunType /\ run.pc # "off" /\ BundleInv /\ run.bundle \in Bundles /\ run.split \in Splits
      /\ run.adapter \in Paths(cfg) \cup {None} /\ Bundle \in BundleSet(Bundle) /\ Counts(Bundle)
  BY <1>1, EvalFacts
<1>3. /\ validate_config(cfg) /\ Bundle.status = "running" /\ Exports /\ Written(Bundle, run.left, TRUE, {run.at})
      /\ run.at \in Planned(run.split) \ run.left /\ run.at \in Bundle.won /\ run.status \in {"complete", "failed"}
  BY <1>1 DEF IInv, EvalInv
<1> DEFINE sft == [Bundle.sft EXCEPT ![run.at] = @ + 1]
           r   == [Bundle EXCEPT !.sft = sft]
<1>4. run.at \in DOMAIN Bundle.sft /\ Bundle.sft[run.at] = 0 /\ Bundle.lines[run.at] = 1 BY <1>3 DEF Written
<1>5. sft = [Bundle.sft EXCEPT ![run.at] = 1] BY <1>4
<1>6. sft = [p \in Planned(run.split) |-> IF p \notin run.left THEN 1 ELSE 0] BY <1>3, <1>5 DEF Written
<1>7. bundles' = [bundles EXCEPT ![run.bundle] = r] BY DEF Export, Bundle
<1> HIDE DEF sft
<1>8. /\ r.status = Bundle.status /\ r.split = Bundle.split /\ r.lines = Bundle.lines /\ r.won = Bundle.won /\ r.sft = sft
      /\ r \in BundleSet(r)
  BY <1>2 DEF BundleSet
<1> HIDE DEF r
<1>9. Counts(r) BY <1>2, <1>3, <1>4, <1>5, <1>8 DEF Counts
<1>10. BundleInv' /\ bundles'[run.bundle] = r BY <1>2, <1>3, <1>7, <1>8, <1>9, BundleWritten
<1>11. Written(r, run.left, Exports, {}) BY <1>3, <1>6, <1>8 DEF Written
<1>12. SameRun /\ run'.pc = "episode" /\ run'.left = run.left /\ run'.at = None /\ run'.status = run.status
  BY <1>2 DEF Export, RunType, SameRun
<1>13. RunType'
  <2>1. run' \in [kind : Programs, pc : Pcs, name : {run.name}, resume : {run.resume}, ckpt : {run.ckpt},
              server : {run.server}, weights : Adapter, steps : Nat, zero : {run.zero}, bundle : {run.bundle},
              split : {run.split}, adapter : {run.adapter}, left : {run.left}, at : {None},
              status : {run.status}, why : {run.why}]
    BY <1>2 DEF Export, RunType, Pcs, EvalPcs
  <2>2. QED BY <1>1, <1>2, <1>12, <2>1, Frame DEF RunType, SameRun, EvalPcs
<1>14. EvalInv' BY <1>1, <1>2, <1>3, <1>8, <1>10, <1>11, <1>12, Frame DEF EvalInv, SameRun, Bundle, Written, Exports
<1>15. QED BY <1>1, <1>10, <1>12, <1>13, <1>14, EvalFrame DEF SameRun

LEMMA EvalRaisesKeeps == IInv /\ EvalRaises => IInv'
<1> SUFFICES ASSUME IInv, EvalRaises PROVE IInv'
  OBVIOUS
<1>1. EvalKept /\ run.kind = "eval" /\ run.pc # "begin" /\ run' = Failed /\ bundles' = bundles
  BY DEF EvalRaises, At
<1>2. cfg' = cfg /\ BundleInv /\ Bundle.status = "running" BY <1>1, EvalFacts DEF IInv, EvalInv
<1>3. BundleInv' BY <1>1, <1>2, Frame DEF BundleInv, Counts, Entire
<1>4. QED BY <1>1, <1>2, <1>3, FailedKeeps DEF Bundle

LEMMA EvalDoneKeeps == IInv /\ EvalDone => IInv'
<1> SUFFICES ASSUME IInv, EvalDone PROVE IInv'
  OBVIOUS
<1>1. EvalKept /\ run.kind = "eval" /\ run.pc = "episode" /\ run.left = {} /\ Goes("summary") /\ bundles' = bundles
  BY DEF EvalDone, At
<1>2. /\ cfg' = cfg /\ RunType /\ run.pc # "off" /\ BundleInv /\ run.bundle \in Bundles /\ run.split \in Splits
      /\ run.adapter \in Paths(cfg) \cup {None} /\ "summary" \in Pcs /\ "summary" \in EvalPcs
  BY <1>1, EvalFacts DEF Pcs, EvalPcs
<1>3. /\ validate_config(cfg) /\ Bundle.status = "running" /\ Written(Bundle, {}, Exports, {})
      /\ run.status \in {"complete", "failed"}
  BY <1>1 DEF IInv, EvalInv
<1>4. RunType' /\ SameRun /\ run'.pc = "summary" /\ run'.status = run.status BY <1>1, <1>2, RunGoes
<1>5. Bundle.split = run.split /\ Bundle.lines = Once(run.split) /\ Bundle.sft \in {Once(run.split), Never(run.split)}
  <2>1. Bundle.lines = Once(run.split) BY <1>3 DEF Written, Once
  <2>2. CASE Exports BY <1>3, <2>1, <2>2 DEF Written, Once
  <2>3. CASE ~Exports BY <1>3, <2>1, <2>3 DEF Written, Never
  <2>4. QED BY <1>3, <2>1, <2>2, <2>3 DEF Written
<1>6. BundleInv' BY <1>1, <1>2, Frame DEF BundleInv, Counts, Entire
<1>7. EvalInv' BY <1>1, <1>2, <1>3, <1>4, <1>5, Frame DEF EvalInv, SameRun, Bundle
<1>8. QED BY <1>1, <1>4, <1>6, <1>7, EvalFrame DEF SameRun

LEMMA SummaryKeeps == IInv /\ Summary => IInv'
<1> SUFFICES ASSUME IInv, Summary PROVE IInv'
  OBVIOUS
<1>1. EvalKept /\ run.kind = "eval" /\ run.pc = "summary" /\ Goes("report") BY DEF Summary, At
<1>2. /\ cfg' = cfg /\ RunType /\ run.pc # "off" /\ BundleInv /\ run.bundle \in Bundles /\ run.split \in Splits
      /\ run.adapter \in Paths(cfg) \cup {None} /\ Bundle \in BundleSet(Bundle) /\ Counts(Bundle)
      /\ "report" \in Pcs /\ "report" \in EvalPcs
  BY <1>1, EvalFacts DEF Pcs, EvalPcs
<1>3. /\ validate_config(cfg) /\ Bundle.status = "running" /\ run.status \in {"complete", "failed"}
      /\ run.status = "complete" =>
           /\ Bundle.split = run.split /\ Bundle.lines = Once(run.split)
           /\ Bundle.sft \in {Once(run.split), Never(run.split)}
  BY <1>1 DEF IInv, EvalInv
<1>4. RunType' /\ SameRun /\ run'.pc = "report" /\ run'.status = run.status BY <1>1, <1>2, RunGoes
<1> DEFINE r == [Bundle EXCEPT !.summary = summarize_records(Bundle.lines, Bundle.won)]
<1>5. bundles' = [bundles EXCEPT ![run.bundle] = r] BY DEF Summary, Bundle
<1>6. /\ r.status = Bundle.status /\ r.split = Bundle.split /\ r.lines = Bundle.lines /\ r.won = Bundle.won
      /\ r.sft = Bundle.sft /\ r.summary = summarize_records(r.lines, r.won) /\ r \in BundleSet(r)
  BY <1>2 DEF BundleSet
<1> HIDE DEF r
<1>7. Counts(r) BY <1>2, <1>6 DEF Counts
<1>8. BundleInv' /\ bundles'[run.bundle] = r BY <1>2, <1>3, <1>5, <1>6, <1>7, BundleWritten
<1>9. EvalInv'
  <2>1. \A x, y : summarize_records(x, y)' = summarize_records(x, y) BY DEF summarize_records
  <2>2. QED BY <1>1, <1>2, <1>3, <1>4, <1>6, <1>8, <2>1, Frame DEF EvalInv, SameRun, Bundle
<1>10. QED BY <1>1, <1>4, <1>8, <1>9, EvalFrame DEF SameRun

LEMMA ReportKeeps == IInv /\ Report => IInv'
<1> SUFFICES ASSUME IInv, Report PROVE IInv'
  OBVIOUS
<1>1. EvalKept /\ run.kind = "eval" /\ run.pc = "report" /\ run' = Off("ok") BY DEF Report, At
<1>2. /\ cfg' = cfg /\ BundleInv /\ run.bundle \in Bundles /\ Bundle \in BundleSet(Bundle) /\ Counts(Bundle)
  BY <1>1, EvalFacts
<1>3. /\ validate_config(cfg) /\ run.status \in {"complete", "failed"}
      /\ Bundle.summary = summarize_records(Bundle.lines, Bundle.won)
      /\ run.status = "complete" =>
           /\ Bundle.split = run.split /\ Bundle.lines = Once(run.split)
           /\ Bundle.sft \in {Once(run.split), Never(run.split)}
  BY <1>1 DEF IInv, EvalInv
<1>4. RunType' /\ run'.kind = "none" BY <1>1, <1>2, RunEnds
<1> DEFINE r == [Bundle EXCEPT !.status = run.status]
<1>5. bundles' = [bundles EXCEPT ![run.bundle] = r] BY DEF Report, Bundle
<1>6. /\ r.status = run.status /\ r.split = Bundle.split /\ r.lines = Bundle.lines /\ r.won = Bundle.won
      /\ r.sft = Bundle.sft /\ r.summary = Bundle.summary /\ r \in BundleSet(r)
  BY <1>2, <1>3 DEF BundleSet, Statuses
<1> HIDE DEF r
<1>7. Counts(r) /\ (r.status = "complete" => Entire(r)) BY <1>2, <1>3, <1>6 DEF Counts, Entire
<1>8. BundleInv' BY <1>2, <1>3, <1>5, <1>6, <1>7, BundleWritten
<1>9. QED BY <1>1, <1>4, <1>8, EvalFrame DEF EvalInv

-----------------------------------------------------------------------------
(* The operator, the ladder, and what is killed.                              *)

LEMMA ActsBounded ==
  ASSUME IInv, Intervenes
  PROVE  acts' \in 0..MaxActs /\ cfg' = cfg /\ cfg' \in Configs
BY TrainingAssumption DEF IInv, Intervenes

(* A program that starts while nothing runs.                                  *)
LEMMA Started ==
  ASSUME IInv, run.pc = "off", ladder'.pc # "next", UNCHANGED <<cfg, dirs, bundles, port>>,
         acts' \in 0..MaxActs, LadderInv', RunType', GrpoInv', SftInv', EvalInv'
  PROVE  IInv'
<1>1. DirType' BY Frame DEF IInv, DirType
<1>2. BundleInv' BY Frame DEF IInv, BundleInv, Counts, Entire
<1>3. PortInv' BY DEF IInv, PortInv, RunType
<1>4. QED BY <1>1, <1>2, <1>3 DEF IInv

LEMMA GrpoStarts ==
  ASSUME IInv, cfg' = cfg, UNCHANGED dirs, NEW k \in DOMAIN Stages, NEW resume, NEW ckpt,
         run' = grpo(names[k], resume, ckpt), load_curriculum(cfg),
         \/ resume = None /\ ckpt = names[k] /\ dirs[names[k]].ckpt # Base
         \/ ckpt = None /\ Resumes(resume, k)
  PROVE  RunType' /\ GrpoInv' /\ SftInv' /\ EvalInv'
<1>1. Base \in Adapter /\ "validate" \in Pcs /\ "validate" \in GrpoPcs /\ "grpo" \in Programs
  BY DEF Base, Adapter, Pcs, GrpoPcs, Programs
<1>2. /\ run'.kind = "grpo" /\ run'.pc = "validate" /\ run'.name = names[k] /\ run'.resume = resume /\ run'.ckpt = ckpt
      /\ run'.weights = Base /\ run'.steps = 0
  BY DEF grpo, NoRun
<1>3. RunType'
  <2>1. run' \in [kind : Programs, pc : Pcs, name : {names[k]}, resume : {resume}, ckpt : {ckpt},
              server : {None}, weights : Adapter, steps : Nat, zero : {0}, bundle : {None},
              split : {"train"}, adapter : {None}, left : {{}}, at : {None}, status : {"none"}, why : {"error"}]
    BY <1>1 DEF grpo, NoRun
  <2>2. run' \in [kind : Programs, pc : Pcs, name : {run'.name}, resume : {run'.resume}, ckpt : {run'.ckpt},
              server : {run'.server}, weights : Adapter, steps : Nat, zero : {run'.zero}, bundle : {run'.bundle},
              split : {run'.split}, adapter : {run'.adapter}, left : {run'.left}, at : {run'.at},
              status : {run'.status}, why : {run'.why}]
    BY <2>1
  <2>3. QED BY <1>1, <1>2, <2>2, Frame DEF RunType
<1>4. Base' = Base /\ k \in DOMAIN Stages' /\ names'[k] = names[k] BY Frame DEF Base
<1>5. GrpoInv' BY <1>2, <1>4, Frame DEF GrpoInv
<1>6. QED BY <1>2, <1>3, <1>5 DEF SftInv, EvalInv

LEMMA StartLadderKeeps ==
  ASSUME IInv, NEW start \in DOMAIN Stages, NEW initial \in {None, "sft"}, StartLadder(start, initial)
  PROVE  IInv'
<1>1. /\ run.pc = "off" /\ run' = run /\ Intervenes /\ UNCHANGED <<dirs, bundles, port>>
      /\ cfg \in Configs /\ RunType
  BY DEF StartLadder, Launch, Quiet, IInv
<1>2. acts' \in 0..MaxActs /\ cfg' = cfg BY <1>1, ActsBounded
<1>3. start \in Nat \ {0} /\ "sft" # None BY <1>1, NamesOf
<1> DEFINE prev == IF initial = None /\ start > 1 THEN names[start - 1] ELSE initial
<1>4. Resumes(prev, start) BY <1>3 DEF Resumes
<1>5. ladder' = ladder \/ (load_curriculum(cfg) /\ ladder' = [pc |-> "next", at |-> start, resume |-> prev])
  BY DEF StartLadder
<1> HIDE DEF prev
<1>6. LadderInv' BY <1>1, <1>2, <1>3, <1>4, <1>5, Frame DEF IInv, LadderInv
<1>7. RunType' BY <1>1, <1>2, Frame DEF RunType
<1>8. DirType' BY <1>1, <1>2, Frame DEF IInv, DirType
<1>9. BundleInv' BY <1>1, <1>2, Frame DEF IInv, BundleInv, Counts, Entire
<1>10. run.kind = "none" BY <1>1 DEF RunType
<1>11. PortInv' /\ GrpoInv' /\ SftInv' /\ EvalInv' BY <1>1, <1>10 DEF IInv, PortInv, GrpoInv, SftInv, EvalInv
<1>12. QED BY <1>1, <1>2, <1>6, <1>7, <1>8, <1>9, <1>11 DEF IInv

LEMMA NextStageKeeps == IInv /\ NextStage => IInv'
<1> SUFFICES ASSUME IInv, NextStage PROVE IInv'
  OBVIOUS
<1>1. /\ run.pc = "off" /\ UNCHANGED <<cfg, dirs, bundles, port, acts>> /\ ladder.pc = "next"
      /\ cfg \in Configs /\ RunType /\ acts \in 0..MaxActs /\ load_curriculum(cfg)
      /\ ladder.at \in Nat \ {0} /\ Resumes(ladder.resume, ladder.at)
  BY DEF NextStage, IInv, LadderInv
<1>2. CASE ladder' = NoLadder /\ UNCHANGED run
  <2>1. RunType' BY <1>1, <1>2, Frame DEF RunType
  <2>2. run.kind = "none" BY <1>1 DEF RunType
  <2>3. LadderInv' BY <1>2 DEF LadderInv, NoLadder
  <2>4. GrpoInv' /\ SftInv' /\ EvalInv' BY <1>2, <2>2 DEF GrpoInv, SftInv, EvalInv
  <2>5. ladder'.pc # "next" BY <1>2 DEF NoLadder
  <2>6. QED BY <1>1, <2>1, <2>3, <2>4, <2>5, Started
<1>3. CASE /\ ~(ladder.at > Len(Stages)) /\ ladder' = [ladder EXCEPT !.pc = "waiting"]
           /\ run' = grpo(names[ladder.at], ladder.resume, None)
  <2>1. ladder.at \in DOMAIN Stages BY <1>1, <1>3, NamesOf
  <2>2. RunType' /\ GrpoInv' /\ SftInv' /\ EvalInv' BY <1>1, <1>3, <2>1, GrpoStarts
  <2>3. ladder' = [pc |-> "waiting", at |-> ladder.at, resume |-> ladder.resume] BY <1>3 DEF IInv, LadderInv
  <2>4. LadderInv' BY <1>1, <2>1, <2>3, Frame DEF LadderInv
  <2>5. QED BY <1>1, <2>2, <2>3, <2>4, Started
<1>4. QED BY <1>2, <1>3 DEF NextStage

(* Nothing but the ladder changes.                                           *)
LEMMA LadderChanges ==
  ASSUME IInv, UNCHANGED <<cfg, dirs, bundles, port, run>>, acts' \in 0..MaxActs, LadderInv'
  PROVE  IInv'
<1>1. RunType' BY Frame DEF IInv, RunType
<1>2. DirType' BY Frame DEF IInv, DirType
<1>3. BundleInv' BY Frame DEF IInv, BundleInv, Counts, Entire
<1>4. PortInv' BY DEF IInv, PortInv
<1>5. shaping_weight' = shaping_weight /\ Base' = Base BY DEF shaping_weight, Base
<1>6. GrpoInv' BY <1>5, Frame DEF IInv, GrpoInv
<1>7. SftInv' BY DEF IInv, SftInv
<1>8. EvalInv'
  <2>1. \A x, y : summarize_records(x, y)' = summarize_records(x, y) BY DEF summarize_records
  <2>2. QED BY <2>1, Frame DEF IInv, EvalInv, Bundle, Written, Exports
<1>9. QED BY <1>1, <1>2, <1>3, <1>4, <1>6, <1>7, <1>8 DEF IInv

LEMMA StageEndsKeeps == IInv /\ StageEnds => IInv'
<1> SUFFICES ASSUME IInv, StageEnds PROVE IInv'
  OBVIOUS
<1>1. /\ UNCHANGED <<cfg, dirs, bundles, port, run, acts>> /\ run.pc = "off" /\ cfg \in Configs /\ acts \in 0..MaxActs
      /\ ladder.at \in DOMAIN Stages /\ load_curriculum(cfg) /\ ladder.at \in Nat
  BY DEF StageEnds, IInv, LadderInv
<1> DEFINE at == ladder.at + 1
<1>2. at \in Nat /\ at > 1 /\ at # 0 /\ at - 1 = ladder.at BY <1>1, NamesOf
<1>3. ladder' = NoLadder \/ ladder' = [pc |-> "next", at |-> at, resume |-> names[at - 1]]
  BY <1>2 DEF StageEnds
<1> HIDE DEF at
<1>4. Resumes(names[at - 1], at) BY <1>2 DEF Resumes
<1>5. LadderInv' BY <1>1, <1>2, <1>3, <1>4, Frame DEF LadderInv, NoLadder
<1>6. QED BY <1>1, <1>5, LadderChanges

LEMMA LadderDiesKeeps == IInv /\ LadderDies => IInv'
<1> SUFFICES ASSUME IInv, LadderDies PROVE IInv'
  OBVIOUS
<1>1. /\ UNCHANGED <<cfg, dirs, bundles, port, run>> /\ acts' \in 0..MaxActs /\ ladder' = NoLadder
  BY ActsBounded DEF LadderDies
<1>2. LadderInv' BY <1>1 DEF LadderInv, NoLadder
<1>3. QED BY <1>1, <1>2, LadderChanges

LEMMA StartFromCheckpointKeeps ==
  ASSUME IInv, NEW k \in DOMAIN Stages, StartFromCheckpoint(names[k])
  PROVE  IInv'
<1>1. /\ run.pc = "off" /\ ladder.pc = "off" /\ Intervenes /\ UNCHANGED <<dirs, bundles, port, ladder>>
      /\ cfg \in Configs /\ dirs[names[k]].ckpt # Base /\ run' = grpo(names[k], None, names[k])
  BY DEF StartFromCheckpoint, Launch, Quiet, IInv
<1>2. acts' \in 0..MaxActs /\ cfg' = cfg BY <1>1, ActsBounded
<1>3. load_curriculum(cfg) BY <1>1, NamesOf DEF IInv, DirType
<1>4. RunType' /\ GrpoInv' /\ SftInv' /\ EvalInv' BY <1>1, <1>2, <1>3, GrpoStarts
<1>5. LadderInv' /\ ladder'.pc # "next" BY <1>1, <1>2, Frame DEF IInv, LadderInv
<1>6. QED BY <1>1, <1>2, <1>4, <1>5, Started

LEMMA StartSftKeeps ==
  ASSUME IInv, NEW b \in Bundles, StartSft(b)
  PROVE  IInv'
<1>1. /\ run.pc = "off" /\ ladder.pc = "off" /\ Intervenes /\ UNCHANGED <<dirs, bundles, port, ladder>>
  BY DEF StartSft, Launch, Quiet
<1>2. acts' \in 0..MaxActs /\ cfg' = cfg BY <1>1, ActsBounded
<1>3. run'.kind = "sft" /\ run'.pc = "check" /\ run'.name = "sft" /\ run'.bundle = b BY DEF StartSft, NoRun
<1>4. RunType'
  <2>1. Base \in Adapter /\ "check" \in Pcs /\ "check" \in SftPcs /\ "sft" \in Programs
    BY DEF Base, Adapter, Pcs, SftPcs, Programs
  <2>2. run' \in [kind : Programs, pc : Pcs, name : {"sft"}, resume : {None}, ckpt : {None},
              server : {None}, weights : Adapter, steps : Nat, zero : {0}, bundle : {b},
              split : {"train"}, adapter : {None}, left : {{}}, at : {None}, status : {"none"}, why : {"error"}]
    BY <2>1 DEF StartSft, NoRun
  <2>3. run' \in [kind : Programs, pc : Pcs, name : {run'.name}, resume : {run'.resume}, ckpt : {run'.ckpt},
              server : {run'.server}, weights : Adapter, steps : Nat, zero : {run'.zero}, bundle : {run'.bundle},
              split : {run'.split}, adapter : {run'.adapter}, left : {run'.left}, at : {run'.at},
              status : {run'.status}, why : {run'.why}]
    BY <2>2
  <2>4. QED BY <1>2, <1>3, <2>1, <2>3, Frame DEF RunType
<1>5. GrpoInv' /\ SftInv' /\ EvalInv' BY <1>3 DEF GrpoInv, SftInv, EvalInv
<1>6. LadderInv' /\ ladder'.pc # "next" BY <1>1, <1>2, Frame DEF IInv, LadderInv
<1>7. QED BY <1>1, <1>2, <1>4, <1>5, <1>6, Started

LEMMA StartEvalKeeps ==
  ASSUME IInv, NEW b \in Bundles, NEW e \in Evaluations, StartEval(b, e[1], e[2])
  PROVE  IInv'
<1>1. /\ run.pc = "off" /\ ladder.pc = "off" /\ Intervenes /\ UNCHANGED <<dirs, bundles, port, ladder>> /\ cfg \in Configs
  BY DEF StartEval, Launch, Quiet, IInv
<1>2. acts' \in 0..MaxActs /\ cfg' = cfg BY <1>1, ActsBounded
<1>3. /\ run'.kind = "eval" /\ run'.pc = "begin" /\ run'.bundle = b /\ run'.split = e[1] /\ run'.adapter = e[2]
      /\ run'.status = "complete"
  BY DEF StartEval, NoRun
<1>4. RunType'
  <2>1. Base \in Adapter /\ "begin" \in Pcs /\ "begin" \in EvalPcs /\ "eval" \in Programs
    BY DEF Base, Adapter, Pcs, EvalPcs, Programs
  <2>2. run' \in [kind : Programs, pc : Pcs, name : {None}, resume : {None}, ckpt : {None},
              server : {None}, weights : Adapter, steps : Nat, zero : {0}, bundle : {b},
              split : {e[1]}, adapter : {e[2]}, left : {{}}, at : {None}, status : {"complete"}, why : {"error"}]
    BY <2>1 DEF StartEval, NoRun
  <2>3. run' \in [kind : Programs, pc : Pcs, name : {run'.name}, resume : {run'.resume}, ckpt : {run'.ckpt},
              server : {run'.server}, weights : Adapter, steps : Nat, zero : {run'.zero}, bundle : {run'.bundle},
              split : {run'.split}, adapter : {run'.adapter}, left : {run'.left}, at : {run'.at},
              status : {run'.status}, why : {run'.why}]
    BY <2>2
  <2>4. QED BY <1>2, <1>3, <2>1, <2>3, Frame DEF RunType
<1>5. e[1] \in Splits /\ e[2] \in Paths(cfg) \cup {None} BY <1>1, TrainingAssumption
<1>6. GrpoInv' /\ SftInv' /\ EvalInv' BY <1>2, <1>3, <1>5, Frame DEF GrpoInv, SftInv, EvalInv
<1>7. LadderInv' /\ ladder'.pc # "next" BY <1>1, <1>2, Frame DEF IInv, LadderInv
<1>8. QED BY <1>1, <1>2, <1>4, <1>6, <1>7, Started

(* What is killed leaves the directories and bundles as they are.              *)
LEMMA KilledKeeps == IInv /\ Killed => IInv'
<1> SUFFICES ASSUME IInv, Killed PROVE IInv'
  OBVIOUS
<1>1. /\ run.pc # "off" /\ Intervenes /\ run' = Off("error") /\ UNCHANGED <<dirs, bundles, ladder>>
      /\ port' = IF port = "ours" THEN "orphan" ELSE port
  BY DEF Killed
<1>2. acts' \in 0..MaxActs /\ cfg' = cfg /\ cfg' \in Configs BY <1>1, ActsBounded
<1>3. RunType' /\ run'.kind = "none" /\ run'.pc = "off" BY <1>1, <1>2, RunEnds
<1>4. DirType' BY <1>1, <1>2, Frame DEF IInv, DirType
<1>5. BundleInv' BY <1>1, <1>2, Frame DEF IInv, BundleInv, Counts, Entire
<1>6. LadderInv' BY <1>1, <1>2, <1>3, Frame DEF IInv, LadderInv
<1>7. PortInv' BY <1>1 DEF IInv, PortInv, Ports
<1>8. GrpoInv' /\ SftInv' /\ EvalInv' BY <1>3 DEF GrpoInv, SftInv, EvalInv
<1>9. QED BY <1>2, <1>3, <1>4, <1>5, <1>6, <1>7, <1>8 DEF IInv

-----------------------------------------------------------------------------
LEMMA InitHolds == Init => IInv
<1> SUFFICES ASSUME Init PROVE IInv
  OBVIOUS
<1>1. Base \in Adapter /\ Base.line = <<>> /\ cfg \in Configs BY DEF Init, Base, Adapter
<1>2. RunType
  <2>1. run \in [kind : Programs, pc : Pcs, name : {None}, resume : {None}, ckpt : {None},
              server : {None}, weights : Adapter, steps : Nat, zero : {0}, bundle : {None},
              split : {"train"}, adapter : {None}, left : {{}}, at : {None}, status : {"none"}, why : {"ok"}]
    BY <1>1 DEF Init, NoRun, Programs, Pcs
  <2>2. QED BY <2>1 DEF Init, NoRun, RunType
<1>3. DirType BY <1>1 DEF Init, DirType, Directory, EmptyDir
<1>4. GrpoInv /\ SftInv /\ EvalInv BY DEF Init, NoRun, GrpoInv, SftInv, EvalInv
<1>5. LadderInv /\ PortInv BY DEF Init, NoLadder, LadderInv, PortInv, Ports
<1>6. BundleInv
  <2>1. PICK there \in SUBSET Earlier :
          /\ there = {} \/ (validate_config(cfg) /\ \A at \in Planned("train") : at[2] # 0)
          /\ bundles = [b \in Bundles |-> IF b \in there THEN Exported ELSE EmptyBundle]
    BY DEF Init
  <2>2. EmptyBundle \in BundleSet(EmptyBundle) /\ Counts(EmptyBundle) /\ EmptyBundle.status = "none"
    BY <1>1 DEF EmptyBundle, BundleSet, Counts, Statuses, Splits
  <2> DEFINE once == Once("train")
             r    == [EmptyBundle EXCEPT !.status = "complete", !.lines = once, !.won = DOMAIN once, !.sft = once,
                                         !.summary = summarize_records(once, DOMAIN once)]
  <2>3. Exported = r BY DEF Exported, Once
  <2>4. DOMAIN once = Planned("train") /\ \A at \in DOMAIN once : once[at] = 1 BY DEF Once
  <2> HIDE DEF once
  <2>5. /\ r.status = "complete" /\ r.split = "train" /\ r.lines = once /\ r.won = DOMAIN once /\ r.sft = once
        /\ r.summary = summarize_records(once, DOMAIN once) /\ r \in BundleSet(r)
    BY <1>1 DEF EmptyBundle, BundleSet, Statuses, Splits
  <2> HIDE DEF r
  <2>6. Counts(r) BY <2>4, <2>5 DEF Counts
  <2>7. Entire(r) BY <2>5 DEF Entire, once
  <2>8. \A b \in Bundles : bundles[b] \in {r, EmptyBundle} /\ (bundles[b] = r /\ r # EmptyBundle => validate_config(cfg))
    BY <2>1, <2>3
  <2>9. r # EmptyBundle BY <2>2, <2>5
  <2>10. DOMAIN bundles = Bundles BY <2>1
  <2>11. QED BY <2>2, <2>5, <2>6, <2>7, <2>8, <2>9, <2>10 DEF BundleInv, BundleSet
<1>7. QED BY <1>1, <1>2, <1>3, <1>4, <1>5, <1>6, TrainingAssumption DEF Init, IInv

LEMMA StutterKeeps == IInv /\ UNCHANGED vars => IInv'
<1> SUFFICES ASSUME IInv, UNCHANGED vars PROVE IInv'
  OBVIOUS
<1>1. UNCHANGED <<cfg, dirs, bundles, port, ladder, run, acts>> BY DEF vars
<1>2. LadderInv' /\ acts' \in 0..MaxActs BY <1>1, Frame DEF IInv, LadderInv
<1>3. QED BY <1>1, <1>2, LadderChanges

LEMMA NextKeeps == IInv /\ [Next]_vars => IInv'
<1> SUFFICES ASSUME IInv, [Next]_vars PROVE IInv'
  OBVIOUS
<1>1. CASE Operator
  <2>1. ASSUME NEW start \in DOMAIN Stages, NEW initial \in {None, "sft"}, StartLadder(start, initial) PROVE IInv'
    BY <2>1, StartLadderKeeps
  <2>2. ASSUME NEW i \in DOMAIN Stages, StartFromCheckpoint(names[i]) PROVE IInv'
    BY <2>2, StartFromCheckpointKeeps
  <2>3. ASSUME NEW b \in Bundles, StartSft(b) PROVE IInv' BY <2>3, StartSftKeeps
  <2>4. ASSUME NEW b \in Bundles, NEW e \in Evaluations, StartEval(b, e[1], e[2]) PROVE IInv' BY <2>4, StartEvalKeeps
  <2>5. QED BY <1>1, <2>1, <2>2, <2>3, <2>4 DEF Operator
<1>2. CASE Ladder BY <1>2, NextStageKeeps, StageEndsKeeps DEF Ladder
<1>3. CASE LadderDies BY <1>3, LadderDiesKeeps
<1>4. CASE GrpoStep
  BY <1>4, ValidateKeeps, LaunchKeeps, HealthyKeeps, StartupFailsKeeps, SurfaceKeeps, GateKeeps, LoadAdapterKeeps,
     ManifestKeeps, WeighKeeps, BatchKeeps, BatchRaisesKeeps, TrainEndsKeeps, SaveWeightsKeeps, SaveConfigKeeps, StopKeeps
  DEF GrpoStep
<1>5. CASE SftChecks BY <1>5, SftChecksKeeps
<1>6. CASE EvalStep
  BY <1>6, EvalBeginsKeeps, EpisodeKeeps, ExportKeeps, EvalRaisesKeeps, EvalDoneKeeps, SummaryKeeps, ReportKeeps DEF EvalStep
<1>7. CASE Killed BY <1>7, KilledKeeps
<1>8. CASE UNCHANGED vars BY <1>8, StutterKeeps
<1>9. QED BY <1>1, <1>2, <1>3, <1>4, <1>5, <1>6, <1>7, <1>8 DEF Next, Step

(* The invariant holds of every reachable state.                             *)
THEOREM Inductive == Spec => []IInv
BY InitHolds, NextKeeps, PTL DEF Spec

-----------------------------------------------------------------------------
(* The properties.                                                          *)

(* A directory that holds an adapter holds its weights, a bundle's counts stay   *)
(* within its plan, and a server that is ours has a run to stop it.            *)
THEOREM TypeCorrect == Spec => []TypeOK
<1>1. IInv => TypeOK
  <2> SUFFICES ASSUME IInv PROVE TypeOK
    OBVIOUS
  <2>1. \A d \in DOMAIN dirs : dirs[d].marker => dirs[d].weights # Base BY DEF IInv, DirType, Base
  <2>2. \A b \in Bundles : bundles[b].status \in {"none", "running", "complete", "failed"}
    BY DEF IInv, BundleInv, Statuses
  <2>3. \A b \in Bundles : Counts(bundles[b]) BY DEF IInv, BundleInv
  <2>4. DOMAIN dirs = Paths(cfg) BY DEF IInv, DirType
  <2>5. QED BY <2>1, <2>2, <2>3, <2>4 DEF IInv, TypeOK, Counts, PortInv, Ports, LadderInv
<1>2. QED BY <1>1, Inductive, PTL

(* For every ladder, number of batches, and order of kills, restarts and resumes, *)
(* an adapter climbed the stages one by one from the first or the warm start,    *)
(* and no stage is easier than the one before it.                             *)
THEOREM ClimbsInOrder == Spec => []EasyBeforeHard
<1>1. IInv => EasyBeforeHard
  <2> SUFFICES ASSUME IInv, NEW k \in DOMAIN Stages, dirs[names[k]].marker
               PROVE  LET line == dirs[names[k]].weights.line
                          warm == line[1] = "sft"
                      IN /\ \E j \in 1..k : /\ line = (IF warm THEN <<"sft">> ELSE <<>>) \o SubSeq(names, j, k)
                                            /\ ~warm => j = 1
                         /\ \A i \in 2..Len(Stages) : ~Harder(Rank(Stages[i - 1]), Rank(Stages[i]))
    BY DEF EasyBeforeHard
  <2> DEFINE line == dirs[names[k]].weights.line
  <2>1. cfg \in Configs BY DEF IInv
  <2>2. names[k] \in Paths(cfg) /\ names[k] # "sft" /\ k \in 1..Len(names) /\ names \in Seq(Paths(cfg))
        /\ \A i \in DOMAIN Stages : names[i] # "sft"
    BY <2>1, NamesOf
  <2>3. Fits(line, names[k]) /\ load_curriculum(cfg) BY <2>2 DEF IInv, DirType
  <2>4. Climbed(line, k) BY <2>1, <2>2, <2>3, NamesOf DEF Fits
  <2>5. \A i \in 2..Len(Stages) : ~Harder(Rank(Stages[i - 1]), Rank(Stages[i]))
    BY <2>3 DEF load_curriculum, _assert_non_decreasing_difficulty, Stages
  <2> HIDE DEF line
  <2>6. CASE FromFirst(line, k)
    <3>1. 1 \in 1..k /\ line = SubSeq(names, 1, k) BY <2>2, <2>6 DEF FromFirst
    <3>2. line[1] = names[1] /\ 1 \in DOMAIN Stages BY <2>1, <2>2, <3>1, NamesOf
    <3>3. line[1] # "sft" BY <2>2, <3>2
    <3>4. SubSeq(names, 1, k) \in Seq(Paths(cfg)) BY <2>1, <3>1, Stretch
    <3>5. line = <<>> \o SubSeq(names, 1, k) BY <3>1, <3>4, ConcatEmptySeq
    <3>6. QED BY <2>5, <3>1, <3>3, <3>5 DEF line
  <2>7. CASE FromWarm(line, k)
    <3>1. PICK j \in 1..k : line = <<"sft">> \o SubSeq(names, j, k) BY <2>7 DEF FromWarm
    <3> DEFINE tail == SubSeq(names, j, k)
    <3>2. tail \in Seq(Paths(cfg)) /\ "sft" \in Paths(cfg) BY <2>1, <3>1, Stretch, NamesOf
    <3>3. line = <<"sft">> \o tail BY <3>1
    <3> HIDE DEF tail
    <3>4. line[1] = "sft" BY <3>2, <3>3
    <3>5. QED BY <2>5, <3>1, <3>4 DEF line
  <2>8. QED BY <2>4, <2>6, <2>7 DEF Climbed
<1>2. QED BY <1>1, Inductive, PTL

(* In every valid experiment the seeds an adapter has seen, in whatever runs and  *)
(* warm starts, are training seeds, and those it is scored on are not.         *)
THEOREM ScoredOnUnseen == Spec => []HeldOut
<1>1. IInv => HeldOut
  <2> SUFFICES ASSUME IInv PROVE HeldOut
    OBVIOUS
  <2>1. ASSUME cfg.poc, At("grpo", "train"), NEW pair \in eval_task_seed_pairs(cfg, stage)
        PROVE  pair[2] \notin run.weights.seeds
    <3>1. validate_config(cfg) BY <2>1 DEF IInv, GrpoInv, At
    <3>2. _parse_seed_spec(cfg.eval) = seed_list(cfg.eval) BY <3>1, HeldOutSeeds, ReadersAgree
    <3>3. pair[2] \in ToSet(seed_list(cfg.eval)) BY <2>1, <3>2 DEF eval_task_seed_pairs
    <3>4. run.weights.seeds \subseteq Seeds(Stages) BY DEF IInv, RunType, Adapter
    <3>5. QED BY <3>1, <3>3, <3>4, HeldOutSeeds
  <2>2. ASSUME cfg.poc, NEW b \in Bundles, bundles[b].status # "none", bundles[b].split # "train",
               NEW at \in Planned(bundles[b].split)
        PROVE  SeedOf(bundles[b].split, at) \notin bundles[b].weights.seeds
    <3>1. validate_config(cfg) /\ bundles[b].split \in Splits \ {"train"} /\ bundles[b].weights \in Adapter
      BY <2>2 DEF IInv, BundleInv
    <3>2. SeedOf(bundles[b].split, at) \notin Seeds(Stages) BY <2>2, <3>1, SplitHeldOut
    <3>3. QED BY <3>1, <3>2 DEF Adapter
  <2>3. QED BY <2>1, <2>2 DEF HeldOut
<1>2. QED BY <1>1, Inductive, PTL

(* For every weight, stage override, task and transcript that training accepts,  *)
(* a won rollout earns more than any lost one of its batch.                    *)
THEOREM WinsOutearn == Spec => []FailureNeverOutearns
<1>1. IInv => FailureNeverOutearns
  <2> SUFFICES ASSUME IInv, At("grpo", "train"), NEW meta \in Disclosed, NEW a \in Rollout(meta), NEW b \in Rollout(meta),
                      a.reward = 1, b.reward = 0
               PROVE  Total(meta, a) > Total(meta, b)
    BY DEF FailureNeverOutearns
  <2>1. validate_shaping_weight(cfg.success, shaping_weight) /\ cfg \in Configs BY DEF IInv, GrpoInv, At
  <2>2. ScoresOf[cfg.kind][meta] =
          {Score(cfg.kind, meta, trajectory(issues, traced)) : issues \in Transcripts, traced \in BOOLEAN}
    BY <2>1 DEF ScoresOf
  <2>3. a.shaping \in ScoresOf[cfg.kind][meta] /\ b.shaping \in ScoresOf[cfg.kind][meta] BY DEF Rollout
  <2>4. /\ Whole(cfg.kind, meta) \in Nat \ {0} /\ a.shaping \in Nat /\ b.shaping \in Nat
        /\ b.shaping <= Whole(cfg.kind, meta)
    <3>1. \A kind : \A issues \in Transcripts, traced \in BOOLEAN :
            LET n == Score(kind, meta, trajectory(issues, traced))
            IN n \in Nat /\ Whole(kind, meta) \in Nat \ {0} /\ n <= Whole(kind, meta)
      BY ScoreIsPart
    <3>2. PICK issues \in Transcripts, traced \in BOOLEAN : a.shaping = Score(cfg.kind, meta, trajectory(issues, traced))
      BY <2>2, <2>3
    <3>3. PICK other \in Transcripts, told \in BOOLEAN : b.shaping = Score(cfg.kind, meta, trajectory(other, told))
      BY <2>2, <2>3
    <3>4. QED BY <3>1, <3>2, <3>3
  <2>5. cfg.success \in Int /\ shaping_weight \in Int /\ cfg.success > 0 /\ shaping_weight >= 0
        /\ shaping_weight < cfg.success
    <3>1. PICK k \in DOMAIN Stages : run.name = names[k] BY DEF IInv, GrpoInv, At
    <3>2. first_entry(cfg, run.name).weight \in Int \cup {Unset}
      <4> DEFINE entries == filter_curriculum_to_stage(cfg, run.name)
                 first   == CHOOSE i \in entries : \A j \in entries : i <= j
      <4>1. entries = {k} BY <2>1, <3>1, NamesOf DEF filter_curriculum_to_stage, Stages, names
      <4>2. k <= k BY <2>1, NamesOf
      <4> HIDE DEF entries
      <4>3. first \in entries BY <4>1, <4>2
      <4>4. first = k BY <4>1, <4>3
      <4>5. first_entry(cfg, run.name) = cfg.curriculum[first] BY DEF first_entry, entries
      <4> HIDE DEF first
      <4>6. k \in DOMAIN cfg.curriculum BY DEF Stages
      <4>7. QED BY <2>1, <4>4, <4>5, <4>6, TrainingAssumption
    <3> DEFINE entry == first_entry(cfg, run.name)
    <3>3. cfg.success \in Int /\ cfg.probe \in Int \cup {Unset} BY <2>1, TrainingAssumption
    <3>4. shaping_weight = WeightOf(IF entry.weight # Unset THEN entry.weight ELSE cfg.probe)
      BY DEF shaping_weight, probe_shaping_weight
    <3> HIDE DEF entry
    <3>5. shaping_weight \in Int
      BY <3>2, <3>3, <3>4 DEF WeightOf, DEFAULT_PROBE_SHAPING_WEIGHT, entry
    <3>6. QED BY <2>1, <3>3, <3>5 DEF validate_shaping_weight
  <2>6. QED BY <2>4, <2>5, WinOutweighs DEF Total
<1>2. QED BY <1>1, Inductive, PTL

(* Whoever holds the port when a scoped run launches its server, the run trains   *)
(* against a scoped server or not at all.                                     *)
THEOREM TrainsAgainstItsOwn == Spec => []TrainsOnPoC
<1>1. IInv => TrainsOnPoC BY DEF IInv, GrpoInv, TrainsOnPoC, At, speaks_poc
<1>2. QED BY <1>1, Inductive, PTL

(* For every plan of episodes and wherever an evaluation is killed, a bundle that *)
(* says complete has each episode once, and no lost episode is ever exported.   *)
THEOREM CompleteBundles == Spec => []CompleteIsWhole
<1>1. IInv => CompleteIsWhole
  <2> SUFFICES ASSUME IInv, NEW b \in Bundles
               PROVE  /\ \A at \in DOMAIN bundles[b].sft : bundles[b].sft[at] > 0 => at \in bundles[b].won
                      /\ bundles[b].status = "complete" =>
                           LET once == [at \in Planned(bundles[b].split) |-> 1]
                           IN /\ bundles[b].lines = once /\ bundles[b].sft \in {once, [at \in DOMAIN once |-> 0]}
                              /\ bundles[b].summary = summarize_records(once, bundles[b].won)
    BY DEF CompleteIsWhole
  <2>1. Counts(bundles[b]) /\ (bundles[b].status = "complete" => Entire(bundles[b])) BY DEF IInv, BundleInv
  <2>2. QED BY <2>1 DEF Counts, Entire, Once, Never
<1>2. QED BY <1>1, Inductive, PTL
=============================================================================
