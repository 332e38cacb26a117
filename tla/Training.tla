------------------------------- MODULE Training -------------------------------
(***************************************************************************)
(* A training host: the ladder of stages (scripts/train_curriculum.py), one    *)
(* GRPO run per stage (scripts/train_grpo.py, llm/runtime.py), the server a run *)
(* launches (llm/grpo_env.py), the supervised warm start (scripts/train_sft.py) *)
(* and the evaluation that exports its data and scores its adapters            *)
(* (scripts/eval_poc.py, observability/experiment.py).                        *)
(*                                                                         *)
(* Operators start one program at a time.  Any program may be killed between   *)
(* two of its steps; what it wrote stays, and so does its server.             *)
(***************************************************************************)
EXTENDS Curriculum, Probing

CONSTANTS
  Configs,        \* training configurations
  Disclosed,      \* what resets disclose of their tasks: [target, candidates]
  Transcripts,    \* bound: the issues a policy sends in an episode
  Bundles,        \* directories evaluations write to
  None,           \* no directory, no file
  Evaluations,    \* bound: the <<split, adapter>> an operator evaluates
  PATIENCE,       \* zero_variance_patience
  MAX_STEPS,      \* bound: batches of a run
  Earlier,        \* bound: directories that may hold an export from before
  MaxActs         \* bound: programs the operator starts, and processes that are killed

Paths(c) == {c.curriculum[i].name : i \in DOMAIN c.curriculum} \cup {"sft"}
Splits   == {"train", "validation", "benchmark"}

ASSUME TrainingAssumption ==
  /\ PATIENCE \in Nat /\ MAX_STEPS \in Nat \ {0} /\ MaxActs \in Nat
  /\ Earlier \subseteq Bundles
  /\ \A issues \in Transcripts : Len(issues) \in Nat /\ DOMAIN issues = 1..Len(issues)
  /\ \A meta \in Disclosed : Len(meta.candidates) \in Nat /\ DOMAIN meta.candidates = 1..Len(meta.candidates)
  /\ \A c \in Configs :
       /\ c.curriculum \in Seq({c.curriculum[i] : i \in DOMAIN c.curriculum})
       /\ \A i, j \in DOMAIN c.curriculum : c.curriculum[i].name = c.curriculum[j].name => i = j
       /\ None \notin Paths(c) /\ \A i \in DOMAIN c.curriculum : c.curriculum[i].name # "sft"
       /\ c.poc \in BOOLEAN /\ c.success \in Int /\ c.probe \in Int \cup {Unset}
       /\ \A i \in DOMAIN c.curriculum : c.curriculum[i].weight \in Int \cup {Unset}
       /\ \A e \in Evaluations : e[1] \in Splits /\ e[2] \in Paths(c) \cup {None}

VARIABLES
  cfg,        \* the configuration everybody is given
  dirs,       \* adapter directory -> its manifest, weights, adapter_config.json, last checkpoint
  bundles,    \* evaluation directory -> its run.json, lines, summary
  port,       \* who answers on the server's port
  ladder,     \* the ladder's stage and the adapter it passes on
  run,        \* the program that runs: a GRPO stage, a warm start or an evaluation
  acts        \* what the operator started and what was killed

vars == <<cfg, dirs, bundles, port, ladder, run, acts>>

Stages   == cfg.curriculum
names    == [i \in DOMAIN Stages |-> Stages[i].name]

(* An adapter: what it was trained on, in order, and the seeds it has seen.  The *)
(* untrained model also stands for weights or a checkpoint that is not there.   *)
Base == [line |-> <<>>, seeds |-> {}]
Trained(w, name, seeds) ==
  [line  |-> IF w.line # <<>> /\ Last(w.line) = name THEN w.line ELSE Append(w.line, name),
   seeds |-> w.seeds \cup seeds]

EmptyDir == [manifest |-> FALSE, weights |-> Base, marker |-> FALSE, ckpt |-> Base]

(* The episodes of a split: of each stage, each of its seeds.  A list that        *)
(* seed_list refuses raises when its stage is reached, at episode 0.            *)
SplitSeeds(split, i) ==
  seed_list(CASE split = "train" -> Stages[i].spec [] split = "validation" -> cfg.eval [] OTHER -> cfg.benchmark)
Episodes(seeds)   == IF seeds = Bad THEN {0} ELSE DOMAIN seeds
Planned(split)    == UNION {{i} \X Episodes(SplitSeeds(split, i)) : i \in DOMAIN Stages}
SeedOf(split, at) == SplitSeeds(split, at[1])[at[2]]
Before(p, q)      == p[1] < q[1] \/ (p[1] = q[1] /\ p[2] < q[2])

(* A bundle: its run.json; how often each episode is a line of episodes.jsonl,  *)
(* and of sft.jsonl; the episodes won; what the summary was made of.            *)
summarize_records(lines, won) == [episodes |-> lines, successes |-> won]
NoSummary   == summarize_records(<<>>, {})
EmptyBundle == [status |-> "none", split |-> "train", weights |-> Base, lines |-> <<>>, won |-> {},
                sft |-> <<>>, summary |-> NoSummary]
Exported ==
  LET once == [at \in Planned("train") |-> 1]
  IN [EmptyBundle EXCEPT !.status = "complete", !.lines = once, !.won = DOMAIN once, !.sft = once,
                         !.summary = summarize_records(once, DOMAIN once)]

NoRun == [kind |-> "none", pc |-> "off", name |-> None, resume |-> None, ckpt |-> None, server |-> None,
          weights |-> Base, steps |-> 0, zero |-> 0, bundle |-> None, split |-> "train", adapter |-> None,
          left |-> {}, at |-> None, status |-> "none", why |-> "ok"]
Off(why) == [NoRun EXCEPT !.why = IF ladder.pc = "waiting" THEN why ELSE "ok"]
NoLadder == [pc |-> "off", at |-> 0, resume |-> None]

Init ==
  /\ cfg \in Configs
  /\ dirs = [d \in Paths(cfg) |-> EmptyDir]
  /\ \E there \in SUBSET Earlier :
       /\ there = {} \/ (validate_config(cfg) /\ \A at \in Planned("train") : at[2] # 0)
       /\ bundles = [b \in Bundles |-> IF b \in there THEN Exported ELSE EmptyBundle]
  /\ port \in {"free", "foreign"}
  /\ ladder = NoLadder
  /\ run = NoRun
  /\ acts = 0

At(kind, pc) == run.kind = kind /\ run.pc = pc
Goes(pc)     == run' = [run EXCEPT !.pc = pc]
Quiet        == run.pc = "off" /\ ladder.pc = "off"
Intervenes   == acts < MaxActs /\ acts' = acts + 1 /\ UNCHANGED cfg
Launch       == Quiet /\ Intervenes

-----------------------------------------------------------------------------
(* The ladder.                                                              *)

grpo(name, resume, ckpt) ==
  [NoRun EXCEPT !.kind = "grpo", !.pc = "validate", !.name = name, !.resume = resume, !.ckpt = ckpt, !.why = "error"]

StartLadder(start, initial) ==
  LET prev == IF initial = None /\ start > 1 THEN names[start - 1] ELSE initial
  IN /\ Launch
     /\ IF load_curriculum(cfg) /\ (prev # None => dirs[prev].marker)
        THEN ladder' = [pc |-> "next", at |-> start, resume |-> prev]
        ELSE UNCHANGED ladder
     /\ UNCHANGED <<dirs, bundles, port, run>>

NextStage ==
  /\ ladder.pc = "next"
  /\ IF ladder.at > Len(Stages) THEN ladder' = NoLadder /\ UNCHANGED run
     ELSE /\ ladder' = [ladder EXCEPT !.pc = "waiting"]
          /\ run' = grpo(names[ladder.at], ladder.resume, None)
  /\ UNCHANGED <<cfg, dirs, bundles, port, acts>>

(* (A bug: the adapter of the stage that ended is not passed on.)              *)
KeepsAdapter ==
  /\ ladder.pc = "waiting" /\ run.pc = "off"
  /\ ladder' = IF run.why = "ok" THEN [ladder EXCEPT !.pc = "next", !.at = @ + 1] ELSE NoLadder
  /\ UNCHANGED <<cfg, dirs, bundles, port, run, acts>>

StageEnds ==
  /\ ladder.pc = "waiting" /\ run.pc = "off"
  /\ ladder' = IF run.why = "ok" THEN [pc |-> "next", at |-> ladder.at + 1, resume |-> names[ladder.at]] ELSE NoLadder
  /\ UNCHANGED <<cfg, dirs, bundles, port, run, acts>>

(* The stage it waits for goes on without it.                                 *)
LadderDies ==
  /\ ladder.pc # "off" /\ Intervenes
  /\ ladder' = NoLadder
  /\ UNCHANGED <<dirs, bundles, port, run>>

(* train_grpo.py --stage, from a checkpoint of its directory.                 *)
StartFromCheckpoint(name) ==
  /\ Launch
  /\ dirs[name].ckpt # Base
  /\ run' = grpo(name, None, name)
  /\ UNCHANGED <<dirs, bundles, port, ladder>>

-----------------------------------------------------------------------------
(* Steps of a run.  What raises goes through the finally block.               *)

Raises(why) == run' = [run EXCEPT !.pc = "stop", !.why = why]
Kept        == UNCHANGED <<cfg, bundles, ladder, acts>>

Validate ==
  /\ At("grpo", "validate")
  /\ IF IF cfg.poc THEN validate_config(cfg) ELSE _stage_from_entry(first_entry(cfg, run.name))
     THEN Goes("launch") ELSE run' = Off("error")
  /\ Kept /\ UNCHANGED <<dirs, port>>

(* launch_server: its process takes the port if nobody has it, and may hang.    *)
(* A server that answers there before the new process is seen to have exited    *)
(* is taken for it.                                                          *)
LaunchServer ==
  /\ At("grpo", "launch")
  /\ \E pc \in {"poll", "hang"} : Goes(pc)
  /\ port' = IF port = "free" THEN "ours" ELSE port
  /\ Kept /\ UNCHANGED dirs

Healthy ==
  /\ At("grpo", "poll")
  /\ run' = [run EXCEPT !.pc = "surface", !.server = port]
  /\ Kept /\ UNCHANGED <<dirs, port>>

(* (A bug: only a process that exited ends the wait.)                         *)
WaitsForExit ==
  /\ At("grpo", "poll")
  /\ run' = Off("error")
  /\ port' = IF port = "ours" THEN "free" ELSE port
  /\ Kept /\ UNCHANGED dirs

(* It exited, or its time is over and it is terminated: no handle, no finally.  *)
StartupFails ==
  /\ At("grpo", "poll") \/ At("grpo", "hang")
  /\ run' = Off("error")
  /\ port' = IF port = "ours" THEN "free" ELSE port
  /\ Kept /\ UNCHANGED dirs

speaks_poc(server) == server # "foreign" /\ cfg.poc

(* (A bug: the server is not asked what it is.)                               *)
Trusts ==
  /\ At("grpo", "surface")
  /\ Goes("gate")
  /\ Kept /\ UNCHANGED <<dirs, port>>

Surface ==
  /\ At("grpo", "surface")
  /\ IF cfg.poc /\ ~speaks_poc(run.server) THEN Raises("error") ELSE Goes("gate")
  /\ Kept /\ UNCHANGED <<dirs, port>>

(* The reference policy must win every episode it is given (PoC only); the       *)
(* prompts are baked.                                                        *)
Gate ==
  /\ At("grpo", "gate")
  /\ Goes("load") \/ Raises("error")
  /\ Kept /\ UNCHANGED <<dirs, port>>

LoadAdapter ==
  /\ At("grpo", "load")
  /\ IF run.resume = None THEN Goes("manifest")
     ELSE IF dirs[run.resume].marker THEN run' = [run EXCEPT !.pc = "manifest", !.weights = dirs[run.resume].weights]
     ELSE Raises("error")
  /\ Kept /\ UNCHANGED <<dirs, port>>

Manifest ==
  /\ At("grpo", "manifest")
  /\ IF ~cfg.poc \/ run.ckpt # None THEN Goes("weigh") /\ UNCHANGED dirs
     ELSE IF dirs[run.name].manifest THEN Raises("error") /\ UNCHANGED dirs
     ELSE Goes("weigh") /\ dirs' = [dirs EXCEPT ![run.name].manifest = TRUE]
  /\ Kept /\ UNCHANGED port

shaping_weight == probe_shaping_weight(cfg, run.name)

(* shaping_weights; two tasks with one prompt cannot be told apart; the        *)
(* checkpoint replaces the weights.                                           *)
Weigh ==
  /\ At("grpo", "weigh")
  /\ \/ /\ validate_shaping_weight(cfg.success, shaping_weight)
        /\ run' = [run EXCEPT !.pc = "train", !.weights = IF run.ckpt = None THEN @ ELSE dirs[run.ckpt].ckpt]
     \/ Raises("error")
  /\ Kept /\ UNCHANGED <<dirs, port>>

-----------------------------------------------------------------------------
(* A batch: one group of rollouts of one task, each with its trusted reward and *)
(* the shaping score of its transcript; the reward a rollout is trained on.     *)

ScoresOf == [kind \in {c.kind : c \in Configs} |-> [meta \in Disclosed |->
              {Score(kind, meta, trajectory(issues, traced)) : issues \in Transcripts, traced \in BOOLEAN}]]

Rollout(meta)  == [reward : {0, 1}, shaping : ScoresOf[cfg.kind][meta]]
Total(meta, r) == Whole(cfg.kind, meta) * cfg.success * r.reward + shaping_weight * r.shaping
Mixed(meta, g) == \E a, b \in g : Total(meta, a) # Total(meta, b)
stage          == filter_curriculum_to_stage(cfg, run.name)
TrainSeeds     == {pair[2] : pair \in task_seed_pairs(cfg, stage)}

Batch ==
  /\ At("grpo", "train") /\ run.steps < MAX_STEPS
  /\ \E meta \in Disclosed : \E a, b \in Rollout(meta), saves \in BOOLEAN :
       LET zero == IF Mixed(meta, {a, b}) THEN 0 ELSE run.zero + 1
           w    == Trained(run.weights, run.name, TrainSeeds)
       IN IF PATIENCE > 0 /\ zero >= PATIENCE
          THEN /\ Raises("error")
               /\ ~saves /\ UNCHANGED dirs
          ELSE /\ run' = [run EXCEPT !.steps = @ + 1, !.zero = zero, !.weights = w]
               /\ dirs' = IF saves THEN [dirs EXCEPT ![run.name].ckpt = w] ELSE dirs
  /\ Kept /\ UNCHANGED port

(* A rollout, a reward function or the optimiser raises.                       *)
BatchRaises ==
  /\ At("grpo", "train")
  /\ Raises("error")
  /\ Kept /\ UNCHANGED <<dirs, port>>

(* evidence_callback.on_train_end: finite weights that moved.                  *)
TrainEnds ==
  /\ run.pc = "train" /\ (run.kind = "grpo" => run.steps = MAX_STEPS)
  /\ Goes("save") \/ Raises("error")
  /\ Kept /\ UNCHANGED <<dirs, port>>

(* save_model: the weights, then adapter_config.json.                         *)
SaveWeights ==
  /\ run.pc = "save"
  /\ dirs' = [dirs EXCEPT ![run.name].weights = run.weights]
  /\ Goes("mark")
  /\ Kept /\ UNCHANGED port

SaveConfig ==
  /\ run.pc = "mark"
  /\ dirs' = [dirs EXCEPT ![run.name].marker = TRUE]
  /\ Raises("ok")
  /\ Kept /\ UNCHANGED port

(* (A bug: the server is left running.)                                       *)
LeavesServer ==
  /\ run.pc = "stop"
  /\ run' = Off(run.why)
  /\ Kept /\ UNCHANGED <<dirs, port>>

(* The finally block: ServerHandle.stop terminates the process it started.      *)
Stop ==
  /\ run.pc = "stop"
  /\ run' = Off(run.why)
  /\ port' = IF port = "ours" THEN "free" ELSE port
  /\ Kept /\ UNCHANGED dirs

-----------------------------------------------------------------------------
(* The warm start: supervised training on an exported bundle.                 *)

SftSeeds(b) == {SeedOf(bundles[b].split, at) : at \in {p \in DOMAIN bundles[b].sft : bundles[b].sft[p] > 0}}

StartSft(b) ==
  /\ Launch
  /\ run' = [NoRun EXCEPT !.kind = "sft", !.pc = "check", !.name = "sft", !.bundle = b, !.why = "error"]
  /\ UNCHANGED <<dirs, bundles, port, ladder>>

(* Its data is nonempty and of training seeds, which it reads as the experiment *)
(* does and not as the ladder; a run there is not repeated.                    *)
SftChecks ==
  /\ At("sft", "check")
  /\ LET b == run.bundle IN
     IF \/ ~validate_config(cfg) \/ dirs["sft"].manifest \/ SftSeeds(b) = {}
        \/ \E i \in DOMAIN Stages : seed_list(Stages[i].spec) = Bad
     THEN Raises("error") /\ UNCHANGED dirs
     ELSE IF ~(SftSeeds(b) \subseteq Seeds(Stages)) THEN Raises("error") /\ UNCHANGED dirs
     ELSE /\ run' = [run EXCEPT !.pc = "train", !.weights = Trained(Base, "sft", SftSeeds(b))]
          /\ dirs' = [dirs EXCEPT !["sft"].manifest = TRUE]
  /\ Kept /\ UNCHANGED port

-----------------------------------------------------------------------------
(* An evaluation: the reference, which exports its episodes on training seeds,  *)
(* or an adapter.                                                            *)

StartEval(b, split, adapter) ==
  /\ Launch
  /\ run' = [NoRun EXCEPT !.kind = "eval", !.pc = "begin", !.bundle = b, !.split = split, !.adapter = adapter,
                          !.status = "complete", !.why = "error"]
  /\ UNCHANGED <<dirs, bundles, port, ladder>>

Exports  == run.adapter = None /\ run.split = "train"
Bundle   == bundles[run.bundle]
EvalKept == UNCHANGED <<cfg, dirs, port, ladder, acts>>
Failed   == [run EXCEPT !.pc = "summary", !.status = "failed", !.at = None]

Empty  == [at \in Planned(run.split) |-> 0]
Opened == [EmptyBundle EXCEPT
             !.status = "running", !.split = run.split, !.lines = Empty, !.sft = Empty,
             !.weights = IF run.adapter = None THEN Base ELSE dirs[run.adapter].weights]
Admitted == validate_config(cfg) /\ (run.adapter # None => dirs[run.adapter].marker)

(* (A bug: a bundle that exists is written on.)                               *)
AppendsTo ==
  /\ At("eval", "begin")
  /\ IF Admitted
     THEN /\ run' = [run EXCEPT !.pc = "episode", !.left = Planned(run.split)]
          /\ bundles' = [bundles EXCEPT ![run.bundle] =
               IF @.status = "none" \/ @.split # run.split THEN Opened ELSE [@ EXCEPT !.status = "running"]]
     ELSE run' = Off("error") /\ UNCHANGED bundles
  /\ EvalKept

EvalBegins ==
  /\ At("eval", "begin")
  /\ IF Admitted /\ Bundle.status = "none"
     THEN /\ run' = [run EXCEPT !.pc = "episode", !.left = Planned(run.split)]
          /\ bundles' = [bundles EXCEPT ![run.bundle] = Opened]
     ELSE run' = Off("error") /\ UNCHANGED bundles
  /\ EvalKept

(* The stages in order, of each its seeds in order.                           *)
IsNext(at) == at \in run.left /\ \A other \in run.left : ~Before(other, at)

append(bundle, at, success) ==
  [bundle EXCEPT !.lines[at] = @ + 1, !.won = IF success THEN @ \cup {at} ELSE @]

Episode ==
  /\ At("eval", "episode")
  /\ \E at \in run.left, success \in BOOLEAN :
       /\ IsNext(at) /\ at[2] # 0
       /\ bundles' = [bundles EXCEPT ![run.bundle] = append(@, at, success)]
       /\ run' = IF ~Exports THEN [run EXCEPT !.left = @ \ {at}]
                 ELSE IF success THEN [run EXCEPT !.pc = "export", !.left = @ \ {at}, !.at = at]
                 ELSE Failed
  /\ EvalKept

Export ==
  /\ At("eval", "export")
  /\ bundles' = [bundles EXCEPT ![run.bundle].sft[run.at] = @ + 1]
  /\ run' = [run EXCEPT !.pc = "episode", !.at = None]
  /\ EvalKept

(* An episode, its export, or the summary of a complete evaluation raises; so    *)
(* does the end of the loop when there are not as many stages as tasks.         *)
EvalRaises ==
  /\ At("eval", "episode") \/ At("eval", "export") \/ (At("eval", "report") /\ run.status = "complete")
  /\ run' = Failed
  /\ EvalKept /\ UNCHANGED bundles

EvalDone ==
  /\ At("eval", "episode") /\ run.left = {} /\ Len(Stages) = Len(TASK_PATHS)
  /\ Goes("summary")
  /\ EvalKept /\ UNCHANGED bundles

Summary ==
  /\ At("eval", "summary")
  /\ bundles' = [bundles EXCEPT ![run.bundle].summary = summarize_records(Bundle.lines, Bundle.won)]
  /\ Goes("report")
  /\ EvalKept

Report ==
  /\ At("eval", "report")
  /\ bundles' = [bundles EXCEPT ![run.bundle].status = run.status]
  /\ run' = Off("ok")
  /\ EvalKept

-----------------------------------------------------------------------------

(* The running program is killed; nobody stops its server.                    *)
Killed ==
  /\ run.pc # "off" /\ Intervenes
  /\ run' = Off("error")
  /\ port' = IF port = "ours" THEN "orphan" ELSE port
  /\ UNCHANGED <<dirs, bundles, ladder>>

GrpoStep ==
  \/ Validate \/ LaunchServer \/ Healthy \/ StartupFails \/ Surface \/ Gate \/ LoadAdapter \/ Manifest \/ Weigh
  \/ Batch \/ BatchRaises \/ TrainEnds \/ SaveWeights \/ SaveConfig \/ Stop
EvalStep == EvalBegins \/ Episode \/ Export \/ EvalRaises \/ EvalDone \/ Summary \/ Report
Step     == GrpoStep \/ SftChecks \/ EvalStep
Ladder   == NextStage \/ StageEnds

Operator ==
  \/ \E start \in DOMAIN Stages, initial \in {None, "sft"} : StartLadder(start, initial)
  \/ \E i \in DOMAIN Stages : StartFromCheckpoint(names[i])
  \/ \E b \in Bundles : StartSft(b)
  \/ \E b \in Bundles, e \in Evaluations : StartEval(b, e[1], e[2])

Next == Operator \/ Ladder \/ LadderDies \/ Step \/ Killed

Spec == Init /\ [][Next]_vars /\ WF_vars(Ladder) /\ WF_vars(Step)

-----------------------------------------------------------------------------
(* Properties.                                                              *)

Adapters == {dirs[d] : d \in {p \in DOMAIN dirs : dirs[p].marker}}

(* A directory with a manifest or an adapter belongs to one run, programs run    *)
(* one at a time, no server outlives a run that was not killed, and a bundle's   *)
(* counts never exceed its plan.                                              *)
TypeOK ==
  /\ cfg \in Configs /\ acts \in 0..MaxActs
  /\ DOMAIN dirs = Paths(cfg)
  /\ \A d \in DOMAIN dirs : dirs[d].marker => dirs[d].weights # Base
  /\ \A b \in Bundles :
       /\ bundles[b].status \in {"none", "running", "complete", "failed"}
       /\ DOMAIN bundles[b].sft = DOMAIN bundles[b].lines
       /\ \A at \in DOMAIN bundles[b].lines :
            bundles[b].lines[at] \in 0..1 /\ bundles[b].sft[at] \in 0..bundles[b].lines[at]
  /\ port \in {"free", "ours", "orphan", "foreign"}
  /\ port = "ours" => run.kind = "grpo"
  /\ ladder.pc = "next" => run.pc = "off"

(* Whatever was killed, restarted or resumed, an adapter in a stage's directory  *)
(* was trained on consecutive stages that end in its own, from the first one or  *)
(* from the warm start, and never on a harder before an easier one             *)
(* (train_curriculum.py: each stage resumes the previous adapter).             *)
EasyBeforeHard ==
  \A k \in DOMAIN Stages : dirs[names[k]].marker =>
    LET line == dirs[names[k]].weights.line
        warm == line[1] = "sft"
    IN /\ \E j \in 1..k : line = (IF warm THEN <<"sft">> ELSE <<>>) \o SubSeq(names, j, k) /\ (~warm => j = 1)
       /\ \A i \in 2..Len(Stages) : ~Harder(Rank(Stages[i - 1]), Rank(Stages[i]))

(* In the scoped experiment no adapter is scored on a seed it was trained on,    *)
(* through export, warm start, stages and checkpoints, neither by a run's own     *)
(* validation prompts nor by an evaluation.                                    *)
HeldOut ==
  /\ cfg.poc /\ At("grpo", "train") =>
       \A pair \in eval_task_seed_pairs(cfg, stage) : pair[2] \notin run.weights.seeds
  /\ cfg.poc => \A b \in Bundles : bundles[b].status # "none" /\ bundles[b].split # "train" =>
         \A at \in Planned(bundles[b].split) : SeedOf(bundles[b].split, at) \notin bundles[b].weights.seeds

(* No amount of probing earns a lost rollout what a won one of its batch earns   *)
(* (validate_shaping_weight, stage overrides included).                        *)
FailureNeverOutearns ==
  At("grpo", "train") => \A meta \in Disclosed : \A a, b \in Rollout(meta) :
    a.reward = 1 /\ b.reward = 0 => Total(meta, a) > Total(meta, b)

(* The scoped experiment trains against a scoped server, whoever holds the port *)
(* when its own was launched (launch_server, main's policy_surface check).      *)
TrainsOnPoC == cfg.poc /\ At("grpo", "train") => speaks_poc(run.server)

(* An evaluation that says complete has each of its episodes once, and only its  *)
(* own, in its lines and its summary; it exported all of them or none, and only  *)
(* won ones; one that was interrupted never says so.                           *)
CompleteIsWhole ==
  \A b \in Bundles :
    /\ \A at \in DOMAIN bundles[b].sft : bundles[b].sft[at] > 0 => at \in bundles[b].won
    /\ bundles[b].status = "complete" =>
         LET once == [at \in Planned(bundles[b].split) |-> 1]
         IN /\ bundles[b].lines = once /\ bundles[b].sft \in {once, [at \in DOMAIN once |-> 0]}
            /\ bundles[b].summary = summarize_records(once, bundles[b].won)

(* A ladder ends: with its last stage, with one that failed, or killed; a server   *)
(* that never gets healthy does not hold it up.                                *)
LadderEnds == ladder.pc # "off" ~> ladder.pc = "off"
=============================================================================
