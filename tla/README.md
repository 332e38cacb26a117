# Verification of rhdram-env

rhdram-env is a reinforcement-learning environment: a policy drives a simulated
DRAM through `reset` and `step`, hammers rows, and is paid 1.0 once a bit of its
task's target has flipped.  This directory holds TLA+ models of it, the TLC runs
that check them, and TLAPS proofs.  Paths below are relative to the repository;
`PROJECT.json` maps each definition to the lines it models.

## 1. Inventory

| Component | State it keeps | Operations | Hard behaviour | Modules |
|---|---|---|---|---|
| Task session: `rowhammer_env/phase5_env.py` over `phase4_env.py`, `phase2_env.py` | budget, counters as last reported, success latch, end-of-episode latch, worker handle | `reset`, `step` (dram.info/read/write/issue, script.run, episode.finish), `close` | calls nested in a running script; partial failure of an issue; charge before or after latch; resets that fail half way | `TaskEnv`, `EpisodeContract` |
| Disturbance engine: `disturbance.py` | exposure of victim rows, overlay of flipped bits and three indexes of it, row patterns, open rows, oracle and refresh counters | `note_write`, `consume` (ACT, PRE, REF), `restore`, `apply` | cells sharing a byte, partial restores, dwell settled late, window boundaries, an encoder that fails half way | `Disturbance` |
| Worker client and worker: `worker_protocol.py`, `cpp/simulator_service/ramulator_worker.cpp`, recorder `cpp/ramulator_extensions/issued_event_recorder.cpp` | functional memory, clock, counters, event sink, open rows | one request and one reply per line; record, drain | a dead process, the deadline, a full queue, a callback that outlives its request, events of a failed request | `Worker` |
| Script broker: `script_sandbox.py`, `sdk/rh_sdk` | child process, two pipes and a read buffer, calls made, deadline, bytes read | run, serve, handle a tool call, write, terminate | who waits for whom; timeout against late messages; a child that dies inside a line | `ScriptBroker`, `ScriptCall` |
| Mapper, recorder's inverse, geometry, addressing: `mappers.py`, `cpp/.../row_xor_addr_mapper.cpp`, `geometry.py`, `tools/addressing.py` | none (pure) | map, invert, project, resolve | bijectivity, two projections that must agree, bounds | `Addressing` |
| Task compiler, disclosure: `tasks/compiler.py`, `tasks/disclosure.py` | the compiled task, the handle table | parse, sample a target, build the candidate window, mint handles, publish, project feedback | windows that miss the victim's bank, wrap past the device, or give the secret map away | `TaskCompiler`, `Disclosure` |
| Files of a reset: `mappers.py`, `mitigations.py`, `profiles.py`, `profile_builder/` | derived configurations, temporary files, the package's three files, the signing seed | derive, write, replace; fit, sign, check, write; read and verify | many sessions and builds over the same files, killed anywhere | `SessionReset`, `ProfileModel` |
| Rollout drivers: `llm/multiturn_rollout.py`, generators in `scripts/train_grpo.py`, `client.py` | conversation, session and reward per episode | open, tick, step, close, assemble a masked example | episodes end at different turns, concurrent steps that raise, a full window | `EpisodeLoop`, `BatchRollout`, `Completion` |
| Training programs: `scripts/train_curriculum.py`, `train_grpo.py`, `train_sft.py`, `eval_poc.py`, `llm/grpo_env.py`, `llm/curriculum.py`, `llm/shaping.py`, `poc.py`, `observability/experiment.py` | adapter directories, evaluation bundles, a server's port | validate, launch, gate, train, save, stop; evaluate, export, report | kills and resumes, a port somebody else answers on, seeds that travel through files | `Training`, `Curriculum`, `Probing` |
| Policies, prompts, logging, metrics, acceptance scripts, phase 1 | none that outlives a call | | | not modelled (section 13) |

How they interact: the session owns one worker process (a pipe, strictly one
request then one reply) and one engine per episode.  Every reply's events are
folded into the engine before the session charges the call and evaluates the
reward.  A script's child process calls back into the same `step` through the
broker, so a second level of calls runs inside the first.  The engine calls back
into the worker (`ENCODE`) while it consumes events.  Sessions share nothing but
files: the derived configurations they publish for their workers and the profile
package a build may be writing.  A trainer drives many sessions through a server,
a wave at a time, and passes what it learned to the next stage through a directory.

What makes each correct: the session's bill is exact and nothing runs after the end
of an episode but a reset; the engine's overlay and indexes agree and a flip is only
undone by a write; the worker loses no event and reports none twice; broker and child
never wait for each other; maps are bijections and candidate windows contain exactly
the true neighbours; a secret map leaks no coordinate; no torn or unverified file is
played with; a batch is invisible to its episodes and only sampled tokens are trained
on; adapters climb the ladder in order and are never scored on what they trained on.

## 2. Modules and plan

| Module | Uses | Checked by | Proved in |
|---|---|---|---|
| `TaskEnv` | refines `EpisodeContract` | `MCTaskEnv` | `TaskEnvProofs` |
| `Disturbance` | | `MCDisturbance` | `DisturbanceProofs` |
| `Worker` | | `MCWorker` | `WorkerProofs` |
| `ScriptBroker` | refines `ScriptCall` | `MCScriptBroker` | `ScriptBrokerProofs` |
| `TaskCompiler` | extends `Disclosure`, which extends `Addressing` | `MCTaskCompiler` | `TaskCompilerProofs` |
| `SessionReset` | extends `ProfileModel` | `MCSessionReset` | `SessionResetProofs` |
| `BatchRollout` | extends `Completion`, one instance of `EpisodeLoop` per episode | `MCBatchRollout` | `BatchRolloutProofs` |
| `Training` | extends `Curriculum` and `Probing` | `MCTraining` | `TrainingProofs` |

Two abstract specifications close the gaps between modules: `ScriptCall` is what
`TaskEnv` assumes of a script (one call at a time, at most `max_calls`, none after
its return), and `ScriptBroker` implements it; `EpisodeContract` is what
`EpisodeLoop` assumes of an environment (a won episode is over, and what is over
stays so until a reset), and `TaskEnv` implements it.

What the plan has left: showing that `Worker` is a request of `TaskEnv`; the gate of
`poc.py` over the session.

## 3. The session: TaskEnv

One behaviour is one environment object over any number of episodes.

* A call of `step` is three moments: it arrives (`pc = "step"`), its tool runs,
  it returns (`pc = "idle"`).  A `dram.issue` stays at `pc = "issue"` and sends
  one primitive per step, with the ceiling of `_issue_acts_ceiling` fixed at its
  start.  `script.run` sets `script.on`; from then the broker, not the policy,
  makes calls, until the child's result, a violation or the deadline.
* `budget`, `actsPrev`, `pubActs`, `cycle`, `success` and `episodeDone` are the
  fields `budget_remaining`, `_acts_prev`, `_public_counters["acts"]`,
  `_state.cycle`, `success` and `_episode_done`.  `simActs` is the worker's own
  count, which the session may not know.
* `Return` is the tail shared by the `dram.*` tools: `_charge`, the latch of
  `_latch_success`, and `_episode_done` from the observation's `done`.
* The overlay is reduced to what the target's predicate sees: intact, flipped,
  or (for predicates that read the byte) flipped to a wrong value.
* `reset` is one action per way it can end, including exceptions from three
  stages (`RaisesAt`): the task's parser, the derived configuration, the worker with
  what follows it.  All three are in the run.  The first comes after `_episode_done`
  was cleared and before anything else was: whatever had ended is open again, with
  its budget, its reward and its worker.  `resumed` remembers that such an episode
  is played, until a reset begins one; no guard reads it.

Not in the model: wording, disclosure of feedback, the seed.  Budgets always
have a `tool_calls` and a `cycles` entry, as `task.schema.json` requires.

`EpisodeContract` is what a trainer relies on: work only while there are calls
to pay for it, one call at a time, a reward that ends the episode, nothing after
the end but a reset.  The code makes it weaker than one would write it: a reset that
raises may hand back an episode that was over (`Readmit`), with the calls, the work
and the reward it had and no more, so it can spend the calls it has left and cannot
lose its reward.  That such an episode also works beyond its other budgets
is the run of `ExhaustedStaysIdle` (section 11).

### Run `taskenv`

Two budgets: two calls, two cycles and one activation; or three calls, no cycle
and unbounded activations, which the first call that takes time exhausts.  A request
issues at most one activation and takes at most one cycle, an issue has at most two
primitives, a script at most two calls (so both operands of `max_calls` bind).
Budgets are met exactly, overrun by one call, and run out inside an issue or a
script.  Episodes repeat without bound, as a reset starts the counters again, and
resets raise at each stage.  `MaxStale` bounds what a reset that raised before the
worker was replaced may leave in place, so an episode may be re-admitted again and
again while its counters are within it.

| Property | What it says |
|---|---|
| `TypeOK` | types, and a script within its limit |
| `Solvent` | an episode a reset began and that can still reach the simulator is not in debt; none, re-admitted or not, takes a tool call on credit |
| `IssueIsTruncated` | one issue of such an episode overruns the activations left by less than one primitive's burst |
| `Accounted` | between its calls, budget spent = activations issued and cycles advanced |
| `DoneIsTold` | the last observation says done exactly if the episode is over |
| `Answered` | every call of `step`, scripts included, returns |
| `ImplementsContract` | refinement of `EpisodeContract` |

Fairness: weak fairness of the running call's next step, of an issue's next
primitive and of the script's deadline.  The process is single-threaded, its
worker's requests have a cycle deadline and `select` in `_serve` has a timeout,
so each is taken if it stays possible.  The policy, the child and the worker's
death are not fair.  `Answered` needs no fairness of the child: its calls are
counted before they are forwarded, so they run out.

## 4. The disturbance engine: Disturbance

* A request (`req`) is in flight while its events are consumed; `note_write`
  comes first, the `restore` of a write last, as in `_from_worker` and
  `consume`.  An event is a list of jobs (`todo`), one per victim row, so that
  a failing `ENCODE` (`EncodeFails`) can leave it half done; the session then
  ends the episode, and only `Rebuild` follows.
* `cells`, `flips`, `_flip_owners` and `flipped_row_keys` are the overlay and
  its indexes.  `left`, `right`, `bonus` are a victim's exposure, in an integer
  unit in which the half-double weight is whole.  `style` is `data_pattern`.
* Thresholds, the order of a row's cells (`CellSeq`), anchors and the rate of
  multiplicity are constants: the code draws them once from the seed.
  `Active` keeps the last cell drawn at a byte, as `_flip_positions` does.
* The dwell of a closed row is any of `Dwells`: cycles are not counted here.
* Events come in any order the worker may report them; an ACT belongs to the
  requested row.  A precharge closes one bank or a rank.

### Run `disturbance`

One bank of three rows with the target between two hammered ones; writes go to
the target, so its neighbours become victims as well.  Rows have two bytes and
two cells: the target's lie in different bytes (a write restores one of two),
its neighbours' share one (a takeover).  Thresholds of 5 and 6 are crossed by
three activations of each side or by a dwell worth two.  The refresh window is
two refreshes.  Two engines: RowPress without mitigation, and the oracle with
the largest threshold that still protects the target (3: at most 2 * 2 < 5).
`MaxExposure` stops hammering a side at three; a refresh lets it go on.

| Property | What it says |
|---|---|
| `TypeOK` | types; a victim's pattern is one a stratum exists for |
| `OverlayConsistent` | overlay, owners, victims' cells and the row index say the same |
| `FlipsPersist` | only a write that covers its byte undoes a flip |
| `Refires` | a row exposed beyond its threshold shows a flip, also after a restore |
| `OracleProtects` | with the oracle and no RowPress the target never flips |

## 5. The worker: Worker

One worker process at a time, with the session that drives it.

* A request line is handled in `pc = "busy"` (the loop of `complete_request`) or
  `pc = "wait"` (the loop of `ISSUE WAIT`), a `tick` at a time; `left` counts
  down to the deadline (200000 ticks in the code).  A line that never reaches the
  simulator is `Refuse`; `READ STORED`, `DECODE`, `ENCODE` and `INFO` are `Peek`.
* `bytes_` is the set of addresses written: the values of bytes do not matter
  here.  `sink` is the recorder's event buffer, `counters` the four public ones.
* `over` is the session's side: `INTERNAL_SIMULATOR_ERROR` is terminal, and a
  write whose reply does not hold one WR is turned into it by `_from_worker`.  Of a
  reply's events only the number of its WR commands is kept, which is what that
  check looks at.
* Two actions leave `over`: `Restart`, a reset that begins an episode on another
  process, and `ResetRaises`, one that raises before it closes this one (section
  3): the next line drives the same process, with the requests its controller still
  holds and the sink as the failed request left it.  `resumed` counts these, since
  the process was started.
* Addresses are words: `in_domain` adds modulo `Word` (2^64 in the code).  The
  run gives the session only addresses of the device (plus lengths that run over
  its end), as its resolver does.

The controller is Ramulator, which is not in the repository.  `Ticks` lets it do
in a tick whatever the worker could survive: nothing, one command (ACT and column
commands of a held request, precharges and refreshes at will), the callback of a
request served before.  Assumed are only that a column command needs its row
open, that the callback comes once and after the column command, and that PREA
and REFab reach every bank.  `live` records whether the C++ frame a request's
callback writes to still exists; a callback of a dead one may hit the running
request's `done`.

`Recorded` has the recorder's branches for ACT, RD, WR, PRE, PREA and an all-bank
refresh.  Left out are those for auto-precharging accesses and for refreshes of one
bank or the same bank: the three controllers the repository configures
(`configs/ramulator/p1_external_ddr4.py:13`, `p2_external_ddr5.py:18`,
`p2_external_hbm2.py:20`) keep rows open and refresh all banks, so no such command is
issued.

### Run `worker`

Two banks, two rows, four bytes: two rows of one bank, and one row of two bytes;
an access of two bytes at the last address straddles the end.  A deadline of four
ticks is enough for ACT, column command and callback with one command between them,
and can be missed at each of these points.  Two accesses, so that a second one meets
what a failed first left behind: `MaxRequests` counts what the controller still
holds.  Two activations and one refresh; `MaxResumes` lets one reset raise on each
process.  `Restart` makes the episodes repeat.

| Property | What it says |
|---|---|
| `TypeOK` | types; no byte is stored outside the device |
| `NoDanglingCallback` | on a worker no raised reset has kept, while the simulator ticks every request it holds has a live caller |
| `SessionSeesAll` | everything issued is counted or still in the sink, once, on any worker; between requests of a live session a reset began, it is counted |
| `TracksOpenRows` | the recorder's open rows are the device's |
| `Answered` | every request line is answered, also if the controller never completes it |

Fairness: weak fairness of `Handles`, the process's own loop.  Nothing is assumed
of the controller: `Answered` rests on the deadline.

`NoDanglingCallback` depends on two programs: the C++ side leaves a reference to
a dead frame behind at each missed deadline, and only the session's rule that this
error ends the episode keeps the worker from ticking again.  A reset that raises
before `close()` gets around the rule.  From then on (`resumed > 0`) the model ticks
with dangling callbacks and reports a failed request's commands with the next reply,
as the code does; what still holds of such a worker, and is claimed of it, is that no
command is lost or reported twice.

## 6. The script broker: ScriptBroker

One environment over any number of `script.run` calls, with the child of the one
that runs.

* `pc` is where the broker is: writing its configuration or a reply (`config`,
  `reply`), blocked in that write until the child has read it (`flush`), at the top
  of the loop of `_serve` (`top`), in `select`, with a tool line at hand (`tool`),
  terminating the child (`closing`).
* `up` is the child's pipe and `buffer` what `readline` has already taken from it:
  `select` sees the first and not the second.  `Receive` is one turn of the loop,
  with the limits on bytes and the kinds of line; `EndOfFile` follows the child's
  exit, also inside a line.
* The child is `CHILD_RUNNER`: it reads its configuration, then the script calls, at
  will.  `_call` counts before it sends and waits for the answer.  The validator does
  not reject an assignment to `rh.calls` or `rh.max_calls`, so a script may set its
  own count (`ChildAssigns`, up to `MaxTries` either way; what counts is the distance
  to its limit) and ask on: then it is the guard of `_handle_tool` (`WithinLimit`)
  that ends the run.  The script may loop, flood with lines of any size, or be
  killed.  It may also go on after a failed call, although the validator rejects
  `try`.
* `late` is the deadline; it may pass at any point of `_serve`, and is looked at
  where the code looks.  A write has no deadline.

### Run `scriptbroker`

Two calls; a child whose own count moves between -3 and 3, so that its limit and the
broker's are each reached first; five units of protocol in lines of one or two (so
both limits bind, in either order); all attestation outcomes.

| Property | What it says |
|---|---|
| `TypeOK` | types; the broker's count passes `max_calls` by at most the line that ends the run |
| `TakeTurns` | no sleep over a buffered line; a write that blocks has a child that will read or is gone; a child runs on, and the broker has a call at hand, only when the last call was answered |
| `KeepsCall` | refinement of `ScriptCall`: at most `max_calls` calls, which the broker enforces alone |
| `Returns` | every run returns |

Fairness: weak fairness of the broker's own step, of the deadline (time passes), of a
child that has started reading its configuration and of one that has an answer to
read (the operating system schedules it).  The script itself owes nothing.
`Returns` rests on `TakeTurns`: without a deadline on writes, only the turn-taking
of the protocol keeps a write from blocking for ever.

## 7. Tasks, disclosure, addresses: TaskCompiler

* `Addressing` has the device's geometry (sizes of levels as bit widths), the
  row-XOR mapper with its secret offset, the recorder's inverse (`AddrInverter`,
  Gaussian elimination over the mapper's bits), and the two projections of
  coordinates to an address: Python's (`AddressMapper`), right for the public mapper
  only, and the worker's.
* `Disclosure` has what a level of disclosure admits and lets through.
* `TaskCompiler` is one `reset` up to the compiled task: `Parse` (with the refusals
  of `from_config` that look at family, disclosure and difficulty; a mitigation
  without a name and a budget that is no number play no part in what is compiled, and
  what their exceptions do to the session is section 3), the gate on a secret mapper,
  the worker's report of its geometry (`StartWorker`, which may be malformed), the
  target, the aggressors, the two decoy pools (`FarSameBank`, `DifferentBank`, one
  turn of the loop over rows per step) and the handles.  Every draw of the seeded
  generator is possible.

Bitwise exclusive or is a constant, `BitXor`, to which the run gives the real one.
The constants are assumed to be as follows; TLC evaluates each for the run's values.

* `InfoAssumption`: the worker's report is of names and numbers, and no level of the
  device is called like a key of a traced command (`op`, `count`, ...).  The code does
  not look.
* `MarginsAssumption`: the margins are positive, that of a sampled target at least
  two, and a window has at least two candidates, as in the code (64 and 1024 rows; 4,
  16 and 64 candidates).
* `RoomAssumption`: every device a reset plays with (`Sound`) has room for the widest
  window.  The code does not look either (`min(n_far, len(far_pool))` makes a window
  short, and the walk over other banks may come round and repeat itself), but with
  its margins the devices it simulates, of 65,536 rows, have room many times over.
* `BankAssumption`: `Bank` is above `Row` in every device's levels.  `_validate_levels`
  asks only that both are there; every DRAMSpec of the simulator has them so.
* `WordAssumption`: an address has fewer than 64 bits.  With more the inverter is never
  ready and answers `NotInvertible`; the code's comment gives 27 for DDR4.
* `XorAssumption`: on the words of an address `BitXor` is exclusive or bit by bit.  No
  law of it is assumed: that it commutes, associates, undoes itself and stays within
  the width of a field is proved.

### Run `taskcompiler`

Devices of 16 rows and 4 banks, one with a pseudo channel, and three malformed
reports; all families, overrides and bands; offsets 0, 1, 3 and 7 (none, one and
several bits of the bank).  Windows of 4, 6 and 10 candidates make the loop over rows
wrap once; the margins of the code (64 and 1024 rows) are scaled to the device
(`FAR_ROW_MARGIN` 4, `SAMPLED_MARGIN` 5).

| Property | What it says |
|---|---|
| `TypeOK` | types; every candidate is an address of the device |
| `WindowIsTrue` | a window has the band's number of candidates, exactly two of them the victim's neighbours, and the marks tell the truth |
| `AddressesRoundTrip` | the maps are one to one, both inverses agree with them, every admitted form and every published address is the cell it names |
| `SecretStaysHidden` | under a secret map nothing that is published or traced holds a coordinate |

Safety only: a compile is a finite computation.

## 8. Shared files of a reset: SessionReset

* A reset is one action per file operation: the derived configuration
  (`WriteTemp`, `Replace` of `atomic_write_text`), the worker that opens it, then
  `ReadJson`, `ReadSig`, `ReadPub` and the engine's questions.  Each may fail the way
  the code lets it: an answered code (`Answer`) or an exception no handler takes
  (`Escape`).
* A build is `Fit` (all gates of `ProfileModel` in order), `Sign`, `Check` (which
  derives the public key from the seed a second time) and the writes, each in two
  steps: the file is truncated, then filled.  `Rotate` replaces the seed at any time.
* `ProfileModel` computes the gates on small measurements: the split, medians and
  geometric means compared without division, ordering and direction.
* A session or builder that dies takes no further step; nothing is forced on any.

### Run `sessionreset`

Two sessions and two builders, of whom three act; two secret mappers and the public
one; a rotation; seven sources, of which two may be built and each of the others
fails a different gate.

| Property | What it says |
|---|---|
| `TypeOK` | types; a temporary file exists exactly while its session writes it |
| `WorkerReadsOwnConfig` | a worker reads a complete configuration, its own session's |
| `AcceptedWasBuilt` | a profile a session plays with came whole out of a gated build and covers what was asked |
| `FinishedBuildLoads` | a build that ended undisturbed leaves a package that verifies, keys rotated in its middle included |

`FinishedBuildLoads` is only claimed for a build no other one wrote beside: two
builds at once can leave a package that does not verify, and a session then gets
an exception, never a wrong profile (section 11).

## 9. Rollouts: BatchRollout

* `EpisodeLoop` is one episode driven alone: `Decide` (a generation with the room
  the window leaves, or the finish turn), `Serve` (the environment), `Fold`.
  Its variable `ep` holds the transcript, the call under way and the session; how
  a transcript is rendered is its parameter `Context`, which `Completion` gives it.
* `BatchRollout` is one call of `rollout_func`: waves of `concurrency` sessions,
  opened one after another; a tick is one batched generation, whose cap is the
  smallest room of the batch if the HF generator pads it, and each request's own
  with vLLM (`Cap`), and then one step per session, concurrently.  The k-th text
  goes to the k-th request that is active (`Place`).
  A step may raise at any time, also because it is never answered; siblings
  go on until the exit stack closes their clients.
* `Completion` is the mask: `FromSamples` for turns that carry their tokens,
  `build_masked_completion` for those that do not.  Tokens are symbols; what
  matters is who wrote them and whether a text encodes back to what was sampled.
  `drawn` records what the model really sampled; no action reads it.

### Run `batchrollout`

Three episodes in waves of two (so one wave is not full), two turns, and a window in
which the second turn has room for a whole call, for half of one, or for none,
depending on the first result.  The chat template keeps what it rendered (the
supported kind).

| Property | What it says |
|---|---|
| `TypeOK` | types; examples exist exactly once the call has returned |
| `EachEpisodeAlone` | each episode of the batch takes only steps it could take alone (refinement of `EpisodeLoop` by every one of them) |
| `TrainsOnWhatHappened` | marked tokens are those the model drew, in order; prompt and reward are the episode's own |
| `Settles` | the call ends, and holds no session |

Fairness: the driver's next step, and that a step in flight is folded or raises
(`message_timeout_s`).  The server owes nothing.

## 10. Training: Training

* `Curriculum` has the readers of a configuration: three that read seeds (and
  differ), the ordering of stages, `validate_config` of the scoped experiment, the
  shaping weight and its overrides.
* `Training` is one host.  `dirs` are the adapter directories (manifest, weights,
  `adapter_config.json`, checkpoint, written at different steps), `bundles` the
  evaluation directories, `port` who answers on the server's port: nobody, the
  running program's server, one that a killed program left behind, or a foreign one.
* A GRPO run goes through `Validate`, `LaunchServer`, `Healthy` or `StartupFails`,
  `Surface`, `Gate`, `LoadAdapter`, `Manifest`, `Weigh`, `Batch`, `TrainEnds`,
  `SaveWeights`, `SaveConfig`, `Stop`; what raises goes through the finally block
  (`Raises`), what is killed does not (`Killed`).
* `Probing` is what a rollout of a batch did and what it earns besides the
  reward: an issue's compact forms expanded and refused (`_expand_commands`), the
  timing digest of its primitives, and the two scores that count probes, grouped
  reads and unique candidates in the digests of a transcript.
* Weights are the list of stages they were trained on and the seeds they have seen.
* The operator starts one program at a time, in any order: the ladder from any
  stage, with or without the warm start; a stage from its checkpoint; a warm start;
  an evaluation.  A killed ladder leaves its stage running.

### Run `training`

Two stages; the scoped experiment, the same outside the scope, and six
configurations that must be refused (or whose stages must) in different places;
three evaluations over two bundles; two batches per run with patience two; three
operator acts or kills (`MaxActs`), and one export that may exist from before
(`Earlier`), so that export, warm start and ladder fit into them.  Eight
transcripts over three rows probe the target with a candidate of its bank or of
another, too often, too long, grouped with a write, by a physical address, or with
a count that is refused.  Stage names are distinct: the code does not look, but two
stages of one name would share a directory, and `TrainingAssumption` names it.

| Property | What it says |
|---|---|
| `TypeOK` | types; no server outlives a run that was not killed |
| `EasyBeforeHard` | a stage's adapter was trained on consecutive stages that end in its own, from the first or from the warm start |
| `HeldOut` | no adapter is scored on a seed it has seen, along any chain of files |
| `FailureNeverOutearns` | no probing earns a lost rollout what a won one earns |
| `TrainsOnPoC` | the scoped experiment trains against a scoped server, whoever holds the port |
| `CompleteIsWhole` | a bundle that says complete has all its episodes and only its own |
| `LadderEnds` | a ladder ends, also when its server never gets healthy |

Fairness: weak fairness of the running program's step and of the ladder's.  The
operator and the kills are not fair.  Startup, batches and episodes are bounded in
the code (a deadline, `max_steps`, the plan); that a single generation returns is
assumed.

## 11. What the code does and its documents do not say

Each of these runs checks one sentence of the repository and finds it violated;
`PROJECT.json` quotes the sentence.

* `WonScriptPays`: a script that won and then breaks its sandbox, or times out,
  returns reward 0 and done false.
* `StableCodes`: a dead worker surfaces as an exception, not as a stable code.
* `InsertedIsNotTrained`: with the vLLM generator, whose turns carry no sampled
  tokens, the finish turn the driver inserts into a full window is marked as the
  model's.  The HF generators mark it 0.
* `ExhaustedStaysIdle`: a `reset` whose task has a number that is none raises out of
  `int()` after it has cleared `_episode_done` (`phase5_env.py:76`), and the finished
  episode, its budget spent, drives the simulator again.

Met while modelling and stated here only: a plain read is not stopped at the
activation budget and may still be credited its flip; the reward looks once per call,
so a flip written over later in the same `dram.issue` is never credited
(`phase2_env.py:428`); `ProfileRejected` is no `ValueError`, so a package that is
missing or does not verify leaves `reset` as an exception (`phase4_env.py:116`); a
row keeps the pattern of its first exposure (`disturbance.py:641`); RowPress exposes
without the activations the oracle counts; with half-double victims, which no shipped
profile has, the oracle's default threshold is too high, as six fifths of the
calibrated one can be reached (`disturbance.py:237`); `flat_bank_id` ignores levels
other than bank and bank group, which HBM2 has (`issued_event_recorder.cpp:272`);
`in_domain` wraps near 2^64, where the session sends nothing.

## 12. Proofs

`TaskEnvProofs` proves, for every set of budgets, every bound and any burst of
activations, all safety properties of the run `taskenv` and the refinement.
The inductive invariant `IInv` is needed because none of them is inductive:

* `Bill`: for a live episode, worker and session agree on activations, and the
  budget equals the initial one minus what was reported; inside an issue it is
  as of the issue's start, with the ceiling that start implies.
* `Calls`: the call under way and those a script may still make are covered by
  the tool calls left.
* `Latch`: success implies the end, until a raised reset takes the end back; with a
  script still running after the end, nothing is left to be won.

`ReturnKeeps` proves the shared tail of the tools once; the other lemmas treat
one group of actions each; `NextKeeps` combines them.  `StepRefines` maps every
step to a step of `EpisodeContract` or a stutter.  No hypothesis goes beyond the
constants' assumptions: a `reset` may raise at any stage.  An episode that one has
re-admitted (`resumed`) is not live, so `Bill` does not speak of it, and `Latch`
allows its reward to be there already; `Calls` holds of it as of any other.

`DisturbanceProofs` proves, for every geometry, order of cells, threshold,
mapping of banks and engine, all safety properties of the run `disturbance`, the
oracle's under hypotheses.  The inductive invariant is `TypeOK /\ OverlayConsistent`.  Two
lemmas carry it: `FlipKeeps` (a flip may take a byte over from another cell of
the row, or of a row that overlaps it, whose victim must then forget the cell)
and `RestoreKeeps` (a write removes what it covers and the row leaves the index
exactly with its last cell).  Only `ReadsTellOfFlips` needs rows to be disjoint
(`RowsAreDisjoint`): with overlapping rows one row's flip would show in another
row's bytes while only the first is indexed.

The second half of the module proves `OracleProtects` for both neighbourhoods the
engine can be built with (`Rings`: adjacent victims, or those and the half-double ones
at distance two), under one hypothesis: the threshold leaves room for the activation
that makes the oracle fire (`ThresholdIsLow`, in the weights of the rings).  The
default `tRH`, two fifths of the double-sided threshold, meets it for adjacent victims
(with a threshold above one, and the single-sided one no lower), and not with
half-double ones (section 11).
The invariant `OracleInv` bounds each side of a victim by the weighted counts of that
side's aggressors (`Bounded`), each plus one from the moment its activation has
credited the victim until it is counted; to say that it must describe the jobs an
event has left, and whose turn each is (`Shape`, `Turn`).  A restore and a refresh
only lower exposure, and a window clears both sides of the inequality at once.  While
an activation is consumed only one side of the target is ahead of its counts, which is
why the smaller side stays below what the oracle fires at.  The run has adjacent
victims only, as every shipped profile has.

`WorkerProofs` proves all safety properties of the run `worker`, for every mapper,
deadline, controller behaviour and session whose addresses are bounded by the device
(`SessionBounds`; `in_domain` alone does not suffice, section 11).  The inductive
invariant `IInv` has a part that holds on any worker, `Ledger` (counted plus still in
the sink is issued), and one for a worker no raised reset has kept, `Progress`
(between the requests of a live session queue and sink are empty; a running access is
the only request held, and its WR is in the sink exactly from the moment it was
served; once it is done the queue is empty again).  A tick is therefore treated once
for any queue, since a kept worker may hold a failed request beside the running one,
and once more for the request that runs alone.  The lemmas count what one command
adds to the sink, for each command once.  `RecorderTracks` needs in addition that
`flat_bank_id` is injective (`FlatIsExact`), which is not so for every geometry
(section 11).

`ScriptBrokerProofs` proves the safety properties of the run `scriptbroker` and the
refinement of `ScriptCall`, for every limit, every size of a line and every script.
The invariant `IInv` adds to `TypeOK` that at most one line is under way, in one
direction, and none is left in `readline`'s buffer (`Pipes`); whose turn it is
(`Turn`: a child that is not gone waits while the broker holds its question); and
what the broker has counted (`Counts`: its own count is within the limit until the line
that ends the run, and every call it made was answered before the next; of the child's
count nothing is known).
`TakeTurns` follows from `IInv` alone, `KeepsCall` from one step of the child or the
broker at a time (`StepRefines`).

`SessionResetProofs` proves all properties of the run `sessionreset`, for any sessions,
builds, sources, mappers and keys.  Of the constants it asks that the marks for a
missing and a torn file are neither names nor signatures, that there is a key and a
request, and that the public mapper is not a secret one.  The invariant `IInv` has
two halves that no step of the other side disturbs:

* `BuildInv`: a build has verified what it writes (`Verified`); while one is over its
  files, `built` is void, and one that is alone there finds in the package what it
  has written so far (`OwnFiles`).  Every signature that exists was made for a
  profile that passed the gates (`Signed`), so whatever verifies did
  (`VerifiedIsBuilt`), though the three files may come from different builds.
* `ResetInv`: a path holds nothing or its own configuration, whole, and from the
  moment a session published its own the path is never without it (`Config`).

`BatchRolloutProofs` proves all safety properties of the run `batchrollout`, for
every batch, wave size, window, chat template and set of texts.  The invariant
`IInv` says how phase, wave, clients and episodes go together: episodes of later
waves have not started, none of the wave that runs is ahead of its ticks, and an
episode has at most two messages a turn, of which the last is still its own while
its call is under way.
From it:

* `BatchingIsInvisible`: every step of the batch is, for every episode, a step of
  its own `EpisodeLoop` or a stutter.  What needs a proof is that the shared
  generation is one each episode could have had alone (`CapFits`: the smallest room
  is a room of its own, and the turn that is given to the k-th request is its own).
* `TrainsOnTruth`: `TrainsOnWhatHappened`, if turns carry their tokens
  (`generated`).  The hypothesis is needed: without it `InsertedIsNotTrained` is
  violated (section 11), and what is marked are tokens of a text, not what was
  drawn.  The invariant `TruthInv` adds to `IInv` that an episode is honest (its
  transcript begins with its own task, every turn was prompted with that task and
  keeps the tokens that were drawn, and the reward is that of the last answer), that
  the waves behind the driver are started and quiet, and that what is returned are
  the examples of the episodes as they stand.  Honesty is carried through `Alone`,
  the steps of a single episode, so that the argument about one transcript never
  meets the batch.  `ExampleIsTrue` then computes what `FromSamples` does with such a
  transcript, also one whose template dropped something (it raises, and nothing is
  returned).

Joined lists, masks and transcripts are recursive functions of their length.  The
library's induction theorems cannot be used here (they take an operator), so the
inductions are arguments about a least counterexample (`Least`, `Climb`).

`TrainingProofs` proves all safety properties of the run `training`, for any
configurations, transcripts, bundles, bounds and patience.  The invariant `IInv`
has a part for what each program may hold at each of its steps (`GrpoInv`,
`SftInv`, `EvalInv`, `LadderInv`), since a kill makes any of them the last, and a
part for what may lie on the disk (`DirType`, `BundleInv`), since any may be the
next:

* a directory's weights and its checkpoint each fit its stage (`Fits`): a line of
  consecutive stages that ends in it, from the first one or after the warm start.
  The two need not be of one run, so each is said for itself.
* `ScoredOnUnseen`: whatever an adapter has seen are training seeds of the
  stages, which `validate_config` keeps apart from the seeds of every
  split that is scored.  The three readers of seeds differ, but not on what is
  accepted (`ReadersAgree`).
* `WinsOutearn`: both scores are at most one (`ScoreIsPart`), and the weight of a
  probe is less than that of a success, whichever of the two overrides it.
* `CompleteBundles`: while an evaluation runs, an episode is a line of its bundle
  exactly once it is no longer to do, and exported with it or not at all.

`TaskCompilerProofs` proves all properties of the run `taskcompiler`, for every
configuration, device and mapper that meets the assumptions of section 7.

* `SecretIsKept`: `AdmittedInv` is what it needs of the past: a task that is being
  compiled was parsed from a configuration that passed every refusal, and a secret
  mapper runs only for a family that asks for one.  Such a family discloses logical
  addresses or handles, and no event lets a level of the device through.
* `WindowTellsTruth` and `TypeCorrect` begin with arithmetic.  From a device's levels
  follows the layout of an address (`LayoutIs`: the fields lie next to each other with
  the row on top), so a slot's fields are read back (`SlotIs`), and the secret mapper
  leaves the row and folds its key into the bank (`OpensAt`).  Folding with a key
  permutes the banks (`FoldPermutes`), so a row has one slot in every bank
  (`SlotsAre`), one of them in the victim's (`InVictimBankIs`), and one row stride from
  the target, on either side, is another bank (`StrideLeavesBank`).
  The inductive invariant is `CompilerInv`: what has been chosen are true, different
  candidates, counted against what the window still wants (`Begun`), and in the walk
  over other banks the rows behind are those the walk has passed (`WalkInv`: it has
  gone as many steps as the decoys it made need, `Offset` tells how far).  That a
  window is full and without repetition then rests on the walk not coming round,
  which is `RoomAssumption`.  Powers, the fields of a number and sums over levels are
  recursive functions, treated as in `BatchRolloutProofs` by a least counterexample.
* `RoundTrips` is about elimination over GF(2), for addresses of any width.  Bits come
  first: a word is determined by its bits (`BitsTell`), `BitXor` is therefore a group's
  (`XorLaws`), and fields laid at places that do not overlap can be joined and read back
  (`JoinBits`, `JoinedRestores`).  So a probe is additive (`ProbeAdds`: each field the
  mapper opens is an exclusive or of fields of the address, also under the secret one,
  whose key is a field of the row), and only address 0 is opened as zeros
  (`ProbeTells`: the row is never folded, and with it the keys can be taken off).
  From these two facts alone follows that elimination works.  A row of the basis always
  is the probe of the address bits it keeps, and has the bit of its place and none above
  (`GoodRow`).  Probing one more address bit then finds a place that is free, since a row
  that reduced to zero would be the probe of an address that is not 0 (`InsertFills`);
  after all address bits every place is taken (`BasisFills`), so nothing is left of any
  target, and what was collected on the way is its address (`Solves`, `WorkerRestores`).
  Python's `encode` undoes `decode` because the fields partition the word
  (`EncodeRestores`, `EncodeIs`).  In a live episode it takes `TargetInv`, which has every
  target, of every family, in 1..rows - 3, so that the three rows a task may name beside
  it are rows of the device (`RowsAreThere`); `MintedInv`, by which handles are what the
  reset minted; and `AdmittedInv`, by which a policy that may name coordinates has a
  worker under the public mapper, the one `encode` is right about (`PhysicalIsPublic`).

Only model-checked:

* the liveness properties `Answered` (of the session and of the worker), `Returns`,
  `Settles` and `LadderEnds`: liveness under fairness is outside the proof system's
  reach;
* the violated sentences of section 11.

## 13. Not modelled

* Statistics and data: the sampling of thresholds, KS distances, parsing of the
  measurement tables, gradient steps.
* Prompts, the parsing of model text beyond "a call, or none", logging, metrics,
  the model card.  The reference policies' searches: their success depends on
  timing, which the models leave to the environment; `Gate` of `Training` lets them
  win or lose.
* Operating system: name spaces, seccomp and rlimits of the sandbox.
* Third-party code, seen through what the repository expects of it: Ramulator (any
  controller), OpenEnv's sessions (independent, possibly silent), TRL (batches,
  checkpoints), the chat template (two kinds).
* The gate of `PoCEnv.step` over the session; the phase-1 environment; the local
  batched driver and the single-shot driver of `rollout.py`; smoke runs, servers
  given by `--base-url`, `--resume-adapter` by hand, and the semaphore of
  `_evaluate_all` in the training scripts; the acceptance scripts.
