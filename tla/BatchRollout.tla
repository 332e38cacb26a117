----------------------------- MODULE BatchRollout -----------------------------
(***************************************************************************)
(* One call of the trainer's rollout_func: the batch's episodes run in      *)
(* waves of live sessions (run_batched_training_episodes), each tick of a   *)
(* wave makes one batched generation for the episodes still active and then *)
(* steps their environments concurrently (asyncio.gather), and the finished *)
(* transcripts become training examples.  A step that raises unwinds the    *)
(* wave's exit stack, while its siblings may still be running, and the call *)
(* returns nothing.                                                         *)
(***************************************************************************)
EXTENDS Completion

CONSTANTS
  Specs,            \* 1..N, the batch, in the trainer's order
  TaskOf,           \* the task instance prompt_to_meta recovers for each
  concurrency,      \* sessions of a wave
  TextsOf,          \* what the model may say in each episode
  generated, max_turns, max_turn_tokens, window, Results

ASSUME BatchAssumption ==
  /\ IsFiniteSet(Specs) /\ Specs # {} /\ Specs = 1..Cardinality(Specs)
  /\ concurrency \in Nat \ {0}
  /\ max_turns \in Nat /\ max_turn_tokens \in Nat \ {0} /\ window \in Nat
  /\ generated \in BOOLEAN /\ Results \subseteq Nat

VARIABLES
  phase,      \* where rollout_func is
  start,      \* the wave is Specs start+1 .. start+concurrency
  tick,       \* turns the wave has made
  eps,        \* the episodes: _EpisodeState and the session behind it
  link,       \* each episode's client: "none", "open" or "closed"
  outs        \* the examples returned, once they are

vars == <<phase, start, tick, eps, link, outs>>

\* The chat template, with the generation prompt.
Context(messages) == render(messages, Len(messages), TRUE)

E(me) == INSTANCE EpisodeLoop WITH ep <- eps[me], task <- TaskOf[me], Texts <- TextsOf[me]

Phases == {"opening", "ticking", "closing", "unwinding", "assembling", "returned", "raised"}
Settled == phase \in {"returned", "raised"}

Wave == {e \in Specs : start < e /\ e <= start + concurrency}
Open == {e \in Specs : link[e] = "open"}
Busy == {e \in Wave : eps[e].call # "none"}
\* The wave's unfinished episodes, what one tick asks a turn for; each one's
\* place among them is the place of its request and of the text it gets.
Active == {e \in Wave : ~eps[e].done}
Place(e) == Cardinality({d \in Active : d <= e})

Init ==
  /\ phase = "opening" /\ start = 0 /\ tick = 0
  /\ eps = [e \in Specs |-> E(e)!NotStarted]
  /\ link = [e \in Specs |-> "none"]
  /\ outs = <<>>

-----------------------------------------------------------------------------
(* The clients of a wave are opened and reset one after another.            *)
NextToOpen == {e \in Wave : link[e] = "none" /\ \A d \in Wave : d < e => link[d] # "none"}

OpenClient ==
  /\ phase = "opening"
  /\ \E e \in NextToOpen, isDone \in BOOLEAN :
       /\ link' = [link EXCEPT ![e] = "open"]
       /\ eps' = [eps EXCEPT ![e] = E(e)!started(isDone)]
  /\ UNCHANGED <<phase, start, tick, outs>>

(* Connecting raises (there is no client to close), or the reset does.      *)
OpenFails ==
  /\ phase = "opening"
  /\ \E e \in NextToOpen, connected \in BOOLEAN :
       link' = IF connected THEN [link EXCEPT ![e] = "open"] ELSE link
  /\ phase' = "unwinding"
  /\ UNCHANGED <<start, tick, eps, outs>>

AllOpen ==
  /\ phase = "opening" /\ NextToOpen = {}
  /\ phase' = "ticking"
  /\ UNCHANGED <<start, tick, eps, link, outs>>

-----------------------------------------------------------------------------
(* One batched generation for the requests with room left; the others get   *)
(* the finish turn.  The HF generator pads its requests together and they   *)
(* share the smallest room; in vLLM each has its own.  What is generated    *)
(* goes back to the slot it was asked for.                                  *)
Room == [e \in Specs |-> E(e)!Room(eps[e].messages)]
Slots == {e \in Active : Room[e] > 0}
Cap(e) == IF generated THEN Min({max_turn_tokens} \cup {Room[d] : d \in Slots})
          ELSE E(e)!Upto(Room[e], max_turn_tokens)

MaySay == [e \in Active |-> IF e \in Slots THEN E(e)!Sampled(eps[e].messages, Cap(e))
                            ELSE {E(e)!FinishTurn(eps[e].messages)}]
BatchGenerate ==
  {texts \in [1..Cardinality(Active) -> UNION {MaySay[e] : e \in Active}] :
     \A e \in Active : texts[Place(e)] \in MaySay[e]}

\* zip(active, texts): the k-th text belongs to the k-th request.
Reversed(texts, k) == texts[Len(texts) + 1 - k]
Zipped(texts, k) == texts[k]

\* Nobody is left to generate for, or the turns are spent.
LateEnd == Active = {} \/ tick > max_turns
LastTick == Active = {} \/ tick = max_turns

Advance ==
  /\ phase = "ticking" /\ Busy = {} /\ ~LastTick
  /\ \E texts \in BatchGenerate :
       eps' = [e \in Specs |-> IF e \in Active THEN E(e)!begun(eps[e], Zipped(texts, Place(e))) ELSE eps[e]]
  /\ tick' = tick + 1
  /\ UNCHANGED <<phase, start, link, outs>>

TicksEnd ==
  /\ phase = "ticking" /\ Busy = {} /\ LastTick
  /\ phase' = "closing"
  /\ UNCHANGED <<start, tick, eps, link, outs>>

(* The server runs the step of one session; sessions are independent.       *)
Serve(e) ==
  /\ link[e] = "open" /\ eps[e].call # "none" /\ eps[e].reply = <<>>
  /\ \E r \in E(e)!Answers(eps[e].call) : eps' = [eps EXCEPT ![e] = E(e)!served(eps[e], r)]
  /\ UNCHANGED <<phase, start, tick, link, outs>>

(* A reply arrives.  Its task may be a sibling of one that raised: gather   *)
(* does not stop it, only closing its client does.                          *)
Fold(e) ==
  /\ phase \in {"ticking", "unwinding"}
  /\ link[e] = "open" /\ eps[e].reply # <<>>
  /\ eps' = [eps EXCEPT ![e] = E(e)!folded(eps[e])]
  /\ UNCHANGED <<phase, start, tick, link, outs>>

(* client.step raises: no reply within message_timeout_s, a connection      *)
(* that drops, a reply that does not validate.                              *)
RaisesIfAnswered(e) ==
  /\ phase = "ticking" /\ eps[e].reply # <<>>
  /\ phase' = "unwinding"
  /\ UNCHANGED <<start, tick, eps, link, outs>>

StepRaises(e) ==
  /\ phase = "ticking" /\ eps[e].call # "none"
  /\ phase' = "unwinding"
  /\ UNCHANGED <<start, tick, eps, link, outs>>

-----------------------------------------------------------------------------
(* The exit stack closes the clients, last opened first.                    *)
CloseLast ==
  /\ phase \in {"closing", "unwinding"}
  /\ \E e \in Open : /\ \A d \in Open : d <= e
                     /\ link' = [link EXCEPT ![e] = "closed"]
  /\ UNCHANGED <<phase, start, tick, eps, outs>>

NextWave ==
  /\ phase = "closing" /\ Open = {}
  /\ start' = start + concurrency /\ tick' = 0
  /\ phase' = IF start' < Cardinality(Specs) THEN "opening" ELSE "assembling"
  /\ UNCHANGED <<eps, link, outs>>

Unwound ==
  /\ phase = "unwinding" /\ Open = {}
  /\ phase' = "raised"
  /\ UNCHANGED <<start, tick, eps, link, outs>>

(* Every rollout must become an example with something sampled in it, or    *)
(* the call raises.                                                         *)
Example(e) ==
  LET made == to_grpo_example(eps[e].messages, 1)
  IN [prompt_ids |-> made.prompt_ids, completion_ids |-> made.completion_ids,
      completion_mask |-> made.completion_mask, raised |-> made.raised, reward |-> eps[e].reward]
Trainable(ex) == ~ex.raised /\ \E t \in DOMAIN ex.completion_mask : ex.completion_mask[t] = 1

Assemble ==
  /\ phase = "assembling"
  /\ IF \A e \in Specs : Trainable(Example(e))
     THEN /\ phase' = "returned"
          /\ outs' = [e \in Specs |-> Example(e)]
     ELSE phase' = "raised" /\ UNCHANGED outs
  /\ UNCHANGED <<start, tick, eps, link>>

Terminated == Settled /\ UNCHANGED vars

Driver == OpenClient \/ OpenFails \/ AllOpen \/ Advance \/ TicksEnd \/ CloseLast
          \/ NextWave \/ Unwound \/ Assemble

Next == \/ Driver \/ Terminated
        \/ \E e \in Specs : Serve(e) \/ Fold(e) \/ StepRaises(e)

(* The event loop runs what is ready, and a step that is never answered     *)
(* times out; the server owes nothing.                                      *)
Fairness ==
  /\ WF_vars(Driver)
  /\ WF_vars(\E e \in Specs : Fold(e) \/ StepRaises(e))

Spec == Init /\ [][Next]_vars /\ Fairness

-----------------------------------------------------------------------------
(* Types: every phase, counter, client and example is one the code can have.*)
TypeOK ==
  /\ phase \in Phases
  /\ start \in 0..(Cardinality(Specs) + concurrency) /\ tick \in 0..max_turns
  /\ \A e \in Specs :
       /\ eps[e].call \in {"none", "dram.issue", "episode.finish"}
       /\ eps[e].started => Len(eps[e].messages) \in 1..(1 + 2 * max_turns)
       /\ eps[e].reward \in 0..1 /\ Len(eps[e].reply) <= 1
  /\ link \in [Specs -> {"none", "open", "closed"}]
  /\ (outs # <<>>) = (phase = "returned")

(* Batching is invisible: each episode of a batch goes through exactly the  *)
(* turns it could go through when run_training_episode drives it alone,     *)
(* whatever its siblings do, and when one of them raises.                   *)
EachEpisodeAlone ==
  /\ \A e \in Specs : E(e)!Init
  /\ [][\A e \in Specs : E(e)!Next \/ eps'[e] = eps[e]]_eps

(* What is trained on is what happened: the tokens an example marks are     *)
(* those the model drew in that episode, in order, nothing the driver, the  *)
(* template or the environment wrote; they follow the episode's own task;   *)
(* and the reward is the one the episode's own environment found earned.    *)
Marked(ids, mask) ==
  LET upto[t \in 0..Len(ids)] ==
        IF t = 0 THEN <<>> ELSE IF mask[t] = 1 THEN Append(upto[t - 1], ids[t]) ELSE upto[t - 1]
  IN upto[Len(ids)]
Drawn(messages) ==
  LET upto[i \in 0..Len(messages)] ==
        IF i = 0 THEN <<>>
        ELSE IF messages[i].role = "assistant" THEN upto[i - 1] \o messages[i].drawn ELSE upto[i - 1]
  IN upto[Len(messages)]
TrainsOnWhatHappened ==
  phase = "returned" =>
    \A e \in Specs :
      /\ Marked(outs[e].completion_ids, outs[e].completion_mask) = Drawn(eps[e].messages)
      /\ <<"task", TaskOf[e]>> \in Range(outs[e].prompt_ids)
      /\ (outs[e].reward = 1) = eps[e].env.won

(* What the trainer says of the mask it hands to TRL: 1 on model tokens.    *)
(* The finish turn a driver inserts when the window is full is none.        *)
InsertedIsNotTrained ==
  phase = "returned" => \A e \in Specs : <<"finish">> \notin Range(Marked(outs[e].completion_ids, outs[e].completion_mask))

(* Every call of rollout_func ends, though the server may stop answering,   *)
(* and however it ends it holds no session: also when a step raised while    *)
(* others were under way.                                                   *)
Settles == <>(Settled /\ Open = {})
=============================================================================
