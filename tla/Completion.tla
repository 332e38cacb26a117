------------------------------ MODULE Completion ------------------------------
(***************************************************************************)
(* From a transcript to a training example (llm/multiturn_rollout.py):      *)
(* how a chat template renders the messages to tokens, which tokens of the  *)
(* rendering an assistant turn owns, and the (prompt, completion, mask)     *)
(* that GRPO trains on.                                                     *)
(*                                                                         *)
(* A token is a tuple; only its identity matters.  A message is a record    *)
(* with its role and the tokens its content encodes to; a turn that carries *)
(* the tokens really sampled (GeneratedTurn) has the fields prompt_ids,     *)
(* token_ids and sampled besides.                                           *)
(***************************************************************************)
EXTENDS Integers, SequencesExt

CONSTANT template      \* one of Templates

Templates == {"plain", "think_in_prompt", "think_on_last", "rewriting"}
ASSUME TemplateAssumption == template \in Templates

NoThought == <<"<think>">>
EndOfTurn == <<"<|im_end|>">>
Opening(role) == <<"<|im_start|>", role>>
\* Where the mask cannot be trusted the code raises instead of returning one.
Raises == [prompt_ids |-> <<>>, completion_ids |-> <<>>, completion_mask |-> <<>>, raised |-> TRUE]

-----------------------------------------------------------------------------
(* The chat template, a library: the four kinds the tests build.  "plain"   *)
(* renders a message the same way wherever it stands; "think_in_prompt"     *)
(* puts an empty thought after the generation prompt only; "think_on_last"  *)
(* (Qwen3) also puts it before the last message when it is an assistant's;  *)
(* "rewriting" changes its first token as the transcript grows.             *)
Rendered(messages, i) ==
  LET m == messages[i]
      thought == IF template = "think_on_last" /\ m.role = "assistant" /\ i = Len(messages)
                 THEN <<NoThought>> ELSE <<>>
  IN <<Opening(m.role)>> \o thought \o m.content \o <<EndOfTurn>>

render(messages, upto, add_generation_prompt) ==
  LET shown == SubSeq(messages, 1, upto)
      first == IF template = "rewriting" THEN << <<"length", upto>> >> ELSE <<>>
      last  == IF ~add_generation_prompt THEN <<>>
               ELSE <<Opening("assistant")>> \o
                    (IF template \in {"think_in_prompt", "think_on_last"} THEN <<NoThought>> ELSE <<>>)
  IN first \o FlattenSeq([i \in 1..upto |-> Rendered(shown, i)]) \o last

-----------------------------------------------------------------------------
common_prefix_len(a, b) ==
  LET agree == {n \in 0..Len(a) : n <= Len(b) /\ SubSeq(a, 1, n) = SubSeq(b, 1, n)}
  IN CHOOSE n \in agree : \A k \in agree : k <= n

(* Where the tokens of assistant turn i are in the rendering of the whole   *)
(* conversation: after what the turn's context shares with it.              *)
Authored(messages, i, full) ==
  LET context   == render(messages, i - 1, TRUE)
      with_turn == render(messages, i, FALSE)
      authored  == SubSeq(with_turn, common_prefix_len(context, with_turn) + 1, Len(with_turn))
      start     == common_prefix_len(context, full)
      end       == IF start + Len(authored) > Len(full) THEN Len(full) ELSE start + Len(authored)
  IN [span |-> (start + 1)..end, aligned |-> SubSeq(full, start + 1, end) = authored]

AssistantTurns(messages, n_prompt) == {i \in (n_prompt + 1)..Len(messages) : messages[i].role = "assistant"}

build_masked_completion(messages, n_prompt) ==
  LET full   == render(messages, Len(messages), FALSE)
      turns  == AssistantTurns(messages, n_prompt)
      mine   == [i \in turns |-> Authored(messages, i, full)]
      mask   == [t \in 1..Len(full) |-> IF \E i \in turns : t \in mine[i].span THEN 1 ELSE 0]
      prompt == render(messages, n_prompt, TRUE)
      split  == common_prefix_len(prompt, full)
  IN IF \E i \in turns : ~mine[i].aligned THEN Raises
     ELSE [prompt_ids |-> prompt, raised |-> FALSE,
           completion_ids |-> SubSeq(full, split + 1, Len(full)),
           completion_mask |-> SubSeq(mask, split + 1, Len(full))]

-----------------------------------------------------------------------------
(* The example of turns that carry their sampled tokens: each later context *)
(* must extend what was sampled before it, or the example is refused.  A    *)
(* turn the driver inserted is skipped.                                     *)
ExtendedUnchecked(soFar, turn) ==
  LET context == turn.prompt_ids
      new == IF Len(context) < Len(soFar.ids) THEN 0 ELSE Len(context) - Len(soFar.ids)
  IN IF ~turn.sampled THEN soFar
     ELSE [ids |-> context \o turn.token_ids, raised |-> FALSE,
           mask |-> soFar.mask \o [t \in 1..new |-> 0] \o [t \in 1..Len(turn.token_ids) |-> 1]]

Extended(soFar, turn) ==
  LET n == Len(soFar.ids)
      context == turn.prompt_ids
      new  == Len(context) - n
  IN IF soFar.raised \/ ~turn.sampled THEN soFar
     ELSE IF ~IsPrefix(soFar.ids, context) THEN [soFar EXCEPT !.raised = TRUE]
     ELSE [ids |-> context \o turn.token_ids, raised |-> FALSE,
           mask |-> soFar.mask \o [t \in 1..new |-> 0] \o [t \in 1..Len(turn.token_ids) |-> 1]]

FromSamples(messages, turns) ==
  LET prompt == messages[Min(turns)].prompt_ids
      n   == Len(prompt)
      upto[i \in 0..Len(messages)] ==
        IF i = 0 THEN [ids |-> prompt, mask |-> [t \in 1..n |-> 0], raised |-> FALSE]
        ELSE IF i \in turns THEN Extended(upto[i - 1], messages[i]) ELSE upto[i - 1]
      all == upto[Len(messages)]
  IN IF all.raised THEN Raises
     ELSE [prompt_ids |-> prompt, raised |-> FALSE,
           completion_ids |-> SubSeq(all.ids, n + 1, Len(all.ids)),
           completion_mask |-> SubSeq(all.mask, n + 1, Len(all.mask))]

IsGenerated(m) == "token_ids" \in DOMAIN m

to_grpo_example(messages, n_prompt) ==
  LET turns == AssistantTurns(messages, n_prompt)
  IN IF turns # {} /\ \A i \in turns : IsGenerated(messages[i])
     THEN FromSamples(messages, turns)
     ELSE build_masked_completion(messages, n_prompt)
=============================================================================
