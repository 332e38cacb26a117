----------------------------- MODULE EpisodeLoop ------------------------------
(***************************************************************************)
(* One multi-turn training episode, driven alone (run_training_episode and  *)
(* _drive in llm/multiturn_rollout.py): reset, then one generated call and  *)
(* one environment step per turn, until the episode is done or its turns    *)
(* are spent.  The transcript is the conversation the model is conditioned  *)
(* on.  The environment is seen through what a step may answer; what it     *)
(* promises is EpisodeContract.                                             *)
(***************************************************************************)
EXTENDS Integers, Sequences, FiniteSets

CONSTANTS
  me,               \* the episode's id
  task,             \* the task instance it is about
  generated,        \* TRUE: turns carry their sampled tokens (the HF generator)
  max_turns,        \* turns of an episode
  max_turn_tokens,  \* tokens one turn may sample
  window,           \* max_prompt_tokens - response_margin
  Texts,            \* what the model may be about to say
  Context(_),       \* the tokens a conversation is rendered to for the next turn
  EndOfTurn,        \* the token that ends a turn
  Results           \* lengths a rendered tool result may have, in tokens

VARIABLE ep

Idle == "none"
NotStarted == [started |-> FALSE, messages |-> <<>>, call |-> Idle, reply |-> <<>>,
               env |-> [won |-> FALSE, over |-> FALSE], done |-> FALSE, reward |-> 0]

n_prompt == 1
Turns == Cardinality({i \in DOMAIN ep.messages : ep.messages[i].role = "assistant"})
Room(messages) == window - Len(Context(messages))

-----------------------------------------------------------------------------
(* What one generation may return for this conversation, at most cap tokens *)
(* long.  "act" and "finish" are complete calls of two tokens; "odd" is one *)
(* whose text encodes back to other tokens than were sampled.  A call cut   *)
(* short does not parse, and a text that does not parse is episode.finish.  *)
(* "drawn" is what the model really sampled, whether or not the generator   *)
(* keeps it; no action reads it.                                            *)
Word(n, i) == <<"word", me, n, i>>
Upto(cap, most) == IF cap < most THEN cap ELSE most
parse_actions(text, whole) == IF whole /\ text # "finish" THEN "dram.issue" ELSE "episode.finish"

(* A turn that carries its tokens, and one that is only its text.           *)
Turn(messages, content, call, ids, sampled) ==
  IF generated
  THEN [role |-> "assistant", drawn |-> ids, content |-> content, call |-> call,
        prompt_ids |-> Context(messages), token_ids |-> ids, sampled |-> sampled]
  ELSE [role |-> "assistant", drawn |-> ids, content |-> content, call |-> call]

Sampled(messages, cap) ==
  LET n     == Len(messages)
      full  == <<Word(n, 1), Word(n, 2), EndOfTurn>>
      ids   == SubSeq(full, 1, Upto(cap, 3))
      words == SubSeq(full, 1, Upto(cap, 2))
      whole == cap >= 2
  IN {Turn(messages, IF text = "odd" /\ whole THEN <<Word(n, 0)>> ELSE words, parse_actions(text, whole), ids, TRUE) :
        text \in Texts}

(* No room left in the model's window: the driver ends the episode itself.  *)
FinishTurn(messages) == Turn(messages, << <<"finish">> >>, "episode.finish", <<>>, FALSE)

-----------------------------------------------------------------------------
(* What the environment may answer: an episode that is won is over, and the *)
(* call that finishes it always is.  The last answer is not rendered.       *)
Answers(call) ==
  {r \in [won : BOOLEAN, over : BOOLEAN, size : Results \cup {0}] :
     /\ r.won => r.over
     /\ r.over <=> r.size = 0
     /\ call = "episode.finish" => r.over}

started(isDone) ==
  [NotStarted EXCEPT !.started = TRUE, !.done = isDone, !.env.over = isDone,
                     !.messages = <<[role |-> "user", content |-> << <<"task", task>> >>]>>]

(* begin_turn: the text joins the conversation and its call is sent.        *)
begun(state, msg) ==
  [state EXCEPT !.messages = Append(@, msg), !.call = msg.call]

served(state, r) ==
  [state EXCEPT !.env = [won |-> r.won, over |-> r.over], !.reply = <<r>>]

(* end_turn: the answer is folded in; a done episode gets no tool message.  *)
folded(state) ==
  LET r == state.reply[1]
      said == [role |-> "tool", content |-> [i \in 1..r.size |-> <<"result", me, Len(state.messages), i>>]]
  IN [state EXCEPT !.call = Idle, !.reply = <<>>, !.done = r.over,
                   !.reward = IF r.won THEN 1 ELSE 0,
                   !.messages = IF r.over THEN @ ELSE Append(@, said)]

-----------------------------------------------------------------------------
Init == ep = NotStarted

Start == ~ep.started /\ \E isDone \in BOOLEAN : ep' = started(isDone)

Decide ==
  /\ ep.started /\ ep.call = Idle /\ ~ep.done /\ Turns < max_turns
  /\ \/ Room(ep.messages) <= 0 /\ ep' = begun(ep, FinishTurn(ep.messages))
     \/ \E cap \in 1..max_turn_tokens :
          /\ cap <= Room(ep.messages)
          /\ \E msg \in Sampled(ep.messages, cap) : ep' = begun(ep, msg)

Serve == /\ ep.call # Idle /\ ep.reply = <<>>
         /\ \E r \in Answers(ep.call) : ep' = served(ep, r)

Fold == ep.reply # <<>> /\ ep' = folded(ep)

Next == Start \/ Decide \/ Serve \/ Fold

Spec == Init /\ [][Next]_ep
=============================================================================
