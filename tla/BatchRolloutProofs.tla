--------------------------- MODULE BatchRolloutProofs ---------------------------
(***************************************************************************)
(* Proofs about BatchRollout, for every batch, wave size, model, template and  *)
(* window: its types and bounds, that batching is invisible to an episode, and  *)
(* that the examples of kept turns train on what happened.                    *)
(***************************************************************************)
EXTENDS BatchRollout, FiniteSetTheorems, SequenceTheorems, WellFoundedInduction, TLAPS

(* What a conversation is made of.                                           *)
Roles  == {"user", "tool", "assistant"}
Calls  == {"dram.issue", "episode.finish"}
Tokens ==
  {NoThought, EndOfTurn, <<"finish">>} \cup {Opening(role) : role \in Roles} \cup {<<"length", n>> : n \in Nat}
  \cup {<<"task", TaskOf[e]>> : e \in Specs}
  \cup {<<"word", e, n, i>> : e \in Specs, n \in Nat, i \in 0..2}
  \cup {<<"result", e, n, i>> : e \in Specs, n \in Nat, i \in Nat}

Heard == [role : {"user", "tool"}, content : Seq(Tokens)]
Plain == [role : {"assistant"}, drawn : Seq(Tokens), content : Seq(Tokens), call : Calls]
Kept  == [role : {"assistant"}, drawn : Seq(Tokens), content : Seq(Tokens), call : Calls,
          prompt_ids : Seq(Tokens), token_ids : Seq(Tokens), sampled : BOOLEAN]
Messages == Heard \cup Plain \cup Kept

Replies == [won : BOOLEAN, over : BOOLEAN, size : Results \cup {0}]
States  == [started : BOOLEAN, messages : Seq(Messages), call : Calls \cup {"none"},
            reply : {<<>>} \cup {<<r>> : r \in Replies}, env : [won : BOOLEAN, over : BOOLEAN],
            done : BOOLEAN, reward : {0, 1}]

Said(messages) == Cardinality({i \in DOMAIN messages : messages[i].role = "assistant"})

(* A conversation grows by at most two messages a turn; while a call is under  *)
(* way the last one is its own.                                              *)
Fits(state, turns) == Len(state.messages) <= 2 * turns + (IF state.call = "none" THEN 1 ELSE 0)

-----------------------------------------------------------------------------
(* The inductive invariant.                                                 *)

ControlInv ==
  /\ phase \in Phases /\ start \in Nat /\ tick \in 0..max_turns
  /\ start <= Cardinality(Specs) + concurrency
  /\ phase \in {"opening", "ticking", "closing"} => start < Cardinality(Specs)
  /\ phase = "opening" => tick = 0
  /\ link \in [Specs -> {"none", "open", "closed"}]
  /\ (outs # <<>>) = (phase = "returned")

EpisodeInv(state) ==
  /\ state \in States
  /\ ~state.started => state.messages = <<>> /\ state.call = "none"
  /\ state.started => Len(state.messages) >= 1
  /\ state.reply # <<>> => state.call # "none"
  /\ Fits(state, max_turns)

EpisodesInv == eps \in [Specs -> States] /\ \A e \in Specs : EpisodeInv(eps[e])

(* An episode starts when its client has been opened; those of later waves     *)
(* have not.                                                                *)
LinkInv ==
  /\ \A e \in Specs : link[e] = "none" => eps[e] = E(e)!NotStarted
  /\ phase \in {"opening", "ticking", "closing"} => \A e \in Specs : e > start + concurrency => link[e] = "none"
  /\ phase = "ticking" => \A e \in Wave : link[e] # "none"

(* No episode of a wave is ahead of its ticks.                              *)
WaveInv ==
  phase \in {"opening", "ticking"} => \A e \in Wave : link[e] # "none" =>
    eps[e].started /\ Fits(eps[e], tick) /\ Said(eps[e].messages) <= tick

IInv == ControlInv /\ EpisodesInv /\ LinkInv /\ WaveInv

-----------------------------------------------------------------------------
(* Least elements, and the sequences that FlattenSeq makes.                  *)

(* A nonempty set of naturals has a least element.                           *)
LEMMA Least ==
  ASSUME NEW T, T \subseteq Nat, T # {}
  PROVE  \E x \in T : \A y \in T : x <= y
<1> DEFINE R == {ss \in Nat \X Nat : ss[1] < ss[2]}
<1>1. IsWellFoundedOn(R, Nat)
  BY NatLessThanWellFounded DEF OpToRel
<1>2. PICK x \in T : \A y \in T : ~(<<y, x>> \in R)
  <2> HIDE DEF R
  <2> QED BY <1>1, WFMin
<1>3. ASSUME NEW y \in T PROVE x <= y
  <2>1. x \in Nat /\ y \in Nat OBVIOUS
  <2>2. <<y, x>> \in Nat \X Nat BY <2>1
  <2>3. ~(y < x) BY <1>2, <2>2
  <2> QED BY <2>1, <2>3
<1> QED BY <1>3

(* The partial concatenations of a sequence of sequences exist.               *)
Joins(f, ss, n) == \A i \in 1..n : f[i] = IF i = 1 THEN ss[i] ELSE f[i - 1] \o ss[i]

LEMMA Partial ==
  ASSUME NEW T, NEW ss \in Seq(Seq(T)), NEW n \in 0..Len(ss)
  PROVE  \E f \in [1..n -> Seq(T)] : Joins(f, ss, n)
<1> DEFINE Bad == {m \in 0..Len(ss) : ~\E f \in [1..m -> Seq(T)] : Joins(f, ss, m)}
<1>1. SUFFICES Bad = {} OBVIOUS
<1>2. SUFFICES ASSUME Bad # {} PROVE FALSE OBVIOUS
<1>3. Bad \subseteq Nat OBVIOUS
<1>4. PICK b \in Bad : \A y \in Bad : b <= y
  <2> HIDE DEF Bad
  <2> QED BY <1>2, <1>3, Least
<1>5. b # 0
  <2> DEFINE none == [i \in 1..0 |-> <<>>]
  <2>1. none \in [1..0 -> Seq(T)] /\ Joins(none, ss, 0) BY DEF Joins
  <2>2. 0 \notin Bad BY <2>1
  <2> QED BY <2>2
<1>6. b \in 1..Len(ss) /\ b - 1 \in 0..Len(ss) BY <1>5
<1>7. b - 1 \notin Bad
  <2> HIDE DEF Bad
  <2> QED BY <1>3, <1>4
<1>8. PICK f \in [1..b - 1 -> Seq(T)] : Joins(f, ss, b - 1) BY <1>6, <1>7
<1> DEFINE g == [i \in 1..b |-> IF i < b THEN f[i] ELSE IF b = 1 THEN ss[b] ELSE f[b - 1] \o ss[b]]
<1>9. \A i \in 1..b : ss[i] \in Seq(T) BY <1>6
<1>10. g \in [1..b -> Seq(T)]
  <2>1. ASSUME NEW i \in 1..b PROVE g[i] \in Seq(T)
    <3>1. CASE i < b BY <3>1, <1>6
    <3>2. CASE i = b /\ b = 1 BY <3>2, <1>9, <1>6
    <3>3. CASE i = b /\ b # 1
      <4>1. b - 1 \in 1..b - 1 BY <3>3, <1>6
      <4>2. f[b - 1] \in Seq(T) /\ ss[b] \in Seq(T) BY <4>1, <1>9, <1>6
      <4>3. f[b - 1] \o ss[b] \in Seq(T) BY <4>2
      <4>4. ~(i < b) /\ ~(b = 1) BY <3>3, <1>6
      <4>5. g[i] = f[b - 1] \o ss[b] BY <4>4
      <4> QED BY <4>3, <4>5
    <3> QED BY <3>1, <3>2, <3>3, <1>6
  <2> QED BY <2>1
<1>11. Joins(g, ss, b)
  <2>1. ASSUME NEW i \in 1..b PROVE g[i] = IF i = 1 THEN ss[i] ELSE g[i - 1] \o ss[i]
    <3>1. CASE i < b
      <4>1. i \in 1..b - 1 BY <3>1, <1>6
      <4>2. f[i] = IF i = 1 THEN ss[i] ELSE f[i - 1] \o ss[i] BY <4>1, <1>8 DEF Joins
      <4>3. g[i] = f[i] BY <3>1
      <4>4. i # 1 => g[i - 1] = f[i - 1] BY <4>1, <1>6
      <4> QED BY <4>2, <4>3, <4>4
    <3>2. CASE i = b
      <4>1. i # 1 => g[i - 1] = f[i - 1] BY <3>2, <1>6
      <4> QED BY <3>2, <4>1, <1>6
    <3> QED BY <3>1, <3>2, <1>6
  <2> HIDE DEF g
  <2> QED BY <2>1 DEF Joins
<1> HIDE DEF g
<1>12. \E h \in [1..b -> Seq(T)] : Joins(h, ss, b) BY <1>10, <1>11
<1> QED BY <1>12

(* FlattenSeq of sequences over T is a sequence over T.                       *)
LEMMA Flattened ==
  ASSUME NEW T, NEW ss \in Seq(Seq(T))
  PROVE  FlattenSeq(ss) \in Seq(T)
<1> DEFINE n == Len(ss)
           flatten == CHOOSE f : f = [i \in 1..n |-> IF i = 1 THEN ss[i] ELSE f[i - 1] \o ss[i]]
<1>1. CASE n = 0
  <2>1. FlattenSeq(ss) = ss BY <1>1 DEF FlattenSeq
  <2>2. ss = <<>> BY <1>1, EmptySeq
  <2>3. <<>> \in Seq(T) OBVIOUS
  <2> QED BY <2>1, <2>2, <2>3
<1>2. CASE n # 0
  <2>1. FlattenSeq(ss) = flatten[n] BY <1>2 DEF FlattenSeq
  <2>2. n \in Nat /\ n \in 0..Len(ss) OBVIOUS
  <2>3. PICK f \in [1..n -> Seq(T)] : Joins(f, ss, n) BY <2>2, Partial
  <2>4. f = [i \in 1..n |-> IF i = 1 THEN ss[i] ELSE f[i - 1] \o ss[i]] BY <2>3 DEF Joins
  <2>5. flatten = [i \in 1..n |-> IF i = 1 THEN ss[i] ELSE flatten[i - 1] \o ss[i]] BY <2>4
  <2> HIDE DEF flatten
  <2>6. \A i \in 1..n : flatten[i] = IF i = 1 THEN ss[i] ELSE flatten[i - 1] \o ss[i] BY <2>5
  <2> DEFINE Odd == {i \in 1..n : flatten[i] \notin Seq(T)}
  <2>7. ASSUME Odd # {} PROVE FALSE
    <3>1. Odd \subseteq Nat BY <2>2
    <3>2. PICK b \in Odd : \A y \in Odd : b <= y
      <4> HIDE DEF Odd
      <4> QED BY <2>7, <3>1, Least
    <3>3. b \in 1..n /\ ss[b] \in Seq(T) BY <2>2
    <3>4. CASE b = 1 BY <3>4, <3>3, <2>6
    <3>5. CASE b # 1
      <4>1. b - 1 \in 1..n /\ b - 1 < b BY <3>5, <3>3, <2>2
      <4>2. b - 1 \notin Odd BY <4>1, <3>2, <3>3
      <4>3. flatten[b - 1] \in Seq(T) BY <4>1, <4>2
      <4>4. flatten[b - 1] \o ss[b] \in Seq(T) BY <4>3, <3>3
      <4> QED BY <4>4, <3>5, <3>3, <2>6
    <3> QED BY <3>4, <3>5
  <2>8. flatten[n] \in Seq(T) BY <2>7, <1>2, <2>2
  <2> QED BY <2>1, <2>8
<1> QED BY <1>1, <1>2

(* Climbing from 0, one at a time.                                          *)
LEMMA Climb ==
  ASSUME NEW n \in Nat, NEW S, 0 \in S, \A k \in 0..n - 1 : k \in S => k + 1 \in S
  PROVE  \A k \in 0..n : k \in S
<1> DEFINE Bad == {k \in 0..n : k \notin S}
<1>1. SUFFICES ASSUME Bad # {} PROVE FALSE OBVIOUS
<1>2. Bad \subseteq Nat OBVIOUS
<1>3. PICK b \in Bad : \A y \in Bad : b <= y
  <2> HIDE DEF Bad
  <2> QED BY <1>1, <1>2, Least
<1>4. b \in 0..n /\ b \notin S /\ b # 0 BY <1>3
<1>5. b - 1 \in 0..n - 1 /\ b - 1 + 1 = b /\ b - 1 < b /\ b - 1 \in 0..n BY <1>4
<1>6. b - 1 \notin Bad BY <1>2, <1>3, <1>5
<1>7. b - 1 \in S BY <1>5, <1>6
<1> QED BY <1>4, <1>5, <1>7

(* What FlattenSeq makes begins with its first part.                          *)
LEMMA FlattensFirst ==
  ASSUME NEW T, NEW ss \in Seq(Seq(T)), Len(ss) >= 1, NEW t, t \in Range(ss[1])
  PROVE  t \in Range(FlattenSeq(ss))
<1> DEFINE n == Len(ss)
           flatten == CHOOSE f : f = [i \in 1..n |-> IF i = 1 THEN ss[i] ELSE f[i - 1] \o ss[i]]
<1>1. n \in Nat /\ n # 0 /\ n \in 0..Len(ss) OBVIOUS
<1>2. FlattenSeq(ss) = flatten[n] BY <1>1 DEF FlattenSeq
<1>3. PICK f \in [1..n -> Seq(T)] : Joins(f, ss, n) BY <1>1, Partial
<1>4. f = [i \in 1..n |-> IF i = 1 THEN ss[i] ELSE f[i - 1] \o ss[i]] BY <1>3 DEF Joins
<1>5. flatten = [i \in 1..n |-> IF i = 1 THEN ss[i] ELSE flatten[i - 1] \o ss[i]] BY <1>4
<1> HIDE DEF flatten
<1>6. \A i \in 1..n : flatten[i] = IF i = 1 THEN ss[i] ELSE flatten[i - 1] \o ss[i] BY <1>5
<1> DEFINE S == {k \in 0..n - 1 : flatten[k + 1] \in Seq(T) /\ t \in Range(flatten[k + 1])}
<1>7. \A i \in 1..n : ss[i] \in Seq(T) OBVIOUS
<1>8. 0 \in S
  <2>1. 1 \in 1..n /\ 0 \in 0..n - 1 /\ 0 + 1 = 1 BY <1>1
  <2>2. flatten[1] = ss[1] BY <1>6, <2>1
  <2> QED BY <1>7, <2>1, <2>2
<1>9. ASSUME NEW k \in 0..n - 1 - 1, k \in S PROVE k + 1 \in S
  <2>1. k + 1 \in 1..n /\ k + 1 + 1 \in 1..n /\ k + 1 + 1 # 1 /\ k + 1 + 1 - 1 = k + 1 /\ k + 1 \in 0..n - 1 BY <1>1
  <2>6. PICK j \in 1..n : j = k + 1 + 1 BY <2>1
  <2>7. j # 1 /\ j - 1 = k + 1 BY <2>1, <2>6
  <2>8. flatten[j] = flatten[j - 1] \o ss[j] BY <1>6, <2>7
  <2>2. flatten[k + 1 + 1] = flatten[k + 1] \o ss[k + 1 + 1] BY <2>6, <2>7, <2>8
  <2>3. flatten[k + 1] \in Seq(T) /\ t \in Range(flatten[k + 1]) /\ ss[k + 1 + 1] \in Seq(T) BY <1>7, <1>9, <2>1
  <2>4. t \in Range(flatten[k + 1] \o ss[k + 1 + 1])
    <3> DEFINE a == flatten[k + 1]
               b == ss[k + 1 + 1]
    <3>1. a \in Seq(T) /\ b \in Seq(T) /\ t \in Range(a) BY <2>3
    <3> HIDE DEF a, b
    <3>2. PICK i \in 1..Len(a) : a[i] = t BY <3>1 DEF Range
    <3>3. (a \o b)[i] = t /\ i \in 1..Len(a \o b) /\ a \o b \in Seq(T) BY <3>1, <3>2
    <3> DEFINE c == a \o b
    <3>5. c \in Seq(T) /\ i \in 1..Len(c) /\ c[i] = t BY <3>3
    <3> HIDE DEF c
    <3>6. i \in DOMAIN c BY <3>5
    <3>7. t \in Range(c) BY <3>5, <3>6 DEF Range
    <3>4. t \in Range(a \o b) BY <3>7 DEF c
    <3> QED BY <3>4 DEF a, b
  <2>5. flatten[k + 1] \o ss[k + 1 + 1] \in Seq(T) BY <2>3
  <2> QED BY <2>1, <2>2, <2>4, <2>5
<1>10. n - 1 \in S
  <2>1. n - 1 \in Nat /\ n - 1 \in 0..n - 1 BY <1>1
  <2> HIDE DEF S, n
  <2> QED BY <1>8, <1>9, <2>1, Climb
<1>11. n - 1 + 1 = n BY <1>1
<1> QED BY <1>2, <1>10, <1>11

(* What is in a part of a concatenation is in it.                              *)
Within(a, b) ==
  /\ a \o b \in Seq(Tokens)
  /\ \A t \in Range(a) : t \in Range(a \o b)
  /\ \A t \in Range(b) : t \in Range(a \o b)

LEMMA WithinIs ==
  ASSUME NEW a \in Seq(Tokens), NEW b \in Seq(Tokens)
  PROVE  Within(a, b)
<1> DEFINE c == a \o b
<1>1. /\ c \in Seq(Tokens) /\ Len(c) = Len(a) + Len(b) /\ Len(a) \in Nat /\ Len(b) \in Nat
      /\ \A i \in 1..Len(a) : c[i] = a[i]
      /\ \A i \in 1..Len(b) : c[Len(a) + i] = b[i]
  OBVIOUS
<1> HIDE DEF c
<1>2. DOMAIN c = 1..Len(a) + Len(b) BY <1>1
<1>3. ASSUME NEW t, t \in Range(a) PROVE t \in Range(c)
  <2>1. PICK i \in 1..Len(a) : a[i] = t BY <1>3 DEF Range
  <2>2. i \in DOMAIN c /\ c[i] = t BY <1>1, <1>2, <2>1
  <2> QED BY <2>2 DEF Range
<1>4. ASSUME NEW t, t \in Range(b) PROVE t \in Range(c)
  <2>1. PICK i \in 1..Len(b) : b[i] = t BY <1>4 DEF Range
  <2>2. Len(a) + i \in DOMAIN c /\ c[Len(a) + i] = t BY <1>1, <1>2, <2>1
  <2> QED BY <2>2 DEF Range
<1> QED BY <1>1, <1>3, <1>4 DEF c, Within

Amid(a, b, c) == a \o b \o c \in Seq(Tokens) /\ \A t \in Range(b) : t \in Range(a \o b \o c)

LEMMA AmidIs ==
  ASSUME NEW a \in Seq(Tokens), NEW b \in Seq(Tokens), NEW c \in Seq(Tokens)
  PROVE  Amid(a, b, c)
<1> DEFINE d == a \o b
<1>1. Within(a, b) BY WithinIs
<1>2. d \in Seq(Tokens) /\ \A t \in Range(b) : t \in Range(d) BY <1>1 DEF Within
<1> HIDE DEF d
<1>3. Within(d, c) BY <1>2, WithinIs
<1>4. d \o c \in Seq(Tokens) /\ \A t \in Range(b) : t \in Range(d \o c) BY <1>2, <1>3 DEF Within
<1> QED BY <1>4 DEF d, Amid

(* What Min answers.                                                        *)
LEMMA Minimum ==
  ASSUME NEW S, S \subseteq Nat, S # {}
  PROVE  Min(S) \in S /\ \A y \in S : Min(S) <= y
BY Least DEF Min

-----------------------------------------------------------------------------
(* Conversations.                                                           *)

LEMMA MessageIs ==
  ASSUME NEW m \in Messages
  PROVE  m.role \in Roles /\ m.content \in Seq(Tokens)
BY DEF Messages, Heard, Plain, Kept, Roles

LEMMA NamedTokens ==
  /\ NoThought \in Tokens /\ EndOfTurn \in Tokens /\ <<"finish">> \in Tokens
  /\ \A role \in Roles : Opening(role) \in Tokens
  /\ \A n \in Nat : <<"length", n>> \in Tokens
BY DEF Tokens

LEMMA OneToken ==
  ASSUME NEW t \in Tokens PROVE <<t>> \in Seq(Tokens)
OBVIOUS

(* A rendering is a sequence of tokens.                                       *)
Parts(messages, upto) == [i \in 1..upto |-> Rendered(SubSeq(messages, 1, upto), i)]

LEMMA PartsAre ==
  ASSUME NEW messages \in Seq(Messages), NEW n \in 0..Len(messages)
  PROVE  /\ Parts(messages, n) \in Seq(Seq(Tokens)) /\ Len(Parts(messages, n)) = n
         /\ \A i \in 1..n : \A t \in Range(messages[i].content) : t \in Range(Parts(messages, n)[i])
<1> DEFINE shown == SubSeq(messages, 1, n)
           parts == [i \in 1..n |-> Rendered(shown, i)]
<1>1. n \in Nat /\ shown \in Seq(Messages) /\ Len(shown) = n /\ \A i \in 1..n : shown[i] = messages[i]
  BY SubSeqProperties
<1>2. ASSUME NEW i \in 1..n
      PROVE  Rendered(shown, i) \in Seq(Tokens) /\ \A t \in Range(messages[i].content) : t \in Range(Rendered(shown, i))
  <2>1. shown[i] \in Messages /\ shown[i] = messages[i] BY <1>1
  <2>2. shown[i].role \in Roles /\ shown[i].content \in Seq(Tokens) BY <2>1, MessageIs
  <2> DEFINE thought == IF template = "think_on_last" /\ shown[i].role = "assistant" /\ i = Len(shown)
                        THEN <<NoThought>> ELSE <<>>
             a == <<Opening(shown[i].role)>> \o thought
             b == shown[i].content
             c == <<EndOfTurn>>
  <2>3. thought \in Seq(Tokens) BY NamedTokens, OneToken
  <2>4. <<Opening(shown[i].role)>> \in Seq(Tokens) /\ c \in Seq(Tokens)
    BY <2>2, NamedTokens, OneToken
  <2>5. Rendered(shown, i) = a \o b \o c BY DEF Rendered
  <2>6. a \in Seq(Tokens)
    <3> HIDE DEF thought, shown
    <3> QED BY <2>3, <2>4
  <2>7. b \in Seq(Tokens) /\ b = messages[i].content BY <2>1, <2>2
  <2> HIDE DEF thought, shown, a, b, c
  <2>8. Amid(a, b, c) BY <2>4, <2>6, <2>7, AmidIs
  <2> QED BY <2>5, <2>7, <2>8 DEF Amid
<1>3. parts \in Seq(Seq(Tokens)) /\ Len(parts) = n /\ \A i \in 1..n : parts[i] = Rendered(shown, i) BY <1>1, <1>2
<1>4. Parts(messages, n) = parts BY DEF Parts
<1> HIDE DEF parts, shown
<1> QED BY <1>2, <1>3, <1>4

LEMMA RenderIs ==
  ASSUME NEW messages \in Seq(Messages), NEW n \in 0..Len(messages), NEW prompted \in BOOLEAN
  PROVE  /\ render(messages, n, prompted) \in Seq(Tokens)
         /\ n >= 1 => \A t \in Range(messages[1].content) : t \in Range(render(messages, n, prompted))
<1> DEFINE parts == Parts(messages, n)
           first == IF template = "rewriting" THEN << <<"length", n>> >> ELSE <<>>
           last  == IF ~prompted THEN <<>>
                    ELSE <<Opening("assistant")>> \o
                         (IF template \in {"think_in_prompt", "think_on_last"} THEN <<NoThought>> ELSE <<>>)
           flat  == FlattenSeq(parts)
<1>1. parts \in Seq(Seq(Tokens)) /\ Len(parts) = n BY PartsAre
<1>2. first \in Seq(Tokens) BY NamedTokens, OneToken
<1>3. last \in Seq(Tokens)
  <2>1. <<Opening("assistant")>> \in Seq(Tokens) /\ <<NoThought>> \in Seq(Tokens) BY NamedTokens, OneToken DEF Roles
  <2> QED BY <2>1
<1>4. render(messages, n, prompted) = first \o flat \o last BY DEF render, Parts
<1>5. ASSUME n >= 1, NEW t, t \in Range(messages[1].content) PROVE t \in Range(flat)
  <2>1. 1 \in 1..n BY <1>5
  <2>2. t \in Range(parts[1]) BY <1>5, <2>1, PartsAre
  <2> HIDE DEF parts
  <2> QED BY <1>1, <1>5, <2>2, FlattensFirst
<1> HIDE DEF parts, first, last
<1>6. flat \in Seq(Tokens) BY <1>1, Flattened
<1> HIDE DEF flat
<1>7. Amid(first, flat, last) BY <1>2, <1>3, <1>6, AmidIs
<1> QED BY <1>4, <1>5, <1>7 DEF Amid

(* The next turn's context is a sequence of tokens, so a window's room is an   *)
(* integer.                                                                  *)
LEMMA ContextIs ==
  ASSUME NEW messages \in Seq(Messages)
  PROVE  Context(messages) \in Seq(Tokens)
<1>1. Len(messages) \in 0..Len(messages) /\ TRUE \in BOOLEAN OBVIOUS
<1> QED BY <1>1, RenderIs DEF Context

(* The model is told its task: every context holds what the first message says. *)
LEMMA ContextTells ==
  ASSUME NEW messages \in Seq(Messages), Len(messages) >= 1, NEW t, t \in Range(messages[1].content)
  PROVE  t \in Range(Context(messages))
<1>1. Len(messages) \in 0..Len(messages) /\ TRUE \in BOOLEAN OBVIOUS
<1>2. \A s \in Range(messages[1].content) : s \in Range(render(messages, Len(messages), TRUE)) BY <1>1, RenderIs
<1> QED BY <1>2 DEF Context

(* A turn is a message of the model with the call it was given.               *)
IsTurn(m) == m \in Messages /\ m.role = "assistant" /\ m.call \in Calls

LEMMA TurnIs ==
  ASSUME NEW e \in Specs, NEW messages \in Seq(Messages), NEW content \in Seq(Tokens), NEW call \in Calls,
         NEW ids \in Seq(Tokens), NEW sampled \in BOOLEAN
  PROVE  IsTurn(E(e)!Turn(messages, content, call, ids, sampled))
<1> DEFINE m == E(e)!Turn(messages, content, call, ids, sampled)
<1>1. Context(messages) \in Seq(Tokens) BY ContextIs
<1>2. CASE generated
  <2>1. m = [role |-> "assistant", drawn |-> ids, content |-> content, call |-> call,
             prompt_ids |-> Context(messages), token_ids |-> ids, sampled |-> sampled]
    BY <1>2 DEF E!Turn
  <2>2. m \in Kept BY <1>1, <2>1 DEF Kept
  <2> QED BY <2>1, <2>2 DEF IsTurn, Messages
<1>3. CASE ~generated
  <2>1. m = [role |-> "assistant", drawn |-> ids, content |-> content, call |-> call]
    BY <1>3 DEF E!Turn
  <2>2. m \in Plain BY <2>1 DEF Plain
  <2> QED BY <2>1, <2>2 DEF IsTurn, Messages
<1> QED BY <1>2, <1>3

LEMMA FinishIs ==
  ASSUME NEW e \in Specs, NEW messages \in Seq(Messages)
  PROVE  IsTurn(E(e)!FinishTurn(messages))
<1>1. << <<"finish">> >> \in Seq(Tokens) BY NamedTokens, OneToken
<1>2. <<>> \in Seq(Tokens) /\ "episode.finish" \in Calls /\ FALSE \in BOOLEAN BY DEF Calls
<1>3. E(e)!FinishTurn(messages) = E(e)!Turn(messages, << <<"finish">> >>, "episode.finish", <<>>, FALSE)
  BY DEF E!FinishTurn
<1> QED BY <1>1, <1>2, <1>3, TurnIs

LEMMA SampledAre ==
  ASSUME NEW e \in Specs, NEW messages \in Seq(Messages), NEW cap \in Nat,
         NEW m \in E(e)!Sampled(messages, cap)
  PROVE  \E content \in Seq(Tokens), call \in Calls, ids \in Seq(Tokens) :
           m = E(e)!Turn(messages, content, call, ids, TRUE)
<1> DEFINE n     == Len(messages)
           full  == <<E(e)!Word(n, 1), E(e)!Word(n, 2), EndOfTurn>>
           ids   == SubSeq(full, 1, E(e)!Upto(cap, 3))
           words == SubSeq(full, 1, E(e)!Upto(cap, 2))
           whole == cap >= 2
<1>1. n \in Nat OBVIOUS
<1>2. \A i \in 0..2 : E(e)!Word(n, i) \in Tokens BY <1>1 DEF E!Word, Tokens
<1>3. \A i \in 1..3 : full[i] \in Tokens BY <1>2, NamedTokens
<1>4. E(e)!Upto(cap, 3) \in 0..3 /\ E(e)!Upto(cap, 2) \in 0..2 BY DEF E!Upto
<1>5. ids \in Seq(Tokens) /\ words \in Seq(Tokens)
  <2>1. \A k \in 0..3 : SubSeq(full, 1, k) \in Seq(Tokens)
    <3> HIDE DEF full
    <3> SUFFICES ASSUME NEW k \in 0..3 PROVE SubSeq(full, 1, k) \in Seq(Tokens) OBVIOUS
    <3>1. \A i \in 1..k : full[i] \in Tokens BY <1>3
    <3> QED BY <3>1, SubSeqProperties
  <2> QED BY <1>4, <2>1
<1>6. <<E(e)!Word(n, 0)>> \in Seq(Tokens) BY <1>2, OneToken
<1>7. PICK text \in TextsOf[e] :
        m = E(e)!Turn(messages, IF text = "odd" /\ whole THEN <<E(e)!Word(n, 0)>> ELSE words,
                      E(e)!parse_actions(text, whole), ids, TRUE)
  BY DEF E!Sampled
<1>8. E(e)!parse_actions(text, whole) \in Calls BY DEF E!parse_actions, Calls
<1>9. (IF text = "odd" /\ whole THEN <<E(e)!Word(n, 0)>> ELSE words) \in Seq(Tokens) BY <1>5, <1>6
<1> HIDE DEF ids, words, whole, n
<1> QED BY <1>5, <1>7, <1>8, <1>9

LEMMA SampledIs ==
  ASSUME NEW e \in Specs, NEW messages \in Seq(Messages), NEW cap \in Nat,
         NEW m \in E(e)!Sampled(messages, cap)
  PROVE  IsTurn(m)
<1>1. PICK content \in Seq(Tokens), call \in Calls, ids \in Seq(Tokens) :
        m = E(e)!Turn(messages, content, call, ids, TRUE)
  BY SampledAre
<1> QED BY <1>1, TurnIs

(* The turns that were taken.                                               *)
LEMMA SaidIs ==
  ASSUME NEW messages \in Seq(Messages)
  PROVE  Said(messages) \in Nat
<1>1. IsFiniteSet(1..Len(messages)) BY FS_Interval
<1>2. {i \in DOMAIN messages : messages[i].role = "assistant"} \subseteq 1..Len(messages) OBVIOUS
<1> QED BY <1>1, <1>2, FS_Subset, FS_CardinalityType DEF Said

LEMMA SaidMore ==
  ASSUME NEW messages \in Seq(Messages), NEW m \in Messages
  PROVE  Said(Append(messages, m)) = Said(messages) + (IF m.role = "assistant" THEN 1 ELSE 0)
<1> DEFINE n    == Len(messages)
           now  == Append(messages, m)
           old  == {i \in DOMAIN messages : messages[i].role = "assistant"}
           new  == {i \in DOMAIN now : now[i].role = "assistant"}
<1>1. n \in Nat /\ DOMAIN messages = 1..n OBVIOUS
<1>2. now \in Seq(Messages) /\ Len(now) = n + 1 /\ now[n + 1] = m /\ \A i \in 1..n : now[i] = messages[i]
  BY AppendProperties
<1>3. DOMAIN now = 1..n + 1 BY <1>2
<1>4. IsFiniteSet(old) /\ n + 1 \notin old
  <2>1. old \subseteq 1..n BY <1>1
  <2>2. IsFiniteSet(1..n) BY FS_Interval
  <2> QED BY <1>1, <2>1, <2>2, FS_Subset
<1>5. new = IF m.role = "assistant" THEN old \cup {n + 1} ELSE old
  <2>1. n + 1 \in DOMAIN now /\ ~(n + 1 \in 1..n) BY <1>1, <1>3
  <2>2. \A i \in DOMAIN now : i = n + 1 \/ i \in 1..n BY <1>1, <1>3
  <2>3. \A i \in 1..n : i \in new <=> i \in old BY <1>1, <1>2, <1>3
  <2>4. n + 1 \in new <=> m.role = "assistant" BY <1>2, <2>1
  <2>5. new \subseteq DOMAIN now /\ old \subseteq 1..n BY <1>1
  <2> HIDE DEF now, new, old
  <2>6. CASE m.role = "assistant" BY <2>1, <2>2, <2>3, <2>4, <2>5, <2>6
  <2>7. CASE m.role # "assistant"
    <3>1. \A i \in new : i \in old BY <2>2, <2>3, <2>4, <2>5, <2>7
    <3>2. \A i \in old : i \in new BY <2>3, <2>5
    <3>3. new = old BY <3>1, <3>2
    <3> QED BY <2>7, <3>3
  <2> QED BY <2>6, <2>7
<1>6. Cardinality(old \cup {n + 1}) = Cardinality(old) + 1
  <2> HIDE DEF old, n
  <2>1. Cardinality(old \cup {n + 1}) = IF n + 1 \in old THEN Cardinality(old) ELSE Cardinality(old) + 1
    BY <1>4, FS_AddElement
  <2> QED BY <1>4, <2>1
<1>7. Cardinality(old) \in Nat BY <1>4, FS_CardinalityType
<1>8. Said(now) = Cardinality(new) /\ Said(messages) = Cardinality(old) BY DEF Said
<1> HIDE DEF old, new
<1> QED BY <1>5, <1>6, <1>7, <1>8

-----------------------------------------------------------------------------
(* What each step makes of an episode.                                      *)

LEMMA Bounds ==
  /\ IsFiniteSet(Specs) /\ Specs # {} /\ Cardinality(Specs) \in Nat /\ Specs = 1..Cardinality(Specs)
  /\ concurrency \in Nat \ {0} /\ max_turns \in Nat /\ 2 * max_turns \in Nat
  /\ max_turn_tokens \in Nat \ {0} /\ window \in Nat /\ Results \subseteq Nat
<1>1. IsFiniteSet(Specs) /\ Specs # {} /\ Specs = 1..Cardinality(Specs)
  BY BatchAssumption
<1>2. Cardinality(Specs) \in Nat BY <1>1, FS_CardinalityType
<1>3. concurrency \in Nat \ {0} /\ max_turns \in Nat /\ max_turn_tokens \in Nat \ {0} /\ window \in Nat /\ Results \subseteq Nat
  BY BatchAssumption
<1>4. 2 * max_turns \in Nat BY <1>3
<1> QED BY <1>1, <1>2, <1>3, <1>4

LEMMA NotStartedIs ==
  ASSUME NEW e \in Specs
  PROVE  EpisodeInv(E(e)!NotStarted) /\ ~E(e)!NotStarted.started
<1> DEFINE s == E(e)!NotStarted
<1>1. s = [started |-> FALSE, messages |-> <<>>, call |-> "none", reply |-> <<>>,
           env |-> [won |-> FALSE, over |-> FALSE], done |-> FALSE, reward |-> 0]
  BY DEF E!NotStarted, E!Idle
<1>2. s \in States BY <1>1 DEF States
<1>3. Len(s.messages) = 0 /\ 2 * max_turns >= 0 BY <1>1, Bounds
<1>4. ~s.started /\ s.messages = <<>> /\ s.call = "none" /\ s.reply = <<>> BY <1>1
<1>5. Fits(s, max_turns) BY <1>3, <1>4, Bounds DEF Fits
<1> HIDE DEF s
<1>6. EpisodeInv(s) /\ ~s.started BY <1>2, <1>4, <1>5 DEF EpisodeInv
<1> QED BY <1>6 DEF s

LEMMA StartedIs ==
  ASSUME NEW e \in Specs, NEW isDone \in BOOLEAN, NEW s, s = E(e)!started(isDone)
  PROVE  EpisodeInv(s) /\ s.started /\ Fits(s, 0) /\ Said(s.messages) = 0
<1> DEFINE told == [role |-> "user", content |-> << <<"task", TaskOf[e]>> >>]
<1>1. s = [started |-> TRUE, messages |-> <<told>>, call |-> "none", reply |-> <<>>,
           env |-> [won |-> FALSE, over |-> isDone], done |-> isDone, reward |-> 0]
  BY DEF E!started, E!NotStarted, E!Idle
<1>2. <<"task", TaskOf[e]>> \in Tokens BY DEF Tokens
<1>3. told \in Messages BY <1>2, OneToken DEF Messages, Heard
<1>4. told.role # "assistant" OBVIOUS
<1> HIDE DEF told
<1>5. <<told>> \in Seq(Messages) /\ Len(<<told>>) = 1 BY <1>3
<1>6. s \in States BY <1>1, <1>5 DEF States
<1>7. Said(<<told>>) = 0
  <2>1. {i \in DOMAIN <<told>> : <<told>>[i].role = "assistant"} = {} BY <1>4
  <2> QED BY <2>1, FS_EmptySet DEF Said
<1>8. Len(s.messages) = 1 /\ s.messages = <<told>> BY <1>1, <1>5
<1> QED BY <1>1, <1>6, <1>7, <1>8, Bounds DEF EpisodeInv, Fits

LEMMA BegunIs ==
  ASSUME NEW e \in Specs, NEW state, EpisodeInv(state), state.started, state.call = "none",
         NEW t \in Nat, t < max_turns, Fits(state, t), Said(state.messages) <= t,
         NEW m, IsTurn(m), NEW s, s = E(e)!begun(state, m)
  PROVE  EpisodeInv(s) /\ s.started /\ Fits(s, t + 1) /\ Said(s.messages) <= t + 1
<1>1. state \in States BY DEF EpisodeInv
<1>2. m \in Messages /\ m.role = "assistant" /\ m.call \in Calls BY DEF IsTurn
<1> DEFINE now == Append(state.messages, m)
<1>3. s = [state EXCEPT !.messages = now, !.call = m.call] BY DEF E!begun
<1>4. state.messages \in Seq(Messages) BY <1>1 DEF States
<1>5. now \in Seq(Messages) /\ Len(now) = Len(state.messages) + 1 BY <1>2, <1>4
<1>6. Said(now) = Said(state.messages) + 1 /\ Said(state.messages) \in Nat
  BY <1>2, <1>4, SaidMore, SaidIs
<1> HIDE DEF now
<1>7. s \in States /\ s.messages = now /\ s.call = m.call /\ s.started BY <1>1, <1>2, <1>3, <1>5 DEF States
<1>8. m.call # "none" BY <1>2 DEF Calls
<1>9. Len(state.messages) <= 2 * t + 1 /\ Len(state.messages) \in Nat BY <1>4 DEF Fits
<1>10. Len(s.messages) <= 2 * (t + 1) /\ Len(s.messages) >= 1 BY <1>5, <1>7, <1>9
<1>11. 2 * (t + 1) <= 2 * max_turns BY Bounds
<1>12. Len(s.messages) <= 2 * max_turns
  <2>1. Len(s.messages) \in Int BY <1>5, <1>7
  <2>2. 2 * max_turns \in Int /\ 2 * (t + 1) \in Int BY Bounds
  <2> QED BY <1>10, <1>11, <2>1, <2>2
<1>13. Fits(s, t + 1) /\ Fits(s, max_turns) BY <1>7, <1>8, <1>10, <1>12, Bounds DEF Fits
<1>14. EpisodeInv(s) BY <1>7, <1>8, <1>10, <1>13 DEF EpisodeInv
<1>15. Said(s.messages) <= t + 1 BY <1>6, <1>7
<1> QED BY <1>7, <1>13, <1>14, <1>15

(* An answer changes neither the conversation nor the call it answers.         *)
LEMMA ServedIs ==
  ASSUME NEW e \in Specs, NEW state, EpisodeInv(state), state.call # "none",
         NEW r \in E(e)!Answers(state.call), NEW s, s = E(e)!served(state, r)
  PROVE  EpisodeInv(s) /\ s.started = state.started /\ s.messages = state.messages /\ s.call = state.call
<1>1. state \in States BY DEF EpisodeInv
<1>2. r \in Replies BY DEF E!Answers, Replies
<1> DEFINE found == [won |-> r.won, over |-> r.over]
<1>3. found \in [won : BOOLEAN, over : BOOLEAN] BY <1>2 DEF Replies
<1>4. s = [state EXCEPT !.env = found, !.reply = <<r>>] BY DEF E!served
<1> HIDE DEF found
<1>5. s \in States /\ s.started = state.started /\ s.messages = state.messages /\ s.call = state.call
  BY <1>1, <1>2, <1>3, <1>4 DEF States
<1> QED BY <1>5 DEF EpisodeInv, Fits

(* Folding an answer in leaves room for it and takes no turn.                  *)
LEMMA FoldedIs ==
  ASSUME NEW e \in Specs, NEW state, EpisodeInv(state), state.reply # <<>>,
         NEW s, s = E(e)!folded(state)
  PROVE  /\ EpisodeInv(s) /\ s.started = state.started
         /\ \A t \in Nat : Fits(state, t) => Fits(s, t)
         /\ Said(s.messages) = Said(state.messages)
<1>1. state \in States /\ state.call # "none" BY DEF EpisodeInv
<1>2. PICK r \in Replies : state.reply = <<r>> BY <1>1 DEF States
<1>3. state.reply[1] = r BY <1>2
<1>4. state.messages \in Seq(Messages) /\ Len(state.messages) \in Nat /\ state.started
  BY <1>1 DEF States, EpisodeInv
<1> DEFINE text == [i \in 1..r.size |-> <<"result", e, Len(state.messages), i>>]
           said == [role |-> "tool", content |-> text]
           now  == IF r.over THEN state.messages ELSE Append(state.messages, said)
           pays == IF r.won THEN 1 ELSE 0
<1>5. r.size \in Nat /\ r.over \in BOOLEAN
  <2>1. r \in Replies BY <1>2
  <2> HIDE DEF text, said, now, pays
  <2>2. r.size \in Results \cup {0} /\ r.over \in BOOLEAN BY <2>1 DEF Replies
  <2>3. Results \cup {0} \subseteq Nat BY Bounds
  <2> QED BY <2>2, <2>3
<1>6. said \in Messages /\ said.role = "tool"
  <2>1. \A i \in 1..r.size : <<"result", e, Len(state.messages), i>> \in Tokens BY <1>4, <1>5 DEF Tokens
  <2>2. text \in Seq(Tokens) BY <1>5, <2>1
  <2> HIDE DEF text
  <2> QED BY <2>2 DEF Messages, Heard
<1>7. s = [state EXCEPT !.call = "none", !.reply = <<>>, !.done = r.over, !.reward = pays, !.messages = now]
  BY <1>3 DEF E!folded, E!Idle
<1>8. pays \in {0, 1} OBVIOUS
<1> HIDE DEF said
<1>9. now \in Seq(Messages) /\ Len(now) <= Len(state.messages) + 1 /\ Len(now) >= Len(state.messages)
  BY <1>4, <1>5, <1>6
<1>10. Said(now) = Said(state.messages)
  <2>1. Said(Append(state.messages, said)) = Said(state.messages) + 0 BY <1>4, <1>6, SaidMore
  <2>2. Said(state.messages) \in Nat BY <1>4, SaidIs
  <2> QED BY <2>1, <2>2
<1> HIDE DEF now, pays
<1>11. s \in States /\ s.started = state.started /\ s.messages = now /\ s.call = "none" /\ s.reply = <<>>
  BY <1>1, <1>5, <1>7, <1>8, <1>9 DEF States
<1>12. ASSUME NEW t \in Nat, Fits(state, t) PROVE Fits(s, t)
  BY <1>1, <1>4, <1>9, <1>11, <1>12 DEF Fits
<1>13. Fits(s, max_turns)
  <2>1. Fits(state, max_turns) /\ max_turns \in Nat BY Bounds DEF EpisodeInv
  <2> QED BY <1>12, <2>1
<1>14. Len(s.messages) >= 1 BY <1>4, <1>9, <1>11 DEF EpisodeInv
<1>15. EpisodeInv(s) BY <1>4, <1>11, <1>13, <1>14 DEF EpisodeInv
<1> QED BY <1>10, <1>11, <1>12, <1>15

-----------------------------------------------------------------------------
(* The steps of the driver keep the invariant.                               *)

LEMMA Holds ==
  ASSUME IInv, NEW e \in Specs
  PROVE  eps[e] \in States /\ EpisodeInv(eps[e]) /\ link[e] \in {"none", "open", "closed"} /\ e \in Int
<1>1. e \in Int BY Bounds
<1> QED BY <1>1 DEF IInv, EpisodesInv, ControlInv

LEMMA OpensKeep ==
  ASSUME IInv, OpenClient
  PROVE  IInv'
<1>1. PICK e \in NextToOpen, isDone \in BOOLEAN :
        link' = [link EXCEPT ![e] = "open"] /\ eps' = [eps EXCEPT ![e] = E(e)!started(isDone)]
  BY DEF OpenClient
<1>2. phase = "opening" /\ phase' = phase /\ start' = start /\ tick' = tick /\ outs' = outs BY DEF OpenClient
<1>3. e \in Specs /\ e \in Wave /\ link[e] = "none" /\ e <= start + concurrency BY DEF NextToOpen, Wave
<1> DEFINE s == E(e)!started(isDone)
<1>4. EpisodeInv(s) /\ s.started /\ Fits(s, 0) /\ Said(s.messages) = 0 BY <1>3, StartedIs
<1>5. eps' = [eps EXCEPT ![e] = s] BY <1>1
<1> HIDE DEF s
<1>6. tick = 0 BY <1>2 DEF IInv, ControlInv
<1>7. link \in [Specs -> {"none", "open", "closed"}] /\ eps \in [Specs -> States] BY DEF IInv, ControlInv, EpisodesInv
<1>8. ControlInv' BY <1>1, <1>2, <1>7 DEF IInv, ControlInv
<1>9. EpisodesInv'
  <2>1. s \in States BY <1>4 DEF EpisodeInv
  <2> QED BY <1>3, <1>4, <1>5, <1>7, <2>1 DEF IInv, EpisodesInv
<1>10. \A d \in Specs : d # e => link'[d] = link[d] /\ eps'[d] = eps[d] BY <1>1, <1>7
<1>11. link'[e] = "open" /\ eps'[e] = s BY <1>1, <1>3, <1>5, <1>7
<1>12. LinkInv'
  <2>1. ASSUME NEW d \in Specs, link'[d] = "none" PROVE eps'[d] = E(d)!NotStarted
    BY <1>10, <1>11, <2>1 DEF IInv, LinkInv
  <2>2. ASSUME NEW d \in Specs, d > start + concurrency PROVE link'[d] = "none"
    <3>1. d # e
      <4>1. d \in Int /\ e \in Int /\ start + concurrency \in Int
        BY <1>3, Holds, Bounds DEF IInv, ControlInv
      <4> QED BY <1>3, <2>2, <4>1
    <3> QED BY <1>2, <1>10, <2>2, <3>1 DEF IInv, LinkInv
  <2> QED BY <1>2, <2>1, <2>2 DEF LinkInv
<1>13. WaveInv'
  <2>1. ASSUME NEW d \in Wave, link'[d] # "none"
        PROVE  eps'[d].started /\ Fits(eps'[d], tick) /\ Said(eps'[d].messages) <= tick
    <3>1. CASE d = e BY <1>4, <1>6, <1>11, <3>1
    <3>2. CASE d # e
      <4>1. d \in Specs BY DEF Wave
      <4> QED BY <1>2, <1>10, <2>1, <3>2, <4>1 DEF IInv, WaveInv
    <3> QED BY <3>1, <3>2
  <2>2. Wave' = Wave BY <1>2 DEF Wave
  <2> QED BY <1>2, <2>1, <2>2 DEF WaveInv
<1> QED BY <1>8, <1>9, <1>12, <1>13 DEF IInv

(* Steps of the driver that touch no episode.                                *)
LEMMA OpenFailsKeeps ==
  ASSUME IInv, OpenFails
  PROVE  IInv'
<1>1. PICK e \in NextToOpen, connected \in BOOLEAN :
        link' = IF connected THEN [link EXCEPT ![e] = "open"] ELSE link
  BY DEF OpenFails
<1>2. phase' = "unwinding" /\ start' = start /\ tick' = tick /\ eps' = eps /\ outs' = outs /\ phase = "opening"
  BY DEF OpenFails
<1>3. e \in Specs BY DEF NextToOpen, Wave
<1>4. link \in [Specs -> {"none", "open", "closed"}] BY DEF IInv, ControlInv
<1>5. link' \in [Specs -> {"none", "open", "closed"}] /\ \A d \in Specs : link'[d] = "none" => link[d] = "none"
  BY <1>1, <1>3, <1>4
<1>6. ControlInv' BY <1>2, <1>5 DEF IInv, ControlInv, Phases
<1>7. EpisodesInv' BY <1>2 DEF IInv, EpisodesInv
<1>8. LinkInv' BY <1>2, <1>5 DEF IInv, LinkInv
<1>9. WaveInv' BY <1>2 DEF WaveInv
<1> QED BY <1>6, <1>7, <1>8, <1>9 DEF IInv

(* Everybody is open when nobody is next.                                   *)
LEMMA AllOpenKeeps ==
  ASSUME IInv, AllOpen
  PROVE  IInv'
<1>1. phase = "opening" /\ NextToOpen = {} /\ phase' = "ticking" /\ start' = start /\ tick' = tick /\ eps' = eps
      /\ link' = link /\ outs' = outs
  BY DEF AllOpen
<1>2. ControlInv' BY <1>1 DEF IInv, ControlInv, Phases
<1>3. EpisodesInv' BY <1>1 DEF IInv, EpisodesInv
<1>4. \A e \in Wave : link[e] # "none"
  <2> DEFINE left == {e \in Wave : link[e] = "none"}
  <2>1. SUFFICES ASSUME left # {} PROVE FALSE OBVIOUS
  <2>2. left \subseteq Nat BY Bounds DEF Wave
  <2>3. PICK x \in left : \A y \in left : x <= y
    <3> HIDE DEF left
    <3> QED BY <2>1, <2>2, Least
  <2>4. \A d \in Wave : d < x => link[d] # "none"
    <3> SUFFICES ASSUME NEW d \in Wave, d < x, link[d] = "none" PROVE FALSE OBVIOUS
    <3>1. d \in left /\ x <= d BY <2>3
    <3>2. d \in Nat /\ x \in Nat BY <2>2, <2>3, <3>1
    <3> QED BY <3>1, <3>2
  <2>5. x \in NextToOpen BY <2>3, <2>4 DEF NextToOpen
  <2> QED BY <1>1, <2>5
<1>5. Wave' = Wave BY <1>1 DEF Wave
<1>6. LinkInv' BY <1>1, <1>4, <1>5 DEF IInv, LinkInv
<1>7. WaveInv' BY <1>1, <1>5 DEF IInv, WaveInv
<1> QED BY <1>2, <1>3, <1>6, <1>7 DEF IInv

LEMMA LeavesTicking ==
  ASSUME IInv, phase = "ticking", phase' \in {"closing", "unwinding"}, UNCHANGED <<start, tick, eps, link, outs>>
  PROVE  IInv'
<1>1. start' = start /\ tick' = tick /\ eps' = eps /\ link' = link /\ outs' = outs OBVIOUS
<1>2. ControlInv' BY <1>1 DEF IInv, ControlInv, Phases
<1>3. EpisodesInv' BY <1>1 DEF IInv, EpisodesInv
<1>4. LinkInv' BY <1>1 DEF IInv, LinkInv
<1>5. WaveInv' BY DEF WaveInv
<1> QED BY <1>2, <1>3, <1>4, <1>5 DEF IInv

LEMMA CloseKeeps ==
  ASSUME IInv, CloseLast
  PROVE  IInv'
<1>1. PICK e \in Open : link' = [link EXCEPT ![e] = "closed"] BY DEF CloseLast
<1>2. phase \in {"closing", "unwinding"} /\ phase' = phase /\ start' = start /\ tick' = tick /\ eps' = eps /\ outs' = outs
  BY DEF CloseLast
<1>3. e \in Specs /\ link[e] = "open" BY DEF Open
<1>4. link \in [Specs -> {"none", "open", "closed"}] BY DEF IInv, ControlInv
<1>5. /\ link' \in [Specs -> {"none", "open", "closed"}]
      /\ \A d \in Specs : (link'[d] = "none") <=> (link[d] = "none")
  BY <1>1, <1>3, <1>4
<1>6. ControlInv' BY <1>2, <1>5 DEF IInv, ControlInv
<1>7. EpisodesInv' BY <1>2 DEF IInv, EpisodesInv
<1>8. LinkInv' BY <1>2, <1>5 DEF IInv, LinkInv
<1>9. WaveInv' BY <1>2 DEF WaveInv
<1> QED BY <1>6, <1>7, <1>8, <1>9 DEF IInv

(* The episodes of the next wave have not been touched.                      *)
LEMMA NextWaveKeeps ==
  ASSUME IInv, NextWave
  PROVE  IInv'
<1>1. phase = "closing" /\ start' = start + concurrency /\ tick' = 0 /\ eps' = eps /\ link' = link /\ outs' = outs
      /\ phase' = IF start' < Cardinality(Specs) THEN "opening" ELSE "assembling"
  BY DEF NextWave
<1>2. start \in Nat /\ start < Cardinality(Specs) BY <1>1 DEF IInv, ControlInv
<1>3. start' \in Nat /\ start' <= Cardinality(Specs) + concurrency BY <1>1, <1>2, Bounds
<1>4. ControlInv'
  <2>1. phase' \in Phases /\ (phase' \in {"opening", "ticking", "closing"} => start' < Cardinality(Specs))
        /\ phase' # "returned" BY <1>1 DEF Phases
  <2>2. tick' \in 0..max_turns BY <1>1, Bounds
  <2>3. (outs' # <<>>) = (phase' = "returned") BY <1>1, <2>1 DEF IInv, ControlInv
  <2>4. link' \in [Specs -> {"none", "open", "closed"}] BY <1>1 DEF IInv, ControlInv
  <2> QED BY <1>1, <1>3, <2>1, <2>2, <2>3, <2>4 DEF ControlInv
<1>5. EpisodesInv' BY <1>1 DEF IInv, EpisodesInv
<1>6. \A e \in Specs : e > start' => link[e] = "none" BY <1>1 DEF IInv, LinkInv
<1>7. LinkInv'
  <2>1. \A e \in Specs : e > start' + concurrency => e > start'
    BY <1>3, Bounds
  <2>2. \A e \in Specs : link'[e] = "none" => eps'[e] = E(e)!NotStarted BY <1>1 DEF IInv, LinkInv
  <2>3. \A e \in Specs : e > start' + concurrency => link'[e] = "none" BY <1>1, <1>6, <2>1
  <2> QED BY <1>1, <2>2, <2>3 DEF LinkInv
<1>8. WaveInv'
  <2>1. ASSUME NEW e \in Specs, start' < e PROVE link'[e] = "none"
    <3>1. e \in Int /\ start' \in Int BY <1>3, Holds
    <3> QED BY <1>1, <1>6, <2>1, <3>1
  <2>2. \A e \in Wave' : link'[e] = "none" BY <2>1 DEF Wave
  <2> QED BY <2>2 DEF WaveInv
<1> QED BY <1>4, <1>5, <1>7, <1>8 DEF IInv

LEMMA UnwoundKeeps ==
  ASSUME IInv, Unwound
  PROVE  IInv'
<1>1. phase = "unwinding" /\ phase' = "raised" /\ start' = start /\ tick' = tick /\ eps' = eps /\ link' = link
      /\ outs' = outs
  BY DEF Unwound
<1>2. ControlInv' BY <1>1 DEF IInv, ControlInv, Phases
<1>3. EpisodesInv' BY <1>1 DEF IInv, EpisodesInv
<1>4. LinkInv' BY <1>1 DEF IInv, LinkInv
<1>5. WaveInv' BY <1>1 DEF WaveInv
<1> QED BY <1>2, <1>3, <1>4, <1>5 DEF IInv

LEMMA AssembleKeeps ==
  ASSUME IInv, Assemble
  PROVE  IInv'
<1>1. phase = "assembling" /\ start' = start /\ tick' = tick /\ eps' = eps /\ link' = link BY DEF Assemble
<1>2. \/ phase' = "returned" /\ outs' = [e \in Specs |-> Example(e)]
      \/ phase' = "raised" /\ outs' = outs
  BY DEF Assemble
<1>3. phase' \in {"returned", "raised"} /\ (outs' # <<>>) = (phase' = "returned")
  <2>1. CASE phase' = "returned" /\ outs' = [e \in Specs |-> Example(e)]
    <3>1. DOMAIN outs' = Specs BY <2>1
    <3>2. DOMAIN <<>> = {} OBVIOUS
    <3>3. outs' # <<>> BY <3>1, <3>2, Bounds
    <3> QED BY <2>1, <3>3
  <2>2. CASE phase' = "raised" /\ outs' = outs BY <1>1, <2>2 DEF IInv, ControlInv
  <2> QED BY <1>2, <2>1, <2>2
<1>4. ControlInv' BY <1>1, <1>3 DEF IInv, ControlInv, Phases
<1>5. EpisodesInv' BY <1>1 DEF IInv, EpisodesInv
<1>6. LinkInv' BY <1>1, <1>3 DEF IInv, LinkInv
<1>7. WaveInv' BY <1>3 DEF WaveInv
<1> QED BY <1>4, <1>5, <1>6, <1>7 DEF IInv

(* What a tick of a wave finds: its episodes have started, none has a call     *)
(* under way, and each has a turn left.                                      *)
LEMMA ActiveIs ==
  ASSUME IInv, phase = "ticking", Busy = {}, ~LastTick, NEW e \in Active
  PROVE  /\ e \in Specs /\ e \in Wave /\ EpisodeInv(eps[e]) /\ eps[e].started /\ eps[e].call = "none" /\ ~eps[e].done
         /\ eps[e].messages \in Seq(Messages) /\ Fits(eps[e], tick) /\ Said(eps[e].messages) <= tick
         /\ tick \in Nat /\ tick < max_turns
<1>1. e \in Wave /\ e \in Specs /\ ~eps[e].done BY DEF Active, Wave
<1>2. EpisodeInv(eps[e]) /\ eps[e] \in States BY <1>1, Holds
<1>3. link[e] # "none" BY <1>1 DEF IInv, LinkInv
<1>4. eps[e].started /\ Fits(eps[e], tick) /\ Said(eps[e].messages) <= tick BY <1>1, <1>3 DEF IInv, WaveInv
<1>5. eps[e].call = "none" BY <1>1 DEF Busy
<1>6. eps[e].messages \in Seq(Messages) BY <1>2 DEF States
<1>7. tick \in 0..max_turns /\ tick # max_turns BY DEF IInv, ControlInv, LastTick
<1>8. tick \in Nat /\ tick < max_turns BY <1>7, Bounds
<1> QED BY <1>1, <1>2, <1>4, <1>5, <1>6, <1>8

(* The room of a conversation is a number, and what a request may sample is at *)
(* least one token, at most a turn's, and fits it.                            *)
LEMMA CapFits ==
  ASSUME IInv, phase = "ticking", Busy = {}, ~LastTick, NEW e \in Active
  PROVE  /\ Room[e] = E(e)!Room(eps[e].messages) /\ Room[e] \in Int
         /\ e \in Slots => Cap(e) \in 1..max_turn_tokens /\ Cap(e) <= Room[e]
<1>1. ASSUME NEW d \in Active PROVE Room[d] = E(d)!Room(eps[d].messages) /\ Room[d] \in Int
  <2>1. d \in Specs /\ eps[d].messages \in Seq(Messages) BY ActiveIs
  <2>2. Room[d] = E(d)!Room(eps[d].messages) BY <2>1 DEF Room
  <2>3. E(d)!Room(eps[d].messages) = window - Len(Context(eps[d].messages)) BY DEF E!Room
  <2>4. Context(eps[d].messages) \in Seq(Tokens) BY <2>1, ContextIs
  <2>5. Len(Context(eps[d].messages)) \in Nat BY <2>4
  <2> QED BY <2>2, <2>3, <2>5, Bounds
<1>2. \A d \in Slots : Room[d] \in Int /\ Room[d] > 0 BY <1>1 DEF Slots
<1>3. ASSUME e \in Slots PROVE Cap(e) \in 1..max_turn_tokens /\ Cap(e) <= Room[e]
  <2>1. CASE generated
    <3> DEFINE rooms == {max_turn_tokens} \cup {Room[d] : d \in Slots}
    <3>1. rooms \subseteq Nat \ {0} BY <1>2, Bounds
    <3>2. rooms \subseteq Nat /\ max_turn_tokens \in rooms BY <3>1
    <3>3. Cap(e) = Min(rooms) BY <2>1 DEF Cap
    <3>4. Room[e] \in rooms BY <1>3
    <3> HIDE DEF rooms
    <3>5. Cap(e) \in rooms /\ \A y \in rooms : Cap(e) <= y BY <3>2, <3>3, Minimum
    <3>6. Cap(e) \in Nat \ {0} /\ Cap(e) <= max_turn_tokens BY <3>1, <3>2, <3>5
    <3> QED BY <3>4, <3>5, <3>6, Bounds
  <2>2. CASE ~generated
    <3>1. Cap(e) = IF Room[e] < max_turn_tokens THEN Room[e] ELSE max_turn_tokens BY <2>2 DEF Cap, E!Upto
    <3> QED BY <1>2, <1>3, <3>1, Bounds
  <2> QED BY <2>1, <2>2
<1> QED BY <1>1, <1>3

(* What a tick does to an episode is a turn of its own: the one inserted when  *)
(* its window is full, or one sampled within its own room.                    *)
Deals(e, m) ==
  \/ E(e)!Room(eps[e].messages) <= 0 /\ m = E(e)!FinishTurn(eps[e].messages)
  \/ \E cap \in 1..max_turn_tokens : cap <= E(e)!Room(eps[e].messages) /\ m \in E(e)!Sampled(eps[e].messages, cap)

LEMMA Advances ==
  ASSUME IInv, Advance, NEW e \in Specs
  PROVE  IF e \in Active THEN \E m : IsTurn(m) /\ Deals(e, m) /\ eps'[e] = E(e)!begun(eps[e], m)
         ELSE eps'[e] = eps[e]
<1>1. phase = "ticking" /\ Busy = {} /\ ~LastTick BY DEF Advance
<1>2. PICK texts \in BatchGenerate :
        eps' = [d \in Specs |-> IF d \in Active THEN E(d)!begun(eps[d], Zipped(texts, Place(d))) ELSE eps[d]]
  BY DEF Advance
<1>3. CASE e \notin Active BY <1>2, <1>3
<1>4. CASE e \in Active
  <2> DEFINE m == texts[Place(e)]
  <2>1. eps'[e] = E(e)!begun(eps[e], m) BY <1>2, <1>4 DEF Zipped
  <2>2. m \in MaySay[e] BY <1>2, <1>4 DEF BatchGenerate
  <2>3. MaySay[e] = IF e \in Slots THEN E(e)!Sampled(eps[e].messages, Cap(e)) ELSE {E(e)!FinishTurn(eps[e].messages)}
    BY <1>4 DEF MaySay
  <2>4. eps[e].messages \in Seq(Messages) BY <1>1, <1>4, ActiveIs
  <2>5. Room[e] = E(e)!Room(eps[e].messages) /\ Room[e] \in Int BY <1>1, <1>4, CapFits
  <2>6. e \in Slots => Cap(e) \in 1..max_turn_tokens /\ Cap(e) <= Room[e] BY <1>1, <1>4, CapFits
  <2> HIDE DEF m
  <2>7. CASE e \in Slots
    <3>1. m \in E(e)!Sampled(eps[e].messages, Cap(e)) BY <2>2, <2>3, <2>7
    <3>2. Cap(e) \in Nat BY <2>6, <2>7, Bounds
    <3>3. IsTurn(m) BY <2>4, <3>1, <3>2, SampledIs
    <3>4. Deals(e, m) BY <2>5, <2>6, <2>7, <3>1 DEF Deals
    <3> QED BY <1>4, <2>1, <3>3, <3>4
  <2>8. CASE e \notin Slots
    <3>1. m = E(e)!FinishTurn(eps[e].messages) BY <2>2, <2>3, <2>8
    <3>2. Room[e] <= 0 BY <1>4, <2>5, <2>8 DEF Slots
    <3>3. IsTurn(m) BY <2>4, <3>1, FinishIs
    <3>4. Deals(e, m) BY <2>5, <3>1, <3>2 DEF Deals
    <3> QED BY <1>4, <2>1, <3>3, <3>4
  <2> QED BY <2>7, <2>8
<1> QED BY <1>3, <1>4

LEMMA AdvanceKeeps ==
  ASSUME IInv, Advance
  PROVE  IInv'
<1>1. phase = "ticking" /\ Busy = {} /\ ~LastTick /\ tick' = tick + 1 /\ phase' = phase /\ start' = start
      /\ link' = link /\ outs' = outs
  BY DEF Advance
<1>2. tick \in 0..max_turns /\ tick # max_turns BY <1>1 DEF IInv, ControlInv, LastTick
<1>3. tick \in Nat /\ tick < max_turns /\ tick' \in 0..max_turns BY <1>1, <1>2, Bounds
<1>4. ControlInv' BY <1>1, <1>3 DEF IInv, ControlInv
<1>5. ASSUME NEW e \in Active
      PROVE  EpisodeInv(eps'[e]) /\ eps'[e].started /\ Fits(eps'[e], tick + 1) /\ Said(eps'[e].messages) <= tick + 1
  <2>1. e \in Specs BY DEF Active, Wave
  <2>2. PICK m : IsTurn(m) /\ eps'[e] = E(e)!begun(eps[e], m) BY <2>1, Advances
  <2>3. EpisodeInv(eps[e]) /\ eps[e].started /\ eps[e].call = "none" /\ Fits(eps[e], tick)
        /\ Said(eps[e].messages) <= tick
    BY <1>1, ActiveIs
  <2> QED BY <1>3, <2>1, <2>2, <2>3, BegunIs
<1>6. ASSUME NEW e \in Specs, e \notin Active PROVE eps'[e] = eps[e]
  BY <1>6, Advances
<1>7. DOMAIN eps' = Specs /\ eps' = [e \in Specs |-> eps'[e]] BY DEF Advance
<1>8. ASSUME NEW e \in Specs PROVE EpisodeInv(eps'[e]) /\ eps'[e] \in States
  <2>1. EpisodeInv(eps'[e]) BY <1>5, <1>6, Holds
  <2> QED BY <2>1 DEF EpisodeInv
<1>9. EpisodesInv'
  <2>1. eps' \in [Specs -> States] BY <1>7, <1>8
  <2> QED BY <1>8, <2>1 DEF EpisodesInv
<1>10. LinkInv'
  <2>1. ASSUME NEW e \in Specs, link'[e] = "none" PROVE eps'[e] = E(e)!NotStarted
    <3>1. link[e] = "none" BY <1>1, <2>1
    <3>2. e \notin Active
      <4>1. e \in Active => e \in Wave BY DEF Active
      <4> QED BY <1>1, <3>1, <4>1 DEF IInv, LinkInv
    <3> QED BY <1>6, <3>1, <3>2 DEF IInv, LinkInv
  <2>2. Wave' = Wave BY <1>1 DEF Wave
  <2> QED BY <1>1, <2>1, <2>2 DEF IInv, LinkInv
<1>11. WaveInv'
  <2>1. Wave' = Wave BY <1>1 DEF Wave
  <2>2. ASSUME NEW e \in Wave, link'[e] # "none"
        PROVE  eps'[e].started /\ Fits(eps'[e], tick + 1) /\ Said(eps'[e].messages) <= tick + 1
    <3>1. CASE e \in Active BY <1>5, <3>1
    <3>2. CASE e \notin Active
      <4>1. e \in Specs BY DEF Wave
      <4>2. eps'[e] = eps[e] BY <1>6, <3>2, <4>1
      <4>3. eps[e].started /\ Fits(eps[e], tick) /\ Said(eps[e].messages) <= tick
        BY <1>1, <2>2 DEF IInv, WaveInv
      <4>4. eps[e] \in States /\ eps[e].messages \in Seq(Messages) BY <4>1, Holds DEF States
      <4>5. Said(eps[e].messages) \in Nat /\ Len(eps[e].messages) \in Nat BY <4>4, SaidIs
      <4>6. Said(eps[e].messages) <= tick + 1 BY <1>3, <4>3, <4>5
      <4>7. Fits(eps[e], tick + 1) BY <1>3, <4>3, <4>5 DEF Fits
      <4> QED BY <4>2, <4>3, <4>6, <4>7
    <3> QED BY <3>1, <3>2
  <2> QED BY <1>1, <2>1, <2>2 DEF WaveInv
<1> QED BY <1>4, <1>9, <1>10, <1>11 DEF IInv

-----------------------------------------------------------------------------
(* The steps of one session keep the invariant, and so does the driver.        *)

(* An open episode may change alone, if it takes no turn and does not outgrow   *)
(* its turns.                                                                *)
LEMMA OneEpisodeKeeps ==
  ASSUME IInv, NEW e \in Specs, link[e] = "open", NEW s, EpisodeInv(s), s.started = eps[e].started,
         \A t \in Nat : Fits(eps[e], t) => Fits(s, t), Said(s.messages) = Said(eps[e].messages),
         eps' = [eps EXCEPT ![e] = s], UNCHANGED <<phase, start, tick, link, outs>>
  PROVE  IInv'
<1>1. phase' = phase /\ start' = start /\ tick' = tick /\ link' = link /\ outs' = outs OBVIOUS
<1>2. eps \in [Specs -> States] /\ s \in States BY DEF IInv, EpisodesInv, EpisodeInv
<1>3. eps'[e] = s /\ \A d \in Specs : d # e => eps'[d] = eps[d] BY <1>2
<1>4. ControlInv' BY <1>1 DEF IInv, ControlInv
<1>5. EpisodesInv'
  <2>1. eps' \in [Specs -> States] BY <1>2
  <2>2. \A d \in Specs : EpisodeInv(eps'[d]) BY <1>3 DEF IInv, EpisodesInv
  <2> QED BY <2>1, <2>2 DEF EpisodesInv
<1>6. LinkInv'
  <2>1. \A d \in Specs : link'[d] = "none" => eps'[d] = E(d)!NotStarted BY <1>1, <1>3 DEF IInv, LinkInv
  <2>2. Wave' = Wave BY <1>1 DEF Wave
  <2> QED BY <1>1, <2>1, <2>2 DEF IInv, LinkInv
<1>7. WaveInv'
  <2>1. Wave' = Wave BY <1>1 DEF Wave
  <2>2. ASSUME phase \in {"opening", "ticking"}, NEW d \in Wave, link[d] # "none"
        PROVE  eps'[d].started /\ Fits(eps'[d], tick) /\ Said(eps'[d].messages) <= tick
    <3>1. eps[d].started /\ Fits(eps[d], tick) /\ Said(eps[d].messages) <= tick BY <2>2 DEF IInv, WaveInv
    <3>2. tick \in Nat /\ d \in Specs BY Bounds DEF IInv, ControlInv, Wave
    <3>3. CASE d = e BY <1>3, <3>1, <3>2, <3>3
    <3>4. CASE d # e BY <1>3, <3>1, <3>2, <3>4
    <3> QED BY <3>3, <3>4
  <2> QED BY <1>1, <2>1, <2>2 DEF WaveInv
<1> QED BY <1>4, <1>5, <1>6, <1>7 DEF IInv

LEMMA ServeKeeps ==
  ASSUME IInv, NEW e \in Specs, Serve(e)
  PROVE  IInv'
<1>1. PICK r \in E(e)!Answers(eps[e].call) : eps' = [eps EXCEPT ![e] = E(e)!served(eps[e], r)] BY DEF Serve
<1>2. link[e] = "open" /\ eps[e].call # "none" /\ UNCHANGED <<phase, start, tick, link, outs>> BY DEF Serve
<1> DEFINE s == E(e)!served(eps[e], r)
<1>3. EpisodeInv(eps[e]) BY Holds
<1>4. eps' = [eps EXCEPT ![e] = s] BY <1>1
<1>5. EpisodeInv(s) /\ s.started = eps[e].started /\ s.messages = eps[e].messages /\ s.call = eps[e].call
  BY <1>2, <1>3, ServedIs
<1> HIDE DEF s
<1>6. \A t \in Nat : Fits(eps[e], t) => Fits(s, t) BY <1>5 DEF Fits
<1>7. Said(s.messages) = Said(eps[e].messages) BY <1>5
<1> QED BY <1>2, <1>4, <1>5, <1>6, <1>7, OneEpisodeKeeps

LEMMA FoldKeeps ==
  ASSUME IInv, NEW e \in Specs, Fold(e)
  PROVE  IInv'
<1>1. link[e] = "open" /\ eps[e].reply # <<>> /\ UNCHANGED <<phase, start, tick, link, outs>> BY DEF Fold
<1> DEFINE s == E(e)!folded(eps[e])
<1>2. EpisodeInv(eps[e]) BY Holds
<1>3. eps' = [eps EXCEPT ![e] = s] BY DEF Fold
<1>4. EpisodeInv(s) /\ s.started = eps[e].started /\ Said(s.messages) = Said(eps[e].messages)
      /\ \A t \in Nat : Fits(eps[e], t) => Fits(s, t)
  BY <1>1, <1>2, FoldedIs
<1> HIDE DEF s
<1> QED BY <1>1, <1>3, <1>4, OneEpisodeKeeps

LEMMA StutterKeeps ==
  ASSUME IInv, UNCHANGED vars
  PROVE  IInv'
<1>1. phase' = phase /\ start' = start /\ tick' = tick /\ eps' = eps /\ link' = link /\ outs' = outs BY DEF vars
<1>2. ControlInv' BY <1>1 DEF IInv, ControlInv
<1>3. EpisodesInv' BY <1>1 DEF IInv, EpisodesInv
<1>4. Wave' = Wave BY <1>1 DEF Wave
<1>5. LinkInv' BY <1>1, <1>4 DEF IInv, LinkInv
<1>6. WaveInv' BY <1>1, <1>4 DEF IInv, WaveInv
<1> QED BY <1>2, <1>3, <1>5, <1>6 DEF IInv

LEMMA InitHolds ==
  ASSUME Init
  PROVE  IInv
<1>1. phase = "opening" /\ start = 0 /\ tick = 0 /\ outs = <<>> /\ link = [e \in Specs |-> "none"]
      /\ eps = [e \in Specs |-> E(e)!NotStarted]
  BY DEF Init
<1>2. ControlInv
  <2>1. Cardinality(Specs) \in Nat /\ Cardinality(Specs) # 0 BY Bounds
  <2> QED BY <1>1, <2>1, Bounds DEF ControlInv, Phases
<1>3. \A e \in Specs : eps[e] = E(e)!NotStarted BY <1>1
<1>4. \A e \in Specs : EpisodeInv(eps[e]) BY <1>3, NotStartedIs
<1>5. EpisodesInv
  <2>1. \A e \in Specs : eps[e] \in States BY <1>4 DEF EpisodeInv
  <2>2. eps \in [Specs -> States] BY <1>1, <2>1
  <2> QED BY <1>4, <2>2 DEF EpisodesInv
<1>6. \A e \in Specs : link[e] = "none" BY <1>1
<1>7. LinkInv BY <1>1, <1>3, <1>6 DEF LinkInv
<1>8. WaveInv BY <1>6 DEF WaveInv, Wave
<1> QED BY <1>2, <1>5, <1>7, <1>8 DEF IInv

LEMMA NextKeeps ==
  ASSUME IInv, [Next]_vars
  PROVE  IInv'
<1>1. CASE OpenClient BY <1>1, OpensKeep
<1>2. CASE OpenFails BY <1>2, OpenFailsKeeps
<1>3. CASE AllOpen BY <1>3, AllOpenKeeps
<1>4. CASE Advance BY <1>4, AdvanceKeeps
<1>5. CASE TicksEnd
  <2>1. phase = "ticking" /\ phase' \in {"closing", "unwinding"} /\ UNCHANGED <<start, tick, eps, link, outs>>
    BY <1>5 DEF TicksEnd
  <2> QED BY <2>1, LeavesTicking
<1>6. CASE CloseLast BY <1>6, CloseKeeps
<1>7. CASE NextWave BY <1>7, NextWaveKeeps
<1>8. CASE Unwound BY <1>8, UnwoundKeeps
<1>9. CASE Assemble BY <1>9, AssembleKeeps
<1>10. ASSUME NEW e \in Specs, Serve(e) PROVE IInv' BY <1>10, ServeKeeps
<1>11. ASSUME NEW e \in Specs, Fold(e) PROVE IInv' BY <1>11, FoldKeeps
<1>12. ASSUME NEW e \in Specs, StepRaises(e) PROVE IInv'
  <2>1. phase = "ticking" /\ phase' \in {"closing", "unwinding"} /\ UNCHANGED <<start, tick, eps, link, outs>>
    BY <1>12 DEF StepRaises
  <2> QED BY <2>1, LeavesTicking
<1>13. CASE UNCHANGED vars BY <1>13, StutterKeeps
<1> QED BY <1>1, <1>2, <1>3, <1>4, <1>5, <1>6, <1>7, <1>8, <1>9, <1>10, <1>11, <1>12, <1>13
  DEF Next, Driver, Terminated

(* The inductive invariant holds of every call of rollout_func, whatever the   *)
(* batch, the wave size, the window and the template.                         *)
THEOREM Inductive == Spec => []IInv
<1>1. Init => IInv BY InitHolds
<1>2. IInv /\ [Next]_vars => IInv' BY NextKeeps
<1> QED BY <1>1, <1>2, PTL DEF Spec

(* Every phase, counter, client and example is one the code can have, and no   *)
(* conversation outgrows two messages a turn: the wave's ticks bound the turns *)
(* of each of its episodes.                                                  *)
THEOREM TypeCorrect == Spec => []TypeOK
<1>1. IInv => TypeOK
  <2> SUFFICES ASSUME IInv PROVE TypeOK OBVIOUS
  <2>1. phase \in Phases /\ start \in 0..(Cardinality(Specs) + concurrency) /\ tick \in 0..max_turns
        /\ link \in [Specs -> {"none", "open", "closed"}] /\ (outs # <<>>) = (phase = "returned")
    BY Bounds DEF IInv, ControlInv
  <2>2. ASSUME NEW e \in Specs
        PROVE  /\ eps[e].call \in {"none", "dram.issue", "episode.finish"}
               /\ eps[e].started => Len(eps[e].messages) \in 1..(1 + 2 * max_turns)
               /\ eps[e].reward \in 0..1 /\ Len(eps[e].reply) <= 1
    <3>1. EpisodeInv(eps[e]) /\ eps[e] \in States BY Holds
    <3>2. eps[e].call \in {"none", "dram.issue", "episode.finish"} /\ eps[e].reward \in 0..1
      BY <3>1 DEF States, Calls
    <3>3. Len(eps[e].reply) <= 1
      <4>1. eps[e].reply = <<>> \/ \E r \in Replies : eps[e].reply = <<r>> BY <3>1 DEF States
      <4>2. CASE eps[e].reply = <<>>
        <5>1. Len(<<>>) <= 1 OBVIOUS
        <5> QED BY <4>2, <5>1
      <4>3. ASSUME NEW r \in Replies, eps[e].reply = <<r>> PROVE Len(eps[e].reply) <= 1
        <5>1. Len(<<r>>) <= 1 OBVIOUS
        <5> QED BY <4>3, <5>1
      <4> QED BY <4>1, <4>2, <4>3
    <3>4. eps[e].started => Len(eps[e].messages) \in 1..(1 + 2 * max_turns)
      <4>1. eps[e].messages \in Seq(Messages) BY <3>1 DEF States
      <4>2. Len(eps[e].messages) \in Nat /\ 2 * max_turns \in Nat BY <4>1, Bounds
      <4> QED BY <3>1, <4>2 DEF EpisodeInv, Fits
    <3> QED BY <3>2, <3>3, <3>4
  <2> QED BY <2>1, <2>2 DEF TypeOK
<1> QED BY <1>1, Inductive, PTL

-----------------------------------------------------------------------------
(* Batching is invisible to an episode, step by step.                         *)
Alone(e) == E(e)!Next \/ eps'[e] = eps[e]

LEMMA OpeningIsStart ==
  ASSUME IInv, OpenClient, NEW e \in Specs
  PROVE  Alone(e)
<1>1. PICK d \in NextToOpen, isDone \in BOOLEAN : eps' = [eps EXCEPT ![d] = E(d)!started(isDone)]
  BY DEF OpenClient
<1>2. d \in Specs /\ link[d] = "none" BY DEF NextToOpen, Wave
<1>3. eps \in [Specs -> States] BY DEF IInv, EpisodesInv
<1>4. CASE e # d BY <1>1, <1>3, <1>4 DEF Alone
<1>5. CASE e = d
  <2>1. eps'[e] = E(e)!started(isDone) BY <1>1, <1>3, <1>5
  <2>2. ~eps[e].started BY <1>2, <1>5, NotStartedIs DEF IInv, LinkInv
  <2>3. E(e)!Start BY <2>1, <2>2 DEF E!Start
  <2> QED BY <2>3 DEF Alone, E!Next
<1> QED BY <1>4, <1>5

LEMMA TickIsDecide ==
  ASSUME IInv, Advance, NEW e \in Specs
  PROVE  Alone(e)
<1>1. phase = "ticking" /\ Busy = {} /\ ~LastTick BY DEF Advance
<1>2. CASE e \notin Active BY <1>2, Advances DEF Alone
<1>3. CASE e \in Active
  <2>1. PICK m : Deals(e, m) /\ eps'[e] = E(e)!begun(eps[e], m) BY <1>3, Advances
  <2>2. eps[e].started /\ eps[e].call = "none" /\ ~eps[e].done /\ eps[e].messages \in Seq(Messages)
        /\ Said(eps[e].messages) <= tick /\ tick \in Nat /\ tick < max_turns
    BY <1>1, <1>3, ActiveIs
  <2>3. E(e)!Turns = Said(eps[e].messages) BY DEF E!Turns, Said, E!Cardinality, Cardinality
  <2>4. E(e)!Turns < max_turns
    <3>1. Said(eps[e].messages) \in Nat BY <2>2, SaidIs
    <3> QED BY <2>2, <2>3, <3>1, Bounds
  <2>5. \/ E(e)!Room(eps[e].messages) <= 0 /\ eps'[e] = E(e)!begun(eps[e], E(e)!FinishTurn(eps[e].messages))
        \/ \E cap \in 1..max_turn_tokens :
             /\ cap <= E(e)!Room(eps[e].messages)
             /\ \E msg \in E(e)!Sampled(eps[e].messages, cap) : eps'[e] = E(e)!begun(eps[e], msg)
    BY <2>1 DEF Deals
  <2>6. E(e)!Decide BY <2>2, <2>4, <2>5 DEF E!Decide, E!Idle
  <2> QED BY <2>6 DEF Alone, E!Next
<1> QED BY <1>2, <1>3

LEMMA ServingIsServe ==
  ASSUME IInv, NEW d \in Specs, Serve(d), NEW e \in Specs
  PROVE  Alone(e)
<1>1. PICK r \in E(d)!Answers(eps[d].call) : eps' = [eps EXCEPT ![d] = E(d)!served(eps[d], r)] BY DEF Serve
<1>2. eps[d].call # "none" /\ eps[d].reply = <<>> BY DEF Serve
<1>3. eps \in [Specs -> States] BY DEF IInv, EpisodesInv
<1>4. CASE e # d BY <1>1, <1>3, <1>4 DEF Alone
<1>5. CASE e = d
  <2>1. eps'[e] = E(e)!served(eps[e], r) BY <1>1, <1>3, <1>5
  <2>2. E(e)!Serve BY <1>1, <1>2, <1>5, <2>1 DEF E!Serve, E!Idle
  <2> QED BY <2>2 DEF Alone, E!Next
<1> QED BY <1>4, <1>5

LEMMA FoldingIsFold ==
  ASSUME IInv, NEW d \in Specs, Fold(d), NEW e \in Specs
  PROVE  Alone(e)
<1>1. eps' = [eps EXCEPT ![d] = E(d)!folded(eps[d])] /\ eps[d].reply # <<>> BY DEF Fold
<1>2. eps \in [Specs -> States] BY DEF IInv, EpisodesInv
<1>3. CASE e # d BY <1>1, <1>2, <1>3 DEF Alone
<1>4. CASE e = d
  <2>1. eps'[e] = E(e)!folded(eps[e]) BY <1>1, <1>2, <1>4
  <2>2. E(e)!Fold BY <1>1, <1>4, <2>1 DEF E!Fold
  <2> QED BY <2>2 DEF Alone, E!Next
<1> QED BY <1>3, <1>4

LEMMA StepIsAlone ==
  ASSUME IInv, [Next]_vars, NEW e \in Specs
  PROVE  Alone(e)
<1>1. CASE OpenClient BY <1>1, OpeningIsStart
<1>2. CASE Advance BY <1>2, TickIsDecide
<1>3. CASE OpenFails \/ AllOpen \/ TicksEnd \/ CloseLast \/ NextWave \/ Unwound \/ Assemble
  <2>1. eps' = eps BY <1>3 DEF OpenFails, AllOpen, TicksEnd, CloseLast, NextWave, Unwound, Assemble
  <2> QED BY <2>1 DEF Alone
<1>4. ASSUME NEW d \in Specs, Serve(d) PROVE Alone(e) BY <1>4, ServingIsServe
<1>5. ASSUME NEW d \in Specs, Fold(d) PROVE Alone(e) BY <1>5, FoldingIsFold
<1>6. ASSUME NEW d \in Specs, StepRaises(d) PROVE Alone(e)
  <2>1. eps' = eps BY <1>6 DEF StepRaises
  <2> QED BY <2>1 DEF Alone
<1>7. CASE UNCHANGED vars BY <1>7 DEF Alone, vars
<1> QED BY <1>1, <1>2, <1>3, <1>4, <1>5, <1>6, <1>7 DEF Next, Driver, Terminated

(* Batching is invisible, and a batched run implements, for each episode, the   *)
(* one that run_training_episode drives alone: no turn is handed to a          *)
(* sibling, none is taken past the episode's own limits or after it is done,   *)
(* and a raise leaves the siblings as they were.                              *)
THEOREM BatchingIsInvisible == Spec => EachEpisodeAlone
<1>1. Init => \A e \in Specs : E(e)!Init
  <2> SUFFICES ASSUME Init, NEW e \in Specs PROVE E(e)!Init OBVIOUS
  <2>1. eps[e] = E(e)!NotStarted BY DEF Init
  <2> QED BY <2>1 DEF E!Init
<1>2. IInv /\ [Next]_vars => [\A e \in Specs : E(e)!Next \/ eps'[e] = eps[e]]_eps
  <2> SUFFICES ASSUME IInv, [Next]_vars PROVE \A e \in Specs : E(e)!Next \/ eps'[e] = eps[e]
    OBVIOUS
  <2>1. \A e \in Specs : Alone(e) BY StepIsAlone
  <2> QED BY <2>1 DEF Alone
<1> QED BY <1>1, <1>2, Inductive, PTL DEF Spec, EachEpisodeAlone

-----------------------------------------------------------------------------
(* Recursive functions, and the tokens that a mask keeps.                     *)

(* A recursive function over 0..n exists.                                    *)
Runs(f, base, step, n) == f[0] = base /\ \A i \in 1..n : f[i] = step[i][f[i - 1]]

LEMMA Iterates ==
  ASSUME NEW V, NEW base \in V, NEW n \in Nat, NEW step \in [1..n -> [V -> V]]
  PROVE  \E f \in [0..n -> V] : Runs(f, base, step, n)
<1> DEFINE S == {k \in 0..n : \E f \in [0..k -> V] : Runs(f, base, step, k)}
<1>1. 0 \in S
  <2> DEFINE one == [i \in 0..0 |-> base]
  <2>1. one \in [0..0 -> V] /\ Runs(one, base, step, 0) BY DEF Runs
  <2> HIDE DEF one
  <2>2. \E f \in [0..0 -> V] : Runs(f, base, step, 0) BY <2>1
  <2> QED BY <2>2
<1>2. ASSUME NEW k \in 0..n - 1, k \in S PROVE k + 1 \in S
  <2>1. PICK f \in [0..k -> V] : Runs(f, base, step, k) BY <1>2
  <2> DEFINE g == [i \in 0..k + 1 |-> IF i <= k THEN f[i] ELSE step[k + 1][f[k]]]
  <2>2. k \in Nat /\ k + 1 \in 1..n /\ k + 1 \in 0..n BY <1>2
  <2>3. step[k + 1] \in [V -> V] /\ f[k] \in V BY <2>1, <2>2
  <2>4. step[k + 1][f[k]] \in V BY <2>3
  <2>5. g \in [0..k + 1 -> V] BY <2>1, <2>2, <2>4
  <2>6. \A i \in 0..k : g[i] = f[i] BY <2>2
  <2>7. g[k + 1] = step[k + 1][f[k]] BY <2>2
  <2> HIDE DEF g
  <2>8. Runs(g, base, step, k + 1)
    <3>1. g[0] = base BY <2>1, <2>2, <2>6 DEF Runs
    <3>2. ASSUME NEW i \in 1..k + 1 PROVE g[i] = step[i][g[i - 1]]
      <4>1. CASE i = k + 1
        <5>1. i - 1 = k /\ k \in 0..k BY <2>2, <4>1
        <5> QED BY <2>6, <2>7, <4>1, <5>1
      <4>2. CASE i # k + 1
        <5>1. i \in 1..k /\ i \in 0..k /\ i - 1 \in 0..k BY <2>2, <4>2
        <5> QED BY <2>1, <2>6, <5>1 DEF Runs
      <4> QED BY <4>1, <4>2
    <3> QED BY <3>1, <3>2 DEF Runs
  <2>9. \E h \in [0..k + 1 -> V] : Runs(h, base, step, k + 1) BY <2>5, <2>8
  <2> QED BY <2>2, <2>9
<1>3. n \in S
  <2>1. n \in 0..n OBVIOUS
  <2> HIDE DEF S
  <2> QED BY <1>1, <1>2, <2>1, Climb
<1> QED BY <1>3

-----------------------------------------------------------------------------
(* The marked tokens of a sequence, step by step.                             *)
Marking(f, ids, mask) ==
  f[0] = <<>> /\ \A t \in 1..Len(ids) : f[t] = IF mask[t] = 1 THEN Append(f[t - 1], ids[t]) ELSE f[t - 1]

LEMMA MarkedIs ==
  ASSUME NEW T, NEW ids \in Seq(T), NEW mask
  PROVE  \E f \in [0..Len(ids) -> Seq(T)] : Marking(f, ids, mask) /\ Marked(ids, mask) = f[Len(ids)]
<1> DEFINE n    == Len(ids)
           step == [t \in 1..n |-> [v \in Seq(T) |-> IF mask[t] = 1 THEN Append(v, ids[t]) ELSE v]]
           upto == CHOOSE f : f = [t \in 0..n |-> IF t = 0 THEN <<>>
                                                   ELSE IF mask[t] = 1 THEN Append(f[t - 1], ids[t]) ELSE f[t - 1]]
<1>1. n \in Nat /\ <<>> \in Seq(T) OBVIOUS
<1>2. step \in [1..n -> [Seq(T) -> Seq(T)]]
  <2>1. ASSUME NEW t \in 1..n, NEW v \in Seq(T) PROVE (IF mask[t] = 1 THEN Append(v, ids[t]) ELSE v) \in Seq(T)
    <3>1. ids[t] \in T OBVIOUS
    <3> QED BY <3>1
  <2> QED BY <2>1
<1>3. PICK f \in [0..n -> Seq(T)] : Runs(f, <<>>, step, n)
  <2> HIDE DEF step, n
  <2> QED BY <1>1, <1>2, Iterates
<1>4. f = [t \in 0..n |-> IF t = 0 THEN <<>> ELSE IF mask[t] = 1 THEN Append(f[t - 1], ids[t]) ELSE f[t - 1]]
  <2>1. ASSUME NEW t \in 0..n
        PROVE  f[t] = IF t = 0 THEN <<>> ELSE IF mask[t] = 1 THEN Append(f[t - 1], ids[t]) ELSE f[t - 1]
    <3>1. CASE t = 0 BY <1>3, <3>1 DEF Runs
    <3>2. CASE t # 0
      <4>1. t \in 1..n /\ t - 1 \in 0..n BY <1>1, <3>2
      <4>2. f[t - 1] \in Seq(T) BY <1>3, <4>1
      <4>3. f[t] = step[t][f[t - 1]] BY <1>3, <4>1 DEF Runs
      <4>4. step[t][f[t - 1]] = IF mask[t] = 1 THEN Append(f[t - 1], ids[t]) ELSE f[t - 1] BY <4>1, <4>2
      <4> QED BY <3>2, <4>3, <4>4
    <3> QED BY <3>1, <3>2
  <2> HIDE DEF step, n
  <2> QED BY <1>3, <2>1
<1>5. upto = [t \in 0..n |-> IF t = 0 THEN <<>> ELSE IF mask[t] = 1 THEN Append(upto[t - 1], ids[t]) ELSE upto[t - 1]]
  BY <1>4
<1>6. Marked(ids, mask) = upto[n] BY DEF Marked
<1> HIDE DEF upto
<1>7. Marking(upto, ids, mask)
  <2>1. upto[0] = <<>> BY <1>1, <1>5
  <2>2. ASSUME NEW t \in 1..n PROVE upto[t] = IF mask[t] = 1 THEN Append(upto[t - 1], ids[t]) ELSE upto[t - 1]
    <3>1. t \in 0..n /\ t # 0 BY <1>1
    <3> QED BY <1>5, <3>1
  <2> QED BY <2>1, <2>2 DEF Marking
<1>8. \A t \in 0..n : upto[t] \in Seq(T)
  <2> DEFINE S == {t \in 0..n : upto[t] \in Seq(T)}
  <2>1. 0 \in S
    <3>1. upto[0] \in Seq(T) /\ 0 \in 0..n BY <1>1, <1>7 DEF Marking
    <3> QED BY <3>1
  <2>2. ASSUME NEW k \in 0..n - 1, k \in S PROVE k + 1 \in S
    <3>1. k + 1 \in 1..n /\ k + 1 - 1 = k /\ k + 1 \in 0..n BY <1>1
    <3>2. upto[k + 1] = IF mask[k + 1] = 1 THEN Append(upto[k], ids[k + 1]) ELSE upto[k] BY <1>7, <3>1 DEF Marking
    <3>3. ids[k + 1] \in T /\ upto[k] \in Seq(T) BY <2>2, <3>1
    <3>4. Append(upto[k], ids[k + 1]) \in Seq(T) BY <3>3
    <3>5. upto[k + 1] \in Seq(T) BY <3>2, <3>3, <3>4
    <3> QED BY <3>1, <3>5
  <2>3. \A t \in 0..n : t \in S
    <3> HIDE DEF S, n
    <3> QED BY <1>1, <2>1, <2>2, Climb
  <2> QED BY <2>3
<1>9. upto \in [0..n -> Seq(T)] BY <1>5, <1>8
<1> QED BY <1>6, <1>7, <1>9

Appends(x, y, z) == Append(x \o y, z) = x \o Append(y, z)

LEMMA AppendToJoin ==
  ASSUME NEW T, NEW x \in Seq(T), NEW y \in Seq(T), NEW z \in T
  PROVE  Appends(x, y, z)
<1>1. x \o y \in Seq(T) /\ Append(y, z) \in Seq(T) OBVIOUS
<1>2. Append(x \o y, z) \in Seq(T) /\ x \o Append(y, z) \in Seq(T) BY <1>1
<1>3. /\ Len(x \o y) = Len(x) + Len(y) /\ Len(Append(y, z)) = Len(y) + 1 /\ Len(Append(x \o y, z)) = Len(x) + Len(y) + 1
      /\ Len(x \o Append(y, z)) = Len(x) + Len(y) + 1 /\ Len(x) \in Nat /\ Len(y) \in Nat
  BY <1>1
<1>4. ASSUME NEW t \in 1..Len(x) + Len(y) + 1 PROVE Append(x \o y, z)[t] = (x \o Append(y, z))[t]
  <2>1. CASE t <= Len(x) BY <1>1, <1>3, <2>1
  <2>2. CASE Len(x) < t /\ t <= Len(x) + Len(y) BY <1>1, <1>3, <2>2
  <2>3. CASE t = Len(x) + Len(y) + 1 BY <1>1, <1>3, <2>3
  <2> QED BY <1>3, <2>1, <2>2, <2>3
<1>5. Append(x \o y, z) = x \o Append(y, z) BY <1>2, <1>3, <1>4, SeqEqual
<1> QED BY <1>5 DEF Appends

(* Marks of a concatenation: one part's tokens and then the other's.           *)
JoinsMarks(a, b, ma, mb) ==
  /\ Marked(a \o b, ma \o mb) = Marked(a, ma) \o Marked(b, mb)
  /\ a \o b \in Seq(Tokens) /\ ma \o mb \in Seq({0, 1}) /\ Len(a \o b) = Len(ma \o mb)

LEMMA MarkedJoin ==
  ASSUME NEW a \in Seq(Tokens), NEW b \in Seq(Tokens), NEW ma \in Seq({0, 1}), NEW mb \in Seq({0, 1}),
         Len(ma) = Len(a), Len(mb) = Len(b)
  PROVE  JoinsMarks(a, b, ma, mb)
<1>10. a \o b \in Seq(Tokens) /\ ma \o mb \in Seq({0, 1}) /\ Len(a \o b) = Len(ma \o mb)
  <2>1. a \o b \in Seq(Tokens) /\ Len(a \o b) = Len(a) + Len(b) OBVIOUS
  <2>2. ma \o mb \in Seq({0, 1}) /\ Len(ma \o mb) = Len(ma) + Len(mb) BY ConcatProperties
  <2> QED BY <2>1, <2>2
<1> DEFINE c == a \o b
           mc == ma \o mb
           n  == Len(a)
           m  == Len(b)
<1>1. n \in Nat /\ m \in Nat /\ c \in Seq(Tokens) /\ Len(c) = n + m OBVIOUS
<1>2. /\ \A t \in 1..n : c[t] = a[t] /\ mc[t] = ma[t]
      /\ \A t \in 1..m : c[n + t] = b[t] /\ mc[n + t] = mb[t]
  OBVIOUS
<1>3. PICK f \in [0..n -> Seq(Tokens)] : Marking(f, a, ma) /\ Marked(a, ma) = f[n] BY MarkedIs
<1>4. PICK g \in [0..m -> Seq(Tokens)] : Marking(g, b, mb) /\ Marked(b, mb) = g[m] BY MarkedIs
<1>5. PICK h \in [0..Len(c) -> Seq(Tokens)] : Marking(h, c, mc) /\ Marked(c, mc) = h[Len(c)]
  <2> HIDE DEF c, mc
  <2> QED BY <1>1, MarkedIs
<1>6. /\ f[0] = <<>> /\ \A t \in 1..n : f[t] = IF ma[t] = 1 THEN Append(f[t - 1], a[t]) ELSE f[t - 1]
      /\ g[0] = <<>> /\ \A t \in 1..m : g[t] = IF mb[t] = 1 THEN Append(g[t - 1], b[t]) ELSE g[t - 1]
      /\ h[0] = <<>> /\ \A t \in 1..n + m : h[t] = IF mc[t] = 1 THEN Append(h[t - 1], c[t]) ELSE h[t - 1]
  BY <1>1, <1>3, <1>4, <1>5 DEF Marking
<1> HIDE DEF c, mc, n, m
<1>7. h[n] = f[n]
  <2> DEFINE S == {t \in 0..n : h[t] = f[t]}
  <2>1. 0 \in S
    <3>1. 0 \in 0..n /\ h[0] = f[0] BY <1>1, <1>6
    <3> QED BY <3>1
  <2>2. ASSUME NEW k \in 0..n - 1, k \in S PROVE k + 1 \in S
    <3>1. k + 1 \in 1..n /\ k + 1 \in 1..n + m /\ k + 1 - 1 = k /\ k + 1 \in 0..n BY <1>1
    <3>2. h[k] = f[k] BY <2>2
    <3>3. h[k + 1] = IF mc[k + 1] = 1 THEN Append(h[k], c[k + 1]) ELSE h[k] BY <1>6, <3>1
    <3>4. f[k + 1] = IF ma[k + 1] = 1 THEN Append(f[k], a[k + 1]) ELSE f[k] BY <1>6, <3>1
    <3>5. h[k + 1] = f[k + 1] BY <1>2, <3>1, <3>2, <3>3, <3>4
    <3> QED BY <3>1, <3>5
  <2>3. n \in 0..n BY <1>1
  <2>4. n \in S
    <3> HIDE DEF S
    <3> QED BY <1>1, <2>1, <2>2, <2>3, Climb
  <2> QED BY <2>4
<1>8. h[n + m] = f[n] \o g[m]
  <2> DEFINE S == {t \in 0..m : h[n + t] = f[n] \o g[t]}
  <2>1. f[n] \in Seq(Tokens) /\ \A t \in 0..m : g[t] \in Seq(Tokens) BY <1>1, <1>3, <1>4
  <2>2. 0 \in S
    <3>1. f[n] \o <<>> = f[n] /\ n + 0 = n /\ 0 \in 0..m BY <1>1, <2>1
    <3>2. h[n + 0] = f[n] \o g[0] BY <1>6, <1>7, <3>1
    <3> QED BY <3>1, <3>2
  <2>3. ASSUME NEW k \in 0..m - 1, k \in S PROVE k + 1 \in S
    <3>1. k + 1 \in 1..m /\ n + (k + 1) \in 1..n + m /\ (n + (k + 1)) - 1 = n + k /\ k + 1 - 1 = k /\ k + 1 \in 0..m
          /\ k \in 0..m
      BY <1>1
    <3>2. h[n + k] = f[n] \o g[k] BY <2>3
    <3>3. h[n + (k + 1)] = IF mc[n + (k + 1)] = 1 THEN Append(h[n + k], c[n + (k + 1)]) ELSE h[n + k] BY <1>6, <3>1
    <3>4. g[k + 1] = IF mb[k + 1] = 1 THEN Append(g[k], b[k + 1]) ELSE g[k] BY <1>6, <3>1
    <3>5. c[n + (k + 1)] = b[k + 1] /\ mc[n + (k + 1)] = mb[k + 1] BY <1>2, <3>1
    <3>6. b[k + 1] \in Tokens /\ g[k] \in Seq(Tokens) BY <2>1, <3>1 DEF m
    <3>9. Appends(f[n], g[k], b[k + 1]) BY <2>1, <3>6, AppendToJoin
    <3>7. Append(f[n] \o g[k], b[k + 1]) = f[n] \o Append(g[k], b[k + 1]) BY <3>9 DEF Appends
    <3>8. h[n + (k + 1)] = f[n] \o g[k + 1] BY <3>2, <3>3, <3>4, <3>5, <3>7
    <3> QED BY <3>1, <3>8
  <2>4. m \in 0..m BY <1>1
  <2>5. m \in S
    <3> HIDE DEF S
    <3> QED BY <1>1, <2>2, <2>3, <2>4, Climb
  <2> QED BY <2>5
<1>9. Marked(c, mc) = Marked(a, ma) \o Marked(b, mb) BY <1>1, <1>3, <1>4, <1>5, <1>8
<1> QED BY <1>9, <1>10 DEF c, mc, JoinsMarks

(* Nothing marked, and everything.                                           *)
LEMMA MarkedNone ==
  ASSUME NEW T, NEW ids \in Seq(T), NEW mask, \A t \in 1..Len(ids) : mask[t] = 0
  PROVE  Marked(ids, mask) = <<>>
<1> DEFINE n == Len(ids)
<1>1. n \in Nat OBVIOUS
<1>2. PICK f \in [0..n -> Seq(T)] : Marking(f, ids, mask) /\ Marked(ids, mask) = f[n] BY MarkedIs
<1> DEFINE S == {t \in 0..n : f[t] = <<>>}
<1>3. 0 \in S BY <1>1, <1>2 DEF Marking
<1>4. ASSUME NEW k \in 0..n - 1, k \in S PROVE k + 1 \in S
  <2>1. k + 1 \in 1..n /\ k + 1 - 1 = k /\ k + 1 \in 0..n BY <1>1
  <2>2. f[k + 1] = f[k] BY <1>2, <2>1 DEF Marking
  <2> QED BY <1>4, <2>1, <2>2
<1>5. n \in 0..n BY <1>1
<1>6. n \in S
  <2> HIDE DEF S, n
  <2> QED BY <1>1, <1>3, <1>4, <1>5, Climb
<1> QED BY <1>2, <1>6

LEMMA MarkedAll ==
  ASSUME NEW T, NEW ids \in Seq(T), NEW mask, \A t \in 1..Len(ids) : mask[t] = 1
  PROVE  Marked(ids, mask) = ids
<1> DEFINE n == Len(ids)
<1>1. n \in Nat OBVIOUS
<1>2. PICK f \in [0..n -> Seq(T)] : Marking(f, ids, mask) /\ Marked(ids, mask) = f[n] BY MarkedIs
<1> DEFINE S == {t \in 0..n : f[t] = SubSeq(ids, 1, t)}
<1>3. 0 \in S
  <2>1. f[0] = <<>> /\ 0 \in 0..n BY <1>1, <1>2 DEF Marking
  <2>2. SubSeq(ids, 1, 0) = <<>> OBVIOUS
  <2> QED BY <2>1, <2>2
<1>4. ASSUME NEW k \in 0..n - 1, k \in S PROVE k + 1 \in S
  <2>1. k + 1 \in 1..n /\ k + 1 - 1 = k /\ k + 1 \in 0..n /\ k \in 0..n BY <1>1
  <2>5. mask[k + 1] = 1 BY <2>1
  <2>6. f[k + 1] = IF mask[k + 1] = 1 THEN Append(f[k], ids[k + 1]) ELSE f[k] BY <1>2, <2>1 DEF Marking
  <2>2. f[k + 1] = Append(f[k], ids[k + 1]) BY <2>5, <2>6
  <2>3. f[k] = SubSeq(ids, 1, k) BY <1>4
  <2>4. SubSeq(ids, 1, k + 1) = Append(SubSeq(ids, 1, k), ids[k + 1])
    <3> HIDE DEF S
    <3> QED BY <2>1
  <2> QED BY <2>1, <2>2, <2>3, <2>4
<1>5. n \in 0..n BY <1>1
<1>6. n \in S
  <2> HIDE DEF S, n
  <2> QED BY <1>1, <1>3, <1>4, <1>5, Climb
<1>7. SubSeq(ids, 1, n) = ids OBVIOUS
<1> QED BY <1>2, <1>6, <1>7

(* The turns of an example one after the other: what is taught so far.         *)
Drawing(f, messages) ==
  f[0] = <<>> /\ \A i \in 1..Len(messages) :
    f[i] = IF messages[i].role = "assistant" THEN f[i - 1] \o messages[i].drawn ELSE f[i - 1]

LEMMA DrawnIs ==
  ASSUME NEW messages \in Seq(Messages),
         \A i \in 1..Len(messages) : messages[i].role = "assistant" => messages[i].drawn \in Seq(Tokens)
  PROVE  \E f \in [0..Len(messages) -> Seq(Tokens)] : Drawing(f, messages) /\ Drawn(messages) = f[Len(messages)]
<1> DEFINE n    == Len(messages)
           step == [i \in 1..n |-> [v \in Seq(Tokens) |-> IF messages[i].role = "assistant" THEN v \o messages[i].drawn ELSE v]]
           upto == CHOOSE f : f = [i \in 0..n |-> IF i = 0 THEN <<>>
                     ELSE IF messages[i].role = "assistant" THEN f[i - 1] \o messages[i].drawn ELSE f[i - 1]]
<1>1. n \in Nat /\ <<>> \in Seq(Tokens) OBVIOUS
<1>2. step \in [1..n -> [Seq(Tokens) -> Seq(Tokens)]]
  <2>1. ASSUME NEW i \in 1..n, NEW v \in Seq(Tokens)
        PROVE  (IF messages[i].role = "assistant" THEN v \o messages[i].drawn ELSE v) \in Seq(Tokens)
    <3>1. CASE messages[i].role = "assistant"
      <4>1. messages[i].drawn \in Seq(Tokens) BY <3>1
      <4>2. v \o messages[i].drawn \in Seq(Tokens) BY <4>1
      <4> QED BY <3>1, <4>2
    <3>2. CASE messages[i].role # "assistant" BY <3>2
    <3> QED BY <3>1, <3>2
  <2> QED BY <2>1
<1>3. PICK f \in [0..n -> Seq(Tokens)] : Runs(f, <<>>, step, n)
  <2> HIDE DEF step, n
  <2> QED BY <1>1, <1>2, Iterates
<1>4. f = [i \in 0..n |-> IF i = 0 THEN <<>>
             ELSE IF messages[i].role = "assistant" THEN f[i - 1] \o messages[i].drawn ELSE f[i - 1]]
  <2>1. ASSUME NEW i \in 0..n
        PROVE  f[i] = IF i = 0 THEN <<>>
                      ELSE IF messages[i].role = "assistant" THEN f[i - 1] \o messages[i].drawn ELSE f[i - 1]
    <3>1. CASE i = 0 BY <1>3, <3>1 DEF Runs
    <3>2. CASE i # 0
      <4>1. i \in 1..n /\ i - 1 \in 0..n BY <1>1, <3>2
      <4>2. f[i - 1] \in Seq(Tokens) BY <1>3, <4>1
      <4>3. f[i] = step[i][f[i - 1]] BY <1>3, <4>1 DEF Runs
      <4>4. step[i][f[i - 1]] = IF messages[i].role = "assistant" THEN f[i - 1] \o messages[i].drawn ELSE f[i - 1]
        BY <4>1, <4>2
      <4> QED BY <3>2, <4>3, <4>4
    <3> QED BY <3>1, <3>2
  <2> HIDE DEF step, n
  <2> QED BY <1>3, <2>1
<1>5. upto = [i \in 0..n |-> IF i = 0 THEN <<>>
                ELSE IF messages[i].role = "assistant" THEN upto[i - 1] \o messages[i].drawn ELSE upto[i - 1]]
  BY <1>4
<1>6. Drawn(messages) = upto[n] BY DEF Drawn
<1> HIDE DEF upto
<1>7. Drawing(upto, messages)
  <2>1. upto[0] = <<>> BY <1>1, <1>5
  <2>2. ASSUME NEW i \in 1..n
        PROVE  upto[i] = IF messages[i].role = "assistant" THEN upto[i - 1] \o messages[i].drawn ELSE upto[i - 1]
    <3>1. i \in 0..n /\ i # 0 BY <1>1
    <3> QED BY <1>5, <3>1
  <2> QED BY <2>1, <2>2 DEF Drawing
<1>8. \A i \in 0..n : upto[i] \in Seq(Tokens)
  <2> DEFINE S == {i \in 0..n : upto[i] \in Seq(Tokens)}
  <2>1. 0 \in S
    <3>1. upto[0] \in Seq(Tokens) /\ 0 \in 0..n BY <1>1, <1>7 DEF Drawing
    <3> QED BY <3>1
  <2>2. ASSUME NEW k \in 0..n - 1, k \in S PROVE k + 1 \in S
    <3>1. k + 1 \in 1..n /\ k + 1 - 1 = k /\ k + 1 \in 0..n BY <1>1
    <3>2. upto[k + 1] = IF messages[k + 1].role = "assistant" THEN upto[k] \o messages[k + 1].drawn ELSE upto[k]
      BY <1>7, <3>1 DEF Drawing
    <3>3. upto[k] \in Seq(Tokens) BY <2>2
    <3>4. CASE messages[k + 1].role = "assistant"
      <4>1. messages[k + 1].drawn \in Seq(Tokens) BY <3>1, <3>4
      <4>2. upto[k] \o messages[k + 1].drawn \in Seq(Tokens) BY <3>3, <4>1
      <4> QED BY <3>1, <3>2, <3>4, <4>2
    <3>5. CASE messages[k + 1].role # "assistant" BY <3>1, <3>2, <3>3, <3>5
    <3> QED BY <3>4, <3>5
  <2>3. \A i \in 0..n : i \in S
    <3> HIDE DEF S, n
    <3> QED BY <1>1, <2>1, <2>2, Climb
  <2> QED BY <2>3
<1>9. upto \in [0..n -> Seq(Tokens)] BY <1>5, <1>8
<1> QED BY <1>6, <1>7, <1>9

-----------------------------------------------------------------------------
(* The example of sampled turns.                                            *)
Taught == [ids : Seq(Tokens), mask : Seq({0, 1}), raised : BOOLEAN]

(* A turn the driver keeps: what the model drew is what the turn carries, and   *)
(* nothing was drawn for one that was inserted.                              *)
Spoke(m) == m \in Kept /\ m.drawn = IF m.sampled THEN m.token_ids ELSE <<>>

(* What is taught so far marks nothing of the prompt and just the tokens d.     *)
Teaches(v, n, d) ==
  v.raised \/ /\ Len(v.ids) = Len(v.mask) /\ n <= Len(v.ids)
              /\ \A t \in 1..n : v.mask[t] = 0
              /\ Marked(v.ids, v.mask) = d

Constantly(n, b) == [t \in 1..n |-> b]

LEMMA ConstantlyIs ==
  ASSUME NEW n \in Nat, NEW b \in {0, 1}
  PROVE  Constantly(n, b) \in Seq({0, 1}) /\ Len(Constantly(n, b)) = n /\ \A t \in 1..n : Constantly(n, b)[t] = b
BY DEF Constantly

LEMMA Prefixed ==
  ASSUME NEW T, NEW s \in Seq(T), NEW u \in Seq(T), IsPrefix(s, u)
  PROVE  \E rest \in Seq(T) : u = s \o rest /\ Len(rest) = Len(u) - Len(s) /\ Len(rest) \in Nat
<1> DEFINE rest == SubSeq(u, Len(s) + 1, Len(u))
<1>1. Len(s) <= Len(u) /\ SubSeq(s, 1, Len(s)) = SubSeq(u, 1, Len(s)) /\ Len(s) \in Nat /\ Len(u) \in Nat BY DEF IsPrefix
<1>2. rest \in Seq(T) /\ Len(rest) = Len(u) - Len(s) /\ \A i \in 1..Len(u) - Len(s) : rest[i] = u[i + Len(s)]
  BY <1>1
<1>3. \A i \in 1..Len(s) : s[i] = u[i]
  <2> SUFFICES ASSUME NEW i \in 1..Len(s) PROVE s[i] = u[i] OBVIOUS
  <2>1. SubSeq(s, 1, Len(s))[i] = s[i] /\ SubSeq(u, 1, Len(s))[i] = u[i] BY <1>1
  <2> QED BY <1>1, <2>1
<1> HIDE DEF rest
<1>7. Len(rest) \in Nat /\ Len(rest) = Len(u) - Len(s) BY <1>2
<1>4. s \o rest \in Seq(T) /\ Len(s \o rest) = Len(u) BY <1>1, <1>2
<1>5. ASSUME NEW i \in 1..Len(u) PROVE u[i] = (s \o rest)[i]
  <2>1. CASE i <= Len(s) BY <1>1, <1>2, <1>3, <2>1
  <2>2. CASE i > Len(s)
    <3>1. i - Len(s) \in 1..Len(u) - Len(s) /\ i - Len(s) + Len(s) = i BY <1>1, <2>2
    <3>2. (s \o rest)[i] = rest[i - Len(s)] BY <1>1, <1>2, <2>2
    <3> QED BY <1>2, <3>1, <3>2
  <2>3. i <= Len(s) \/ i > Len(s) BY <1>1
  <2> QED BY <2>1, <2>2, <2>3
<1>6. u = s \o rest BY <1>4, <1>5, SeqEqual
<1> QED BY <1>1, <1>2, <1>6

LEMMA ExtendedIs ==
  ASSUME NEW v \in Taught, NEW m \in Kept
  PROVE  Extended(v, m) \in Taught
<1>1. v.ids \in Seq(Tokens) /\ v.mask \in Seq({0, 1}) /\ m.prompt_ids \in Seq(Tokens) /\ m.token_ids \in Seq(Tokens)
      /\ m.sampled \in BOOLEAN
  BY DEF Taught, Kept
<1>2. CASE v.raised \/ ~m.sampled BY <1>2 DEF Extended
<1>3. CASE ~(v.raised \/ ~m.sampled) /\ ~IsPrefix(v.ids, m.prompt_ids)
  <2>1. Extended(v, m) = [v EXCEPT !.raised = TRUE] BY <1>3 DEF Extended
  <2> QED BY <2>1 DEF Taught
<1>4. CASE ~(v.raised \/ ~m.sampled) /\ IsPrefix(v.ids, m.prompt_ids)
  <2> DEFINE new == Len(m.prompt_ids) - Len(v.ids)
             ids == m.prompt_ids \o m.token_ids
             mask == v.mask \o Constantly(new, 0) \o Constantly(Len(m.token_ids), 1)
  <2>1. Extended(v, m) = [ids |-> ids, raised |-> FALSE, mask |-> mask] BY <1>4 DEF Extended, Constantly
  <2>2. new \in Nat BY <1>1, <1>4, Prefixed
  <2> DEFINE zero == Constantly(new, 0)
             one  == Constantly(Len(m.token_ids), 1)
  <2>3. zero \in Seq({0, 1}) /\ one \in Seq({0, 1})
    <3>1. Len(m.token_ids) \in Nat BY <1>1
    <3> HIDE DEF new
    <3> QED BY <2>2, <3>1, ConstantlyIs
  <2>4. ids \in Seq(Tokens) BY <1>1
  <2> HIDE DEF zero, one
  <2>6. mask = v.mask \o zero \o one BY DEF zero, one
  <2>7. v.mask \o zero \in Seq({0, 1}) BY <1>1, <2>3
  <2>5. mask \in Seq({0, 1})
    <3> DEFINE old == v.mask \o zero
    <3> HIDE DEF old
    <3>1. old \in Seq({0, 1}) BY <2>7 DEF old
    <3>2. old \o one \in Seq({0, 1}) BY <2>3, <3>1
    <3> HIDE DEF mask
    <3> QED BY <2>6, <3>2 DEF old
  <2> HIDE DEF ids, mask
  <2> QED BY <2>1, <2>4, <2>5 DEF Taught
<1> QED BY <1>2, <1>3, <1>4

(* A turn adds what was drawn in it, and nothing else, to what is taught.       *)
LEMMA ExtendedTeaches ==
  ASSUME NEW v \in Taught, NEW m, Spoke(m), NEW n \in Nat, NEW d \in Seq(Tokens), Teaches(v, n, d)
  PROVE  Teaches(Extended(v, m), n, d \o m.drawn)
<1>1. v.ids \in Seq(Tokens) /\ v.mask \in Seq({0, 1}) /\ m.prompt_ids \in Seq(Tokens) /\ m.token_ids \in Seq(Tokens)
      /\ m.sampled \in BOOLEAN /\ m.drawn = IF m.sampled THEN m.token_ids ELSE <<>>
  BY DEF Taught, Kept, Spoke
<1>2. CASE v.raised BY <1>2 DEF Extended, Teaches
<1>3. CASE ~v.raised /\ ~m.sampled
  <2>1. Extended(v, m) = v BY <1>3 DEF Extended
  <2>2. d \o m.drawn = d BY <1>1, <1>3
  <2> QED BY <2>1, <2>2
<1>4. CASE ~v.raised /\ m.sampled /\ ~IsPrefix(v.ids, m.prompt_ids)
  <2>1. Extended(v, m) = [v EXCEPT !.raised = TRUE] BY <1>4 DEF Extended
  <2>2. Extended(v, m).raised BY <2>1 DEF Taught
  <2> QED BY <2>2 DEF Teaches
<1>5. CASE ~v.raised /\ m.sampled /\ IsPrefix(v.ids, m.prompt_ids)
  <2>1. Len(v.ids) = Len(v.mask) /\ n <= Len(v.ids) /\ (\A t \in 1..n : v.mask[t] = 0) /\ Marked(v.ids, v.mask) = d
    BY <1>5 DEF Teaches
  <2>2. PICK rest \in Seq(Tokens) : m.prompt_ids = v.ids \o rest /\ Len(rest) = Len(m.prompt_ids) - Len(v.ids)
                                    /\ Len(rest) \in Nat
    BY <1>1, <1>5, Prefixed
  <2> DEFINE new  == Len(m.prompt_ids) - Len(v.ids)
             zero == Constantly(new, 0)
             one  == Constantly(Len(m.token_ids), 1)
             ids  == m.prompt_ids \o m.token_ids
             mask == v.mask \o zero \o one
  <2>3. new \in Nat /\ new = Len(rest) /\ Len(m.token_ids) \in Nat BY <1>1, <2>2
  <2>4. zero \in Seq({0, 1}) /\ Len(zero) = Len(rest) /\ \A t \in 1..Len(rest) : zero[t] = 0
    <3> HIDE DEF new
    <3> QED BY <2>3, ConstantlyIs
  <2>5. one \in Seq({0, 1}) /\ Len(one) = Len(m.token_ids) /\ \A t \in 1..Len(m.token_ids) : one[t] = 1
    BY <2>3, ConstantlyIs
  <2>6. Extended(v, m) = [ids |-> ids, raised |-> FALSE, mask |-> mask] BY <1>5 DEF Extended, Constantly
  <2> HIDE DEF zero, one
  <2>7. v.mask \o zero \in Seq({0, 1}) /\ Len(v.mask \o zero) = Len(m.prompt_ids) BY <1>1, <2>1, <2>2, <2>4
  <2>8. Marked(rest, zero) = <<>> BY <2>4, MarkedNone
  <2>9. Marked(m.token_ids, one) = m.token_ids BY <1>1, <2>5, MarkedAll
  <2>10. Marked(m.prompt_ids, v.mask \o zero) = d \o <<>>
    <3>1. JoinsMarks(v.ids, rest, v.mask, zero) BY <1>1, <2>1, <2>4, MarkedJoin
    <3>2. Marked(v.ids \o rest, v.mask \o zero) = Marked(v.ids, v.mask) \o Marked(rest, zero) BY <3>1 DEF JoinsMarks
    <3> QED BY <2>1, <2>2, <2>8, <3>2
  <2>11. /\ Marked(ids, mask) = Marked(m.prompt_ids, v.mask \o zero) \o Marked(m.token_ids, one)
         /\ Len(ids) = Len(mask)
    <3> DEFINE old == v.mask \o zero
    <3>1. old \in Seq({0, 1}) /\ Len(old) = Len(m.prompt_ids) BY <2>7
    <3> HIDE DEF old
    <3>2. JoinsMarks(m.prompt_ids, m.token_ids, old, one) BY <1>1, <2>5, <3>1, MarkedJoin
    <3>3. /\ Marked(m.prompt_ids \o m.token_ids, old \o one) = Marked(m.prompt_ids, old) \o Marked(m.token_ids, one)
          /\ Len(m.prompt_ids \o m.token_ids) = Len(old \o one)
      BY <3>2 DEF JoinsMarks
    <3> QED BY <3>3 DEF old
  <2>12. d \o <<>> = d OBVIOUS
  <2>13. Marked(ids, mask) = d \o m.drawn BY <1>1, <1>5, <2>9, <2>10, <2>11, <2>12
  <2>14. Len(ids) = Len(mask) /\ n <= Len(ids)
    <3>1. Len(ids) = Len(m.prompt_ids) + Len(m.token_ids) BY <1>1
    <3>2. Len(m.prompt_ids) = Len(v.ids) + Len(rest) BY <1>1, <2>2
    <3>3. Len(v.ids) \in Nat /\ Len(m.token_ids) \in Nat BY <1>1
    <3> HIDE DEF ids
    <3>5. Len(rest) \in Nat /\ n <= Len(v.ids) BY <2>1, <2>2
    <3>6. \A x \in Nat, y \in Nat, z \in Nat : n <= x => n <= (x + y) + z OBVIOUS
    <3>7. n <= (Len(v.ids) + Len(rest)) + Len(m.token_ids) BY <3>3, <3>5, <3>6
    <3>4. n <= Len(ids) BY <3>1, <3>2, <3>7
    <3> QED BY <2>11, <3>4
  <2>15. \A t \in 1..n : mask[t] = 0
    <3> SUFFICES ASSUME NEW t \in 1..n PROVE mask[t] = 0 OBVIOUS
    <3>1. t \in 1..Len(v.mask) /\ v.mask[t] = 0 BY <1>1, <2>1
    <3>2. (v.mask \o zero)[t] = v.mask[t] /\ t \in 1..Len(v.mask \o zero) BY <1>1, <2>4, <3>1
    <3>3. mask[t] = (v.mask \o zero)[t] BY <2>5, <2>7, <3>2
    <3> QED BY <3>1, <3>2, <3>3
  <2> HIDE DEF ids, mask
  <2> QED BY <2>6, <2>13, <2>14, <2>15 DEF Teaches
<1> QED BY <1>1, <1>2, <1>3, <1>4, <1>5

(* Marks that leave a prefix out are the marks of the rest.                    *)
LEMMA MarkedTail ==
  ASSUME NEW ids \in Seq(Tokens), NEW mask \in Seq({0, 1}), Len(ids) = Len(mask),
         NEW n \in Nat, n <= Len(ids), \A t \in 1..n : mask[t] = 0
  PROVE  Marked(SubSeq(ids, n + 1, Len(ids)), SubSeq(mask, n + 1, Len(mask))) = Marked(ids, mask)
<1> DEFINE a == SubSeq(ids, 1, n)
           b == SubSeq(ids, n + 1, Len(ids))
           ma == SubSeq(mask, 1, n)
           mb == SubSeq(mask, n + 1, Len(mask))
<1>1. a \in Seq(Tokens) /\ Len(a) = n /\ \A i \in 1..n : a[i] = ids[i] OBVIOUS
<1>2. b \in Seq(Tokens) /\ Len(b) = Len(ids) - n /\ \A i \in 1..Len(ids) - n : b[i] = ids[i + n] OBVIOUS
<1>3. ma \in Seq({0, 1}) /\ Len(ma) = n /\ \A i \in 1..n : ma[i] = mask[i]
  BY SubSeqProperties
<1>4. mb \in Seq({0, 1}) /\ Len(mb) = Len(ids) - n /\ \A i \in 1..Len(ids) - n : mb[i] = mask[i + n]
  BY SubSeqProperties
<1>5. Len(ids) \in Nat OBVIOUS
<1> HIDE DEF a, b, ma, mb
<1>6. JoinsMarks(a, b, ma, mb) BY <1>1, <1>2, <1>3, <1>4, MarkedJoin
<1>7. a \o b = ids
  <2>1. a \o b \in Seq(Tokens) /\ Len(a \o b) = Len(ids) BY <1>1, <1>2, <1>5
  <2>2. ASSUME NEW i \in 1..Len(ids) PROVE (a \o b)[i] = ids[i]
    <3>1. CASE i <= n BY <1>1, <1>2, <1>5, <3>1
    <3>2. CASE i > n
      <4>1. i - n \in 1..Len(ids) - n /\ i - n + n = i BY <1>5, <3>2
      <4>2. (a \o b)[i] = b[i - n] BY <1>1, <1>2, <1>5, <3>2
      <4> QED BY <1>2, <4>1, <4>2
    <3>3. i <= n \/ i > n BY <1>5
    <3> QED BY <3>1, <3>2, <3>3
  <2> QED BY <2>1, <2>2, SeqEqual
<1>12. ma \o mb = mask
  <2>1. ma \o mb \in Seq({0, 1}) /\ Len(ma \o mb) = Len(mask)
        /\ \A i \in 1..Len(mask) : (ma \o mb)[i] = IF i <= n THEN ma[i] ELSE mb[i - n]
    BY <1>3, <1>4, <1>5, ConcatProperties
  <2>2. ASSUME NEW i \in 1..Len(mask) PROVE (ma \o mb)[i] = mask[i]
    <3>1. CASE i <= n BY <1>3, <1>5, <2>1, <3>1
    <3>2. CASE i > n
      <4>1. i - n \in 1..Len(ids) - n /\ i - n + n = i BY <1>5, <3>2
      <4>2. (ma \o mb)[i] = mb[i - n] BY <2>1, <3>2
      <4> QED BY <1>4, <4>1, <4>2
    <3>3. i <= n \/ i > n BY <1>5
    <3> QED BY <3>1, <3>2, <3>3
  <2> QED BY <2>1, <2>2, SeqEqual
<1>8. Marked(a, ma) = <<>> BY <1>1, <1>3, MarkedNone
<1>9. Marked(b, mb) \in Seq(Tokens)
  <2>1. b \in Seq(Tokens) /\ Len(b) \in Nat BY <1>2
  <2>2. PICK f \in [0..Len(b) -> Seq(Tokens)] : Marking(f, b, mb) /\ Marked(b, mb) = f[Len(b)] BY <2>1, MarkedIs
  <2>3. Len(b) \in 0..Len(b) BY <2>1
  <2> QED BY <2>2, <2>3
<1>10. <<>> \o Marked(b, mb) = Marked(b, mb) BY <1>9
<1>11. Marked(ids, mask) = Marked(a, ma) \o Marked(b, mb) BY <1>6, <1>7, <1>12 DEF JoinsMarks
<1> QED BY <1>8, <1>10, <1>11 DEF b, mb

(* The example of a conversation in which every turn carries its tokens: the    *)
(* tokens it marks are the ones that were drawn, in order.                    *)
LEMMA FromSamplesIs ==
  ASSUME NEW messages \in Seq(Messages), NEW turns, turns = AssistantTurns(messages, 1), turns # {},
         Len(messages) >= 1, messages[1].role # "assistant",
         \A i \in turns : Spoke(messages[i]),
         ~FromSamples(messages, turns).raised
  PROVE  LET made == FromSamples(messages, turns)
         IN /\ Marked(made.completion_ids, made.completion_mask) = Drawn(messages)
            /\ \E i \in turns : made.prompt_ids = messages[i].prompt_ids
<1> DEFINE k      == Min(turns)
           prompt == messages[k].prompt_ids
           n      == Len(prompt)
           m      == Len(messages)
           base   == [ids |-> prompt, mask |-> Constantly(n, 0), raised |-> FALSE]
           step   == [i \in 1..m |-> [v \in Taught |-> IF i \in turns THEN Extended(v, messages[i]) ELSE v]]
           upto   == CHOOSE f : f = [i \in 0..m |-> IF i = 0 THEN base
                                       ELSE IF i \in turns THEN Extended(f[i - 1], messages[i]) ELSE f[i - 1]]
           all    == upto[m]
           made   == FromSamples(messages, turns)
<1>1. m \in Nat /\ m # 0 /\ turns \subseteq 2..m /\ \A i \in 1..m : messages[i].role = "assistant" <=> i \in turns
  <2>1. m \in Nat /\ m # 0 OBVIOUS
  <2>2. turns = {i \in 2..m : messages[i].role = "assistant"} BY DEF AssistantTurns
  <2>3. ASSUME NEW i \in 1..m PROVE messages[i].role = "assistant" <=> i \in turns
    <3>1. CASE i = 1 BY <2>2, <3>1
    <3>2. CASE i # 1
      <4>1. i \in 2..m BY <2>1, <3>2
      <4> QED BY <2>2, <4>1
    <3> QED BY <3>1, <3>2
  <2> QED BY <2>1, <2>2, <2>3
<1>2. k \in turns
  <2>1. turns \subseteq Nat BY <1>1
  <2> QED BY <2>1, Minimum
<1>3. prompt \in Seq(Tokens) /\ n \in Nat
  <2>1. messages[k] \in Kept BY <1>2 DEF Spoke
  <2> HIDE DEF k
  <2>2. prompt \in Seq(Tokens) BY <2>1 DEF Kept
  <2> HIDE DEF prompt
  <2> QED BY <2>2
<1> HIDE DEF k, prompt
<1>4. Constantly(n, 0) \in Seq({0, 1}) /\ Len(Constantly(n, 0)) = n /\ \A t \in 1..n : Constantly(n, 0)[t] = 0
  <2> HIDE DEF n
  <2> QED BY <1>3, ConstantlyIs
<1>5. base \in Taught BY <1>3, <1>4 DEF Taught
<1>6. step \in [1..m -> [Taught -> Taught]]
  <2>1. ASSUME NEW i \in 1..m, NEW v \in Taught
        PROVE  (IF i \in turns THEN Extended(v, messages[i]) ELSE v) \in Taught
    <3>1. CASE i \in turns
      <4>1. messages[i] \in Kept BY <3>1 DEF Spoke
      <4>2. Extended(v, messages[i]) \in Taught BY <4>1, ExtendedIs
      <4> QED BY <3>1, <4>2
    <3>2. CASE i \notin turns BY <3>2
    <3> QED BY <3>1, <3>2
  <2> QED BY <2>1
<1>7. PICK f \in [0..m -> Taught] : Runs(f, base, step, m)
  <2> HIDE DEF step, m, base
  <2> QED BY <1>1, <1>5, <1>6, Iterates
<1>8. \A i \in 1..m : \A v \in Taught : step[i][v] = IF i \in turns THEN Extended(v, messages[i]) ELSE v
  OBVIOUS
<1> HIDE DEF base, step
<1>9. f = [i \in 0..m |-> IF i = 0 THEN base ELSE IF i \in turns THEN Extended(f[i - 1], messages[i]) ELSE f[i - 1]]
  <2>1. ASSUME NEW i \in 0..m
        PROVE  f[i] = IF i = 0 THEN base ELSE IF i \in turns THEN Extended(f[i - 1], messages[i]) ELSE f[i - 1]
    <3>1. CASE i = 0 BY <1>7, <3>1 DEF Runs
    <3>2. CASE i # 0
      <4>1. i \in 1..m /\ i - 1 \in 0..m BY <1>1, <3>2
      <4>2. f[i - 1] \in Taught BY <1>7, <4>1
      <4>3. f[i] = step[i][f[i - 1]] BY <1>7, <4>1 DEF Runs
      <4>4. step[i][f[i - 1]] = IF i \in turns THEN Extended(f[i - 1], messages[i]) ELSE f[i - 1] BY <1>8, <4>1, <4>2
      <4> QED BY <3>2, <4>3, <4>4
    <3> QED BY <3>1, <3>2
  <2> HIDE DEF m
  <2> QED BY <1>7, <2>1
<1>10. upto = [i \in 0..m |-> IF i = 0 THEN base
                 ELSE IF i \in turns THEN Extended(upto[i - 1], messages[i]) ELSE upto[i - 1]]
  BY <1>9
<1>11. made = IF all.raised THEN Raises
              ELSE [prompt_ids |-> prompt, raised |-> FALSE,
                    completion_ids |-> SubSeq(all.ids, n + 1, Len(all.ids)),
                    completion_mask |-> SubSeq(all.mask, n + 1, Len(all.mask))]
  BY DEF FromSamples, base, prompt, k, Constantly
<1> HIDE DEF upto
<1>12. upto[0] = base /\ \A i \in 1..m : upto[i] = IF i \in turns THEN Extended(upto[i - 1], messages[i]) ELSE upto[i - 1]
  <2>1. upto[0] = base BY <1>1, <1>10
  <2>2. ASSUME NEW i \in 1..m PROVE upto[i] = IF i \in turns THEN Extended(upto[i - 1], messages[i]) ELSE upto[i - 1]
    <3>1. i \in 0..m /\ i # 0 BY <1>1
    <3> QED BY <1>10, <3>1
  <2> QED BY <2>1, <2>2
<1>13. PICK d \in [0..m -> Seq(Tokens)] : Drawing(d, messages) /\ Drawn(messages) = d[m]
  <2>1. \A i \in 1..m : messages[i].role = "assistant" => messages[i].drawn \in Seq(Tokens) BY <1>1 DEF Spoke, Kept
  <2> QED BY <2>1, DrawnIs
<1> DEFINE S == {i \in 0..m : upto[i] \in Taught /\ Teaches(upto[i], n, d[i])}
<1>14. 0 \in S
  <2>1. base.ids = prompt /\ base.mask = Constantly(n, 0) BY DEF base
  <2>2. Marked(prompt, Constantly(n, 0)) = <<>> BY <1>3, <1>4, MarkedNone
  <2>3. d[0] = <<>> BY <1>13 DEF Drawing
  <2>4. Teaches(base, n, d[0]) BY <1>3, <1>4, <2>1, <2>2, <2>3 DEF Teaches
  <2>5. 0 \in 0..m BY <1>1
  <2> HIDE DEF m, n
  <2> QED BY <1>5, <1>12, <2>4, <2>5
<1>15. ASSUME NEW j \in 0..m - 1, j \in S PROVE j + 1 \in S
  <2>1. j + 1 \in 1..m /\ j + 1 - 1 = j /\ j + 1 \in 0..m /\ j \in 0..m BY <1>1
  <2>2. upto[j] \in Taught /\ Teaches(upto[j], n, d[j]) /\ d[j] \in Seq(Tokens) BY <1>13, <1>15, <2>1
  <2>3. CASE j + 1 \in turns
    <3>1. upto[j + 1] = Extended(upto[j], messages[j + 1]) BY <1>12, <2>1, <2>3
    <3>2. Spoke(messages[j + 1]) /\ messages[j + 1] \in Kept BY <2>3 DEF Spoke
    <3>3. d[j + 1] = d[j] \o messages[j + 1].drawn
      <4>1. PICK i \in 1..m : i = j + 1 BY <2>1
      <4>2. i - 1 = j /\ messages[i].role = "assistant" BY <1>1, <2>1, <2>3, <4>1
      <4>3. d[i] = IF messages[i].role = "assistant" THEN d[i - 1] \o messages[i].drawn ELSE d[i - 1]
        BY <1>13 DEF Drawing
      <4> QED BY <4>1, <4>2, <4>3
    <3>4. upto[j + 1] \in Taught BY <2>2, <3>1, <3>2, ExtendedIs
    <3>5. Teaches(Extended(upto[j], messages[j + 1]), n, d[j] \o messages[j + 1].drawn)
      <4> HIDE DEF n
      <4> QED BY <1>3, <2>2, <3>2, ExtendedTeaches
    <3> HIDE DEF n
    <3>6. Teaches(upto[j + 1], n, d[j + 1]) BY <3>1, <3>3, <3>5
    <3> QED BY <2>1, <3>4, <3>6
  <2>4. CASE j + 1 \notin turns
    <3>1. upto[j + 1] = upto[j] BY <1>12, <2>1, <2>4
    <3>2. d[j + 1] = d[j] BY <1>1, <1>13, <2>1, <2>4 DEF Drawing
    <3> QED BY <2>1, <2>2, <3>1, <3>2
  <2> QED BY <2>3, <2>4
<1>16. m \in S
  <2>1. m \in 0..m BY <1>1
  <2> HIDE DEF S, m
  <2> QED BY <1>1, <1>14, <1>15, <2>1, Climb
<1>17. all \in Taught /\ Teaches(all, n, Drawn(messages)) BY <1>13, <1>16
<1> HIDE DEF all, n
<1>18. ~all.raised
  <2>1. all.raised => made.raised BY <1>11 DEF Raises
  <2> QED BY <2>1
<1>19. /\ made.completion_ids = SubSeq(all.ids, n + 1, Len(all.ids))
       /\ made.completion_mask = SubSeq(all.mask, n + 1, Len(all.mask))
       /\ made.prompt_ids = messages[k].prompt_ids
  BY <1>11, <1>18 DEF prompt
<1>20. Len(all.ids) = Len(all.mask) /\ n <= Len(all.ids) /\ (\A t \in 1..n : all.mask[t] = 0)
       /\ Marked(all.ids, all.mask) = Drawn(messages)
  BY <1>17, <1>18 DEF Teaches
<1>21. all.ids \in Seq(Tokens) /\ all.mask \in Seq({0, 1}) BY <1>17 DEF Taught
<1>22. Marked(SubSeq(all.ids, n + 1, Len(all.ids)), SubSeq(all.mask, n + 1, Len(all.mask))) = Drawn(messages)
  BY <1>3, <1>20, <1>21, MarkedTail
<1> HIDE DEF made
<1> QED BY <1>2, <1>19, <1>22 DEF made

(* The common prefix of two sequences has a length.                            *)
LEMMA PrefixLength ==
  ASSUME NEW a \in Seq(Tokens), NEW b \in Seq(Tokens)
  PROVE  common_prefix_len(a, b) \in 0..Len(a)
<1> DEFINE agree == {n \in 0..Len(a) : n <= Len(b) /\ SubSeq(a, 1, n) = SubSeq(b, 1, n)}
           left  == {k \in 0..Len(a) : Len(a) - k \in agree}
<1>1. Len(a) \in Nat /\ Len(b) \in Nat OBVIOUS
<1>2. 0 \in agree
  <2>1. SubSeq(a, 1, 0) = <<>> /\ SubSeq(b, 1, 0) = <<>> OBVIOUS
  <2>2. 0 \in 0..Len(a) /\ 0 <= Len(b) BY <1>1
  <2> QED BY <2>1, <2>2
<1>3. agree \subseteq 0..Len(a) OBVIOUS
<1> HIDE DEF agree
<1>4. Len(a) \in left
  <2>1. Len(a) \in 0..Len(a) /\ Len(a) - Len(a) = 0 BY <1>1
  <2> QED BY <1>2, <2>1
<1>5. left \subseteq Nat BY <1>1
<1>6. PICK k \in left : \A y \in left : k <= y
  <2> HIDE DEF left
  <2> QED BY <1>4, <1>5, Least
<1>7. Len(a) - k \in agree /\ k \in 0..Len(a) BY <1>6
<1>8. ASSUME NEW y \in agree PROVE y <= Len(a) - k
  <2>1. y \in 0..Len(a) BY <1>3
  <2>2. Len(a) - y \in 0..Len(a) /\ Len(a) - (Len(a) - y) = y BY <1>1, <2>1
  <2>3. Len(a) - y \in left BY <2>2
  <2>4. k <= Len(a) - y
    <3> HIDE DEF left
    <3> QED BY <1>6, <2>3
  <2> QED BY <1>1, <1>7, <2>1, <2>4
<1>9. \E n \in agree : \A y \in agree : y <= n BY <1>7, <1>8
<1>10. common_prefix_len(a, b) = CHOOSE n \in agree : \A y \in agree : y <= n BY DEF common_prefix_len, agree
<1>11. common_prefix_len(a, b) \in agree BY <1>9, <1>10
<1> QED BY <1>3, <1>11

(* An example in which nobody spoke trains on nothing.                         *)
LEMMA SilenceTrainsNothing ==
  ASSUME NEW messages \in Seq(Messages), Len(messages) >= 1, AssistantTurns(messages, 1) = {},
         NEW t \in DOMAIN build_masked_completion(messages, 1).completion_mask
  PROVE  build_masked_completion(messages, 1).completion_mask[t] # 1
<1> DEFINE full   == render(messages, Len(messages), FALSE)
           prompt == render(messages, 1, TRUE)
           zeros  == [i \in 1..Len(full) |-> 0]
           split  == common_prefix_len(prompt, full)
           made   == build_masked_completion(messages, 1)
<1>1. full \in Seq(Tokens) /\ prompt \in Seq(Tokens)
  <2>1. Len(messages) \in 0..Len(messages) /\ 1 \in 0..Len(messages) OBVIOUS
  <2> QED BY <2>1, RenderIs
<1>2. made.completion_mask = SubSeq(zeros, split + 1, Len(full))
  BY DEF build_masked_completion
<1> HIDE DEF full, prompt
<1>3. split \in Nat /\ Len(full) \in Nat
  <2>1. split \in 0..Len(prompt) BY <1>1, PrefixLength
  <2> HIDE DEF split
  <2> QED BY <1>1, <2>1
<1>4. zeros \in Seq({0}) /\ Len(zeros) = Len(full) /\ \A i \in 1..Len(full) : zeros[i] = 0 BY <1>3
<1> HIDE DEF zeros, split, made
<1>5. SubSeq(zeros, split + 1, Len(full)) \in Seq({0}) BY <1>3, <1>4, SubSeqProperties
<1>6. t \in DOMAIN made.completion_mask BY DEF made
<1>7. made.completion_mask[t] = 0 BY <1>2, <1>5, <1>6
<1> QED BY <1>7 DEF made

-----------------------------------------------------------------------------
(* What is trained on is what happened.  The inductive invariant: each          *)
(* conversation opens with its own task and keeps what was drawn in it, each    *)
(* reward is the last answer's, an episode that is being trained on is over,   *)
(* and the examples returned are those of the episodes as they stand.          *)
Told(e) == [role |-> "user", content |-> << <<"task", TaskOf[e]>> >>]
Spoken(e, m) == Spoke(m) /\ <<"task", TaskOf[e]>> \in Range(m.prompt_ids)

TranscriptInv(e, messages) ==
  messages # <<>> =>
    /\ messages[1] = Told(e)
    /\ \A i \in 1..Len(messages) : messages[i].role = "assistant" => Spoken(e, messages[i])

RewardInv(state) ==
  IF state.reply = <<>> THEN (state.reward = 1) = state.env.won
  ELSE state.env.won = state.reply[1].won

Honest(e, state) == TranscriptInv(e, state.messages) /\ RewardInv(state)

QuietInv ==
  phase \in {"opening", "ticking", "closing", "assembling", "returned"} =>
    \A e \in Specs : eps[e].call # "none" => phase = "ticking" /\ e \in Wave

OutsInv ==
  phase = "returned" => outs = [e \in Specs |-> Example(e)] /\ \A e \in Specs : Trainable(Example(e))

(* The waves behind the driver have been started.                             *)
StartedInv ==
  /\ phase \in {"opening", "ticking", "closing"} => \A e \in Specs : e <= start => eps[e].started
  /\ phase = "closing" => \A e \in Wave : eps[e].started
  /\ phase \in {"assembling", "returned"} => \A e \in Specs : eps[e].started

TruthInv == IInv /\ (\A e \in Specs : Honest(e, eps[e])) /\ QuietInv /\ StartedInv /\ OutsInv

LEMMA TurnSpeaks ==
  ASSUME generated, NEW e \in Specs, NEW messages \in Seq(Messages), messages # <<>>, messages[1] = Told(e),
         NEW content \in Seq(Tokens), NEW call \in Calls, NEW ids \in Seq(Tokens),
         NEW sampled \in BOOLEAN, ~sampled => ids = <<>>
  PROVE  Spoken(e, E(e)!Turn(messages, content, call, ids, sampled))
<1> DEFINE m == E(e)!Turn(messages, content, call, ids, sampled)
           context == Context(messages)
<1>1. m = [role |-> "assistant", drawn |-> ids, content |-> content, call |-> call,
           prompt_ids |-> context, token_ids |-> ids, sampled |-> sampled]
  BY DEF E!Turn
<1>2. context \in Seq(Tokens) BY ContextIs
<1>3. <<"task", TaskOf[e]>> \in Range(context)
  <2> DEFINE t == <<"task", TaskOf[e]>>
  <2>1. Len(messages) >= 1 OBVIOUS
  <2>2. messages[1].content = <<t>> BY DEF Told
  <2>3. t \in Range(messages[1].content)
    <3> HIDE DEF t
    <3>1. 1 \in DOMAIN <<t>> /\ <<t>>[1] = t OBVIOUS
    <3> QED BY <2>2, <3>1 DEF Range
  <2> HIDE DEF t
  <2>4. t \in Range(context) BY <2>1, <2>3, ContextTells
  <2> QED BY <2>4 DEF t
<1> HIDE DEF context, m
<1>4. m \in Kept BY <1>1, <1>2 DEF Kept
<1>5. m.drawn = IF m.sampled THEN m.token_ids ELSE <<>> BY <1>1
<1>6. m.prompt_ids = context BY <1>1
<1>7. Spoken(e, m) BY <1>3, <1>4, <1>5, <1>6 DEF Spoken, Spoke
<1> QED BY <1>7 DEF m

LEMMA StartedHonest ==
  ASSUME NEW e \in Specs, NEW isDone \in BOOLEAN, NEW s, s = E(e)!started(isDone)
  PROVE  Honest(e, s)
<1>1. s = [started |-> TRUE, messages |-> <<Told(e)>>, call |-> "none", reply |-> <<>>,
           env |-> [won |-> FALSE, over |-> isDone], done |-> isDone, reward |-> 0]
  BY DEF E!started, E!NotStarted, E!Idle, Told
<1>2. RewardInv(s)
  <2>1. s.reply = <<>> /\ s.reward = 0 /\ s.env.won = FALSE BY <1>1
  <2>2. (s.reward = 1) = FALSE BY <2>1
  <2> QED BY <2>1, <2>2 DEF RewardInv
<1>3. TranscriptInv(e, s.messages)
  <2> DEFINE told == Told(e)
  <2>1. told.role = "user" BY DEF Told
  <2> HIDE DEF told
  <2>2. s.messages = <<told>> BY <1>1 DEF told
  <2>3. s.messages[1] = told /\ Len(s.messages) = 1 /\ \A i \in 1..1 : i = 1 BY <2>2
  <2> QED BY <2>1, <2>3 DEF TranscriptInv, told
<1> QED BY <1>2, <1>3 DEF Honest

(* A conversation stays honest when what is added is not the model's, or is      *)
(* what it said in this conversation.                                        *)
LEMMA TranscriptGrows ==
  ASSUME NEW e \in Specs, NEW messages \in Seq(Messages), Len(messages) >= 1, TranscriptInv(e, messages),
         NEW m \in Messages, m.role = "assistant" => Spoken(e, m)
  PROVE  TranscriptInv(e, Append(messages, m))
<1> DEFINE now == Append(messages, m)
           n   == Len(messages)
<1>1. n \in Nat /\ n >= 1 OBVIOUS
<1>2. now \in Seq(Messages) /\ Len(now) = n + 1 /\ now[n + 1] = m /\ \A i \in 1..n : now[i] = messages[i]
  BY AppendProperties
<1>3. messages # <<>> /\ 1 \in 1..n BY <1>1
<1> HIDE DEF now
<1>4. now[1] = Told(e) BY <1>2, <1>3 DEF TranscriptInv
<1>5. ASSUME NEW i \in 1..Len(now), now[i].role = "assistant" PROVE Spoken(e, now[i])
  <2>1. CASE i = n + 1 BY <1>2, <1>5, <2>1
  <2>2. CASE i # n + 1
    <3>1. i \in 1..n BY <1>1, <1>2, <2>2
    <3> QED BY <1>2, <1>3, <1>5, <3>1 DEF TranscriptInv
  <2> QED BY <2>1, <2>2
<1>6. TranscriptInv(e, now) BY <1>4, <1>5 DEF TranscriptInv
<1> QED BY <1>6 DEF now

LEMMA BegunHonest ==
  ASSUME NEW e \in Specs, NEW state, EpisodeInv(state), Honest(e, state), state.started, state.call = "none",
         NEW m, IsTurn(m), Spoken(e, m), NEW s, s = E(e)!begun(state, m)
  PROVE  Honest(e, s)
<1>1. state \in States /\ state.reply = <<>> BY DEF EpisodeInv
<1>2. m \in Messages /\ m.call \in Calls BY DEF IsTurn
<1> DEFINE now == Append(state.messages, m)
<1>3. s = [state EXCEPT !.messages = now, !.call = m.call] BY DEF E!begun
<1>4. state.messages \in Seq(Messages) /\ Len(state.messages) >= 1 BY <1>1 DEF States, EpisodeInv
<1>5. TranscriptInv(e, now) BY <1>2, <1>4, TranscriptGrows DEF Honest
<1> HIDE DEF now
<1>6. s.messages = now /\ s.reply = state.reply /\ s.env = state.env /\ s.reward = state.reward
  BY <1>1, <1>3 DEF States
<1>7. RewardInv(s) BY <1>6 DEF Honest, RewardInv
<1> QED BY <1>5, <1>6, <1>7 DEF Honest

LEMMA ServedHonest ==
  ASSUME NEW e \in Specs, NEW state, EpisodeInv(state), Honest(e, state), state.call # "none",
         NEW r \in E(e)!Answers(state.call), NEW s, s = E(e)!served(state, r)
  PROVE  Honest(e, s)
<1>1. state \in States BY DEF EpisodeInv
<1> DEFINE found == [won |-> r.won, over |-> r.over]
<1>2. s = [state EXCEPT !.env = found, !.reply = <<r>>] BY DEF E!served
<1>3. found.won = r.won OBVIOUS
<1> HIDE DEF found
<1>4. s.messages = state.messages /\ s.env = found /\ s.reply = <<r>> BY <1>1, <1>2 DEF States
<1>5. s.reply # <<>> /\ s.reply[1] = r BY <1>4
<1> QED BY <1>3, <1>4, <1>5 DEF Honest, RewardInv

LEMMA FoldedHonest ==
  ASSUME NEW e \in Specs, NEW state, EpisodeInv(state), Honest(e, state), state.reply # <<>>,
         NEW s, s = E(e)!folded(state)
  PROVE  Honest(e, s)
<1>1. state \in States /\ state.call # "none" BY DEF EpisodeInv
<1>2. PICK r \in Replies : state.reply = <<r>> BY <1>1 DEF States
<1>3. state.reply[1] = r BY <1>2
<1>4. state.messages \in Seq(Messages) /\ Len(state.messages) \in Nat /\ Len(state.messages) >= 1
  BY <1>1 DEF States, EpisodeInv
<1> DEFINE text == [i \in 1..r.size |-> <<"result", e, Len(state.messages), i>>]
           said == [role |-> "tool", content |-> text]
           now  == IF r.over THEN state.messages ELSE Append(state.messages, said)
           pays == IF r.won THEN 1 ELSE 0
<1>5. r.size \in Nat /\ r.over \in BOOLEAN /\ r.won \in BOOLEAN
  <2>1. r \in Replies BY <1>2
  <2> HIDE DEF text, said, now, pays
  <2>2. r.size \in Results \cup {0} /\ r.over \in BOOLEAN /\ r.won \in BOOLEAN BY <2>1 DEF Replies
  <2>3. Results \cup {0} \subseteq Nat BY Bounds
  <2> QED BY <2>2, <2>3
<1>6. said \in Messages /\ said.role = "tool"
  <2>1. \A i \in 1..r.size : <<"result", e, Len(state.messages), i>> \in Tokens BY <1>4, <1>5 DEF Tokens
  <2>2. text \in Seq(Tokens) BY <1>5, <2>1
  <2> HIDE DEF text
  <2> QED BY <2>2 DEF Messages, Heard
<1>7. s = [state EXCEPT !.call = "none", !.reply = <<>>, !.done = r.over, !.reward = pays, !.messages = now]
  BY <1>3 DEF E!folded, E!Idle
<1> HIDE DEF said
<1>8. TranscriptInv(e, now)
  <2>1. TranscriptInv(e, state.messages) BY DEF Honest
  <2>2. TranscriptInv(e, Append(state.messages, said)) BY <1>4, <1>6, <2>1, TranscriptGrows
  <2> QED BY <2>1, <2>2
<1>9. state.env.won = r.won BY <1>2, <1>3 DEF Honest, RewardInv
<1>10. (pays = 1) = r.won BY <1>5
<1> HIDE DEF now, pays
<1>11. s.messages = now /\ s.reward = pays /\ s.env = state.env /\ s.reply = <<>> BY <1>1, <1>7 DEF States
<1> QED BY <1>8, <1>9, <1>10, <1>11 DEF Honest, RewardInv

(* An episode driven alone stays honest, and so one in a batch does.           *)
LEMMA SampledSpeaks ==
  ASSUME generated, NEW e \in Specs, NEW messages \in Seq(Messages), messages # <<>>, messages[1] = Told(e),
         NEW cap \in Nat, NEW m \in E(e)!Sampled(messages, cap)
  PROVE  Spoken(e, m)
<1>1. PICK content \in Seq(Tokens), call \in Calls, ids \in Seq(Tokens) :
        m = E(e)!Turn(messages, content, call, ids, TRUE)
  BY SampledAre
<1> QED BY <1>1, TurnSpeaks

LEMMA AloneIsHonest ==
  ASSUME generated, NEW e \in Specs, EpisodeInv(eps[e]), Honest(e, eps[e]), Alone(e)
  PROVE  Honest(e, eps'[e])
<1>1. CASE eps'[e] = eps[e] BY <1>1
<1>2. CASE E(e)!Start
  <2>1. PICK isDone \in BOOLEAN : eps'[e] = E(e)!started(isDone) BY <1>2 DEF E!Start
  <2> QED BY <2>1, StartedHonest
<1>3. CASE E(e)!Decide
  <2>1. eps[e].started /\ eps[e].call = "none" BY <1>3 DEF E!Decide, E!Idle
  <2>2. eps[e].messages \in Seq(Messages) /\ Len(eps[e].messages) >= 1 BY <2>1 DEF EpisodeInv, States
  <2>3. eps[e].messages # <<>> BY <2>2
  <2>4. eps[e].messages[1] = Told(e) BY <2>3 DEF Honest, TranscriptInv
  <2>5. \E m : IsTurn(m) /\ Spoken(e, m) /\ eps'[e] = E(e)!begun(eps[e], m)
    <3>1. CASE eps'[e] = E(e)!begun(eps[e], E(e)!FinishTurn(eps[e].messages))
      <4> DEFINE m == E(e)!FinishTurn(eps[e].messages)
      <4>1. m = E(e)!Turn(eps[e].messages, << <<"finish">> >>, "episode.finish", <<>>, FALSE) BY DEF E!FinishTurn
      <4>2. << <<"finish">> >> \in Seq(Tokens) BY NamedTokens, OneToken
      <4>3. <<>> \in Seq(Tokens) /\ "episode.finish" \in Calls /\ FALSE \in BOOLEAN BY DEF Calls
      <4>4. IsTurn(m) BY <2>2, FinishIs
      <4>5. Spoken(e, m) BY <2>2, <2>3, <2>4, <4>1, <4>2, <4>3, TurnSpeaks
      <4> QED BY <3>1, <4>4, <4>5
    <3>2. ASSUME NEW cap \in 1..max_turn_tokens, NEW m \in E(e)!Sampled(eps[e].messages, cap),
                 eps'[e] = E(e)!begun(eps[e], m)
          PROVE  \E turn : IsTurn(turn) /\ Spoken(e, turn) /\ eps'[e] = E(e)!begun(eps[e], turn)
      <4>1. cap \in Nat BY Bounds
      <4>2. IsTurn(m) BY <2>2, <4>1, SampledIs
      <4>3. Spoken(e, m) BY <2>2, <2>3, <2>4, <4>1, SampledSpeaks
      <4> QED BY <3>2, <4>2, <4>3
    <3> QED BY <1>3, <3>1, <3>2 DEF E!Decide
  <2>6. PICK m : IsTurn(m) /\ Spoken(e, m) /\ eps'[e] = E(e)!begun(eps[e], m) BY <2>5
  <2> QED BY <2>1, <2>6, BegunHonest
<1>4. CASE E(e)!Serve
  <2>1. eps[e].call # "none" BY <1>4 DEF E!Serve, E!Idle
  <2>2. PICK r \in E(e)!Answers(eps[e].call) : eps'[e] = E(e)!served(eps[e], r) BY <1>4 DEF E!Serve
  <2> QED BY <2>1, <2>2, ServedHonest
<1>5. CASE E(e)!Fold
  <2>1. eps[e].reply # <<>> /\ eps'[e] = E(e)!folded(eps[e]) BY <1>5 DEF E!Fold
  <2> QED BY <2>1, FoldedHonest
<1> QED BY <1>1, <1>2, <1>3, <1>4, <1>5 DEF Alone, E!Next

(* An episode that has started stays so.                                      *)
LEMMA StaysStarted ==
  ASSUME NEW e \in Specs, EpisodeInv(eps[e]), eps[e].started, Alone(e)
  PROVE  eps'[e].started
<1>1. eps[e] \in States BY DEF EpisodeInv
<1>2. ~E(e)!Start BY DEF E!Start
<1>3. ASSUME NEW m, eps'[e] = E(e)!begun(eps[e], m) PROVE eps'[e].started
  BY <1>1, <1>3 DEF E!begun, States
<1>4. ASSUME NEW r, eps'[e] = E(e)!served(eps[e], r) PROVE eps'[e].started
  BY <1>1, <1>4 DEF E!served, States
<1>5. ASSUME eps'[e] = E(e)!folded(eps[e]) PROVE eps'[e].started
  BY <1>1, <1>5 DEF E!folded, States
<1> QED BY <1>2, <1>3, <1>4, <1>5 DEF Alone, E!Next, E!Decide, E!Serve, E!Fold

LEMMA StartedKeeps ==
  ASSUME IInv, StartedInv, [Next]_vars
  PROVE  StartedInv'
<1>1. ASSUME NEW e \in Specs, eps[e].started PROVE eps'[e].started
  <2>1. Alone(e) /\ EpisodeInv(eps[e]) BY StepIsAlone DEF IInv, EpisodesInv
  <2> QED BY <1>1, <2>1, StaysStarted
<1>2. CASE phase' = phase /\ start' = start
  <2>1. Wave' = Wave /\ \A e \in Wave : e \in Specs BY <1>2 DEF Wave
  <2> QED BY <1>1, <1>2, <2>1 DEF StartedInv
<1>3. CASE phase' \in {"unwinding", "raised"} BY <1>3 DEF StartedInv
<1>4. CASE AllOpen
  <2>1. phase = "opening" /\ phase' = "ticking" /\ start' = start BY <1>4 DEF AllOpen
  <2> QED BY <1>1, <2>1 DEF StartedInv
<1>5. CASE TicksEnd
  <2>1. phase = "ticking" /\ phase' = "closing" /\ start' = start BY <1>5 DEF TicksEnd
  <2>2. \A e \in Wave : eps[e].started /\ e \in Specs BY <2>1 DEF IInv, LinkInv, WaveInv, Wave
  <2>3. Wave' = Wave BY <2>1 DEF Wave
  <2> QED BY <1>1, <2>1, <2>2, <2>3 DEF StartedInv
<1>6. CASE NextWave
  <2>1. phase = "closing" /\ start' = start + concurrency
        /\ phase' = IF start' < Cardinality(Specs) THEN "opening" ELSE "assembling"
    BY <1>6 DEF NextWave
  <2>2. start \in Int /\ concurrency \in Int /\ Cardinality(Specs) \in Int BY Bounds DEF IInv, ControlInv
  <2>3. ASSUME NEW e \in Specs, e <= start' PROVE eps'[e].started
    <3>1. e <= start \/ e \in Wave
      <4>1. e \in Int BY Bounds
      <4> QED BY <2>1, <2>2, <2>3, <4>1 DEF Wave
    <3> QED BY <1>1, <2>1, <3>1 DEF StartedInv
  <2>4. phase' = "assembling" => \A e \in Specs : e <= start'
    <3> SUFFICES ASSUME phase' = "assembling", NEW e \in Specs PROVE e <= start' OBVIOUS
    <3>1. ~(start' < Cardinality(Specs)) BY <2>1
    <3>2. e \in 1..Cardinality(Specs) BY Bounds
    <3> QED BY <2>1, <2>2, <3>1, <3>2
  <2>5. phase' \in {"opening", "assembling"} BY <2>1
  <2> QED BY <2>3, <2>4, <2>5 DEF StartedInv
<1>7. CASE Assemble
  <2>1. phase = "assembling" /\ phase' \in {"returned", "raised"} BY <1>7 DEF Assemble
  <2> QED BY <1>1, <2>1 DEF StartedInv
<1> QED BY <1>2, <1>3, <1>4, <1>5, <1>6, <1>7 DEF Next, Driver, Terminated, vars, OpenClient, OpenFails, Advance,
        CloseLast, Unwound, Serve, Fold, StepRaises

(* Nobody acts outside the ticks of its own wave.                             *)
LEMMA QuietKeeps ==
  ASSUME IInv, QuietInv, [Next]_vars
  PROVE  QuietInv'
<1>1. ASSUME NEW e \in Specs, eps'[e].call # "none", phase' \in {"opening", "ticking", "closing", "assembling", "returned"}
      PROVE  phase' = "ticking" /\ e \in Wave'
  <2>1. CASE OpenClient
    <3>1. PICK d \in NextToOpen, isDone \in BOOLEAN : eps' = [eps EXCEPT ![d] = E(d)!started(isDone)]
      BY <2>1 DEF OpenClient
    <3>2. phase = "opening" /\ eps \in [Specs -> States] /\ d \in Specs
      BY <2>1 DEF OpenClient, IInv, EpisodesInv, NextToOpen, Wave
    <3>3. eps[e].call = "none" BY <3>2 DEF QuietInv
    <3>4. CASE e # d BY <1>1, <3>1, <3>2, <3>3, <3>4
    <3>5. CASE e = d
      <4>1. eps'[e] = E(e)!started(isDone) BY <3>1, <3>2, <3>5
      <4>2. E(e)!started(isDone).call = "none" BY DEF E!started, E!NotStarted, E!Idle
      <4> QED BY <1>1, <4>1, <4>2
    <3> QED BY <3>4, <3>5
  <2>2. CASE Advance
    <3>1. phase = "ticking" /\ phase' = phase /\ start' = start BY <2>2 DEF Advance
    <3>2. CASE e \in Active BY <3>1, <3>2 DEF Active, Wave
    <3>3. CASE e \notin Active
      <4>1. eps'[e] = eps[e] BY <2>2, <3>3, Advances
      <4> QED BY <1>1, <3>1, <4>1 DEF QuietInv, Wave
    <3> QED BY <3>2, <3>3
  <2>3. CASE OpenFails \/ Unwound
    BY <1>1, <2>3 DEF OpenFails, Unwound
  <2>4. CASE AllOpen
    <3>1. phase = "opening" /\ eps' = eps BY <2>4 DEF AllOpen
    <3> QED BY <1>1, <3>1 DEF QuietInv
  <2>5. CASE TicksEnd
    <3>1. phase = "ticking" /\ eps' = eps /\ Busy = {} BY <2>5 DEF TicksEnd
    <3>2. e \in Wave BY <1>1, <3>1 DEF QuietInv
    <3>3. e \in Busy BY <1>1, <3>1, <3>2 DEF Busy
    <3> QED BY <3>1, <3>3
  <2>6. CASE CloseLast
    <3>1. phase' = phase /\ eps' = eps /\ start' = start /\ phase # "ticking" BY <2>6 DEF CloseLast
    <3> QED BY <1>1, <3>1 DEF QuietInv
  <2>7. CASE NextWave
    <3>1. phase = "closing" /\ eps' = eps BY <2>7 DEF NextWave
    <3> QED BY <1>1, <3>1 DEF QuietInv
  <2>8. CASE Assemble
    <3>1. phase = "assembling" /\ eps' = eps BY <2>8 DEF Assemble
    <3> QED BY <1>1, <3>1 DEF QuietInv
  <2>9. ASSUME NEW d \in Specs, Serve(d) PROVE phase' = "ticking" /\ e \in Wave'
    <3>1. PICK r \in E(d)!Answers(eps[d].call) : eps' = [eps EXCEPT ![d] = E(d)!served(eps[d], r)] BY <2>9 DEF Serve
    <3>2. phase' = phase /\ start' = start /\ eps[d].call # "none" BY <2>9 DEF Serve
    <3>3. eps \in [Specs -> States] /\ EpisodeInv(eps[d]) BY DEF IInv, EpisodesInv
    <3>4. eps[e].call # "none"
      <4>1. CASE e = d BY <3>2, <4>1
      <4>2. CASE e # d BY <1>1, <3>1, <3>3, <4>2
      <4> QED BY <4>1, <4>2
    <3> QED BY <1>1, <3>2, <3>4 DEF QuietInv, Wave
  <2>10. ASSUME NEW d \in Specs, Fold(d) PROVE phase' = "ticking" /\ e \in Wave'
    <3>1. eps' = [eps EXCEPT ![d] = E(d)!folded(eps[d])] /\ phase' = phase /\ start' = start /\ eps[d].reply # <<>>
      BY <2>10 DEF Fold
    <3>2. eps \in [Specs -> States] /\ EpisodeInv(eps[d]) BY DEF IInv, EpisodesInv
    <3>3. eps[e].call # "none"
      <4>1. CASE e = d BY <3>1, <3>2, <4>1 DEF EpisodeInv
      <4>2. CASE e # d BY <1>1, <3>1, <3>2, <4>2
      <4> QED BY <4>1, <4>2
    <3> QED BY <1>1, <3>1, <3>3 DEF QuietInv, Wave
  <2>11. ASSUME NEW d \in Specs, StepRaises(d) PROVE phase' = "ticking" /\ e \in Wave'
    BY <1>1, <2>11 DEF StepRaises
  <2>12. CASE UNCHANGED vars
    <3>1. phase' = phase /\ start' = start /\ eps' = eps BY <2>12 DEF vars
    <3> QED BY <1>1, <3>1 DEF QuietInv, Wave
  <2> QED BY <2>1, <2>2, <2>3, <2>4, <2>5, <2>6, <2>7, <2>8, <2>9, <2>10, <2>11, <2>12 DEF Next, Driver, Terminated
<1> QED BY <1>1 DEF QuietInv

(* Once the examples are returned, nothing changes.                           *)
LEMMA OutsKeep ==
  ASSUME IInv, QuietInv, OutsInv, [Next]_vars
  PROVE  OutsInv'
<1>1. CASE phase = "returned"
  <2>1. \A e \in Specs : eps[e].call = "none" /\ eps[e].reply = <<>>
    <3> SUFFICES ASSUME NEW e \in Specs PROVE eps[e].call = "none" /\ eps[e].reply = <<>> OBVIOUS
    <3>1. eps[e].call = "none" BY <1>1 DEF QuietInv
    <3>2. EpisodeInv(eps[e]) BY DEF IInv, EpisodesInv
    <3> QED BY <3>1, <3>2 DEF EpisodeInv
  <2>2. ~Driver BY <1>1 DEF Driver, OpenClient, OpenFails, AllOpen, Advance, TicksEnd, CloseLast, NextWave, Unwound, Assemble
  <2>3. \A e \in Specs : ~Serve(e) /\ ~Fold(e) /\ ~StepRaises(e) BY <2>1 DEF Serve, Fold, StepRaises
  <2>4. UNCHANGED vars BY <2>2, <2>3 DEF Next, Terminated
  <2>5. phase' = phase /\ eps' = eps /\ outs' = outs BY <2>4 DEF vars
  <2> QED BY <2>5 DEF OutsInv, Example
<1>2. CASE phase # "returned"
  <2>1. CASE Assemble
    <3>1. eps' = eps BY <2>1 DEF Assemble
    <3>2. \A e \in Specs : Example(e)' = Example(e) BY <3>1 DEF Example
    <3>3. phase' = "returned" => outs' = [e \in Specs |-> Example(e)] /\ \A e \in Specs : Trainable(Example(e))
      BY <2>1 DEF Assemble
    <3> QED BY <3>2, <3>3 DEF OutsInv
  <2>2. CASE ~Assemble
    <3>1. phase' # "returned"
      BY <1>2, <2>2 DEF Next, Driver, Terminated, vars, OpenClient, OpenFails, AllOpen, Advance, TicksEnd, CloseLast,
                        NextWave, Unwound, Serve, Fold, StepRaises
    <3> QED BY <3>1 DEF OutsInv
  <2> QED BY <2>1, <2>2
<1> QED BY <1>1, <1>2

LEMMA TruthStarts ==
  ASSUME Init
  PROVE  TruthInv
<1>1. IInv BY InitHolds
<1>2. phase = "opening" /\ \A e \in Specs : eps[e] = E(e)!NotStarted BY DEF Init
<1>3. ASSUME NEW e \in Specs PROVE Honest(e, eps[e]) /\ eps[e].call = "none"
  <2>1. eps[e] = [started |-> FALSE, messages |-> <<>>, call |-> "none", reply |-> <<>>,
                  env |-> [won |-> FALSE, over |-> FALSE], done |-> FALSE, reward |-> 0]
    BY <1>2 DEF E!NotStarted, E!Idle
  <2>2. eps[e].messages = <<>> /\ eps[e].reply = <<>> /\ eps[e].reward = 0 /\ eps[e].env.won = FALSE
        /\ eps[e].call = "none"
    BY <2>1
  <2>3. (eps[e].reward = 1) = FALSE BY <2>2
  <2> QED BY <2>2, <2>3 DEF Honest, TranscriptInv, RewardInv
<1>4. QuietInv BY <1>3 DEF QuietInv
<1>5. OutsInv BY <1>2 DEF OutsInv
<1>6. StartedInv
  <2>1. start = 0 /\ \A e \in Specs : e \in Nat \ {0} BY Bounds DEF Init
  <2>2. \A e \in Specs : ~(e <= start) BY <2>1
  <2> QED BY <1>2, <2>2 DEF StartedInv
<1> QED BY <1>1, <1>3, <1>4, <1>5, <1>6 DEF TruthInv

LEMMA TruthKeeps ==
  ASSUME generated, TruthInv, [Next]_vars
  PROVE  TruthInv'
<1>1. IInv /\ QuietInv /\ StartedInv /\ OutsInv /\ \A e \in Specs : Honest(e, eps[e]) BY DEF TruthInv
<1>2. IInv' BY <1>1, NextKeeps
<1>3. \A e \in Specs : Honest(e, eps'[e])
  <2> SUFFICES ASSUME NEW e \in Specs PROVE Honest(e, eps'[e]) OBVIOUS
  <2>1. Alone(e) BY <1>1, StepIsAlone
  <2>2. EpisodeInv(eps[e]) BY <1>1 DEF IInv, EpisodesInv
  <2> QED BY <1>1, <2>1, <2>2, AloneIsHonest
<1>4. QuietInv' BY <1>1, QuietKeeps
<1>5. OutsInv' BY <1>1, OutsKeep
<1>6. StartedInv' BY <1>1, StartedKeeps
<1> QED BY <1>2, <1>3, <1>4, <1>5, <1>6 DEF TruthInv

(* An example that is trained on marks what was drawn in its conversation.       *)
LEMMA ExampleIsTrue ==
  ASSUME generated, NEW e \in Specs, EpisodeInv(eps[e]), Honest(e, eps[e]), eps[e].started, Trainable(Example(e))
  PROVE  /\ Marked(Example(e).completion_ids, Example(e).completion_mask) = Drawn(eps[e].messages)
         /\ <<"task", TaskOf[e]>> \in Range(Example(e).prompt_ids)
         /\ Example(e).reward = eps[e].reward
<1> DEFINE messages == eps[e].messages
           turns    == AssistantTurns(messages, 1)
           made     == to_grpo_example(messages, 1)
<1>1. messages \in Seq(Messages) BY DEF EpisodeInv, States
<1>2. /\ Example(e).prompt_ids = made.prompt_ids /\ Example(e).completion_ids = made.completion_ids
      /\ Example(e).completion_mask = made.completion_mask /\ Example(e).raised = made.raised
      /\ Example(e).reward = eps[e].reward
  BY DEF Example
<1> HIDE DEF made
<1>3. ~made.raised /\ \E t \in DOMAIN made.completion_mask : made.completion_mask[t] = 1
  BY <1>2 DEF Trainable
<1>4. TranscriptInv(e, messages) BY DEF Honest
<1>5. Len(messages) >= 1 /\ messages # <<>> BY <1>1 DEF EpisodeInv
<1>6. messages[1].role # "assistant" BY <1>4, <1>5 DEF TranscriptInv, Told
<1>7. \A i \in turns : Spoken(e, messages[i]) /\ Spoke(messages[i])
  <2> SUFFICES ASSUME NEW i \in turns PROVE Spoken(e, messages[i]) /\ Spoke(messages[i]) OBVIOUS
  <2>1. i \in 1..Len(messages) /\ messages[i].role = "assistant" BY <1>1 DEF AssistantTurns
  <2> QED BY <1>4, <1>5, <2>1 DEF TranscriptInv, Spoken
<1>12. \A i \in turns : IsGenerated(messages[i])
  <2> SUFFICES ASSUME NEW i \in turns PROVE "token_ids" \in DOMAIN messages[i] BY DEF IsGenerated
  <2>1. messages[i] \in Kept BY <1>7 DEF Spoke
  <2> QED BY <2>1 DEF Kept
<1>8. turns # {}
  <2>1. turns = {} => made = build_masked_completion(messages, 1) BY DEF made, to_grpo_example
  <2> QED BY <1>1, <1>3, <1>5, <2>1, SilenceTrainsNothing
<1>9. made = FromSamples(messages, turns) BY <1>8, <1>12 DEF made, to_grpo_example
<1>10. /\ Marked(made.completion_ids, made.completion_mask) = Drawn(messages)
       /\ \E i \in turns : made.prompt_ids = messages[i].prompt_ids
  <2> HIDE DEF messages, turns
  <2>1. turns = AssistantTurns(messages, 1) BY DEF turns
  <2>2. ~FromSamples(messages, turns).raised BY <1>3, <1>9
  <2> QED BY <1>1, <1>5, <1>6, <1>7, <1>8, <1>9, <2>1, <2>2, FromSamplesIs
<1>11. <<"task", TaskOf[e]>> \in Range(made.prompt_ids) BY <1>7, <1>10 DEF Spoken
<1> QED BY <1>2, <1>10, <1>11

(* When turns keep the tokens that were sampled (the HF generator), every       *)
(* example returned marks what the model drew in that episode and nothing else, *)
(* under that episode's task and with the reward its environment found earned,  *)
(* whatever the chat template does and however the batch interleaved.  Without   *)
(* kept turns it is false: InsertedIsNotTrained is violated.                   *)
THEOREM TrainsOnTruth ==
  ASSUME generated
  PROVE  Spec => []TrainsOnWhatHappened
<1>1. Init => TruthInv BY TruthStarts
<1>2. TruthInv /\ [Next]_vars => TruthInv' BY TruthKeeps
<1>3. TruthInv => TrainsOnWhatHappened
  <2> SUFFICES ASSUME TruthInv, phase = "returned", NEW e \in Specs
               PROVE  /\ Marked(outs[e].completion_ids, outs[e].completion_mask) = Drawn(eps[e].messages)
                      /\ <<"task", TaskOf[e]>> \in Range(outs[e].prompt_ids)
                      /\ (outs[e].reward = 1) = eps[e].env.won
    BY DEF TrainsOnWhatHappened
  <2>1. EpisodeInv(eps[e]) /\ Honest(e, eps[e]) /\ eps[e].started BY DEF TruthInv, IInv, EpisodesInv, StartedInv
  <2>2. outs[e] = Example(e) /\ Trainable(Example(e)) BY DEF TruthInv, OutsInv
  <2>3. eps[e].reply = <<>>
    <3>1. eps[e].call = "none" BY DEF TruthInv, QuietInv
    <3> QED BY <2>1, <3>1 DEF EpisodeInv
  <2>4. (eps[e].reward = 1) = eps[e].env.won BY <2>1, <2>3 DEF Honest, RewardInv
  <2> QED BY <2>1, <2>2, <2>4, ExampleIsTrue
<1> QED BY <1>1, <1>2, <1>3, PTL DEF Spec
=============================================================================
