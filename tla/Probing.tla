-------------------------------- MODULE Probing --------------------------------
(***************************************************************************)
(* What a policy measures and what the measurement earns while it trains:     *)
(* the expansion and validation of a dram.issue and the timing digest of its   *)
(* events (phase2_env.py), and the two shaping scores computed from a          *)
(* transcript's digests (llm/shaping.py).                                     *)
(*                                                                         *)
(* A command is [op, rows, count, ok]: the addresses it names, its count under *)
(* whichever of its aliases is first, and whether its other arguments parse.   *)
(* An address is [form, id]; the device knows where each id lies.             *)
(***************************************************************************)
EXTENDS Integers, FiniteSets, SequencesExt

CONSTANTS
  NoCount, Malformed,       \* a count that is absent; one that is no non-negative integer
  Place,                    \* id -> <<bank, row>> of the addresses that resolve
  MAX_ISSUE_ACTIVATIONS,    \* primitives of an issue
  MAX_DIGEST_ADDR_TOKENS,   \* places an issue may name
  MAX_PROBE,                \* primitives of a probe that counts (128)
  ACT_BUDGET                \* activations of an episode

PROBE_ROW_COUNT   == 2
MIN_READS_PER_ROW == 2
MIN_PROBE         == 4
SATURATES         == 4      \* probes, of PER_PROBE_BONUS = 1/4 each

-----------------------------------------------------------------------------
(* An issue: its compact forms expand to primitives, or it is refused whole.  *)

_explicit_count(command, default) == IF command.count = NoCount THEN default ELSE command.count

Primitive(op, addr, ok) == [op |-> op, addr |-> addr, ok |-> ok]

Sweep(rows)    == [j \in DOMAIN rows |-> Primitive("RD", rows[j], TRUE)]
Times(seq, n)  == FlattenSeq([i \in 1..n |-> seq])

Expanded(command) ==
  LET hammer == command.op = "HAMMER"
      n == _explicit_count(command, IF hammer THEN Malformed ELSE 1)
  IN IF command.op \notin {"HAMMER", "RD", "WR", "WAIT"} \/ n = Malformed \/ (hammer /\ command.rows = <<>>) THEN Malformed
     ELSE Times(IF hammer THEN Sweep(command.rows) ELSE <<Primitive(command.op, command.rows[1], command.ok)>>, n)

expand_commands(commands) ==
  LET emit(out, command) ==
        LET more == Expanded(command)
        IN IF Malformed \in {out, more} \/ Len(out) + Len(more) > MAX_ISSUE_ACTIVATIONS THEN Malformed ELSE out \o more
  IN FoldLeft(emit, <<>>, commands)

(* The digest's key of an address, and the shaping's name of it.              *)
_digest_addr_key(addr) == <<IF addr.form = "int" THEN "logical" ELSE addr.form, addr.id>>
_address_token(addr) ==
  CASE addr.form = "int" -> <<"logical", addr.id>> [] addr.form = "physical" -> <<"json", addr.id>>
    [] OTHER -> <<addr.form, addr.id>>

Addressed(primitives) == SelectSeq(primitives, LAMBDA c : c.op # "WAIT")

Resolves(addr) == addr.id \in DOMAIN Place

_validate_issue(primitives) ==
  /\ \A i \in DOMAIN primitives : primitives[i].ok
  /\ LET at == Addressed(primitives) IN
     /\ \A i \in DOMAIN at : Resolves(at[i].addr)
     /\ Cardinality({_digest_addr_key(at[i].addr) : i \in DOMAIN at}) <= MAX_DIGEST_ADDR_TOKENS

-----------------------------------------------------------------------------
(* The device keeps one row of each bank open; an access to another one forces *)
(* an activation, and is itself always a hit.  The digest counts both.         *)

NoDigest == [acts |-> 0, hits |-> <<>>]

absorb(digest, key, forced) ==
  [acts |-> digest.acts + (IF forced THEN 1 ELSE 0),
   hits |-> [k \in DOMAIN digest.hits \cup {key} |->
              (IF k \in DOMAIN digest.hits THEN digest.hits[k] ELSE 0) + (IF k = key THEN 1 ELSE 0)]]

(* One primitive: nothing is sent once the episode's activations are spent.    *)
Access(state, command) ==
  LET bank == Place[command.addr.id][1]
      row  == Place[command.addr.id][2]
      forced == state.open[bank] # row
  IN IF state.acts >= ACT_BUDGET THEN [state EXCEPT !.done = TRUE]
     ELSE IF command.op = "WAIT" THEN state
     ELSE [state EXCEPT !.open[bank] = row, !.acts = @ + (IF forced THEN 1 ELSE 0),
                        !.digest = absorb(@, _digest_addr_key(command.addr), forced)]

(* One step of an episode: an issue that is refused touches nothing, one that    *)
(* runs out of activations ends the episode.                                  *)
Issue(state, commands) ==
  LET primitives == expand_commands(commands)
      idle       == [state EXCEPT !.digest = NoDigest]
      after      == FoldLeft(Access, idle, primitives)
  IN IF primitives = Malformed \/ ~_validate_issue(primitives) THEN [idle EXCEPT !.error = TRUE]
     ELSE [after EXCEPT !.error = after.done]

Cold == [open |-> [bank \in {Place[id][1] : id \in DOMAIN Place} |-> 0], acts |-> 0, done |-> FALSE,
         error |-> FALSE, digest |-> NoDigest]

(* At a feedback level without the trace the policy gets no digest, and neither  *)
(* does the transcript.                                                      *)
_timing_digest(digest, traced) == IF traced THEN digest ELSE NoDigest

(* An episode, as its transcript keeps it.                                    *)
trajectory(issues, traced) ==
  LET state[n \in 0..Len(issues)] ==
        IF n = 0 THEN Cold ELSE IF state[n - 1].done THEN state[n - 1] ELSE Issue(state[n - 1], issues[n])
  IN [n \in {i \in DOMAIN issues : ~state[i - 1].done} |->
       [commands |-> issues[n], error |-> state[n].error, digest |-> _timing_digest(state[n].digest, traced)]]

-----------------------------------------------------------------------------
(* Decisive probes: two rows read in turn, with or without forced activations.  *)

is_decisive_probe(step) ==
  /\ Cardinality(DOMAIN step.digest.hits) = PROBE_ROW_COUNT
  /\ \A key \in DOMAIN step.digest.hits : step.digest.hits[key] >= MIN_READS_PER_ROW
  /\ step.digest.acts = 0 \/ step.digest.acts >= PROBE_ROW_COUNT

count_decisive_probes(traj) == Cardinality({i \in DOMAIN traj : is_decisive_probe(traj[i])})

(* What the call said it would issue, however malformed.                      *)
n_commands(commands) ==
  LET lenient(command) ==
        LET n == _explicit_count(command, IF command.op = "HAMMER" THEN 0 ELSE 1)
            k == IF n = Malformed THEN (IF command.op = "HAMMER" THEN 0 ELSE 1) ELSE n
        IN CASE command.op = "HAMMER" -> k * Len(command.rows) [] command.op \in {"RD", "WR", "WAIT"} -> k [] OTHER -> 0
  IN FoldLeft(LAMBDA n, command : n + lenient(command), 0, commands)

(* The step alternates reads of the target and of candidate c, and its digest   *)
(* shows either no forced activation or one for each read after the first.      *)
Measures(meta, step, c) ==
  LET primitives == expand_commands(step.commands)
      target == _address_token(meta.target)
  IN /\ ~step.error /\ is_decisive_probe(step)
     /\ n_commands(step.commands) <= MAX_PROBE
     /\ primitives # Malformed /\ Len(primitives) \in MIN_PROBE..MAX_PROBE /\ Len(primitives) % 2 = 0
     /\ \A i \in DOMAIN primitives : primitives[i].op = "RD"
     /\ c # target
     /\ \E first \in {c, target} : \A i \in DOMAIN primitives :
          _address_token(primitives[i].addr) =
            IF i % 2 = 1 THEN first ELSE IF first = c THEN target ELSE c
     /\ DOMAIN step.digest.hits = {c, target}
     /\ step.digest.acts = 0 \/ step.digest.acts >= Len(primitives) - 1

Candidates(meta) == {_address_token(c) : c \in ToSet(meta.candidates)}

unique_probe_candidates(meta, traj) ==
  {c \in Candidates(meta) : \E i \in DOMAIN traj : Measures(meta, traj[i], c)}

-----------------------------------------------------------------------------
(* A score is counted in parts of a whole.                                    *)

Whole(kind, meta) ==
  IF kind # "unique_candidate_probe" THEN SATURATES
  ELSE IF meta.candidates = <<>> THEN 1 ELSE Len(meta.candidates)

probe_shaping_reward(traj) ==
  LET n == count_decisive_probes(traj) IN IF n < SATURATES THEN n ELSE SATURATES

(* (A bug: a candidate that is measured again earns again.)                   *)
Farmed(meta, traj) == Cardinality({i \in DOMAIN traj : \E c \in Candidates(meta) : Measures(meta, traj[i], c)})

unique_probe_shaping_reward(meta, traj) == Cardinality(unique_probe_candidates(meta, traj))

Score(kind, meta, traj) ==
  IF kind = "unique_candidate_probe" THEN unique_probe_shaping_reward(meta, traj) ELSE probe_shaping_reward(traj)
=============================================================================
