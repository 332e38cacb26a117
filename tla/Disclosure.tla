----------------------------- MODULE Disclosure -----------------------------
(***************************************************************************)
(* What a task lets its policy see and name (tasks/disclosure.py).  A       *)
(* disclosure gives one level to each of five axes; a task configuration     *)
(* gives levels to some of them.  Operators only.                            *)
(***************************************************************************)
EXTENDS Addressing

DISCLOSURE_LEVELS ==
  [mapping   |-> {"physical", "logical_only", "opaque_handles"},
   adjacency |-> {"exact", "candidate_set", "hidden"},
   victim    |-> {"exact", "logical_addr", "row_handle", "cell_handle", "hidden_until_finish"},
   profile   |-> {"public_profile_id", "family_only", "hidden"},
   feedback  |-> {"full_trace", "summarized_counts", "reward_only"}]

DefaultDisclosure ==
  [mapping |-> "logical_only", adjacency |-> "hidden", victim |-> "hidden_until_finish",
   profile |-> "public_profile_id", feedback |-> "summarized_counts"]

(* Disclosure.from_config raises DisclosureConfigError unless this holds.    *)
known_levels(cfg) ==
  /\ DOMAIN cfg \subseteq DOMAIN DISCLOSURE_LEVELS
  /\ \A axis \in DOMAIN cfg : cfg[axis] \in DISCLOSURE_LEVELS[axis]

from_config(cfg) ==
  [axis \in DOMAIN DISCLOSURE_LEVELS |-> IF axis \in DOMAIN cfg THEN cfg[axis] ELSE DefaultDisclosure[axis]]

Handled(d) == d.victim \in {"row_handle", "cell_handle"}
handles_allowed(d) == d.mapping = "opaque_handles" \/ Handled(d)

direct_forms(d) ==
  CASE d.mapping = "physical" -> {"logical", "physical"}
    [] d.mapping = "logical_only" -> {"logical"}
    [] OTHER -> {}

allowed_forms(d) == direct_forms(d) \cup (IF handles_allowed(d) THEN {"handle"} ELSE {})

expose_coords(d) == d.mapping = "physical"
expose_victim(d) == d.victim = "exact"
trace_disclosed(d) == d.feedback = "full_trace"

(* Of the issued-command stream, the fields that hold no coordinate.          *)
PUBLIC_EVENT_KEYS == {"op", "clk", "type_id", "row_hit"}

(* project_trace, on the set of keys an event of the trace has.              *)
project_trace(d, keys) ==
  IF ~trace_disclosed(d) THEN {}
  ELSE IF expose_coords(d) THEN keys ELSE keys \cap PUBLIC_EVENT_KEYS

(* project_feedback, on the set of keys of a step's feedback block.          *)
project_feedback(d, keys) ==
  keys \ ((IF expose_victim(d) /\ expose_coords(d) THEN {} ELSE {"public_flips"})
          \cup (IF d.feedback = "reward_only" THEN {"trace_tail", "new_public_flips", "oracle_refreshes"} ELSE {}))

(* check_logical_addr                                                        *)
check_logical_addr(mapper, addr) == IF addr \in 0..mapper.capacity - 1 THEN addr ELSE BadSchema

(* AddressResolver.to_linear.  A handle's id is the address it was minted     *)
(* for: ids are hashes, so a policy names no handle it was not given.         *)
to_linear(mapper, d, handles, form) ==
  IF form.kind \notin allowed_forms(d) THEN NotDisclosed ELSE
  CASE form.kind = "logical" -> check_logical_addr(mapper, form.addr)
    [] form.kind = "physical" -> encode(mapper, form.coords)
    [] form.kind = "handle" -> IF form.addr \in handles THEN form.addr ELSE NotDisclosed
    [] OTHER -> BadSchema
=============================================================================
