---------------------------- MODULE TaskCompiler ----------------------------
(***************************************************************************)
(* How a reset turns a task configuration into an episode: the task is       *)
(* parsed and admitted, a worker is started under a public or a secret       *)
(* address mapper and reports its geometry, the target row is sampled, the    *)
(* window of candidates of a discovery family is searched for through the     *)
(* worker's decoder, and the handles are minted (tasks/compiler.py,           *)
(* mappers.py, and their callers in phase4_env.py and phase5_env.py).         *)
(*                                                                         *)
(* What the code draws from a hash of (task, seed) is any value here.  A      *)
(* candidate list is shuffled before it is used, so it is a set, with a       *)
(* count of the entries the code made.                                       *)
(***************************************************************************)
EXTENDS Disclosure

CONSTANTS
  Absent,             \* a key a configuration does not have
  Configs,            \* task configurations a session may be given
  Infos,              \* INFO answers of a worker
  SecretOffsets,      \* xor_offset of the admitted secret mappers
  BAND_CANDIDATES,    \* window width of each difficulty band
  FAR_ROW_MARGIN,     \* rows from the victim within which no far decoy sits
  RESERVED_KNOWN_ROW, \* the known row of a sampled-target family
  SAMPLED_MARGIN      \* rows at either end a sampled target keeps clear of

\* Device levels are named after DRAM's parts, never after a command's own keys.
ASSUME InfoAssumption == \A i \in Infos :
  /\ i.level_names \in Seq(STRING) /\ i.level_sizes \in Seq(Nat) /\ i.tx_bytes \in Nat /\ i.prefetch \in Nat
  /\ ToSet(i.level_names) \cap PUBLIC_EVENT_KEYS = {}

ASSUME MarginsAssumption ==
  /\ FAR_ROW_MARGIN \in Nat \ {0} /\ RESERVED_KNOWN_ROW \in Nat /\ SAMPLED_MARGIN \in Nat \ {0, 1}
  /\ \A band \in DOMAIN BAND_CANDIDATES : BAND_CANDIDATES[band] \in Nat /\ BAND_CANDIDATES[band] >= 2
  /\ SecretOffsets \subseteq Nat

(* A report that a reset plays with, and the banks of its device.            *)
Sound(dev) == validate_levels(dev) /\ Projectable(dev)
Width(m, f) == IF f \in Fields(m) THEN m.widths[f] ELSE 0
BanksOf(m) == 2^Width(m, "bankgroup") * 2^Width(m, "bank")

(* Every device has room for the widest window: rows on either side of a      *)
(* target, far rows for half of the decoys, and as many rows as the walk for   *)
(* the other half takes before it comes round.                               *)
HasRoom(m) ==
  LET rows == 2^m.widths["row"]
  IN /\ RESERVED_KNOWN_ROW + 4 <= rows /\ SAMPLED_MARGIN + 2 < rows
     /\ \A band \in DOMAIN BAND_CANDIDATES :
          LET half == (BAND_CANDIDATES[band] - 1) \div 2
          IN /\ half + 2 * FAR_ROW_MARGIN + 1 <= rows
             /\ \A k \in 0..half : k * (BanksOf(m) - 1) < half => (k + 1) * (FAR_ROW_MARGIN + 1) + FAR_ROW_MARGIN < rows

ASSUME RoomAssumption == \A dev \in Infos : Sound(dev) => HasRoom(AddressMapper(dev))

\* Every DRAMSpec has its Bank level above its Row.
ASSUME BankAssumption == \A dev \in Infos : Sound(dev) => "bank" \in Fields(AddressMapper(dev))

\* Every organization addresses far less than a machine word can (DDR4: 27 bits).
ASSUME WordAssumption == \A dev \in Infos : Sound(dev) => AddrBits(AddressMapper(dev)) < 64

(* On the words of an address, BitXor is the machine's exclusive or.          *)
XorOn(n) ==
  \A a, b \in 0..2^n - 1 :
    /\ BitXor(a, b) \in 0..2^n - 1
    /\ \A p \in 0..n - 1 : Bit(BitXor(a, b), p) <=> ~(Bit(a, p) <=> Bit(b, p))

ASSUME XorAssumption == \A dev \in Infos : Sound(dev) => XorOn(AddrBits(AddressMapper(dev)))

VARIABLES
  config,      \* the task configuration
  info,        \* what the worker reports of its device
  phase,       \* how far the reset has come
  spec,        \* TaskSpec: family, objective, disclosure, difficulty
  mapper,      \* AddressMapper over that geometry, once it is taken
  active,      \* the worker's mapper: Public or a secret offset
  target_row,  \* the victim's row
  cands,       \* the candidates chosen so far
  need,        \* far and different-bank decoys the window still wants
  made,        \* different-bank decoys made
  r,           \* the row the next of them come from
  handles      \* addresses a handle has been minted for

vars == <<config, info, phase, spec, mapper, active, target_row, cands, need, made, r, handles>>

----------------------------------------------------------------------------
(* Task families and their default disclosures.                              *)

Family(objective, mapping, adjacency, victim, feedback, kind, secret) ==
  [objective |-> objective, kind |-> kind, secret |-> secret,
   disclosure |-> [mapping |-> mapping, adjacency |-> adjacency, victim |-> victim,
                   profile |-> "public_profile_id", feedback |-> feedback]]

FamilyOnly(family) == [family EXCEPT !.disclosure.profile = "family_only"]
Exact(objective, kind) == Family(objective, "physical", "exact", "exact", "summarized_counts", kind, FALSE)

FAMILIES ==
  [known_target_anybit |-> Exact("target_row_flip", "known"),
   target_row          |-> Exact("target_row_flip", "sampled"),
   target_cell         |-> Exact("target_cell_flip", "known"),
   pattern_target      |-> Exact("pattern_target", "known"),
   mitigation_aware    |-> Exact("mitigation_aware", "known"),
   any_flip            |-> Family("any_flip", "physical", "exact", "hidden_until_finish", "summarized_counts", "sampled", FALSE),
   hidden_target       |-> Family("target_row_flip", "logical_only", "hidden", "row_handle", "summarized_counts", "known", FALSE),
   hidden_adjacency    |-> Family("target_row_flip", "logical_only", "candidate_set", "logical_addr", "full_trace", "known", TRUE),
   unknown_adjacency   |-> Family("target_row_flip", "logical_only", "candidate_set", "row_handle", "summarized_counts", "known", FALSE),
   bounded_sweep       |-> Family("target_row_flip", "logical_only", "candidate_set", "row_handle", "full_trace", "known", TRUE),
   low_disclosure      |-> FamilyOnly(
     Family("target_row_flip", "logical_only", "hidden", "hidden_until_finish", "reward_only", "known", FALSE)),
   profile_generalization |-> FamilyOnly(
     Family("any_flip", "physical", "exact", "hidden_until_finish", "summarized_counts", "sampled", FALSE))]

OBJECTIVE_FAMILY ==
  [any_flip |-> "any_flip", target_cell_flip |-> "target_cell",
   pattern_target |-> "pattern_target", mitigation_aware |-> "mitigation_aware"]

given(cfg) == IF cfg.disclosure = Absent THEN <<>> ELSE cfg.disclosure

(* _derive_family, for a configuration that names none.                      *)
derive_family(cfg) ==
  LET disc == from_config(given(cfg))
  IN IF cfg.objective \in DOMAIN OBJECTIVE_FAMILY THEN OBJECTIVE_FAMILY[cfg.objective]
     ELSE IF disc.victim = "logical_addr" THEN "hidden_adjacency"
     ELSE IF disc.adjacency = "candidate_set" THEN "unknown_adjacency"
     ELSE IF disc.mapping = "physical" /\ disc.victim = "exact" THEN "known_target_anybit"
     ELSE IF Handled(disc) THEN "hidden_target"
     ELSE "low_disclosure"

canonical(name) == IF name = "known_target" THEN "known_target_anybit" ELSE name

family_of(cfg) ==
  IF cfg.family # Absent THEN canonical(cfg.family)
  ELSE IF \A key \in DOMAIN cfg : cfg[key] = Absent THEN "known_target_anybit"
  ELSE derive_family(cfg)

disclosure_of(cfg) ==
  IF cfg.disclosure = Absent THEN FAMILIES[family_of(cfg)].disclosure ELSE from_config(cfg.disclosure)

(* A bug: the family's own disclosure is checked, not the one in force.       *)
ChecksTheDefault(family, d) ==
  family.secret => family.disclosure.mapping = "logical_only" /\ family.disclosure.victim # "exact"

(* _validate_family_disclosure, on the disclosure that will be in force.     *)
validate_family_disclosure(family, d) == family.secret => d.mapping = "logical_only" /\ d.victim # "exact"

(* The graded families are those with a sampled target.                      *)
difficulty_of(cfg) ==
  IF cfg.difficulty # Absent THEN cfg.difficulty
  ELSE IF FAMILIES[family_of(cfg)].kind = "sampled" THEN "medium"
  ELSE "easy"

(* TaskSpec.from_config raises unless this holds: a TaskConfigError, or a     *)
(* plain DisclosureConfigError when a family is derived from the disclosure.  *)
(* The keys that play no part in a compile (mitigation, budgets) are left out. *)
Admits(cfg) ==
  /\ known_levels(given(cfg))
  /\ family_of(cfg) \in DOMAIN FAMILIES
  /\ validate_family_disclosure(FAMILIES[family_of(cfg)], disclosure_of(cfg))
  /\ difficulty_of(cfg) \in DOMAIN BAND_CANDIDATES

Parsed(cfg) ==
  [family     |-> family_of(cfg),
   objective  |-> IF cfg.objective = Absent THEN FAMILIES[family_of(cfg)].objective ELSE cfg.objective,
   disclosure |-> disclosure_of(cfg),
   difficulty |-> difficulty_of(cfg)]

fam == FAMILIES[spec.family]

----------------------------------------------------------------------------
(* The device and the window.                                               *)

row_count == 2^mapper.widths["row"]
row_bytes == mapper.row_stride
target_addr == target_row * row_bytes
Decoded(addr) == worker_decode(mapper, active, addr)

bankgroup(coords) == IF "bankgroup" \in DOMAIN coords THEN coords["bankgroup"] ELSE 0
Bank(addr) == LET at == Decoded(addr) IN <<bankgroup(at), at["bank"]>>
victim_bank == Bank(target_addr)

(* _bank_slot_addrs: an address in every bank, at column 0 of a row.         *)
shift_of(f) == IF f \in Fields(mapper) THEN mapper.shifts[f] ELSE 0
Slots(row) ==
  {row * row_bytes + bg * 2^shift_of("bankgroup") + bank * 2^shift_of("bank") :
     bg \in 0..2^Width(mapper, "bankgroup") - 1, bank \in 0..2^Width(mapper, "bank") - 1}

n_banks == BanksOf(mapper)
(* A bug: neighbours are taken by row stride, as the public mapper has them.  *)
ByStride(row) == row * row_bytes
InVictimBank(row) == CHOOSE addr \in Slots(row) : Bank(addr) = victim_bank
Others(row) == {addr \in Slots(row) : Bank(addr) # victim_bank}

As(role, addrs) == {[addr |-> addr, role |-> role] : addr \in addrs}
Aggressors == As("aggressor", {InVictimBank(target_row + 1), InVictimBank(target_row - 1)})

n_decoy == BAND_CANDIDATES[spec.difficulty] - 2
Least(a, b) == IF a < b THEN a ELSE b
Distance(row) == IF row > target_row THEN row - target_row ELSE target_row - row
far_pool == {row \in 0..row_count - 1 : Distance(row) > FAR_ROW_MARGIN}

(* Where the different-bank decoys come from, and where the next ones do.     *)
FirstRow == (target_row + FAR_ROW_MARGIN + 1) % row_count
(* A bug: the walk over the rows runs off the device.                         *)
NoWrap(row) == row + FAR_ROW_MARGIN + 1
NextRow(row) ==
  LET next == (row + FAR_ROW_MARGIN + 1) % row_count
  IN IF Distance(next) <= FAR_ROW_MARGIN THEN (next + FAR_ROW_MARGIN + 1) % row_count ELSE next

----------------------------------------------------------------------------
Init ==
  /\ config \in Configs /\ info \in Infos
  /\ phase = "config"
  /\ spec = Absent /\ mapper = Absent /\ active = Public /\ target_row = 0
  /\ cands = {} /\ need = [far |-> 0, diff |-> 0] /\ made = 0 /\ r = 0 /\ handles = {}

Unsampled == UNCHANGED <<target_row, cands, need, made, r, handles>>

(* TaskSpec.from_config, when the session is given its task.                 *)
Parse ==
  /\ phase = "config" /\ Admits(config)
  /\ spec' = Parsed(config) /\ phase' = "worker"
  /\ UNCHANGED <<config, info, mapper, active>> /\ Unsampled

Reject ==
  /\ phase = "config" /\ ~Admits(config)
  /\ phase' = "refused"
  /\ UNCHANGED <<config, info, spec, mapper, active>> /\ Unsampled

(* _active_mapper gates a secret family once more.                           *)
Gate == fam.secret => spec.disclosure.mapping = "logical_only"

Starts(choice) ==
  /\ Sound(info)
  /\ choice # Public => MapperStarts(AddressMapper(info), choice)

(* The worker comes up under a mapper and its geometry is taken, or reset      *)
(* ends the episode with an error.                                           *)
StartWorker(choice) ==
  /\ phase = "worker"
  /\ active' = choice
  /\ IF Gate /\ Starts(choice)
     THEN phase' = "target" /\ mapper' = AddressMapper(info)
     ELSE phase' = "refused" /\ UNCHANGED mapper
  /\ UNCHANGED <<config, info, spec>> /\ Unsampled

StartPublic == phase = "worker" /\ ~fam.secret /\ StartWorker(Public)
select_secret_mapper == phase = "worker" /\ fam.secret /\ \E offset \in SecretOffsets : StartWorker(offset)

(* A bug: the last rows of the device are targets too.                        *)
LateRows == RESERVED_KNOWN_ROW + 1 .. row_count - 2
TargetRows ==
  LET upper(lowest, last) == IF last > lowest THEN last ELSE lowest
  IN IF fam.kind = "known"
     THEN RESERVED_KNOWN_ROW + 1 .. upper(RESERVED_KNOWN_ROW + 2, row_count - 2) - 1
     ELSE SAMPLED_MARGIN .. upper(SAMPLED_MARGIN + 1, row_count - SAMPLED_MARGIN) - 1

(* compile: the target; only the discovery families go on to a window.       *)
SampleTarget ==
  /\ phase = "target"
  /\ target_row' \in TargetRows
  /\ phase' = IF fam.secret THEN "near" ELSE "different"
  /\ UNCHANGED <<config, info, spec, mapper, active, cands, need, made, r, handles>>

(* _build_candidates: the aggressors, then how the decoys are split.         *)
SweepNear ==
  /\ phase = "near" /\ spec.family = "bounded_sweep"
  /\ cands' = Aggressors
  /\ LET n_diff == IF n_banks > 1 THEN n_decoy \div 2 ELSE 0
     IN need' = [far |-> n_decoy - n_diff, diff |-> n_diff]
  /\ phase' = "far"
  /\ UNCHANGED <<config, info, spec, mapper, active, target_row, made, r, handles>>

(* _build_numeric_candidates: the other banks of the two adjacent rows too,  *)
(* drawn in turns from the row below and the row above.                      *)
NumericNear ==
  /\ phase = "near" /\ spec.family = "hidden_adjacency"
  /\ LET shell == Least(n_decoy, 2 * (n_banks - 1))
         rest == n_decoy - shell
         far == IF n_banks > 1 THEN rest \div 2 ELSE rest
     IN /\ \E below \in kSubset((shell + 1) \div 2, Others(target_row - 1)),
              above \in kSubset(shell \div 2, Others(target_row + 1)) :
             cands' = Aggressors \cup As("different_bank", below \cup above)
        /\ need' = [far |-> far, diff |-> rest - far]
  /\ phase' = "far"
  /\ UNCHANGED <<config, info, spec, mapper, active, target_row, made, r, handles>>

FarSameBank ==
  /\ phase = "far"
  /\ \E rows \in kSubset(Least(need.far, Cardinality(far_pool)), far_pool) :
       cands' = cands \cup As("same_bank_far", {InVictimBank(row) : row \in rows})
  /\ r' = FirstRow /\ phase' = "different"
  /\ UNCHANGED <<config, info, spec, mapper, active, target_row, need, made, handles>>

(* One turn of the loop over rows.                                           *)
DifferentBank ==
  /\ phase = "different" /\ made < need.diff
  /\ LET take == Least(need.diff - made, Cardinality(Others(r)))
     IN /\ \E addrs \in kSubset(take, Others(r)) : cands' = cands \cup As("different_bank", addrs)
        /\ made' = made + take
  /\ r' = NextRow(r)
  /\ UNCHANGED <<config, info, phase, spec, mapper, active, target_row, need, handles>>

(* _register_handles, and the episode is live.                               *)
CandidateHandles ==
  IF spec.disclosure.adjacency = "candidate_set" /\ Handled(spec.disclosure)
  THEN IF cands # {} THEN {c.addr : c \in cands}
       ELSE {target_addr - row_bytes, target_addr + row_bytes, target_addr + 2 * row_bytes}
  ELSE {}

Register ==
  /\ phase = "different" /\ made >= need.diff
  /\ handles' = CandidateHandles \cup (IF Handled(spec.disclosure) THEN {target_addr} ELSE {})
  /\ phase' = "live"
  /\ UNCHANGED <<config, info, spec, mapper, active, target_row, cands, need, made, r>>

Over == phase \in {"live", "refused"} /\ UNCHANGED vars

Next == Parse \/ Reject \/ StartPublic \/ select_secret_mapper \/ SampleTarget
        \/ SweepNear \/ NumericNear \/ FarSameBank \/ DifferentBank \/ Register \/ Over

Spec == Init /\ [][Next]_vars

----------------------------------------------------------------------------
(* What reset publishes (_objective_and_target, _public_disturbance).        *)

NumericCandidates ==
  IF spec.disclosure.adjacency = "candidate_set" /\ CandidateHandles = {} THEN {c.addr : c \in cands} ELSE {}

ObjectiveNamesTarget ==
  spec.family = "hidden_adjacency" /\ spec.objective \notin {"any_flip", "target_cell_flip", "pattern_target"}

PublishedAddrs ==
  NumericCandidates
  \cup (IF spec.disclosure.victim \in {"exact", "logical_addr"} \/ ObjectiveNamesTarget THEN {target_addr} ELSE {})

(* _physical_target: the victim's coordinates are published as they are.     *)
PublishesCoordinates == spec.disclosure.victim = "exact"

(* _public_disturbance: the target's row is published with the engine's.     *)
PublishesTargetRow == expose_victim(spec.disclosure)

----------------------------------------------------------------------------
(* Properties.                                                               *)

(* Every variable keeps its type: roles, addresses of the device, a mapper    *)
(* the environment may select.                                               *)
TypeOK ==
  /\ phase \in {"config", "worker", "target", "near", "far", "different", "live", "refused"}
  /\ active \in SecretOffsets \cup {Public}
  /\ phase = "live" => target_row \in 0..row_count - 1 /\ made = need.diff
  /\ \A c \in cands : c.addr \in 0..mapper.capacity - 1
                      /\ c.role \in {"aggressor", "same_bank_far", "different_bank"}

(* A compiled window tells the truth about the active mapper: it has as many   *)
(* different candidates as its band asks for, exactly two of them are in the   *)
(* victim's bank at the rows next to it, those two are the ones marked         *)
(* aggressor, and the mapper sends the addresses one row stride away           *)
(* elsewhere (TaskSpec._build_candidates, _build_numeric_candidates).         *)
Neighbour(addr) == Bank(addr) = victim_bank /\ Distance(Decoded(addr)["row"]) = 1
WindowIsTrue ==
  phase = "live" /\ fam.secret =>
    LET addrs == {c.addr : c \in cands}
    IN /\ Cardinality(addrs) = BAND_CANDIDATES[spec.difficulty]
       /\ Cardinality(cands) = Cardinality(addrs)
       /\ Cardinality({a \in addrs : Neighbour(a)}) = 2
       /\ \A c \in cands : /\ Neighbour(c.addr) <=> c.role = "aggressor"
                           /\ c.role = "different_bank" <=> Bank(c.addr) # victim_bank
                           /\ c.addr # target_addr
       /\ ~Neighbour(target_addr + row_bytes) /\ ~Neighbour(target_addr - row_bytes)

(* Addresses a policy may try.                                               *)
Rows == {0, target_row, row_count - 1, row_count}
Forms ==
  [kind : {"logical"}, addr : {-1, 0, target_addr, mapper.capacity - 1, mapper.capacity}]
  \cup [kind : {"physical"}, coords : [{"row", "bank"} -> Rows] \cup [{"row", "column", "channel"} -> {0, 1, 2}]]
  \cup [kind : {"handle"}, addr : handles \cup {0}]

(* Every mapper is one to one over the device: the recorder's inverse, and     *)
(* for the public mapper the Python projection, take the coordinates of an     *)
(* address back to that address, and a row stride moves one row.  In a live    *)
(* episode every form the disclosure admits, and every address the task        *)
(* publishes or mints a handle for, is an address of the device, and the       *)
(* coordinates a policy names are the ones the worker will open               *)
(* (AddrInverter::encode, AddressMapper.encode, AddressResolver.to_linear).   *)
AddressesRoundTrip ==
  /\ phase = "target" =>
       LET inverter == AddrInverter(mapper, active)
       IN \A i \in 0..mapper.capacity \div 2^mapper.tx_offset - 1 :
            LET addr == i * 2^mapper.tx_offset
            IN /\ worker_encode(mapper, active, inverter, Decoded(addr)) = addr
               /\ active = Public => encode(mapper, Decoded(addr)) = addr
               /\ Decoded(addr)["row"] = addr \div row_bytes
  /\ phase = "live" =>
       /\ PublishedAddrs \cup handles \subseteq 0..mapper.capacity - 1
       /\ \A form \in Forms :
            LET linear == to_linear(mapper, spec.disclosure, handles, form)
            IN linear \notin {BadSchema, NotDisclosed} =>
                 /\ linear \in 0..mapper.capacity - 1
                 /\ form.kind = "physical" => \A f \in DOMAIN form.coords : Decoded(linear)[f] = form.coords[f]

(* Under a secret mapper nothing that reaches the policy holds a coordinate:   *)
(* no physical form, no coordinate of the victim or of a flip, and no level     *)
(* of the device among the keys of a traced command; and under any mapper a     *)
(* traced command holds a coordinate only when coordinates are disclosed        *)
(* (Disclosure.project_trace, project_feedback, _validate_family_disclosure).  *)
Levels == ToSet(info.level_names)
SecretStaysHidden ==
  phase = "live" =>
    LET traced == project_trace(spec.disclosure, PUBLIC_EVENT_KEYS \cup Levels)
        told == project_feedback(spec.disclosure, {"trace_tail", "public_flips", "new_public_flips", "oracle_refreshes"})
    IN /\ ~expose_coords(spec.disclosure) => traced \cap Levels = {} /\ "public_flips" \notin told
       /\ active # Public =>
            /\ allowed_forms(spec.disclosure) \subseteq {"logical", "handle"}
            /\ traced \cap Levels = {}
            /\ ~PublishesCoordinates /\ ~PublishesTargetRow
=============================================================================
