----------------------------- MODULE Disturbance -----------------------------
(***************************************************************************)
(* The disturbance engine of rowhammer_env/disturbance.py: the DRAM commands *)
(* a worker request issued are folded, one at a time, into the exposure of  *)
(* the rows next to the activated one and into the overlay of flipped bits  *)
(* that reads and reward predicates see.                                     *)
(*                                                                         *)
(* A request (RD, WR or WAIT) is in flight while its events are consumed; a  *)
(* write then restores the cells it overwrote.  An event's effect on one     *)
(* victim row is one step (todo is what is left of the event), because       *)
(* resolving a victim's address may fail half way through it.                *)
(*                                                                         *)
(* Rows are keys <<bank, row>>; exposures, thresholds and the RowPress bonus *)
(* are in one integer unit (the half-double weight is one half).             *)
(***************************************************************************)
EXTENDS Integers, Sequences, FiniteSets

CONSTANTS
  Banks,         \* decoded (channel, rank, bankgroup, bank)
  Ranks, RankOf, \* the rank of a bank
  RowCount,      \* rows of a bank
  Span,          \* bytes of a row inside its own bank (row_span)
  Anchor,        \* Anchor[k]: linear address of k's column 0, by the row encoder
  CellSeq,       \* CellSeq[k]: k's cells <<byte offset, bit>> in flip order
  blast,         \* the blast neighbourhood: <<distance, weight>> pairs
  Target,        \* the key of the known target
  KnownHc,       \* KnownHc[aggr]: the target's calibrated thresholds
  SampledHc,     \* SampledHc[k][aggr][pattern]: every other row's
  Gain,          \* Gain[aggr]: cells recruited per threshold of excess
  MAX_FLIPPED_BITS_PER_ROW,
  Dwells,        \* extra hammers a settled dwell may be worth (0: nominal)
  tRH,           \* the oracle's activation threshold
  Window,        \* all-bank refreshes per refresh window
  Chunks,        \* the byte offsets one write covers
  Engines,       \* <<mitigation, RowPress characterised>> an engine may be built with
  Data,          \* the patterns of the data written
  Requested,     \* bound: rows that requests address
  Written,       \* bound: rows that writes address
  MaxExposure    \* bound: activations of one side of a victim since it was refreshed

Rows == 0 .. RowCount - 1
Keys == Banks \X Rows
Offs == 0 .. Span - 1
Cell == Offs \X (0 .. 7)
Addr == {Anchor[k] + o : k \in Keys, o \in Offs}
Patterns == {"all_zeros", "all_ones", "mixed"}

NoBit == -1
NoOwner == <<>>
NoRow == -1
NoRequest == [op |-> "none", key |-> Target, offs |-> {}, pattern |-> "mixed"]

ASSUME GeometryAssumption ==
  /\ RankOf \in [Banks -> Ranks]
  /\ RowCount \in Nat \ {0} /\ Span \in Nat \ {0}
  /\ Anchor \in [Keys -> Nat]
  /\ Target \in Keys
  /\ IsFiniteSet(Banks)
ASSUME ProfileAssumption ==
  /\ MAX_FLIPPED_BITS_PER_ROW \in Nat \ {0}
  /\ CellSeq \in [Keys -> [1 .. MAX_FLIPPED_BITS_PER_ROW -> Cell]]
  /\ blast \in Seq((Nat \ {0}) \X (Nat \ {0}))
  /\ KnownHc \in [{"single", "double"} -> Nat \ {0}]
  /\ SampledHc \in [Keys -> [{"single", "double"} -> [{"all_zeros", "all_ones"} -> Nat \ {0}]]]
  /\ Gain \in [{"single", "double"} -> Nat]
  /\ Dwells \subseteq Nat
  /\ tRH \in Nat \ {0} /\ Window \in Nat \ {0}
ASSUME InputAssumption ==
  /\ Chunks \subseteq SUBSET Offs /\ Data \subseteq Patterns
  /\ Engines \subseteq {"none", "oracle"} \X BOOLEAN
  /\ Requested \subseteq Keys /\ Written \subseteq Keys
  /\ MaxExposure \in Nat

VARIABLES
  mitigation,        \* "none" or "oracle", fixed when the engine is built
  rowpress,          \* does the profile characterise RowPress?
  victims,           \* the keys a Victim exists for
  style,             \* Victim.data_pattern, from which direction follows
  left, right, bonus,\* a victim's exposure
  cells,             \* Victim.flipped_cells
  flips,             \* the overlay: address -> flipped bit
  _flip_owners,      \* address -> (key, cell)
  flipped_row_keys,  \* what target-row predicates read
  _row_pattern,      \* the pattern the last write left in a row
  _oracle_acts,      \* activations of a row since its victims were refreshed
  _open,             \* the open row of a bank
  _refresh_count,    \* all-bank refreshes of a rank, modulo Window
  req,               \* the request whose response is being consumed
  todo               \* what is left to do of the current event

exposure == <<left, right, bonus>>
overlay  == <<cells, flips, _flip_owners, flipped_row_keys>>
config   == <<mitigation, rowpress>>
vars == <<config, victims, style, exposure, overlay, _row_pattern, _oracle_acts,
          _open, _refresh_count, req, todo>>

(* A victim's row may lie off the end of the bank; an aggressor's does not.   *)
Jobs ==
  {job \in [kind : {"settle", "bonus", "credit", "opened"}, bank : Banks, row : Int,
            side : {"left", "right"}, amount : Nat] :
     job.kind \in {"settle", "opened"} => job.row \in Rows}

Job(kind, bank, row, side, amount) ==
  [kind |-> kind, bank |-> bank, row |-> row, side |-> side, amount |-> amount]

Init ==
  /\ \E engine \in Engines : mitigation = engine[1] /\ rowpress = engine[2]
  /\ victims = {} /\ style = [k \in Keys |-> "all_zeros"]
  /\ left = [k \in Keys |-> 0] /\ right = [k \in Keys |-> 0]
  /\ bonus = [k \in Keys |-> 0]
  /\ cells = [k \in Keys |-> {}]
  /\ flips = [a \in Addr |-> NoBit]
  /\ _flip_owners = [a \in Addr |-> NoOwner]
  /\ flipped_row_keys = {}
  /\ _row_pattern = [k \in Keys |-> "all_zeros"]
  /\ _oracle_acts = [k \in Keys |-> 0]
  /\ _open = [b \in Banks |-> NoRow]
  /\ _refresh_count = [r \in Ranks |-> 0]
  /\ req = NoRequest /\ todo = <<>>

_row_exists(row) == row \in Rows

-----------------------------------------------------------------------------
(* Flipping.                                                                 *)

(* The cells among a row's first n that win their byte: the overlay holds    *)
(* one bit of a byte, the last one drawn.                                    *)
Active(k, n) ==
  {CellSeq[k][i] : i \in {i \in 1 .. n :
     \A j \in 1 .. n : j > i => CellSeq[k][j][1] # CellSeq[k][i][1]}}

_flip_positions(k, n) == Active(k, n) \ cells[k]

AddrOf(k, c) == Anchor[k] + c[1]

Least(m, n) == IF m < n THEN m ELSE n
Most(m, n) == IF m < n THEN n ELSE m

Sides(l, r) == IF l > 0 /\ r > 0 THEN "double" ELSE "single"

Exposure(l, r, b) ==
  (IF Sides(l, r) = "double" THEN 2 * Least(l, r) ELSE Most(l, r)) + b

(* The thresholds of a victim created with pattern p.                        *)
Threshold(k, aggr, p) == IF k = Target THEN KnownHc[aggr] ELSE SampledHc[k][aggr][p]

(* Cells of a row at this exposure: one at its threshold, more beyond it.    *)
_multiplicity_bits(x, threshold, aggr) ==
  Least(1 + (((x - threshold) * Gain[aggr]) \div threshold), MAX_FLIPPED_BITS_PER_ROW)

(* (A bug: the previous owner of a byte is not told.)                        *)
NotRobbed(v, taken) == {}

(* The cells of v that lose their byte to the addresses taken.               *)
Robbed(v, taken) == {c \in cells[v] : \E a \in taken : _flip_owners[a] = <<v, c>>}

_flip(k, n) ==
  LET new   == _flip_positions(k, n)
      taken == {AddrOf(k, c) : c \in new}
      at(a) == CHOOSE c \in new : AddrOf(k, c) = a
      kept(v) == cells[v] \ Robbed(v, taken)
      emptied == {v \in Keys : Robbed(v, taken) # {} /\ kept(v) = {}}
  IN  /\ cells' = [v \in Keys |-> IF v = k THEN kept(v) \cup new ELSE kept(v)]
      /\ flips' = [a \in Addr |-> IF a \in taken THEN at(a)[2] ELSE flips[a]]
      /\ _flip_owners' = [a \in Addr |-> IF a \in taken THEN <<k, at(a)>> ELSE _flip_owners[a]]
      /\ flipped_row_keys' =
           (flipped_row_keys \ emptied) \cup (IF kept(k) \cup new # {} THEN {k} ELSE {})

Full(k) == cells[k] # {} /\ Cardinality(cells[k]) >= MAX_FLIPPED_BITS_PER_ROW

(* k's exposure has just become (l, r, b); p is the pattern it was created with. *)
_maybe_flip(k, l, r, b, p) ==
  LET aggr == Sides(l, r)
      x == Exposure(l, r, b)
      threshold == Threshold(k, aggr, p)
  IN  IF Full(k) \/ x < threshold
      THEN UNCHANGED overlay
      ELSE _flip(k, _multiplicity_bits(x, threshold, aggr))

-----------------------------------------------------------------------------
(* A request, and the write it may be.                                       *)

Ready == req.op \in {"RD", "WR", "WAIT"} /\ todo = <<>>

(* note_write, before the write's own events: the pattern of the data becomes *)
(* the row's, however little of the row it covers.                           *)
Request ==
  /\ req = NoRequest
  /\ \/ /\ \E k \in Requested : req' = [NoRequest EXCEPT !.op = "RD", !.key = k]
        /\ UNCHANGED _row_pattern
     \/ /\ req' = [NoRequest EXCEPT !.op = "WAIT"]
        /\ UNCHANGED _row_pattern
     \/ \E k \in Written, offs \in Chunks, p \in Data :
          /\ req' = [op |-> "WR", key |-> k, offs |-> offs, pattern |-> p]
          /\ _row_pattern' = [_row_pattern EXCEPT ![k] = p]
  /\ UNCHANGED <<config, victims, style, exposure, overlay, _oracle_acts, _open,
                 _refresh_count, todo>>

(* (A bug: a write restores the whole row.)                                  *)
WholeRow(k, offs) == {Anchor[k] + o : o \in Offs}

Overwritten(k, offs) == {Anchor[k] + o : o \in offs}

(* (A bug: the victim is not told which of its cells were restored.)         *)
NotTold(v, gone) == {}

Cleared(v, gone) == {c \in cells[v] : \E a \in gone : _flip_owners[a] = <<v, c>>}

Emptied(gone) == {v \in Keys : Cleared(v, gone) # {} /\ Cleared(v, gone) = cells[v]}

(* restore: the flips under the written bytes are gone, from every index.    *)
restore(k, offs) ==
  LET gone == {a \in Overwritten(k, offs) : flips[a] # NoBit}
  IN  /\ cells' = [v \in Keys |-> cells[v] \ Cleared(v, gone)]
      /\ flips' = [a \in Addr |-> IF a \in gone THEN NoBit ELSE flips[a]]
      /\ _flip_owners' = [a \in Addr |-> IF a \in gone THEN NoOwner ELSE _flip_owners[a]]
      /\ flipped_row_keys' = flipped_row_keys \ Emptied(gone)

Respond ==
  /\ Ready
  /\ req' = NoRequest
  /\ IF req.op = "WR" THEN restore(req.key, req.offs) ELSE UNCHANGED overlay
  /\ UNCHANGED <<config, victims, style, exposure, _row_pattern, _oracle_acts,
                 _open, _refresh_count, todo>>

-----------------------------------------------------------------------------
(* The events of a request.                                                  *)

(* The rows an activation exposes, nearest first: the one below has the       *)
(* aggressor on its right, the one above on its left.  Rows that do not exist *)
(* are skipped as they come up.                                              *)
Exposed(kind, bank, row, extra) ==
  [i \in 1 .. 2 * Len(blast) |->
     LET d == blast[(i + 1) \div 2]
         amount == IF kind = "credit" THEN d[2] ELSE extra
     IN  IF i % 2 = 1 THEN Job(kind, bank, row - d[1], "right", amount)
                      ELSE Job(kind, bank, row + d[1], "left", amount)]

SideOf(job) == IF job.side = "left" THEN left ELSE right

Settles(bank, row) ==
  IF _open[bank] # NoRow /\ _open[bank] # row
  THEN <<Job("settle", bank, _open[bank], "left", 0)>> ELSE <<>>

(* An ACT of the requested row.  A row that was left open in its bank is      *)
(* precharged first.                                                         *)
_hammer ==
  /\ Ready /\ req.op # "WAIT"
  /\ LET bank == req.key[1]
         row  == req.key[2]
         credits == Exposed("credit", bank, row, 0)
     IN  /\ \A i \in DOMAIN credits : _row_exists(credits[i].row) =>
              SideOf(credits[i])[<<bank, credits[i].row>>] < MaxExposure
         /\ todo' = Settles(bank, row) \o credits \o <<Job("opened", bank, row, "left", 0)>>
  /\ UNCHANGED <<config, victims, style, exposure, overlay, _row_pattern,
                 _oracle_acts, _open, _refresh_count, req>>

(* The orders in which the banks of S may be visited.                        *)
Orders(S) ==
  {s \in [1 .. Cardinality(S) -> S] : \A i, j \in DOMAIN s : i # j => s[i] # s[j]}

(* A precharge of one bank, or of every bank of a rank.                      *)
Scopes == {{b} : b \in Banks} \cup {{b \in Banks : RankOf[b] = r} : r \in Ranks}

_close_bank ==
  /\ Ready
  /\ \E scope \in Scopes :
       LET closed == {b \in scope : _open[b] # NoRow}
       IN  /\ closed # {}
           /\ \E order \in Orders(closed) :
                todo' = [i \in 1 .. Cardinality(closed) |->
                           Job("settle", order[i], _open[order[i]], "left", 0)]
  /\ UNCHANGED <<config, victims, style, exposure, overlay, _row_pattern,
                 _oracle_acts, _open, _refresh_count, req>>

(* An all-bank refresh of rank r; every Window-th restores the rank's rows.  *)
RestoredRows(r) == {k \in Keys : RankOf[k[1]] = r}

Restored(counter, ks) == [k \in Keys |-> IF k \in ks THEN 0 ELSE counter[k]]

_refresh ==
  /\ Ready
  /\ \E r \in Ranks :
       LET boundary == _refresh_count[r] = Window - 1
           ks == IF boundary THEN RestoredRows(r) ELSE {}
       IN  /\ _refresh_count' =
                [_refresh_count EXCEPT ![r] = IF boundary THEN 0 ELSE @ + 1]
           /\ left' = Restored(left, ks) /\ right' = Restored(right, ks)
           /\ bonus' = Restored(bonus, ks)
           /\ _oracle_acts' =
                IF mitigation = "oracle" THEN Restored(_oracle_acts, ks) ELSE _oracle_acts
  /\ UNCHANGED <<config, victims, style, overlay, _row_pattern, _open, req, todo>>

-----------------------------------------------------------------------------
(* What is left of an event, in order.                                       *)

NextJob(kind) == todo # <<>> /\ Head(todo).kind = kind

(* _settle_dwell: the row is closed, and each of its victims is credited the  *)
(* extra hammers its dwell was worth, if any.                                *)
_settle_dwell ==
  /\ NextJob("settle")
  /\ LET bank == Head(todo).bank
     IN  /\ _open' = [_open EXCEPT ![bank] = NoRow]
         /\ \E extra \in (IF rowpress THEN Dwells ELSE {0}) :
              todo' = (IF extra = 0 THEN <<>>
                       ELSE Exposed("bonus", bank, Head(todo).row, extra))
                      \o Tail(todo)
  /\ UNCHANGED <<config, victims, style, exposure, overlay, _row_pattern,
                 _oracle_acts, _refresh_count, req>>

Bonus ==
  /\ NextJob("bonus")
  /\ LET k == <<Head(todo).bank, Head(todo).row>>
         b == bonus[k] + Head(todo).amount
     IN  IF ~_row_exists(Head(todo).row) \/ k \notin victims \/ Full(k)
         THEN UNCHANGED <<bonus, overlay>>
         ELSE /\ bonus' = [bonus EXCEPT ![k] = b]
              /\ _maybe_flip(k, left[k], right[k], b, style[k])
  /\ todo' = Tail(todo)
  /\ UNCHANGED <<config, victims, style, left, right, _row_pattern, _oracle_acts,
                 _open, _refresh_count, req>>

(* (A bug: the row's pattern is taken as it is.)                             *)
RawPattern(k) == _row_pattern[k]

(* The pattern a new victim is created with; a mixed row counts as zeros.    *)
_victim_pattern(k) == IF _row_pattern[k] = "all_ones" THEN "all_ones" ELSE "all_zeros"

Credit ==
  /\ NextJob("credit")
  /\ LET job == Head(todo)
         k == <<job.bank, job.row>>
         l == left[k] + (IF job.side = "left" THEN job.amount ELSE 0)
         r == right[k] + (IF job.side = "right" THEN job.amount ELSE 0)
         p == IF k \in victims THEN style[k] ELSE _victim_pattern(k)
     IN  IF ~_row_exists(job.row)
         THEN UNCHANGED <<victims, style, left, right, overlay>>
         ELSE /\ victims' = victims \cup {k}
              /\ style' = [style EXCEPT ![k] = p]
              /\ left' = [left EXCEPT ![k] = l]
              /\ right' = [right EXCEPT ![k] = r]
              /\ _maybe_flip(k, l, r, bonus[k], p)
  /\ todo' = Tail(todo)
  /\ UNCHANGED <<config, bonus, _row_pattern, _oracle_acts, _open,
                 _refresh_count, req>>

(* The rows a victim-row refresh of the oracle restores.                     *)
Neighbours(bank, row) ==
  {k \in Keys : k[1] = bank /\ \E i \in 1 .. Len(blast) :
                  k[2] = row - blast[i][1] \/ k[2] = row + blast[i][1]}

(* _oracle_on_act: at tRH activations of a row, its victims are refreshed.   *)
(* (A bug: the refresh comes one activation late.)                           *)
FiresLate(bank, row) == _oracle_acts[<<bank, row>>] >= tRH

OracleFires(bank, row) == _oracle_acts[<<bank, row>>] + 1 >= tRH

_oracle_on_act(bank, row) ==
  LET fires == OracleFires(bank, row)
      ks == IF fires THEN Neighbours(bank, row) ELSE {}
  IN  /\ _oracle_acts' =
           [_oracle_acts EXCEPT ![<<bank, row>>] = IF fires THEN 0 ELSE @ + 1]
      /\ left' = Restored(left, ks) /\ right' = Restored(right, ks)
      /\ bonus' = Restored(bonus, ks)

(* The last part of an ACT: its row is now the open one.                     *)
Opened ==
  /\ NextJob("opened")
  /\ LET job == Head(todo)
     IN  /\ _open' = [_open EXCEPT ![job.bank] = job.row]
         /\ IF mitigation = "oracle" THEN _oracle_on_act(job.bank, job.row)
            ELSE UNCHANGED <<exposure, _oracle_acts>>
  /\ todo' = Tail(todo)
  /\ UNCHANGED <<config, victims, style, overlay, _row_pattern, _refresh_count, req>>

(* The row encoder (the worker's ENCODE) fails on a row not seen before: the  *)
(* event stays half consumed, and the environment ends the episode.          *)
EncodeFails ==
  /\ NextJob("credit")
  /\ _row_exists(Head(todo).row) /\ <<Head(todo).bank, Head(todo).row>> \notin victims
  /\ todo' = <<>> /\ req' = [NoRequest EXCEPT !.op = "failed"]
  /\ UNCHANGED <<config, victims, style, exposure, overlay, _row_pattern,
                 _oracle_acts, _open, _refresh_count>>

(* reset() builds a new engine, whatever state the old one was left in.      *)
Rebuild ==
  /\ req.op \in {"none", "failed"}
  /\ \E engine \in Engines : mitigation' = engine[1] /\ rowpress' = engine[2]
  /\ victims' = {} /\ style' = [k \in Keys |-> "all_zeros"]
  /\ left' = [k \in Keys |-> 0] /\ right' = [k \in Keys |-> 0]
  /\ bonus' = [k \in Keys |-> 0]
  /\ cells' = [k \in Keys |-> {}]
  /\ flips' = [a \in Addr |-> NoBit]
  /\ _flip_owners' = [a \in Addr |-> NoOwner]
  /\ flipped_row_keys' = {}
  /\ _row_pattern' = [k \in Keys |-> "all_zeros"]
  /\ _oracle_acts' = [k \in Keys |-> 0]
  /\ _open' = [b \in Banks |-> NoRow]
  /\ _refresh_count' = [r \in Ranks |-> 0]
  /\ req' = NoRequest /\ todo' = <<>>

-----------------------------------------------------------------------------
Event == _hammer \/ _close_bank \/ _refresh
Work  == _settle_dwell \/ Bonus \/ Credit \/ Opened \/ EncodeFails

Next == Request \/ Event \/ Work \/ Respond \/ Rebuild

Spec == Init /\ [][Next]_vars

-----------------------------------------------------------------------------
TypeOK ==
  /\ mitigation \in {"none", "oracle"} /\ rowpress \in BOOLEAN
  /\ victims \subseteq Keys
  /\ style \in [Keys -> {"all_zeros", "all_ones"}]
  /\ left \in [Keys -> Nat] /\ right \in [Keys -> Nat] /\ bonus \in [Keys -> Nat]
  /\ cells \in [Keys -> SUBSET Cell]
  /\ flips \in [Addr -> {NoBit} \cup 0 .. 7]
  /\ _flip_owners \in [Addr -> {NoOwner} \cup (Keys \X Cell)]
  /\ flipped_row_keys \subseteq Keys
  /\ _row_pattern \in [Keys -> Patterns]
  /\ _oracle_acts \in [Keys -> Nat]
  /\ _open \in [Banks -> Rows \cup {NoRow}]
  /\ _refresh_count \in [Ranks -> 0 .. Window - 1]
  /\ req \in [op : {"none", "RD", "WR", "WAIT", "failed"}, key : Keys,
              offs : SUBSET Offs, pattern : Patterns]
  /\ todo \in Seq(Jobs)

(* The overlay and its three indexes say the same (flips, _flip_owners,       *)
(* Victim.flipped_cells, flipped_row_keys), whatever was flipped, taken over  *)
(* by another cell of the same byte, or restored.                            *)
OwnersAreActive ==
  \A a \in Addr :
    IF flips[a] = NoBit THEN _flip_owners[a] = NoOwner
    ELSE \E k \in Keys : \E c \in cells[k] :
           _flip_owners[a] = <<k, c>> /\ AddrOf(k, c) = a /\ c[2] = flips[a]
ActiveAreOwners ==
  \A k \in Keys : \A c \in cells[k] : _flip_owners[AddrOf(k, c)] = <<k, c>>
RowsAreIndexed == flipped_row_keys = {k \in Keys : cells[k] # {}}

OverlayConsistent == OwnersAreActive /\ ActiveAreOwners /\ RowsAreIndexed

Shows(k, overlaid) == \E o \in Offs : overlaid[Anchor[k] + o] # NoBit

(* A row is indexed as flipped exactly if a read of it shows a flipped bit:   *)
(* the reward (rewards/predicates.py reads the index) and the data a policy   *)
(* reads (apply reads the overlay) never disagree.                           *)
ReadsAgree == \A k \in Keys : k \in flipped_row_keys <=> Shows(k, flips)

(* A flip stays until a write covers its byte: refreshes, precharges, new     *)
(* flips and writes elsewhere in the row do not correct it.                  *)
FlipsPersist ==
  [][\A a \in Addr : flips[a] # NoBit /\ flips'[a] = NoBit =>
       \/ Rebuild
       \/ req.op = "WR" /\ req' = NoRequest
          /\ \E o \in req.offs : a = Anchor[req.key] + o]_vars

Crossed(k) ==
  LET aggr == Sides(left[k], right[k])
  IN  Exposure(left[k], right[k], bonus[k]) >= Threshold(k, aggr, style[k])

(* A row hammered beyond its threshold shows a flip, also when a write has    *)
(* just restored the cells an earlier crossing flipped.                      *)
Refires ==
  [][\A k \in Keys :
       /\ left'[k] > left[k] \/ right'[k] > right[k] \/ bonus'[k] > bonus[k]
       /\ Crossed(k)'
       => Shows(k, flips')]_vars

(* Under the oracle, and with no RowPress, the known target never flips.      *)
OracleProtects ==
  mitigation = "oracle" /\ ~rowpress => Target \notin flipped_row_keys

=============================================================================
