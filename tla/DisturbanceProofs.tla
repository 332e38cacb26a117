-------------------------- MODULE DisturbanceProofs --------------------------
(***************************************************************************)
(* Theorems about Disturbance, for every geometry, mapping, order of cells,  *)
(* thresholds and engine: its types, the agreement of the overlay with its   *)
(* indexes, and, in the second half, what the oracle mitigation protects.     *)
(***************************************************************************)
EXTENDS Disturbance, TLAPS, SequenceTheorems, FiniteSetTheorems

USE DEF config, exposure, overlay

-----------------------------------------------------------------------------
(* Cells and addresses.                                                      *)

(* A row's cells stay inside the row: the flipped ones are cells.            *)
LEMMA ActiveAreCells ==
  ASSUME NEW k \in Keys, NEW n \in Int, n <= MAX_FLIPPED_BITS_PER_ROW
  PROVE  Active(k, n) \subseteq Cell
PROOF
  <1>1. \A i \in 1 .. n : CellSeq[k][i] \in Cell
    BY ProfileAssumption
  <1> QED
    BY <1>1 DEF Active

(* The bits of a byte do not compete: at most one of them is active.         *)
LEMMA OneCellPerByte ==
  ASSUME NEW k \in Keys, NEW n \in Int,
         NEW c \in Active(k, n), NEW d \in Active(k, n), c[1] = d[1]
  PROVE  c = d
PROOF
  <1>1. PICK i \in 1 .. n : c = CellSeq[k][i] /\ \A j \in 1 .. n : j > i => CellSeq[k][j][1] # c[1]
    BY DEF Active
  <1>2. PICK j \in 1 .. n : d = CellSeq[k][j] /\ \A m \in 1 .. n : m > j => CellSeq[k][m][1] # d[1]
    BY DEF Active
  <1>3. i = j
    <2>1. ~ (j > i)
      BY <1>1, <1>2
    <2>2. ~ (i > j)
      BY <1>1, <1>2
    <2> QED
      BY <2>1, <2>2
  <1> QED
    BY <1>1, <1>2, <1>3

LEMMA AddrOfCell ==
  ASSUME NEW k \in Keys, NEW c \in Cell
  PROVE  AddrOf(k, c) \in Addr /\ AddrOf(k, c) \in Int
PROOF
  <1>1. c[1] \in Offs /\ Anchor[k] \in Nat
    BY GeometryAssumption DEF Cell
  <1>2. \A o \in Offs : o \in Int
    BY GeometryAssumption DEF Offs
  <1>3. AddrOf(k, c) = Anchor[k] + c[1]
    BY DEF AddrOf
  <1>4. Anchor[k] + c[1] \in Addr
    BY <1>1 DEF Addr
  <1> QED
    BY <1>1, <1>2, <1>3, <1>4

LEMMA Cancel ==
  ASSUME NEW m \in Int, NEW i \in Int, NEW j \in Int, m + i = m + j
  PROVE  i = j
PROOF OBVIOUS

(* Different cells of a row's active ones have different addresses.          *)
LEMMA AddrOfIsInjective ==
  ASSUME NEW k \in Keys, NEW n \in Int, n <= MAX_FLIPPED_BITS_PER_ROW,
         NEW c \in Active(k, n), NEW d \in Active(k, n), AddrOf(k, c) = AddrOf(k, d)
  PROVE  c = d
PROOF
  <1>1. c \in Cell /\ d \in Cell
    BY ActiveAreCells
  <1>2. c[1] \in Int /\ d[1] \in Int /\ Anchor[k] \in Int
    <2>1. \A o \in Offs : o \in Int
      BY GeometryAssumption DEF Offs
    <2>2. c[1] \in Offs /\ d[1] \in Offs /\ Anchor[k] \in Nat
      BY <1>1, GeometryAssumption DEF Cell
    <2> QED
      BY <2>1, <2>2
  <1>3. Anchor[k] + c[1] = Anchor[k] + d[1]
    BY DEF AddrOf
  <1>4. c[1] = d[1]
    BY <1>2, <1>3, Cancel
  <1> QED
    BY <1>4, OneCellPerByte

(* An exposure recruits a whole number of cells, never more than the cap.    *)
LEMMA BitsAreBounded ==
  ASSUME NEW x \in Int, NEW t \in Nat \ {0}, NEW aggr \in {"single", "double"}
  PROVE  /\ _multiplicity_bits(x, t, aggr) \in Int
         /\ _multiplicity_bits(x, t, aggr) <= MAX_FLIPPED_BITS_PER_ROW
PROOF
  <1> DEFINE product == (x - t) * Gain[aggr]
             extra   == product \div t
  <1>1. Gain[aggr] \in Int /\ MAX_FLIPPED_BITS_PER_ROW \in Int
    BY ProfileAssumption
  <1>2. product \in Int
    BY <1>1
  <1>3. extra \in Int
    <2> HIDE DEF product
    <2> QED BY <1>2
  <1>4. _multiplicity_bits(x, t, aggr) = Least(1 + extra, MAX_FLIPPED_BITS_PER_ROW)
    BY DEF _multiplicity_bits
  <1> HIDE DEF extra
  <1> QED
    BY <1>1, <1>3, <1>4 DEF Least

(* A row at its threshold has at least one cell to flip.                     *)
LEMMA BitsArePositive ==
  ASSUME NEW x \in Int, NEW t \in Nat \ {0}, NEW aggr \in {"single", "double"}, ~ (x < t)
  PROVE  _multiplicity_bits(x, t, aggr) > 0
PROOF
  <1> DEFINE product == (x - t) * Gain[aggr]
             extra   == product \div t
  <1>1. Gain[aggr] \in Nat /\ MAX_FLIPPED_BITS_PER_ROW \in Nat \ {0}
    BY ProfileAssumption
  <1>2. x - t \in Nat
    OBVIOUS
  <1>3. product \in Nat
    BY <1>1, <1>2
  <1>4. extra \in Nat
    <2> HIDE DEF product
    <2> QED BY <1>3
  <1>5. _multiplicity_bits(x, t, aggr) = Least(1 + extra, MAX_FLIPPED_BITS_PER_ROW)
    BY DEF _multiplicity_bits
  <1> HIDE DEF extra
  <1> QED
    BY <1>1, <1>4, <1>5 DEF Least

LEMMA ThresholdIsPositive ==
  ASSUME NEW k \in Keys, NEW aggr \in {"single", "double"}, NEW p \in {"all_zeros", "all_ones"}
  PROVE  Threshold(k, aggr, p) \in Nat \ {0}
PROOF BY ProfileAssumption DEF Threshold

LEMMA ExposureIsInt ==
  ASSUME NEW l \in Nat, NEW r \in Nat, NEW b \in Nat
  PROVE  Exposure(l, r, b) \in Int /\ Sides(l, r) \in {"single", "double"}
PROOF BY DEF Exposure, Sides, Least, Most

-----------------------------------------------------------------------------
(* What a flip does to the overlay.                                          *)

OverlayOK ==
  /\ cells \in [Keys -> SUBSET Cell]
  /\ flips \in [Addr -> {NoBit} \cup 0 .. 7]
  /\ _flip_owners \in [Addr -> {NoOwner} \cup (Keys \X Cell)]
  /\ flipped_row_keys \subseteq Keys

(* What a step that flips promises: no flip is undone.                       *)
NoneUndone == \A a \in Addr : flips[a] # NoBit => flips'[a] # NoBit

(* A flip of n cells leaves the overlay well formed and consistent, undoes   *)
(* no flip, and (n > 0) leaves the row with a flipped cell.                  *)
LEMMA FlipKeeps ==
  ASSUME OverlayOK, OverlayConsistent, NEW k \in Keys,
         NEW n \in Int, n <= MAX_FLIPPED_BITS_PER_ROW, _flip(k, n)
  PROVE  /\ OverlayOK' /\ OverlayConsistent'
         /\ NoneUndone
         /\ n > 0 => cells'[k] # {}
PROOF
  <1> DEFINE new   == _flip_positions(k, n)
             taken == {AddrOf(k, c) : c \in new}
             at(a) == CHOOSE c \in new : AddrOf(k, c) = a
             kept(v) == cells[v] \ Robbed(v, taken)
             emptied == {v \in Keys : Robbed(v, taken) # {} /\ kept(v) = {}}
  <1>1. cells' = [v \in Keys |-> IF v = k THEN kept(v) \cup new ELSE kept(v)]
    BY DEF _flip
  <1>2. flips' = [a \in Addr |-> IF a \in taken THEN at(a)[2] ELSE flips[a]]
    BY DEF _flip
  <1>3. _flip_owners' = [a \in Addr |-> IF a \in taken THEN <<k, at(a)>> ELSE _flip_owners[a]]
    BY DEF _flip
  <1>4. flipped_row_keys' =
          (flipped_row_keys \ emptied) \cup (IF kept(k) \cup new # {} THEN {k} ELSE {})
    BY DEF _flip
  <1>5. new \subseteq Cell /\ new \subseteq Active(k, n)
    BY ActiveAreCells DEF _flip_positions
  <1>6. \A c \in new : AddrOf(k, c) \in Addr /\ AddrOf(k, c) \in taken
    BY <1>5, AddrOfCell
  <1>7. \A a \in taken : at(a) \in new /\ AddrOf(k, at(a)) = a
    OBVIOUS
  <1>8. \A c \in new : at(AddrOf(k, c)) = c
    <2> SUFFICES ASSUME NEW c \in new PROVE at(AddrOf(k, c)) = c
      OBVIOUS
    <2>1. at(AddrOf(k, c)) \in new /\ AddrOf(k, at(AddrOf(k, c))) = AddrOf(k, c)
      BY <1>6, <1>7
    <2> HIDE DEF at, new
    <2> QED
      BY <2>1, <1>5, AddrOfIsInjective
  <1> HIDE DEF new, at, taken
  <1>9. \A v \in Keys : kept(v) \subseteq cells[v] /\ kept(v) \subseteq Cell
    BY DEF OverlayOK
  <1>10. \A v \in Keys : \A c \in cells[v] :
           c \in kept(v) <=> AddrOf(v, c) \notin taken
    <2> SUFFICES ASSUME NEW v \in Keys, NEW c \in cells[v]
                 PROVE  c \in kept(v) <=> AddrOf(v, c) \notin taken
      OBVIOUS
    <2>1. _flip_owners[AddrOf(v, c)] = <<v, c>>
      BY DEF OverlayConsistent, ActiveAreOwners
    <2>2. ASSUME NEW a \in taken, _flip_owners[a] = <<v, c>> PROVE a = AddrOf(v, c)
      <3>1. a \in Addr
        BY <1>6, <1>7
      <3>2. flips[a] # NoBit
        <4>1. _flip_owners[a] # NoOwner
          BY <2>2 DEF NoOwner
        <4> QED
          BY <4>1, <3>1 DEF OverlayConsistent, OwnersAreActive
      <3>3. PICK w \in Keys : \E d \in cells[w] : _flip_owners[a] = <<w, d>> /\ AddrOf(w, d) = a
        BY <3>1, <3>2 DEF OverlayConsistent, OwnersAreActive
      <3> QED
        BY <3>3, <2>2
    <2> QED
      BY <2>1, <2>2 DEF Robbed
  <1>11. OverlayOK'
    <2>1. cells' \in [Keys -> SUBSET Cell]
      BY <1>1, <1>5, <1>9
    <2>2. flips' \in [Addr -> {NoBit} \cup 0 .. 7]
      <3>1. \A a \in taken : at(a)[2] \in 0 .. 7
        BY <1>5, <1>7 DEF Cell
      <3> QED
        BY <1>2, <3>1 DEF OverlayOK
    <2>3. _flip_owners' \in [Addr -> {NoOwner} \cup (Keys \X Cell)]
      BY <1>3, <1>5, <1>7 DEF OverlayOK
    <2>4. flipped_row_keys' \subseteq Keys
      BY <1>4 DEF OverlayOK
    <2> QED
      BY <2>1, <2>2, <2>3, <2>4 DEF OverlayOK
  <1>12. OwnersAreActive'
    <2> SUFFICES ASSUME NEW a \in Addr
                 PROVE  IF flips'[a] = NoBit THEN _flip_owners'[a] = NoOwner
                        ELSE \E v \in Keys : \E c \in cells'[v] :
                          _flip_owners'[a] = <<v, c>> /\ AddrOf(v, c) = a /\ c[2] = flips'[a]
      BY DEF OwnersAreActive, AddrOf
    <2>1. CASE a \in taken
      <3>1. at(a) \in cells'[k] /\ AddrOf(k, at(a)) = a /\ at(a) \in Cell
        BY <2>1, <1>1, <1>5, <1>7
      <3>2. flips'[a] = at(a)[2] /\ _flip_owners'[a] = <<k, at(a)>>
        BY <2>1, <1>2, <1>3
      <3>3. flips'[a] # NoBit
        BY <3>1, <3>2 DEF Cell, NoBit
      <3> QED
        BY <3>1, <3>2, <3>3
    <2>2. CASE a \notin taken
      <3>1. flips'[a] = flips[a] /\ _flip_owners'[a] = _flip_owners[a]
        BY <2>2, <1>2, <1>3
      <3>2. CASE flips[a] = NoBit
        BY <3>1, <3>2 DEF OverlayConsistent, OwnersAreActive
      <3>3. CASE flips[a] # NoBit
        <4>1. PICK v \in Keys : \E c \in cells[v] :
                _flip_owners[a] = <<v, c>> /\ AddrOf(v, c) = a /\ c[2] = flips[a]
          BY <3>3 DEF OverlayConsistent, OwnersAreActive
        <4>2. PICK c \in cells[v] :
                _flip_owners[a] = <<v, c>> /\ AddrOf(v, c) = a /\ c[2] = flips[a]
          BY <4>1
        <4>3. c \in cells'[v]
          BY <4>2, <2>2, <1>10, <1>1
        <4> QED
          BY <3>1, <3>3, <4>2, <4>3
      <3> QED
        BY <3>2, <3>3
    <2> QED
      BY <2>1, <2>2
  <1>13. ActiveAreOwners'
    <2> SUFFICES ASSUME NEW v \in Keys, NEW c \in cells'[v]
                 PROVE  _flip_owners'[AddrOf(v, c)] = <<v, c>>
      BY DEF ActiveAreOwners, AddrOf
    <2>1. CASE c \in kept(v)
      <3>1. AddrOf(v, c) \notin taken /\ _flip_owners[AddrOf(v, c)] = <<v, c>>
        BY <2>1, <1>9, <1>10 DEF OverlayConsistent, ActiveAreOwners
      <3>2. AddrOf(v, c) \in Addr
        BY <2>1, <1>9, AddrOfCell
      <3> QED
        BY <3>1, <3>2, <1>3
    <2>2. CASE v = k /\ c \in new
      BY <2>2, <1>3, <1>6, <1>8
    <2> QED
      BY <2>1, <2>2, <1>1
  <1>14. RowsAreIndexed'
    <2>1. \A v \in Keys : kept(v) = {} /\ cells[v] # {} => Robbed(v, taken) # {}
      OBVIOUS
    <2>2. new = {} => \A v \in Keys : Robbed(v, taken) = {}
      BY DEF taken, Robbed
    <2>3. flipped_row_keys = {v \in Keys : cells[v] # {}}
      BY DEF OverlayConsistent, RowsAreIndexed
    <2>4. \A v \in Keys : v \in flipped_row_keys' <=> cells'[v] # {}
      <3> SUFFICES ASSUME NEW v \in Keys PROVE v \in flipped_row_keys' <=> cells'[v] # {}
        OBVIOUS
      <3>1. CASE v = k
        <4>1. cells'[v] = kept(k) \cup new
          BY <3>1, <1>1
        <4>2. CASE kept(k) \cup new # {}
          BY <4>1, <4>2, <3>1, <1>4
        <4>3. CASE kept(k) \cup new = {}
          <5>1. new = {}
            BY <4>3
          <5>2. cells[k] = {}
            BY <5>1, <2>2, <4>3
          <5> QED
            BY <4>1, <4>3, <5>2, <3>1, <1>4, <2>3
        <4> QED
          BY <4>2, <4>3
      <3>2. CASE v # k
        <4>1. cells'[v] = kept(v)
          BY <3>2, <1>1
        <4>2. v \in flipped_row_keys' <=> v \in flipped_row_keys /\ v \notin emptied
          BY <3>2, <1>4
        <4>3. v \in emptied <=> Robbed(v, taken) # {} /\ kept(v) = {}
          OBVIOUS
        <4> QED
          BY <4>1, <4>2, <4>3, <2>1, <2>3
      <3> QED
        BY <3>1, <3>2
    <2>5. flipped_row_keys' \subseteq Keys
      BY <1>11 DEF OverlayOK
    <2> QED
      BY <2>4, <2>5 DEF RowsAreIndexed
  <1>15. NoneUndone
    <2> SUFFICES ASSUME NEW a \in Addr, flips[a] # NoBit PROVE flips'[a] # NoBit
      BY DEF NoneUndone
    <2>1. CASE a \in taken
      <3>1. at(a)[2] \in 0 .. 7
        BY <2>1, <1>5, <1>7 DEF Cell
      <3> QED
        BY <2>1, <3>1, <1>2 DEF NoBit
    <2>2. CASE a \notin taken
      BY <2>2, <1>2
    <2> QED
      BY <2>1, <2>2
  <1>16. ASSUME n > 0 PROVE cells'[k] # {}
    <2>1. cells'[k] = kept(k) \cup new
      BY <1>1
    <2>2. CellSeq[k][n] \in Active(k, n)
      BY <1>16 DEF Active
    <2>3. CASE new # {}
      BY <2>1, <2>3
    <2>4. CASE new = {}
      <3>1. CellSeq[k][n] \in cells[k]
        BY <2>2, <2>4 DEF new, _flip_positions
      <3>2. kept(k) = cells[k]
        BY <2>4 DEF taken, Robbed
      <3> QED
        BY <2>1, <3>1, <3>2
    <2> QED
      BY <2>3, <2>4
  <1> QED
    BY <1>11, <1>12, <1>13, <1>14, <1>15, <1>16 DEF OverlayConsistent

(* A restore leaves the overlay well formed and consistent, and undoes flips *)
(* under the written bytes only.                                             *)
LEMMA RestoreKeeps ==
  ASSUME OverlayOK, OverlayConsistent, NEW k \in Keys, NEW offs \in SUBSET Offs,
         restore(k, offs)
  PROVE  /\ OverlayOK' /\ OverlayConsistent'
         /\ \A a \in Addr : flips[a] # NoBit /\ flips'[a] = NoBit =>
              \E o \in offs : a = Anchor[k] + o
PROOF
  <1> DEFINE gone == {a \in Overwritten(k, offs) : flips[a] # NoBit}
  <1>1. cells' = [v \in Keys |-> cells[v] \ Cleared(v, gone)]
    BY DEF restore
  <1>2. flips' = [a \in Addr |-> IF a \in gone THEN NoBit ELSE flips[a]]
    BY DEF restore
  <1>3. _flip_owners' = [a \in Addr |-> IF a \in gone THEN NoOwner ELSE _flip_owners[a]]
    BY DEF restore
  <1>4. flipped_row_keys' = flipped_row_keys \ Emptied(gone)
    BY DEF restore
  <1>5. gone \subseteq Addr
    BY DEF Overwritten, Addr
  <1>6. \A a \in gone : \E o \in offs : a = Anchor[k] + o
    BY DEF Overwritten
  <1> HIDE DEF gone
  <1>7. \A v \in Keys : \A c \in cells[v] : c \in Cleared(v, gone) <=> AddrOf(v, c) \in gone
    <2> SUFFICES ASSUME NEW v \in Keys, NEW c \in cells[v]
                 PROVE  c \in Cleared(v, gone) <=> AddrOf(v, c) \in gone
      OBVIOUS
    <2>1. _flip_owners[AddrOf(v, c)] = <<v, c>>
      BY DEF OverlayConsistent, ActiveAreOwners
    <2>2. ASSUME NEW a \in gone, _flip_owners[a] = <<v, c>> PROVE a = AddrOf(v, c)
      <3>1. _flip_owners[a] # NoOwner
        BY <2>2 DEF NoOwner
      <3>2. a \in Addr
        BY <1>5
      <3>3. flips[a] # NoBit
        BY <3>1, <3>2 DEF OverlayConsistent, OwnersAreActive
      <3>4. PICK w \in Keys : \E d \in cells[w] : _flip_owners[a] = <<w, d>> /\ AddrOf(w, d) = a
        BY <3>2, <3>3 DEF OverlayConsistent, OwnersAreActive
      <3> QED
        BY <3>4, <2>2
    <2> QED
      BY <2>1, <2>2 DEF Cleared
  <1>8. OverlayOK'
    BY <1>1, <1>2, <1>3, <1>4 DEF OverlayOK
  <1>9. OwnersAreActive'
    <2> SUFFICES ASSUME NEW a \in Addr
                 PROVE  IF flips'[a] = NoBit THEN _flip_owners'[a] = NoOwner
                        ELSE \E v \in Keys : \E c \in cells'[v] :
                          _flip_owners'[a] = <<v, c>> /\ AddrOf(v, c) = a /\ c[2] = flips'[a]
      BY DEF OwnersAreActive, AddrOf
    <2>1. CASE a \in gone
      BY <2>1, <1>2, <1>3
    <2>2. CASE a \notin gone
      <3>1. flips'[a] = flips[a] /\ _flip_owners'[a] = _flip_owners[a]
        BY <2>2, <1>2, <1>3
      <3>2. CASE flips[a] = NoBit
        BY <3>1, <3>2 DEF OverlayConsistent, OwnersAreActive
      <3>3. CASE flips[a] # NoBit
        <4>1. PICK v \in Keys : \E c \in cells[v] :
                _flip_owners[a] = <<v, c>> /\ AddrOf(v, c) = a /\ c[2] = flips[a]
          BY <3>3 DEF OverlayConsistent, OwnersAreActive
        <4>2. PICK c \in cells[v] :
                _flip_owners[a] = <<v, c>> /\ AddrOf(v, c) = a /\ c[2] = flips[a]
          BY <4>1
        <4>3. c \in cells'[v]
          BY <4>2, <2>2, <1>7, <1>1
        <4> QED
          BY <3>1, <3>3, <4>2, <4>3
      <3> QED
        BY <3>2, <3>3
    <2> QED
      BY <2>1, <2>2
  <1>10. ActiveAreOwners'
    <2> SUFFICES ASSUME NEW v \in Keys, NEW c \in cells'[v]
                 PROVE  _flip_owners'[AddrOf(v, c)] = <<v, c>>
      BY DEF ActiveAreOwners, AddrOf
    <2>1. c \in cells[v] /\ AddrOf(v, c) \notin gone
      BY <1>1, <1>7
    <2>2. _flip_owners[AddrOf(v, c)] = <<v, c>>
      BY <2>1 DEF OverlayConsistent, ActiveAreOwners
    <2>3. AddrOf(v, c) \in Addr
      BY <2>1, AddrOfCell DEF OverlayOK
    <2> QED
      BY <2>1, <2>2, <2>3, <1>3
  <1>11. RowsAreIndexed'
    <2>1. \A v \in Keys : Cleared(v, gone) \subseteq cells[v]
      BY DEF Cleared
    <2>2. \A v \in Keys : v \in Emptied(gone) <=> cells[v] # {} /\ cells'[v] = {}
      BY <2>1, <1>1 DEF Emptied
    <2>3. flipped_row_keys = {v \in Keys : cells[v] # {}}
      BY DEF OverlayConsistent, RowsAreIndexed
    <2>4. \A v \in Keys : cells'[v] # {} => cells[v] # {}
      BY <1>1
    <2> QED
      BY <2>2, <2>3, <2>4, <1>4 DEF RowsAreIndexed
  <1>12. \A a \in Addr : flips[a] # NoBit /\ flips'[a] = NoBit => a \in gone
    BY <1>2
  <1> QED
    BY <1>6, <1>8, <1>9, <1>10, <1>11, <1>12 DEF OverlayConsistent

(* The tail of every credit: the row flips if its exposure is beyond its     *)
(* threshold, and shows a flip if it is.                                     *)
LEMMA MaybeFlipKeeps ==
  ASSUME OverlayOK, OverlayConsistent, NEW k \in Keys,
         NEW l \in Nat, NEW r \in Nat, NEW b \in Nat, NEW p \in {"all_zeros", "all_ones"},
         _maybe_flip(k, l, r, b, p)
  PROVE  /\ OverlayOK' /\ OverlayConsistent'
         /\ NoneUndone
         /\ Exposure(l, r, b) >= Threshold(k, Sides(l, r), p) => cells'[k] # {}
         /\ Exposure(l, r, b) < Threshold(k, Sides(l, r), p) => UNCHANGED overlay
PROOF
  <1> DEFINE x == Exposure(l, r, b)
             aggr == Sides(l, r)
             t == Threshold(k, aggr, p)
  <1>1. x \in Int /\ aggr \in {"single", "double"}
    BY ExposureIsInt
  <1>2. t \in Nat \ {0}
    BY <1>1, ThresholdIsPositive
  <1>3. CASE UNCHANGED overlay /\ (Full(k) \/ x < t)
    <2>1. OverlayOK' /\ OverlayConsistent'
      BY <1>3
      DEF OverlayOK, OverlayConsistent, OwnersAreActive, ActiveAreOwners, RowsAreIndexed, AddrOf
    <2>2. NoneUndone
      BY <1>3 DEF NoneUndone
    <2>3. x >= t => cells'[k] # {}
      BY <1>1, <1>2, <1>3 DEF Full
    <2> QED
      BY <1>3, <2>1, <2>2, <2>3
  <1>4. CASE _flip(k, _multiplicity_bits(x, t, aggr)) /\ ~ (x < t)
    <2>1. /\ _multiplicity_bits(x, t, aggr) \in Int
          /\ _multiplicity_bits(x, t, aggr) <= MAX_FLIPPED_BITS_PER_ROW
      BY <1>1, <1>2, BitsAreBounded
    <2>2. _multiplicity_bits(x, t, aggr) > 0
      BY <1>1, <1>2, <1>4, BitsArePositive
    <2> QED
      BY <1>4, <2>1, <2>2, FlipKeeps
  <1> QED
    BY <1>3, <1>4 DEF _maybe_flip

-----------------------------------------------------------------------------
(* What is left of an event is a sequence of jobs.                           *)

LEMMA FunctionsAreSequences ==
  ASSUME NEW S, NEW n \in Nat, NEW f \in [1 .. n -> S]
  PROVE  f \in Seq(S)
PROOF BY SeqDef

LEMMA JobIsJob ==
  ASSUME NEW kind \in {"settle", "bonus", "credit", "opened"}, NEW bank \in Banks,
         NEW row \in Int, NEW side \in {"left", "right"}, NEW amount \in Nat,
         kind \in {"settle", "opened"} => row \in Rows
  PROVE  Job(kind, bank, row, side, amount) \in Jobs
PROOF BY DEF Job, Jobs

LEMMA Halves ==
  ASSUME NEW n \in Nat, NEW i \in 1 .. 2 * n
  PROVE  (i + 1) \div 2 \in 1 .. n
PROOF OBVIOUS

(* The blast neighbourhood: a distance and a weight for every i of Exposed.  *)
LEMMA BlastIsPairs ==
  /\ Len(blast) \in Nat
  /\ \A i \in 1 .. 2 * Len(blast) :
       blast[(i + 1) \div 2][1] \in Nat /\ blast[(i + 1) \div 2][2] \in Nat
PROOF
  <1> DEFINE Pairs == (Nat \ {0}) \X (Nat \ {0})
  <1>1. \A d \in Pairs : d[1] \in Nat /\ d[2] \in Nat
    OBVIOUS
  <1>2. blast \in Seq(Pairs)
    BY ProfileAssumption
  <1> HIDE DEF Pairs
  <1>3. Len(blast) \in Nat
    BY <1>2, LenProperties
  <1>4. \A j \in 1 .. Len(blast) : blast[j] \in Pairs
    BY <1>2, ElementOfSeq
  <1> QED
    BY <1>1, <1>3, <1>4, Halves

LEMMA ExposedIsSeq ==
  ASSUME NEW kind \in {"bonus", "credit"}, NEW bank \in Banks, NEW row \in Int,
         NEW extra \in Nat
  PROVE  Exposed(kind, bank, row, extra) \in Seq(Jobs)
PROOF
  <1> DEFINE n == 2 * Len(blast)
             distance(i) == blast[(i + 1) \div 2][1]
             amount(i) == IF kind = "credit" THEN blast[(i + 1) \div 2][2] ELSE extra
             job(i) == IF i % 2 = 1 THEN Job(kind, bank, row - distance(i), "right", amount(i))
                                    ELSE Job(kind, bank, row + distance(i), "left", amount(i))
  <1>1. Exposed(kind, bank, row, extra) = [i \in 1 .. n |-> job(i)]
    BY DEF Exposed
  <1>2. n \in Nat
    BY BlastIsPairs
  <1>3. \A i \in 1 .. n : distance(i) \in Nat /\ amount(i) \in Nat
    BY BlastIsPairs
  <1> HIDE DEF n, distance, amount
  <1>4. \A i \in 1 .. n : job(i) \in Jobs
    <2> SUFFICES ASSUME NEW i \in 1 .. n PROVE job(i) \in Jobs
      OBVIOUS
    <2>1. row - distance(i) \in Int /\ row + distance(i) \in Int /\ amount(i) \in Nat
      BY <1>3
    <2>2. /\ Job(kind, bank, row - distance(i), "right", amount(i)) \in Jobs
          /\ Job(kind, bank, row + distance(i), "left", amount(i)) \in Jobs
      BY <2>1, JobIsJob
    <2> QED
      BY <2>2
  <1> HIDE DEF job
  <1> QED
    BY <1>1, <1>2, <1>4, FunctionsAreSequences

LEMMA HeadIsJob ==
  ASSUME todo \in Seq(Jobs), todo # <<>>
  PROVE  /\ Tail(todo) \in Seq(Jobs)
         /\ Head(todo).bank \in Banks /\ Head(todo).row \in Int
         /\ Head(todo).side \in {"left", "right"} /\ Head(todo).amount \in Nat
         /\ Head(todo).kind \in {"settle", "opened"} => Head(todo).row \in Rows
PROOF
  <1>1. Head(todo) \in Jobs /\ Tail(todo) \in Seq(Jobs)
    BY HeadTailProperties
  <1> QED
    BY <1>1 DEF Jobs

LEMMA RestoredIsNat ==
  ASSUME NEW counter \in [Keys -> Nat], NEW ks
  PROVE  Restored(counter, ks) \in [Keys -> Nat]
PROOF BY DEF Restored

-----------------------------------------------------------------------------
(* The inductive invariant.                                                  *)

IInv == TypeOK /\ OverlayConsistent

(* The parts of TypeOK, by who writes them.                                  *)
ExposureOK ==
  /\ victims \subseteq Keys
  /\ style \in [Keys -> {"all_zeros", "all_ones"}]
  /\ left \in [Keys -> Nat] /\ right \in [Keys -> Nat] /\ bonus \in [Keys -> Nat]
  /\ _oracle_acts \in [Keys -> Nat]
ControlOK ==
  /\ mitigation \in {"none", "oracle"} /\ rowpress \in BOOLEAN
  /\ _row_pattern \in [Keys -> Patterns]
  /\ _open \in [Banks -> Rows \cup {NoRow}]
  /\ _refresh_count \in [Ranks -> 0 .. Window - 1]
  /\ req \in [op : {"none", "RD", "WR", "WAIT", "failed"}, key : Keys,
              offs : SUBSET Offs, pattern : Patterns]
  /\ todo \in Seq(Jobs)

LEMMA TypeParts == TypeOK <=> OverlayOK /\ ExposureOK /\ ControlOK
PROOF BY DEF TypeOK, OverlayOK, ExposureOK, ControlOK

LEMMA TypePartsNext == TypeOK' <=> OverlayOK' /\ ExposureOK' /\ ControlOK'
PROOF BY DEF TypeOK, OverlayOK, ExposureOK, ControlOK

LEMMA OverlayUntouched ==
  ASSUME OverlayOK, OverlayConsistent, UNCHANGED overlay
  PROVE  OverlayOK' /\ OverlayConsistent' /\ NoneUndone
PROOF
  BY DEF OverlayOK, OverlayConsistent, OwnersAreActive, ActiveAreOwners, RowsAreIndexed,
         AddrOf, NoneUndone

(* A fresh engine.                                                           *)
Fresh ==
  /\ \E engine \in Engines : mitigation = engine[1] /\ rowpress = engine[2]
  /\ victims = {} /\ style = [k \in Keys |-> "all_zeros"]
  /\ left = [k \in Keys |-> 0] /\ right = [k \in Keys |-> 0]
  /\ bonus = [k \in Keys |-> 0]
  /\ cells = [k \in Keys |-> {}]
  /\ flips = [a \in Addr |-> NoBit]
  /\ _flip_owners = [a \in Addr |-> NoOwner]
  /\ flipped_row_keys = {}
  /\ _row_pattern = [k \in Keys |-> "all_zeros"]
  /\ _oracle_acts = [k \in Keys |-> 0]
  /\ _open = [b \in Banks |-> NoRow]
  /\ _refresh_count = [r \in Ranks |-> 0]
  /\ req = NoRequest /\ todo = <<>>

LEMMA NoRequestOK ==
  NoRequest \in [op : {"none", "RD", "WR", "WAIT", "failed"}, key : Keys,
                 offs : SUBSET Offs, pattern : Patterns]
PROOF BY GeometryAssumption DEF NoRequest, Patterns

LEMMA FreshIsGood == Fresh => IInv
PROOF
  <1> SUFFICES ASSUME Fresh PROVE IInv
    OBVIOUS
  <1>1. OverlayOK
    BY DEF Fresh, OverlayOK
  <1>2. ExposureOK
    BY DEF Fresh, ExposureOK
  <1>3. ControlOK
    <2>1. mitigation \in {"none", "oracle"} /\ rowpress \in BOOLEAN
      BY InputAssumption DEF Fresh
    <2>2. 0 \in 0 .. Window - 1
      BY ProfileAssumption
    <2>3. todo \in Seq(Jobs)
      BY EmptySeq DEF Fresh
    <2> QED
      BY <2>1, <2>2, <2>3, NoRequestOK DEF Fresh, ControlOK, Patterns
  <1>4. OverlayConsistent
    BY DEF Fresh, OverlayConsistent, OwnersAreActive, ActiveAreOwners, RowsAreIndexed
  <1> QED
    BY <1>1, <1>2, <1>3, <1>4, TypeParts DEF IInv

LEMMA RebuildIsGood == Rebuild => IInv'
PROOF
  <1>1. Rebuild => Fresh'
    BY DEF Rebuild, Fresh
  <1> QED
    BY <1>1, FreshIsGood, PTL

LEMMA InitIsGood == Init => IInv
PROOF BY FreshIsGood DEF Init, Fresh

-----------------------------------------------------------------------------
(* One lemma per action: types, and what it does to the overlay.             *)

LEMMA RequestKeeps ==
  ASSUME IInv, Request
  PROVE  ExposureOK' /\ ControlOK' /\ UNCHANGED overlay
PROOF
  <1> USE TypeParts DEF IInv
  <1>1. ExposureOK' /\ UNCHANGED overlay
    BY DEF Request, ExposureOK
  <1>2. ControlOK'
    <2>1. CASE \E k \in Requested : /\ req' = [NoRequest EXCEPT !.op = "RD", !.key = k]
                                     /\ UNCHANGED _row_pattern
      BY <2>1, InputAssumption, NoRequestOK DEF Request, ControlOK, NoRequest
    <2>2. CASE req' = [NoRequest EXCEPT !.op = "WAIT"] /\ UNCHANGED _row_pattern
      BY <2>2, NoRequestOK DEF Request, ControlOK, NoRequest
    <2>3. CASE \E k \in Written, offs \in Chunks, p \in Data :
                 /\ req' = [op |-> "WR", key |-> k, offs |-> offs, pattern |-> p]
                 /\ _row_pattern' = [_row_pattern EXCEPT ![k] = p]
      <3>1. PICK k \in Written, offs \in Chunks, p \in Data :
                 /\ req' = [op |-> "WR", key |-> k, offs |-> offs, pattern |-> p]
                 /\ _row_pattern' = [_row_pattern EXCEPT ![k] = p]
        BY <2>3
      <3>2. k \in Keys /\ offs \in SUBSET Offs /\ p \in Patterns
        BY InputAssumption
      <3> QED
        BY <3>1, <3>2 DEF Request, ControlOK
    <2> QED
      BY <2>1, <2>2, <2>3 DEF Request
  <1> QED
    BY <1>1, <1>2

LEMMA HammerKeeps ==
  ASSUME IInv, _hammer
  PROVE  ExposureOK' /\ ControlOK' /\ UNCHANGED overlay
PROOF
  <1> USE TypeParts DEF IInv
  <1>1. ExposureOK' /\ UNCHANGED overlay
    BY DEF _hammer, ExposureOK
  <1> DEFINE bank == req.key[1]
             row  == req.key[2]
  <1>2. bank \in Banks /\ row \in Rows
    BY DEF ControlOK, Keys
  <1>3. \A r \in Rows : r \in Int
    BY GeometryAssumption DEF Rows
  <1>4. Settles(bank, row) \in Seq(Jobs)
    <2>1. CASE _open[bank] # NoRow /\ _open[bank] # row
      <3>1. _open[bank] \in Int /\ _open[bank] \in Rows
        BY <2>1, <1>2, <1>3 DEF ControlOK
      <3>2. Job("settle", bank, _open[bank], "left", 0) \in Jobs
        BY <3>1, <1>2, JobIsJob
      <3> QED
        BY <2>1, <3>2 DEF Settles
    <2>2. CASE ~ (_open[bank] # NoRow /\ _open[bank] # row)
      BY <2>2, EmptySeq DEF Settles
    <2> QED
      BY <2>1, <2>2
  <1>5. Exposed("credit", bank, row, 0) \in Seq(Jobs)
    BY <1>2, <1>3, ExposedIsSeq
  <1>6. <<Job("opened", bank, row, "left", 0)>> \in Seq(Jobs)
    <2>1. Job("opened", bank, row, "left", 0) \in Jobs
      BY <1>2, <1>3, JobIsJob
    <2> QED
      BY <2>1
  <1>7. todo' = Settles(bank, row) \o Exposed("credit", bank, row, 0)
                  \o <<Job("opened", bank, row, "left", 0)>>
    BY DEF _hammer
  <1> HIDE DEF bank, row
  <1>8. todo' \in Seq(Jobs)
    BY <1>4, <1>5, <1>6, <1>7, ConcatProperties
  <1>9. ControlOK'
    BY <1>8 DEF _hammer, ControlOK
  <1> QED
    BY <1>1, <1>9

LEMMA CloseBankKeeps ==
  ASSUME IInv, _close_bank
  PROVE  ExposureOK' /\ ControlOK' /\ UNCHANGED overlay
PROOF
  <1> USE TypeParts DEF IInv
  <1>1. ExposureOK' /\ UNCHANGED overlay
    BY DEF _close_bank, ExposureOK
  <1>2. PICK scope \in Scopes :
          \E order \in Orders({b \in scope : _open[b] # NoRow}) :
            todo' = [i \in 1 .. Cardinality({b \in scope : _open[b] # NoRow}) |->
                       Job("settle", order[i], _open[order[i]], "left", 0)]
    BY DEF _close_bank
  <1> DEFINE closed == {b \in scope : _open[b] # NoRow}
             n == Cardinality(closed)
  <1>3. PICK order \in Orders(closed) :
          todo' = [i \in 1 .. n |-> Job("settle", order[i], _open[order[i]], "left", 0)]
    BY <1>2
  <1>4. closed \subseteq Banks
    BY DEF Scopes
  <1>5. n \in Nat
    <2>1. IsFiniteSet(closed)
      BY <1>4, GeometryAssumption, FS_Subset
    <2> QED
      BY <2>1, FS_CardinalityType
  <1>6. \A i \in 1 .. n : order[i] \in closed
    BY DEF Orders
  <1>7. \A i \in 1 .. n : Job("settle", order[i], _open[order[i]], "left", 0) \in Jobs
    <2> SUFFICES ASSUME NEW i \in 1 .. n
                 PROVE  Job("settle", order[i], _open[order[i]], "left", 0) \in Jobs
      OBVIOUS
    <2>1. order[i] \in Banks /\ _open[order[i]] \in Rows
      BY <1>4, <1>6 DEF ControlOK
    <2>2. _open[order[i]] \in Int
      BY <2>1, GeometryAssumption DEF Rows
    <2> QED
      BY <2>1, <2>2, JobIsJob
  <1>8. todo' \in Seq(Jobs)
    <2> HIDE DEF n
    <2> QED
      BY <1>3, <1>5, <1>7, FunctionsAreSequences
  <1>9. ControlOK'
    BY <1>8 DEF _close_bank, ControlOK
  <1> QED
    BY <1>1, <1>9

LEMMA RefreshKeeps ==
  ASSUME IInv, _refresh
  PROVE  ExposureOK' /\ ControlOK' /\ UNCHANGED overlay
PROOF
  <1> USE TypeParts DEF IInv
  <1>1. PICK r \in Ranks :
          LET boundary == _refresh_count[r] = Window - 1
              ks == IF boundary THEN RestoredRows(r) ELSE {}
          IN  /\ _refresh_count' =
                   [_refresh_count EXCEPT ![r] = IF boundary THEN 0 ELSE @ + 1]
              /\ left' = Restored(left, ks) /\ right' = Restored(right, ks)
              /\ bonus' = Restored(bonus, ks)
              /\ _oracle_acts' =
                   IF mitigation = "oracle" THEN Restored(_oracle_acts, ks) ELSE _oracle_acts
    BY DEF _refresh
  <1>2. ExposureOK'
    BY <1>1, RestoredIsNat DEF _refresh, ExposureOK
  <1>3. _refresh_count' \in [Ranks -> 0 .. Window - 1]
    <2>1. _refresh_count \in [Ranks -> 0 .. Window - 1] /\ Window \in Nat \ {0}
      BY ProfileAssumption DEF ControlOK
    <2>2. _refresh_count' = [_refresh_count EXCEPT ![r] =
                               IF _refresh_count[r] = Window - 1 THEN 0 ELSE _refresh_count[r] + 1]
      BY <1>1
    <2>3. (IF _refresh_count[r] = Window - 1 THEN 0 ELSE _refresh_count[r] + 1) \in 0 .. Window - 1
      BY <2>1
    <2> QED
      BY <2>1, <2>2, <2>3
  <1>4. ControlOK' /\ UNCHANGED overlay
    BY <1>3 DEF _refresh, ControlOK
  <1> QED
    BY <1>2, <1>4

LEMMA SettleKeeps ==
  ASSUME IInv, _settle_dwell
  PROVE  ExposureOK' /\ ControlOK' /\ UNCHANGED overlay
PROOF
  <1> USE TypeParts DEF IInv
  <1>1. ExposureOK' /\ UNCHANGED overlay
    BY DEF _settle_dwell, ExposureOK
  <1>2. todo \in Seq(Jobs) /\ todo # <<>>
    BY DEF ControlOK, _settle_dwell, NextJob
  <1>3. PICK extra \in (IF rowpress THEN Dwells ELSE {0}) :
          todo' = (IF extra = 0 THEN <<>>
                   ELSE Exposed("bonus", Head(todo).bank, Head(todo).row, extra)) \o Tail(todo)
    BY DEF _settle_dwell
  <1>4. extra \in Nat
    BY ProfileAssumption
  <1>5. Exposed("bonus", Head(todo).bank, Head(todo).row, extra) \in Seq(Jobs)
    BY <1>2, <1>4, HeadIsJob, ExposedIsSeq
  <1>6. todo' \in Seq(Jobs)
    <2>1. Tail(todo) \in Seq(Jobs)
      BY <1>2, HeadIsJob
    <2>2. CASE extra = 0
      BY <2>1, <2>2, <1>3, ConcatEmptySeq
    <2>3. CASE extra # 0
      BY <2>1, <2>3, <1>3, <1>5, ConcatProperties
    <2> QED
      BY <2>2, <2>3
  <1>7. ControlOK'
    BY <1>6 DEF _settle_dwell, ControlOK
  <1> QED
    BY <1>1, <1>7

(* Crossing, for one row: if its exposure rose and is beyond its threshold,  *)
(* one of its cells is flipped.                                              *)
RowRefires(k) ==
  /\ left'[k] > left[k] \/ right'[k] > right[k] \/ bonus'[k] > bonus[k]
  /\ Exposure(left'[k], right'[k], bonus'[k])
       >= Threshold(k, Sides(left'[k], right'[k]), style'[k])
  => cells'[k] # {}

LEMMA BonusKeeps ==
  ASSUME IInv, Bonus
  PROVE  /\ OverlayOK' /\ OverlayConsistent' /\ ExposureOK' /\ ControlOK'
         /\ NoneUndone
         /\ \A k \in Keys : RowRefires(k)
PROOF
  <1> USE TypeParts DEF IInv
  <1> DEFINE k == <<Head(todo).bank, Head(todo).row>>
             b == bonus[k] + Head(todo).amount
  <1>1. todo \in Seq(Jobs) /\ todo # <<>>
    BY DEF ControlOK, Bonus, NextJob
  <1>2. ControlOK'
    BY <1>1, HeadIsJob DEF Bonus, ControlOK
  <1>3. victims' = victims /\ style' = style /\ left' = left /\ right' = right
        /\ _oracle_acts' = _oracle_acts
    BY DEF Bonus
  <1>4. CASE UNCHANGED <<bonus, overlay>>
    <2>1. OverlayOK' /\ OverlayConsistent' /\ NoneUndone
      BY <1>4, OverlayUntouched
    <2>2. ExposureOK'
      BY <1>3, <1>4 DEF ExposureOK
    <2>3. \A v \in Keys : RowRefires(v)
      BY <1>3, <1>4 DEF RowRefires, ExposureOK
    <2> QED
      BY <1>2, <2>1, <2>2, <2>3
  <1>5. CASE /\ k \in victims
             /\ bonus' = [bonus EXCEPT ![k] = b]
             /\ _maybe_flip(k, left[k], right[k], b, style[k])
    <2>1. k \in Keys /\ left[k] \in Nat /\ right[k] \in Nat
          /\ style[k] \in {"all_zeros", "all_ones"}
      BY <1>5 DEF ExposureOK
    <2>2. b \in Nat
      BY <1>1, <2>1, HeadIsJob DEF ExposureOK
    <2> HIDE DEF b, k
    <2>3. /\ OverlayOK' /\ OverlayConsistent' /\ NoneUndone
          /\ Exposure(left[k], right[k], b) >= Threshold(k, Sides(left[k], right[k]), style[k])
               => cells'[k] # {}
      BY <1>5, <2>1, <2>2, MaybeFlipKeeps
    <2>4. ExposureOK'
      BY <1>3, <1>5, <2>2 DEF ExposureOK
    <2>5. bonus'[k] = b
      BY <1>5, <2>1 DEF ExposureOK
    <2>6. RowRefires(k)
      BY <1>3, <2>3, <2>5 DEF RowRefires
    <2>7. \A v \in Keys : v # k => RowRefires(v)
      <3> SUFFICES ASSUME NEW v \in Keys, v # k PROVE RowRefires(v)
        OBVIOUS
      <3>1. bonus'[v] = bonus[v] /\ bonus[v] \in Nat /\ left[v] \in Nat /\ right[v] \in Nat
        BY <1>5 DEF ExposureOK
      <3> QED
        BY <1>3, <3>1 DEF RowRefires
    <2> QED
      BY <1>2, <2>3, <2>4, <2>6, <2>7
  <1> QED
    BY <1>4, <1>5 DEF Bonus

LEMMA CreditKeeps ==
  ASSUME IInv, Credit
  PROVE  /\ OverlayOK' /\ OverlayConsistent' /\ ExposureOK' /\ ControlOK'
         /\ NoneUndone
         /\ \A k \in Keys : RowRefires(k)
PROOF
  <1> USE TypeParts DEF IInv
  <1> DEFINE job == Head(todo)
             k == <<job.bank, job.row>>
             l == left[k] + (IF job.side = "left" THEN job.amount ELSE 0)
             r == right[k] + (IF job.side = "right" THEN job.amount ELSE 0)
             p == IF k \in victims THEN style[k] ELSE _victim_pattern(k)
  <1>1. todo \in Seq(Jobs) /\ todo # <<>>
    BY DEF ControlOK, Credit, NextJob
  <1>2. ControlOK'
    BY <1>1, HeadIsJob DEF Credit, ControlOK
  <1>3. bonus' = bonus /\ _oracle_acts' = _oracle_acts
    BY DEF Credit
  <1>4. CASE UNCHANGED <<victims, style, left, right, overlay>>
    <2>1. OverlayOK' /\ OverlayConsistent' /\ NoneUndone
      BY <1>4, OverlayUntouched
    <2>2. ExposureOK'
      BY <1>3, <1>4 DEF ExposureOK
    <2>3. \A v \in Keys : RowRefires(v)
      BY <1>3, <1>4 DEF RowRefires, ExposureOK
    <2> QED
      BY <1>2, <2>1, <2>2, <2>3
  <1>5. CASE /\ _row_exists(job.row)
             /\ victims' = victims \cup {k}
             /\ style' = [style EXCEPT ![k] = p]
             /\ left' = [left EXCEPT ![k] = l]
             /\ right' = [right EXCEPT ![k] = r]
             /\ _maybe_flip(k, l, r, bonus[k], p)
    <2>1. k \in Keys
      BY <1>1, <1>5, HeadIsJob DEF _row_exists, Keys
    <2>2. job.amount \in Nat
      BY <1>1, HeadIsJob
    <2> HIDE DEF job
    <2>3. left[k] \in Nat /\ right[k] \in Nat /\ bonus[k] \in Nat
      BY <2>1 DEF ExposureOK
    <2>4. l \in Nat /\ r \in Nat
      BY <2>2, <2>3
    <2>5. p \in {"all_zeros", "all_ones"}
      BY <2>1 DEF ExposureOK, _victim_pattern
    <2> HIDE DEF k, l, r, p
    <2>6. /\ OverlayOK' /\ OverlayConsistent' /\ NoneUndone
          /\ Exposure(l, r, bonus[k]) >= Threshold(k, Sides(l, r), p) => cells'[k] # {}
      BY <1>5, <2>1, <2>3, <2>4, <2>5, MaybeFlipKeeps
    <2>7. ExposureOK'
      BY <1>3, <1>5, <2>1, <2>4, <2>5 DEF ExposureOK
    <2>8. left'[k] = l /\ right'[k] = r /\ style'[k] = p
      BY <1>5, <2>1 DEF ExposureOK
    <2>9. RowRefires(k)
      BY <1>3, <2>6, <2>8 DEF RowRefires
    <2>10. \A v \in Keys : v # k => RowRefires(v)
      <3> SUFFICES ASSUME NEW v \in Keys, v # k PROVE RowRefires(v)
        OBVIOUS
      <3>1. left'[v] = left[v] /\ right'[v] = right[v] /\ left[v] \in Nat /\ right[v] \in Nat
            /\ bonus[v] \in Nat
        BY <1>5 DEF ExposureOK
      <3> QED
        BY <1>3, <3>1 DEF RowRefires
    <2> QED
      BY <1>2, <2>6, <2>7, <2>9, <2>10
  <1> QED
    BY <1>4, <1>5 DEF Credit

LEMMA OpenedKeeps ==
  ASSUME IInv, Opened
  PROVE  ExposureOK' /\ ControlOK' /\ UNCHANGED overlay
PROOF
  <1> USE TypeParts DEF IInv
  <1> DEFINE job == Head(todo)
  <1>1. todo \in Seq(Jobs) /\ todo # <<>>
    BY DEF ControlOK, Opened, NextJob
  <1>2. UNCHANGED overlay
    BY DEF Opened
  <1>3. ExposureOK'
    <2>1. CASE UNCHANGED <<exposure, _oracle_acts>>
      BY <2>1 DEF Opened, ExposureOK
    <2>2. CASE _oracle_on_act(job.bank, job.row)
      <3>1. _oracle_acts' \in [Keys -> Nat]
        <4>1. _oracle_acts' =
                [_oracle_acts EXCEPT ![<<job.bank, job.row>>] =
                   IF OracleFires(job.bank, job.row) THEN 0
                   ELSE _oracle_acts[<<job.bank, job.row>>] + 1]
          BY <2>2 DEF _oracle_on_act
        <4>2. <<job.bank, job.row>> \in Keys
          BY <1>1, HeadIsJob DEF Opened, NextJob, Keys
        <4> QED
          BY <4>1, <4>2 DEF ExposureOK
      <3>2. left' \in [Keys -> Nat] /\ right' \in [Keys -> Nat] /\ bonus' \in [Keys -> Nat]
        BY <2>2, RestoredIsNat DEF _oracle_on_act, ExposureOK
      <3> QED
        BY <3>1, <3>2 DEF Opened, ExposureOK
    <2> QED
      BY <2>1, <2>2 DEF Opened
  <1>4. ControlOK'
    <2>1. _open' \in [Banks -> Rows \cup {NoRow}]
      BY <1>1, HeadIsJob DEF Opened, NextJob, ControlOK
    <2> QED
      BY <1>1, <2>1, HeadIsJob DEF Opened, ControlOK
  <1> QED
    BY <1>2, <1>3, <1>4

LEMMA EncodeFailsKeeps ==
  ASSUME IInv, EncodeFails
  PROVE  ExposureOK' /\ ControlOK' /\ UNCHANGED overlay
PROOF
  <1> USE TypeParts DEF IInv
  <1>1. ExposureOK' /\ UNCHANGED overlay
    BY DEF EncodeFails, ExposureOK
  <1>2. ControlOK'
    BY NoRequestOK, EmptySeq DEF EncodeFails, ControlOK, NoRequest
  <1> QED
    BY <1>1, <1>2

(* A write undoes flips under its bytes; other requests leave them alone.    *)
WriteUndoes ==
  \A a \in Addr : flips[a] # NoBit /\ flips'[a] = NoBit =>
    /\ req.op = "WR" /\ req' = NoRequest
    /\ \E o \in req.offs : a = Anchor[req.key] + o

LEMMA RespondKeeps ==
  ASSUME IInv, Respond
  PROVE  OverlayOK' /\ OverlayConsistent' /\ ExposureOK' /\ ControlOK' /\ WriteUndoes
PROOF
  <1> USE TypeParts DEF IInv
  <1>1. ExposureOK'
    BY DEF Respond, ExposureOK
  <1>2. ControlOK'
    BY NoRequestOK DEF Respond, ControlOK
  <1>3. req' = NoRequest /\ req.key \in Keys /\ req.offs \in SUBSET Offs
    BY DEF Respond, ControlOK
  <1>4. CASE req.op = "WR"
    <2>1. restore(req.key, req.offs)
      BY <1>4 DEF Respond
    <2> QED
      BY <1>1, <1>2, <1>3, <1>4, <2>1, RestoreKeeps DEF WriteUndoes
  <1>5. CASE req.op # "WR"
    <2>1. UNCHANGED overlay
      BY <1>5 DEF Respond
    <2> QED
      BY <1>1, <1>2, <2>1, OverlayUntouched DEF WriteUndoes, NoneUndone
  <1> QED
    BY <1>4, <1>5

(* Exposure grows through the credits of an activation and the bonus of a    *)
(* dwell only.                                                               *)
NoneRises ==
  \A k \in Keys : ~ (left'[k] > left[k] \/ right'[k] > right[k] \/ bonus'[k] > bonus[k])

LEMMA RestoredDoesNotRise ==
  ASSUME NEW counter \in [Keys -> Nat], NEW ks, NEW k \in Keys
  PROVE  ~ (Restored(counter, ks)[k] > counter[k])
PROOF BY DEF Restored

LEMMA RebuildDoesNotRise == IInv /\ Rebuild => NoneRises
PROOF BY DEF IInv, TypeOK, Rebuild, NoneRises

LEMMA OthersDoNotRise ==
  ASSUME IInv, [Next]_vars, ~ Bonus, ~ Credit
  PROVE  NoneRises
PROOF
  <1>1. left \in [Keys -> Nat] /\ right \in [Keys -> Nat] /\ bonus \in [Keys -> Nat]
    BY DEF IInv, TypeOK
  <1>2. CASE UNCHANGED exposure
    BY <1>1, <1>2 DEF NoneRises
  <1>3. ASSUME NEW ks, left' = Restored(left, ks), right' = Restored(right, ks),
               bonus' = Restored(bonus, ks)
        PROVE  NoneRises
    BY <1>1, <1>3, RestoredDoesNotRise DEF NoneRises
  <1>4. CASE _refresh
    <2>1. \E ks : left' = Restored(left, ks) /\ right' = Restored(right, ks)
                  /\ bonus' = Restored(bonus, ks)
      BY <1>4 DEF _refresh
    <2> QED
      BY <2>1, <1>3
  <1>5. CASE Opened
    <2>1. CASE UNCHANGED exposure
      BY <2>1, <1>2
    <2>2. CASE _oracle_on_act(Head(todo).bank, Head(todo).row)
      <3>1. \E ks : left' = Restored(left, ks) /\ right' = Restored(right, ks)
                    /\ bonus' = Restored(bonus, ks)
        BY <2>2 DEF _oracle_on_act
      <3> QED
        BY <3>1, <1>3
    <2> QED
      BY <1>5, <2>1, <2>2 DEF Opened
  <1>6. CASE Rebuild
    BY <1>6, RebuildDoesNotRise
  <1>7. CASE Request \/ _hammer \/ _close_bank \/ _settle_dwell \/ EncodeFails \/ Respond
             \/ UNCHANGED vars
    BY <1>7, <1>2
    DEF Request, _hammer, _close_bank, _settle_dwell, EncodeFails, Respond, vars
  <1> QED
    BY <1>4, <1>5, <1>6, <1>7 DEF Next, Event, Work

(* Every step keeps the invariant, undoes only what a write covers, and      *)
(* flips every row it pushes beyond its threshold.                           *)
LEMMA NextKeeps ==
  ASSUME IInv, [Next]_vars
  PROVE  /\ IInv'
         /\ Rebuild \/ WriteUndoes
         /\ \A k \in Keys : RowRefires(k)
PROOF
  <1>1. OverlayOK /\ OverlayConsistent /\ ExposureOK /\ ControlOK
    BY TypeParts DEF IInv
  <1>2. NoneUndone => WriteUndoes
    BY DEF NoneUndone, WriteUndoes
  <1>3. NoneRises => \A k \in Keys : RowRefires(k)
    BY DEF NoneRises, RowRefires
  <1>4. CASE Rebuild
    BY <1>3, <1>4, RebuildIsGood, RebuildDoesNotRise
  <1>5. CASE Bonus \/ Credit
    <2>1. /\ OverlayOK' /\ OverlayConsistent' /\ ExposureOK' /\ ControlOK' /\ NoneUndone
          /\ \A k \in Keys : RowRefires(k)
      BY <1>5, BonusKeeps, CreditKeeps
    <2> QED
      BY <1>2, <2>1, TypePartsNext DEF IInv
  <1>6. ASSUME ~ Rebuild, ~ Bonus, ~ Credit PROVE IInv' /\ WriteUndoes /\ NoneRises
    <2>1. NoneRises
      BY <1>6, OthersDoNotRise
    <2>2. CASE Respond
      BY <2>1, <2>2, RespondKeeps, TypePartsNext DEF IInv
    <2>3. CASE ~ Respond
      <3>1. ExposureOK' /\ ControlOK' /\ UNCHANGED overlay
        <4>1. CASE UNCHANGED vars
          BY <4>1, <1>1 DEF vars, ExposureOK, ControlOK
        <4>2. CASE Request \/ _hammer \/ _close_bank \/ _refresh \/ _settle_dwell \/ Opened
                   \/ EncodeFails
          BY <4>2, RequestKeeps, HammerKeeps, CloseBankKeeps, RefreshKeeps, SettleKeeps,
             OpenedKeeps, EncodeFailsKeeps
        <4> QED
          BY <1>6, <2>3, <4>1, <4>2 DEF Next, Event, Work
      <3>2. OverlayOK' /\ OverlayConsistent' /\ NoneUndone
        BY <1>1, <3>1, OverlayUntouched
      <3> QED
        BY <1>2, <2>1, <3>1, <3>2, TypePartsNext DEF IInv
    <2> QED
      BY <2>2, <2>3
  <1> QED
    BY <1>3, <1>4, <1>5, <1>6

-----------------------------------------------------------------------------
(* The inductive invariant holds in every reachable state.                   *)
THEOREM Indexed == Spec => []IInv
PROOF
  <1>1. Init => IInv
    BY InitIsGood
  <1>2. IInv /\ [Next]_vars => IInv'
    BY NextKeeps
  <1> QED
    BY <1>1, <1>2, PTL DEF Spec

(* Every variable of the engine keeps its type; a victim's pattern is one a  *)
(* stratum exists for (_victim).                                             *)
THEOREM TypeCorrect == Spec => []TypeOK
PROOF
  <1>1. IInv => TypeOK
    BY DEF IInv
  <1> QED
    BY <1>1, Indexed, PTL

(* The overlay, its owners, the victims' cells and the row index agree,      *)
(* whichever cells share bytes and whatever is written (_flip, restore).     *)
THEOREM OverlayIsConsistent == Spec => []OverlayConsistent
PROOF
  <1>1. IInv => OverlayConsistent
    BY DEF IInv
  <1> QED
    BY <1>1, Indexed, PTL

(* Only a write that covers its byte undoes a flip (restore).                *)
THEOREM FlipsArePersistent == Spec => FlipsPersist
PROOF
  <1>1. IInv /\ [Next]_vars =>
          [\A a \in Addr : flips[a] # NoBit /\ flips'[a] = NoBit =>
             \/ Rebuild
             \/ req.op = "WR" /\ req' = NoRequest
                /\ \E o \in req.offs : a = Anchor[req.key] + o]_vars
    BY NextKeeps DEF WriteUndoes
  <1> QED
    BY <1>1, Indexed, PTL DEF Spec, FlipsPersist

(* A row with an active cell shows a flip when it is read (apply).           *)
FlippedRowsShow == \A k \in Keys : cells[k] # {} => Shows(k, flips)

LEMMA FlippedShows == IInv => FlippedRowsShow
PROOF
  <1> SUFFICES ASSUME IInv, NEW k \in Keys, NEW c \in cells[k] PROVE Shows(k, flips)
    BY DEF FlippedRowsShow
  <1>1. OverlayOK /\ OverlayConsistent
    BY TypeParts DEF IInv
  <1>2. c \in Cell
    BY <1>1 DEF OverlayOK
  <1>3. AddrOf(k, c) \in Addr /\ c[1] \in Offs
    BY <1>2, AddrOfCell DEF Cell
  <1>4. _flip_owners[AddrOf(k, c)] = <<k, c>>
    BY <1>1 DEF OverlayConsistent, ActiveAreOwners
  <1>5. flips[AddrOf(k, c)] # NoBit
    <2>1. _flip_owners[AddrOf(k, c)] # NoOwner
      BY <1>4 DEF NoOwner
    <2> QED
      BY <2>1, <1>1, <1>3 DEF OverlayConsistent, OwnersAreActive
  <1> QED
    BY <1>3, <1>5 DEF Shows, AddrOf

(* A row pushed beyond its threshold shows a flip, also one whose cells a    *)
(* write has just restored (_maybe_flip, _flip_positions).                   *)
THEOREM RestoredRowsRefire == Spec => Refires
PROOF
  <1>1. IInv /\ [Next]_vars => \A k \in Keys : RowRefires(k)
    BY NextKeeps
  <1>2. (\A k \in Keys : RowRefires(k)) /\ FlippedRowsShow' =>
          [\A k \in Keys :
             /\ left'[k] > left[k] \/ right'[k] > right[k] \/ bonus'[k] > bonus[k]
             /\ Crossed(k)'
             => Shows(k, flips')]_vars
    BY DEF RowRefires, FlippedRowsShow, Crossed, Shows
  <1>3. IInv => FlippedRowsShow
    BY FlippedShows
  <1> QED
    BY <1>1, <1>2, <1>3, Indexed, PTL DEF Spec, Refires

(* The rows of the device do not overlap: row_span is a row's own bytes.     *)
RowsAreDisjoint ==
  \A k, v \in Keys : \A o, u \in Offs : Anchor[k] + o = Anchor[v] + u => k = v

(* If rows do not overlap, the index that rewards read and the bytes that    *)
(* the policy reads tell of the same flips.                                  *)
THEOREM ReadsTellOfFlips == ASSUME RowsAreDisjoint PROVE Spec => []ReadsAgree
PROOF
  <1>1. IInv => ReadsAgree
    <2> SUFFICES ASSUME IInv, NEW k \in Keys
                 PROVE  k \in flipped_row_keys <=> Shows(k, flips)
      BY DEF ReadsAgree
    <2>1. OverlayOK /\ OverlayConsistent
      BY TypeParts DEF IInv
    <2>2. k \in flipped_row_keys <=> cells[k] # {}
      BY <2>1 DEF OverlayConsistent, RowsAreIndexed
    <2>3. cells[k] # {} => Shows(k, flips)
      BY FlippedShows DEF FlippedRowsShow
    <2>4. ASSUME NEW o \in Offs, flips[Anchor[k] + o] # NoBit PROVE cells[k] # {}
      <3>1. Anchor[k] + o \in Addr
        BY DEF Addr
      <3>2. PICK v \in Keys : \E c \in cells[v] : AddrOf(v, c) = Anchor[k] + o
        BY <2>1, <2>4, <3>1 DEF OverlayConsistent, OwnersAreActive
      <3>3. PICK c \in cells[v] : AddrOf(v, c) = Anchor[k] + o
        BY <3>2
      <3>4. c[1] \in Offs
        BY <2>1, <3>3 DEF OverlayOK, Cell
      <3>5. v = k
        BY <3>3, <3>4 DEF AddrOf, RowsAreDisjoint
      <3> QED
        BY <3>3, <3>5
    <2> QED
      BY <2>2, <2>3, <2>4 DEF Shows
  <1> QED
    BY <1>1, Indexed, PTL

-----------------------------------------------------------------------------
(***************************************************************************)
(* The oracle mitigation of Disturbance protects the known target, for every *)
(* geometry and every order of requests, refreshes and restores, with and    *)
(* without half-double victims.                                              *)
(*                                                                         *)
(* Without RowPress a row is exposed by activations alone, and the oracle     *)
(* counts those: the invariant bounds each side of a victim by the weighted   *)
(* counts of the aggressors on that side.  It must say what is left of an     *)
(* event, because a victim is credited before the oracle counts the          *)
(* activation.                                                               *)
(***************************************************************************)

Both == {"left", "right"}

(* The neighbourhoods the engine is built with (StandardModel.from_geometry): *)
(* adjacent victims, or those and the ones two rows away.                    *)
Rings ==
  /\ Len(blast) \in {1, 2}
  /\ \A i \in 1 .. Len(blast) : blast[i][1] = i

Weight(i) == IF i <= Len(blast) THEN blast[i][2] ELSE 0

Reach == Weight(1) + Weight(2)

(* The threshold leaves room for the activation that makes the oracle fire.  *)
ThresholdIsLow ==
  /\ 2 * (Reach * (tRH - 1)) < KnownHc["double"]
  /\ Reach * tRH < KnownHc["single"]

(* The oracle's count of a row, none for a row off the end of the bank.      *)
Acts(bank, row) == IF row \in Rows THEN _oracle_acts[<<bank, row>>] ELSE 0

(* An activation of the row is being consumed, with at most n jobs left.     *)
Consuming(bank, row, n) ==
  /\ Len(todo) \in 1 .. n
  /\ todo[Len(todo)].kind = "opened"
  /\ todo[Len(todo)].bank = bank /\ todo[Len(todo)].row = row

Extra(bank, row, n) == IF Consuming(bank, row, n) THEN 1 ELSE 0

(* The victim i rows from an aggressor that has the aggressor on side s, and  *)
(* the aggressor i rows from a victim, on its side s.                        *)
To(s, row, i) == IF s = "left" THEN row + i ELSE row - i
From(s, row, i) == IF s = "left" THEN row - i ELSE row + i

(* How many jobs of an activation are left once that victim is credited.     *)
Turn(s, i) == 2 * (Len(blast) - i) + (IF s = "left" THEN 1 ELSE 2)

Crediting(bank, row, s, i) == Job("credit", bank, To(s, row, i), s, Weight(i))

(* n jobs of an activation are left: the row is opened last, before that its  *)
(* victims are credited, the nearest first, before that a row is closed.     *)
Activation(bank, row, n) ==
  /\ Len(todo) = n
  /\ todo[n] = Job("opened", bank, row, "left", 0)
  /\ \A s \in Both, i \in 1 .. Len(blast) :
       Turn(s, i) < n => todo[n - Turn(s, i)] = Crediting(bank, row, s, i)
  /\ n = 2 * Len(blast) + 2 => todo[1].kind = "settle"

Closing == \A i \in 1 .. Len(todo) : todo[i].kind = "settle"

Shape ==
  \/ Closing
  \/ \E bank \in Banks, row \in Rows, n \in 1 .. 2 * Len(blast) + 2 : Activation(bank, row, n)

OnSide(s) == IF s = "left" THEN left ELSE right

(* The activations of that aggressor which have credited the victim: those   *)
(* counted, and the one being consumed once the victim had its turn.         *)
Seen(s, bank, row, i) ==
  Acts(bank, From(s, row, i)) + Extra(bank, From(s, row, i), Turn(s, i))

(* A side of a victim is exposed at most by what the oracle has counted.     *)
Bounded ==
  \A s \in Both, bank \in Banks, row \in Rows :
    OnSide(s)[<<bank, row>>] <=
      Weight(1) * Seen(s, bank, row, 1) + Weight(2) * Seen(s, bank, row, 2)

OracleInv ==
  /\ req.op = "failed" => todo = <<>>
  /\ mitigation = "oracle" /\ ~rowpress =>
       /\ Shape
       /\ \A k \in Keys : bonus[k] = 0
       /\ \A k \in Keys : _oracle_acts[k] < tRH
       /\ req.op # "failed" => Bounded
       /\ Target \notin flipped_row_keys

Guarded == mitigation = "oracle" /\ ~rowpress

(* Two rings at most, each with a weight.                                    *)
LEMMA WeightsOfRings ==
  ASSUME Rings
  PROVE  /\ Len(blast) \in {1, 2}
         /\ \A i \in {1, 2} : Weight(i) \in Nat
         /\ \A i \in 1 .. Len(blast) : i \in {1, 2} /\ Weight(i) = blast[i][2]
         /\ \A i \in {1, 2} : i \notin 1 .. Len(blast) => Weight(i) = 0
         /\ Reach \in Nat
PROOF
  <1>1. Len(blast) \in {1, 2}
    BY DEF Rings
  <1>2. \A i \in 1 .. Len(blast) : blast[i][2] \in Nat
    <2>1. \A j \in 1 .. 2 * Len(blast) : blast[(j + 1) \div 2][2] \in Nat
      BY BlastIsPairs
    <2> SUFFICES ASSUME NEW i \in 1 .. Len(blast) PROVE blast[i][2] \in Nat
      OBVIOUS
    <2>2. 2 * i \in 1 .. 2 * Len(blast) /\ (2 * i + 1) \div 2 = i
      BY <1>1
    <2>3. blast[(2 * i + 1) \div 2][2] \in Nat
      BY <2>1, <2>2
    <2> QED
      BY <2>2, <2>3
  <1>3. \A i \in {1, 2} : Weight(i) \in Nat
    BY <1>1, <1>2 DEF Weight
  <1>4. ASSUME NEW i \in 1 .. Len(blast)
        PROVE  i \in {1, 2} /\ Weight(i) = blast[i][2]
    <2>1. CASE Len(blast) = 1
      BY <2>1 DEF Weight
    <2>2. CASE Len(blast) = 2
      BY <2>2 DEF Weight
    <2> QED
      BY <1>1, <2>1, <2>2
  <1>5. \A i \in {1, 2} : i \notin 1 .. Len(blast) => Weight(i) = 0
    BY <1>1 DEF Weight
  <1>6. Reach \in Nat
    BY <1>3 DEF Reach
  <1> QED
    BY <1>1, <1>3, <1>4, <1>5, <1>6

(* Every turn from 1 to the number of credits is that of one victim.         *)
LEMMA TurnsOfRings ==
  ASSUME Rings
  PROVE  /\ \A s \in Both, i \in {1, 2} : Turn(s, i) \in Int /\ Turn(s, i) <= 2 * Len(blast)
         /\ \A s \in Both, i \in 1 .. Len(blast) : Turn(s, i) \in 1 .. 2 * Len(blast)
         /\ \A n \in 1 .. 2 * Len(blast) :
              \E s \in Both, i \in 1 .. Len(blast) : Turn(s, i) = n
         /\ \A s, z \in Both, i, j \in {1, 2} : Turn(s, i) = Turn(z, j) => s = z /\ i = j
PROOF
  <1>1. CASE Len(blast) = 1
    BY <1>1 DEF Turn, Both
  <1>2. CASE Len(blast) = 2
    <2>1. /\ Turn("left", 1) = 3 /\ Turn("right", 1) = 4
          /\ Turn("left", 2) = 1 /\ Turn("right", 2) = 2
      BY <1>2 DEF Turn
    <2> QED
      BY <1>2, <2>1 DEF Both
  <1> QED
    BY <1>1, <1>2 DEF Rings

LEMMA CreditsOfRings ==
  ASSUME Rings, NEW bank, NEW row \in Int, NEW s \in Both, NEW i \in 1 .. Len(blast)
  PROVE  LET e == Exposed("credit", bank, row, 0) IN
         /\ Len(e) = 2 * Len(blast)
         /\ e[2 * Len(blast) + 1 - Turn(s, i)] = Crediting(bank, row, s, i)
PROOF
  <1> DEFINE e == Exposed("credit", bank, row, 0)
             n == 2 * Len(blast)
  <1>1. Len(blast) \in {1, 2} /\ blast[i][1] = i /\ Weight(i) = blast[i][2] /\ i \in {1, 2}
    BY WeightsOfRings DEF Rings
  <1>2. e = [j \in 1 .. n |->
               IF j % 2 = 1 THEN Job("credit", bank, row - blast[(j + 1) \div 2][1], "right",
                                     blast[(j + 1) \div 2][2])
               ELSE Job("credit", bank, row + blast[(j + 1) \div 2][1], "left",
                        blast[(j + 1) \div 2][2])]
    BY DEF Exposed
  <1>3. Len(e) = n
    BY <1>1, <1>2
  <1>4. CASE s = "left"
    <2>1. n + 1 - Turn(s, i) = 2 * i
      BY <1>1, <1>4 DEF Turn
    <2>2. 2 * i \in 1 .. n /\ (2 * i) % 2 # 1 /\ (2 * i + 1) \div 2 = i
      BY <1>1
    <2>3. e[2 * i] = Job("credit", bank, row + blast[i][1], "left", blast[i][2])
      BY <1>2, <2>2
    <2> QED
      BY <1>1, <1>3, <1>4, <2>1, <2>3 DEF Crediting, To
  <1>5. CASE s = "right"
    <2>1. n + 1 - Turn(s, i) = 2 * i - 1
      BY <1>1, <1>5 DEF Turn
    <2>2. 2 * i - 1 \in 1 .. n /\ (2 * i - 1) % 2 = 1 /\ ((2 * i - 1) + 1) \div 2 = i
      BY <1>1
    <2>3. e[2 * i - 1] = Job("credit", bank, row - blast[i][1], "right", blast[i][2])
      BY <1>2, <2>2
    <2> QED
      BY <1>1, <1>3, <1>5, <2>1, <2>3 DEF Crediting, To
  <1> QED
    BY <1>4, <1>5 DEF Both

LEMMA TailOfTodo ==
  ASSUME todo \in Seq(Jobs), todo # <<>>
  PROVE  /\ Len(todo) \in Nat \ {0} /\ Head(todo) = todo[1]
         /\ Len(Tail(todo)) = Len(todo) - 1
         /\ \A i \in 1 .. Len(todo) - 1 : Tail(todo)[i] = todo[i + 1]
PROOF
  <1>1. Len(todo) \in Nat \ {0}
    BY EmptySeq, LenProperties
  <1> QED
    BY <1>1, HeadTailProperties

LEMMA RowsAreInts ==
  ASSUME NEW row \in Rows, NEW i \in {1, 2}
  PROVE  row \in Int /\ \A s : From(s, row, i) \in Int /\ To(s, row, i) \in Int
PROOF BY GeometryAssumption DEF Rows, From, To

LEMMA ActsAreNats ==
  ASSUME ExposureOK, NEW bank \in Banks, NEW row \in Int
  PROVE  Acts(bank, row) \in Nat
PROOF
  <1>1. CASE row \in Rows
    <2>1. <<bank, row>> \in Keys
      BY <1>1 DEF Keys
    <2> QED
      BY <1>1, <2>1 DEF Acts, ExposureOK
  <1>2. CASE row \notin Rows
    BY <1>2 DEF Acts
  <1> QED
    BY <1>1, <1>2

LEMMA SidesAreNats ==
  ASSUME ExposureOK, NEW s, NEW bank \in Banks, NEW row \in Rows
  PROVE  OnSide(s)[<<bank, row>>] \in Nat /\ <<bank, row>> \in Keys
PROOF
  <1>1. <<bank, row>> \in Keys
    BY DEF Keys
  <1> QED
    BY <1>1 DEF ExposureOK, OnSide

LEMMA ExtraIsBit == \A bank, row, n : Extra(bank, row, n) \in {0, 1}
PROOF BY DEF Extra

LEMMA SeenIsNat ==
  ASSUME ExposureOK, NEW s, NEW bank \in Banks, NEW row \in Rows, NEW i \in {1, 2}
  PROVE  Seen(s, bank, row, i) \in Nat
PROOF
  <1>1. From(s, row, i) \in Int
    BY RowsAreInts
  <1>2. Acts(bank, From(s, row, i)) \in Nat
    BY <1>1, ActsAreNats
  <1>3. Extra(bank, From(s, row, i), Turn(s, i)) \in {0, 1}
    BY ExtraIsBit
  <1> QED
    BY <1>2, <1>3 DEF Seen

LEMMA Scaled ==
  ASSUME NEW w \in Nat, NEW x \in Nat, NEW y \in Nat, x <= y
  PROVE  w * x \in Nat /\ w * y \in Nat /\ w * x <= w * y
PROOF
  <1>1. PICK d \in Nat : y = x + d
    <2>1. y - x \in Nat /\ y = x + (y - x)
      OBVIOUS
    <2> QED
      BY <2>1
  <1>2. w * y = w * x + w * d
    BY <1>1
  <1>3. w * x \in Nat /\ w * d \in Nat
    BY <1>1
  <1> QED
    BY <1>2, <1>3

(* A bound holds on as long as what was counted for a victim only grows, or   *)
(* the victim's exposure is gone.                                            *)
LEMMA BoundCarries ==
  ASSUME Rings, ExposureOK, ExposureOK', Bounded,
         NEW s \in Both, NEW bank \in Banks, NEW row \in Rows,
         NEW x \in Nat, OnSide(s)'[<<bank, row>>] = x,
         \A i \in {1, 2} : Seen(s, bank, row, i)' \in Nat,
         \/ x = 0
         \/ /\ x = OnSide(s)[<<bank, row>>]
            /\ \A i \in 1 .. Len(blast) : Seen(s, bank, row, i) <= Seen(s, bank, row, i)'
  PROVE  x <= Weight(1) * Seen(s, bank, row, 1)' + Weight(2) * Seen(s, bank, row, 2)'
PROOF
  <1> DEFINE now(i) == Seen(s, bank, row, i)
             later(i) == Seen(s, bank, row, i)'
  <1>1. \A i \in {1, 2} : Weight(i) \in Nat /\ now(i) \in Nat /\ later(i) \in Nat
    BY WeightsOfRings, SeenIsNat
  <1> HIDE DEF now, later
  <1>2. \A i \in {1, 2} : Weight(i) * later(i) \in Nat
    BY <1>1
  <1>3. CASE x = 0
    <2>1. PICK u \in Nat, v \in Nat : u = Weight(1) * later(1) /\ v = Weight(2) * later(2)
      BY <1>2
    <2>2. 0 <= u + v
      OBVIOUS
    <2> QED
      BY <1>3, <2>1, <2>2 DEF later
  <1>4. CASE /\ x = OnSide(s)[<<bank, row>>]
             /\ \A i \in 1 .. Len(blast) : Seen(s, bank, row, i) <= Seen(s, bank, row, i)'
    <2>1. \A i \in {1, 2} : Weight(i) * now(i) <= Weight(i) * later(i) /\ Weight(i) * now(i) \in Nat
      <3> SUFFICES ASSUME NEW i \in {1, 2}
                   PROVE  /\ Weight(i) * now(i) <= Weight(i) * later(i)
                          /\ Weight(i) * now(i) \in Nat
        OBVIOUS
      <3>1. CASE i \in 1 .. Len(blast)
        <4>1. now(i) <= later(i)
          BY <1>4, <3>1 DEF now, later
        <4> QED
          BY <1>1, <4>1, Scaled
      <3>2. CASE i \notin 1 .. Len(blast)
        <4>1. Weight(i) = 0
          BY <3>2, WeightsOfRings
        <4> QED
          BY <1>1, <4>1
      <3> QED
        BY <3>1, <3>2
    <2>2. x <= Weight(1) * now(1) + Weight(2) * now(2)
      BY <1>4 DEF Bounded, now
    <2>3. PICK a \in Nat, b \in Nat, u \in Nat, v \in Nat :
            /\ a = Weight(1) * now(1) /\ b = Weight(2) * now(2)
            /\ u = Weight(1) * later(1) /\ v = Weight(2) * later(2)
      BY <1>2, <2>1
    <2>4. a <= u /\ b <= v /\ x <= a + b
      BY <2>1, <2>2, <2>3
    <2>5. x <= u + v
      BY <2>4
    <2> QED
      BY <2>3, <2>5 DEF later
  <1> QED
    BY <1>3, <1>4

(* No victim has had its turn in an activation under way.                    *)
Quiet == \A bank, row : \A n \in Int : n <= 2 * Len(blast) => Extra(bank, row, n) = 0

LEMMA NothingConsumed ==
  ASSUME Rings, ExposureOK, ExposureOK', UNCHANGED <<left, right, _oracle_acts>>, Bounded, Quiet
  PROVE  Bounded'
PROOF
  <1>1. \A bank, row : Acts(bank, row)' = Acts(bank, row)
    BY DEF Acts
  <1>2. \A bank, row, n : Extra(bank, row, n)' \in {0, 1}
    BY DEF Extra
  <1> SUFFICES ASSUME NEW s \in Both, NEW bank \in Banks, NEW row \in Rows
               PROVE  OnSide(s)'[<<bank, row>>] <=
                        Weight(1) * Seen(s, bank, row, 1)' + Weight(2) * Seen(s, bank, row, 2)'
    BY DEF Bounded, Seen, Acts, Extra, Consuming, OnSide
  <1>3. ASSUME NEW i \in {1, 2}
        PROVE  Seen(s, bank, row, i)' \in Nat /\ Seen(s, bank, row, i) <= Seen(s, bank, row, i)'
    <2>1. From(s, row, i) \in Int /\ Acts(bank, From(s, row, i)) \in Nat
      BY RowsAreInts, ActsAreNats
    <2>2. Extra(bank, From(s, row, i), Turn(s, i)) = 0
      BY TurnsOfRings DEF Quiet
    <2>3. Seen(s, bank, row, i)' =
            Acts(bank, From(s, row, i)) + Extra(bank, From(s, row, i), Turn(s, i))'
      BY <1>1 DEF Seen
    <2>4. Extra(bank, From(s, row, i), Turn(s, i))' \in {0, 1}
      BY <1>2
    <2> QED
      BY <2>1, <2>2, <2>3, <2>4 DEF Seen
  <1>4. OnSide(s)' = OnSide(s) /\ OnSide(s)[<<bank, row>>] \in Nat
    BY SidesAreNats DEF OnSide
  <1>5. \A i \in 1 .. Len(blast) : i \in {1, 2}
    BY WeightsOfRings
  <1> QED
    BY <1>3, <1>4, <1>5, BoundCarries

LEMMA NoBitsOfOthers ==
  ASSUME NEW k \in Keys, NEW n, k # Target, Target \notin flipped_row_keys, _flip(k, n)
  PROVE  Target \notin flipped_row_keys'
PROOF BY DEF _flip

(* The target's exposure stays below its threshold as long as one side is     *)
(* below what the oracle fires at and the other at most at it.               *)
LEMMA TargetIsSafe ==
  ASSUME Rings, ThresholdIsLow, NEW l \in Nat, NEW r \in Nat, NEW p,
         l <= Reach * tRH, r <= Reach * tRH,
         l <= Reach * (tRH - 1) \/ r <= Reach * (tRH - 1),
         Target \notin flipped_row_keys, _maybe_flip(Target, l, r, 0, p)
  PROVE  Target \notin flipped_row_keys'
PROOF
  <1>1. /\ tRH \in Nat \ {0} /\ KnownHc["double"] \in Nat /\ KnownHc["single"] \in Nat
        /\ Reach \in Nat
    BY ProfileAssumption, WeightsOfRings
  <1>2. PICK most \in Nat, least \in Nat : most = Reach * tRH /\ least = Reach * (tRH - 1)
    <2>1. tRH - 1 \in Nat
      BY <1>1
    <2>2. Reach * tRH \in Nat /\ Reach * (tRH - 1) \in Nat
      BY <1>1, <2>1
    <2> QED
      BY <2>2
  <1>3. 2 * least < KnownHc["double"] /\ most < KnownHc["single"]
    BY <1>2 DEF ThresholdIsLow
  <1>4. l <= most /\ r <= most /\ (l <= least \/ r <= least)
    BY <1>2
  <1>5. Threshold(Target, Sides(l, r), p) = KnownHc[Sides(l, r)]
    BY DEF Threshold
  <1>6. CASE Sides(l, r) = "double"
    <2>1. Exposure(l, r, 0) = 2 * Least(l, r)
      BY <1>6 DEF Exposure, Least
    <2>2. Least(l, r) \in Nat /\ Least(l, r) <= least
      BY <1>4 DEF Least
    <2>3. Exposure(l, r, 0) < KnownHc["double"]
      BY <1>1, <1>3, <2>1, <2>2
    <2> QED
      BY <1>5, <1>6, <2>3 DEF _maybe_flip
  <1>7. CASE Sides(l, r) = "single"
    <2>1. Exposure(l, r, 0) = Most(l, r)
      BY <1>7 DEF Exposure, Most
    <2>2. Exposure(l, r, 0) < KnownHc["single"]
      BY <1>1, <1>3, <1>4, <2>1 DEF Most
    <2> QED
      BY <1>5, <1>7, <2>2 DEF _maybe_flip
  <1> QED
    BY <1>6, <1>7 DEF Sides

LEMMA JobFields ==
  ASSUME NEW kind, NEW bank, NEW row, NEW side, NEW amount
  PROVE  LET job == Job(kind, bank, row, side, amount) IN
         /\ job.kind = kind /\ job.bank = bank /\ job.row = row
         /\ job.side = side /\ job.amount = amount
PROOF BY DEF Job

(* Between the opening and the closing of a row, a victim is credited.        *)
LEMMA HeadOfActivation ==
  ASSUME Rings, NEW bank, NEW row, NEW n \in 1 .. 2 * Len(blast) + 2, Activation(bank, row, n)
  PROVE  /\ n = 1 => todo[1].kind = "opened"
         /\ n = 2 * Len(blast) + 2 => todo[1].kind = "settle"
         /\ n # 1 /\ n # 2 * Len(blast) + 2 =>
              \E s \in Both, i \in 1 .. Len(blast) :
                n = Turn(s, i) + 1 /\ todo[1] = Crediting(bank, row, s, i)
PROOF
  <1>1. n = 1 => todo[1].kind = "opened"
    BY JobFields DEF Activation
  <1>2. n = 2 * Len(blast) + 2 => todo[1].kind = "settle"
    BY DEF Activation
  <1>3. ASSUME n # 1, n # 2 * Len(blast) + 2
        PROVE  \E s \in Both, i \in 1 .. Len(blast) :
                 n = Turn(s, i) + 1 /\ todo[1] = Crediting(bank, row, s, i)
    <2>1. n - 1 \in 1 .. 2 * Len(blast)
      BY <1>3, WeightsOfRings
    <2>2. PICK s \in Both, i \in 1 .. Len(blast) : Turn(s, i) = n - 1
      BY <2>1, TurnsOfRings
    <2>3. Turn(s, i) < n /\ n - Turn(s, i) = 1 /\ n = Turn(s, i) + 1
      BY <2>2
    <2>4. todo[n - Turn(s, i)] = Crediting(bank, row, s, i)
      BY <2>3 DEF Activation
    <2> QED
      BY <2>3, <2>4
  <1> QED
    BY <1>1, <1>2, <1>3

(* What is being done tells what is left of the event.                       *)
LEMMA ShapeByHead ==
  ASSUME Rings, todo \in Seq(Jobs), todo # <<>>, Shape
  PROVE  /\ Head(todo).kind # "bonus"
         /\ Head(todo).kind = "opened" =>
              \E bank \in Banks, row \in Rows : Activation(bank, row, 1)
         /\ Head(todo).kind = "credit" =>
              \E bank \in Banks, row \in Rows, s \in Both, i \in 1 .. Len(blast) :
              \E n \in 1 .. 2 * Len(blast) + 2 :
                /\ Activation(bank, row, n) /\ n = Turn(s, i) + 1
                /\ Head(todo) = Crediting(bank, row, s, i)
         /\ Head(todo).kind = "settle" =>
              \/ Closing
              \/ \E bank \in Banks, row \in Rows, n \in 1 .. 2 * Len(blast) + 2 :
                   Activation(bank, row, n) /\ n = 2 * Len(blast) + 2
PROOF
  <1>1. Len(todo) \in Nat \ {0} /\ Head(todo) = todo[1]
    BY TailOfTodo
  <1>2. CASE Closing
    BY <1>1, <1>2 DEF Closing
  <1>3. CASE \E bank \in Banks, row \in Rows, n \in 1 .. 2 * Len(blast) + 2 :
               Activation(bank, row, n)
    <2>1. PICK bank \in Banks, row \in Rows, n \in 1 .. 2 * Len(blast) + 2 :
                 Activation(bank, row, n)
      BY <1>3
    <2>2. CASE n = 1
      <3>1. Activation(bank, row, 1) /\ todo[1].kind = "opened"
        BY <2>1, <2>2, HeadOfActivation
      <3> QED
        BY <1>1, <3>1
    <2>3. CASE n = 2 * Len(blast) + 2
      <3>1. todo[1].kind = "settle"
        BY <2>1, <2>3, HeadOfActivation
      <3> QED
        BY <1>1, <2>1, <2>3, <3>1
    <2>4. CASE n # 1 /\ n # 2 * Len(blast) + 2
      <3>1. PICK s \in Both, i \in 1 .. Len(blast) :
              n = Turn(s, i) + 1 /\ todo[1] = Crediting(bank, row, s, i)
        BY <2>1, <2>4, HeadOfActivation
      <3>2. Head(todo).kind = "credit"
        BY <1>1, <3>1, JobFields DEF Crediting
      <3> QED
        BY <1>1, <2>1, <3>1, <3>2
    <2> QED
      BY <2>2, <2>3, <2>4
  <1> QED
    BY <1>2, <1>3 DEF Shape

LEMMA NothingLeft ==
  ASSUME todo = <<>>
  PROVE  Shape /\ Quiet
PROOF
  <1>1. Len(todo) = 0
    OBVIOUS
  <1> QED
    BY <1>1 DEF Shape, Closing, Quiet, Extra, Consuming

(* While an activation is consumed, its row is the one that may be ahead of   *)
(* its count.                                                                *)
LEMMA AheadOfCount ==
  ASSUME NEW bank, NEW row, NEW n \in Nat \ {0}, Activation(bank, row, n),
         NEW b, NEW v, NEW m \in Int
  PROVE  Extra(b, v, m) = IF n <= m /\ b = bank /\ v = row THEN 1 ELSE 0
PROOF
  <1>1. /\ Len(todo) = n /\ todo[n].kind = "opened"
        /\ todo[n].bank = bank /\ todo[n].row = row
    BY JobFields DEF Activation
  <1>2. n \in 1 .. m <=> n <= m
    OBVIOUS
  <1> QED
    BY <1>1, <1>2 DEF Extra, Consuming

LEMMA AheadNext ==
  ASSUME NEW bank, NEW row, NEW n \in Nat \ {0}, Activation(bank, row, n)',
         NEW b, NEW v, NEW m \in Int
  PROVE  Extra(b, v, m)' = IF n <= m /\ b = bank /\ v = row THEN 1 ELSE 0
PROOF
  <1>1. /\ Len(todo') = n /\ todo'[n].kind = "opened"
        /\ todo'[n].bank = bank /\ todo'[n].row = row
    BY JobFields DEF Activation
  <1>2. n \in 1 .. m <=> n <= m
    OBVIOUS
  <1> QED
    BY <1>1, <1>2 DEF Extra, Consuming

(* One job done, the rest of the activation is left.                         *)
LEMMA NextActivation ==
  ASSUME Rings, todo \in Seq(Jobs), todo # <<>>, todo' = Tail(todo),
         NEW bank \in Banks, NEW row \in Rows, NEW n \in 1 .. 2 * Len(blast) + 2,
         NEW m \in 1 .. 2 * Len(blast) + 1, n = m + 1, Activation(bank, row, n)
  PROVE  Activation(bank, row, m)' /\ Shape'
PROOF
  <1>1. Len(todo) = n /\ Len(todo') = m /\ \A i \in 1 .. m : todo'[i] = todo[i + 1]
    BY TailOfTodo DEF Activation
  <1>2. todo'[m] = Job("opened", bank, row, "left", 0)
    BY <1>1 DEF Activation
  <1>3. ASSUME NEW s \in Both, NEW i \in 1 .. Len(blast), Turn(s, i) < m
        PROVE  todo'[m - Turn(s, i)] = Crediting(bank, row, s, i)
    <2>1. PICK t \in 1 .. 2 * Len(blast) : t = Turn(s, i)
      BY TurnsOfRings
    <2>2. t < n /\ m - t \in 1 .. m /\ (m - t) + 1 = n - t
      BY <1>3, <2>1
    <2>3. todo[n - t] = Crediting(bank, row, s, i)
      BY <2>1, <2>2 DEF Activation
    <2>4. todo'[m - t] = todo[(m - t) + 1]
      BY <1>1, <2>2
    <2>5. todo'[m - t] = Crediting(bank, row, s, i)
      BY <2>2, <2>3, <2>4
    <2> QED
      BY <2>1, <2>5
  <1>4. m # 2 * Len(blast) + 2 /\ m \in 1 .. 2 * Len(blast) + 2
    BY WeightsOfRings
  <1>5. Activation(bank, row, m)'
    BY <1>1, <1>2, <1>3, <1>4 DEF Activation
  <1> QED
    BY <1>4, <1>5 DEF Shape

(* Steps that leave exposures, counters and the index alone and have nothing *)
(* of an activation in hand.                                                 *)
LEMMA RequestIsGuarded ==
  ASSUME IInv, OracleInv, Request \/ Respond \/ UNCHANGED vars
  PROVE  OracleInv'
PROOF
  <1>1. UNCHANGED <<config, left, right, bonus, _oracle_acts, todo>>
    BY DEF Request, Respond, vars
  <1>2. req'.op = "failed" <=> req.op = "failed"
    <2>1. ASSUME Request PROVE req'.op \in {"RD", "WAIT", "WR"}
      <3>1. CASE \E k : req' = [NoRequest EXCEPT !.op = "RD", !.key = k]
        BY <3>1 DEF NoRequest
      <3>2. CASE req' = [NoRequest EXCEPT !.op = "WAIT"]
        BY <3>2 DEF NoRequest
      <3>3. CASE \E k, offs, p : req' = [op |-> "WR", key |-> k, offs |-> offs, pattern |-> p]
        BY <3>3
      <3> QED
        BY <2>1, <3>1, <3>2, <3>3 DEF Request
    <2>2. Respond => req'.op = "none" /\ req.op # "failed"
      BY DEF Respond, Ready, NoRequest
    <2>3. ASSUME Request PROVE req.op # "failed"
      <3>1. req = NoRequest
        BY <2>3 DEF Request
      <3> QED
        BY <3>1 DEF NoRequest
    <2> QED
      <3>1. CASE UNCHANGED vars
        BY <3>1 DEF vars
      <3>2. CASE Request
        BY <3>2, <2>1, <2>3
      <3>3. CASE Respond
        BY <3>3, <2>2
      <3> QED
        BY <3>1, <3>2, <3>3
  <1>3. flipped_row_keys' \subseteq flipped_row_keys
    BY DEF Request, Respond, vars, restore
  <1>4. (Shape => Shape') /\ (Bounded => Bounded')
    <2>1. todo' = todo /\ left' = left /\ right' = right /\ _oracle_acts' = _oracle_acts
      BY <1>1
    <2>2. Shape => Shape'
      BY <2>1 DEF Shape, Closing, Activation
    <2>3. \A bank, row, n : Extra(bank, row, n)' = Extra(bank, row, n)
      BY <2>1 DEF Extra, Consuming
    <2>4. \A bank, row : Acts(bank, row)' = Acts(bank, row)
      BY <2>1 DEF Acts
    <2>5. Bounded => Bounded'
      BY <2>1, <2>3, <2>4 DEF Bounded, Seen, OnSide
    <2> QED
      BY <2>2, <2>5
  <1>5. mitigation' = mitigation /\ rowpress' = rowpress /\ bonus' = bonus
        /\ _oracle_acts' = _oracle_acts /\ todo' = todo
    BY <1>1
  <1>6. req'.op = "failed" => todo' = <<>>
    BY <1>2, <1>5 DEF OracleInv
  <1>7. ASSUME Guarded
        PROVE  /\ Shape'
               /\ \A k \in Keys : bonus'[k] = 0
               /\ \A k \in Keys : _oracle_acts'[k] < tRH
               /\ req'.op # "failed" => Bounded'
               /\ Target \notin flipped_row_keys'
    <2>1. /\ Shape
          /\ \A k \in Keys : bonus[k] = 0
          /\ \A k \in Keys : _oracle_acts[k] < tRH
          /\ req.op # "failed" => Bounded
          /\ Target \notin flipped_row_keys
      BY <1>7 DEF OracleInv, Guarded
    <2> QED
      BY <2>1, <1>2, <1>3, <1>4, <1>5
  <1> QED
    BY <1>5, <1>6, <1>7 DEF OracleInv, Guarded
LEMMA CloseBankIsGuarded ==
  ASSUME Rings, IInv, IInv', OracleInv, _close_bank
  PROVE  OracleInv'
PROOF
  <1>1. UNCHANGED <<config, left, right, bonus, _oracle_acts, flipped_row_keys, req>>
        /\ todo = <<>> /\ req.op # "failed"
    BY DEF _close_bank, Ready
  <1>2. ExposureOK /\ ExposureOK'
    BY TypeParts, TypePartsNext DEF IInv
  <1>3. Shape'
    <2>1. PICK scope \in Scopes :
            \E order \in Orders({b \in scope : _open[b] # NoRow}) :
              todo' = [i \in 1 .. Cardinality({b \in scope : _open[b] # NoRow}) |->
                         Job("settle", order[i], _open[order[i]], "left", 0)]
      BY DEF _close_bank
    <2> DEFINE n == Cardinality({b \in scope : _open[b] # NoRow})
    <2>2. PICK order : todo' = [i \in 1 .. n |->
                                  Job("settle", order[i], _open[order[i]], "left", 0)]
      BY <2>1
    <2>3. n \in Nat
      <3>1. IsFiniteSet({b \in scope : _open[b] # NoRow})
        BY GeometryAssumption, FS_Subset DEF Scopes
      <3> QED
        BY <3>1, FS_CardinalityType
    <2> HIDE DEF n
    <2>4. Len(todo') = n
      BY <2>2, <2>3
    <2>5. \A i \in 1 .. n : todo'[i].kind = "settle"
      BY <2>2, JobFields
    <2> QED
      BY <2>4, <2>5 DEF Shape, Closing
  <1>4. Bounded => Bounded'
    BY <1>1, <1>2, NothingLeft, NothingConsumed
  <1> QED
    BY <1>1, <1>3, <1>4 DEF OracleInv
LEMMA RefreshIsGuarded ==
  ASSUME Rings, IInv, IInv', OracleInv, _refresh
  PROVE  OracleInv'
PROOF
  <1>1. UNCHANGED <<config, flipped_row_keys, req, todo>> /\ todo = <<>> /\ req.op # "failed"
    BY DEF _refresh, Ready
  <1>2. ExposureOK /\ ExposureOK'
    BY TypeParts, TypePartsNext DEF IInv
  <1>3. PICK r \in Ranks :
          \E ks \in {{}, RestoredRows(r)} :
            /\ left' = Restored(left, ks) /\ right' = Restored(right, ks)
            /\ bonus' = Restored(bonus, ks)
            /\ mitigation = "oracle" => _oracle_acts' = Restored(_oracle_acts, ks)
    BY DEF _refresh
  <1>4. PICK ks \in {{}, RestoredRows(r)} :
          /\ left' = Restored(left, ks) /\ right' = Restored(right, ks)
          /\ bonus' = Restored(bonus, ks)
          /\ mitigation = "oracle" => _oracle_acts' = Restored(_oracle_acts, ks)
    BY <1>3
  <1> SUFFICES ASSUME Guarded
               PROVE  /\ \A k \in Keys : bonus'[k] = 0
                      /\ \A k \in Keys : _oracle_acts'[k] < tRH
                      /\ Bounded'
    <2>1. Shape'
      BY <1>1, NothingLeft DEF Shape, Closing, Activation
    <2> QED
      BY <1>1, <2>1 DEF OracleInv, Guarded
  <1>5. (\A k \in Keys : bonus[k] = 0 /\ _oracle_acts[k] < tRH) /\ Bounded
    BY <1>1 DEF OracleInv, Guarded
  <1>6. 0 < tRH /\ \A k \in Keys : bonus'[k] = 0
    BY <1>4, <1>5, ProfileAssumption DEF Restored
  <1>7. \A k \in Keys : _oracle_acts'[k] < tRH
    BY <1>4, <1>5, <1>6 DEF Restored, Guarded
  <1>8. \A b, v : \A m \in Int : m <= 2 * Len(blast) => Extra(b, v, m)' = 0 /\ Extra(b, v, m) = 0
    <2>1. \A b, v, m : Extra(b, v, m)' = Extra(b, v, m)
      BY <1>1 DEF Extra, Consuming
    <2> QED
      BY <1>1, <2>1, NothingLeft DEF Quiet
  <1>9. \A bank \in Banks : \A row, v \in Rows : <<bank, row>> \in ks <=> <<bank, v>> \in ks
    BY DEF RestoredRows, Keys
  <1>10. ASSUME NEW s \in Both, NEW bank \in Banks, NEW row \in Rows, NEW i \in {1, 2}
         PROVE  /\ Seen(s, bank, row, i)' \in Nat
                /\ <<bank, row>> \notin ks => Seen(s, bank, row, i)' = Seen(s, bank, row, i)
    <2>1. PICK v \in Int : v = From(s, row, i)
      BY RowsAreInts
    <2>2. v \in Rows => <<bank, v>> \in Keys /\ (<<bank, v>> \in ks <=> <<bank, row>> \in ks)
      BY <1>9 DEF Keys
    <2>3. _oracle_acts' = Restored(_oracle_acts, ks)
      BY <1>4 DEF Guarded
    <2>4. Acts(bank, v) \in Nat
      BY <1>2, ActsAreNats
    <2>5. /\ Acts(bank, v)' \in Nat
          /\ <<bank, row>> \notin ks => Acts(bank, v)' = Acts(bank, v)
      BY <2>2, <2>3, <2>4 DEF Acts, Restored
    <2>6. /\ Seen(s, bank, row, i)' = Acts(bank, v)' + 0
          /\ Seen(s, bank, row, i) = Acts(bank, v) + 0
      BY <1>8, <2>1, TurnsOfRings DEF Seen
    <2> QED
      BY <2>4, <2>5, <2>6
  <1>11. Bounded'
    <2> SUFFICES ASSUME NEW s \in Both, NEW bank \in Banks, NEW row \in Rows
                 PROVE  OnSide(s)'[<<bank, row>>] <=
                          Weight(1) * Seen(s, bank, row, 1)' + Weight(2) * Seen(s, bank, row, 2)'
      BY DEF Bounded, Seen, Acts, Extra, Consuming, OnSide
    <2>1. OnSide(s)[<<bank, row>>] \in Nat /\ <<bank, row>> \in Keys
      BY <1>2, SidesAreNats
    <2>2. OnSide(s)'[<<bank, row>>] =
            IF <<bank, row>> \in ks THEN 0 ELSE OnSide(s)[<<bank, row>>]
      BY <1>4, <2>1 DEF OnSide, Restored
    <2>3. \A i \in 1 .. Len(blast) : i \in {1, 2}
      BY WeightsOfRings
    <2>4. PICK x \in Nat : OnSide(s)'[<<bank, row>>] = x
      BY <2>1, <2>2
    <2>5. /\ \A i \in {1, 2} : Seen(s, bank, row, i)' \in Nat
          /\ \/ x = 0
             \/ /\ x = OnSide(s)[<<bank, row>>]
                /\ \A i \in 1 .. Len(blast) : Seen(s, bank, row, i) <= Seen(s, bank, row, i)'
      BY <1>2, <1>10, <2>2, <2>3, <2>4, SeenIsNat
    <2> QED
      BY <1>2, <1>5, <2>4, <2>5, BoundCarries
  <1> QED
    BY <1>6, <1>7, <1>11

(* d is a, then b, then the one element of c.                                *)
Pieces(d, a, b, c) ==
  /\ Len(d) = Len(a) + Len(b) + 1
  /\ \A i \in 1 .. Len(a) : d[i] = a[i]
  /\ \A i \in 1 .. Len(b) : d[Len(a) + i] = b[i]
  /\ d[Len(a) + Len(b) + 1] = c[1]

LEMMA ThreePieces ==
  ASSUME NEW S, NEW a \in Seq(S), NEW b \in Seq(S), NEW c \in Seq(S),
         Len(c) = 1
  PROVE  Pieces(a \o b \o c, a, b, c)
PROOF
  <1>1. PICK m \in Nat, n \in Nat : m = Len(a) /\ n = Len(b)
    BY LenProperties
  <1>2. /\ a \o b \in Seq(S)
        /\ Len(a \o b) = m + n
        /\ \A i \in 1 .. m + n : (a \o b)[i] = IF i <= m THEN a[i] ELSE b[i - m]
    BY <1>1, ConcatProperties
  <1> DEFINE d == a \o b
  <1> HIDE DEF d
  <1>3. d \in Seq(S) /\ Len(d) = m + n
    BY <1>2 DEF d
  <1>4. /\ Len(d \o c) = Len(d) + Len(c)
        /\ \A i \in 1 .. Len(d) + Len(c) :
             (d \o c)[i] = IF i <= Len(d) THEN d[i] ELSE c[i - Len(d)]
    BY ONLY <1>3, c \in Seq(S), ConcatProperties
  <1>5. \A i \in 1 .. m : d[i] = a[i]
    BY <1>2 DEF d
  <1>6. \A i \in 1 .. n : d[m + i] = b[i]
    <2> SUFFICES ASSUME NEW i \in 1 .. n PROVE d[m + i] = b[i]
      OBVIOUS
    <2>1. m + i \in 1 .. m + n /\ ~ (m + i <= m) /\ (m + i) - m = i
      OBVIOUS
    <2> QED
      BY <1>2, <2>1 DEF d
  <1>7. Len(d \o c) = m + n + 1
    BY <1>3, <1>4
  <1>8. \A i \in 1 .. m + n : (d \o c)[i] = d[i]
    BY <1>3, <1>4
  <1>9. (d \o c)[m + n + 1] = c[1]
    BY <1>3, <1>4
  <1>10. \A i \in 1 .. n : (d \o c)[m + i] = b[i]
    <2> SUFFICES ASSUME NEW i \in 1 .. n PROVE (d \o c)[m + i] = b[i]
      OBVIOUS
    <2>1. m + i \in 1 .. m + n
      OBVIOUS
    <2> QED
      BY <1>6, <1>8, <2>1
  <1> QED
    BY <1>1, <1>5, <1>7, <1>8, <1>9, <1>10 DEF d, Pieces

(* An ACT leaves the jobs of an activation, perhaps with a row to close.      *)
LEMMA HammerShapes ==
  ASSUME Rings, NEW bank \in Banks, NEW row \in Rows, NEW settles \in Seq(Jobs),
         Len(settles) \in {0, 1}, Len(settles) = 1 => settles[1].kind = "settle",
         todo' = settles \o Exposed("credit", bank, row, 0)
                   \o <<Job("opened", bank, row, "left", 0)>>
  PROVE  Shape'
PROOF
  <1> DEFINE credits == Exposed("credit", bank, row, 0)
             opened  == <<Job("opened", bank, row, "left", 0)>>
  <1>1. row \in Int
    BY GeometryAssumption DEF Rows
  <1>2. PICK h \in Nat : h = 2 * Len(blast) /\ h > 0
    <2>1. CASE Len(blast) = 1
      BY <2>1
    <2>2. CASE Len(blast) = 2
      BY <2>2
    <2> QED
      BY <2>1, <2>2 DEF Rings
  <1>3. /\ credits \in Seq(Jobs) /\ Len(credits) = h
        /\ \A s \in Both, i \in 1 .. Len(blast) :
             /\ Turn(s, i) \in 1 .. h
             /\ credits[h + 1 - Turn(s, i)] = Crediting(bank, row, s, i)
    <2>1. credits \in Seq(Jobs)
      BY <1>1, ExposedIsSeq
    <2>2. \A s \in Both, i \in 1 .. Len(blast) :
            credits[h + 1 - Turn(s, i)] = Crediting(bank, row, s, i)
      BY <1>1, <1>2, CreditsOfRings
    <2>3. Len(credits) = h
      BY <1>2 DEF Exposed
    <2>4. \A s \in Both, i \in 1 .. Len(blast) : Turn(s, i) \in 1 .. h
      BY <1>2, TurnsOfRings
    <2> HIDE DEF credits
    <2> QED
      BY <2>1, <2>2, <2>3, <2>4
  <1>4. /\ opened \in Seq(Jobs) /\ Len(opened) = 1
        /\ opened[1] = Job("opened", bank, row, "left", 0)
    <2>1. Job("opened", bank, row, "left", 0) \in Jobs
      BY <1>1, JobIsJob
    <2> QED
      BY <2>1
  <1>5. todo' = settles \o credits \o opened
    OBVIOUS
  <1> HIDE DEF credits, opened
  <1>6. PICK n \in Nat : n = Len(settles) /\ n <= 1
    OBVIOUS
  <1>7. /\ Len(todo') = n + h + 1
        /\ \A i \in 1 .. n : todo'[i] = settles[i]
        /\ \A i \in 1 .. h : todo'[n + i] = credits[i]
        /\ todo'[n + h + 1] = opened[1]
    <2>1. credits \in Seq(Jobs) /\ opened \in Seq(Jobs) /\ Len(opened) = 1
      BY <1>3, <1>4
    <2>2. Pieces(todo', settles, credits, opened)
      BY <1>5, <2>1, ThreePieces
    <2>3. Len(settles) = n /\ Len(credits) = h
      BY <1>3, <1>6
    <2> QED
      BY <2>2, <2>3 DEF Pieces
  <1>8. n = 1 => todo'[1].kind = "settle"
    <2>1. n = 1 => 1 \in 1 .. n
      BY <1>6
    <2> QED
      BY <1>6, <1>7, <2>1
  <1>9. PICK m \in 1 .. h + 2 : m = n + h + 1
    <2>1. n + h + 1 \in 1 .. h + 2
      BY <1>2, <1>6
    <2> QED
      BY <2>1
  <1>10. m = h + 2 => n = 1
    BY <1>2, <1>6, <1>9
  <1>11. ASSUME NEW s \in Both, NEW i \in 1 .. Len(blast)
         PROVE  todo'[m - Turn(s, i)] = Crediting(bank, row, s, i)
    <2>1. PICK t \in 1 .. h : t = Turn(s, i)
      BY <1>3
    <2>2. h + 1 - t \in 1 .. h /\ n + (h + 1 - t) = m - t
      BY <1>2, <1>6, <1>9
    <2>3. todo'[n + (h + 1 - t)] = credits[h + 1 - t]
      BY <1>7, <2>2
    <2>4. credits[h + 1 - t] = Crediting(bank, row, s, i)
      BY <1>3, <2>1
    <2>5. todo'[m - t] = Crediting(bank, row, s, i)
      BY <2>2, <2>3, <2>4
    <2> QED
      BY <2>1, <2>5
  <1>12. Len(todo') = m /\ todo'[m] = Job("opened", bank, row, "left", 0)
    BY <1>4, <1>7, <1>9
  <1>13. Activation(bank, row, m)'
    <2>1. m = 2 * Len(blast) + 2 => todo'[1].kind = "settle"
      BY <1>2, <1>8, <1>10
    <2>2. \A s \in Both, i \in 1 .. Len(blast) :
            Turn(s, i) < m => todo'[m - Turn(s, i)] = Crediting(bank, row, s, i)
      BY <1>11
    <2> QED
      BY <1>12, <2>1, <2>2 DEF Activation
  <1>14. m \in 1 .. 2 * Len(blast) + 2
    BY <1>2
  <1> QED
    BY <1>13, <1>14 DEF Shape

LEMMA HammerIsGuarded ==
  ASSUME Rings, IInv, IInv', OracleInv, _hammer
  PROVE  OracleInv'
PROOF
  <1>1. UNCHANGED <<config, left, right, bonus, _oracle_acts, flipped_row_keys, req>>
        /\ todo = <<>> /\ req.op # "failed" /\ req.op # "none"
    BY DEF _hammer, Ready
  <1>2. ExposureOK /\ ExposureOK' /\ ControlOK
    BY TypeParts, TypePartsNext DEF IInv
  <1>3. PICK bank \in Banks, row \in Rows : bank = req.key[1] /\ row = req.key[2]
    BY <1>2 DEF ControlOK, Keys
  <1>4. row \in Int /\ \A v \in Rows : v \in Int
    BY GeometryAssumption DEF Rows
  <1>5. todo' = Settles(bank, row) \o Exposed("credit", bank, row, 0)
                  \o <<Job("opened", bank, row, "left", 0)>>
    BY <1>3 DEF _hammer
  <1>6. /\ Settles(bank, row) \in Seq(Jobs) /\ Len(Settles(bank, row)) \in {0, 1}
        /\ Len(Settles(bank, row)) = 1 => Settles(bank, row)[1].kind = "settle"
    <2>1. CASE _open[bank] # NoRow /\ _open[bank] # row
      <3>1. _open[bank] \in Rows /\ _open[bank] \in Int
        BY <2>1, <1>2, <1>4 DEF ControlOK
      <3>2. Job("settle", bank, _open[bank], "left", 0) \in Jobs
        BY <3>1, JobIsJob
      <3>3. Settles(bank, row) = <<Job("settle", bank, _open[bank], "left", 0)>>
        BY <2>1 DEF Settles
      <3> QED
        BY <3>2, <3>3, JobFields
    <2>2. CASE ~ (_open[bank] # NoRow /\ _open[bank] # row)
      <3>1. Settles(bank, row) = <<>>
        BY <2>2 DEF Settles
      <3> QED
        BY <3>1, EmptySeq
    <2> QED
      BY <2>1, <2>2
  <1>7. Shape'
    BY <1>5, <1>6, HammerShapes
  <1>8. Bounded => Bounded'
    BY <1>1, <1>2, NothingLeft, NothingConsumed
  <1> QED
    BY <1>1, <1>7, <1>8 DEF OracleInv

LEMMA SettleIsGuarded ==
  ASSUME Rings, IInv, IInv', OracleInv, _settle_dwell
  PROVE  OracleInv'
PROOF
  <1>1. UNCHANGED <<config, left, right, bonus, _oracle_acts, flipped_row_keys, req>>
        /\ todo # <<>> /\ Head(todo).kind = "settle"
    BY DEF _settle_dwell, NextJob
  <1>2. ExposureOK /\ ExposureOK' /\ ControlOK /\ todo \in Seq(Jobs)
    BY TypeParts, TypePartsNext DEF IInv, ControlOK
  <1>3. req.op # "failed"
    BY <1>1 DEF OracleInv
  <1> SUFFICES ASSUME Guarded PROVE Shape' /\ Bounded'
    BY <1>1, <1>3 DEF OracleInv, Guarded
  <1>4. Shape /\ Bounded
    BY <1>3 DEF OracleInv, Guarded
  <1>5. todo' = Tail(todo)
    <2>1. todo' = <<>> \o Tail(todo)
      BY DEF _settle_dwell, Guarded
    <2> QED
      BY <2>1, <1>1, <1>2, HeadIsJob, ConcatEmptySeq
  <1> DEFINE m == Len(todo)
  <1>6. m \in Nat \ {0} /\ Len(todo') = m - 1 /\ \A i \in 1 .. m - 1 : todo'[i] = todo[i + 1]
    BY <1>1, <1>2, <1>5, TailOfTodo
  <1>7. CASE Closing
    <2>1. Shape'
      BY <1>6, <1>7 DEF Shape, Closing
    <2>2. todo[m].kind # "opened"
      BY <1>6, <1>7 DEF Closing
    <2>3. Quiet
      BY <2>2 DEF Quiet, Extra, Consuming
    <2> QED
      BY <1>1, <1>2, <1>4, <2>1, <2>3, NothingConsumed
  <1>8. CASE \E bank \in Banks, row \in Rows, n \in 1 .. 2 * Len(blast) + 2 :
               Activation(bank, row, n) /\ n = 2 * Len(blast) + 2
    <2>1. PICK bank \in Banks, row \in Rows, n \in 1 .. 2 * Len(blast) + 2 :
                 Activation(bank, row, n) /\ n = 2 * Len(blast) + 2
      BY <1>8
    <2>2. PICK j \in 1 .. 2 * Len(blast) + 1 : n = j + 1
      BY <2>1, WeightsOfRings
    <2>3. Shape'
      BY <1>1, <1>2, <1>5, <2>1, <2>2, NextActivation
    <2>4. Quiet
      <3>1. n \in Nat \ {0} /\ \A i \in Int : i <= 2 * Len(blast) => ~ (n <= i)
        BY <2>1, WeightsOfRings
      <3>2. \A b, v : \A i \in Int : Extra(b, v, i) = IF n <= i /\ b = bank /\ v = row THEN 1 ELSE 0
        BY <2>1, <3>1, AheadOfCount
      <3> QED
        BY <3>1, <3>2 DEF Quiet
    <2> QED
      BY <1>1, <1>2, <1>4, <2>3, <2>4, NothingConsumed
  <1> QED
    BY <1>1, <1>2, <1>4, <1>7, <1>8, ShapeByHead

LEMMA ActsAreBelow ==
  ASSUME ExposureOK, \A k \in Keys : _oracle_acts[k] < tRH, NEW bank \in Banks, NEW row \in Int
  PROVE  Acts(bank, row) \in Nat /\ Acts(bank, row) < tRH
PROOF
  <1>1. CASE row \in Rows
    <2>1. <<bank, row>> \in Keys
      BY <1>1 DEF Keys
    <2> QED
      BY <1>1, <2>1, ActsAreNats DEF Acts
  <1>2. CASE row \notin Rows
    BY <1>2, ProfileAssumption DEF Acts
  <1> QED
    BY <1>1, <1>2

(* The weights of two rings counted at most t times each.                    *)
LEMMA CountedAtMost ==
  ASSUME Rings, NEW t \in Nat, NEW a \in Nat, NEW b \in Nat, a <= t, b <= t,
         NEW x \in Nat, x <= Weight(1) * a + Weight(2) * b
  PROVE  x <= Reach * t
PROOF
  <1>1. PICK u \in Nat, v \in Nat : u = Weight(1) /\ v = Weight(2)
    BY WeightsOfRings
  <1>2. u * a <= u * t /\ v * b <= v * t
    BY Scaled
  <1>3. Reach * t = u * t + v * t
    BY <1>1 DEF Reach
  <1>4. u * a \in Nat /\ v * b \in Nat /\ u * t \in Nat /\ v * t \in Nat
    OBVIOUS
  <1>5. x <= u * a + v * b
    BY <1>1
  <1> QED
    BY <1>2, <1>3, <1>4, <1>5

(* One activation more is counted at distance i, and its weight credited.     *)
LEMMA BoundGrows ==
  ASSUME Rings, NEW i \in {1, 2}, NEW x \in Nat, NEW a \in [{1, 2} -> Nat], NEW b \in [{1, 2} -> Nat],
         x <= Weight(1) * a[1] + Weight(2) * a[2],
         b[i] = a[i] + 1, \A j \in {1, 2} : a[j] <= b[j]
  PROVE  x + Weight(i) <= Weight(1) * b[1] + Weight(2) * b[2]
PROOF
  <1>1. PICK u \in Nat, v \in Nat : u = Weight(1) /\ v = Weight(2)
    BY WeightsOfRings
  <1>2. PICK a1 \in Nat, a2 \in Nat, b1 \in Nat, b2 \in Nat :
          a1 = a[1] /\ a2 = a[2] /\ b1 = b[1] /\ b2 = b[2]
    OBVIOUS
  <1>3. u * a1 <= u * b1 /\ v * a2 <= v * b2
    BY <1>2, Scaled
  <1>4. PICK p \in Nat, q \in Nat, c \in Nat, d \in Nat :
          p = u * a1 /\ q = v * a2 /\ c = u * b1 /\ d = v * b2
    OBVIOUS
  <1>5. p <= c /\ q <= d /\ x <= p + q
    BY <1>1, <1>2, <1>3, <1>4
  <1>6. CASE i = 1
    <2>1. b1 = a1 + 1
      BY <1>2, <1>6
    <2>2. u * b1 = u * a1 + u
      BY <2>1
    <2>3. x + u <= c + d
      BY <1>4, <1>5, <2>2
    <2> QED
      BY <1>1, <1>2, <1>4, <1>6, <2>3
  <1>7. CASE i = 2
    <2>1. b2 = a2 + 1
      BY <1>2, <1>7
    <2>2. v * b2 = v * a2 + v
      BY <2>1
    <2>3. x + v <= c + d
      BY <1>4, <1>5, <2>2
    <2> QED
      BY <1>1, <1>2, <1>4, <1>7, <2>3
  <1> QED
    BY <1>6, <1>7

(* The aggressor of a victim is on one side of it only, at one distance.     *)
LEMMA Aggressor ==
  ASSUME NEW row \in Int, NEW s \in Both, NEW i \in {1, 2}
  PROVE  /\ To(s, row, i) \in Int
         /\ From(s, To(s, row, i), i) = row
         /\ \A z \in Both, j \in {1, 2} : z # s => From(z, To(s, row, i), j) # row
PROOF BY DEF To, From, Both

(* What a credit does to the counts: its victim w has had its turn.          *)
TurnPassed(bank, w, s, i) ==
  \A z \in Both, b \in Banks, v \in Rows, j \in {1, 2} :
    /\ Seen(z, b, v, j) \in Nat /\ Seen(z, b, v, j)' \in Nat
    /\ Seen(z, b, v, j) <= Seen(z, b, v, j)'
    /\ z = s /\ b = bank /\ v = w /\ j = i => Seen(z, b, v, j)' = Seen(z, b, v, j) + 1
    /\ z # s /\ b = bank /\ v = w => Seen(z, b, v, j)' = Acts(b, From(z, v, j))
    /\ Seen(z, b, v, j)' <= Acts(b, From(z, v, j)) + 1

LEMMA CreditCounts ==
  ASSUME Rings, ExposureOK, UNCHANGED _oracle_acts,
         NEW bank \in Banks, NEW row \in Rows, NEW s \in Both, NEW i \in {1, 2},
         NEW n \in Nat \ {0}, NEW m \in Nat \ {0}, n = m + 1, m = Turn(s, i),
         NEW w \in Int, w = To(s, row, i),
         Activation(bank, row, n), Activation(bank, row, m)'
  PROVE  TurnPassed(bank, w, s, i)
PROOF
  <1>1. \A b, v : Acts(b, v)' = Acts(b, v)
    BY DEF Acts
  <1>2. row \in Int
    BY RowsAreInts
  <1> SUFFICES ASSUME NEW z \in Both, NEW b \in Banks, NEW v \in Rows, NEW j \in {1, 2}
               PROVE  /\ Seen(z, b, v, j) \in Nat /\ Seen(z, b, v, j)' \in Nat
                      /\ Seen(z, b, v, j) <= Seen(z, b, v, j)'
                      /\ z = s /\ b = bank /\ v = w /\ j = i =>
                           Seen(z, b, v, j)' = Seen(z, b, v, j) + 1
                      /\ z # s /\ b = bank /\ v = w =>
                           Seen(z, b, v, j)' = Acts(b, From(z, v, j))
                      /\ Seen(z, b, v, j)' <= Acts(b, From(z, v, j)) + 1
    BY DEF TurnPassed
  <1>3. PICK f \in Int, t \in Int : f = From(z, v, j) /\ t = Turn(z, j)
    BY RowsAreInts, TurnsOfRings
  <1>4. PICK c \in Nat : c = Acts(b, f)
    BY ActsAreNats
  <1>5. Extra(b, f, t) = IF n <= t /\ b = bank /\ f = row THEN 1 ELSE 0
    BY AheadOfCount
  <1>6. Extra(b, f, t)' = IF m <= t /\ b = bank /\ f = row THEN 1 ELSE 0
    BY AheadNext
  <1>7. /\ Seen(z, b, v, j) = c + Extra(b, f, t)
        /\ Seen(z, b, v, j)' = c + Extra(b, f, t)'
    BY <1>1, <1>3, <1>4 DEF Seen
  <1>8. n <= t => m <= t
    OBVIOUS
  <1>9. z = s /\ j = i => t = m /\ ~ (n <= t) /\ m <= t
    BY <1>3
  <1>10. z = s /\ v = w /\ j = i => f = row
    BY <1>2, <1>3, Aggressor
  <1>11. z # s /\ v = w => f # row
    BY <1>2, <1>3, Aggressor
  <1>12. Seen(z, b, v, j) \in Nat /\ Seen(z, b, v, j)' \in Nat
         /\ Seen(z, b, v, j) <= Seen(z, b, v, j)'
    BY <1>5, <1>6, <1>7, <1>8
  <1>13. z = s /\ b = bank /\ v = w /\ j = i =>
           Seen(z, b, v, j)' = Seen(z, b, v, j) + 1
    BY <1>5, <1>6, <1>7, <1>9, <1>10
  <1>14. z # s /\ b = bank /\ v = w => Seen(z, b, v, j)' = Acts(b, From(z, v, j))
    BY <1>3, <1>4, <1>6, <1>7, <1>11
  <1>15. Seen(z, b, v, j)' <= Acts(b, From(z, v, j)) + 1
    BY <1>3, <1>4, <1>6, <1>7
  <1> QED
    BY <1>12, <1>13, <1>14, <1>15

LEMMA CreditIsGuarded ==
  ASSUME Rings, ThresholdIsLow, IInv, IInv', OracleInv, Credit
  PROVE  OracleInv'
PROOF
  <1>1. UNCHANGED <<config, bonus, _oracle_acts, req>>
        /\ todo # <<>> /\ Head(todo).kind = "credit" /\ todo' = Tail(todo)
    BY DEF Credit, NextJob
  <1>2. ExposureOK /\ ExposureOK' /\ ControlOK /\ todo \in Seq(Jobs)
    BY TypeParts, TypePartsNext DEF IInv, ControlOK
  <1>3. req.op # "failed"
    BY <1>1 DEF OracleInv
  <1> SUFFICES ASSUME Guarded
               PROVE  Shape' /\ Bounded' /\ Target \notin flipped_row_keys'
    BY <1>1, <1>3 DEF OracleInv, Guarded
  <1>4. /\ Shape /\ Bounded /\ Target \notin flipped_row_keys
        /\ \A k \in Keys : bonus[k] = 0
        /\ \A k \in Keys : _oracle_acts[k] < tRH
    BY <1>3 DEF OracleInv, Guarded
  <1>5. PICK bank \in Banks, row \in Rows, s \in Both, i \in 1 .. Len(blast),
             n \in 1 .. 2 * Len(blast) + 2 :
          /\ Activation(bank, row, n) /\ n = Turn(s, i) + 1
          /\ Head(todo) = Crediting(bank, row, s, i)
    BY <1>1, <1>2, <1>4, ShapeByHead
  <1>6. i \in {1, 2} /\ Weight(i) \in Nat /\ row \in Int
    BY WeightsOfRings, RowsAreInts
  <1>7. PICK m \in 1 .. 2 * Len(blast) : m = Turn(s, i)
    BY TurnsOfRings
  <1>8. n = m + 1 /\ m \in 1 .. 2 * Len(blast) + 1 /\ m \in Nat \ {0} /\ n \in Nat \ {0}
    BY <1>5, <1>7, WeightsOfRings
  <1>9. Activation(bank, row, m)' /\ Shape'
    BY <1>1, <1>2, <1>5, <1>8, NextActivation
  <1> DEFINE job == Head(todo)
             k == <<job.bank, job.row>>
             l == left[k] + (IF job.side = "left" THEN job.amount ELSE 0)
             r == right[k] + (IF job.side = "right" THEN job.amount ELSE 0)
             p == IF k \in victims THEN style[k] ELSE _victim_pattern(k)
  <1>10. PICK w \in Int : w = To(s, row, i)
    BY <1>6, Aggressor
  <1>11. job.bank = bank /\ job.row = w /\ job.side = s /\ job.amount = Weight(i)
    BY <1>5, <1>10, JobFields DEF Crediting
  <1> HIDE DEF job
  <1>12. TurnPassed(bank, w, s, i)
    BY <1>1, <1>2, <1>5, <1>6, <1>7, <1>8, <1>9, <1>10, CreditCounts
  <1>13. \A z \in Both, b \in Banks, v \in Rows, j \in {1, 2} :
           /\ Seen(z, b, v, j) \in Nat /\ Seen(z, b, v, j)' \in Nat
           /\ Seen(z, b, v, j) <= Seen(z, b, v, j)'
           /\ z = s /\ b = bank /\ v = w /\ j = i => Seen(z, b, v, j)' = Seen(z, b, v, j) + 1
           /\ z # s /\ b = bank /\ v = w => Seen(z, b, v, j)' = Acts(b, From(z, v, j))
           /\ Seen(z, b, v, j)' <= Acts(b, From(z, v, j)) + 1
    BY <1>12 DEF TurnPassed
  (* A side the credit leaves alone, and the one it adds to.                 *)
  <1>14. ASSUME NEW z \in Both, NEW b \in Banks, NEW v \in Rows,
                OnSide(z)'[<<b, v>>] = OnSide(z)[<<b, v>>]
         PROVE  OnSide(z)'[<<b, v>>] <=
                  Weight(1) * Seen(z, b, v, 1)' + Weight(2) * Seen(z, b, v, 2)'
    <2>1. PICK x \in Nat : x = OnSide(z)[<<b, v>>]
      BY <1>2, SidesAreNats
    <2>2. \A j \in 1 .. Len(blast) : j \in {1, 2}
      BY WeightsOfRings
    <2>3. /\ \A j \in {1, 2} : Seen(z, b, v, j)' \in Nat
          /\ x = OnSide(z)[<<b, v>>] /\ OnSide(z)'[<<b, v>>] = x
          /\ \A j \in 1 .. Len(blast) : Seen(z, b, v, j) <= Seen(z, b, v, j)'
      BY <1>13, <1>14, <2>1, <2>2
    <2> QED
      BY <1>2, <1>4, <2>3, BoundCarries
  <1>15. ASSUME w \in Rows, OnSide(s)'[<<bank, w>>] = OnSide(s)[<<bank, w>>] + Weight(i)
         PROVE  OnSide(s)'[<<bank, w>>] <=
                  Weight(1) * Seen(s, bank, w, 1)' + Weight(2) * Seen(s, bank, w, 2)'
    <2>1. PICK x \in Nat : x = OnSide(s)[<<bank, w>>]
      BY <1>2, <1>15, SidesAreNats
    <2>2. PICK a \in [{1, 2} -> Nat] : \A j \in {1, 2} : a[j] = Seen(s, bank, w, j)
      <3>1. [j \in {1, 2} |-> Seen(s, bank, w, j)] \in [{1, 2} -> Nat]
        BY <1>13, <1>15
      <3> QED
        BY <3>1
    <2>3. PICK c \in [{1, 2} -> Nat] : \A j \in {1, 2} : c[j] = Seen(s, bank, w, j)'
      <3>1. [j \in {1, 2} |-> Seen(s, bank, w, j)'] \in [{1, 2} -> Nat]
        BY <1>13, <1>15
      <3> QED
        BY <3>1
    <2>4. x <= Weight(1) * a[1] + Weight(2) * a[2]
      BY <1>4, <1>15, <2>1, <2>2 DEF Bounded
    <2>5. c[i] = a[i] + 1 /\ \A j \in {1, 2} : a[j] <= c[j]
      BY <1>6, <1>13, <1>15, <2>2, <2>3
    <2>6. x + Weight(i) <= Weight(1) * c[1] + Weight(2) * c[2]
      BY <1>6, <2>4, <2>5, BoundGrows
    <2> QED
      BY <1>15, <2>1, <2>3, <2>6
  <1>16. CASE UNCHANGED <<left, right, overlay>>
    <2>1. \A z \in Both, b \in Banks, v \in Rows : OnSide(z)'[<<b, v>>] = OnSide(z)[<<b, v>>]
      BY <1>16 DEF OnSide
    <2>2. Bounded'
      BY <1>14, <2>1 DEF Bounded, Seen, Acts, Extra, Consuming, OnSide
    <2> QED
      BY <1>4, <1>9, <1>16, <2>2
  <1>17. CASE /\ _row_exists(job.row)
              /\ left' = [left EXCEPT ![k] = l] /\ right' = [right EXCEPT ![k] = r]
              /\ _maybe_flip(k, l, r, bonus[k], p)
    <2>1. k = <<bank, w>> /\ w \in Rows /\ k \in Keys
      BY <1>11, <1>17 DEF _row_exists, Keys
    <2>2. left \in [Keys -> Nat] /\ right \in [Keys -> Nat] /\ bonus[k] = 0
      BY <1>2, <1>4, <2>1 DEF ExposureOK
    <2>3. l \in Nat /\ r \in Nat /\ left[k] \in Nat /\ right[k] \in Nat
      BY <1>6, <1>11, <2>1, <2>2
    <2>4. /\ s = "left" => l = left[k] + Weight(i) /\ r = right[k]
          /\ s = "right" => l = left[k] /\ r = right[k] + Weight(i)
      BY <1>11, <2>3
    <2> HIDE DEF l, r, p, k
    <2>5. ASSUME NEW z \in Both, NEW b \in Banks, NEW v \in Rows
          PROVE  OnSide(z)'[<<b, v>>] =
                   IF <<b, v>> = k THEN (IF z = "left" THEN l ELSE r) ELSE OnSide(z)[<<b, v>>]
      <3>1. <<b, v>> \in Keys
        BY DEF Keys
      <3> QED
        BY <1>17, <2>2, <3>1 DEF OnSide
    <2>6. Bounded'
      <3> SUFFICES ASSUME NEW z \in Both, NEW b \in Banks, NEW v \in Rows
                   PROVE  OnSide(z)'[<<b, v>>] <=
                            Weight(1) * Seen(z, b, v, 1)' + Weight(2) * Seen(z, b, v, 2)'
        BY DEF Bounded, Seen, Acts, Extra, Consuming, OnSide
      <3>1. CASE <<b, v>> = k /\ z = s
        <4>1. b = bank /\ v = w
          BY <2>1, <3>1
        <4>2. OnSide(s)'[<<bank, w>>] = OnSide(s)[<<bank, w>>] + Weight(i)
          BY <2>1, <2>4, <2>5 DEF OnSide, Both
        <4> QED
          BY <1>15, <2>1, <3>1, <4>1, <4>2
      <3>2. CASE ~ (<<b, v>> = k /\ z = s)
        <4>1. OnSide(z)'[<<b, v>>] = OnSide(z)[<<b, v>>]
          BY <2>4, <2>5, <3>2 DEF OnSide, Both
        <4> QED
          BY <1>14, <4>1
      <3> QED
        BY <3>1, <3>2
    (* While an activation credits a victim, only its own side is ahead.     *)
    <2>7. ASSUME NEW z \in Both
          PROVE  /\ OnSide(z)'[k] <= Reach * tRH
                 /\ z # s => OnSide(z)'[k] <= Reach * (tRH - 1)
      <3>1. PICK t \in Nat : tRH = t + 1
        <4>1. tRH \in Nat \ {0}
          BY ProfileAssumption
        <4>2. tRH - 1 \in Nat /\ tRH = (tRH - 1) + 1
          BY <4>1
        <4> QED
          BY <4>2
      <3>2. PICK a \in Nat, c \in Nat :
              a = Seen(z, bank, w, 1)' /\ c = Seen(z, bank, w, 2)'
        BY <1>13, <2>1
      <3>3. \A j \in {1, 2} : Acts(bank, From(z, w, j)) \in Nat /\ Acts(bank, From(z, w, j)) <= t
        <4> SUFFICES ASSUME NEW j \in {1, 2}
                     PROVE  Acts(bank, From(z, w, j)) \in Nat /\ Acts(bank, From(z, w, j)) <= t
          OBVIOUS
        <4>1. From(z, w, j) \in Int
          BY <2>1, RowsAreInts
        <4>2. Acts(bank, From(z, w, j)) \in Nat /\ Acts(bank, From(z, w, j)) < tRH
          BY <1>2, <1>4, <4>1, ActsAreBelow
        <4> QED
          BY <3>1, <4>2
      <3>4. a <= t + 1 /\ c <= t + 1
        <4>1. ASSUME NEW j \in {1, 2} PROVE Seen(z, bank, w, j)' <= t + 1
          <5>1. PICK d \in Nat, e \in Nat :
                  d = Seen(z, bank, w, j)' /\ e = Acts(bank, From(z, w, j))
            BY <1>13, <2>1, <3>3
          <5>2. d <= e + 1 /\ e <= t
            BY <1>13, <2>1, <3>3, <5>1
          <5> QED
            BY <5>1, <5>2
        <4> QED
          BY <3>2, <4>1
      <3>5. z # s => a <= t /\ c <= t
        BY <1>13, <2>1, <3>2, <3>3
      <3>6. PICK x \in Nat : x = OnSide(z)'[k]
        BY <2>1, <2>3, <2>5
      <3>7. x <= Weight(1) * a + Weight(2) * c
        <4>1. OnSide(z)'[<<bank, w>>] <=
                Weight(1) * Seen(z, bank, w, 1)' + Weight(2) * Seen(z, bank, w, 2)'
          BY <2>1, <2>6 DEF Bounded, Seen, Acts, Extra, Consuming, OnSide
        <4> QED
          BY <2>1, <3>2, <3>6, <4>1
      <3>8. x <= Reach * tRH
        BY <3>1, <3>4, <3>7, CountedAtMost
      <3>9. z # s => x <= Reach * t
        BY <3>5, <3>7, CountedAtMost
      <3>10. tRH - 1 = t
        BY <3>1
      <3> QED
        BY <3>6, <3>8, <3>9, <3>10
    <2>8. /\ l <= Reach * tRH /\ r <= Reach * tRH
          /\ l <= Reach * (tRH - 1) \/ r <= Reach * (tRH - 1)
      <3>1. OnSide("left")'[k] = l /\ OnSide("right")'[k] = r
        BY <2>1, <2>5 DEF Both
      <3> QED
        BY <2>7, <3>1 DEF Both
    <2>9. Target \notin flipped_row_keys'
      <3>1. CASE k = Target
        BY <1>4, <1>17, <2>2, <2>3, <2>8, <3>1, TargetIsSafe
      <3>2. CASE k # Target
        <4>1. CASE UNCHANGED overlay
          BY <4>1, <1>4
        <4>2. CASE \E j : _flip(k, j)
          BY <4>2, <2>1, <3>2, <1>4, NoBitsOfOthers
        <4> QED
          BY <1>17, <4>1, <4>2 DEF _maybe_flip
      <3> QED
        BY <3>1, <3>2
    <2> QED
      BY <1>9, <2>6, <2>9
  <1> QED
    BY <1>16, <1>17 DEF Credit, job

LEMMA OpenedIsGuarded ==
  ASSUME Rings, IInv, IInv', OracleInv, Opened
  PROVE  OracleInv'
PROOF
  <1>1. UNCHANGED <<config, flipped_row_keys, req>>
        /\ todo # <<>> /\ Head(todo).kind = "opened" /\ todo' = Tail(todo)
    BY DEF Opened, NextJob
  <1>2. ExposureOK /\ ExposureOK' /\ todo \in Seq(Jobs)
    BY TypeParts, TypePartsNext DEF IInv, ControlOK
  <1>3. req.op # "failed"
    BY <1>1 DEF OracleInv
  <1> SUFFICES ASSUME Guarded
               PROVE  /\ Shape' /\ Bounded'
                      /\ \A k \in Keys : bonus'[k] = 0
                      /\ \A k \in Keys : _oracle_acts'[k] < tRH
    BY <1>1, <1>3 DEF OracleInv, Guarded
  <1>4. /\ Shape /\ Bounded
        /\ \A k \in Keys : bonus[k] = 0
        /\ \A k \in Keys : _oracle_acts[k] < tRH
    BY <1>3 DEF OracleInv, Guarded
  <1>5. PICK bank \in Banks, row \in Rows : Activation(bank, row, 1)
    BY <1>1, <1>2, <1>4, ShapeByHead
  <1>6. Head(todo).bank = bank /\ Head(todo).row = row /\ Len(todo') = 0
    BY <1>1, <1>2, <1>5, TailOfTodo, JobFields DEF Activation
  <1>7. /\ Shape'
        /\ \A b, v : \A t \in Int :
             /\ Extra(b, v, t) = IF 1 <= t /\ b = bank /\ v = row THEN 1 ELSE 0
             /\ Extra(b, v, t)' = 0
    <2>1. Shape'
      BY <1>6 DEF Shape, Closing
    <2>2. \A b, v : \A t \in Int : Extra(b, v, t) = IF 1 <= t /\ b = bank /\ v = row THEN 1 ELSE 0
      BY <1>5, AheadOfCount
    <2>3. \A b, v : \A t \in Int : Extra(b, v, t)' = 0
      BY <1>6 DEF Extra, Consuming
    <2> QED
      BY <2>1, <2>2, <2>3
  <1> DEFINE k == <<bank, row>>
             fires == OracleFires(bank, row)
             ks == IF fires THEN Neighbours(bank, row) ELSE {}
  <1>8. /\ _oracle_acts' = [_oracle_acts EXCEPT ![k] = IF fires THEN 0 ELSE _oracle_acts[k] + 1]
        /\ left' = Restored(left, ks) /\ right' = Restored(right, ks)
        /\ bonus' = Restored(bonus, ks)
    BY <1>6 DEF Opened, Guarded, _oracle_on_act
  <1>9. k \in Keys /\ tRH \in Nat \ {0} /\ row \in Int /\ _oracle_acts \in [Keys -> Nat]
    <2>1. row \in Int
      BY GeometryAssumption DEF Rows
    <2> QED
      BY <1>2, <2>1, ProfileAssumption DEF Keys, ExposureOK
  <1>10. ~ fires => _oracle_acts[k] + 1 < tRH
    BY <1>9 DEF OracleFires
  <1>11. \A j \in Keys : bonus'[j] = 0
    BY <1>4, <1>8 DEF Restored
  <1>12. \A j \in Keys : _oracle_acts'[j] < tRH
    BY <1>4, <1>8, <1>9, <1>10
  (* The count of a row other than the opened one stays; that one's grows     *)
  (* unless the oracle fires, and then its victims are restored.             *)
  <1>13. ASSUME NEW b \in Banks, NEW v \in Int
         PROVE  /\ Acts(b, v) \in Nat /\ Acts(b, v)' \in Nat
                /\ (b # bank \/ v # row) => Acts(b, v)' = Acts(b, v)
                /\ b = bank /\ v = row /\ ~ fires => Acts(b, v)' = Acts(b, v) + 1
    <2>1. Acts(b, v) \in Nat
      BY <1>2, ActsAreNats
    <2>2. v \in Rows => <<b, v>> \in Keys
      BY DEF Keys
    <2> HIDE DEF fires
    <2>3. (b # bank \/ v # row) => Acts(b, v)' = Acts(b, v)
      BY <1>8, <1>9, <2>2 DEF Acts
    <2>4. b = bank /\ v = row => Acts(b, v)' = IF fires THEN 0 ELSE Acts(b, v) + 1
      BY <1>8, <1>9, <2>2 DEF Acts
    <2> QED
      BY <2>1, <2>3, <2>4
  <1>14. ASSUME fires, NEW s \in Both, NEW v \in Rows, NEW i \in 1 .. Len(blast),
                From(s, v, i) = row
         PROVE  <<bank, v>> \in ks
    <2>1. blast[i][1] = i /\ i \in {1, 2}
      BY WeightsOfRings DEF Rings
    <2>2. v = row - i \/ v = row + i
      <3>1. v \in Int
        BY GeometryAssumption DEF Rows
      <3> QED
        BY <1>14, <2>1, <3>1 DEF From
    <2>3. <<bank, v>> \in Neighbours(bank, row)
      BY <2>1, <2>2 DEF Neighbours, Keys
    <2> QED
      BY <1>14, <2>3
  <1> HIDE DEF fires, ks
  <1>15. ASSUME NEW s \in Both, NEW b \in Banks, NEW v \in Rows, NEW i \in {1, 2}
         PROVE  /\ Seen(s, b, v, i)' \in Nat
                /\ i \in 1 .. Len(blast) /\ <<b, v>> \notin ks =>
                     Seen(s, b, v, i) <= Seen(s, b, v, i)'
    <2>1. PICK f \in Int, t \in Int : f = From(s, v, i) /\ t = Turn(s, i)
      BY RowsAreInts, TurnsOfRings
    <2>2. /\ Acts(b, f) \in Nat /\ Acts(b, f)' \in Nat
          /\ (b # bank \/ f # row) => Acts(b, f)' = Acts(b, f)
          /\ b = bank /\ f = row /\ ~ fires => Acts(b, f)' = Acts(b, f) + 1
      BY <1>13
    <2>3. /\ Seen(s, b, v, i) = Acts(b, f) + Extra(b, f, t)
          /\ Seen(s, b, v, i)' = Acts(b, f)' + Extra(b, f, t)'
      BY <2>1 DEF Seen
    <2>4. /\ Extra(b, f, t) \in {0, 1} /\ Extra(b, f, t)' = 0
          /\ (b # bank \/ f # row) => Extra(b, f, t) = 0
      BY <1>7
    <2>5. i \in 1 .. Len(blast) /\ <<b, v>> \notin ks /\ b = bank /\ f = row => ~ fires
      BY <1>14, <2>1
    <2> QED
      BY <2>2, <2>3, <2>4, <2>5
  <1>16. Bounded'
    <2> SUFFICES ASSUME NEW s \in Both, NEW b \in Banks, NEW v \in Rows
                 PROVE  OnSide(s)'[<<b, v>>] <=
                          Weight(1) * Seen(s, b, v, 1)' + Weight(2) * Seen(s, b, v, 2)'
      BY DEF Bounded, Seen, Acts, Extra, Consuming, OnSide
    <2>1. OnSide(s)[<<b, v>>] \in Nat /\ <<b, v>> \in Keys
      BY <1>2, SidesAreNats
    <2>2. OnSide(s)'[<<b, v>>] = IF <<b, v>> \in ks THEN 0 ELSE OnSide(s)[<<b, v>>]
      BY <1>8, <2>1 DEF OnSide, Restored
    <2>3. \A i \in 1 .. Len(blast) : i \in {1, 2}
      BY WeightsOfRings
    <2>4. PICK x \in Nat : OnSide(s)'[<<b, v>>] = x
      BY <2>1, <2>2
    <2>5. /\ \A i \in {1, 2} : Seen(s, b, v, i)' \in Nat
          /\ \/ x = 0
             \/ /\ x = OnSide(s)[<<b, v>>]
                /\ \A i \in 1 .. Len(blast) : Seen(s, b, v, i) <= Seen(s, b, v, i)'
      BY <1>15, <2>2, <2>3, <2>4
    <2> QED
      BY <1>2, <1>4, <2>4, <2>5, BoundCarries
  <1> QED
    BY <1>7, <1>11, <1>12, <1>16

LEMMA FreshIsGuarded == ASSUME Rings, Fresh PROVE OracleInv
PROOF
  <1>1. todo = <<>> /\ Target \notin flipped_row_keys
    BY DEF Fresh
  <1>2. \A k \in Keys : /\ left[k] = 0 /\ right[k] = 0 /\ bonus[k] = 0
                        /\ _oracle_acts[k] = 0 /\ _oracle_acts[k] < tRH
    BY ProfileAssumption DEF Fresh
  <1>3. Bounded
    <2> SUFFICES ASSUME NEW s \in Both, NEW bank \in Banks, NEW row \in Rows
                 PROVE  OnSide(s)[<<bank, row>>] <=
                          Weight(1) * Seen(s, bank, row, 1) + Weight(2) * Seen(s, bank, row, 2)
      BY DEF Bounded
    <2>1. OnSide(s)[<<bank, row>>] = 0
      BY <1>2 DEF Keys, OnSide
    <2>2. \A i \in {1, 2} : Seen(s, bank, row, i) = 0
      <3> SUFFICES ASSUME NEW i \in {1, 2} PROVE Seen(s, bank, row, i) = 0
        OBVIOUS
      <3>1. Acts(bank, From(s, row, i)) = 0
        BY <1>2 DEF Acts, Keys
      <3>2. Extra(bank, From(s, row, i), Turn(s, i)) = 0
        BY <1>1, NothingLeft, TurnsOfRings DEF Quiet
      <3> QED
        BY <3>1, <3>2 DEF Seen
    <2>3. PICK u \in Nat, v \in Nat : u = Weight(1) /\ v = Weight(2)
      BY WeightsOfRings
    <2>4. 0 <= u * 0 + v * 0
      OBVIOUS
    <2> QED
      BY <2>1, <2>2, <2>3, <2>4
  <1> QED
    BY <1>1, <1>2, <1>3, NothingLeft DEF OracleInv

LEMMA FreshThenGuarded == Rings /\ Fresh => OracleInv
PROOF BY FreshIsGuarded

LEMMA InitIsGuarded == ASSUME Rings, Init PROVE OracleInv
PROOF BY FreshIsGuarded DEF Init, Fresh

LEMMA RebuildIsGuarded == ASSUME Rings, Rebuild PROVE OracleInv'
PROOF
  <1>1. Fresh'
    BY DEF Rebuild, Fresh
  <1> QED
    BY <1>1, FreshThenGuarded, PTL DEF Rings

LEMMA EncodeFailsIsGuarded ==
  ASSUME OracleInv, EncodeFails
  PROVE  OracleInv'
PROOF
  <1>1. UNCHANGED <<config, bonus, _oracle_acts, flipped_row_keys>>
        /\ todo' = <<>> /\ req'.op = "failed"
    BY DEF EncodeFails, NoRequest
  <1>2. Shape'
    <2>1. Len(todo') = 0
      BY <1>1
    <2> QED
      BY <2>1 DEF Shape, Closing
  <1> QED
    BY <1>1, <1>2 DEF OracleInv
(* No dwell is worth a bonus in a profile without RowPress.                  *)
LEMMA BonusIsGuarded ==
  ASSUME Rings, IInv, OracleInv, Bonus
  PROVE  OracleInv'
PROOF
  <1>1. todo # <<>> /\ Head(todo).kind = "bonus" /\ UNCHANGED <<config, req>>
    BY DEF Bonus, NextJob
  <1>2. todo \in Seq(Jobs)
    BY TypeParts DEF IInv, ControlOK
  <1>3. ~ Guarded
    BY <1>1, <1>2, ShapeByHead DEF OracleInv, Guarded
  <1>4. req'.op # "failed"
    BY <1>1 DEF OracleInv
  <1> QED
    BY <1>1, <1>3, <1>4 DEF OracleInv, Guarded
(* With or without half-double victims, with no RowPress and a threshold this *)
(* low, the oracle keeps the known target from flipping (_oracle_on_act).     *)
THEOREM OracleIsSound == ASSUME Rings, ThresholdIsLow PROVE Spec => []OracleProtects
PROOF
  <1>1. Init => OracleInv
    BY InitIsGuarded
  <1>2. IInv /\ IInv' /\ OracleInv /\ [Next]_vars => OracleInv'
    BY RequestIsGuarded, CloseBankIsGuarded, RefreshIsGuarded, HammerIsGuarded, SettleIsGuarded,
       CreditIsGuarded, OpenedIsGuarded, RebuildIsGuarded, EncodeFailsIsGuarded, BonusIsGuarded
    DEF Next, Event, Work
  <1>3. OracleInv => OracleProtects
    BY DEF OracleInv, OracleProtects
  <1> QED
    BY <1>1, <1>2, <1>3, Indexed, PTL DEF Spec
=============================================================================
