----------------------------- MODULE Addressing -----------------------------
(***************************************************************************)
(* Physical coordinates and linear addresses: the geometry a worker         *)
(* reports (geometry.py), the Python projection of its public mapper        *)
(* (tools/addressing.py), the secret mapper the worker runs for discovery   *)
(* families (row_xor_addr_mapper.cpp) and the recorder's inverse of         *)
(* whichever mapper is active (AddrInverter, issued_event_recorder.cpp).    *)
(* Operators only.  Bytes below a transaction are one unit of tx_bytes.     *)
(***************************************************************************)
EXTENDS Integers, Sequences, SequencesExt, FiniteSetsExt, Functions

CONSTANT BitXor(_, _)   \* the machine's exclusive or

(* Answers that are no address: the codes of AddressError, and of the          *)
(* worker's ENCODE.                                                          *)
BadSchema == -1
NotDisclosed == -2
OutOfRange == -3
NotInvertible == -4

----------------------------------------------------------------------------
(* Geometry.  An INFO answer lists the levels of the device, lower-cased, in *)
(* the order of its DRAMSpec, with their sizes.                              *)

IsPowerOfTwo(n) == \E k \in 0..n : 2^k = n
log2_exact(n) == CHOOSE k \in 0..n : 2^k = n

(* Geometry._validate_levels: one coherent device.                           *)
validate_levels(info) ==
  LET names == info.level_names
      sizes == info.level_sizes
  IN /\ names # <<>> /\ sizes # <<>>
     /\ Len(names) = Len(sizes)
     /\ IsInjective(names)
     /\ Head(names) = "channel"
     /\ Last(names) = "column"
     /\ Cardinality({i \in DOMAIN names : names[i] = "row"}) = 1
     /\ Contains(names, "bank")
     /\ \A i \in DOMAIN sizes : sizes[i] >= 1

level_size(info, level) == info.level_sizes[CHOOSE i \in DOMAIN info.level_names : info.level_names[i] = level]

row_index(info) == CHOOSE i \in DOMAIN info.level_names : info.level_names[i] = "row"

(* The levels between Channel and Row, least significant first.              *)
below_row(info) == SubSeq(info.level_names, 2, row_index(info) - 1)

(* The width of a field: Column loses the bits that index a burst.           *)
width(info, level) ==
  log2_exact(level_size(info, level)) - (IF level = "column" THEN log2_exact(info.prefetch) ELSE 0)

(* The bits of the first n levels of a list, together.                       *)
bits_of(info, levels, n) ==
  LET sum[i \in 0..Len(levels)] == IF i = 0 THEN 0 ELSE sum[i - 1] + width(info, levels[i])
  IN sum[n]

(* Geometry._row_stride: linear bytes from a row to the next one.            *)
row_stride(info) ==
  2^(log2_exact(info.tx_bytes) + width(info, "column") + bits_of(info, below_row(info), Len(below_row(info))))

(* AddressMapper.__init__ refuses a geometry it cannot project.              *)
Projectable(info) ==
  /\ IsPowerOfTwo(info.tx_bytes) /\ IsPowerOfTwo(info.prefetch)
  /\ level_size(info, "channel") = 1
  /\ \A i \in 2..Len(info.level_names) : IsPowerOfTwo(info.level_sizes[i])
  /\ level_size(info, "column") >= info.prefetch

(* AddressMapper: Column at the bottom, then Rank up to Row.                 *)
AddressMapper(info) ==
  LET placement == <<"column">> \o below_row(info) \o <<"row">>
      position(f) == CHOOSE i \in DOMAIN placement : placement[i] = f
      shift(n) == log2_exact(info.tx_bytes) + bits_of(info, placement, n)
  IN [placement |-> placement,
      tx_offset |-> log2_exact(info.tx_bytes),
      widths    |-> [f \in ToSet(placement) |-> width(info, f)],
      shifts    |-> [f \in ToSet(placement) |-> shift(position(f) - 1)],
      row_stride |-> row_stride(info),
      capacity  |-> 2^shift(Len(placement))]

Fields(mapper) == DOMAIN mapper.widths

----------------------------------------------------------------------------
(* The public mapper, RoBaRaCoCh, and its Python projection.                 *)

decode(mapper, linear) ==
  [f \in Fields(mapper) \cup {"channel"} |->
     IF f = "channel" THEN 0 ELSE (linear \div 2^mapper.shifts[f]) % 2^mapper.widths[f]]

(* A policy may leave a coordinate out (it is 0) or out of its range.         *)
coord_int(coords, f) == IF f \in DOMAIN coords THEN coords[f] ELSE 0

(* The first n of a list of fields in one word, each at its place.           *)
joined(coords, fields, places, n) ==
  LET word[i \in 0..Len(fields)] ==
        IF i = 0 THEN 0 ELSE word[i - 1] + coord_int(coords, fields[i]) * 2^places[fields[i]]
  IN word[n]

encode(mapper, coords) ==
  IF \/ \E f \in Fields(mapper) : coord_int(coords, f) \notin 0..2^mapper.widths[f] - 1
     \/ coord_int(coords, "channel") # 0
  THEN BadSchema
  ELSE joined(coords, mapper.placement, mapper.shifts, Len(mapper.placement))

----------------------------------------------------------------------------
(* RoBaRaCoChRowXOR: the worker's secret mapper.                             *)

(* init: no Bank or Row field, or an offset past the row, stops the worker.   *)
MapperStarts(mapper, xor_offset) ==
  /\ "bank" \in Fields(mapper)
  /\ mapper.widths["bank"] > 0
  /\ mapper.widths["row"] > 0
  /\ xor_offset < mapper.widths["row"]

(* apply: the row is folded into Bank and, shifted, into BankGroup.          *)
RowXOR(mapper, xor_offset, linear) ==
  LET base == decode(mapper, linear)
      folded == [base EXCEPT !["bank"] = BitXor(@, base["row"] % 2^mapper.widths["bank"])]
  IN IF "bankgroup" \in Fields(mapper)
     THEN [folded EXCEPT !["bankgroup"] =
             BitXor(@, (base["row"] \div 2^xor_offset) % 2^mapper.widths["bankgroup"])]
     ELSE folded

(* A worker's active mapper is the public one, or the offset of a secret one. *)
Public == -1
worker_decode(mapper, active, linear) ==
  IF active = Public THEN decode(mapper, linear) ELSE RowXOR(mapper, active, linear)

----------------------------------------------------------------------------
(* AddrInverter: the active mapper is probed at 0 and at every address bit,   *)
(* and inverted by elimination over GF(2).  A basis row keeps its vector and  *)
(* the address bits that make it.                                             *)

AddrBits(mapper) == mapper.shifts["row"] + mapper.widths["row"] - mapper.tx_offset

(* The coordinates of an address as one word, in the order of the device's    *)
(* levels: Column, which is at the bottom of an address, comes last.          *)
packed_at(mapper) ==
  [f \in Fields(mapper) |->
     IF f = "column" THEN AddrBits(mapper) - mapper.widths[f]
     ELSE mapper.shifts[f] - mapper.tx_offset - mapper.widths["column"]]
pack(mapper, coords) == joined(coords, mapper.placement, packed_at(mapper), Len(mapper.placement))

Bit(word, p) == (word \div 2^p) % 2 = 1
Unused == [vector |-> 0, address_bits |-> 0]

(* A row meets the basis row of its bit p, if it has that bit and there is one. *)
Met(basis, row, p) ==
  IF Bit(row.vector, p) /\ basis[p] # Unused
  THEN [vector |-> BitXor(row.vector, basis[p].vector), address_bits |-> BitXor(row.address_bits, basis[p].address_bits)]
  ELSE row

(* What becomes of a row, from its highest bit on, over n bits.              *)
reduced(basis, row, n) ==
  LET bits == Cardinality(DOMAIN basis)
      after[i \in 0..bits] == IF i = 0 THEN row ELSE Met(basis, after[i - 1], bits - i)
  IN after[n]

(* insert: the row takes the first place it needs that no row has.           *)
Reaching(basis, row, p) == reduced(basis, row, Cardinality(DOMAIN basis) - 1 - p)
Free(basis, row) == {p \in DOMAIN basis : Bit(Reaching(basis, row, p).vector, p) /\ basis[p] = Unused}
insert(basis, row) ==
  IF Free(basis, row) = {} THEN basis
  ELSE LET p == Max(Free(basis, row)) IN [basis EXCEPT ![p] = Reaching(basis, row, p)]

probe(mapper, active, address_bits) == pack(mapper, worker_decode(mapper, active, address_bits * 2^mapper.tx_offset))

(* The basis after the first n address bits.                                 *)
Basis(mapper, active, n) ==
  LET row(j) == [vector |-> BitXor(probe(mapper, active, 2^j), probe(mapper, active, 0)), address_bits |-> 2^j]
      after[j \in 0..n] == IF j = 0 THEN [p \in 0..AddrBits(mapper) - 1 |-> Unused] ELSE insert(after[j - 1], row(j - 1))
  IN after[n]

(* A vector must fit in a machine word, or the inverter is never ready.      *)
AddrInverter(mapper, active) ==
  [ready |-> AddrBits(mapper) \in 1..63, constant |-> probe(mapper, active, 0),
   basis |-> Basis(mapper, active, AddrBits(mapper))]

(* solve: the address bits whose vectors add up to the target, if any.       *)
solve(basis, target) ==
  LET rest == reduced(basis, [vector |-> target, address_bits |-> 0], Cardinality(DOMAIN basis))
  IN [solvable |-> rest.vector = 0, address_bits |-> rest.address_bits]

(* AddrInverter::encode checks its answer through the same mapper.           *)
worker_encode(mapper, active, inverter, coords) ==
  LET answer == solve(inverter.basis, BitXor(pack(mapper, coords), inverter.constant))
      linear == answer.address_bits * 2^mapper.tx_offset
  IN IF ~inverter.ready THEN NotInvertible
     ELSE IF \E f \in Fields(mapper) : coords[f] \notin 0..2^mapper.widths[f] - 1 THEN OutOfRange
     ELSE IF answer.solvable /\ worker_decode(mapper, active, linear) = coords THEN linear ELSE NotInvertible
=============================================================================
