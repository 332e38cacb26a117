---------------------------- MODULE WorkerProofs ----------------------------
(***************************************************************************)
(* Theorems about Worker, for every mapper, controller behaviour, deadline   *)
(* and session: no callback outlives its request, and every command of the  *)
(* device is reported once.  A reset that raises may put the session back on *)
(* a worker whose last request failed (resumed > 0); of such a worker the    *)
(* invariant says what still holds, the types and the ledger.                *)
(***************************************************************************)
EXTENDS Worker, TLAPS, FiniteSetTheorems, SequenceTheorems

USE DEF simVars

(* The one request of a session that is in the controller's hands.           *)
Held(op, served) ==
  /\ Len(queue) = 1
  /\ queue[1].live /\ queue[1].op = op /\ queue[1].served = served

Writes == CountOf(sink, {"WR"})
Due(op) == IF op = "WR" THEN 1 ELSE 0

(* What was counted and what is still in the sink is what was issued.        *)
Ledger ==
  /\ counters.acts + CountOf(sink, {"ACT"}) = issued.acts
  /\ counters.refreshes + CountOf(sink, {"REFab"}) = issued.refreshes

(* How far the request under way is, on a worker no failure has touched.     *)
Orderly ==
  /\ pc = "idle" /\ ~over => queue = <<>> /\ sink = <<>>
  /\ pc = "busy" /\ ~done =>
       \/ Held(req.op, FALSE) /\ Writes = 0
       \/ Held(req.op, TRUE) /\ Writes = Due(req.op)
  /\ pc = "busy" /\ done => queue = <<>> /\ Writes = Due(req.op)
  /\ pc = "wait" => queue = <<>> /\ Writes = 0

Progress ==
  /\ pc # "idle" => ~over
  /\ pc = "busy" => req \in Request /\ in_domain(req.addr, req.len)
  /\ resumed = 0 => Orderly

IInv == TypeOK /\ Ledger /\ Progress /\ OneWriteEvent

(* The session's resolver sends no address beyond the device.                *)
SessionBounds == Addr \subseteq 0 .. Capacity - 1

Ops == {"ACT", "PRE", "PREA", "REFab", "RD", "WR"}
One(b) == IF b THEN 1 ELSE 0

-----------------------------------------------------------------------------
(* Addresses and events.                                                     *)

LEMMA SmallModulo ==
  ASSUME NEW n \in Nat, NEW w \in Nat, n < w PROVE n % w = n
PROOF
  OBVIOUS

LEMMA ModuloRange ==
  ASSUME NEW n \in Nat, NEW w \in Nat \ {0} PROVE n % w \in 0 .. w - 1
PROOF
  OBVIOUS

(* Inside the device the mapper aliases nothing.                             *)
LEMMA InsideIsExact == ASSUME NEW a \in 0 .. Capacity - 1 PROVE Loc(a) = a
PROOF
  BY GeometryAssumption DEF Loc

LEMMA CountEmpty == ASSUME NEW ops PROVE CountOf(<<>>, ops) = 0
PROOF
  BY FS_EmptySet DEF CountOf

(* One more event counts once if its command is asked for.                   *)
LEMMA CountAppend ==
  ASSUME NEW s \in Seq(Event), NEW e \in Event, NEW ops
  PROVE  /\ CountOf(s, ops) \in Nat
         /\ CountOf(Append(s, e), ops) = CountOf(s, ops) + One(e.op \in ops)
PROOF
  <1> DEFINE I == {i \in DOMAIN s : s[i].op \in ops}
             J == {i \in DOMAIN Append(s, e) : Append(s, e)[i].op \in ops}
  <1>1. DOMAIN s = 1 .. Len(s) /\ Len(s) \in Nat
    OBVIOUS
  <1>2. IsFiniteSet(I)
    <2>1. IsFiniteSet(1 .. Len(s))
      BY <1>1, FS_Interval
    <2>2. I \subseteq 1 .. Len(s)
      BY <1>1
    <2> QED
      BY <2>1, <2>2, FS_Subset
  <1>3. /\ DOMAIN Append(s, e) = 1 .. Len(s) + 1
        /\ Append(s, e)[Len(s) + 1] = e
        /\ \A i \in 1 .. Len(s) : Append(s, e)[i] = s[i]
    OBVIOUS
  <1>4. J = I \cup (IF e.op \in ops THEN {Len(s) + 1} ELSE {})
    BY <1>1, <1>3
  <1>5. Len(s) + 1 \notin I
    BY <1>1
  <1>6. CASE e.op \in ops
    <2>1. Cardinality(J) = Cardinality(I) + 1
      BY <1>2, <1>4, <1>5, <1>6, FS_AddElement
    <2>2. Cardinality(I) \in Nat
      BY <1>2, FS_CardinalityType
    <2>3. CountOf(s, ops) = Cardinality(I) /\ CountOf(Append(s, e), ops) = Cardinality(J)
      BY DEF CountOf
    <2> QED
      BY <2>1, <2>2, <2>3, <1>6 DEF One
  <1>7. CASE e.op \notin ops
    <2>1. J = I
      BY <1>4, <1>7
    <2>2. Cardinality(I) \in Nat
      BY <1>2, FS_CardinalityType
    <2>3. CountOf(s, ops) = Cardinality(I) /\ CountOf(Append(s, e), ops) = Cardinality(J)
      BY DEF CountOf
    <2> HIDE DEF I, J
    <2> QED
      BY <2>1, <2>2, <2>3, <1>7 DEF One
  <1> QED
    BY <1>6, <1>7

LEMMA CountIsNat == ASSUME NEW s \in Seq(Event), NEW ops PROVE CountOf(s, ops) \in Nat
PROOF
  <1>1. [op |-> "ACT", row_hit |-> FALSE] \in Event
    BY DEF Event
  <1> QED
    BY <1>1, CountAppend

-----------------------------------------------------------------------------
(* A command: its types, and what it adds to the sink.                       *)

LEMMA RecordedIsTyped ==
  ASSUME TypeOK, NEW op \in Ops, NEW bank \in Banks, NEW row \in Rows \cup {NoRow}
  PROVE  /\ Recorded(op, bank, row) \in [Flats -> Rows \cup {NoRow}]
         /\ Captured(op, bank, row) \in Event /\ Captured(op, bank, row).op = op
PROOF
  <1>1. FlatBank[bank] \in Flats
    BY DEF Flats
  <1>2. Captured(op, bank, row) \in Event /\ Captured(op, bank, row).op = op
    BY DEF Captured, Event, Ops, is_accessing
  <1>3. m_open_row \in [Flats -> Rows \cup {NoRow}]
    BY DEF TypeOK
  <1>4. Recorded(op, bank, row) \in [Flats -> Rows \cup {NoRow}]
    <2>1. CASE op = "ACT"
      BY <2>1, <1>1, <1>3 DEF Recorded, is_opening
    <2>2. CASE op \in {"PREA", "REFab"}
      BY <2>2, <1>3 DEF Recorded, is_opening, closes, all_banks
    <2>3. CASE op = "PRE"
      BY <2>3, <1>1, <1>3 DEF Recorded, is_opening, closes, all_banks
    <2>4. CASE op \in {"RD", "WR"}
      BY <2>4, <1>3 DEF Recorded, is_opening, closes, all_banks
    <2> QED
      BY <2>1, <2>2, <2>3, <2>4 DEF Ops
  <1> QED
    BY <1>2, <1>4

LEMMA IssueAdds ==
  ASSUME TypeOK, NEW op \in Ops, NEW bank \in Banks, NEW row \in Rows \cup {NoRow},
         on_issue(op, bank, row)
  PROVE  /\ m_open_row' \in [Flats -> Rows \cup {NoRow}]
         /\ sink' \in Seq(Event)
         /\ \A ops : CountOf(sink', ops) = CountOf(sink, ops) + One(op \in ops)
PROOF
  <1>1. sink \in Seq(Event)
    BY DEF TypeOK
  <1>2. /\ Captured(op, bank, row) \in Event /\ Captured(op, bank, row).op = op
        /\ m_open_row' \in [Flats -> Rows \cup {NoRow}]
    BY RecordedIsTyped DEF on_issue
  <1>3. sink' = Append(sink, Captured(op, bank, row))
    BY DEF on_issue
  <1> QED
    BY <1>1, <1>2, <1>3, CountAppend

(* The commands of a tick, with the queue's entry of a column command.       *)
Commands(i) == Activate(i) \/ Column(i)
Maintains(bank) == Precharge(bank) \/ PrechargeAll(bank) \/ Refresh(bank)

SimTyped ==
  /\ open' \in [Banks -> Rows \cup {NoRow}]
  /\ m_open_row' \in [Flats -> Rows \cup {NoRow}]
  /\ sink' \in Seq(Event)
  /\ issued' \in [acts : Nat, refreshes : Nat]

LedgerKept ==
  /\ issued'.acts - CountOf(sink', {"ACT"}) = issued.acts - CountOf(sink, {"ACT"})
  /\ issued'.refreshes - CountOf(sink', {"REFab"}) = issued.refreshes - CountOf(sink, {"REFab"})

LEMMA BankRowIsTyped ==
  ASSUME TypeOK, NEW i \in DOMAIN queue
  PROVE  /\ BankRow(i)[1] \in Banks /\ BankRow(i)[2] \in Rows
         /\ queue[i] \in Pending
PROOF
  <1>1. queue[i] \in Pending
    BY DEF TypeOK
  <1>2. queue[i].addr \in Nat
    <2>1. queue[i].addr \in Addr
      BY <1>1 DEF Pending
    <2>2. \A a \in Addr : a \in Nat
      BY GeometryAssumption
    <2> QED
      BY <2>1, <2>2, Zenon
  <1>3. Loc(queue[i].addr) \in 0 .. Capacity - 1
    <2>1. Capacity \in Nat \ {0}
      BY GeometryAssumption
    <2> QED
      BY <1>2, <2>1, ModuloRange DEF Loc
  <1> QED
    BY <1>1, <1>3, GeometryAssumption DEF BankRow

LEMMA ActivateAdds ==
  ASSUME TypeOK, NEW i \in DOMAIN queue, Activate(i)
  PROVE  SimTyped /\ LedgerKept /\ Writes' = Writes
PROOF
  <1> DEFINE bank == BankRow(i)[1]  row == BankRow(i)[2]
  <1>1. bank \in Banks /\ row \in Rows
    BY BankRowIsTyped
  <1>2. on_issue("ACT", bank, row)
    BY DEF Activate
  <1> HIDE DEF bank, row
  <1>3. /\ m_open_row' \in [Flats -> Rows \cup {NoRow}] /\ sink' \in Seq(Event)
        /\ \A ops : CountOf(sink', ops) = CountOf(sink, ops) + One("ACT" \in ops)
    BY <1>1, <1>2, IssueAdds DEF Ops
  <1>4. /\ open' = [open EXCEPT ![bank] = row]
        /\ issued' = [issued EXCEPT !.acts = @ + 1]
    BY DEF Activate, bank, row
  <1>5. SimTyped
    <2>1. open' \in [Banks -> Rows \cup {NoRow}]
      BY <1>1, <1>4 DEF TypeOK
    <2>2. issued' \in [acts : Nat, refreshes : Nat]
      <3>1. issued \in [acts : Nat, refreshes : Nat]
        BY DEF TypeOK
      <3>2. issued' = [issued EXCEPT !.acts = @ + 1]
        BY <1>4
      <3> QED
        BY <3>1, <3>2
    <2> QED
      BY <1>3, <2>1, <2>2 DEF SimTyped
  <1>6. /\ CountOf(sink', {"ACT"}) = CountOf(sink, {"ACT"}) + 1
        /\ CountOf(sink', {"REFab"}) = CountOf(sink, {"REFab"}) + 0
        /\ Writes' = Writes + 0
    BY <1>3 DEF One, Writes
  <1>7. \A ops : CountOf(sink, ops) \in Nat
    BY CountIsNat DEF TypeOK
  <1>8. LedgerKept
    BY <1>4, <1>6, <1>7 DEF LedgerKept, TypeOK
  <1> QED
    BY <1>5, <1>6, <1>7, <1>8 DEF Writes

LEMMA ColumnAdds ==
  ASSUME TypeOK, NEW i \in DOMAIN queue, Column(i)
  PROVE  SimTyped /\ LedgerKept /\ Writes' = Writes + Due(queue[i].op)
PROOF
  <1> DEFINE bank == BankRow(i)[1]  row == BankRow(i)[2]
  <1>1. bank \in Banks /\ row \in Rows /\ queue[i].op \in {"RD", "WR"}
    BY BankRowIsTyped DEF Pending
  <1>2. on_issue(queue[i].op, bank, row)
    BY DEF Column
  <1> HIDE DEF bank, row
  <1>3. /\ m_open_row' \in [Flats -> Rows \cup {NoRow}] /\ sink' \in Seq(Event)
        /\ \A ops : CountOf(sink', ops) = CountOf(sink, ops) + One(queue[i].op \in ops)
    BY <1>1, <1>2, IssueAdds DEF Ops
  <1>4. open' = open /\ issued' = issued
    BY DEF Column
  <1>5. SimTyped
    BY <1>3, <1>4 DEF SimTyped, TypeOK
  <1>6. /\ CountOf(sink', {"ACT"}) = CountOf(sink, {"ACT"}) + 0
        /\ CountOf(sink', {"REFab"}) = CountOf(sink, {"REFab"}) + 0
        /\ Writes' = Writes + Due(queue[i].op)
    BY <1>1, <1>3 DEF One, Writes, Due
  <1>7. \A ops : CountOf(sink, ops) \in Nat
    BY CountIsNat DEF TypeOK
  <1>8. LedgerKept
    BY <1>4, <1>6, <1>7 DEF LedgerKept, TypeOK
  <1> QED
    BY <1>5, <1>6, <1>8

LEMMA MaintenanceAdds ==
  ASSUME TypeOK, NEW bank \in Banks, Maintains(bank)
  PROVE  SimTyped /\ LedgerKept /\ Writes' = Writes
PROOF
  <1>1. \A ops : CountOf(sink, ops) \in Nat
    BY CountIsNat DEF TypeOK
  <1>2. NoRow \in Rows \cup {NoRow} /\ open[bank] \in Rows \cup {NoRow}
    BY DEF TypeOK
  <1>3. ASSUME Precharge(bank) PROVE SimTyped /\ LedgerKept /\ Writes' = Writes
    <2>1. /\ m_open_row' \in [Flats -> Rows \cup {NoRow}] /\ sink' \in Seq(Event)
          /\ \A ops : CountOf(sink', ops) = CountOf(sink, ops) + One("PRE" \in ops)
      BY <1>2, <1>3, IssueAdds DEF Ops, Precharge
    <2>2. /\ CountOf(sink', {"ACT"}) = CountOf(sink, {"ACT"}) + 0
          /\ CountOf(sink', {"REFab"}) = CountOf(sink, {"REFab"}) + 0
          /\ Writes' = Writes + 0
      BY <2>1 DEF One, Writes
    <2>3. issued' = issued /\ open' = [open EXCEPT ![bank] = NoRow]
      BY <1>3 DEF Precharge
    <2> QED
      BY <1>1, <2>1, <2>2, <2>3 DEF SimTyped, LedgerKept, TypeOK, Writes
  <1>4. ASSUME PrechargeAll(bank) PROVE SimTyped /\ LedgerKept /\ Writes' = Writes
    <2>1. /\ m_open_row' \in [Flats -> Rows \cup {NoRow}] /\ sink' \in Seq(Event)
          /\ \A ops : CountOf(sink', ops) = CountOf(sink, ops) + One("PREA" \in ops)
      BY <1>2, <1>4, IssueAdds DEF Ops, PrechargeAll
    <2>2. /\ CountOf(sink', {"ACT"}) = CountOf(sink, {"ACT"}) + 0
          /\ CountOf(sink', {"REFab"}) = CountOf(sink, {"REFab"}) + 0
          /\ Writes' = Writes + 0
      BY <2>1 DEF One, Writes
    <2>3. issued' = issued /\ open' = [b \in Banks |-> NoRow]
      BY <1>4 DEF PrechargeAll
    <2> QED
      BY <1>1, <2>1, <2>2, <2>3 DEF SimTyped, LedgerKept, TypeOK, Writes
  <1>5. ASSUME Refresh(bank) PROVE SimTyped /\ LedgerKept /\ Writes' = Writes
    <2>1. /\ m_open_row' \in [Flats -> Rows \cup {NoRow}] /\ sink' \in Seq(Event)
          /\ \A ops : CountOf(sink', ops) = CountOf(sink, ops) + One("REFab" \in ops)
      BY <1>2, <1>5, IssueAdds DEF Ops, Refresh
    <2>2. /\ CountOf(sink', {"ACT"}) = CountOf(sink, {"ACT"}) + 0
          /\ CountOf(sink', {"REFab"}) = CountOf(sink, {"REFab"}) + 1
          /\ Writes' = Writes + 0
      BY <2>1 DEF One, Writes
    <2>3. issued' = [issued EXCEPT !.refreshes = @ + 1] /\ open' = open
      BY <1>5 DEF Refresh
    <2>4. issued' \in [acts : Nat, refreshes : Nat]
      BY <2>3 DEF TypeOK
    <2>5. SimTyped
      BY <2>1, <2>3, <2>4 DEF SimTyped, TypeOK
    <2>6. issued'.acts = issued.acts /\ issued'.refreshes = issued.refreshes + 1
      BY <2>3 DEF TypeOK
    <2>7. issued.acts \in Nat /\ issued.refreshes \in Nat
      BY DEF TypeOK
    <2>8. LedgerKept
      BY <1>1, <2>2, <2>6, <2>7 DEF LedgerKept
    <2> QED
      BY <1>1, <2>2, <2>5, <2>8 DEF Writes
  <1> QED
    BY <1>3, <1>4, <1>5 DEF Maintains

-----------------------------------------------------------------------------
(* A tick: at most one command, and at most the callback of the one request.  *)

Keeps == TypeOK' /\ Ledger' /\ Progress' /\ OneWriteEvent'

LEMMA LedgerFollows ==
  ASSUME TypeOK, Ledger, SimTyped, LedgerKept, counters' = counters
  PROVE  Ledger'
PROOF
  <1>1. /\ CountOf(sink, {"ACT"}) \in Nat /\ CountOf(sink, {"REFab"}) \in Nat
        /\ CountOf(sink', {"ACT"}) \in Nat /\ CountOf(sink', {"REFab"}) \in Nat
    BY CountIsNat DEF TypeOK, SimTyped
  <1>2. /\ issued.acts \in Nat /\ issued.refreshes \in Nat
        /\ issued'.acts \in Nat /\ issued'.refreshes \in Nat
        /\ counters.acts \in Nat /\ counters.refreshes \in Nat
    BY DEF TypeOK, SimTyped
  <1> QED
    BY <1>1, <1>2 DEF Ledger, LedgerKept

(* What a tick leaves alone, and the clock it advances.                      *)
Ticking ==
  /\ left' = IF left > 0 THEN left - 1 ELSE 0
  /\ UNCHANGED <<pc, req, bytes_, counters, reply, over, resumed>>

LEMMA TickTypes ==
  ASSUME TypeOK, Ticking, SimTyped, queue' \in Seq(Pending), done' \in BOOLEAN
  PROVE  TypeOK'
PROOF
  <1>1. left' \in Nat
    BY DEF TypeOK, Ticking
  <1> QED
    BY <1>1 DEF TypeOK, Ticking, SimTyped

(* What a tick does to a queue keeps its type.                               *)
LEMMA ReturnTypes ==
  ASSUME TypeOK, NEW q \in Seq(Pending), DOMAIN q = DOMAIN queue, Return(q)
  PROVE  queue' \in Seq(Pending) /\ done' \in BOOLEAN
PROOF
  <1>1. CASE queue' = q /\ UNCHANGED done
    BY <1>1 DEF TypeOK
  <1>2. CASE \E i \in DOMAIN queue :
               queue[i].served /\ queue' = Without(q, i) /\ done' \in Callback(i)
    <2>1. PICK i \in DOMAIN queue : queue' = Without(q, i) /\ done' \in Callback(i)
      BY <1>2
    <2>2. done' \in BOOLEAN
      BY <2>1 DEF Callback, TypeOK
    <2>3. Len(q) \in Nat /\ DOMAIN q = 1 .. Len(q) /\ i \in 1 .. Len(q)
      BY <2>1
    <2>4. \A j \in 1 .. Len(q) - 1 : (IF j < i THEN q[j] ELSE q[j + 1]) \in Pending
      BY <2>3
    <2>5. Without(q, i) \in [1 .. Len(q) - 1 -> Pending]
      BY <2>4 DEF Without
    <2>6. Len(q) - 1 \in Nat
      BY <2>3
    <2>7. Without(q, i) \in Seq(Pending)
      BY <2>5, <2>6
    <2> QED
      BY <2>1, <2>2, <2>7
  <1> QED
    BY <1>1, <1>2 DEF Return

LEMMA ServeTypes ==
  ASSUME TypeOK, NEW i \in DOMAIN queue
  PROVE  Serve(queue, i) \in Seq(Pending) /\ DOMAIN Serve(queue, i) = DOMAIN queue
PROOF
  <1>1. queue \in Seq(Pending)
    BY DEF TypeOK
  <1>2. [queue[i] EXCEPT !.served = TRUE] \in Pending
    <2>1. \A e \in Pending : [e EXCEPT !.served = TRUE] \in Pending
      BY DEF Pending
    <2> QED
      BY <1>1, <2>1
  <1>3. Serve(queue, i) = [queue EXCEPT ![i] = [queue[i] EXCEPT !.served = TRUE]]
    BY DEF Serve
  <1> QED
    BY <1>1, <1>2, <1>3

(* A tick keeps the types and the ledger, whatever the controller holds.     *)
LEMMA TickKeeps ==
  ASSUME TypeOK, Ticks
  PROVE  SimTyped /\ LedgerKept /\ queue' \in Seq(Pending) /\ done' \in BOOLEAN
PROOF
  <1>1. queue \in Seq(Pending)
    BY DEF TypeOK
  <1>2. Return(queue) => queue' \in Seq(Pending) /\ done' \in BOOLEAN
    BY <1>1, ReturnTypes
  <1>3. CASE Return(queue) /\ UNCHANGED <<open, issued, m_open_row, sink>>
    BY <1>2, <1>3 DEF SimTyped, LedgerKept, TypeOK
  <1>4. CASE \E i \in DOMAIN queue : Activate(i) /\ Return(queue)
    BY <1>2, <1>4, ActivateAdds
  <1>5. CASE \E i \in DOMAIN queue : Column(i) /\ Return(Serve(queue, i))
    <2>1. PICK i \in DOMAIN queue : Column(i) /\ Return(Serve(queue, i))
      BY <1>5
    <2>2. Serve(queue, i) \in Seq(Pending) /\ DOMAIN Serve(queue, i) = DOMAIN queue
      BY ServeTypes
    <2>3. queue' \in Seq(Pending) /\ done' \in BOOLEAN
      BY <2>1, <2>2, ReturnTypes
    <2>4. SimTyped /\ LedgerKept
      BY <2>1, ColumnAdds
    <2> QED
      BY <2>3, <2>4
  <1>6. CASE \E bank \in Banks : Maintains(bank) /\ Return(queue)
    BY <1>2, <1>6, MaintenanceAdds
  <1> QED
    BY <1>3, <1>4, <1>5, <1>6 DEF Ticks, Maintains

(* In a WAIT nothing is queued: the controller only maintains itself.        *)
LEMMA WaitTicks ==
  ASSUME TypeOK, resumed = 0, Orderly, pc = "wait", Ticks, Ticking
  PROVE  Orderly'
PROOF
  <1>1. queue = <<>> /\ DOMAIN queue = {} /\ Writes = 0
    BY DEF Orderly
  <1>2. Writes' = Writes /\ queue' = queue
    <2>1. CASE Return(queue) /\ UNCHANGED <<open, issued, m_open_row, sink>>
      BY <2>1, <1>1 DEF Return, Writes
    <2>2. CASE \E bank \in Banks : Maintains(bank) /\ Return(queue)
      <3>1. PICK bank \in Banks : Maintains(bank) /\ Return(queue)
        BY <2>2
      <3> QED
        BY <3>1, <1>1, MaintenanceAdds DEF Return
    <2> QED
      BY <2>1, <2>2, <1>1 DEF Ticks, Maintains
  <1> QED
    BY <1>1, <1>2 DEF Orderly, Ticking

(* In complete_request the one queued request is activated, served, called    *)
(* back, each at most once.                                                  *)
LEMMA QueueOfOne ==
  ASSUME TypeOK, NEW op, NEW served \in BOOLEAN, Held(op, served)
  PROVE  /\ DOMAIN queue = {1} /\ queue = <<queue[1]>> /\ queue[1] \in Pending
         /\ Without(queue, 1) = <<>>
         /\ Serve(queue, 1) = <<[queue[1] EXCEPT !.served = TRUE]>>
         /\ [queue[1] EXCEPT !.served = TRUE] \in Pending
PROOF
  <1>1. queue \in Seq(Pending) /\ Len(queue) = 1
    BY DEF TypeOK, Held
  <1>2. DOMAIN queue = {1} /\ queue[1] \in Pending /\ queue = <<queue[1]>>
    BY <1>1
  <1>3. Without(queue, 1) = <<>>
    BY <1>1 DEF Without
  <1>4. Serve(queue, 1) = <<[queue[1] EXCEPT !.served = TRUE]>>
    <2>1. Serve(queue, 1) = [queue EXCEPT ![1] = [queue[1] EXCEPT !.served = TRUE]]
      BY <1>1 DEF Serve
    <2> QED
      BY <1>2, <2>1
  <1>5. [queue[1] EXCEPT !.served = TRUE] \in Pending
    BY <1>2 DEF Pending
  <1> QED
    BY <1>2, <1>3, <1>4, <1>5

LEMMA BusyTicks ==
  ASSUME TypeOK, resumed = 0, Orderly, Looping, Ticks, Ticking
  PROVE  Orderly'
PROOF
  <1>1. pc = "busy" /\ ~done
    BY DEF Looping
  <1>2. PICK served \in BOOLEAN :
          Held(req.op, served) /\ Writes = IF served THEN Due(req.op) ELSE 0
    BY <1>1 DEF Orderly
  <1>3. DOMAIN queue = {1} /\ queue[1] \in Pending /\ queue[1].live
        /\ queue[1].op = req.op /\ queue[1].served = served
    BY <1>2, QueueOfOne DEF Held
  <1>4. Due(req.op) \in Nat
    BY DEF Due
  <1>5. \/ /\ queue' = queue /\ done' = done
           /\ Writes' = Writes
        \/ /\ queue' = <<>> /\ done' = TRUE /\ served
           /\ Writes' = Writes
        \/ /\ queue' = <<[queue[1] EXCEPT !.served = TRUE]>> /\ done' = done /\ ~served
           /\ Writes' = Writes + Due(req.op)
    <2>1. ASSUME Return(queue)
          PROVE  \/ queue' = queue /\ done' = done
                 \/ queue' = <<>> /\ done' = TRUE /\ served
      BY <2>1, <1>2, <1>3, QueueOfOne DEF Return, Callback
    <2>2. CASE Return(queue) /\ UNCHANGED <<open, issued, m_open_row, sink>>
      <3>1. Writes' = Writes
        BY <2>2 DEF Writes
      <3> QED
        BY <2>1, <2>2, <3>1
    <2>3. CASE \E i \in DOMAIN queue : Activate(i) /\ Return(queue)
      BY <2>1, <2>3, ActivateAdds
    <2>4. CASE \E i \in DOMAIN queue : Column(i) /\ Return(Serve(queue, i))
      <3>1. Column(1) /\ Return(Serve(queue, 1))
        BY <2>4, <1>3
      <3>2. ~served
        BY <3>1, <1>3 DEF Column
      <3>3. queue' = Serve(queue, 1) /\ done' = done
        BY <3>1, <3>2, <1>3 DEF Return
      <3> QED
        BY <3>1, <3>2, <3>3, <1>2, <1>3, QueueOfOne, ColumnAdds
    <2>5. CASE \E bank \in Banks : Maintains(bank) /\ Return(queue)
      BY <2>1, <2>5, MaintenanceAdds
    <2> QED
      BY <2>2, <2>3, <2>4, <2>5 DEF Ticks, Maintains
  <1>6. pc' = "busy" /\ req' = req
    BY <1>1 DEF Ticking
  <1>7. CASE queue' = queue /\ done' = done /\ Writes' = Writes
    BY <1>7, <1>1, <1>2, <1>6 DEF Orderly, Held
  <1>8. CASE queue' = <<>> /\ done' = TRUE /\ served /\ Writes' = Writes
    BY <1>8, <1>1, <1>2, <1>6 DEF Orderly
  <1>9. CASE /\ queue' = <<[queue[1] EXCEPT !.served = TRUE]>> /\ done' = done /\ ~served
             /\ Writes' = Writes + Due(req.op)
    <2>1. Writes' = Due(req.op)
      BY <1>9, <1>2, <1>4
    <2>2. Held(req.op, TRUE)'
      BY <1>9, <1>3, <1>6 DEF Held, Pending
    <2> QED
      BY <1>9, <2>1, <2>2, <1>1, <1>6 DEF Orderly
  <1> QED
    BY <1>5, <1>7, <1>8, <1>9

-----------------------------------------------------------------------------
(* Requests and responses.                                                   *)

LEMMA ReturnIsTyped ==
  ASSUME TypeOK, Leave
  PROVE  queue' \in Seq(Pending) /\ (queue = <<>> => queue' = <<>>)
PROOF
  <1>1. queue \in Seq(Pending) /\ DOMAIN queue = 1 .. Len(queue) /\ Len(queue) \in Nat
    BY DEF TypeOK
  <1>2. \A i \in 1 .. Len(queue) : [queue[i] EXCEPT !.live = FALSE] \in Pending
    <2>1. \A e \in Pending : [e EXCEPT !.live = FALSE] \in Pending
      BY DEF Pending
    <2> QED
      BY <1>1, <2>1
  <1>3. queue' = [i \in 1 .. Len(queue) |-> [queue[i] EXCEPT !.live = FALSE]]
    BY <1>1 DEF Leave
  <1>4. queue' \in Seq(Pending)
    BY <1>1, <1>2, <1>3
  <1> QED
    BY <1>1, <1>3, <1>4

(* A response that does not drain the sink: only the session has to be told.  *)
LEMMA SilentResponse ==
  ASSUME IInv, NEW code \in Codes, NEW op \in {"none", "RD", "WR"}, code # "OK",
         Respond(code, op, <<>>), queue' \in Seq(Pending),
         UNCHANGED <<open, issued, m_open_row, sink, bytes_, counters, resumed>>,
         pc = "idle" => queue' = queue /\ ~over,
         pc # "idle" => code = "INTERNAL_SIMULATOR_ERROR"
  PROVE  Keeps
PROOF
  <1>1. TypeOK /\ Ledger /\ Progress
    BY DEF IInv
  <1>2. /\ pc' = "idle" /\ req' = NoReq /\ done' = FALSE /\ left' = 0
        /\ reply' = [code |-> code, op |-> op, writes |-> 0]
        /\ over' = Ends(code, op, <<>>)
    BY CountEmpty DEF Respond
  <1>3. over' \in BOOLEAN /\ (code = "INTERNAL_SIMULATOR_ERROR" => over')
    BY <1>2 DEF Ends, TERMINAL_ERROR_CODES
  <1>4. reply' \in [code : Codes, op : {"none", "peek", "RD", "WR", "WAIT"}, writes : Nat]
    BY <1>2
  <1>5. TypeOK'
    BY <1>1, <1>2, <1>3, <1>4 DEF TypeOK
  <1>6. Ledger'
    BY <1>1 DEF Ledger
  <1>7. Progress'
    <2>1. CASE pc = "idle"
      BY <2>1, <1>1, <1>2 DEF Progress, Orderly
    <2>2. CASE pc # "idle"
      BY <2>2, <1>2, <1>3 DEF Progress, Orderly
    <2> QED
      BY <2>1, <2>2
  <1>8. OneWriteEvent'
    BY <1>2 DEF OneWriteEvent
  <1> QED
    BY <1>5, <1>6, <1>7, <1>8 DEF Keeps

(* A response that drains the sink: all of it is counted, and on an orderly   *)
(* worker the request's one WR is in it.                                     *)
LEMMA DrainingResponse ==
  ASSUME IInv, NEW op \in {"RD", "WR", "WAIT"}, NEW counts,
         counts \in [reads : Nat, writes : Nat, acts : Nat, refreshes : Nat],
         counts.acts = counters.acts, counts.refreshes = counters.refreshes,
         counters' = Told(counts), sink' = Drained, Respond("OK", op, sink),
         resumed = 0 => Writes = Due(op) /\ queue' = <<>>, queue' \in Seq(Pending),
         UNCHANGED <<open, issued, m_open_row, resumed>>,
         bytes_' \subseteq 0 .. Capacity - 1
  PROVE  Keeps
PROOF
  <1>1. TypeOK /\ Ledger
    BY DEF IInv
  <1>2. /\ pc' = "idle" /\ req' = NoReq /\ done' = FALSE /\ left' = 0
        /\ reply' = [code |-> "OK", op |-> op, writes |-> Writes]
        /\ over' = Ends("OK", op, sink)
        /\ sink' = <<>>
    BY DEF Respond, Drained, Writes
  <1>3. /\ CountOf(sink, {"ACT"}) \in Nat /\ CountOf(sink, {"REFab"}) \in Nat
        /\ Writes \in Nat
    BY <1>1, CountIsNat DEF TypeOK, Writes
  <1>4. /\ counters' \in [reads : Nat, writes : Nat, acts : Nat, refreshes : Nat]
        /\ counters'.acts = counters.acts + CountOf(sink, {"ACT"})
        /\ counters'.refreshes = counters.refreshes + CountOf(sink, {"REFab"})
    <2> DEFINE m == CountOf(sink, {"ACT"})  n == CountOf(sink, {"REFab"})
               c == [counts EXCEPT !.acts = @ + m]
               d == [c EXCEPT !.refreshes = @ + n]
    <2>1. m \in Nat /\ n \in Nat
      BY <1>3
    <2>2. counters' = d
      BY DEF Told
    <2> HIDE DEF m, n
    <2>3. /\ c \in [reads : Nat, writes : Nat, acts : Nat, refreshes : Nat]
          /\ c.acts = counts.acts + m /\ c.refreshes = counts.refreshes
      BY <2>1
    <2> HIDE DEF c
    <2>4. /\ d \in [reads : Nat, writes : Nat, acts : Nat, refreshes : Nat]
          /\ d.acts = c.acts /\ d.refreshes = c.refreshes + n
      <3>1. c.refreshes \in Nat /\ c.refreshes + n \in Nat
        BY <2>1, <2>3
      <3> QED
        BY <2>3, <3>1
    <2> QED
      BY <2>2, <2>3, <2>4 DEF m, n
  <1>5. over' \in BOOLEAN
    BY <1>2 DEF Ends
  <1>6. reply' \in [code : Codes, op : {"none", "peek", "RD", "WR", "WAIT"}, writes : Nat]
    BY <1>2, <1>3 DEF Codes
  <1>7. sink' \in Seq(Event)
    BY <1>2
  <1>8. TypeOK'
    BY <1>1, <1>2, <1>4, <1>5, <1>6, <1>7 DEF TypeOK
  <1>9. Ledger'
    <2>1. CountOf(sink', {"ACT"}) = 0 /\ CountOf(sink', {"REFab"}) = 0
      BY <1>2, CountEmpty
    <2>2. counters'.acts \in Nat /\ counters'.refreshes \in Nat
      BY <1>4
    <2> QED
      BY <1>1, <1>4, <2>1, <2>2 DEF Ledger
  <1>10. Progress'
    BY <1>2 DEF Progress, Orderly
  <1>11. OneWriteEvent'
    BY <1>2 DEF OneWriteEvent, Due
  <1> QED
    BY <1>8, <1>9, <1>10, <1>11 DEF Keeps

LEMMA CompletionKeeps ==
  ASSUME SessionBounds, IInv, CompleteRead \/ CompleteWrite \/ WaitDone
  PROVE  Keeps
PROOF
  <1>1. TypeOK /\ Ledger /\ Progress
    BY DEF IInv
  <1>2. /\ counters \in [reads : Nat, writes : Nat, acts : Nat, refreshes : Nat]
        /\ bytes_ \subseteq 0 .. Capacity - 1
    BY <1>1 DEF TypeOK
  <1>3. CASE CompleteRead
    <2> DEFINE counts == [counters EXCEPT !.reads = @ + 1]
    <2>1. /\ counts \in [reads : Nat, writes : Nat, acts : Nat, refreshes : Nat]
          /\ counts.acts = counters.acts /\ counts.refreshes = counters.refreshes
      BY <1>2
    <2>2. (resumed = 0 => Writes = Due("RD") /\ queue' = <<>>) /\ queue' \in Seq(Pending)
      BY <1>1, <1>3, ReturnIsTyped DEF CompleteRead, Progress, Orderly
    <2> HIDE DEF counts
    <2>3. counters' = Told(counts) /\ sink' = Drained /\ Respond("OK", "RD", sink)
          /\ UNCHANGED <<open, issued, m_open_row, bytes_, resumed>>
      BY <1>3 DEF CompleteRead, counts
    <2> QED
      BY <1>2, <2>1, <2>2, <2>3, DrainingResponse
  <1>4. CASE CompleteWrite
    <2> DEFINE counts == [counters EXCEPT !.writes = @ + 1]
    <2>1. /\ counts \in [reads : Nat, writes : Nat, acts : Nat, refreshes : Nat]
          /\ counts.acts = counters.acts /\ counts.refreshes = counters.refreshes
      BY <1>2
    <2>2. (resumed = 0 => Writes = Due("WR") /\ queue' = <<>>) /\ queue' \in Seq(Pending)
      BY <1>1, <1>4, ReturnIsTyped DEF CompleteWrite, Progress, Orderly
    <2>3. bytes_' \subseteq 0 .. Capacity - 1
      <3>1. req \in Request /\ in_domain(req.addr, req.len)
        BY <1>1, <1>4 DEF CompleteWrite, Progress
      <3>2. req.addr \in 0 .. Capacity - 1 /\ req.len \in 1 .. tx_bytes
        BY <3>1 DEF Request, SessionBounds
      <3>3. \A k \in 0 .. req.len : (req.addr + k) % Word = req.addr + k
        <4> TAKE k \in 0 .. req.len
        <4>1. req.addr \in Nat /\ k \in Nat /\ Word \in Nat
          BY <3>2, GeometryAssumption
        <4>2. req.addr + k < Word
          BY <3>2, <4>1, GeometryAssumption
        <4> QED
          BY <4>1, <4>2, SmallModulo
      <3>4. req.addr + req.len <= Capacity
        <4>1. req.len \in 0 .. req.len
          BY <3>2, GeometryAssumption
        <4> QED
          BY <3>1, <3>3, <4>1 DEF in_domain
      <3>5. \A k \in 0 .. req.len - 1 : (req.addr + k) % Word \in 0 .. Capacity - 1
        <4> TAKE k \in 0 .. req.len - 1
        <4>1. k \in 0 .. req.len /\ req.addr + k \in 0 .. Capacity - 1
          BY <3>2, <3>4, GeometryAssumption
        <4> QED
          BY <3>3, <4>1
      <3>6. Bytes(req) \subseteq 0 .. Capacity - 1
        BY <3>5 DEF Bytes
      <3> QED
        BY <1>2, <1>4, <3>6 DEF CompleteWrite
    <2> HIDE DEF counts
    <2>4. counters' = Told(counts) /\ sink' = Drained /\ Respond("OK", "WR", sink)
          /\ UNCHANGED <<open, issued, m_open_row, resumed>>
      BY <1>4 DEF CompleteWrite, counts
    <2> QED
      BY <2>1, <2>2, <2>3, <2>4, DrainingResponse
  <1>5. CASE WaitDone
    <2>1. (resumed = 0 => Writes = Due("WAIT") /\ queue' = <<>>) /\ queue' \in Seq(Pending)
      BY <1>1, <1>5 DEF WaitDone, Progress, Orderly, Due, TypeOK
    <2>2. counters' = Told(counters) /\ sink' = Drained /\ Respond("OK", "WAIT", sink)
          /\ UNCHANGED <<open, issued, m_open_row, bytes_, resumed>>
      BY <1>5 DEF WaitDone
    <2> QED
      BY <1>2, <2>1, <2>2, DrainingResponse
  <1> QED
    BY <1>3, <1>4, <1>5

LEMMA RefusalKeeps ==
  ASSUME IInv, Refuse \/ Expire \/ \E r \in Request : QueueFull(r)
  PROVE  Keeps
PROOF
  <1>1. TypeOK /\ queue \in Seq(Pending)
    BY DEF IInv, TypeOK
  <1>2. CASE Refuse
    <2>1. PICK code \in Codes, op \in {"none", "RD", "WR"} : code # "OK" /\ Respond(code, op, <<>>)
      <3>1. \A r \in Request : r.op \in {"RD", "WR"}
        BY DEF Request
      <3> QED
        BY <1>2, <3>1 DEF Refuse, Codes
    <2> QED
      BY <1>1, <1>2, <2>1, SilentResponse DEF Refuse, Ready
  <1>3. CASE Expire
    <2>1. req.op \in {"RD", "WR"} /\ pc # "idle"
      BY <1>3 DEF Expire, IInv, Progress, Request
    <2>2. queue' \in Seq(Pending)
      BY <1>1, <1>3, ReturnIsTyped DEF Expire
    <2>3. Respond("INTERNAL_SIMULATOR_ERROR", req.op, <<>>)
          /\ UNCHANGED <<open, issued, m_open_row, sink, bytes_, counters, resumed>>
      BY <1>3 DEF Expire
    <2> QED
      BY <2>1, <2>2, <2>3, SilentResponse DEF Codes
  <1>4. CASE \E r \in Request : QueueFull(r)
    <2>1. PICK r \in Request : QueueFull(r)
      BY <1>4
    <2>2. r.op \in {"RD", "WR"}
      BY DEF Request
    <2>3. Respond("QUEUE_FULL", r.op, <<>>) /\ pc = "idle" /\ ~over
          /\ UNCHANGED <<queue, open, issued, m_open_row, sink, bytes_, counters, resumed>>
      BY <2>1 DEF QueueFull, Admitted, Ready
    <2> QED
      BY <1>1, <2>2, <2>3, SilentResponse DEF Codes
  <1> QED
    BY <1>2, <1>3, <1>4

LEMMA BeginKeeps ==
  ASSUME IInv, (\E r \in Request : Submit(r)) \/ (\E n \in WaitCycles : Wait(n))
  PROVE  Keeps
PROOF
  <1>1. TypeOK /\ Ledger /\ Progress /\ OneWriteEvent
    BY DEF IInv
  <1>2. CASE \E r \in Request : Submit(r)
    <2>1. PICK r \in Request : Submit(r)
      BY <1>2
    <2> DEFINE entry == [op |-> r.op, addr |-> r.addr, served |-> FALSE, live |-> TRUE]
    <2>2. /\ resumed = 0 => queue = <<>> /\ sink = <<>>
          /\ ~over /\ in_domain(r.addr, r.len) /\ queue \in Seq(Pending)
      BY <1>1, <2>1 DEF Submit, Admitted, Ready, Progress, Orderly, TypeOK
    <2>3. entry \in Pending /\ entry.live /\ entry.op = r.op /\ entry.served = FALSE
      BY DEF Request, Pending
    <2>4. queue' = Append(queue, entry) /\ pc' = "busy" /\ req' = r /\ done' = FALSE
          /\ left' = Deadline
          /\ UNCHANGED <<open, issued, m_open_row, sink, bytes_, counters, reply, over, resumed>>
      BY <2>1 DEF Submit
    <2> HIDE DEF entry
    <2>5. queue' \in Seq(Pending)
      BY <2>2, <2>3, <2>4
    <2>6. TypeOK'
      BY <1>1, <2>4, <2>5, BoundsAssumption DEF TypeOK
    <2>7. resumed = 0 => Held(req.op, FALSE)' /\ Writes' = 0
      <3>1. SUFFICES ASSUME resumed = 0 PROVE Held(req.op, FALSE)' /\ Writes' = 0
        OBVIOUS
      <3>2. queue' = <<entry>> /\ Len(queue') = 1 /\ queue'[1] = entry
        BY <2>2, <2>3, <2>4, <3>1
      <3> QED
        BY <2>2, <2>3, <2>4, <3>1, <3>2, CountEmpty DEF Held, Writes
    <2>8. Progress'
      BY <2>2, <2>4, <2>7 DEF Progress, Orderly
    <2>9. Ledger' /\ OneWriteEvent'
      BY <1>1, <2>4 DEF Ledger, OneWriteEvent
    <2> QED
      BY <2>6, <2>8, <2>9 DEF Keeps
  <1>3. CASE \E n \in WaitCycles : Wait(n)
    <2>1. PICK n \in WaitCycles : Wait(n)
      BY <1>3
    <2>2. (resumed = 0 => queue = <<>> /\ sink = <<>>) /\ ~over
      BY <1>1, <2>1 DEF Wait, Ready, Progress, Orderly
    <2>3. pc' = "wait" /\ req' = [NoReq EXCEPT !.op = "WAIT"] /\ left' = n
          /\ UNCHANGED <<done, queue, open, issued, m_open_row, sink, bytes_, counters, reply,
                         over, resumed>>
      BY <2>1 DEF Wait
    <2>4. TypeOK'
      BY <1>1, <2>3, BoundsAssumption DEF TypeOK
    <2>5. Progress'
      BY <2>2, <2>3, CountEmpty DEF Progress, Orderly, Writes
    <2>6. Ledger' /\ OneWriteEvent'
      BY <1>1, <2>3 DEF Ledger, OneWriteEvent
    <2> QED
      BY <2>4, <2>5, <2>6 DEF Keeps
  <1> QED
    BY <1>2, <1>3

(* A worker that has just started has counted nothing and holds nothing.     *)
LEMMA FreshIsGood ==
  ASSUME pc' = "idle", req' = NoReq, done' = FALSE, left' = 0, queue' = <<>>,
         open' = [b \in Banks |-> NoRow], issued' = [acts |-> 0, refreshes |-> 0],
         m_open_row' = [f \in Flats |-> NoRow], sink' = <<>>, bytes_' = {},
         counters' = [reads |-> 0, writes |-> 0, acts |-> 0, refreshes |-> 0],
         reply' = [code |-> "OK", op |-> "none", writes |-> 0], over' = FALSE,
         resumed' = 0
  PROVE  Keeps
PROOF
  <1>1. TypeOK'
    <2>1. /\ reply' \in [code : Codes, op : {"none", "peek", "RD", "WR", "WAIT"}, writes : Nat]
          /\ queue' \in Seq(Pending) /\ sink' \in Seq(Event)
      BY DEF Codes
    <2>2. /\ counters' \in [reads : Nat, writes : Nat, acts : Nat, refreshes : Nat]
          /\ issued' \in [acts : Nat, refreshes : Nat]
      OBVIOUS
    <2>3. /\ open' \in [Banks -> Rows \cup {NoRow}]
          /\ m_open_row' \in [Flats -> Rows \cup {NoRow}]
      OBVIOUS
    <2> QED
      BY <2>1, <2>2, <2>3 DEF TypeOK
  <1>2. Ledger'
    BY CountEmpty DEF Ledger
  <1>3. Progress'
    BY DEF Progress, Orderly
  <1>4. OneWriteEvent'
    BY DEF OneWriteEvent
  <1> QED
    BY <1>1, <1>2, <1>3, <1>4 DEF Keeps

LEMMA InitIsGood == Init => IInv
PROOF
  <1> SUFFICES ASSUME Init PROVE IInv
    OBVIOUS
  <1> USE DEF Init
  <1>1. TypeOK
    <2>1. /\ reply \in [code : Codes, op : {"none", "peek", "RD", "WR", "WAIT"}, writes : Nat]
          /\ queue \in Seq(Pending) /\ sink \in Seq(Event)
      BY DEF Codes
    <2>2. /\ counters \in [reads : Nat, writes : Nat, acts : Nat, refreshes : Nat]
          /\ issued \in [acts : Nat, refreshes : Nat]
      OBVIOUS
    <2>3. /\ open \in [Banks -> Rows \cup {NoRow}]
          /\ m_open_row \in [Flats -> Rows \cup {NoRow}]
      OBVIOUS
    <2> QED
      BY <2>1, <2>2, <2>3 DEF TypeOK
  <1>2. Ledger
    BY CountEmpty DEF Ledger
  <1>3. Progress
    BY DEF Progress, Orderly
  <1>4. OneWriteEvent
    BY DEF OneWriteEvent
  <1> QED
    BY <1>1, <1>2, <1>3, <1>4 DEF IInv

LEMMA NextKeeps == ASSUME SessionBounds PROVE IInv /\ [Next]_vars => IInv'
PROOF
  <1> SUFFICES ASSUME IInv, [Next]_vars PROVE Keeps
    BY DEF Keeps, IInv
  <1>1. CASE tick
    <2>1. TypeOK /\ Ledger /\ Progress /\ OneWriteEvent /\ Ticks /\ Ticking
      BY <1>1 DEF IInv, tick, Ticking
    <2>2. SimTyped /\ LedgerKept /\ queue' \in Seq(Pending) /\ done' \in BOOLEAN
      BY <2>1, TickKeeps
    <2>3. TypeOK'
      BY <2>1, <2>2, TickTypes
    <2>4. Ledger'
      BY <2>1, <2>2, LedgerFollows DEF Ticking
    <2>5. resumed = 0 => Orderly'
      BY <1>1, <2>1, BusyTicks, WaitTicks DEF tick, Progress
    <2>6. Progress' /\ OneWriteEvent'
      BY <2>1, <2>5 DEF Progress, OneWriteEvent, Ticking
    <2> QED
      BY <2>3, <2>4, <2>6 DEF Keeps
  <1>2. CASE CompleteRead \/ CompleteWrite \/ WaitDone
    BY <1>2, CompletionKeeps
  <1>3. CASE Refuse \/ Expire \/ \E r \in Request : QueueFull(r)
    BY <1>3, RefusalKeeps
  <1>4. CASE (\E r \in Request : Submit(r)) \/ (\E n \in WaitCycles : Wait(n))
    BY <1>4, BeginKeeps
  <1>5. CASE Restart
    BY <1>5, FreshIsGood DEF Restart
  <1>6. CASE Peek
    <2>1. TypeOK /\ Ledger /\ Progress
      BY DEF IInv
    <2>2. pc = "idle" /\ reply' = [code |-> "OK", op |-> "peek", writes |-> 0]
          /\ UNCHANGED <<pc, req, done, left, queue, open, issued, m_open_row, sink, bytes_,
                         counters, over, resumed>>
      BY <1>6 DEF Peek
    <2>3. TypeOK'
      BY <2>1, <2>2 DEF TypeOK, Codes
    <2>4. Ledger' /\ Progress'
      BY <2>1, <2>2 DEF Ledger, Progress, Orderly
    <2>5. OneWriteEvent'
      BY <2>2 DEF OneWriteEvent
    <2> QED
      BY <2>3, <2>4, <2>5 DEF Keeps
  <1>7. CASE UNCHANGED vars
    <2>1. TypeOK'
      BY <1>7 DEF vars, IInv, TypeOK
    <2>2. Ledger'
      BY <1>7 DEF vars, IInv, Ledger
    <2>3. Progress' /\ OneWriteEvent'
      BY <1>7 DEF vars, IInv, Progress, Orderly, OneWriteEvent, Held, Writes
    <2> QED
      BY <2>1, <2>2, <2>3 DEF Keeps
  <1>8. CASE ResetRaises
    <2>1. resumed' \in Nat /\ resumed' # 0 /\ pc' = "idle" /\ over' = FALSE
      BY <1>8 DEF ResetRaises, IInv, TypeOK
    <2>2. TypeOK'
      BY <1>8, <2>1, Zenon DEF ResetRaises, IInv, TypeOK
    <2>3. Ledger'
      BY <1>8 DEF ResetRaises, IInv, Ledger
    <2>4. Progress' /\ OneWriteEvent'
      BY <2>1 DEF Progress, OneWriteEvent
    <2> QED
      BY <2>2, <2>3, <2>4 DEF Keeps
  <1> QED
    BY <1>1, <1>2, <1>3, <1>4, <1>5, <1>6, <1>7, <1>8 DEF Next, Handles

-----------------------------------------------------------------------------
(* The inductive invariant holds in every reachable state.                   *)
THEOREM InStep == ASSUME SessionBounds PROVE Spec => []IInv
PROOF
  BY InitIsGood, NextKeeps, PTL DEF Spec

(* Every variable keeps its type; the functional memory holds no address      *)
(* outside the device (in_domain).                                           *)
THEOREM TypeCorrect == ASSUME SessionBounds PROVE Spec => []TypeOK
PROOF
  <1>1. IInv => TypeOK
    BY DEF IInv
  <1> QED
    BY <1>1, InStep, PTL

(* Two addresses of the functional memory never share a cell (capacity).      *)
THEOREM AddressesAreCells == ASSUME SessionBounds PROVE Spec => []NoAlias
PROOF
  <1>1. TypeOK => NoAlias
    <2> SUFFICES ASSUME TypeOK, NEW a \in bytes_, NEW b \in bytes_, Loc(a) = Loc(b)
                 PROVE  a = b
      BY DEF NoAlias
    <2>1. a \in 0 .. Capacity - 1 /\ b \in 0 .. Capacity - 1
      BY DEF TypeOK
    <2> QED
      BY <2>1, InsideIsExact
  <1> QED
    BY <1>1, TypeCorrect, PTL

(* While the simulator ticks, every queued request's caller is still running, *)
(* unless a reset that raised has put the session back on the worker of a     *)
(* request that missed its deadline (complete_request).                      *)
THEOREM CallbacksHaveCallers == ASSUME SessionBounds PROVE Spec => []NoDanglingCallback
PROOF
  <1>1. IInv => NoDanglingCallback
    <2> SUFFICES ASSUME IInv, pc # "idle", resumed = 0, NEW i \in DOMAIN queue
                 PROVE  queue[i].live
      BY DEF NoDanglingCallback
    <2>1. Orderly /\ TypeOK /\ pc \in {"busy", "wait"}
      BY DEF IInv, Progress, TypeOK
    <2>2. CASE queue = <<>>
      BY <2>2
    <2>3. CASE \E served \in BOOLEAN : Held(req.op, served)
      <3>1. PICK served \in BOOLEAN : Held(req.op, served)
        BY <2>3
      <3>2. DOMAIN queue = {1}
        BY <2>1, <3>1, QueueOfOne
      <3> QED
        BY <3>1, <3>2 DEF Held
    <2> QED
      BY <2>1, <2>2, <2>3 DEF Orderly
  <1> QED
    BY <1>1, InStep, PTL

(* Every write's response reports exactly its own WR command, on a worker no  *)
(* reset that raised has put the session back on (_from_worker).             *)
THEOREM WritesReportThemselves == ASSUME SessionBounds PROVE Spec => []OneWriteEvent
PROOF
  <1>1. IInv => OneWriteEvent
    BY DEF IInv
  <1> QED
    BY <1>1, InStep, PTL

(* Every activation and refresh is counted or still to be reported, on any    *)
(* worker; between requests of a live session a reset began, it is counted   *)
(* (ok_json).                                                                *)
THEOREM NothingIsUnreported == ASSUME SessionBounds PROVE Spec => []SessionSeesAll
PROOF
  <1>1. IInv => SessionSeesAll
    BY DEF IInv, Ledger, Progress, Orderly, SessionSeesAll
  <1> QED
    BY <1>1, InStep, PTL

-----------------------------------------------------------------------------
(* The recorder's open rows.                                                 *)

(* flat_bank_id tells the banks of the device apart: one rank, and no level   *)
(* between channel and bank group.                                           *)
FlatIsExact == \A b, c \in Banks : FlatBank[b] = FlatBank[c] => b = c

LEMMA TickTracks ==
  ASSUME FlatIsExact, TypeOK, TracksOpenRows, Ticks
  PROVE  TracksOpenRows'
PROOF
  <1>1. /\ m_open_row \in [Flats -> Rows \cup {NoRow}]
        /\ open \in [Banks -> Rows \cup {NoRow}]
        /\ \A b \in Banks : FlatBank[b] \in Flats
    BY DEF TypeOK, Flats
  <1>2. ASSUME NEW i \in DOMAIN queue, Activate(i) PROVE TracksOpenRows'
    <2> DEFINE bank == BankRow(i)[1]  row == BankRow(i)[2]
    <2>1. bank \in Banks
      BY BankRowIsTyped
    <2>2. open' = [open EXCEPT ![bank] = row] /\ on_issue("ACT", bank, row)
      BY <1>2 DEF Activate
    <2> HIDE DEF bank, row
    <2>3. m_open_row' = [m_open_row EXCEPT ![FlatBank[bank]] = row]
      BY <2>2 DEF on_issue, Recorded, is_opening, closes
    <2> QED
      BY <1>1, <2>1, <2>2, <2>3 DEF TracksOpenRows, FlatIsExact
  <1>3. ASSUME NEW i \in DOMAIN queue, Column(i) PROVE TracksOpenRows'
    <2>1. queue[i].op \in {"RD", "WR"}
      BY BankRowIsTyped DEF Pending
    <2>2. open' = open /\ m_open_row' = m_open_row
      BY <1>3, <2>1 DEF Column, on_issue, Recorded, is_opening, closes
    <2> QED
      BY <2>2 DEF TracksOpenRows
  <1>4. ASSUME NEW bank \in Banks, Precharge(bank) PROVE TracksOpenRows'
    <2>1. /\ open' = [open EXCEPT ![bank] = NoRow]
          /\ m_open_row' = [m_open_row EXCEPT ![FlatBank[bank]] = NoRow]
      BY <1>4 DEF Precharge, on_issue, Recorded, is_opening, closes, all_banks
    <2> QED
      BY <1>1, <2>1 DEF TracksOpenRows, FlatIsExact
  <1>5. ASSUME NEW bank \in Banks, PrechargeAll(bank) PROVE TracksOpenRows'
    <2>1. open' = [b \in Banks |-> NoRow] /\ m_open_row' = [f \in Flats |-> NoRow]
      BY <1>5 DEF PrechargeAll, on_issue, Recorded, is_opening, closes, all_banks
    <2> QED
      BY <1>1, <2>1 DEF TracksOpenRows
  <1>6. ASSUME NEW bank \in Banks, Refresh(bank) PROVE TracksOpenRows'
    <2>1. open' = open /\ m_open_row' = [f \in Flats |-> NoRow]
          /\ \A b \in Banks : open[b] = NoRow
      BY <1>6 DEF Refresh, on_issue, Recorded, is_opening, closes, all_banks
    <2> QED
      BY <1>1, <2>1 DEF TracksOpenRows
  <1>7. CASE UNCHANGED <<open, issued, m_open_row, sink>>
    BY <1>7 DEF TracksOpenRows
  <1> QED
    BY <1>2, <1>3, <1>4, <1>5, <1>6, <1>7 DEF Ticks

(* If flat_bank_id tells the banks apart, the recorder opens and closes rows  *)
(* the way the device does (on_issue).                                       *)
THEOREM RecorderTracks ==
  ASSUME SessionBounds, FlatIsExact PROVE Spec => []TracksOpenRows
PROOF
  <1>1. Init => TracksOpenRows
    BY DEF Init, TracksOpenRows, Flats
  <1>2. TypeOK /\ TracksOpenRows /\ [Next]_vars => TracksOpenRows'
    <2> SUFFICES ASSUME TypeOK, TracksOpenRows, [Next]_vars PROVE TracksOpenRows'
      OBVIOUS
    <2>1. CASE tick
      BY <2>1, TickTracks DEF tick
    <2>2. CASE Restart
      BY <2>2 DEF Restart, TracksOpenRows, Flats
    <2>3. CASE UNCHANGED <<open, m_open_row>>
      BY <2>3 DEF TracksOpenRows
    <2>4. ASSUME Next \/ UNCHANGED vars, ~tick, ~Restart PROVE UNCHANGED <<open, m_open_row>>
      BY <2>4 DEF Next, Handles, vars, CompleteRead, CompleteWrite, Expire, WaitDone, Refuse,
                  Peek, Submit, QueueFull, Wait, ResetRaises
    <2> QED
      BY <2>1, <2>2, <2>3, <2>4
  <1> QED
    BY <1>1, <1>2, TypeCorrect, PTL DEF Spec

=============================================================================
