------------------------------- MODULE Worker -------------------------------
(***************************************************************************)
(* One ramulator_worker process and the session that drives it: from        *)
(* cpp/simulator_service/ramulator_worker.cpp, the recorder plugin in        *)
(* cpp/ramulator_extensions/issued_event_recorder.{h,cpp}, and the session's  *)
(* rule for errors in rowhammer_env/phase2_env.py.                           *)
(*                                                                         *)
(* The DRAM controller is Ramulator, which is not in the repository: what it  *)
(* may do in a tick is nondeterministic, within what the worker relies on (a  *)
(* request's callback runs after its column command was issued, and a column *)
(* command needs its row open).  A controller request keeps a pointer to the *)
(* locals of the complete_request that made it; live says whether that        *)
(* function is still running.                                                *)
(***************************************************************************)
EXTENDS Integers, Sequences, FiniteSets

CONSTANTS
  Banks,          \* banks of the device
  Rows,           \* rows of a bank
  FlatBank,       \* flat_bank_id: the recorder's key of a bank
  BankOf, RowOf,  \* the address mapper, on the addresses of the device
  Capacity,       \* bytes of the device; a power of two
  Addr,           \* addresses of request lines
  Word,           \* the range of an address, 2^64 in the code
  tx_bytes,       \* the longest access
  WaitCycles,     \* the lengths of an ISSUE WAIT
  Deadline,       \* the deadline of a request, in ticks (200000 in the code)
  MaxRequests,    \* bound: accesses of one session, those in the controller included
  MaxActs,        \* bound: activations of one session
  MaxRefs,        \* bound: refreshes of one session
  MaxResumes      \* bound: resets that raise and put the session back on one
                  \* worker

NoRow == -1

ASSUME GeometryAssumption ==
  /\ Rows \subseteq Nat /\ Capacity \in Nat \ {0} /\ tx_bytes \in Nat \ {0}
  /\ Word \in Nat /\ Capacity + tx_bytes <= Word /\ Addr \subseteq 0 .. Word - 1
  /\ BankOf \in [0 .. Capacity - 1 -> Banks]
  /\ RowOf \in [0 .. Capacity - 1 -> Rows]
  /\ DOMAIN FlatBank = Banks
ASSUME BoundsAssumption ==
  /\ Deadline \in Nat \ {0} /\ WaitCycles \subseteq Nat
  /\ MaxRequests \in Nat /\ MaxActs \in Nat /\ MaxRefs \in Nat /\ MaxResumes \in Nat

VARIABLES
  pc,          \* "idle" between requests, "busy" in complete_request, "wait" in
               \* the loop of ISSUE WAIT
  req,         \* the request line being handled
  done,        \* the local done of the running complete_request
  left,        \* ticks left to the deadline, or of the WAIT
  queue,       \* requests the controller holds
  open,        \* the device's open rows
  issued,      \* what the device has issued: activations and refreshes
  m_open_row,  \* the recorder's idea of the open rows
  sink,        \* IssuedEventSink: commands not yet reported
  bytes_,      \* addresses of the functional memory that were written
  counters,    \* reads_, writes_, acts_, refreshes_
  reply,       \* the last response line: code, request and its WR events
  over,        \* the session's episode has ended
  resumed      \* (history) how often a reset that raised has put the session back
               \* on this worker after its episode had ended

simVars == <<queue, open, issued, m_open_row>>
vars == <<pc, req, done, left, simVars, sink, bytes_, counters, reply, over,
          resumed>>

Flats    == {FlatBank[b] : b \in Banks}
NoReq    == [op |-> "none", addr |-> 0, len |-> 0]
Codes    == {"OK", "BAD_SCHEMA", "ILLEGAL_COMMAND", "QUEUE_FULL",
             "INTERNAL_SIMULATOR_ERROR"}
Event    == [op : {"ACT", "PRE", "PREA", "REFab", "RD", "WR"}, row_hit : BOOLEAN]
Request  == [op : {"RD", "WR"}, addr : Addr, len : 1 .. tx_bytes]
Pending  == [op : {"RD", "WR"}, addr : Addr, served : BOOLEAN, live : BOOLEAN]

(* The mapper masks each level to its width: beyond the device it aliases.   *)
Loc(a) == a % Capacity
CountOf(events, ops) == Cardinality({i \in DOMAIN events : events[i].op \in ops})

Init ==
  /\ pc = "idle" /\ req = NoReq /\ done = FALSE /\ left = 0
  /\ queue = <<>> /\ open = [b \in Banks |-> NoRow]
  /\ issued = [acts |-> 0, refreshes |-> 0]
  /\ m_open_row = [f \in Flats |-> NoRow]
  /\ sink = <<>> /\ bytes_ = {}
  /\ counters = [reads |-> 0, writes |-> 0, acts |-> 0, refreshes |-> 0]
  /\ reply = [code |-> "OK", op |-> "none", writes |-> 0]
  /\ over = FALSE /\ resumed = 0

-----------------------------------------------------------------------------
(* The recorder.  on_issue, for a command at a bank and row: what it takes    *)
(* for an open row afterwards, and the event it captures.                    *)

is_opening(op)    == op = "ACT"
is_accessing(op)  == op \in {"RD", "WR"}
all_banks(op)     == op \in {"PREA", "REFab"}   \* closing or refreshing
closes(op)        == op \in {"PRE", "PREA", "REFab"}

(* (A bug: an all-bank command closes one bank.)                             *)
RecordedForOne(op, bank, row) ==
  CASE is_opening(op) -> [m_open_row EXCEPT ![FlatBank[bank]] = row]
    [] closes(op) -> [m_open_row EXCEPT ![FlatBank[bank]] = NoRow]
    [] OTHER -> m_open_row

Recorded(op, bank, row) ==
  CASE is_opening(op) -> [m_open_row EXCEPT ![FlatBank[bank]] = row]
    [] closes(op) /\ all_banks(op) -> [f \in Flats |-> NoRow]
    [] closes(op) /\ ~all_banks(op) -> [m_open_row EXCEPT ![FlatBank[bank]] = NoRow]
    [] OTHER -> m_open_row

Captured(op, bank, row) ==
  [op |-> op, row_hit |-> is_accessing(op) /\ m_open_row[FlatBank[bank]] = row]

on_issue(op, bank, row) ==
  /\ m_open_row' = Recorded(op, bank, row)
  /\ sink' = Append(sink, Captured(op, bank, row))

-----------------------------------------------------------------------------
(* The controller (external): in one tick it issues at most one command and  *)
(* runs the callback of at most one request.                                 *)

BankRow(i) == <<BankOf[Loc(queue[i].addr)], RowOf[Loc(queue[i].addr)]>>

Activate(i) ==
  LET bank == BankRow(i)[1]  row == BankRow(i)[2] IN
  /\ ~queue[i].served /\ open[bank] = NoRow /\ issued.acts < MaxActs
  /\ on_issue("ACT", bank, row)
  /\ open' = [open EXCEPT ![bank] = row]
  /\ issued' = [issued EXCEPT !.acts = @ + 1]

Column(i) ==
  LET bank == BankRow(i)[1]  row == BankRow(i)[2] IN
  /\ ~queue[i].served /\ open[bank] = row
  /\ on_issue(queue[i].op, bank, row)
  /\ UNCHANGED <<open, issued>>

Precharge(bank) ==
  /\ open[bank] # NoRow
  /\ on_issue("PRE", bank, open[bank])
  /\ open' = [open EXCEPT ![bank] = NoRow]
  /\ UNCHANGED issued

PrechargeAll(bank) ==
  /\ open[bank] # NoRow /\ issued.refreshes < MaxRefs
  /\ on_issue("PREA", bank, NoRow)
  /\ open' = [b \in Banks |-> NoRow]
  /\ UNCHANGED issued

Refresh(bank) ==
  /\ \A b \in Banks : open[b] = NoRow
  /\ issued.refreshes < MaxRefs
  /\ on_issue("REFab", bank, NoRow)
  /\ issued' = [issued EXCEPT !.refreshes = @ + 1]
  /\ UNCHANGED open

(* The callback of complete_request writes done through a reference.  If the  *)
(* function has returned, that is a write to a dead frame, and the running    *)
(* request's done may or may not be what it hits.                            *)
Callback(i) == IF queue[i].live THEN {TRUE} ELSE {done, TRUE}

Without(q, i) == [j \in 1 .. Len(q) - 1 |-> IF j < i THEN q[j] ELSE q[j + 1]]
Serve(q, i)   == [q EXCEPT ![i].served = TRUE]

(* The rest of a tick: callbacks of requests served before this tick.        *)
Return(q) ==
  \/ queue' = q /\ UNCHANGED done
  \/ \E i \in DOMAIN queue :
       /\ queue[i].served
       /\ queue' = Without(q, i)
       /\ done' \in Callback(i)

Ticks ==
  \/ Return(queue) /\ UNCHANGED <<open, issued, m_open_row, sink>>
  \/ \E i \in DOMAIN queue : Activate(i) /\ Return(queue)
  \/ \E i \in DOMAIN queue : Column(i) /\ Return(Serve(queue, i))
  \/ \E bank \in Banks :
       /\ Precharge(bank) \/ PrechargeAll(bank) \/ Refresh(bank)
       /\ Return(queue)

-----------------------------------------------------------------------------
(* The request loop.                                                         *)

(* (A bug: only the first byte is checked.)                                  *)
StartsInDomain(a, n) == a < Capacity

(* The sum is one of unsigned words.                                         *)
in_domain(a, n) == (a + n) % Word <= Capacity

(* The error codes that end an episode, and a write's reply without exactly  *)
(* one WR event, which the session takes for a simulator failure.            *)
TERMINAL_ERROR_CODES == {"BUDGET_EXCEEDED", "INTERNAL_SIMULATOR_ERROR"}
(* (A bug: a missed deadline rejects the action only.)                       *)
Rejects(code, op, events) == code = "BUDGET_EXCEEDED"

Ends(code, op, events) ==
  \/ code \in TERMINAL_ERROR_CODES
  \/ code = "OK" /\ op = "WR" /\ CountOf(events, {"WR"}) # 1

Respond(code, op, events) ==
  /\ pc' = "idle" /\ req' = NoReq /\ done' = FALSE /\ left' = 0
  /\ reply' = [code |-> code, op |-> op, writes |-> CountOf(events, {"WR"})]
  /\ over' = Ends(code, op, events)

(* ok_json: drain the sink and count what it held.                           *)
Drained == <<>>
(* (A bug: refreshes are not counted.)                                       *)
ToldActs(counts) == [counts EXCEPT !.acts = @ + CountOf(sink, {"ACT"})]

Told(counts) ==
  [counts EXCEPT !.acts = @ + CountOf(sink, {"ACT"}),
                 !.refreshes = @ + CountOf(sink, {"REFab"})]

Ready == pc = "idle" /\ ~over

(* A line that is refused before it reaches the simulator: malformed, not     *)
(* admitted, or outside the device.                                          *)
Refuse ==
  /\ Ready
  /\ \/ \E code \in {"BAD_SCHEMA", "ILLEGAL_COMMAND"} : Respond(code, "none", <<>>)
     \/ \E r \in Request : ~in_domain(r.addr, r.len) /\ Respond("BAD_SCHEMA", r.op, <<>>)
  /\ UNCHANGED <<simVars, sink, bytes_, counters, resumed>>

(* READ ... STORED, DECODE, ENCODE and INFO: also for the reward of an        *)
(* episode that has just ended.                                              *)
Peek ==
  /\ pc = "idle"
  /\ reply' = [code |-> "OK", op |-> "peek", writes |-> 0]
  /\ UNCHANGED <<pc, req, done, left, simVars, sink, bytes_, counters, over, resumed>>

Admitted(r) ==
  /\ Ready /\ in_domain(r.addr, r.len)
  /\ counters.reads + counters.writes + Len(queue) < MaxRequests

(* receive_external_requests declines: its queue is full (external).         *)
QueueFull(r) ==
  /\ Admitted(r)
  /\ Respond("QUEUE_FULL", r.op, <<>>)
  /\ UNCHANGED <<simVars, sink, bytes_, counters, resumed>>

Submit(r) ==
  /\ Admitted(r)
  /\ pc' = "busy" /\ req' = r /\ done' = FALSE /\ left' = Deadline
  /\ queue' = Append(queue, [op |-> r.op, addr |-> r.addr, served |-> FALSE, live |-> TRUE])
  /\ UNCHANGED <<open, issued, m_open_row, sink, bytes_, counters, reply, over, resumed>>

Wait(n) ==
  /\ Ready
  /\ pc' = "wait" /\ req' = [NoReq EXCEPT !.op = "WAIT"] /\ left' = n
  /\ UNCHANGED <<done, simVars, sink, bytes_, counters, reply, over, resumed>>

(* while (!done && cycle_ < deadline) tick()                                  *)
(* (A bug: no deadline.)                                                     *)
LoopingForEver == pc = "busy" /\ ~done

Looping == pc = "busy" /\ ~done /\ left > 0

tick ==
  /\ Looping \/ (pc = "wait" /\ left > 0)
  /\ Ticks
  /\ left' = IF left > 0 THEN left - 1 ELSE 0
  /\ UNCHANGED <<pc, req, bytes_, counters, reply, over, resumed>>

(* complete_request returns: its locals are gone.                            *)
Leave == queue' = [i \in DOMAIN queue |-> [queue[i] EXCEPT !.live = FALSE]]

Bytes(r) == {(r.addr + i) % Word : i \in 0 .. r.len - 1}

CompleteRead ==
  /\ pc = "busy" /\ done /\ req.op = "RD"
  /\ Leave
  /\ counters' = Told([counters EXCEPT !.reads = @ + 1])
  /\ sink' = Drained
  /\ Respond("OK", "RD", sink)
  /\ UNCHANGED <<open, issued, m_open_row, bytes_, resumed>>

CompleteWrite ==
  /\ pc = "busy" /\ done /\ req.op = "WR"
  /\ Leave
  /\ bytes_' = bytes_ \cup Bytes(req)
  /\ counters' = Told([counters EXCEPT !.writes = @ + 1])
  /\ sink' = Drained
  /\ Respond("OK", "WR", sink)
  /\ UNCHANGED <<open, issued, m_open_row, resumed>>

Expire ==
  /\ pc = "busy" /\ ~done /\ ~Looping
  /\ Leave
  /\ Respond("INTERNAL_SIMULATOR_ERROR", req.op, <<>>)
  /\ UNCHANGED <<open, issued, m_open_row, sink, bytes_, counters, resumed>>

WaitDone ==
  /\ pc = "wait" /\ left = 0
  /\ counters' = Told(counters)
  /\ sink' = Drained
  /\ Respond("OK", "WAIT", sink)
  /\ UNCHANGED <<simVars, bytes_, resumed>>

(* reset(): the session closes this worker and starts another process.       *)
Restart ==
  /\ pc = "idle"
  /\ pc' = "idle" /\ req' = NoReq /\ done' = FALSE /\ left' = 0
  /\ queue' = <<>> /\ open' = [b \in Banks |-> NoRow]
  /\ issued' = [acts |-> 0, refreshes |-> 0]
  /\ m_open_row' = [f \in Flats |-> NoRow]
  /\ sink' = <<>> /\ bytes_' = {}
  /\ counters' = [reads |-> 0, writes |-> 0, acts |-> 0, refreshes |-> 0]
  /\ reply' = [code |-> "OK", op |-> "none", writes |-> 0]
  /\ over' = FALSE /\ resumed' = 0

(* reset() raises before it closes the worker, on a task or on a derived      *)
(* configuration: the latch is cleared and the session drives this process   *)
(* again, with what its controller holds and its sink.                       *)
ResetRaises ==
  /\ pc = "idle" /\ over /\ resumed < MaxResumes
  /\ over' = FALSE /\ resumed' = resumed + 1
  /\ UNCHANGED <<pc, req, done, left, simVars, sink, bytes_, counters, reply>>

Handles == tick \/ CompleteRead \/ CompleteWrite \/ Expire \/ WaitDone
Next ==
  \/ Handles
  \/ Refuse \/ Peek \/ Restart \/ ResetRaises
  \/ \E r \in Request : Submit(r) \/ QueueFull(r)
  \/ \E n \in WaitCycles : Wait(n)

(* The process runs its loop: a tick or a response is taken while it can be.  *)
Spec == Init /\ [][Next]_vars /\ WF_vars(Handles)

-----------------------------------------------------------------------------
(* Properties.                                                               *)

(* Types; the functional memory holds no address outside the device, also    *)
(* when an access straddles its end (in_domain).                             *)
TypeOK ==
  /\ pc \in {"idle", "busy", "wait"}
  /\ req \in Request \cup {NoReq, [NoReq EXCEPT !.op = "WAIT"]}
  /\ done \in BOOLEAN /\ left \in Nat
  /\ over \in BOOLEAN /\ resumed \in Nat
  /\ queue \in Seq(Pending) /\ sink \in Seq(Event)
  /\ open \in [Banks -> Rows \cup {NoRow}]
  /\ m_open_row \in [Flats -> Rows \cup {NoRow}]
  /\ issued \in [acts : Nat, refreshes : Nat]
  /\ counters \in [reads : Nat, writes : Nat, acts : Nat, refreshes : Nat]
  /\ bytes_ \subseteq 0 .. Capacity - 1
  /\ reply \in [code : Codes, op : {"none", "peek", "RD", "WR", "WAIT"}, writes : Nat]

(* Two addresses of the functional memory never share a cell of the device   *)
(* (capacity).                                                               *)
NoAlias == \A a, b \in bytes_ : Loc(a) = Loc(b) => a = b

(* While the simulator ticks, no request it holds refers to the locals of a   *)
(* complete_request that has returned: a request that missed its deadline     *)
(* ends the episode, and the next reset starts another process.  A reset     *)
(* that raises does not, and is the one way around this (complete_request).   *)
NoDanglingCallback ==
  pc # "idle" /\ resumed = 0 => \A i \in DOMAIN queue : queue[i].live

(* A write's response reports its own WR command and no other response       *)
(* reports any: what _from_worker of phase4_env.py insists on.               *)
OneWriteEvent ==
  reply.code = "OK" /\ resumed = 0 =>
    reply.writes = IF reply.op = "WR" THEN 1 ELSE 0

(* No activation and no refresh of the device is lost or reported twice: each *)
(* is counted or still in the sink, on a worker driven again after a failure  *)
(* too.  Between requests of a live session that a reset began, the sink is  *)
(* empty: all is counted (ok_json, events_json).                             *)
SessionSeesAll ==
  /\ counters.acts + CountOf(sink, {"ACT"}) = issued.acts
  /\ counters.refreshes + CountOf(sink, {"REFab"}) = issued.refreshes
  /\ pc = "idle" /\ ~over /\ resumed = 0 => sink = <<>>

(* The recorder closes and opens rows the way the device does (on_issue).     *)
TracksOpenRows == \A b \in Banks : m_open_row[FlatBank[b]] = open[b]

(* Every request line is answered, whatever the controller does.              *)
Answered == pc # "idle" ~> pc = "idle"
=============================================================================
