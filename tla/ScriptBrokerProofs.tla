------------------------- MODULE ScriptBrokerProofs -------------------------
(***************************************************************************)
(* Theorems about ScriptBroker, for every limit, every size of a line and     *)
(* every script, also one that resets its own count: broker and child take     *)
(* turns, and script.run keeps what ScriptCall promises.                     *)
(***************************************************************************)
EXTENDS ScriptBroker, TLAPS

(* At most one line is under way, in one direction, and nothing is ever left   *)
(* in readline's buffer.                                                     *)
Pipes ==
  /\ buffer = <<>>
  /\ up = <<>> \/ \E l \in Lines : up = <<l>>
  /\ down = <<>> \/ \E m \in Replies : down = <<m>>
  /\ up = <<>> \/ down = <<>>

(* Whose turn it is.                                                         *)
Turn ==
  /\ child = "none" <=> pc = "idle"
  /\ pc = "idle" => up = <<>> /\ down = <<>>
  /\ pc = "config" => child \in {"starting", "dead"} /\ up = <<>> /\ down = <<>>
  /\ pc \in {"tool", "reply"} => child \in {"waiting", "dead"} /\ up = <<>> /\ down = <<>>
  /\ child = "starting" => up = <<>>
  /\ child = "running" => up = <<>> /\ down = <<>>
  /\ child = "ended" => down = <<>> /\ \A i \in DOMAIN up : up[i].kind # "tool"

(* What the broker has counted, and what of it the child has had an answer to. *)
(* The child's own count says nothing: a script may set it.                  *)
Counts ==
  /\ steps <= calls /\ answered <= steps
  /\ calls <= max_calls \/ pc \in {"closing", "idle"}
  /\ child \in {"starting", "running", "ended"} \/ up # <<>> \/ pc = "tool" => answered = steps
  /\ pc = "closing" => outcome \in Contract!Outcomes /\ (outcome = "result" => answered = steps)

IInv == TypeOK /\ Pipes /\ Turn /\ Counts

USE DEF broker, vars

-----------------------------------------------------------------------------
(* One-element sequences.                                                    *)
LEMMA Single ==
  ASSUME NEW S, NEW x \in S
  PROVE  /\ <<x>> \in Seq(S) /\ <<x>> # <<>> /\ Head(<<x>>) = x /\ Tail(<<x>>) = <<>>
         /\ DOMAIN <<x>> = {1} /\ <<x>>[1] = x
PROOF OBVIOUS

LEMMA Empty ==
  ASSUME NEW S
  PROVE  /\ <<>> \in Seq(S) /\ DOMAIN <<>> = {}
         /\ \A x \in S : Append(<<>>, x) = <<x>> /\ <<>> \o <<x>> = <<x>>
         /\ \A s \in Seq(S) : <<>> \o s = s
PROOF OBVIOUS

LEMMA InitHolds == Init => IInv
<1> SUFFICES ASSUME Init PROVE IInv
  OBVIOUS
<1>1. 0 \in 0 .. max_calls + 1 /\ 0 \in 0 .. max_calls /\ 0 <= max_calls /\ 0 \in Nat /\ 0 <= 0
  BY LimitsAssumption
<1>2. TypeOK
  <2>1. /\ calls \in 0 .. max_calls + 1 /\ steps \in 0 .. max_calls /\ bytes \in Nat
        /\ rhCalls \in Int /\ answered \in Nat
    BY LimitsAssumption DEF Init
  <2>2. down \in Seq(Replies) /\ up \in Seq(Lines) /\ buffer \in Seq(Lines)
    BY Empty DEF Init
  <2> QED BY <2>1, <2>2 DEF Init, TypeOK
<1>3. Pipes /\ Turn
  BY Empty DEF Init, Pipes, Turn
<1>4. Counts
  BY <1>1, Empty DEF Init, Counts
<1> QED BY <1>2, <1>3, <1>4 DEF IInv

(* A run begins with nothing counted and nothing under way.                   *)
LEMMA FreshIsTyped ==
  ASSUME IInv, NEW result \in {"none"} \cup Contract!Outcomes, Fresh(result),
         _RUNTIME' \in BOOLEAN, pc' \in {"idle", "config"}, child' \in {"none", "starting"}
  PROVE  TypeOK'
<1>1. calls' \in 0 .. max_calls + 1 /\ steps' \in 0 .. max_calls /\ bytes' \in Nat /\ rhCalls' \in Int /\ answered' \in Nat
  BY LimitsAssumption DEF Fresh
<1>2. args' \in BOOLEAN /\ late' \in BOOLEAN
  BY DEF Fresh, IInv, TypeOK
<1>3. down' \in Seq(Replies) /\ up' \in Seq(Lines) /\ buffer' \in Seq(Lines)
  BY DEF Fresh, IInv, TypeOK
<1>4. outcome' \in {"none", "result", "violation", "timeout", "unavailable", "raised"}
  BY DEF Fresh, Contract!Outcomes
<1> QED BY <1>1, <1>2, <1>3, <1>4 DEF TypeOK

LEMMA RefusedKeeps == ASSUME IInv, Refused PROVE IInv'
<1>1. TypeOK'
  <2>1. PICK result \in Contract!Outcomes : Fresh(result)
    BY DEF Refused, Contract!Outcomes
  <2>2. _RUNTIME' \in BOOLEAN
    BY DEF Refused, IInv, TypeOK
  <2>3. pc' = "idle" /\ child' = "none"
    BY DEF Refused, IInv, Turn
  <2> QED BY <2>1, <2>2, <2>3, FreshIsTyped
<1>2. Pipes' /\ Turn'
  BY DEF IInv, Pipes, Turn, Refused, Fresh
<1>3. Counts'
  BY LimitsAssumption, Empty DEF IInv, TypeOK, Turn, Counts, Refused, Fresh
<1> QED BY <1>1, <1>2, <1>3 DEF IInv

LEMMA StartKeeps == ASSUME IInv, Start PROVE IInv'
<1>1. TypeOK'
  BY FreshIsTyped DEF Start
<1>2. Pipes' /\ Turn'
  BY DEF IInv, Pipes, Turn, Start, Fresh
<1>3. Counts'
  BY LimitsAssumption, Empty DEF IInv, TypeOK, Turn, Counts, Start, Fresh
<1> QED BY <1>1, <1>2, <1>3 DEF IInv

(* A write changes nothing but the pipe it fills and where the broker is.     *)
LEMMA WriteKeeps ==
  ASSUME IInv, pc \in {"config", "reply"}, NEW m \in Replies, Write(m),
         UNCHANGED <<_RUNTIME, args, calls, steps, bytes, buffer, late, up, child, rhCalls, answered>>
  PROVE  IInv'
<1>1. down = <<>> /\ up = <<>>
  BY DEF IInv, Turn
<1>2. down' = <<>> \/ down' = <<m>>
  BY <1>1, Empty DEF Write
<1>3. TypeOK'
  BY <1>2, Single, Empty DEF IInv, TypeOK, Write, Close
<1>4. Pipes'
  BY <1>1, <1>2 DEF IInv, Pipes
<1>5. Turn'
  BY <1>1, <1>2 DEF IInv, TypeOK, Turn, Write, Close
<1>6. Counts'
  BY <1>1, Empty DEF IInv, TypeOK, Turn, Counts, Write, Close, Contract!Outcomes
<1> QED BY <1>3, <1>4, <1>5, <1>6 DEF IInv

(* Steps of the broker that only change where it is.                         *)
LEMMA MovesKeep ==
  ASSUME IInv, Flushed \/ Top \/ SelectExpires \/ EndOfFile PROVE IInv'
<1>1. TypeOK'
  BY DEF IInv, TypeOK, Flushed, Top, SelectExpires, EndOfFile, Close
<1>2. Pipes' /\ Turn'
  BY DEF IInv, TypeOK, Pipes, Turn, Flushed, Top, SelectExpires, EndOfFile, Close
<1>3. Counts'
  BY DEF IInv, TypeOK, Counts, Flushed, Top, SelectExpires, EndOfFile, Close, Contract!Outcomes
<1> QED BY <1>1, <1>2, <1>3 DEF IInv

LEMMA ReceiveKeeps == ASSUME IInv, Receive PROVE IInv'
<1>1. up # <<>>
  BY Empty DEF Receive, IInv, Pipes, Pulled
<1>2. PICK l \in Lines : up = <<l>>
  BY <1>1 DEF IInv, Pipes
<1>3. Pulled = <<l>> /\ Head(Pulled) = l /\ Tail(Pulled) = <<>>
  BY <1>2, Single, Empty DEF Pulled, IInv, Pipes
<1>4. DOMAIN up = {1} /\ up[1] = l
  BY <1>2, Single
<1>5. down = <<>> /\ buffer' = <<>> /\ up' = <<>> /\ down' = <<>>
  BY <1>1, <1>3 DEF Receive, IInv, Pipes
<1>6. l.size \in Nat /\ l.kind \in {"tool", "result", "violation", "partial"} /\ l.args \in BOOLEAN
  BY LimitsAssumption DEF Lines
<1>7. TypeOK'
  BY <1>3, <1>5, <1>6, Empty DEF IInv, TypeOK, Receive, Received, Close
<1>8. Pipes'
  BY <1>5 DEF Pipes
<1>9. Turn'
  BY <1>1, <1>3, <1>4, <1>5, <1>6, Empty DEF IInv, TypeOK, Turn, Receive, Received, Close
<1>11. Counts'
  BY <1>1, <1>3, <1>5, <1>6, Empty
     DEF IInv, TypeOK, Counts, Receive, Received, Close, Contract!Outcomes
<1> QED BY <1>7, <1>8, <1>9, <1>11 DEF IInv

LEMMA HandleToolKeeps == ASSUME IInv, HandleTool PROVE IInv'
<1>1. up = <<>> /\ child \in {"waiting", "dead"} /\ calls <= max_calls
  BY DEF IInv, Turn, Counts, HandleTool
<1>2. TypeOK'
  BY <1>1, LimitsAssumption DEF IInv, TypeOK, Counts, HandleTool, WithinLimit, Close
<1>3. Pipes' /\ Turn'
  BY <1>1 DEF IInv, Pipes, Turn, HandleTool, Close
<1>4. Counts'
  BY <1>1, LimitsAssumption, Empty
     DEF IInv, TypeOK, Counts, HandleTool, WithinLimit, Close, Contract!Outcomes
<1> QED BY <1>2, <1>3, <1>4 DEF IInv

LEMMA CleanupKeeps == ASSUME IInv, Cleanup PROVE IInv'
<1>1. TypeOK'
  BY Empty DEF IInv, TypeOK, Cleanup
<1>2. Pipes' /\ Turn'
  BY Empty DEF IInv, Pipes, Turn, Cleanup
<1>3. Counts'
  BY Empty DEF IInv, TypeOK, Counts, Cleanup
<1> QED BY <1>1, <1>2, <1>3 DEF IInv

-----------------------------------------------------------------------------
(* The child.                                                                *)

(* What the child reads is the only line there is, and it is its turn.        *)
LEMMA ReadsKeep == ASSUME IInv, ChildStarts \/ ChildReads PROVE IInv'
<1>1. PICK m \in Replies : down = <<m>>
  BY DEF IInv, Pipes, ChildStarts, ChildReads
<1>2. down' = <<>> /\ up = <<>> /\ up' = <<>>
  BY <1>1, Single DEF IInv, Pipes, ChildStarts, ChildReads
<1>3. TypeOK'
  BY <1>2, Empty DEF IInv, TypeOK, ChildStarts, ChildReads
<1>4. Pipes'
  BY <1>2 DEF IInv, Pipes, ChildStarts, ChildReads
<1>5. Turn'
  BY <1>1, <1>2, Single DEF IInv, Turn, ChildStarts, ChildReads
<1>6. Counts'
  BY <1>2, Empty DEF IInv, TypeOK, Counts, ChildStarts, ChildReads
<1> QED BY <1>3, <1>4, <1>5, <1>6 DEF IInv

(* A running child has both pipes to itself.                                 *)
LEMMA Sends ==
  ASSUME IInv, child = "running", NEW l \in Lines, Send(<<l>>), UNCHANGED <<broker, down>>
  PROVE  /\ up = <<>> /\ down = <<>> /\ up' = <<l>> /\ up' \in Seq(Lines)
         /\ DOMAIN up' = {1} /\ up'[1] = l /\ up' # <<>> /\ Pipes'
         /\ pc \in {"flush", "top", "select", "closing"} /\ answered = steps
<1>1. up = <<>> /\ down = <<>>
  BY DEF IInv, Turn
<1>2. up' = <<l>>
  BY <1>1, Empty DEF Send
<1>3. up' \in Seq(Lines) /\ DOMAIN up' = {1} /\ up'[1] = l /\ up' # <<>>
  BY <1>2, Single
<1>4. Pipes'
  BY <1>1, <1>2 DEF IInv, Pipes
<1>5. pc \in {"flush", "top", "select", "closing"} /\ answered = steps
  BY DEF IInv, TypeOK, Turn, Counts
<1> QED BY <1>1, <1>2, <1>3, <1>4, <1>5

LEMMA ChildCallsKeeps == ASSUME IInv, ChildCalls PROVE IInv'
<1>1. CASE rhCalls' > max_calls /\ UNCHANGED <<up, child>>
  BY <1>1 DEF IInv, TypeOK, Pipes, Turn, Counts, ChildCalls
<1>2. ASSUME NEW size \in Sizes, NEW ok \in BOOLEAN,
             Send(<<[Line("tool", size) EXCEPT !.args = ok]>>), child' = Asking
      PROVE  IInv'
  <2> DEFINE l == [Line("tool", size) EXCEPT !.args = ok]
  <2>1. l \in Lines /\ l.kind = "tool"
    BY DEF Line, Lines
  <2>2. /\ up = <<>> /\ down = <<>> /\ up' = <<l>> /\ up' \in Seq(Lines)
        /\ DOMAIN up' = {1} /\ up'[1] = l /\ up' # <<>> /\ Pipes'
        /\ pc \in {"flush", "top", "select", "closing"} /\ answered = steps
    BY <1>2, <2>1, Sends DEF ChildCalls
  <2> HIDE DEF l
  <2>3. TypeOK'
    BY <1>2, <2>2 DEF IInv, TypeOK, ChildCalls, Asking
  <2>4. Turn'
    BY <1>2, <2>2 DEF Turn, ChildCalls, Asking
  <2>5. Counts'
    BY <1>2, <2>2 DEF IInv, TypeOK, Counts, ChildCalls, Asking
  <2> QED BY <2>2, <2>3, <2>4, <2>5 DEF IInv
<1> QED BY <1>1, <1>2 DEF ChildCalls

LEMMA ChildAssignsKeeps == ASSUME IInv, ChildAssigns PROVE IInv'
<1>1. rhCalls' \in Int
  BY LimitsAssumption DEF ChildAssigns
<1> QED BY <1>1 DEF ChildAssigns, IInv, TypeOK, Pipes, Turn, Counts

LEMMA ChildEndsKeeps == ASSUME IInv, ChildEnds PROVE IInv'
<1>1. PICK kind \in {"result", "violation"}, size \in Sizes : Send(<<Line(kind, size)>>)
  BY DEF ChildEnds
<1> DEFINE l == Line(kind, size)
<1>2. l \in Lines /\ l.kind # "tool"
  BY DEF Line, Lines
<1>3. /\ up = <<>> /\ down = <<>> /\ up' = <<l>> /\ up' \in Seq(Lines)
      /\ DOMAIN up' = {1} /\ up'[1] = l /\ up' # <<>> /\ Pipes'
      /\ pc \in {"flush", "top", "select", "closing"} /\ answered = steps
  BY <1>1, <1>2, Sends DEF ChildEnds
<1> HIDE DEF l
<1>4. TypeOK'
  BY <1>3 DEF IInv, TypeOK, ChildEnds
<1>5. Turn'
  BY <1>2, <1>3 DEF Turn, ChildEnds
<1>6. Counts'
  BY <1>2, <1>3 DEF IInv, TypeOK, Counts, ChildEnds
<1> QED BY <1>3, <1>4, <1>5, <1>6 DEF IInv

LEMMA ChildDiesKeeps == ASSUME IInv, ChildDies PROVE IInv'
<1>1. CASE UNCHANGED up
  BY <1>1 DEF IInv, TypeOK, Pipes, Turn, Counts, ChildDies
<1>2. ASSUME child = "running", NEW size \in Sizes, Send(<<Line("partial", size)>>)
      PROVE  IInv'
  <2> DEFINE l == Line("partial", size)
  <2>1. l \in Lines /\ l.kind # "tool"
    BY DEF Line, Lines
  <2>2. /\ up = <<>> /\ down = <<>> /\ up' = <<l>> /\ up' \in Seq(Lines)
        /\ DOMAIN up' = {1} /\ up'[1] = l /\ up' # <<>> /\ Pipes'
        /\ pc \in {"flush", "top", "select", "closing"} /\ answered = steps
    BY <1>2, <2>1, Sends DEF ChildDies
  <2> HIDE DEF l
  <2>3. TypeOK'
    BY <2>2 DEF IInv, TypeOK, ChildDies
  <2>4. Turn'
    BY <2>2 DEF Turn, ChildDies
  <2>5. Counts'
    BY <2>1, <2>2 DEF IInv, TypeOK, Counts, ChildDies
  <2> QED BY <2>2, <2>3, <2>4, <2>5 DEF IInv
<1> QED BY <1>1, <1>2 DEF ChildDies

-----------------------------------------------------------------------------
(* The invariant.                                                            *)

LEMMA NextKeeps == IInv /\ [Next]_vars => IInv'
<1> SUFFICES ASSUME IInv, [Next]_vars PROVE IInv'
  OBVIOUS
<1>1. CASE Broker
  <2>1. CASE WriteConfig
    BY <2>1, WriteKeeps DEF WriteConfig, Replies
  <2>2. CASE Reply
    BY <2>2, WriteKeeps DEF Reply, Replies
  <2> QED BY <1>1, <2>1, <2>2, MovesKeep, ReceiveKeeps, HandleToolKeeps, CleanupKeeps DEF Broker
<1>2. CASE Child
  BY <1>2, ReadsKeep, ChildCallsKeeps, ChildAssignsKeeps, ChildEndsKeeps, ChildDiesKeeps DEF Child
<1>3. CASE Deadline
  BY <1>3 DEF Deadline, IInv, TypeOK, Pipes, Turn, Counts
<1>4. CASE UNCHANGED vars
  BY <1>4 DEF IInv, TypeOK, Pipes, Turn, Counts
<1> QED BY <1>1, <1>2, <1>3, <1>4, RefusedKeeps, StartKeeps DEF Next

(* The inductive invariant: at most one line is under way, and whose turn it   *)
(* is (_serve, _call).                                                       *)
THEOREM OneLineAtATime == Spec => []IInv
PROOF
  BY InitHolds, NextKeeps, PTL DEF Spec

(* Types, and the broker's count passes max_calls by at most one              *)
(* (_handle_tool), whatever the child sends.                                 *)
THEOREM TypeCorrect == Spec => []TypeOK
<1>1. IInv => TypeOK
  BY DEF IInv
<1> QED BY <1>1, OneLineAtATime, PTL

(* Broker and child never wait for each other: no sleep over a buffered line,  *)
(* no blocked write that nobody will read, no second question before the      *)
(* answer (_serve, _write, _call).                                           *)
THEOREM NobodyWaitsInVain == Spec => []TakeTurns
<1>1. IInv => TakeTurns
  BY DEF IInv, TypeOK, Pipes, Turn, Counts, TakeTurns
<1> QED BY <1>1, OneLineAtATime, PTL

-----------------------------------------------------------------------------
(* Refinement.                                                               *)

LEMMA StepRefines ==
  ASSUME IInv, IInv', [Next]_vars
  PROVE  [Contract!Next]_Contract!vars
<1> USE DEF running, Contract!vars
<1>1. CASE Refused
  <2>1. PICK result \in Contract!Outcomes \ {"result"} : Fresh(result)
    BY <1>1 DEF Refused, Contract!Outcomes
  <2>2. pc = "idle" /\ pc' = "idle"
    BY <1>1 DEF Refused
  <2> QED BY <2>1, <2>2 DEF Fresh, Contract!Next, Contract!Refuse
<1>2. CASE Start
  BY <1>2 DEF Start, Fresh, Contract!Next, Contract!Start
<1>3. CASE HandleTool
  <2>1. pc # "idle" /\ pc' # "idle" /\ answered = steps /\ UNCHANGED answered
    BY <1>3 DEF HandleTool, Close, IInv, Counts
  <2>2. CASE UNCHANGED steps
    BY <2>1, <2>2
  <2>3. CASE steps' = steps + 1
    <3>1. steps < max_calls
      BY <1>3, <2>3, LimitsAssumption DEF HandleTool, WithinLimit, IInv, TypeOK, Counts
    <3> QED BY <2>1, <2>3, <3>1 DEF Contract!Next, Contract!Step
  <2> QED BY <1>3, <2>2, <2>3 DEF HandleTool
<1>4. CASE Cleanup
  BY <1>4 DEF Cleanup, IInv, Counts, Contract!Next, Contract!Return
<1>5. CASE ChildReads
  <2>1. pc # "idle" /\ UNCHANGED <<pc, steps, outcome>> /\ answered' = steps
    BY <1>5 DEF ChildReads, IInv, Turn
  <2>2. CASE answered = steps
    BY <2>1, <2>2
  <2>3. CASE answered < steps
    BY <2>1, <2>3 DEF Contract!Next, Contract!Answer
  <2> QED BY <2>2, <2>3 DEF IInv, TypeOK, Counts
<1>6. CASE WriteConfig \/ Flushed \/ Top \/ SelectExpires \/ EndOfFile \/ Receive \/ Reply
  <2>1. pc # "idle" /\ pc' # "idle" /\ UNCHANGED <<steps, answered>>
    BY <1>6 DEF WriteConfig, Flushed, Top, SelectExpires, EndOfFile, Receive, Received, Reply, Write, Close
  <2> QED BY <2>1
<1>7. CASE ChildStarts \/ ChildCalls \/ ChildAssigns \/ ChildEnds \/ ChildDies \/ Deadline \/ UNCHANGED vars
  <2>1. UNCHANGED <<pc, outcome, steps, answered>>
    BY <1>7 DEF ChildStarts, ChildCalls, ChildAssigns, ChildEnds, ChildDies, Deadline
  <2> QED BY <2>1
<1> QED BY <1>1, <1>2, <1>3, <1>4, <1>5, <1>6, <1>7 DEF Next, Broker, Child

(* script.run is one call of the environment at a time, at most max_calls,    *)
(* none after it has returned (RestrictedScriptBroker.run).                   *)
THEOREM BrokerKeepsCall == Spec => KeepsCall
<1>1. Init => Contract!Init
  BY DEF Init, Contract!Init, running
<1>2. IInv /\ [Next]_vars /\ IInv' => [Contract!Next]_Contract!vars
  BY StepRefines
<1> QED BY <1>1, <1>2, OneLineAtATime, PTL DEF Spec, KeepsCall, Contract!Spec
=============================================================================
