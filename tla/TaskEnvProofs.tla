---------------------------- MODULE TaskEnvProofs ----------------------------
(***************************************************************************)
(* Theorems about TaskEnv, for every budget, bound and task: the ledger of *)
(* an episode (what was charged, what was done, who may still act) is an   *)
(* inductive invariant, and the properties of TaskEnv follow from it.      *)
(*                                                                         *)
(* A reset that raises while it parses its task (stage "task") re-admits an *)
(* episode that was over.  Such an episode is not live, and the invariant  *)
(* says of it what still holds: no call on credit, and no reward it had    *)
(* not earned before.  The run of ExhaustedStaysIdle shows what it may do. *)
(***************************************************************************)
EXTENDS TaskEnv, TLAPS

(* What a live episode has spent is what it did: between calls everything is *)
(* on the bill, and inside a dram.issue the bill is as of its first primitive. *)
Bill ==
  Live =>
    /\ simActs = pubActs
    /\ budget.cycles >= 0
    /\ budget.capped => /\ budget.acts >= 0
                        /\ budget.acts = initial.acts - actsPrev
    /\ pc # "issue" => /\ budget.cycles = initial.cycles - cycle
                       /\ budget.capped => actsPrev = pubActs
    /\ pc = "issue" => /\ budget.cycles = initial.cycles - iss.before
                       /\ iss.before <= cycle
                       /\ budget.capped => /\ iss.ceiling = actsPrev + budget.acts
                                           /\ pubActs < iss.ceiling + MaxActs

(* Calls are paid in advance: one for the call under way, and one for each   *)
(* the running script may still make.                                        *)
Calls ==
  /\ budget.tool_calls >= 0
  /\ pc = "issue" => ~episodeDone /\ budget.tool_calls > 0
  /\ script.on /\ ~episodeDone =>
       script.max - script.calls + (IF pc = "idle" THEN 0 ELSE 1) <= budget.tool_calls

(* The reward ends the episode, until a reset that raised re-admits it, and  *)
(* an episode over with a script running has nothing left to earn.           *)
Latch ==
  /\ success => episodeDone \/ resumed
  /\ script.on /\ episodeDone => (Won(target, worker) => success)

IInv ==
  /\ TypeOK
  /\ budget.capped = initial.capped
  /\ actsPrev <= pubActs /\ pubActs <= simActs
  /\ Bill
  /\ Calls
  /\ Latch

-----------------------------------------------------------------------------
USE DEF simVars, configVars, chargeVars, latchVars, countVars

(* The arithmetic of _charge.                                                *)
LEMMA ChargedFacts ==
  ASSUME TypeOK, NEW oActs \in Nat, NEW spent \in Int
  PROVE  LET b == Charged(oActs, spent) IN
         /\ b \in [tool_calls : Int, cycles : Int, acts : Int, capped : BOOLEAN]
         /\ b.capped = budget.capped
         /\ b.tool_calls = budget.tool_calls - 1
         /\ b.cycles = budget.cycles - Pos(spent)
         /\ budget.capped => b.acts = budget.acts - Pos(oActs - actsPrev)
<1> DEFINE b == Charged(oActs, spent)
<1>1. /\ budget \in [tool_calls : Int, cycles : Int, acts : Int, capped : BOOLEAN]
      /\ actsPrev \in Nat
  BY DEF TypeOK
<1>2. Pos(spent) \in Int /\ Pos(oActs - actsPrev) \in Int
  BY <1>1 DEF Pos
<1>3. (IF budget.capped THEN budget.acts - Pos(oActs - actsPrev) ELSE budget.acts) \in Int
  BY <1>1, <1>2
<1>4. b \in [tool_calls : Int, cycles : Int, acts : Int, capped : BOOLEAN]
  BY <1>1, <1>2, <1>3 DEF Charged
<1>5. b.capped = budget.capped
  BY DEF Charged
<1>6. /\ b.tool_calls = budget.tool_calls - 1
      /\ b.cycles = budget.cycles - Pos(spent)
      /\ budget.capped => b.acts = budget.acts - Pos(oActs - actsPrev)
  BY DEF Charged
<1> QED BY <1>4, <1>5, <1>6

(* Who answers decides nothing about the type of an answer.                 *)
LEMMA Observed ==
  ASSUME NEW code \in Codes, NEW done \in BOOLEAN, NEW paid \in BOOLEAN
  PROVE  /\ \A src \in {"none", "reset", "outer", "inner"} :
              [src |-> src, code |-> code, done |-> done, paid |-> paid] \in Obs
         /\ [src |-> IF script.on THEN "inner" ELSE "outer", code |-> code,
             done |-> done, paid |-> paid] \in Obs
BY DEF Obs

(* The script record of a session that runs no script has its type.          *)
LEMMA NoScriptType ==
  /\ NoScript \in [on : BOOLEAN, calls : Nat, max : 0 .. ScriptCallCap]
  /\ NoScript.calls <= NoScript.max /\ ~NoScript.on
<1>1. NoScript \in [on : BOOLEAN, calls : Nat, max : 0 .. ScriptCallCap]
  BY BoundsAssumption DEF NoScript
<1> QED BY <1>1 DEF NoScript

(* The tail of every dram.* call keeps the invariant, provided it reports    *)
(* counters no older than the last charge and, unless the call ended the     *)
(* episode with an error, all the work it did.                               *)
LEMMA ReturnKeeps ==
  ASSUME IInv, pc \in {"step", "issue"}, ~episodeDone, budget.tool_calls > 0,
         NEW code \in Codes, NEW oActs \in Nat, NEW spent \in Int,
         actsPrev <= oActs, oActs <= pubActs', pubActs' <= simActs',
         simActs' \in Nat, pubActs' \in Nat, cycle' \in Nat,
         target' \in Targets, engine' = engine,
         Live /\ code \notin TERMINAL_ERROR_CODES =>
           /\ simActs' = pubActs'
           /\ budget.cycles - Pos(spent) = initial.cycles - cycle'
           /\ budget.capped => oActs = pubActs',
         Return(code, oActs, spent, target')
  PROVE  IInv'
<1> DEFINE b == Charged(oActs, spent)
<1>0. /\ b \in [tool_calls : Int, cycles : Int, acts : Int, capped : BOOLEAN]
      /\ b.capped = budget.capped
      /\ b.tool_calls = budget.tool_calls - 1
      /\ b.cycles = budget.cycles - Pos(spent)
      /\ budget.capped => b.acts = budget.acts - Pos(oActs - actsPrev)
  BY ChargedFacts DEF IInv
<1>1. /\ budget' = b /\ actsPrev' = ActsPrevAfter(oActs)
      /\ pc' = "idle" /\ iss' = NoIssue
      /\ UNCHANGED <<compiled, reads, initial, resumed>>
  BY DEF Return
<1> HIDE DEF b
<1>2. CASE Blind(target', worker) /\ BlindReturn /\ UNCHANGED success
  <2>1. TypeOK'
    <3>1. /\ worker' \in {"none", "up", "dead"} /\ episodeDone' \in BOOLEAN
          /\ success' \in BOOLEAN
      BY <1>2 DEF IInv, TypeOK, BlindReturn, Refuse
    <3>2. obs' \in Obs
      BY <1>2, Observed DEF BlindReturn, Refuse, Raise, Codes, TERMINAL_ERROR_CODES
    <3>3. /\ script' \in [on : BOOLEAN, calls : Nat, max : 0 .. ScriptCallCap]
          /\ script'.calls <= script'.max
      <4>1. script' = script \/ script' = NoScript
        BY <1>2 DEF BlindReturn, Raise
      <4> QED BY <4>1, NoScriptType DEF IInv, TypeOK
    <3>4. iss' \in [left : 0 .. MaxIssue, ceiling : Int, before : Nat]
      BY <1>1, BoundsAssumption DEF NoIssue
    <3>5. actsPrev' \in Nat
      BY <1>1 DEF IInv, TypeOK, ActsPrevAfter
    <3> QED BY <3>1, <3>2, <3>3, <3>4, <3>5, <1>0, <1>1 DEF IInv, TypeOK
  <2>2. (budget.capped = initial.capped /\ actsPrev <= pubActs /\ pubActs <= simActs)'
    BY <1>0, <1>1 DEF IInv, TypeOK, ActsPrevAfter
  <2>3. ~Live'
    BY <1>2 DEF BlindReturn, Refuse, Raise, Live
  <2>4. Calls'
    BY <1>0, <1>1, <1>2, BoundsAssumption DEF IInv, TypeOK, Calls, BlindReturn, Refuse, Raise, NoScript
  <2>5. Latch'
    BY <1>1, <1>2 DEF IInv, TypeOK, Latch, BlindReturn, Refuse, Raise, NoScript, Blind, Won
  <2> QED BY <2>1, <2>2, <2>3, <2>4, <2>5 DEF IInv, Bill
<1>3. CASE /\ ~Blind(target', worker)
           /\ success' = Won(target', worker)
           /\ LET done == success' \/ CodeAfter(code) \in TERMINAL_ERROR_CODES
              IN  Answer(CodeAfter(code), done, success') /\ episodeDone' = (episodeDone \/ done)
           /\ UNCHANGED <<worker, script>>
  <2>1. CodeAfter(code) \in Codes
    BY DEF CodeAfter, Codes, TERMINAL_ERROR_CODES
  <2>2. TypeOK'
    BY <1>0, <1>1, <1>3, <2>1, BoundsAssumption DEF IInv, TypeOK, ActsPrevAfter, Won, Answer, Obs, NoIssue
  <2>3. (budget.capped = initial.capped /\ actsPrev <= pubActs /\ pubActs <= simActs)'
    BY <1>0, <1>1 DEF IInv, TypeOK, ActsPrevAfter
  <2>4. ASSUME Live' PROVE Live /\ code \notin TERMINAL_ERROR_CODES /\ ~Exceeded(budget')
    BY <2>4, <1>1, <1>3 DEF Live, CodeAfter, TERMINAL_ERROR_CODES
  <2>5. Bill'
    <3> SUFFICES ASSUME Live' PROVE /\ simActs' = pubActs'
                                    /\ budget'.cycles >= 0
                                    /\ budget'.capped => /\ budget'.acts >= 0
                                                         /\ budget'.acts = initial'.acts - actsPrev'
                                    /\ budget'.cycles = initial'.cycles - cycle'
                                    /\ budget'.capped => actsPrev' = pubActs'
      BY <1>1 DEF Bill
    <3>1. /\ simActs' = pubActs'
          /\ budget.cycles - Pos(spent) = initial.cycles - cycle'
          /\ budget.capped => oActs = pubActs'
      BY <2>4
    <3>2. /\ budget'.cycles >= 0
          /\ budget'.capped => budget'.acts >= 0
      BY <2>4, <1>0, <1>1 DEF Exceeded
    <3>3. budget.capped => budget.acts = initial.acts - actsPrev
      BY <2>4 DEF IInv, Bill
    <3>4. budget.capped => Pos(oActs - actsPrev) = oActs - actsPrev
      BY DEF Pos, IInv, TypeOK
    <3> QED BY <3>1, <3>2, <3>3, <3>4, <1>0, <1>1, BudgetsAssumption DEF ActsPrevAfter, IInv, TypeOK, Dict
  <2>6. Calls'
    BY <1>0, <1>1, <1>3 DEF IInv, TypeOK, Calls
  <2>7. Latch'
    BY <1>1, <1>3 DEF Latch, Won, IInv, TypeOK
  <2> QED BY <2>2, <2>3, <2>5, <2>6, <2>7 DEF IInv
<1> QED BY <1>2, <1>3 DEF Return

-----------------------------------------------------------------------------
(* The invariant holds before the first reset (__init__).                    *)
LEMMA InitHolds == Init => IInv
<1> SUFFICES ASSUME Init PROVE IInv
  OBVIOUS
<1>1. TypeOK
  <2>1. iss \in [left : 0 .. MaxIssue, ceiling : Int, before : Nat]
    BY BoundsAssumption DEF Init, NoIssue
  <2>2. obs \in Obs
    BY Observed DEF Init, Codes
  <2>3. initial \in Dict
    BY BudgetsAssumption DEF Init
  <2>4. budget \in [tool_calls : Int, cycles : Int, acts : Int, capped : BOOLEAN]
    BY <2>3 DEF Init, Dict
  <2>5. script \in [on : BOOLEAN, calls : Nat, max : 0 .. ScriptCallCap] /\ script.calls <= script.max
    BY NoScriptType DEF Init
  <2> QED BY <2>1, <2>2, <2>4, <2>5 DEF Init, TypeOK, Targets
<1>2. Bill
  BY DEF Init, Live, Bill
<1>3. Calls
  BY NoScriptType, BudgetsAssumption DEF Init, Calls, Dict
<1>4. Latch
  BY NoScriptType DEF Init, Latch
<1> QED BY <1>1, <1>2, <1>3, <1>4 DEF Init, IInv

(* The calls of step() that end in _charge and the latch.                    *)
LEMMA ReturningKeeps ==
  ASSUME IInv,
         \/ StepLocal \/ StepAccess \/ StepAccessRejected \/ StepAccessFails
         \/ IssueDone \/ IssueTruncated \/ IssueRejected \/ IssueFails
  PROVE  IInv'
<1> USE DEF IInv, TypeOK
<1>0. /\ Codes \cap {"OK", "REJECTED", "BUDGET_EXCEEDED", "INTERNAL_SIMULATOR_ERROR"}
           = {"OK", "REJECTED", "BUDGET_EXCEEDED", "INTERNAL_SIMULATOR_ERROR"}
      /\ "BUDGET_EXCEEDED" \in TERMINAL_ERROR_CODES
      /\ "INTERNAL_SIMULATOR_ERROR" \in TERMINAL_ERROR_CODES
  BY DEF Codes, Rejections, TERMINAL_ERROR_CODES
<1>1. ASSUME StepLocal PROVE IInv'
  <2>1. PICK code \in {"OK", "REJECTED"} : Return(code, actsPrev, 0, target)
    BY <1>1 DEF StepLocal
  <2>2. Live => /\ simActs = pubActs /\ budget.cycles = initial.cycles - cycle
                /\ budget.capped => actsPrev = pubActs
    BY <1>1 DEF StepLocal, Admitted, Bill
  <2> QED BY <1>0, <1>1, <2>1, <2>2, ReturnKeeps DEF StepLocal, Admitted, Pos
<1>2. ASSUME StepAccess PROVE IInv'
  <2>1. PICK op \in {"RD", "WR"}, a \in 0 .. MaxActs, c \in 0 .. MaxCycles, tgt \in Targets :
          Reported(a, c, tgt) /\ Return("OK", pubActs', c, tgt)
    BY <1>2 DEF StepAccess
  <2>2. Live => /\ simActs = pubActs /\ budget.cycles = initial.cycles - cycle
    BY <1>2 DEF StepAccess, Admitted, Bill
  <2>3. /\ simActs' \in Nat /\ pubActs' = simActs' /\ cycle' \in Nat /\ actsPrev <= pubActs'
        /\ target' = tgt /\ engine' = engine
        /\ c \in Int /\ Pos(c) = c /\ cycle' = cycle + c
    BY <2>1, BoundsAssumption DEF Reported, Pos
  <2>4. Live => budget.cycles - Pos(c) = initial.cycles - cycle'
    BY <2>2, <2>3, BudgetsAssumption DEF Dict
  <2>5. Return("OK", pubActs', c, target')
    BY <2>1, <2>3
  <2>6. pc = "step" /\ ~episodeDone /\ budget.tool_calls > 0
    BY <1>2 DEF StepAccess, Admitted
  <2> QED BY <1>0, <2>3, <2>4, <2>5, <2>6, ReturnKeeps
<1>3. ASSUME StepAccessRejected PROVE IInv'
  <2>2. Live => /\ simActs = pubActs /\ budget.cycles = initial.cycles - cycle
                /\ budget.capped => actsPrev = pubActs
    BY <1>3 DEF StepAccessRejected, Admitted, Bill
  <2> QED BY <1>0, <1>3, <2>2, ReturnKeeps DEF StepAccessRejected, Admitted, Pos
<1>4. ASSUME StepAccessFails PROVE IInv'
  <2>1. PICK a \in 0 .. MaxActs, c \in 0 .. MaxCycles, tgt \in Targets, spent \in 0 .. MaxCycles :
          /\ Lost(a, c, tgt, spent)
          /\ Return("INTERNAL_SIMULATOR_ERROR", actsPrev, spent, tgt)
    BY <1>4 DEF StepAccessFails
  <2>2. /\ simActs' \in Nat /\ pubActs' \in Nat /\ cycle' \in Nat /\ pubActs <= pubActs' /\ pubActs' <= simActs'
        /\ target' = tgt /\ engine' = engine
    BY <2>1, BoundsAssumption DEF Lost, Reported
  <2> QED BY <1>0, <1>4, <2>1, <2>2, ReturnKeeps, BoundsAssumption
          DEF StepAccessFails, Admitted
<1>5. ASSUME pc = "issue"
      PROVE  /\ ~episodeDone /\ budget.tool_calls > 0
             /\ cycle - iss.before \in Int
             /\ Live => /\ simActs = pubActs
                        /\ budget.cycles - Pos(cycle - iss.before) = initial.cycles - cycle
  BY <1>5, BudgetsAssumption DEF Calls, Bill, Pos, Dict
<1>6. ASSUME IssueDone PROVE IInv'
  BY <1>0, <1>5, <1>6, ReturnKeeps DEF IssueDone
<1>7. ASSUME IssueTruncated PROVE IInv'
  BY <1>0, <1>5, <1>7, ReturnKeeps DEF IssueTruncated
<1>8. ASSUME IssueRejected PROVE IInv'
  BY <1>0, <1>5, <1>8, ReturnKeeps DEF IssueRejected, Sending
<1>9. ASSUME IssueFails PROVE IInv'
  <2>1. PICK a \in 0 .. MaxActs, c \in 0 .. MaxCycles, tgt \in Targets, spent \in 0 .. MaxCycles :
          /\ Lost(a, c, tgt, spent)
          /\ Return("INTERNAL_SIMULATOR_ERROR", pubActs, cycle - iss.before, tgt)
    BY <1>9 DEF IssueFails
  <2>2. /\ simActs' \in Nat /\ pubActs' \in Nat /\ cycle' \in Nat /\ pubActs <= pubActs' /\ pubActs' <= simActs'
        /\ target' = tgt /\ engine' = engine
    BY <2>1, BoundsAssumption DEF Lost, Reported
  <2> QED BY <1>0, <1>5, <1>9, <2>1, <2>2, ReturnKeeps DEF IssueFails, Sending
<1> QED BY <1>1, <1>2, <1>3, <1>4, <1>6, <1>7, <1>8, <1>9

(* The other actions, each by the conjuncts of the invariant it can disturb. *)
LEMMA CallsKeep ==
  ASSUME IInv, PolicyCall \/ BrokerCall \/ StepRefused \/ StepRaises \/ IssueRaises
               \/ ScriptRejected \/ WorkerDies \/ Close
  PROVE  IInv'
<1> USE DEF IInv
<1>1. ASSUME PolicyCall PROVE IInv'
  <2>1. TypeOK'
    BY <1>1, NoScriptType, Observed, BoundsAssumption
       DEF TypeOK, PolicyCall, Idle, Codes, Rejections, TERMINAL_ERROR_CODES
  <2>2. Bill'
    BY <1>1 DEF TypeOK, Bill, Live, PolicyCall, Idle
  <2>3. Calls'
    BY <1>1, NoScriptType DEF TypeOK, Calls, PolicyCall, Idle
  <2>4. Latch'
    BY <1>1, NoScriptType DEF TypeOK, Calls, Latch, Won, PolicyCall, Idle
  <2> QED BY <1>1, <2>1, <2>2, <2>3, <2>4 DEF PolicyCall
<1>2. ASSUME BrokerCall PROVE IInv'
  <2>1. TypeOK'
    <3>1. script' \in [on : BOOLEAN, calls : Nat, max : 0 .. ScriptCallCap]
      BY <1>2 DEF TypeOK, BrokerCall, Counted
    <3>2. script'.calls <= script'.max
      BY <1>2, BoundsAssumption DEF TypeOK, BrokerCall, Counted
    <3> QED BY <1>2, <3>1, <3>2 DEF TypeOK, BrokerCall
  <2>2. Bill'
    BY <1>2 DEF TypeOK, Bill, Live, BrokerCall, Counted
  <2>3. Calls'
    BY <1>2, NoScriptType DEF TypeOK, Calls, BrokerCall, Counted
  <2>4. Latch'
    BY <1>2, NoScriptType DEF TypeOK, Calls, Latch, Won, BrokerCall, Counted
  <2> QED BY <1>2, <2>1, <2>2, <2>3, <2>4 DEF BrokerCall
<1>3. ASSUME StepRefused PROVE IInv'
  <2>1. TypeOK'
    <3>1. obs' \in Obs
      BY <1>3, Observed DEF StepRefused, Refuse, Codes, Rejections, TERMINAL_ERROR_CODES
    <3> QED BY <1>3, <3>1 DEF TypeOK, StepRefused, Refuse
  <2>2. Bill'
    BY <1>3 DEF TypeOK, Bill, Live, StepRefused, Refuse, Won
  <2>3. Calls'
    BY <1>3, NoScriptType DEF TypeOK, Calls, StepRefused, Refuse, Won
  <2>4. Latch'
    BY <1>3, NoScriptType DEF TypeOK, Calls, Latch, Won, StepRefused, Refuse
  <2> QED BY <1>3, <2>1, <2>2, <2>3, <2>4 DEF StepRefused
<1>4. ASSUME StepRaises PROVE IInv'
  <2>1. TypeOK'
    <3>1. obs' \in Obs
      BY <1>4, Observed DEF StepRaises, Raise, Codes
    <3> QED BY <1>4, <3>1, NoScriptType DEF TypeOK, StepRaises, Raise
  <2>2. Bill'
    BY <1>4 DEF TypeOK, Bill, Live, StepRaises, Admitted, Raise
  <2>3. Calls'
    BY <1>4, NoScriptType DEF TypeOK, Calls, StepRaises, Admitted, Raise
  <2>4. Latch'
    BY <1>4, NoScriptType DEF TypeOK, Calls, Latch, Won, StepRaises, Admitted, Raise
  <2> QED BY <1>4, <2>1, <2>2, <2>3, <2>4 DEF StepRaises
<1>5. ASSUME ScriptRejected PROVE IInv'
  <2>1. TypeOK'
    BY <1>5, NoScriptType, Observed, BoundsAssumption
       DEF TypeOK, ScriptRejected, Admitted, Answer, Codes, Rejections, TERMINAL_ERROR_CODES
  <2>2. Bill'
    BY <1>5 DEF TypeOK, Bill, Live, ScriptRejected, Admitted, Answer
  <2>3. Calls'
    BY <1>5, NoScriptType DEF TypeOK, Calls, ScriptRejected, Admitted, Answer
  <2>4. Latch'
    BY <1>5, NoScriptType DEF TypeOK, Calls, Latch, Won, ScriptRejected, Admitted, Answer
  <2> QED BY <1>5, <2>1, <2>2, <2>3, <2>4 DEF ScriptRejected
<1>6. ASSUME IssueRaises PROVE IInv'
  <2>1. TypeOK'
    <3>1. obs' \in Obs
      BY <1>6, Observed DEF IssueRaises, Raise, Codes
    <3>2. iss' \in [left : 0 .. MaxIssue, ceiling : Int, before : Nat]
      BY <1>6, BoundsAssumption DEF IssueRaises, NoIssue
    <3> QED BY <1>6, <3>1, <3>2, NoScriptType DEF TypeOK, IssueRaises, Raise
  <2>2. Bill'
    BY <1>6 DEF TypeOK, Bill, Live, IssueRaises, Sending, Raise
  <2>3. Calls'
    BY <1>6, NoScriptType DEF TypeOK, Calls, IssueRaises, Sending, Raise
  <2>4. Latch'
    BY <1>6, NoScriptType DEF TypeOK, Calls, Latch, Won, IssueRaises, Sending, Raise
  <2> QED BY <1>6, <2>1, <2>2, <2>3, <2>4 DEF IssueRaises
<1>7. ASSUME WorkerDies PROVE IInv'
  <2>1. TypeOK'
    BY <1>7, NoScriptType, Observed, BoundsAssumption
       DEF TypeOK, WorkerDies, Won, Codes, Rejections, TERMINAL_ERROR_CODES
  <2>2. Bill'
    BY <1>7 DEF TypeOK, Bill, Live, WorkerDies, Won
  <2>3. Calls'
    BY <1>7, NoScriptType DEF TypeOK, Calls, WorkerDies, Won
  <2>4. Latch'
    BY <1>7, NoScriptType DEF TypeOK, Calls, Latch, Won, WorkerDies
  <2> QED BY <1>7, <2>1, <2>2, <2>3, <2>4 DEF WorkerDies
<1>8. ASSUME Close PROVE IInv'
  <2>1. TypeOK'
    BY <1>8, NoScriptType, Observed, BoundsAssumption
       DEF TypeOK, Close, Idle, Codes, Rejections, TERMINAL_ERROR_CODES
  <2>2. Bill'
    BY <1>8 DEF TypeOK, Bill, Live, Close, Idle
  <2>3. Calls'
    BY <1>8, NoScriptType DEF TypeOK, Calls, Close, Idle
  <2>4. Latch'
    BY <1>8, NoScriptType DEF TypeOK, Calls, Latch, Won, Close, Idle
  <2> QED BY <1>8, <2>1, <2>2, <2>3, <2>4 DEF Close
<1> QED BY <1>1, <1>2, <1>3, <1>4, <1>5, <1>6, <1>7, <1>8

(* The start of a dram.issue and each primitive it sends keep the invariant. *)
LEMMA IssueLoopKeeps ==
  ASSUME IInv, IssueBegin \/ IssueSend
  PROVE  IInv'
<1> USE DEF IInv
<1>1. ASSUME IssueBegin PROVE IInv'
  <2>1. PICK n \in 0 .. MaxIssue :
          iss' = [left |-> n, ceiling |-> _issue_acts_ceiling, before |-> cycle]
    BY <1>1 DEF IssueBegin
  <2>2. _issue_acts_ceiling \in Int /\ (budget.acts >= 0 => _issue_acts_ceiling = actsPrev + budget.acts)
    BY DEF TypeOK, _issue_acts_ceiling, Pos
  <2>3. TypeOK'
    BY <1>1, <2>1, <2>2 DEF TypeOK, IssueBegin
  <2>4. Bill'
    <3> SUFFICES ASSUME Live' PROVE Bill'
      BY DEF Bill
    <3>1. Live
      BY <1>1 DEF IssueBegin, Live
    <3>2. budget.capped => pubActs < _issue_acts_ceiling + MaxActs
      BY <1>1, <2>2, <3>1, BoundsAssumption DEF IssueBegin, Admitted, Bill, TypeOK
    <3> QED BY <1>1, <2>1, <2>2, <3>1, <3>2 DEF IssueBegin, Admitted, Bill, TypeOK
  <2>5. Calls'
    BY <1>1 DEF TypeOK, Calls, IssueBegin, Admitted
  <2>6. Latch'
    BY <1>1 DEF Latch, Won, IssueBegin
  <2> QED BY <1>1, <2>3, <2>4, <2>5, <2>6 DEF IssueBegin
<1>2. ASSUME IssueSend PROVE IInv'
  <2>1. PICK a \in 0 .. MaxActs, c \in 0 .. MaxCycles, tgt \in Targets : Reported(a, c, tgt)
    BY <1>2 DEF IssueSend
  <2>2. /\ simActs' = simActs + a /\ pubActs' = simActs + a /\ cycle' = cycle + c
        /\ target' \in Targets /\ engine' = engine
        /\ a \in Nat /\ a <= MaxActs /\ c \in Nat
    BY <2>1, BoundsAssumption DEF Reported
  <2>3. TypeOK'
    <3>1. iss' \in [left : 0 .. MaxIssue, ceiling : Int, before : Nat]
      BY <1>2, BoundsAssumption DEF TypeOK, IssueSend, Sending
    <3> QED BY <1>2, <2>2, <3>1 DEF TypeOK, IssueSend
  <2>4. Bill'
    <3> SUFFICES ASSUME Live' PROVE Bill'
      BY DEF Bill
    <3>1. Live
      BY <1>2 DEF IssueSend, Live
    <3>2. budget.capped => pubActs < iss.ceiling
      BY <1>2 DEF IssueSend, Sending, AtCeiling, TypeOK
    <3> QED BY <1>2, <2>2, <3>1, <3>2, BoundsAssumption DEF IssueSend, Sending, Bill, TypeOK
  <2>5. Calls'
    BY <1>2 DEF TypeOK, Calls, IssueSend, Sending
  <2>6. Latch'
    BY <1>2 DEF Calls, Latch, IssueSend, Sending
  <2> QED BY <1>2, <2>2, <2>3, <2>4, <2>5, <2>6 DEF IssueSend, TypeOK
<1> QED BY <1>1, <1>2

(* episode.finish and the ways a script.run ends keep the invariant.          *)
LEMMA EndingsKeep ==
  ASSUME IInv, Finish \/ ScriptBegin \/ ScriptResult \/ ScriptTimeout \/ ScriptViolation
  PROVE  IInv'
<1> USE DEF IInv
<1>1. ASSUME Finish PROVE IInv'
  <2>1. CASE /\ Blind(target, worker) /\ BlindReturn /\ UNCHANGED <<chargeVars, success>>
             /\ pc' = "idle" /\ UNCHANGED <<simVars, configVars, countVars, iss>>
    <3>1. TypeOK'
      <4>1. obs' \in Obs
        BY <2>1, Observed DEF BlindReturn, Refuse, Raise, Codes, TERMINAL_ERROR_CODES
      <4>2. script' = script \/ script' = NoScript
        BY <2>1 DEF BlindReturn, Raise
      <4> QED BY <2>1, <4>1, <4>2, NoScriptType DEF TypeOK, BlindReturn, Refuse
    <3>2. ~Live'
      BY <2>1 DEF BlindReturn, Refuse, Raise, Live
    <3>3. Calls'
      BY <1>1, <2>1, NoScriptType DEF TypeOK, Calls, BlindReturn, Refuse, Raise
    <3>4. Latch'
      BY <2>1, NoScriptType DEF TypeOK, Latch, BlindReturn, Refuse, Raise, Blind, Won
    <3> QED BY <2>1, <3>1, <3>2, <3>3, <3>4 DEF Bill
  <2>2. CASE /\ ~Blind(target, worker) /\ success' = Won(target, worker)
             /\ budget' = Charged(pubActs, 0) /\ actsPrev' = ActsPrevAfter(pubActs)
             /\ Answer(CodeAfter("OK"), TRUE, success')
             /\ episodeDone' = TRUE /\ worker' = "none" /\ UNCHANGED script
             /\ pc' = "idle" /\ UNCHANGED <<simVars, configVars, countVars, iss>>
    <3>1. /\ budget' \in [tool_calls : Int, cycles : Int, acts : Int, capped : BOOLEAN]
          /\ budget'.capped = budget.capped /\ budget'.tool_calls = budget.tool_calls - 1
      <4>1. TypeOK
        OBVIOUS
      <4>2. pubActs \in Nat /\ 0 \in Int
        BY DEF TypeOK
      <4> QED BY <2>2, <4>1, <4>2, ChargedFacts
    <3>2. TypeOK'
      <4>1. success' \in BOOLEAN
        BY <2>2 DEF Won, TypeOK
      <4>2. CodeAfter("OK") \in Codes
        BY DEF CodeAfter, Codes, TERMINAL_ERROR_CODES
      <4>3. obs' \in Obs
        BY <2>2, <4>1, <4>2, Observed DEF Answer
      <4> QED BY <2>2, <3>1, <4>1, <4>3 DEF TypeOK, ActsPrevAfter
    <3>3. Calls'
      BY <1>1, <2>2, <3>1 DEF Finish, Admitted, Calls, TypeOK
    <3>4. Latch'
      BY <2>2 DEF Latch, Won
    <3> QED BY <2>2, <3>1, <3>2, <3>3, <3>4 DEF Bill, Live, ActsPrevAfter, TypeOK
  <2> QED BY <1>1, <2>1, <2>2 DEF Finish
<1>2. ASSUME ScriptBegin PROVE IInv'
  <2>1. /\ max_calls \in 0 .. ScriptCallCap /\ max_calls <= budget.tool_calls
    BY <1>2, BoundsAssumption DEF ScriptBegin, Admitted, max_calls, Least, TypeOK
  <2>2. TypeOK'
    BY <1>2, <2>1 DEF TypeOK, ScriptBegin
  <2>3. Bill'
    BY <1>2 DEF Bill, Live, ScriptBegin, Admitted
  <2>4. Calls'
    BY <1>2, <2>1 DEF TypeOK, Calls, ScriptBegin, Admitted
  <2>5. Latch'
    BY <1>2 DEF Latch, ScriptBegin, Admitted
  <2> QED BY <1>2, <2>2, <2>3, <2>4, <2>5 DEF ScriptBegin
<1>3. ASSUME ScriptResult PROVE IInv'
  <2>1. TypeOK'
    <3>1. success' \in BOOLEAN /\ episodeDone' \in BOOLEAN
      BY <1>3 DEF ScriptResult, ScriptReports, ScriptBlind, ScriptDone, Won, TypeOK
    <3>2. obs' \in Obs
      <4>1. CASE ScriptReports
        <5>1. "OK" \in Codes /\ ScriptDone \in BOOLEAN
          BY <3>1 DEF ScriptDone, Codes, TypeOK
        <5> QED BY <4>1, <3>1, <5>1, Observed DEF ScriptReports
      <4>2. CASE ScriptBlind
        BY <4>2, Observed DEF ScriptBlind, Codes, TERMINAL_ERROR_CODES
      <4> QED BY <1>3, <4>1, <4>2 DEF ScriptResult
    <3> QED BY <1>3, <3>1, <3>2, NoScriptType DEF TypeOK, ScriptResult, ScriptReports, ScriptBlind
  <2>2. Bill'
    BY <1>3 DEF Bill, Live, ScriptResult, ScriptReports, ScriptBlind, ScriptDone
  <2>3. Calls'
    BY <1>3, NoScriptType DEF TypeOK, Calls, ScriptResult
  <2>4. Latch'
    <3>1. ~script'.on
      BY <1>3, NoScriptType DEF ScriptResult
    <3>2. success' => episodeDone' \/ resumed'
      BY <1>3 DEF TypeOK, Latch, ScriptResult, ScriptReports, ScriptBlind, ScriptDone, Blind
    <3> QED BY <3>1, <3>2 DEF Latch
  <2> QED BY <1>3, <2>1, <2>2, <2>3, <2>4 DEF ScriptResult
<1>4. ASSUME NEW code \in {"SCRIPT_TIMEOUT", "SANDBOX_VIOLATION"}, ScriptError(code) PROVE IInv'
  <2>1. TypeOK'
    <3>1. obs' \in Obs
      BY <1>4, Observed DEF ScriptError, Codes, Rejections
    <3> QED BY <1>4, <3>1, NoScriptType DEF TypeOK, ScriptError
  <2> QED BY <1>4, <2>1, NoScriptType DEF ScriptError, Bill, Live, Calls, Latch
<1> QED BY <1>1, <1>2, <1>3, <1>4 DEF ScriptTimeout, ScriptViolation

(* What a reset that raises at stage "task" does.                            *)
Readmits ==
  /\ Idle
  /\ episodeDone' = FALSE
  /\ ResetAnswer("RAISED", FALSE)
  /\ resumed' = (resumed \/ episodeDone)
  /\ UNCHANGED <<worker, simVars, compiled, reads, initial, chargeVars, success,
                 countVars, pc, iss, script>>

(* A reset starts the ledger afresh, or leaves it alone: a task that is       *)
(* refused ends the episode, one that raises re-admits it.                   *)
LEMMA ResetKeeps ==
  ASSUME IInv, Reset
  PROVE  IInv'
<1> USE DEF IInv
<1>1. pc' = "idle" /\ ~script'.on /\ UNCHANGED <<pc, iss, script>>
  BY DEF Reset, ResetOk, ResetBadTask, ResetBadConfig, ResetFails, ResetRaises, Configure, Idle
<1>2. obs' \in Obs
  BY Observed DEF Reset, ResetOk, ResetBadTask, ResetBadConfig, ResetFails, ResetRaises,
     ResetAnswer, Codes, Rejections, TERMINAL_ERROR_CODES
<1>3. CASE ResetBadTask
  <2>1. TypeOK'
    BY <1>2, <1>3 DEF TypeOK, ResetBadTask
  <2> QED BY <1>1, <1>3, <2>1 DEF ResetBadTask, Bill, Live, Calls, Latch, Idle
<1>4. CASE Configure /\ ~ResetBadTask /\ ~Readmits
  <2>1. /\ initial' \in Budgets /\ budget' = initial' /\ actsPrev' = 0 /\ ~success'
        /\ resumed' = FALSE
        /\ initial' \in Dict /\ reads' \in BOOLEAN /\ success' \in BOOLEAN
    BY <1>4, BudgetsAssumption DEF Configure
  <2>2. budget' \in [tool_calls : Int, cycles : Int, acts : Int, capped : BOOLEAN]
    BY <2>1 DEF Dict
  <2>3. /\ worker' \in {"none", "up", "dead"} /\ target' \in Targets
        /\ engine' \in BOOLEAN /\ compiled' \in BOOLEAN /\ episodeDone' \in BOOLEAN
    BY <1>3, <1>4 DEF Reset, ResetOk, ResetBadConfig, ResetFails, ResetRaises, ResetBadTask,
       FreshWorker, OldOverlay, TypeOK, Targets
  <2>4. /\ simActs' \in Nat /\ pubActs' \in Nat /\ cycle' \in Nat
        /\ pubActs' <= simActs'
        /\ compiled' => (simActs' = 0 /\ pubActs' = 0 /\ cycle' = 0)
    <3>1. CASE ResetOk \/ ResetFails
      <4>1. simActs' = 0 /\ pubActs' = 0 /\ cycle' = 0
        BY <3>1 DEF ResetOk, ResetFails, FreshWorker
      <4> QED BY <4>1
    <3>2. CASE ResetBadConfig
      <4>1. ~compiled' /\ simActs' = simActs /\ pubActs' = pubActs /\ cycle' = cycle
        BY <3>2 DEF ResetBadConfig
      <4> QED BY <4>1 DEF TypeOK
    <3>3. CASE ResetRaises
      <4>1. \/ simActs' = 0 /\ pubActs' = 0 /\ cycle' = 0
            \/ ~compiled' /\ simActs' = simActs /\ pubActs' = pubActs /\ cycle' = cycle
        BY <1>4, <3>3 DEF ResetRaises, Readmits, FreshWorker
      <4> QED BY <4>1 DEF TypeOK
    <3> QED BY <1>4, <3>1, <3>2, <3>3 DEF Reset
  <2>5. TypeOK'
    BY <1>1, <1>2, <2>1, <2>2, <2>3, <2>4 DEF TypeOK
  <2>6. Bill'
    BY <1>1, <2>1, <2>4 DEF Bill, Live, Dict
  <2> QED BY <1>1, <2>1, <2>2, <2>4, <2>5, <2>6 DEF Calls, Latch, Dict
<1>5. CASE Readmits
  <2>1. TypeOK'
    BY <1>2, <1>5 DEF TypeOK, Readmits
  <2> QED BY <1>1, <1>5, <2>1 DEF Readmits, Bill, Live, Calls, Latch, Idle, TypeOK, Won
<1> QED BY <1>3, <1>4, <1>5 DEF Reset, ResetOk, ResetBadConfig, ResetFails, ResetRaises, Readmits

(* Every step keeps the invariant.                                           *)
LEMMA NextKeeps == IInv /\ [Next]_vars => IInv'
<1> SUFFICES ASSUME IInv, [Next]_vars PROVE IInv'
  OBVIOUS
<1>1. CASE UNCHANGED vars
  BY <1>1 DEF vars, IInv, TypeOK, Bill, Live, Calls, Latch, Won
<1>2. CASE Next
  BY <1>2, ReturningKeeps, CallsKeep, IssueLoopKeeps, EndingsKeep, ResetKeeps
     DEF Next, Tool, Loop, Broker
<1> QED BY <1>1, <1>2

-----------------------------------------------------------------------------
(* The ledger holds in every reachable state.                                *)
THEOREM Ledger == Spec => []IInv
<1>1. Init => IInv
  BY InitHolds
<1>2. IInv /\ [Next]_vars => IInv'
  BY NextKeeps
<1> QED BY <1>1, <1>2, PTL DEF Spec

(* Every variable keeps its type and a script its limit (_handle_tool).      *)
THEOREM TypeCorrect == Spec => []TypeOK
<1>1. IInv => TypeOK
  BY DEF IInv
<1> QED BY <1>1, Ledger, PTL

(* An episode that may still drive the simulator has paid for all it did,    *)
(* whatever the budgets, the bursts and the failures (_charge).              *)
THEOREM BudgetsAreHonest == Spec => []Solvent
<1>1. IInv => Solvent
  BY DEF IInv, Bill, Calls, Solvent
<1> QED BY <1>1, Ledger, PTL

(* One dram.issue overruns what is left by less than one primitive, for any  *)
(* length of issue and any burst (_issue_acts_ceiling).                      *)
THEOREM IssueOverrunIsOnePrimitive == Spec => []IssueIsTruncated
<1>1. IInv => IssueIsTruncated
  BY DEF IInv, Bill, IssueIsTruncated
<1> QED BY <1>1, Ledger, PTL

(* The bill is exact: no activation and no cycle escapes it (_charge, the    *)
(* partial results of _issue, scripts).                                      *)
THEOREM BillIsExact == Spec => []Accounted
<1>1. IInv => Accounted
  <2> SUFFICES ASSUME IInv, pc = "idle", Live
               PROVE  /\ budget.cycles = initial.cycles - cycle
                      /\ budget.capped => budget.acts = initial.acts - simActs
    BY DEF Accounted
  <2> QED BY DEF IInv, Bill
<1> QED BY <1>1, Ledger, PTL

(* A running script always fits the tool calls that are left (_script's      *)
(* max_calls, _handle_tool's count).                                         *)
THEOREM ScriptsFit == Spec => []ScriptFits
<1>1. IInv => ScriptFits
  BY DEF IInv, Calls, ScriptFits, TypeOK
<1> QED BY <1>1, Ledger, PTL

(* The tail of a dram.* call tells the outcome: a call of the policy is        *)
(* answered done exactly if it ended the episode.                            *)
LEMMA ReturnTells ==
  ASSUME IInv, ~episodeDone, NEW code, NEW oActs, NEW spent, NEW tgt,
         Return(code, oActs, spent, tgt)
  PROVE  DoneIsTold'
<1>1. CASE Blind(tgt, worker) /\ BlindReturn
  BY <1>1 DEF BlindReturn, Refuse, Raise, DoneIsTold
<1>2. CASE ~Blind(tgt, worker)
  <2>1. success' \in BOOLEAN
    BY <1>2 DEF Return, Won, IInv, TypeOK
  <2>2. PICK c : \E done \in BOOLEAN :
          Answer(c, done, success') /\ episodeDone' = (episodeDone \/ done)
    BY <1>2, <2>1 DEF Return
  <2> QED BY <2>2 DEF Answer, DoneIsTold
<1> QED BY <1>1, <1>2 DEF Return

(* Every step keeps what the last observation says in step with the episode. *)
LEMMA StepTells ==
  ASSUME IInv, DoneIsTold, [Next]_vars
  PROVE  DoneIsTold'
<1>1. CASE \E code, oActs, spent, tgt : Return(code, oActs, spent, tgt) /\ ~episodeDone
  BY <1>1, ReturnTells
<1>2. ASSUME StepLocal \/ StepAccess \/ StepAccessRejected \/ StepAccessFails
      PROVE  DoneIsTold'
  BY <1>1, <1>2 DEF StepLocal, StepAccess, StepAccessRejected, StepAccessFails, Admitted
<1>3. ASSUME IssueDone \/ IssueTruncated \/ IssueRejected \/ IssueFails
      PROVE  DoneIsTold'
  <2>1. ~episodeDone
    BY <1>3 DEF IssueDone, IssueTruncated, IssueRejected, IssueFails, Sending, IInv, Calls
  <2> QED BY <1>1, <1>3, <2>1 DEF IssueDone, IssueTruncated, IssueRejected, IssueFails
<1>4. ASSUME PolicyCall \/ BrokerCall \/ IssueBegin \/ IssueSend \/ ScriptBegin
      PROVE  DoneIsTold'
  BY <1>4 DEF PolicyCall, BrokerCall, IssueBegin, IssueSend, Sending, ScriptBegin, Counted,
              IInv, TypeOK, DoneIsTold, Idle
<1>5. ASSUME StepRefused PROVE DoneIsTold'
  BY <1>5 DEF StepRefused, Refuse, DoneIsTold
<1>6. ASSUME StepRaises \/ IssueRaises \/ ScriptTimeout \/ ScriptViolation \/ ResetRaises
      PROVE  DoneIsTold'
  BY <1>6 DEF StepRaises, IssueRaises, Raise, ScriptTimeout, ScriptViolation, ScriptError,
              ResetRaises, ResetAnswer, DoneIsTold
<1>7. ASSUME Finish PROVE DoneIsTold'
  <2>1. CASE BlindReturn
    BY <2>1 DEF BlindReturn, Refuse, Raise, DoneIsTold
  <2>2. CASE Answer(CodeAfter("OK"), TRUE, success') /\ episodeDone' = TRUE
    BY <2>2 DEF Answer, DoneIsTold
  <2> QED BY <1>7, <2>1, <2>2 DEF Finish
<1>8. ASSUME ScriptRejected PROVE DoneIsTold'
  BY <1>8 DEF ScriptRejected, Admitted, Answer, DoneIsTold
<1>9. ASSUME ScriptResult PROVE DoneIsTold'
  <2>1. success' \in BOOLEAN /\ episodeDone' \in BOOLEAN
    BY <1>9 DEF ScriptResult, ScriptReports, ScriptBlind, ScriptDone, Won, IInv, TypeOK
  <2>2. CASE ScriptReports
    BY <2>1, <2>2 DEF ScriptReports, ScriptDone, DoneIsTold
  <2>3. CASE ScriptBlind
    BY <2>3 DEF ScriptBlind, DoneIsTold
  <2> QED BY <1>9, <2>2, <2>3 DEF ScriptResult
<1>10. ASSUME WorkerDies \/ Close \/ UNCHANGED vars PROVE DoneIsTold'
  BY <1>10 DEF WorkerDies, Close, vars, DoneIsTold, Idle
<1>11. ASSUME ResetOk \/ ResetBadTask \/ ResetBadConfig \/ ResetFails PROVE DoneIsTold'
  BY <1>11 DEF ResetOk, ResetBadTask, ResetBadConfig, ResetFails, ResetAnswer, DoneIsTold
<1> QED BY <1>2, <1>3, <1>4, <1>5, <1>6, <1>7, <1>8, <1>9, <1>10, <1>11
        DEF Next, Tool, Loop, Broker, Reset

(* Between calls, the last observation of an outer call says done exactly if  *)
(* the episode is over (_dispatch, _script, _refuse).                        *)
THEOREM DoneIsAlwaysTold == Spec => []DoneIsTold
<1>1. Init => DoneIsTold
  BY DEF Init, DoneIsTold
<1>2. IInv /\ DoneIsTold /\ [Next]_vars => DoneIsTold'
  BY StepTells
<1> QED BY <1>1, <1>2, Ledger, PTL DEF Spec

(* What a call of step() may change once the episode is over.                *)
LEMMA OverIsFrozen ==
  ASSUME IInv, [Next]_vars, episodeDone, ~Reset
  PROVE  UNCHANGED <<simActs, target, engine, budget, success, episodeDone>>
<1>0. pc # "issue"
  BY DEF IInv, Calls
<1>1. CASE UNCHANGED vars
  BY <1>1 DEF vars
<1>2. CASE PolicyCall \/ WorkerDies \/ Close \/ BrokerCall \/ ScriptTimeout \/ ScriptViolation
  BY <1>2 DEF PolicyCall, WorkerDies, Close, BrokerCall, ScriptTimeout, ScriptViolation, ScriptError
<1>3. CASE Tool
  BY <1>3 DEF Tool, StepRefused, Refuse, StepLocal, StepAccess, StepAccessRejected,
     StepAccessFails, StepRaises, IssueBegin, Finish, ScriptRejected, ScriptBegin, Admitted
<1>4. CASE Loop
  BY <1>0, <1>4 DEF Loop, IssueSend, IssueDone, IssueTruncated, IssueRejected, IssueFails,
     IssueRaises, Sending
<1>5. CASE ScriptResult
  BY <1>5 DEF ScriptResult, ScriptReports, ScriptBlind, ScriptDone, Won, IInv, TypeOK, Latch
<1> QED BY <1>1, <1>2, <1>3, <1>4, <1>5 DEF Next, Broker

(* Once over, an episode stays over until a reset, and nothing it is billed  *)
(* or paid for changes (step()'s first guard).                               *)
THEOREM OverStaysOver == Spec => OverIsOver
<1>1. IInv /\ [Next]_vars =>
        [episodeDone => Reset \/ UNCHANGED <<simVars, budget, success, episodeDone>>]_vars
  BY OverIsFrozen
<1> QED BY <1>1, Ledger, PTL DEF Spec, OverIsOver

-----------------------------------------------------------------------------
(* The tail of a dram.* call is one Act of the contract.                     *)
LEMMA ReturnActs ==
  ASSUME IInv, IInv', ~episodeDone, budget.tool_calls > 0,
         NEW code, NEW oActs, NEW spent, NEW tgt,
         simActs' \in Nat, simActs' >= simActs, Return(code, oActs, spent, tgt)
  PROVE  Contract!Act
<1>1. budget'.tool_calls = budget.tool_calls - 1
  BY DEF Return, Charged
<1>2. /\ success' \in BOOLEAN /\ episodeDone' \in BOOLEAN
      /\ success => success'
      /\ success' => episodeDone' \/ success
  BY DEF IInv, TypeOK, Return, Won
<1> QED BY <1>1, <1>2 DEF Contract!Act

(* Each step is one of the contract's or changes nothing it speaks of.       *)
LEMMA StepRefines ==
  ASSUME IInv, [Next]_vars, IInv'
  PROVE  [Contract!Next]_Contract!vars
<1> DEFINE Same == UNCHANGED <<episodeDone, budget, success, simActs>>
<1>0. Same => UNCHANGED Contract!vars
  BY DEF Contract!vars
<1>1. CASE \/ UNCHANGED vars \/ PolicyCall \/ WorkerDies \/ Close \/ BrokerCall
           \/ ScriptTimeout \/ ScriptViolation \/ StepRaises \/ IssueBegin
           \/ ScriptRejected \/ ScriptBegin \/ IssueRaises
  BY <1>0, <1>1 DEF vars, PolicyCall, WorkerDies, Close, BrokerCall, ScriptTimeout,
     ScriptViolation, ScriptError, StepRaises, IssueBegin, ScriptRejected, ScriptBegin,
     IssueRaises
<1>2. CASE StepRefused
  <2>1. CASE episodeDone
    BY <1>0, <1>2, <2>1 DEF StepRefused, Refuse, IInv, TypeOK
  <2>2. CASE ~episodeDone
    BY <1>2, <2>2 DEF StepRefused, Refuse, Contract!Next, Contract!End, IInv, TypeOK
  <2> QED BY <2>1, <2>2
<1>3. CASE StepLocal \/ StepAccess \/ StepAccessRejected \/ StepAccessFails
  <2>1. PICK code, oActs, spent, tgt : Return(code, oActs, spent, tgt)
    BY <1>3 DEF StepLocal, StepAccess, StepAccessRejected, StepAccessFails
  <2>2. ~episodeDone /\ budget.tool_calls > 0
    BY <1>3 DEF StepLocal, StepAccess, StepAccessRejected, StepAccessFails, Admitted
  <2>3. simActs' >= simActs
    BY <1>3, BoundsAssumption DEF StepLocal, StepAccess, StepAccessRejected, StepAccessFails,
       Reported, Lost, IInv, TypeOK
  <2>4. Contract!Act
    BY <2>1, <2>2, <2>3, ReturnActs DEF IInv, TypeOK
  <2> QED BY <2>4 DEF Contract!Next
<1>4. CASE IssueDone \/ IssueTruncated \/ IssueRejected \/ IssueFails
  <2>1. PICK code, oActs, spent, tgt : Return(code, oActs, spent, tgt)
    BY <1>4 DEF IssueDone, IssueTruncated, IssueRejected, IssueFails
  <2>2. ~episodeDone /\ budget.tool_calls > 0
    BY <1>4 DEF IssueDone, IssueTruncated, IssueRejected, IssueFails, Sending, IInv, Calls
  <2>3. simActs' >= simActs
    BY <1>4, BoundsAssumption DEF IssueDone, IssueTruncated, IssueRejected, IssueFails,
       Reported, Lost, IInv, TypeOK
  <2>4. Contract!Act
    BY <2>1, <2>2, <2>3, ReturnActs DEF IInv, TypeOK
  <2> QED BY <2>4 DEF Contract!Next
<1>5. CASE IssueSend
  <2>1. ~episodeDone /\ budget.tool_calls > 0
    BY <1>5 DEF IssueSend, Sending, IInv, Calls
  <2>2. simActs' >= simActs /\ simActs' \in Nat
    BY <1>5, BoundsAssumption DEF IssueSend, Reported, IInv, TypeOK
  <2>3. Contract!Act
    BY <1>5, <2>1, <2>2 DEF IssueSend, Contract!Act, IInv, TypeOK
  <2> QED BY <2>3 DEF Contract!Next
<1>6. CASE Finish
  <2>1. ~episodeDone /\ budget.tool_calls > 0 /\ (success => success')
    <3>1. ~episodeDone /\ budget.tool_calls > 0
      BY <1>6 DEF Finish, Admitted
    <3>2. CASE success' = success
      BY <3>1, <3>2
    <3>3. CASE success' = Won(target, worker)
      BY <3>1, <3>3 DEF Won
    <3> QED BY <1>6, <3>2, <3>3 DEF Finish
  <2>2. CASE UNCHANGED <<chargeVars, success>> /\ UNCHANGED simVars
    BY <2>1, <2>2, <1>0 DEF IInv, TypeOK, Contract!Next, Contract!End
  <2>3. CASE /\ budget' = Charged(pubActs, 0) /\ episodeDone' = TRUE
             /\ UNCHANGED simVars
    <3>1. budget'.tool_calls = budget.tool_calls - 1
      BY <2>3 DEF Charged
    <3> QED BY <2>1, <2>3, <3>1 DEF IInv, TypeOK, Contract!Next, Contract!Act
  <2> QED BY <1>6, <2>2, <2>3 DEF Finish
<1>7. CASE ScriptResult
  <2>1. CASE episodeDone
    BY <1>0, <1>7, <2>1, OverIsFrozen
       DEF ScriptResult, ScriptReports, ScriptBlind, ScriptDone, Won, IInv, TypeOK, Latch
  <2>2. CASE ~episodeDone
    <3>1. success => success'
      BY <1>7 DEF ScriptResult, ScriptReports, ScriptBlind, Won, IInv, TypeOK
    <3>2. UNCHANGED budget /\ UNCHANGED simActs
      BY <1>7 DEF ScriptResult
    <3>3. CASE episodeDone'
      BY <2>2, <3>1, <3>2, <3>3 DEF Contract!Next, Contract!End, IInv, TypeOK
    <3>4. CASE ~episodeDone'
      <4>1. UNCHANGED success
        BY <1>7, <3>1, <3>4 DEF ScriptResult, ScriptReports, ScriptBlind, ScriptDone, IInv, TypeOK
      <4>2. UNCHANGED episodeDone
        BY <2>2, <3>4 DEF IInv, TypeOK
      <4> QED BY <1>0, <3>2, <4>1, <4>2
    <3> QED BY <3>3, <3>4
  <2> QED BY <2>1, <2>2
<1>8. CASE Reset
  <2>1. CASE ResetBadTask
    BY <2>1 DEF ResetBadTask, Contract!Next, Contract!Abandon
  <2>2. CASE Configure /\ ~ResetBadTask
    <3>1. budget'.tool_calls \in Nat /\ success' = FALSE
      BY <2>2, BudgetsAssumption DEF Configure, Dict
    <3>2. simActs' \in {0, simActs}
      BY <1>8, <2>2 DEF Reset, ResetOk, ResetBadConfig, ResetFails, ResetRaises, FreshWorker
    <3> QED BY <3>1, <3>2 DEF Contract!Next, Contract!Restart, IInv, TypeOK
  <2>3. CASE Readmits
    <3>1. UNCHANGED <<budget, success, simActs>> /\ episodeDone' = FALSE
      BY <2>3 DEF Readmits
    <3>2. CASE episodeDone
      BY <3>1, <3>2 DEF Contract!Next, Contract!Readmit
    <3>3. CASE ~episodeDone
      BY <1>0, <3>1, <3>3 DEF IInv, TypeOK
    <3> QED BY <3>2, <3>3
  <2> QED BY <1>8, <2>1, <2>2, <2>3 DEF Readmits, Reset, ResetOk, ResetBadConfig, ResetFails, ResetRaises
<1> QED BY <1>1, <1>2, <1>3, <1>4, <1>5, <1>6, <1>7, <1>8 DEF Next, Tool, Loop, Broker

(* The session implements the episode a trainer relies on: work only while   *)
(* calls can pay for it, one call charged at a time, a reward that ends the   *)
(* episode, and nothing after the end but a reset (reset(), step()).         *)
THEOREM SessionKeepsContract == Spec => ImplementsContract
<1>1. Init => Contract!Init
  BY BudgetsAssumption DEF Init, Contract!Init, Dict
<1>2. IInv /\ [Next]_vars /\ IInv' => [Contract!Next]_Contract!vars
  BY StepRefines
<1> QED BY <1>1, <1>2, Ledger, PTL DEF Spec, ImplementsContract, Contract!Spec
=============================================================================
