------------------------------- MODULE TaskEnv -------------------------------
(***************************************************************************)
(* One session of RowHammerTaskEnv: reset, step, script.run and the        *)
(* dram.issue loop, from rowhammer_env/phase5_env.py and the two classes it *)
(* extends (phase4_env.py, phase2_env.py).  The ramulator worker appears    *)
(* through what a request can do: issue activations, advance the clock and  *)
(* change the disturbance overlay at the task's target.                     *)
(*                                                                         *)
(* A call of step() is three moments: the call arrives (pc = "step"), its   *)
(* tool runs (a dram.issue runs one primitive at a time, pc = "issue"), and *)
(* it returns (pc = "idle").  The worker process may die between any two.   *)
(* A script.run keeps script.on while its child process brokers inner calls *)
(* of the same step().                                                      *)
(***************************************************************************)
EXTENDS Integers

CONSTANTS
  Budgets,        \* budget dictionaries an episode may start with
  MaxActs,        \* bound: activations one worker request issues
  MaxCycles,      \* bound: controller cycles one worker request takes
  MaxIssue,       \* bound: primitives of one dram.issue
  MaxStale,       \* bound: clock and activations of a worker that a reset that
                  \* raises may leave in place
  ScriptCallCap,  \* broker's cap on the calls of one script (10_000 in the code)
  WorkerMayDie,   \* may the worker process exit while the episode runs?
  RaisesAt        \* the stages of reset() an exception may escape from

(* A budget dictionary has tool_calls and cycles entries (task.schema.json     *)
(* requires them); capped says whether it has an acts entry as well.         *)
Dict == [tool_calls : Nat, cycles : Nat, acts : Nat, capped : BOOLEAN]

(* Parsing the task, publishing the worker configuration, starting the       *)
(* simulation.                                                               *)
Stages == {"task", "config", "worker"}

ASSUME BudgetsAssumption == Budgets # {} /\ Budgets \subseteq Dict
ASSUME BoundsAssumption ==
  /\ MaxActs \in Nat \ {0} /\ MaxCycles \in Nat
  /\ MaxIssue \in Nat /\ MaxStale \in Nat /\ ScriptCallCap \in Nat
  /\ WorkerMayDie \in BOOLEAN /\ RaisesAt \subseteq Stages

VARIABLES
  worker,       \* self._worker: "none", "up", or "dead" (the process exited)
  simActs,      \* ACTs the worker's DRAM has issued since the worker started
  target,       \* the overlay at the task's target, as the predicate sees it
  engine,       \* has a disturbance engine been built?
  compiled,     \* self._compiled is not None
  reads,        \* does the task's predicate read the stored target byte?
  resumed,      \* (history) a reset that raised re-admitted the last episode
  budget,       \* self.budget_remaining
  initial,      \* self.initial_budgets, as of the last reset
  actsPrev,     \* self._acts_prev
  pubActs,      \* self._public_counters["acts"]
  cycle,        \* self._state.cycle
  success,      \* self.success
  episodeDone,  \* self._episode_done
  pc,           \* where the running call of step() is
  iss,          \* locals of _issue: primitives left, ceiling, cycle at entry
  script,       \* the running broker: on, calls made, max_calls
  obs           \* the observation the last call of reset() or step() returned

simVars    == <<simActs, target, engine>>
configVars == <<compiled, reads, initial, resumed>>
chargeVars == <<budget, actsPrev>>
latchVars  == <<success, episodeDone>>
countVars  == <<pubActs, cycle>>
vars == <<worker, simVars, configVars, chargeVars, latchVars, countVars,
          pc, iss, script, obs>>

NoIssue  == [left |-> 0, ceiling |-> 0, before |-> 0]
NoScript == [on |-> FALSE, calls |-> 0, max |-> 0]

(* REJECTED stands for the codes that reject one action or one reset and say *)
(* no more than that here: BAD_SCHEMA, UNSUPPORTED_TOOL, QUEUE_FULL,         *)
(* ADDRESS_NOT_DISCLOSED, ILLEGAL_COMMAND, PROFILE_REJECTED and              *)
(* UNAVAILABLE_CAPABILITY.                                                   *)
Rejections == {"REJECTED", "SANDBOX_VIOLATION", "SCRIPT_TIMEOUT"}
TERMINAL_ERROR_CODES == {"BUDGET_EXCEEDED", "INTERNAL_SIMULATOR_ERROR"}
Codes == {"OK", "RAISED"} \cup Rejections \cup TERMINAL_ERROR_CODES

Obs == [src : {"none", "reset", "outer", "inner"}, code : Codes,
        done : BOOLEAN, paid : BOOLEAN]

Pos(n) == IF n > 0 THEN n ELSE 0
Least(m, n) == IF m < n THEN m ELSE n

Idle == pc = "idle" /\ ~script.on   \* the policy, not a script, is to move

-----------------------------------------------------------------------------
(* Observations.  An exception that leaves step() ends a running script too. *)

Answer(code, done, paid) ==
  obs' = [src |-> IF script.on THEN "inner" ELSE "outer", code |-> code,
          done |-> done, paid |-> paid]

Raise ==
  /\ obs' = [src |-> "outer", code |-> "RAISED", done |-> FALSE,
             paid |-> FALSE]
  /\ script' = NoScript

(* _refuse: terminal, uncharged, and the worker is torn down. *)
Refuse(code) ==
  /\ episodeDone' = TRUE
  /\ worker' = "none"
  /\ obs' = [src |-> IF script.on THEN "inner" ELSE "outer", code |-> code,
             done |-> TRUE, paid |-> FALSE]

-----------------------------------------------------------------------------
(* Reward.  _latch_success on overlay tgt and worker wk: the predicate, and  *)
(* the case in which it has to read the stored byte and no worker is there.  *)

Won(tgt, wk) ==
  \/ success
  \/ compiled /\ engine /\ tgt = "flipped" /\ (reads => wk = "up")

Blind(tgt, wk) ==
  ~success /\ compiled /\ engine /\ reads /\ tgt # "intact" /\ wk # "up"

(* The latch cannot be evaluated: TrustedRewardReadError, which step() turns *)
(* into a refusal, when there is no worker; the worker call's own exception  *)
(* when the process is dead.                                                 *)
BlindReturn ==
  \/ worker = "none" /\ Refuse("INTERNAL_SIMULATOR_ERROR") /\ UNCHANGED script
  \/ worker = "dead" /\ Raise /\ UNCHANGED <<worker, episodeDone>>

(* _charge: what is left after an observation whose counters say oActs and   *)
(* that took spent cycles.                                                   *)
Charged(oActs, spent) ==
  [tool_calls |-> budget.tool_calls - 1,
   cycles     |-> budget.cycles - Pos(spent),
   acts       |-> IF budget.capped THEN budget.acts - Pos(oActs - actsPrev)
                  ELSE budget.acts,
   capped     |-> budget.capped]

ActsPrevAfter(oActs) == IF budget.capped THEN oActs ELSE actsPrev

(* (A bug: the cycle budget is charged and never looked at.)                 *)
ExceededButCycles(b) == b.tool_calls < 0 \/ (b.capped /\ b.acts < 0)

Exceeded(b) == b.tool_calls < 0 \/ b.cycles < 0 \/ (b.capped /\ b.acts < 0)

(* _charge's verdict on the observation's code.                              *)
CodeAfter(code) == IF Exceeded(budget') THEN "BUDGET_EXCEEDED" ELSE code

(* The tail of _dispatch and step() for a dram.* tool: charge, latch, and    *)
(* latch _episode_done from obs.done.                                        *)
Return(code, oActs, spent, tgt) ==
  /\ pc' = "idle" /\ iss' = NoIssue
  /\ budget' = Charged(oActs, spent)
  /\ actsPrev' = ActsPrevAfter(oActs)
  /\ \/ Blind(tgt, worker) /\ BlindReturn /\ UNCHANGED success
     \/ /\ ~Blind(tgt, worker)
        /\ success' = Won(tgt, worker)
        /\ LET done == success' \/ CodeAfter(code) \in TERMINAL_ERROR_CODES
           IN  Answer(CodeAfter(code), done, success') /\ episodeDone' = (episodeDone \/ done)
        /\ UNCHANGED <<worker, script>>
  /\ UNCHANGED configVars

-----------------------------------------------------------------------------
(* Calls of step(): by the policy, or by the broker for the running script.  *)

Init ==
  /\ worker = "none" /\ simActs = 0 /\ target = "intact" /\ engine = FALSE
  /\ compiled = FALSE /\ resumed = FALSE
  /\ reads \in BOOLEAN
  /\ initial \in Budgets
  /\ budget = initial
  /\ actsPrev = 0 /\ pubActs = 0 /\ cycle = 0
  /\ success = FALSE /\ episodeDone = FALSE
  /\ pc = "idle" /\ iss = NoIssue /\ script = NoScript
  /\ obs = [src |-> "none", code |-> "OK", done |-> FALSE,
            paid |-> FALSE]

PolicyCall ==
  /\ Idle
  /\ pc' = "step"
  /\ UNCHANGED <<worker, simVars, configVars, chargeVars, latchVars, countVars,
                 iss, script, obs>>

(* _handle_tool counts the call before it forwards it.                       *)
(* (A bug: forwarded calls are not counted.)                                 *)
NotCounted == script

Counted == [script EXCEPT !.calls = @ + 1]

BrokerCall ==
  /\ pc = "idle" /\ script.on /\ script.calls < script.max
  /\ script' = Counted
  /\ pc' = "step"
  /\ UNCHANGED <<worker, simVars, configVars, chargeVars, latchVars, countVars,
                 iss, obs>>

(* step() before dispatch: the two guards.                                   *)
StepRefused ==
  /\ pc = "step"
  /\ \/ episodeDone /\ Refuse("REJECTED")
     \/ ~episodeDone /\ budget.tool_calls <= 0 /\ Refuse("BUDGET_EXCEEDED")
  /\ pc' = "idle"
  /\ UNCHANGED <<simVars, configVars, chargeVars, success, countVars, iss, script>>

(* (A bug: only the latch is looked at before dispatch.)                     *)
AdmittedUnpaid == pc = "step" /\ ~episodeDone

Admitted == pc = "step" /\ ~episodeDone /\ budget.tool_calls > 0

(* dram.info, and every call rejected before a worker request: no tool, an   *)
(* unknown tool, a bad address, an invalid issue, no worker.  Charged a call. *)
StepLocal ==
  /\ Admitted
  /\ \E code \in {"OK", "REJECTED"} : Return(code, actsPrev, 0, target)
  /\ UNCHANGED <<simVars, countVars>>

-----------------------------------------------------------------------------
(* Worker requests.  A request of kind op issues a activations in c cycles   *)
(* and leaves the overlay at tgt.  Only a write retracts a flipped row; the  *)
(* byte predicates can also lose their bit to another flip of the same byte. *)

Request(op, a, c, tgt) ==
  /\ a \in 0 .. (IF op = "WAIT" THEN 0 ELSE MaxActs)
  /\ c \in 0 .. MaxCycles
  /\ op # "WAIT" => c > 0
  /\ tgt \in {target} \cup
       (IF ~engine \/ c = 0 THEN {}
        ELSE IF reads THEN {"intact", "flipped", "wrong"}
        ELSE IF op = "WR" THEN {"intact", "flipped"} ELSE {"flipped"})

Targets == {"intact", "flipped", "wrong"}

(* The worker's reply was ok: counters and clock follow it. *)
Reported(a, c, tgt) ==
  /\ simActs' = simActs + a /\ pubActs' = simActs + a /\ cycle' = cycle + c
  /\ target' = tgt
  /\ UNCHANGED engine

(* dram.read and dram.write: one request, no activation ceiling. *)
StepAccess ==
  /\ Admitted /\ worker = "up"
  /\ \E op \in {"RD", "WR"}, a \in 0 .. MaxActs, c \in 0 .. MaxCycles, tgt \in Targets :
       /\ Request(op, a, c, tgt)
       /\ Reported(a, c, tgt)
       /\ Return("OK", pubActs', c, tgt)

(* The worker refused the request without running it. *)
StepAccessRejected ==
  /\ Admitted /\ worker = "up"
  /\ Return("REJECTED", actsPrev, 0, target)
  /\ UNCHANGED <<simVars, countVars>>

(* A request that ran and whose effect the env does not know: the worker hit *)
(* its deadline (activations issued, nothing reported), or folding its       *)
(* events into the engine failed (clock and counters known, observation not). *)
Lost(a, c, tgt, spent) ==
  \/ /\ simActs' = simActs + a
     /\ spent = 0
     /\ tgt = target /\ target' = tgt
     /\ UNCHANGED <<countVars, engine>>
  \/ Reported(a, c, tgt) /\ spent = c

StepAccessFails ==
  /\ Admitted /\ worker = "up"
  /\ \E op \in {"RD", "WR"}, a \in 0 .. MaxActs, c \in 0 .. MaxCycles,
        tgt \in Targets, spent \in 0 .. MaxCycles :
       /\ Request(op, a, c, tgt)
       /\ Lost(a, c, tgt, spent)
       /\ Return("INTERNAL_SIMULATOR_ERROR", actsPrev, spent, tgt)

(* WorkerClient.call on a dead process: the exception leaves step(), charged *)
(* nothing.                                                                  *)
StepRaises ==
  /\ Admitted /\ worker = "dead"
  /\ Raise
  /\ pc' = "idle"
  /\ UNCHANGED <<worker, simVars, configVars, chargeVars, latchVars, countVars, iss>>

-----------------------------------------------------------------------------
(* dram.issue: every primitive is validated before the first is sent, and    *)
(* each is sent only below the activation ceiling computed at entry.         *)

_issue_acts_ceiling == actsPrev + Pos(budget.acts)
(* (A bug: the guard lets one primitive through at the ceiling.)             *)
PastCeiling == budget.capped /\ pubActs > iss.ceiling

AtCeiling == budget.capped /\ pubActs >= iss.ceiling

IssueBegin ==
  /\ Admitted /\ worker # "none"
  /\ \E n \in 0 .. MaxIssue :
       iss' = [left |-> n, ceiling |-> _issue_acts_ceiling, before |-> cycle]
  /\ pc' = "issue"
  /\ UNCHANGED <<worker, simVars, configVars, chargeVars, latchVars, countVars,
                 script, obs>>

Sending == pc = "issue" /\ iss.left > 0 /\ ~AtCeiling

IssueSend ==
  /\ Sending /\ worker = "up"
  /\ \E op \in {"RD", "WR", "WAIT"}, a \in 0 .. MaxActs, c \in 0 .. MaxCycles,
        tgt \in Targets :
       Request(op, a, c, tgt) /\ Reported(a, c, tgt)
  /\ iss' = [iss EXCEPT !.left = @ - 1]
  /\ UNCHANGED <<worker, configVars, chargeVars, latchVars, pc, script, obs>>

IssueDone ==
  /\ pc = "issue" /\ iss.left = 0
  /\ Return("OK", pubActs, cycle - iss.before, target)
  /\ UNCHANGED <<simVars, countVars>>

IssueTruncated ==
  /\ pc = "issue" /\ iss.left > 0 /\ AtCeiling
  /\ Return("BUDGET_EXCEEDED", pubActs, cycle - iss.before, target)
  /\ UNCHANGED <<simVars, countVars>>

(* (A bug: an issue that fails half way is not charged for its prefix.)      *)
PrefixIsFree ==
  /\ Sending /\ worker = "up"
  /\ Return("REJECTED", actsPrev, 0, target)
  /\ UNCHANGED <<simVars, countVars>>

(* A primitive refused by the worker: the prefix is charged, the code kept.  *)
IssueRejected ==
  /\ Sending /\ worker = "up"
  /\ Return("REJECTED", pubActs, cycle - iss.before, target)
  /\ UNCHANGED <<simVars, countVars>>

(* A primitive lost: the prefix's counters are reported and charged.  *)
IssueFails ==
  /\ Sending /\ worker = "up"
  /\ \E op \in {"RD", "WR"}, a \in 0 .. MaxActs, c \in 0 .. MaxCycles,
        tgt \in Targets, spent \in 0 .. MaxCycles :
       /\ Request(op, a, c, tgt)
       /\ Lost(a, c, tgt, spent)
       /\ Return("INTERNAL_SIMULATOR_ERROR", pubActs, cycle - iss.before, tgt)

IssueRaises ==
  /\ Sending /\ worker = "dead"
  /\ Raise
  /\ pc' = "idle" /\ iss' = NoIssue
  /\ UNCHANGED <<worker, simVars, configVars, chargeVars, latchVars, countVars>>

-----------------------------------------------------------------------------
(* episode.finish: latch, then charge the counters known so far, then close. *)
Finish ==
  /\ Admitted
  /\ \/ Blind(target, worker) /\ BlindReturn /\ UNCHANGED <<chargeVars, success>>
     \/ /\ ~Blind(target, worker)
        /\ success' = Won(target, worker)
        /\ budget' = Charged(pubActs, 0)
        /\ actsPrev' = ActsPrevAfter(pubActs)
        /\ Answer(CodeAfter("OK"), TRUE, success')
        /\ episodeDone' = TRUE
        /\ worker' = "none"
        /\ UNCHANGED script
  /\ pc' = "idle"
  /\ UNCHANGED <<simVars, configVars, countVars, iss>>

-----------------------------------------------------------------------------
(* script.run.  It is not itself charged; the calls its child brokers are.   *)

ScriptRejected ==
  /\ Admitted /\ ~script.on
  /\ Answer("REJECTED", FALSE, FALSE)
  /\ pc' = "idle"
  /\ UNCHANGED <<worker, simVars, configVars, chargeVars, latchVars, countVars,
                 iss, script>>

(* (A bug: the cap does not bound the script's calls.)                       *)
max_calls_uncapped == budget.tool_calls

max_calls == Least(ScriptCallCap, budget.tool_calls)

ScriptBegin ==
  /\ Admitted /\ ~script.on
  /\ script' = [on |-> TRUE, calls |-> 0, max |-> max_calls]
  /\ pc' = "idle"
  /\ UNCHANGED <<worker, simVars, configVars, chargeVars, latchVars, countVars,
                 iss, obs>>

(* The child sent its result: the outer call latches once more and reports,  *)
(* done also when an inner call has ended the episode.                       *)
(* (A bug: an inner call that ended the episode is not reported.)            *)
ScriptDoneIfWon == success'

ScriptDone == success' \/ episodeDone

ScriptReports ==
  /\ ~Blind(target, worker)
  /\ success' = Won(target, worker)
  /\ episodeDone' = (episodeDone \/ ScriptDone)
  /\ obs' = [src |-> "outer", code |-> "OK", done |-> ScriptDone,
             paid |-> success']
  /\ UNCHANGED worker

ScriptBlind ==
  /\ Blind(target, worker)
  /\ \/ /\ worker = "none"
        /\ episodeDone' = TRUE
        /\ obs' = [src |-> "outer", code |-> "INTERNAL_SIMULATOR_ERROR",
                   done |-> TRUE, paid |-> FALSE]
     \/ /\ worker = "dead"
        /\ obs' = [src |-> "outer", code |-> "RAISED", done |-> FALSE,
                   paid |-> FALSE]
        /\ UNCHANGED episodeDone
  /\ UNCHANGED <<worker, success>>

ScriptResult ==
  /\ pc = "idle" /\ script.on
  /\ ScriptReports \/ ScriptBlind
  /\ script' = NoScript
  /\ UNCHANGED <<simVars, configVars, chargeVars, countVars, pc, iss>>

(* ScriptError out of the broker.  SCRIPT_TIMEOUT: the deadline passed while  *)
(* the broker waited for a message.                                          *)
ScriptError(code) ==
  /\ pc = "idle" /\ script.on
  /\ obs' = [src |-> "outer", code |-> code, done |-> FALSE,
             paid |-> FALSE]
  /\ script' = NoScript
  /\ UNCHANGED <<worker, simVars, configVars, chargeVars, latchVars, countVars,
                 pc, iss>>

ScriptTimeout == ScriptError("SCRIPT_TIMEOUT")
ScriptViolation == ScriptError("SANDBOX_VIOLATION")

-----------------------------------------------------------------------------
(* The rest of the session: the worker process, close() and reset().         *)

WorkerDies ==
  /\ WorkerMayDie /\ worker = "up"
  /\ worker' = "dead"
  /\ UNCHANGED <<simVars, configVars, chargeVars, latchVars, countVars,
                 pc, iss, script, obs>>

Close ==
  /\ Idle
  /\ worker' = "none"
  /\ UNCHANGED <<simVars, configVars, chargeVars, latchVars, countVars,
                 pc, iss, script, obs>>

ResetAnswer(code, done) ==
  obs' = [src |-> "reset", code |-> code, done |-> done,
          paid |-> FALSE]

(* reset() up to super().reset(): a task, a full budget, and no success.     *)
Configure ==
  /\ Idle
  /\ reads' \in BOOLEAN /\ resumed' = FALSE
  /\ initial' \in Budgets
  /\ budget' = initial' /\ actsPrev' = 0
  /\ success' = FALSE
  /\ UNCHANGED <<pc, iss, script>>

(* The previous episode's engine, if any, stays in place: what its overlay    *)
(* holds at the new task's target is anything a finished episode can leave.  *)
OldOverlay ==
  /\ target' \in (IF ~engine THEN {target}
                   ELSE IF reads' THEN Targets ELSE {"intact", "flipped"})
  /\ UNCHANGED engine

FreshWorker(wk) ==
  worker' = wk /\ simActs' = 0 /\ pubActs' = 0 /\ cycle' = 0

ResetOk ==
  /\ Configure /\ FreshWorker("up")
  /\ compiled' = TRUE /\ engine' = TRUE /\ target' = "intact"
  /\ episodeDone' = FALSE
  /\ ResetAnswer("OK", FALSE)

(* TaskSpec.from_config rejected the task: nothing else is configured.       *)
ResetBadTask ==
  /\ Idle
  /\ worker' = "none" /\ episodeDone' = TRUE
  /\ ResetAnswer("REJECTED", TRUE)
  /\ UNCHANGED <<simVars, configVars, chargeVars, success, countVars, pc, iss, script>>

(* The mapper or mitigation configuration failed, before close().            *)
ResetBadConfig ==
  /\ Configure
  /\ compiled' = FALSE /\ episodeDone' = TRUE
  /\ ResetAnswer("REJECTED", TRUE)
  /\ UNCHANGED <<worker, simVars, countVars>>

(* No worker binary, bad geometry, a task that does not compile, a rejected  *)
(* profile: the new worker is closed and the episode is over.                *)
ResetFails ==
  /\ Configure /\ FreshWorker("none")
  /\ compiled' \in BOOLEAN /\ episodeDone' = TRUE
  /\ \E code \in {"REJECTED", "INTERNAL_SIMULATOR_ERROR"} : ResetAnswer(code, TRUE)
  /\ OldOverlay

(* An exception reset() does not map, at one of three stages.  A number in   *)
(* the task that is none: nothing is configured, and an episode that was     *)
(* over is no longer.  The derived worker configuration cannot be written:   *)
(* the previous worker is still there.  The worker dies under reset(),       *)
(* DECODE fails during compilation, or the engine refuses the profile with   *)
(* an error that has no code.                                                *)
ResetRaises ==
  /\ Idle
  /\ episodeDone' = FALSE
  /\ ResetAnswer("RAISED", FALSE)
  /\ \/ /\ "task" \in RaisesAt
        /\ cycle <= MaxStale /\ simActs <= MaxStale
        /\ resumed' = (resumed \/ episodeDone)
        /\ UNCHANGED <<worker, simVars, compiled, reads, initial, chargeVars, success,
                       countVars, pc, iss, script>>
     \/ /\ "config" \in RaisesAt
        /\ cycle <= MaxStale /\ simActs <= MaxStale
        /\ Configure
        /\ compiled' = FALSE
        /\ UNCHANGED <<worker, simVars, countVars>>
     \/ /\ "worker" \in RaisesAt
        /\ Configure
        /\ \E wk \in {"up", "dead"} : FreshWorker(wk)
        /\ compiled' \in BOOLEAN
        /\ OldOverlay

-----------------------------------------------------------------------------
Tool ==
  \/ StepRefused \/ StepLocal \/ StepAccess \/ StepAccessRejected
  \/ StepAccessFails \/ StepRaises
  \/ IssueBegin \/ Finish \/ ScriptRejected \/ ScriptBegin

Loop ==
  \/ IssueSend \/ IssueDone \/ IssueTruncated
  \/ IssueRejected \/ IssueFails \/ IssueRaises

Broker == BrokerCall \/ ScriptResult \/ ScriptTimeout \/ ScriptViolation

Reset == ResetOk \/ ResetBadTask \/ ResetBadConfig \/ ResetFails \/ ResetRaises

Next == PolicyCall \/ Tool \/ Loop \/ Broker \/ WorkerDies \/ Close \/ Reset

(* A call of step() runs to its return, and a script's deadline passes: the   *)
(* process is single-threaded and its clock advances.  Nothing obliges the   *)
(* policy to call, the worker to die, or the child to send anything.         *)
Fairness == WF_vars(Tool) /\ WF_vars(Loop) /\ WF_vars(ScriptTimeout)

Spec == Init /\ [][Next]_vars /\ Fairness

-----------------------------------------------------------------------------
(* Every variable has its type; a script's calls stay within the broker's    *)
(* limit and its limit within the cap (_script, _handle_tool).               *)
TypeOK ==
  /\ worker \in {"none", "up", "dead"}
  /\ simActs \in Nat /\ pubActs \in Nat /\ cycle \in Nat /\ actsPrev \in Nat
  /\ target \in Targets
  /\ engine \in BOOLEAN /\ compiled \in BOOLEAN /\ reads \in BOOLEAN /\ resumed \in BOOLEAN
  /\ budget \in [tool_calls : Int, cycles : Int, acts : Int, capped : BOOLEAN]
  /\ initial \in Budgets
  /\ success \in BOOLEAN /\ episodeDone \in BOOLEAN
  /\ pc \in {"idle", "step", "issue"}
  /\ iss \in [left : 0 .. MaxIssue, ceiling : Int, before : Nat]
  /\ script \in [on : BOOLEAN, calls : Nat, max : 0 .. ScriptCallCap]
  /\ script.calls <= script.max
  /\ obs \in Obs

(* The episode can still reach the simulator, a task was compiled for it     *)
(* (without one no reward is paid), and it was begun by a reset: it is none  *)
(* that had ended and that a reset which raised has re-admitted.             *)
Live == compiled /\ worker = "up" /\ ~episodeDone /\ ~resumed

(* Budget honesty: an episode that may still drive the simulator has paid    *)
(* for all it did (_charge latches an exhausted budget before the next call  *)
(* is admitted), and no episode, re-admitted or not, takes a tool call on    *)
(* credit.                                                                   *)
Solvent ==
  /\ budget.tool_calls >= 0
  /\ Live => budget.cycles >= 0 /\ (budget.capped => budget.acts >= 0)

(* A dram.issue overruns the activations its episode has left by less than   *)
(* what one primitive issues, however many it was asked for                  *)
(* (_issue_acts_ceiling and the guard before each send).                     *)
IssueIsTruncated ==
  pc = "issue" /\ Live /\ budget.capped => pubActs < iss.ceiling + MaxActs

(* No work escapes the bill: whenever the live episode waits for a call, the *)
(* budget spent so far is exactly the activations its DRAM has issued and    *)
(* the cycles its clock has advanced, over rejections, failures and scripts. *)
Accounted ==
  pc = "idle" /\ Live =>
    /\ budget.cycles = initial.cycles - cycle
    /\ budget.capped => budget.acts = initial.acts - simActs

(* Once over, an episode stays over until a reset: no activation, no change  *)
(* of the overlay, no charge and no reward (step()'s first guard, also for   *)
(* the calls of a script that keeps running).                                *)
OverIsOver ==
  [][episodeDone =>
       Reset \/ UNCHANGED <<simVars, budget, success, episodeDone>>]_vars

(* A driver that stops on done stops when the environment does: between      *)
(* calls, the last observation says done exactly if the episode is over.     *)
(* Script errors and exceptions carry no such verdict.                       *)
DoneIsTold ==
  Idle /\ obs.src = "outer"
       /\ obs.code \notin {"SCRIPT_TIMEOUT", "SANDBOX_VIOLATION", "RAISED"} =>
    (obs.done <=> episodeDone)

(* The broker's limit is one the episode can pay: the calls a script has     *)
(* left never exceed the tool calls left, so no call of a live script is     *)
(* refused for want of one (_script's max_calls).                            *)
ScriptFits ==
  script.on /\ ~episodeDone /\ pc = "idle" =>
    script.max - script.calls <= budget.tool_calls

(* Every call of step() is answered, a script.run included, whatever its     *)
(* child does and even when the worker dies.                                 *)
Answered == ~Idle ~> Idle

(* The episode a trainer relies on (EpisodeContract).                        *)
Contract == INSTANCE EpisodeContract WITH
  over <- episodeDone, calls <- budget.tool_calls, won <- success, work <- simActs
ImplementsContract == Contract!Spec

-----------------------------------------------------------------------------
(* What the repository's documents say and the code does not do.             *)

(* SPEC.md rl-reward: an earned reward is not retracted; the outer call of a *)
(* script that won retains it.                                               *)
WonScriptPays == [][script.on /\ ~script.on' /\ success' => obs'.paid]_vars

(* SPEC.md invariant-budget-honesty: no action at all runs once the episode  *)
(* is over.  An exhausted budget ends it, so it buys no activation more (a    *)
(* reset that begins an episode counts from zero).                           *)
ExhaustedStaysIdle == [][Exceeded(budget) => simActs' <= simActs]_vars

(* SPEC.md error-codes: transport errors are mapped, never surfaced raw.     *)
StableCodes == obs.code # "RAISED"
=============================================================================
