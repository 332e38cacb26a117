----------------------------- MODULE ScriptCall -----------------------------
(***************************************************************************)
(* What script.run promises its environment, whatever the script does: it is *)
(* one call at a time, at most max_calls of them, each answered before the   *)
(* next, none after the run has returned, and the run returns.              *)
(***************************************************************************)
EXTENDS Naturals

CONSTANT max_calls

VARIABLES running, steps, answered, outcome

vars == <<running, steps, answered, outcome>>
Outcomes == {"result", "violation", "timeout", "unavailable", "raised"}

Init == ~running /\ steps = 0 /\ answered = 0 /\ outcome = "none"

Start ==
  /\ ~running
  /\ running' = TRUE /\ steps' = 0 /\ answered' = 0 /\ outcome' = "none"

(* A call of env.step on behalf of the script.                               *)
Step ==
  /\ running /\ answered = steps /\ steps < max_calls
  /\ steps' = steps + 1
  /\ UNCHANGED <<running, answered, outcome>>

(* The script has read the observation.                                      *)
Answer ==
  /\ running /\ answered < steps
  /\ answered' = steps
  /\ UNCHANGED <<running, steps, outcome>>

Return ==
  /\ running
  /\ running' = FALSE
  /\ outcome' \in Outcomes
  /\ outcome' = "result" => answered = steps
  /\ UNCHANGED <<steps, answered>>

(* Refused before anything was started.                                      *)
Refuse ==
  /\ ~running
  /\ outcome' \in Outcomes \ {"result"}
  /\ steps' = 0 /\ answered' = 0 /\ UNCHANGED running

Next == Start \/ Step \/ Answer \/ Return \/ Refuse
Spec == Init /\ [][Next]_vars
=============================================================================
