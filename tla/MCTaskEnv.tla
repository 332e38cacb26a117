------------------------------ MODULE MCTaskEnv ------------------------------
(* TaskEnv on small budgets: one that bounds activations, where a request's  *)
(* activations can overrun what is left, and one that does not and that the  *)
(* first call which takes time exhausts.                                     *)
EXTENDS TaskEnv

MCBudgets ==
  {[tool_calls |-> 2, cycles |-> 2, acts |-> 1, capped |-> TRUE],
   [tool_calls |-> 3, cycles |-> 0, acts |-> 0, capped |-> FALSE]}
=============================================================================
