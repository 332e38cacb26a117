\* The vLLM generator returns plain text, without the tokens it sampled.
CONSTANTS
  template = "plain"
  Specs <- MCSpecs
  TaskOf <- MCTaskOf
  concurrency = 2
  generated = FALSE
  max_turns = 2
  max_turn_tokens = 3
  window = 13
  TextsOf <- MCTextsOf
  Results = {1, 2, 3}
SPECIFICATION Spec
INVARIANT InsertedIsNotTrained
