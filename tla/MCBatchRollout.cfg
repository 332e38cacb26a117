\* The window leaves room for a whole call, for half of one, or for nothing,
\* depending on how long the first turn's result was.
CONSTANTS
  template = "plain"
  Specs <- MCSpecs
  TaskOf <- MCTaskOf
  concurrency = 2
  generated = TRUE
  max_turns = 2
  max_turn_tokens = 3
  window = 13
  TextsOf <- MCTextsOf
  Results = {1, 2, 3}
SPECIFICATION Spec
INVARIANTS TypeOK TrainsOnWhatHappened
PROPERTIES EachEpisodeAlone Settles
