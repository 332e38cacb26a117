SPECIFICATION Spec
CONSTANTS
  max_calls = 2
  protocol_bytes = 5
  Sizes = {1, 2}
  Surfaces = {"host_fs", "network", "control"}
  MaxTries = 3
INVARIANTS TypeOK TakeTurns
PROPERTIES KeepsCall Returns
