--------------------------- MODULE MCTaskCompiler ---------------------------
(* Devices of sixteen rows and four banks, one with a pseudochannel, and     *)
(* reports no reset may accept; tasks of every family, and overrides of      *)
(* their disclosure that it must admit or refuse.                            *)
EXTENDS TaskCompiler, Bitwise

MCBitXor(a, b) == a ^^ b

DDR == [level_names |-> <<"channel", "rank", "bankgroup", "bank", "row", "column">>,
        level_sizes |-> <<1, 1, 2, 2, 16, 4>>, tx_bytes |-> 2, prefetch |-> 2]
HBM == [level_names |-> <<"channel", "pseudochannel", "bankgroup", "bank", "row", "column">>,
        level_sizes |-> <<1, 2, 1, 4, 16, 2>>, tx_bytes |-> 2, prefetch |-> 2]
Skewed == [DDR EXCEPT !.level_names = <<"channel", "bankgroup", "bank", "row", "column">>]
Doubled == [DDR EXCEPT !.level_names = <<"channel", "row", "bankgroup", "bank", "row", "column">>]
TwoChannels == [DDR EXCEPT !.level_sizes = <<2, 1, 2, 2, 16, 4>>]
MCInfos == {DDR, HBM, Skewed, Doubled, TwoChannels}

Task(family, difficulty) ==
  [family |-> family, objective |-> Absent, disclosure |-> Absent, difficulty |-> difficulty]
Overridden(family, mapping, victim, feedback) ==
  [family |-> family, objective |-> Absent, difficulty |-> "easy",
   disclosure |-> [mapping |-> mapping, adjacency |-> "candidate_set", victim |-> victim, feedback |-> feedback]]
Derived(objective, disclosure) ==
  [family |-> Absent, objective |-> objective, disclosure |-> disclosure, difficulty |-> Absent]

MCConfigs ==
  [family : {"bounded_sweep", "hidden_adjacency"}, objective : {Absent}, disclosure : {Absent},
   difficulty : {"easy", "medium", "hard", "extreme"}]
  \cup {Task(f, Absent) : f \in DOMAIN FAMILIES \cup {"known_target", "no_such_family"}}
  \cup {Overridden(f, m, v, fb) :
          f \in {"bounded_sweep", "hidden_adjacency", "unknown_adjacency"},
          m \in {"physical", "logical_only", "opaque_handles"},
          v \in {"exact", "logical_addr", "cell_handle", "hidden_until_finish"},
          fb \in {"full_trace", "reward_only", "loud"}}
  \cup {Derived(o, d) : o \in {Absent, "any_flip", "target_row_flip"},
          d \in {Absent, [victim |-> "logical_addr"], [adjacency |-> "candidate_set"], [victim |-> "row_handle"],
                 [mapping |-> "physical", victim |-> "exact"], [reach |-> "near"]}}
  \cup {Task(Absent, d) : d \in {Absent, "hard"}}

MCBands == [easy |-> 4, medium |-> 6, hard |-> 10]
=============================================================================
