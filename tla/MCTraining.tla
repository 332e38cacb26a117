------------------------------ MODULE MCTraining ------------------------------
(* A scoped experiment of two stages, the same outside the scope, and           *)
(* configurations that must be refused: tiers or bands out of order, seeds       *)
(* shared with the benchmark, weights that reach the success weight.            *)
EXTENDS Training

Span(lo, hi) == [list |-> Unset, range |-> <<lo, hi>>]
Listed(seeds) == [list |-> seeds, range |-> Unset]
Entry(name, tier, band, task, spec, weight) ==
  [name |-> name, tier |-> tier, band |-> band, tasks |-> <<task>>, spec |-> spec, ref |-> 10, weight |-> weight]

Easy   == Entry("known", "tier0", "", "known_target", Span(1, 1), 0)
Medium == Entry("sweep", "tier2a", "easy", "bounded_sweep", Listed(<<2, 1>>), 1)
Good ==
  [poc |-> TRUE, curriculum |-> <<Easy, Medium>>, eval |-> Span(3, 3), benchmark |-> Span(5, 5),
   success |-> 10, probe |-> 1, kind |-> "unique_candidate_probe", max_turns |-> 33]
Loose == [Good EXCEPT !.poc = FALSE, !.eval = Unset, !.benchmark = Unset, !.kind = "legacy"]

MCConfigs ==
  {Good, Loose,
   [Good EXCEPT !.curriculum[2] = [Medium EXCEPT !.spec = Listed(<<2, 2>>), !.weight = 9]],
   [Loose EXCEPT !.curriculum = <<Medium, Easy>>],
   [Loose EXCEPT !.curriculum = <<[Medium EXCEPT !.band = "hard"], [Easy EXCEPT !.tier = "tier2a", !.band = "easy"]>>],
   [Good EXCEPT !.benchmark = Span(2, 2)],
   [Good EXCEPT !.benchmark = Listed(<<5, 5>>)],
   [Loose EXCEPT !.curriculum = <<Easy, [Medium EXCEPT !.weight = 10]>>],
   [Loose EXCEPT !.probe = 10, !.curriculum = <<[Easy EXCEPT !.weight = Unset], Medium>>]}

(* Three rows: the target, a candidate in its bank and one in another bank;      *)
(* probes of each, twice, once and in a group, a hammer, a write, a waiting      *)
(* probe, a physical address and issues that are refused.                      *)
Handle(id) == [form |-> "handle", id |-> id]
Rd(id, n)  == [op |-> "RD", rows |-> <<Handle(id)>>, count |-> n, ok |-> TRUE]
Alternate(a, b, n) == <<[op |-> "HAMMER", rows |-> <<a, b>>, count |-> n, ok |-> TRUE]>>
T == Handle("t")
Same == Alternate(T, Handle("same"), 2)
Other == Alternate(Handle("other"), T, 2)
MCPlace == [id \in {"t", "same", "other"} |->
             CASE id = "t" -> <<1, 1>> [] id = "same" -> <<1, 2>> [] OTHER -> <<2, 1>>]
MCDisclosed == {[target |-> T, candidates |-> <<Handle("same"), Handle("other")>>],
                [target |-> [form |-> "int", id |-> "t"], candidates |-> <<>>]}
MCTranscripts ==
  {<<>>, <<Same, Same, Same>>, <<Other, Other, Other, Other, Same>>, <<Same, Other, Same, Other>>,
   <<Alternate(T, Handle("same"), 1), <<Rd("t", 2), Rd("other", 2)>>, Alternate(T, Handle("same"), 4)>>,
   <<Same \o <<[Rd("t", NoCount) EXCEPT !.op = "WR"]>>, <<[Rd("t", 1) EXCEPT !.op = "WAIT"]>> \o Same>>,
   <<Alternate([form |-> "physical", id |-> "t"], Handle("same"), 2), <<[Rd("t", 1) EXCEPT !.ok = FALSE]>>,
     <<Rd("t", Malformed)>>, <<Rd("nowhere", 1)>>, Alternate(T, Handle("same"), NoCount)>>,
   <<Alternate(T, Handle("same"), 3), Same, Other, Other>>}

MCEvaluations == {<<"train", None>>, <<"benchmark", "sft">>, <<"benchmark", "sweep">>}
MCTasks == <<"known_target", "bounded_sweep">>
=============================================================================
