--------------------------- MODULE EpisodeContract ---------------------------
(***************************************************************************)
(* What a trainer may assume of an episode of RowHammerTaskEnv: the tool    *)
(* calls it may still make, the work (activations) its DRAM has done, the   *)
(* reward it has earned, and whether it is over.  Work is only done while   *)
(* calls are left to pay for it, the first reward ends the episode and is   *)
(* kept, nothing happens to an episode that is over, and only a reset begins *)
(* another.  A reset that raises may put one back that was over, as it was.  *)
(***************************************************************************)
EXTENDS Integers

VARIABLES over, calls, won, work
vars == <<over, calls, won, work>>

Init == over = FALSE /\ calls \in Nat /\ won = FALSE /\ work = 0

(* Part or all of a call: work, at most one call spent, perhaps the reward. *)
Act ==
  /\ ~over /\ calls > 0
  /\ work' \in Nat /\ work' >= work
  /\ calls' \in {calls, calls - 1}
  /\ won' \in BOOLEAN /\ over' \in BOOLEAN
  /\ won => won'
  /\ won' => over' \/ won

(* The reward is found earned, or the episode ends, and no work is done.    *)
End ==
  /\ ~over /\ over' = TRUE
  /\ won' \in BOOLEAN /\ (won => won')
  /\ UNCHANGED <<calls, work>>

Restart ==
  /\ over' \in BOOLEAN
  /\ calls' \in Nat
  /\ won' = FALSE
  /\ work' \in {0, work}

(* A reset that rejects its task ends the episode and keeps what it earned. *)
Abandon == over' = TRUE /\ UNCHANGED <<calls, won, work>>

(* A reset that raises before it begins anything: the episode it re-admits    *)
(* has the calls left, the reward and the work it ended with, no more.       *)
Readmit == over /\ over' = FALSE /\ UNCHANGED <<calls, won, work>>

Next == Act \/ End \/ Restart \/ Abandon \/ Readmit

Spec == Init /\ [][Next]_vars
=============================================================================
