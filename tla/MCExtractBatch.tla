--------------------------- MODULE MCExtractBatch ----------------------------
(* Three inputs on two workers, with every combination of render and write  *)
(* failures, removals that fail and commits that panic.  Planning is varied *)
(* apart from them: either nothing stands in the way, or two inputs share a *)
(* target, or the last target exists.                                       *)
EXTENDS ExtractBatch

MCTargets == 0 .. N - 1

Separate == [i \in Items |-> i]
Shared == [i \in Items |-> IF i = 2 THEN 0 ELSE i]

(* A write matters only to an item that renders.                            *)
FateMatters == \A i \in Items : outcome[i] = "failed" => plan.placing[i] = "fits"

(* Figures matter only to an item whose write fails after its render.       *)
FewFailures == \A i \in Items : /\ outcome[i] = "rendered"
                               /\ plan.placing[i] \in {"fits", "rename_fails"}

MCInit == /\ BatchInit
          /\ FateMatters
          /\ plan.imagesDir => ~plan.keepGoing /\ FewFailures
          /\ \/ plan.target = Separate /\ plan.existing = {} /\ ~plan.force
             \/ /\ plan.target \in {Separate, Shared}
                /\ plan.existing = {1}
                /\ plan.protected \in {{}, {1}}
                /\ outcome = [i \in Items |-> "rendered"]
                /\ plan.placing = [i \in Items |-> "fits"]

MCSpec == MCInit /\ [][BatchNext]_allVars
==============================================================================
