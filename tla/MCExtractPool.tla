---------------------------- MODULE MCExtractPool ----------------------------
(* Two workers and six items: the first window holds four of them, and the  *)
(* last two are fed by the first two commits.                               *)
(*                                                                          *)
(* The pool never looks at an outcome, so one work function that gives each *)
(* item an outcome of its own tells apart whatever any other one would.     *)
EXTENDS ExtractPool

MCOutcomes == 0 .. N - 1

MCInit == Init /\ outcome = [i \in Items |-> i]

MCSpec == MCInit /\ [][Next]_vars /\ Fairness
==============================================================================
