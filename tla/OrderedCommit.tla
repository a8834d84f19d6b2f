---------------------------- MODULE OrderedCommit ----------------------------
(***************************************************************************)
(* What the bounded worker pool of the `extract` command promises its      *)
(* caller (the doc comment of run_bounded_ordered in                       *)
(* crates/pdfluent-cli/src/cmd_extract.rs), without threads or channels:   *)
(* items begin in input order and never further than a window past the     *)
(* commits, finish in any order, and commit in input order, one by one,    *)
(* until every item is committed or the batch is halted.  A halted batch   *)
(* commits nothing more and closes once nothing runs.                      *)
(***************************************************************************)
EXTENDS Integers, Sequences

CONSTANTS N,          \* number of items
          Window,     \* how far past the commits an item may begin
          Outcomes    \* what working on an item may yield

Items == 0 .. N - 1

VARIABLES outcome,    \* what the work on each item yields; never changes
          begun,      \* items 0 .. begun - 1 have begun
          finished,   \* the items whose work has ended
          log,        \* the committed outcomes, in commit order
          phase       \* "running", "halted" or "closed"

vars == <<outcome, begun, finished, log, phase>>

Init == /\ outcome \in [Items -> Outcomes]
        /\ begun = 0
        /\ finished = {}
        /\ log = <<>>
        /\ phase = IF N = 0 THEN "closed" ELSE "running"

(* The next item begins.  A halted batch may still begin an item that was  *)
(* inside the window.                                                      *)
Begin == /\ phase # "closed"
         /\ begun < N
         /\ begun < Window + Len(log)
         /\ begun' = begun + 1
         /\ UNCHANGED <<outcome, finished, log, phase>>

Finish(i) == /\ phase # "closed"
             /\ i < begun
             /\ i \notin finished
             /\ finished' = finished \cup {i}
             /\ UNCHANGED <<outcome, begun, log, phase>>

Commit == /\ phase = "running"
          /\ Len(log) \in finished
          /\ log' = Append(log, outcome[Len(log)])
          /\ UNCHANGED <<outcome, begun, finished, phase>>

Halt == /\ phase = "running"
        /\ Len(log) \in finished
        /\ phase' = "halted"
        /\ UNCHANGED <<outcome, begun, finished, log>>

Close == /\ \/ phase = "halted"
            \/ phase = "running" /\ Len(log) = N
         /\ finished = 0 .. begun - 1
         /\ phase' = "closed"
         /\ UNCHANGED <<outcome, begun, finished, log>>

Next == \/ Begin
        \/ \E i \in Items : Finish(i)
        \/ Commit
        \/ Halt
        \/ Close

Spec == Init /\ [][Next]_vars
==============================================================================
