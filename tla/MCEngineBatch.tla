---------------------------- MODULE MCEngineBatch ----------------------------
(* Three files on two workers, under every strategy.  The fates are those   *)
(* of three kinds of batch: with a hanging file, with failures only, and    *)
(* with successes around one failure.                                       *)
EXTENDS EngineBatch

Fate(a, b, c) == [f \in Files |-> IF f = 0 THEN a ELSE IF f = 1 THEN b ELSE c]

MCFates == {Fate("hangs", "good", "good"), Fate("hangs", "hangs", "bad"),
            Fate("bad", "unreadable", "panics"), Fate("good", "bad", "good")}

MCInit == Init /\ fate \in MCFates

MCSpec == MCInit /\ [][Next]_vars /\ Fairness
==============================================================================
