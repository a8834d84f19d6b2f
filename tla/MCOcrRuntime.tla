---------------------------- MODULE MCOcrRuntime -----------------------------
EXTENDS OcrRuntime

One == [file |-> "tatr", sessions |-> 0]
Two == [file |-> "tatr", sessions |-> 2]
Bad == [file |-> "bad", sessions |-> 1]
Gone == [file |-> "gone", sessions |-> 1]

MCRequests == {One, Two, Bad, Gone}

(* Three threads on a pool of one, and on a pool of two; two libraries for *)
(* one model; three keys, of which two share a file; and what fails.       *)
MCInit == /\ Init
          /\ <<request, library>> \in
                {<< <<One, One, One>>, <<"a", "a", "a">> >>,
                 << <<Two, Two, Two>>, <<"a", "a", "a">> >>,
                 << <<One, One, One>>, <<"a", "b", "old">> >>,
                 << <<One, Two, Bad>>, <<"a", "b", "b">> >>,
                 << <<Gone, Bad, One>>, <<"a", "a", "a">> >>}

MCSpec == MCInit /\ [][Next]_vars /\ Fairness
=============================================================================
