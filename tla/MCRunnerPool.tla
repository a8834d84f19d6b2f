---------------------------- MODULE MCRunnerPool -----------------------------
EXTENDS RunnerPool

(* The first document has a test that never ends; the second is skipped    *)
(* when memory is short, and may not be readable.                          *)
MCPreChecks == [p \in Pdfs |-> IF p = "hangs" THEN {"run"} ELSE {"run", "skip", "fail"}]
MCHanging == {<<"hangs", 1>>}

(* What an earlier run of the same version has seen pass.                  *)
MCPassedBefore == {<<"hangs", 2>>}
=============================================================================
