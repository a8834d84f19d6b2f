----------------------------- MODULE EngineBatch -----------------------------
(***************************************************************************)
(* run_batch and process_one of pdf-engine (crates/pdf-engine/src/         *)
(* batch.rs): a pool of workers that claim files by an atomic counter, a   *)
(* thread per file that opens and processes it while its worker waits with *)
(* a time limit, and a main thread that classifies the outcomes.           *)
(*                                                                         *)
(* Files are numbered from 0.  What would become of a file that is given   *)
(* all the time it wants is `fate`; when the limit is over is a choice.    *)
(***************************************************************************)
EXTENDS Integers, Sequences, FiniteSets

CONSTANTS N,         \* paths.len()
          Limit      \* BatchConfig.workers

ASSUME BatchAssumption == N \in Nat /\ Limit \in Nat

Files == 0 .. N - 1

AtLeastOne(k) == IF k < 1 THEN 1 ELSE k
WorkerCount == IF AtLeastOne(Limit) < N THEN AtLeastOne(Limit) ELSE N
Workers == 1 .. WorkerCount

Fates == {"good",        \* opens, and the processor succeeds
          "bad",         \* does not open, or the processor fails
          "unreadable",  \* fs::read fails
          "panics",      \* the processor panics
          "hangs"}       \* the processor does not return

Strategies == {"Collect", "Skip", "FailFast"}

VARIABLES fate,       \* never changes
          strategy,   \* BatchConfig.on_error; never changes
          nextIndex,  \* the shared counter
          stop,       \* the AtomicBool
          pc,         \* where each worker stands in its loop
          item,       \* the file a worker has claimed
          verdict,    \* what its worker says of it: is it a success?
          reader,     \* the thread of each file
          paged,      \* files whose page progress was reported
          results,    \* the result channel, oldest first
          done,       \* outcomes received, as on_progress is told
          successes, failures, skipped,  \* BatchResult
          mpc,        \* where the main thread stands
          late,       \* how many files each worker claimed after the stop
          expired     \* files whose limit was over before an answer was there

inputVars == <<fate, strategy>>
workerVars == <<nextIndex, pc, item, verdict, late, expired>>
readerVars == <<reader, paged>>
mainVars == <<stop, done, successes, failures, skipped, mpc>>
vars == <<inputVars, workerVars, readerVars, results, mainVars>>

PCs == {"check", "claim", "read", "wait", "send", "exit", "dead"}
ReaderStates == {"none", "running", "paging", "ok", "err", "gone"}

Outcome == [file : Files, ok : BOOLEAN]

Init == /\ fate \in [Files -> Fates]
        /\ strategy \in Strategies
        /\ nextIndex = 0
        /\ stop = FALSE
        /\ pc = [w \in Workers |-> "check"]
        /\ item = [w \in Workers |-> 0]
        /\ verdict = [w \in Workers |-> FALSE]
        /\ reader = [f \in Files |-> "none"]
        /\ paged = {}
        /\ results = <<>>
        /\ done = 0
        /\ successes = <<>>
        /\ failures = <<>>
        /\ skipped = <<>>
        /\ mpc = IF N = 0 THEN "returned" ELSE "recv"
        /\ late = [w \in Workers |-> 0]
        /\ expired = {}

-----------------------------------------------------------------------------
(* The workers.                                                            *)

(* Mutant of LoadStop: does not look at the flag.                          *)
LoadStopBlind(w) == /\ pc[w] = "check"
                    /\ pc' = [pc EXCEPT ![w] = "claim"]
                    /\ UNCHANGED <<inputVars, nextIndex, item, verdict, late,
                                   expired, readerVars, results, mainVars>>

LoadStop(w) == /\ pc[w] = "check"
               /\ pc' = [pc EXCEPT ![w] = IF stop THEN "exit" ELSE "claim"]
               /\ UNCHANGED <<inputVars, nextIndex, item, verdict, late, expired,
                              readerVars, results, mainVars>>

(* Mutant of Claim: a worker that finds no file left tries again.          *)
ClaimAgain(w) == /\ pc[w] = "claim"
                 /\ nextIndex' = nextIndex + 1
                 /\ IF nextIndex < N
                      THEN /\ item' = [item EXCEPT ![w] = nextIndex]
                           /\ pc' = [pc EXCEPT ![w] = "read"]
                           /\ late' = [late EXCEPT ![w] = IF stop THEN @ + 1 ELSE @]
                      ELSE /\ pc' = [pc EXCEPT ![w] = "check"]
                           /\ UNCHANGED <<item, late>>
                 /\ UNCHANGED <<inputVars, verdict, expired, readerVars, results,
                                mainVars>>

(* fetch_add.  The counter may pass the number of files, by one a worker.  *)
Claim(w) == /\ pc[w] = "claim"
            /\ nextIndex' = nextIndex + 1
            /\ IF nextIndex < N
                 THEN /\ item' = [item EXCEPT ![w] = nextIndex]
                      /\ pc' = [pc EXCEPT ![w] = "read"]
                      /\ late' = [late EXCEPT ![w] = IF stop THEN @ + 1 ELSE @]
                 ELSE /\ pc' = [pc EXCEPT ![w] = "exit"]
                      /\ UNCHANGED <<item, late>>
            /\ UNCHANGED <<inputVars, verdict, expired, readerVars, results, mainVars>>

(* fs::read, then a thread of its own for the file.                        *)
ReadFile(w) == /\ pc[w] = "read"
               /\ IF fate[item[w]] = "unreadable"
                    THEN /\ verdict' = [verdict EXCEPT ![w] = FALSE]
                         /\ pc' = [pc EXCEPT ![w] = "send"]
                         /\ UNCHANGED reader
                    ELSE /\ reader' = [reader EXCEPT ![item[w]] = "running"]
                         /\ pc' = [pc EXCEPT ![w] = "wait"]
                         /\ UNCHANGED verdict
               /\ UNCHANGED <<inputVars, nextIndex, item, late, expired, paged,
                              results, mainVars>>

(* thread::spawn panics when the system has no thread to give: the worker  *)
(* unwinds with the file it holds, and drops its sender.                   *)
SpawnPanics(w) == /\ pc[w] = "read"
                  /\ fate[item[w]] # "unreadable"
                  /\ pc' = [pc EXCEPT ![w] = "dead"]
                  /\ UNCHANGED <<inputVars, nextIndex, item, verdict, late, expired,
                                 readerVars, results, mainVars>>

Conclude(w, ok) == /\ verdict' = [verdict EXCEPT ![w] = ok]
                   /\ pc' = [pc EXCEPT ![w] = "send"]
                   /\ UNCHANGED <<inputVars, nextIndex, item, late, readerVars,
                                  results, mainVars>>

(* recv_timeout: an answer, or the other end is gone.                      *)
TakeAnswer(w) == /\ pc[w] = "wait"
                 /\ reader[item[w]] \in {"ok", "err", "gone"}
                 /\ Conclude(w, reader[item[w]] = "ok")
                 /\ UNCHANGED expired

(* Mutant of Timeout: the limit does not cover the processor.              *)
TimeoutAfterProcessing(w) == /\ pc[w] = "wait"
                             /\ reader[item[w]] = "paging"
                             /\ Conclude(w, FALSE)
                             /\ expired' = expired \cup {item[w]}

(* recv_timeout: the limit is over and no answer is there.  The thread of  *)
(* the file goes on.                                                       *)
Timeout(w) == /\ pc[w] = "wait"
              /\ reader[item[w]] \in {"running", "paging"}
              /\ Conclude(w, FALSE)
              /\ expired' = expired \cup {item[w]}

SendOutcome(w) == /\ pc[w] = "send"
                  /\ results' = Append(results, [file |-> item[w], ok |-> verdict[w]])
                  /\ pc' = [pc EXCEPT ![w] = "check"]
                  /\ UNCHANGED <<inputVars, nextIndex, item, verdict, late, expired,
                                 readerVars, mainVars>>

WorkerStep(w) == \/ LoadStop(w)
                 \/ Claim(w)
                 \/ ReadFile(w)
                 \/ TakeAnswer(w)
                 \/ Timeout(w)
                 \/ SendOutcome(w)

-----------------------------------------------------------------------------
(* The thread of a file: PdfDocument::open and the processor.              *)
Process(f) == /\ reader[f] = "running"
              /\ fate[f] # "hangs"
              /\ reader' = [reader EXCEPT ![f] = CASE fate[f] = "good" -> "paging"
                                                   [] fate[f] = "bad" -> "err"
                                                   [] fate[f] = "panics" -> "gone"]
              /\ UNCHANGED <<inputVars, workerVars, paged, results, mainVars>>

(* Mutant of Page: an answer nobody waits for goes to the main thread.     *)
PageAnswersMain(f) ==
    /\ reader[f] = "paging"
    /\ paged' = paged \cup {f}
    /\ reader' = [reader EXCEPT ![f] = "ok"]
    /\ results' = IF \E w \in Workers : pc[w] = "wait" /\ item[w] = f
                    THEN results
                    ELSE Append(results, [file |-> f, ok |-> TRUE])
    /\ UNCHANGED <<inputVars, workerVars, mainVars>>

(* The page callbacks, then the answer, which nobody may wait for any more.*)
Page(f) == /\ reader[f] = "paging"
           /\ paged' = paged \cup {f}
           /\ reader' = [reader EXCEPT ![f] = "ok"]
           /\ UNCHANGED <<inputVars, workerVars, results, mainVars>>

-----------------------------------------------------------------------------
(* The main thread.                                                        *)

(* One outcome, counted, classified and reported to on_progress.           *)
Receive == /\ mpc = "recv"
           /\ done < N
           /\ results # <<>>
           /\ LET file == Head(results).file
                  failing == ~Head(results).ok
                  halts == failing /\ strategy = "FailFast"
              IN /\ successes' = IF failing THEN successes ELSE Append(successes, file)
                 /\ skipped' = IF failing /\ strategy = "Skip"
                                 THEN Append(skipped, file) ELSE skipped
                 /\ failures' = IF failing /\ strategy # "Skip"
                                  THEN Append(failures, file) ELSE failures
                 /\ stop' = (stop \/ halts)
                 /\ mpc' = IF halts THEN "leave" ELSE "recv"
           /\ results' = Tail(results)
           /\ done' = done + 1
           /\ UNCHANGED <<inputVars, workerVars, readerVars>>

AllExited == \A w \in Workers : pc[w] \in {"exit", "dead"}

(* Mutant of EndOfResults: an empty channel is taken for a closed one.     *)
EndWhenEmpty == /\ mpc = "recv"
                /\ done = N \/ results = <<>>
                /\ mpc' = "leave"
                /\ UNCHANGED <<inputVars, workerVars, readerVars, results, stop, done,
                               successes, failures, skipped>>

(* Every outcome is in, or every sender is gone.                           *)
EndOfResults == /\ mpc = "recv"
                /\ done = N \/ (results = <<>> /\ AllExited)
                /\ mpc' = "leave"
                /\ UNCHANGED <<inputVars, workerVars, readerVars, results, stop, done,
                               successes, failures, skipped>>

Leave == /\ mpc = "leave"
         /\ stop' = TRUE
         /\ mpc' = "join"
         /\ UNCHANGED <<inputVars, workerVars, readerVars, results, done, successes,
                        failures, skipped>>

(* The workers are joined, a panic of theirs is passed over; the threads   *)
(* of files that timed out are not.                                        *)
Join == /\ mpc = "join"
        /\ AllExited
        /\ mpc' = "returned"
        /\ UNCHANGED <<inputVars, workerVars, readerVars, results, stop, done,
                       successes, failures, skipped>>

MainStep == Receive \/ EndOfResults \/ Leave \/ Join

Next == \/ MainStep
        \/ \E w \in Workers : WorkerStep(w) \/ SpawnPanics(w)
        \/ \E f \in Files : Process(f) \/ Page(f)
        \/ mpc = "returned" /\ UNCHANGED vars

(* Threads are scheduled, and a time limit is over at some time.  Nothing  *)
(* is assumed of the processor.                                            *)
Fairness == /\ WF_vars(MainStep)
            /\ \A w \in Workers : WF_vars(WorkerStep(w))

Spec == Init /\ [][Next]_vars
FairSpec == Spec /\ Fairness

-----------------------------------------------------------------------------
(* Types of the pool's variables; the counter overruns by one a worker.    *)
TypeOK == /\ fate \in [Files -> Fates]
          /\ strategy \in Strategies
          /\ nextIndex \in 0 .. N + WorkerCount
          /\ stop \in BOOLEAN
          /\ pc \in [Workers -> PCs]
          /\ item \in [Workers -> Files \cup {0}]
          /\ verdict \in [Workers -> BOOLEAN]
          /\ reader \in [Files -> ReaderStates]
          /\ paged \subseteq Files
          /\ results \in Seq(Outcome)
          /\ done \in 0 .. N
          /\ successes \in Seq(Files)
          /\ failures \in Seq(Files)
          /\ skipped \in Seq(Files)
          /\ mpc \in {"recv", "leave", "join", "returned"}
          /\ late \in [Workers -> Nat]
          /\ expired \subseteq Files

Reported == successes \o failures \o skipped

Succeeded(f) == fate[f] = "good" /\ f \in paged
Failed(f) == fate[f] \in {"bad", "unreadable", "panics"} \/ f \in expired

(* A file has one outcome, and it is what happened to the file: a success  *)
(* was processed, its pages were reported and its answer was in time; a    *)
(* failure could not be read or processed, or its limit was over, and then *)
(* a late answer changes nothing.                                          *)
ReportedOnceAndTruly ==
    /\ \A a, b \in DOMAIN Reported : a # b => Reported[a] # Reported[b]
    /\ \A a \in DOMAIN successes : /\ Succeeded(successes[a])
                                   /\ successes[a] \notin expired
    /\ \A a \in DOMAIN failures : Failed(failures[a])
    /\ \A a \in DOMAIN skipped : Failed(skipped[a])

(* No thread could be had for the file, or it is one of those left when no *)
(* worker is.                                                              *)
Orphaned(f) == \/ \E w \in Workers : pc[w] = "dead" /\ item[w] = f
               \/ nextIndex <= f /\ \A w \in Workers : pc[w] = "dead"

(* Without FailFast the call returns with an outcome for every file,       *)
(* hanging, panicking and unreadable ones included.  A worker whose spawn  *)
(* panicked takes no file with it but the one it held, while another is    *)
(* left.                                                                   *)
EveryFileReported == mpc = "returned" /\ strategy # "FailFast" =>
                        \A f \in Files : \/ \E a \in DOMAIN Reported : Reported[a] = f
                                        \/ Orphaned(f)

(* "Stop scheduling new work after the first failure": the one failure is  *)
(* reported, and a worker that had looked at the flag before it was set    *)
(* takes one more file, never two.                                         *)
FailFastStops == /\ strategy = "FailFast" => Len(failures) <= 1
                 /\ \A w \in Workers : late[w] <= 1

(* The call returns, though a processor may never do.                      *)
Termination == <>(mpc = "returned")
=============================================================================
