------------------------------ MODULE RunnerPool ------------------------------
(***************************************************************************)
(* Runner of xfa-test-runner (crates/xfa-test-runner/src/runner.rs):       *)
(* workers that take the documents of a corpus and run every test on each  *)
(* in a thread of its own, with a time limit, a bound on the threads that  *)
(* are alive, and a database that a killed run is resumed from.            *)
(*                                                                         *)
(* When a limit is over, how a test ends, how much memory is in use, and   *)
(* whether the database or the system fails a call are choices.            *)
(*                                                                         *)
(* The tests are those given to Runner::new.  Its one caller has reduced   *)
(* them to the test filter of the configuration (main.rs:693-706), so the  *)
(* filter of run_corpus (498-502) passes over none.                        *)
(***************************************************************************)
EXTENDS Integers, FiniteSets

CONSTANTS Pdfs,
          TestCount,            \* tests.len()
          Workers,              \* the rayon pool
          MaxSpawned,           \* MAX_SPAWNED_THREADS
          MaxInFlight,          \* MAX_IN_FLIGHT_THREADS
          PreChecks,            \* what may be decided of a document unread
          Incremental,          \* code_version is the commit of the run
          PassedBefore,         \* the tests with a pass of it in the database
          Hanging,              \* the tests that never end
          MaxKills,             \* bound: how often the process is killed
          MaxFaults,            \* bound: for how much the database fails
          NoJob

Tests == 1 .. TestCount
Jobs == Pdfs \X Tests

(* A document is run, skipped, or recorded as unreadable; a large one is   *)
(* skipped or not by the memory in use.                                    *)
Modes == {"run", "skip", "fail"}

(* A test that panics is recorded as a crash, another failure.             *)
Outcomes == {"pass", "fail"}
Statuses == Outcomes \cup {"timeout", "skip"}

ASSUME RunnerAssumption ==
         /\ IsFiniteSet(Pdfs) /\ IsFiniteSet(Workers)
         /\ TestCount \in Nat \ {0}
         /\ MaxSpawned \in Nat \ {0} /\ MaxInFlight \in Nat \ {0}
         /\ MaxKills \in Nat /\ MaxFaults \in Nat
         /\ PreChecks \in [Pdfs -> SUBSET Modes]
         /\ Incremental \in BOOLEAN /\ PassedBefore \subseteq Jobs
         /\ Hanging \subseteq Jobs
         /\ NoJob \notin Jobs

VARIABLES todo,      \* documents no worker has taken
          pc,        \* where each worker stands
          job,       \* the document and the test it is at
          mode,      \* what it does with the tests of its document
          result,    \* what it is about to record
          inFlight,  \* threads that are waited for
          spawned,   \* threads that are alive, as counted
          thread,    \* the test threads of this process
          channel,   \* what each has answered
          memoryHigh,  \* current_rss_bytes is above RSS_PAUSE_THRESHOLD
          db,        \* the rows of the run; survives the process
          unwritten, \* the rows whose insert failed
          uncounted, \* complete documents whose rows could not be counted
          panicked,  \* a worker or run_corpus did, in this process
          kills,
          finished   \* finish_run

counters == <<inFlight, spawned>>
threads == <<thread, channel>>
worker == <<pc, job, mode, result>>
faults == <<unwritten, uncounted>>
process == <<panicked, kills, finished>>
outside == <<memoryHigh, db, faults, process>>
vars == <<todo, worker, counters, threads, outside>>

PCs == {"idle", "gate", "enter", "spawn", "wait", "record"}

(* A process that has just started. *)
NoPcs == [w \in Workers |-> "idle"]
NoJobs == [w \in Workers |-> NoJob]
NoModes == [w \in Workers |-> "run"]
NoResults == [w \in Workers |-> "none"]
NoThreads == [j \in Jobs |-> "none"]
NoAnswers == [j \in Jobs |-> "empty"]

Init == /\ todo = Pdfs
        /\ pc = NoPcs /\ job = NoJobs /\ mode = NoModes /\ result = NoResults
        /\ inFlight = 0 /\ spawned = 0
        /\ thread = NoThreads /\ channel = NoAnswers
        /\ memoryHigh = FALSE
        /\ db = [j \in Jobs |-> "none"]
        /\ unwritten = {} /\ uncounted = {}
        /\ panicked = FALSE
        /\ kills = 0
        /\ finished = FALSE

(* tests_completed_for_pdf counts the rows of the run.                     *)
Completed(p) == Cardinality({t \in Tests : db[<<p, t>>] # "none"}) >= TestCount

(* Mutant of Resumed: every document is run again.                         *)
ResumedNever(p) == FALSE

(* A row of the document is there for every test: it is left alone.        *)
Resumed(p) == Completed(p)

DbMayFail == Cardinality(unwritten) + Cardinality(uncounted) < MaxFaults

At(w, place) == pc[w] = place
Goto(w, place) == pc' = [pc EXCEPT ![w] = place]

(* has_passing_result, of this run or an earlier one of the same version;  *)
(* a query that fails is taken for none.                                   *)
Passing(j) == Incremental /\ (j \in PassedBefore \/ db[j] = "pass")

(* The next test of a document: one that is skipped, or that has passed    *)
(* under this version of the code, goes straight to its row.               *)
Begin(w, j, m) ==
  \E passed \in {Passing(j), FALSE} :
    LET verdict == IF m # "run" THEN m ELSE IF passed THEN "pass" ELSE "none" IN
    /\ job' = [job EXCEPT ![w] = j]
    /\ mode' = [mode EXCEPT ![w] = m]
    /\ result' = [result EXCEPT ![w] = verdict]
    /\ Goto(w, IF verdict = "none" THEN "gate" ELSE "record")

(* The worker is through with its document.                                *)
Finish(w) == /\ job' = [job EXCEPT ![w] = NoJob]
             /\ mode' = [mode EXCEPT ![w] = "run"]
             /\ result' = [result EXCEPT ![w] = "none"]
             /\ Goto(w, "idle")

BeginPdf(w, p) == \E m \in PreChecks[p] : Begin(w, <<p, 1>>, m)

(* Rows that cannot be counted are none.                                   *)
Take(w) == /\ At(w, "idle")
           /\ \E p \in todo :
                /\ todo' = todo \ {p}
                /\ \/ Resumed(p) /\ UNCHANGED <<worker, uncounted>>
                   \/ ~Resumed(p) /\ BeginPdf(w, p) /\ UNCHANGED uncounted
                   \/ /\ Resumed(p) /\ DbMayFail /\ BeginPdf(w, p)
                      /\ uncounted' = uncounted \cup {p}
           /\ UNCHANGED <<counters, threads, memoryHigh, db, unwritten, process>>

(* Mutant of Gate: the threads that timed out are not counted.             *)
GateInFlightOnly(w) ==
  /\ At(w, "gate")
  /\ inFlight < MaxInFlight
  /\ ~memoryHigh
  /\ Goto(w, "enter")
  /\ UNCHANGED <<todo, job, mode, result, counters, threads, outside>>

(* run_single_test: the memory and the two counters are read here, and the *)
(* counters are raised later.                                              *)
Gate(w) == /\ At(w, "gate")
           /\ inFlight < MaxInFlight
           /\ spawned < MaxSpawned
           /\ ~memoryHigh
           /\ Goto(w, "enter")
           /\ UNCHANGED <<todo, job, mode, result, counters, threads, outside>>

Enter(w) == /\ At(w, "enter")
            /\ inFlight' = inFlight + 1
            /\ Goto(w, "spawn")
            /\ UNCHANGED <<todo, job, mode, result, spawned, threads, outside>>

Spawn(w) == /\ At(w, "spawn")
            /\ spawned' = spawned + 1
            /\ thread' = [thread EXCEPT ![job[w]] = "alive"]
            /\ Goto(w, "wait")
            /\ UNCHANGED <<todo, job, mode, result, inFlight, channel, outside>>

(* "failed to spawn test thread": both counters stay raised, and rayon may *)
(* drop documents nobody has taken before the panic leaves run_corpus.     *)
SpawnFails(w) == /\ At(w, "spawn")
                 /\ spawned' = spawned + 1
                 /\ panicked' = TRUE
                 /\ todo' \in SUBSET todo
                 /\ Finish(w)
                 /\ UNCHANGED <<inFlight, threads, memoryHigh, db, faults, kills, finished>>

(* The test returns or panics; its thread sends, and ends after that.      *)
Answer(j) == /\ thread[j] = "alive"
             /\ channel[j] = "empty"
             /\ j \notin Hanging
             /\ \E r \in Outcomes : channel' = [channel EXCEPT ![j] = r]
             /\ UNCHANGED <<todo, worker, counters, thread, outside>>

(* Mutant of ThreadExit: the count goes down when the waiting ends, so a   *)
(* thread that ends after its limit is never taken off it.                 *)
ThreadExitOnlyInTime(j) ==
  /\ thread[j] = "alive"
  /\ channel[j] # "empty"
  /\ thread' = [thread EXCEPT ![j] = "ended"]
  /\ spawned' = IF \E w \in Workers : job[w] = j THEN spawned - 1 ELSE spawned
  /\ UNCHANGED <<todo, worker, inFlight, channel, outside>>

(* A thread counts as ended once it has taken itself off the count, its    *)
(* last statement.                                                         *)
ThreadExit(j) == /\ thread[j] = "alive"
                 /\ channel[j] # "empty"
                 /\ thread' = [thread EXCEPT ![j] = "ended"]
                 /\ spawned' = spawned - 1
                 /\ UNCHANGED <<todo, worker, inFlight, channel, outside>>

(* recv_timeout has an answer.  One with a memory spike in its metadata    *)
(* has the remaining tests of the document skipped.                        *)
Receive(w) == /\ At(w, "wait")
              /\ channel[job[w]] # "empty"
              /\ result' = [result EXCEPT ![w] = channel[job[w]]]
              /\ \E m \in {"run", "skip"} : mode' = [mode EXCEPT ![w] = m]
              /\ inFlight' = inFlight - 1
              /\ Goto(w, "record")
              /\ UNCHANGED <<todo, job, spawned, threads, outside>>

TimeOut(w) == /\ At(w, "wait")
              /\ channel[job[w]] = "empty"
              /\ result' = [result EXCEPT ![w] = "timeout"]
              /\ inFlight' = inFlight - 1
              /\ Goto(w, "record")
              /\ UNCHANGED <<todo, job, mode, spawned, threads, outside>>

(* INSERT OR REPLACE of one row, or an error that is passed over.          *)
Insert(j, status) == \/ /\ db' = [db EXCEPT ![j] = status]
                        /\ UNCHANGED unwritten
                     \/ /\ DbMayFail
                        /\ unwritten' = unwritten \cup {j}
                        /\ UNCHANGED db

(* Mutant of Record: one test too many.                                    *)
RecordOneMore(w) ==
  /\ At(w, "record")
  /\ Insert(job[w], result[w])
  /\ IF job[w][2] <= TestCount
       THEN /\ job' = [job EXCEPT ![w] = <<@[1], @[2] + 1>>]
            /\ result' = [result EXCEPT ![w] = "none"]
            /\ Goto(w, "gate")
            /\ UNCHANGED mode
       ELSE Finish(w)
  /\ UNCHANGED <<todo, counters, threads, memoryHigh, uncounted, process>>

(* The row of a test, and on to the next one.                              *)
Record(w) ==
  LET p == job[w][1]
      t == job[w][2]
  IN  /\ At(w, "record")
      /\ Insert(job[w], result[w])
      /\ IF t < TestCount
           THEN Begin(w, <<p, t + 1>>, mode[w])
           ELSE Finish(w)
      /\ UNCHANGED <<todo, counters, threads, memoryHigh, uncounted, process>>

CorpusDone == todo = {} /\ \A w \in Workers : At(w, "idle")

(* finish_run, whose failure is a panic.                                   *)
FinishRun == /\ CorpusDone /\ ~finished /\ ~panicked
             /\ \/ finished' = TRUE /\ UNCHANGED panicked
                \/ panicked' = TRUE /\ UNCHANGED finished
             /\ UNCHANGED <<todo, worker, counters, threads, memoryHigh, db, faults,
                            kills>>

(* The threads take memory and give it back.  It is read at the gate only, *)
(* so that a rise before a worker stands there is one when it does.        *)
Memory == /\ ~memoryHigh => \E w \in Workers : At(w, "gate")
          /\ memoryHigh' = ~memoryHigh
          /\ UNCHANGED <<todo, worker, counters, threads, db, faults, process>>

(* The process dies (out of memory, say) and is started with --resume.     *)
Kill == /\ ~finished
        /\ kills < MaxKills
        /\ kills' = kills + 1
        /\ todo' = Pdfs
        /\ pc' = NoPcs /\ job' = NoJobs /\ mode' = NoModes /\ result' = NoResults
        /\ inFlight' = 0 /\ spawned' = 0
        /\ thread' = NoThreads /\ channel' = NoAnswers
        /\ panicked' = FALSE
        /\ UNCHANGED <<memoryHigh, db, faults, finished>>

Over == (finished \/ (CorpusDone /\ panicked)) /\ UNCHANGED vars

WorkerStep(w) == \/ Take(w) \/ Gate(w) \/ Enter(w) \/ Spawn(w)
                 \/ Receive(w) \/ TimeOut(w) \/ Record(w)
ThreadStep(j) == Answer(j) \/ ThreadExit(j)

Next == \/ \E w \in Workers : WorkerStep(w)
        \/ \E w \in Workers : SpawnFails(w)
        \/ \E j \in Jobs : ThreadStep(j)
        \/ FinishRun
        \/ Memory
        \/ Kill
        \/ Over

Spec == Init /\ [][Next]_vars

(* Every thread is scheduled, and a limit that is over is noticed.  Nothing*)
(* is assumed of the memory, of the system's threads or of the database.   *)
Fairness == /\ \A w \in Workers : WF_vars(WorkerStep(w))
            /\ \A j \in Jobs : WF_vars(ThreadStep(j))
            /\ WF_vars(FinishRun)

FairSpec == Spec /\ Fairness

-----------------------------------------------------------------------------
TypeOK == /\ todo \subseteq Pdfs
          /\ pc \in [Workers -> PCs]
          /\ job \in [Workers -> Jobs \cup {NoJob}]
          /\ \A w \in Workers : pc[w] # "idle" => job[w] # NoJob
          /\ mode \in [Workers -> Modes]
          /\ result \in [Workers -> Statuses \cup {"none"}]
          /\ inFlight \in Int /\ spawned \in Int
          /\ thread \in [Jobs -> {"none", "alive", "ended"}]
          /\ channel \in [Jobs -> Outcomes \cup {"empty"}]
          /\ memoryHigh \in BOOLEAN
          /\ db \in [Jobs -> Statuses \cup {"none"}]
          /\ unwritten \subseteq Jobs /\ uncounted \subseteq Pdfs
          /\ panicked \in BOOLEAN
          /\ kills \in 0 .. MaxKills
          /\ finished \in BOOLEAN

(* However many tests outlive their limit, the threads alive stay below    *)
(* MAX_SPAWNED_THREADS plus the workers that passed the gate together      *)
(* (runner.rs:680-693, and the decrement inside the thread, 756-759).      *)
Alive == {j \in Jobs : thread[j] = "alive"}

AliveBounded == Cardinality(Alive) < MaxSpawned + Cardinality(Workers)

(* Every insert for the document that was tried has been written, and its  *)
(* rows were counted when they were to be.                                 *)
Untroubled(p) == p \notin uncounted /\ \A t \in Tests : <<p, t>> \notin unwritten

(* A document that has all its rows keeps them: neither a resumed run, nor *)
(* a thread that answers after its limit, nor another worker changes one   *)
(* (runner.rs:336-344, 763-793).  Where an insert failed, which the runner *)
(* passes over, the rows may be complete while a resumed run is still at   *)
(* the document, and where the count failed a complete one is run again    *)
(* (runner.rs:616-618; db.rs:221-229).                                     *)
VerdictsStand ==
  [][\A p \in Pdfs : Completed(p) /\ Untroubled(p) =>
        \A t \in Tests : db'[<<p, t>>] = db[<<p, t>>]]_vars

(* A run that is killed no more and does not panic ends with a row for     *)
(* every test of every document but for those the database refused: as     *)
(* long as the memory is given back, and fewer tests hang than threads may *)
(* be alive; otherwise all workers wait at the gate for ever               *)
(* (runner.rs:680-693).                                                    *)
EveryTestReported ==
  /\ Cardinality(Hanging) < MaxSpawned
  /\ <>[]~memoryHigh
  /\ <>[]~panicked
  => <>[](finished /\ \A j \in Jobs : db[j] # "none" \/ j \in unwritten)
=============================================================================
