-------------------------- MODULE RunnerPool_proofs -------------------------
(***************************************************************************)
(* Proofs about RunnerPool, for any corpus, any workers and any limits:    *)
(* type correctness, the bound on the threads alive, and that a document   *)
(* with all its rows keeps them.                                           *)
(*                                                                         *)
(* The bound needs that the count is never below the number of threads     *)
(* alive, and that between the gate and the count there is at most one     *)
(* step of each worker.  That rows are kept needs that no two workers are  *)
(* at one document, and that its rows appear in the order of its tests as  *)
(* long as the database fails none of its calls: the last one is missing   *)
(* for as long as a worker is at the document.                             *)
(***************************************************************************)
EXTENDS RunnerPool, FiniteSetTheorems, TLAPS

USE RunnerAssumption

Busy(w) == job[w] # NoJob

(* Workers that passed the gate and are not counted yet.                   *)
Passed == {w \in Workers : pc[w] \in {"enter", "spawn"}}

(* A spawn that fails leaves a count that is of no thread.                 *)
CountInv == Cardinality(Alive) <= spawned

GateInv == spawned + Cardinality(Passed) < MaxSpawned + Cardinality(Workers)

(* A document is nobody's or one worker's.                                 *)
OwnInv == /\ \A w \in Workers : Busy(w) => job[w][1] \notin todo
          /\ \A v, w \in Workers : v # w /\ Busy(v) /\ Busy(w) => job[v][1] # job[w][1]

(* Which tests have no thread yet.                                         *)
ThreadInv ==
  /\ \A p \in todo, t \in Tests : thread[<<p, t>>] = "none"
  /\ \A w \in Workers : Busy(w) =>
       \A t \in Tests : \/ t > job[w][2]
                        \/ t = job[w][2] /\ pc[w] \in {"gate", "enter", "spawn"}
                        => thread[<<job[w][1], t>>] = "none"

(* Unless the database failed, rows come in the order of the tests, and    *)
(* the last one is missing while a worker is at the document.              *)
RowInv ==
  /\ \A p \in Pdfs, s, t \in Tests :
       Untroubled(p) /\ s < t /\ db[<<p, t>>] # "none" => db[<<p, s>>] # "none"
  /\ \A w \in Workers : Busy(w) /\ Untroubled(job[w][1]) =>
       /\ db[<<job[w][1], TestCount>>] = "none"
       /\ \A s \in Tests : s < job[w][2] => db[<<job[w][1], s>>] # "none"
  /\ \A w \in Workers : pc[w] = "record" => result[w] # "none"

(* A test of a document.                                                   *)
LEMMA JobParts ==
  ASSUME NEW j \in Jobs
  PROVE  j[1] \in Pdfs /\ j[2] \in Tests /\ j = <<j[1], j[2]>>
  BY DEF Jobs

LEMMA TestsNat == Tests \subseteq Nat \ {0} /\ 1 \in Tests /\ TestCount \in Tests
  BY DEF Tests

(* Where a worker stands that goes on to the test j.                       *)
LEMMA BeginStep ==
  ASSUME TypeOK, NEW w \in Workers, NEW j \in Jobs, NEW m \in Modes, Begin(w, j, m)
  PROVE  /\ pc' \in [Workers -> PCs] /\ pc'[w] \in {"gate", "record"}
         /\ \A v \in Workers \ {w} : pc'[v] = pc[v]
         /\ job' = [job EXCEPT ![w] = j]
         /\ mode' \in [Workers -> Modes]
         /\ result' \in [Workers -> Statuses \cup {"none"}]
         /\ \A v \in Workers \ {w} : result'[v] = result[v]
         /\ pc'[w] = "record" => result'[w] # "none"
  <1>1. PICK passed \in {Passing(j), FALSE} :
          LET verdict == IF m # "run" THEN m ELSE IF passed THEN "pass" ELSE "none" IN
          /\ job' = [job EXCEPT ![w] = j]
          /\ mode' = [mode EXCEPT ![w] = m]
          /\ result' = [result EXCEPT ![w] = verdict]
          /\ Goto(w, IF verdict = "none" THEN "gate" ELSE "record")
    BY DEF Begin
  <1>2. PICK v \in Statuses \cup {"none"} :
          /\ job' = [job EXCEPT ![w] = j]
          /\ mode' = [mode EXCEPT ![w] = m]
          /\ result' = [result EXCEPT ![w] = v]
          /\ pc' = [pc EXCEPT ![w] = IF v = "none" THEN "gate" ELSE "record"]
    BY <1>1 DEF Goto, Modes, Statuses, Outcomes
  <1> QED
    BY <1>2 DEF TypeOK, PCs

(* A spawn that fails takes its worker out of the document.                *)
LEMMA FailStep ==
  ASSUME TypeOK, NEW w \in Workers, SpawnFails(w)
  PROVE  /\ todo' \subseteq todo /\ spawned' = spawned + 1
         /\ UNCHANGED <<thread, db, unwritten, uncounted>>
         /\ pc[w] = "spawn" /\ pc' = [pc EXCEPT ![w] = "idle"]
         /\ job' = [job EXCEPT ![w] = NoJob]
         /\ result' = [result EXCEPT ![w] = "none"]
         /\ pc'[w] = "idle" /\ job'[w] = NoJob
         /\ \A v \in Workers \ {w} : /\ pc'[v] = pc[v] /\ job'[v] = job[v]
                                      /\ result'[v] = result[v]
  BY DEF TypeOK, SpawnFails, Finish, At, Goto, threads, faults

(* The test that follows the one a worker records.                         *)
LEMMA NextTest ==
  ASSUME TypeOK, NEW w \in Workers, At(w, "record")
  PROVE  /\ job[w] \in Jobs /\ Busy(w)
         /\ job[w][1] \in Pdfs /\ job[w][2] \in Tests
         /\ job[w] = <<job[w][1], job[w][2]>>
         /\ job[w][2] < TestCount => <<job[w][1], job[w][2] + 1>> \in Jobs
  <1>1. job[w] \in Jobs /\ Busy(w)
    BY DEF TypeOK, At, Busy
  <1> QED
    BY <1>1, JobParts DEF Jobs, Tests

-----------------------------------------------------------------------------
(* Type correctness, one lemma for each kind of step.                      *)
LEMMA TypesInit == Init => TypeOK
  <1> SUFFICES ASSUME Init PROVE TypeOK
    OBVIOUS
  <1>1. /\ pc \in [Workers -> PCs] /\ job \in [Workers -> Jobs \cup {NoJob}]
        /\ \A w \in Workers : pc[w] = "idle"
        /\ mode \in [Workers -> Modes]
        /\ result \in [Workers -> Statuses \cup {"none"}]
    BY DEF Init, NoPcs, NoJobs, NoModes, NoResults, PCs, Modes
  <1>2. /\ thread \in [Jobs -> {"none", "alive", "ended"}]
        /\ channel \in [Jobs -> Outcomes \cup {"empty"}]
        /\ db \in [Jobs -> Statuses \cup {"none"}]
    BY DEF Init, NoThreads, NoAnswers
  <1>3. /\ todo \subseteq Pdfs /\ inFlight \in Int /\ spawned \in Int
        /\ memoryHigh \in BOOLEAN /\ panicked \in BOOLEAN
        /\ unwritten \subseteq Jobs /\ uncounted \subseteq Pdfs
        /\ kills \in 0 .. MaxKills /\ finished \in BOOLEAN
    <2>1. /\ todo = Pdfs /\ inFlight = 0 /\ spawned = 0 /\ kills = 0 /\ finished = FALSE
          /\ memoryHigh = FALSE /\ panicked = FALSE /\ unwritten = {} /\ uncounted = {}
      BY DEF Init
    <2>2. 0 \in 0 .. MaxKills /\ 0 \in Int
      OBVIOUS
    <2>3. finished \in BOOLEAN /\ memoryHigh \in BOOLEAN /\ panicked \in BOOLEAN
      BY <2>1, Zenon
    <2> QED
      BY <2>1, <2>2, <2>3, Zenon
  <1> QED
    BY <1>1, <1>2, <1>3 DEF TypeOK

LEMMA TypesTake == ASSUME TypeOK, NEW w \in Workers, Take(w) PROVE TypeOK'
  <1>1. PICK p \in todo : /\ todo' = todo \ {p}
                          /\ uncounted' \in {uncounted, uncounted \cup {p}}
                          /\ UNCHANGED worker \/ BeginPdf(w, p)
    BY DEF Take
  <1>2. p \in Pdfs /\ <<p, 1>> \in Jobs /\ PreChecks[p] \subseteq Modes
    BY TestsNat DEF TypeOK, Jobs
  <1>3. CASE UNCHANGED worker
    BY <1>1, <1>2, <1>3 DEF Take, TypeOK, worker, counters, threads, process
  <1>4. CASE BeginPdf(w, p)
    <2>1. PICK m \in Modes : Begin(w, <<p, 1>>, m)
      BY <1>2, <1>4 DEF BeginPdf
    <2>2. /\ pc' \in [Workers -> PCs] /\ job' = [job EXCEPT ![w] = <<p, 1>>]
          /\ \A v \in Workers \ {w} : pc'[v] = pc[v]
          /\ mode' \in [Workers -> Modes]
          /\ result' \in [Workers -> Statuses \cup {"none"}]
      BY <1>2, <2>1, BeginStep
    <2> QED
      BY <1>1, <1>2, <2>2 DEF Take, TypeOK, counters, threads, process
  <1> QED
    BY <1>1, <1>3, <1>4

LEMMA TypesRecord == ASSUME TypeOK, NEW w \in Workers, Record(w) PROVE TypeOK'
  <1>1. /\ job[w] \in Jobs
        /\ job[w][2] < TestCount => <<job[w][1], job[w][2] + 1>> \in Jobs
    BY NextTest DEF Record
  <1>2. db' \in [Jobs -> Statuses \cup {"none"}] /\ unwritten' \subseteq Jobs
    BY <1>1 DEF Record, Insert, TypeOK
  <1>3. CASE job[w][2] < TestCount
    <2>1. Begin(w, <<job[w][1], job[w][2] + 1>>, mode[w]) /\ mode[w] \in Modes
      BY <1>3 DEF Record, TypeOK
    <2>2. /\ pc' \in [Workers -> PCs]
          /\ job' = [job EXCEPT ![w] = <<job[w][1], job[w][2] + 1>>]
          /\ \A v \in Workers \ {w} : pc'[v] = pc[v]
          /\ mode' \in [Workers -> Modes]
          /\ result' \in [Workers -> Statuses \cup {"none"}]
      BY <1>1, <1>3, <2>1, BeginStep
    <2> QED
      BY <1>1, <1>2, <1>3, <2>2 DEF Record, TypeOK, counters, threads, process
  <1>4. CASE ~(job[w][2] < TestCount)
    BY <1>2, <1>4 DEF Record, Finish, Goto, TypeOK, counters, threads, process, PCs, Modes
  <1> QED
    BY <1>3, <1>4

LEMMA TypesStep == TypeOK /\ [Next]_vars => TypeOK'
  <1> SUFFICES ASSUME TypeOK, [Next]_vars PROVE TypeOK'
    OBVIOUS
  <1>1. ASSUME NEW w \in Workers, Gate(w) \/ Enter(w) \/ TimeOut(w) PROVE TypeOK'
    BY <1>1 DEF Gate, Enter, TimeOut, At, Goto, TypeOK, counters, threads, outside,
                faults, process, PCs, Statuses
  <1>2. ASSUME NEW w \in Workers, Receive(w) PROVE TypeOK'
    <2>1. job[w] \in Jobs /\ channel[job[w]] \in Outcomes
      BY <1>2 DEF Receive, At, TypeOK
    <2>2. mode' \in [Workers -> Modes]
      BY <1>2 DEF Receive, TypeOK, Modes
    <2> QED
      BY <1>2, <2>1, <2>2 DEF Receive, At, Goto, TypeOK, threads, outside, faults,
                              process, PCs, Statuses
  <1>3. ASSUME NEW w \in Workers, Spawn(w) PROVE TypeOK'
    <2>1. job[w] \in Jobs
      BY <1>3 DEF Spawn, At, TypeOK
    <2> QED
      BY <1>3, <2>1 DEF Spawn, At, Goto, TypeOK, outside, faults, process, PCs
  <1>4. ASSUME NEW j \in Jobs, Answer(j) \/ ThreadExit(j) PROVE TypeOK'
    BY <1>4 DEF Answer, ThreadExit, TypeOK, worker, counters, outside, faults, process
  <1>5. CASE FinishRun
    <2>1. finished' \in BOOLEAN /\ panicked' \in BOOLEAN
      BY <1>5, Zenon DEF FinishRun, TypeOK
    <2> QED
      BY <1>5, <2>1 DEF FinishRun, TypeOK, worker, counters, threads, faults
  <1>6. CASE Kill
    <2>1. panicked' \in BOOLEAN
      BY <1>6, Zenon DEF Kill
    <2> QED
      BY <1>6, <2>1 DEF Kill, TypeOK, NoPcs, NoJobs, NoModes, NoResults, NoThreads,
                        NoAnswers, PCs, Modes, Statuses, Outcomes, faults
  <1>7. CASE UNCHANGED vars
    BY <1>7 DEF vars, TypeOK, worker, counters, threads, outside, faults, process
  <1>8. ASSUME NEW w \in Workers, SpawnFails(w) PROVE TypeOK'
    <2>1. todo' \subseteq Pdfs
      BY <1>8, FailStep DEF TypeOK
    <2> QED
      BY <1>8, <2>1 DEF SpawnFails, Finish, Goto, TypeOK, threads, faults, PCs, Modes
  <1>9. CASE Memory
    <2>1. memoryHigh' \in BOOLEAN
      BY <1>9, Zenon DEF Memory, TypeOK
    <2> QED
      BY <1>9, <2>1 DEF Memory, TypeOK, worker, counters, threads, faults, process
  <1> QED
    BY <1>1, <1>2, <1>3, <1>4, <1>5, <1>6, <1>7, <1>8, <1>9, TypesTake, TypesRecord
       DEF Next, WorkerStep, ThreadStep, Over

(* Type correctness of the runner, across kills and resumed runs.          *)
THEOREM RunnerTypes == Spec => []TypeOK
  <1> QED
    BY TypesInit, TypesStep, PTL DEF Spec

-----------------------------------------------------------------------------
(* The bound on the threads alive.                                         *)
LEMMA Finite == IsFiniteSet(Alive) /\ IsFiniteSet(Passed) /\ IsFiniteSet(Workers)
  <1>1. IsFiniteSet(Tests)
    BY FS_Interval DEF Tests
  <1>2. IsFiniteSet(Jobs)
    BY <1>1, FS_Product DEF Jobs
  <1>3. Alive \in SUBSET Jobs /\ Passed \in SUBSET Workers
    BY DEF Alive, Passed
  <1> QED
    BY <1>2, <1>3, FS_Subset

(* Of the workers that passed the gate, one that has not is no member.     *)
LEMMA PassedRoom ==
  ASSUME NEW w \in Workers, w \notin Passed
  PROVE  Cardinality(Passed) < Cardinality(Workers)
  <1>1. Passed \in SUBSET Workers /\ Passed # Workers
    BY DEF Passed
  <1>2. Cardinality(Passed) <= Cardinality(Workers)
    BY <1>1, Finite, FS_Subset
  <1>3. Cardinality(Workers) # Cardinality(Passed)
    BY <1>1, Finite, FS_Subset
  <1> QED
    BY <1>2, <1>3, Finite, FS_CardinalityType

Inv == TypeOK /\ CountInv /\ GateInv /\ OwnInv /\ ThreadInv /\ RowInv

(* The count goes up with every thread, and down with one alone.           *)
LEMMA CountStep == Inv /\ [Next]_vars => CountInv'
  <1> SUFFICES ASSUME Inv, [Next]_vars PROVE CountInv'
    OBVIOUS
  <1>1. Cardinality(Alive) \in Nat /\ spawned \in Int
    BY Finite, FS_CardinalityType DEF Inv, TypeOK
  <1>2. ASSUME UNCHANGED <<thread, spawned>> PROVE CountInv'
    BY <1>2 DEF Inv, CountInv, Alive
  <1>3. ASSUME NEW w \in Workers, SpawnFails(w) PROVE CountInv'
    <2>1. spawned' = spawned + 1 /\ Alive' = Alive
      BY <1>3, FailStep DEF Inv, Alive
    <2> QED
      BY <1>1, <2>1 DEF Inv, CountInv
  <1>4. ASSUME NEW w \in Workers, Spawn(w) PROVE CountInv'
    <2>1. job[w] \in Jobs /\ thread[job[w]] = "none"
      <3>1. job[w] \in Jobs /\ Busy(w) /\ pc[w] = "spawn"
        BY <1>4 DEF Inv, Spawn, At, TypeOK, Busy
      <3>2. job[w][2] \in Tests /\ job[w] = <<job[w][1], job[w][2]>>
        BY <3>1, JobParts
      <3>3. thread[<<job[w][1], job[w][2]>>] = "none"
        BY <3>1, <3>2 DEF Inv, ThreadInv
      <3> QED
        BY <3>1, <3>2, <3>3
    <2>2. Alive' = Alive \cup {job[w]} /\ job[w] \notin Alive
      BY <1>4, <2>1 DEF Spawn, Alive, Inv, TypeOK
    <2>3. Cardinality(Alive') = Cardinality(Alive) + 1
      BY <2>2, Finite, FS_AddElement
    <2> QED
      BY <1>1, <1>4, <2>3 DEF Spawn, Inv, CountInv
  <1>5. ASSUME NEW j \in Jobs, ThreadExit(j) PROVE CountInv'
    <2>1. Alive' = Alive \ {j} /\ j \in Alive
      BY <1>5 DEF ThreadExit, Alive, Inv, TypeOK
    <2>2. Cardinality(Alive') = Cardinality(Alive) - 1
      BY <2>1, Finite, FS_RemoveElement
    <2> QED
      BY <1>1, <1>5, <2>2 DEF ThreadExit, Inv, CountInv
  <1>6. CASE Kill
    <2>1. Alive' = {}
      BY <1>6 DEF Kill, NoThreads, Alive
    <2> QED
      BY <1>6, <2>1, FS_EmptySet DEF Kill, CountInv
  <1>7. ASSUME NEW w \in Workers,
               \/ Take(w) \/ Gate(w) \/ Enter(w) \/ Receive(w) \/ TimeOut(w) \/ Record(w)
        PROVE  CountInv'
    BY <1>2, <1>7 DEF Take, Gate, Enter, Receive, TimeOut, Record, counters, threads
  <1>8. ASSUME NEW j \in Jobs, Answer(j) PROVE CountInv'
    BY <1>2, <1>8 DEF Answer, counters
  <1>9. CASE FinishRun \/ Memory \/ UNCHANGED vars
    BY <1>2, <1>9 DEF FinishRun, Memory, vars, counters, threads
  <1> QED
    BY <1>3, <1>4, <1>5, <1>6, <1>7, <1>8, <1>9 DEF Next, WorkerStep, ThreadStep, Over

(* A worker passes the gate with one count to spare.                       *)
LEMMA GateStep == Inv /\ [Next]_vars => GateInv'
  <1> SUFFICES ASSUME Inv, [Next]_vars PROVE GateInv'
    OBVIOUS
  <1> DEFINE P == Cardinality(Passed)
             W == Cardinality(Workers)
  <1>1. P \in Nat /\ W \in Nat /\ spawned \in Int /\ MaxSpawned \in Nat
    BY Finite, FS_CardinalityType DEF Inv, TypeOK
  <1>2. spawned + P < MaxSpawned + W
    BY DEF Inv, GateInv
  <1>3. ASSUME Passed' = Passed, spawned' <= spawned, spawned' \in Int PROVE GateInv'
    BY <1>1, <1>2, <1>3 DEF GateInv
  <1>4. ASSUME NEW w \in Workers, Gate(w) PROVE GateInv'
    <2>1. w \notin Passed /\ Passed' = Passed \cup {w}
      BY <1>4 DEF Gate, At, Goto, Passed, Inv, TypeOK
    <2>2. Cardinality(Passed') = P + 1
      BY <2>1, Finite, FS_AddElement
    <2>3. P < W
      BY <2>1, PassedRoom
    <2>4. spawned < MaxSpawned /\ spawned' = spawned
      BY <1>4 DEF Gate, counters
    <2> QED
      BY <1>1, <2>2, <2>3, <2>4 DEF GateInv
  <1>5. ASSUME NEW w \in Workers, Enter(w) PROVE GateInv'
    <2>1. Passed' = Passed
      BY <1>5 DEF Enter, At, Goto, Passed, Inv, TypeOK
    <2> QED
      BY <1>1, <1>3, <1>5, <2>1 DEF Enter
  <1>6. ASSUME NEW w \in Workers, Spawn(w) PROVE GateInv'
    <2>1. w \in Passed /\ Passed' = Passed \ {w}
      BY <1>6 DEF Spawn, At, Goto, Passed, Inv, TypeOK
    <2>2. Cardinality(Passed') = P - 1
      BY <2>1, Finite, FS_RemoveElement
    <2>3. spawned' = spawned + 1
      BY <1>6 DEF Spawn
    <2> QED
      BY <1>1, <1>2, <2>2, <2>3 DEF GateInv
  <1>7. ASSUME NEW w \in Workers, Receive(w) \/ TimeOut(w) PROVE GateInv'
    <2>1. Passed' = Passed
      BY <1>7 DEF Receive, TimeOut, At, Goto, Passed, Inv, TypeOK
    <2> QED
      BY <1>1, <1>3, <1>7, <2>1 DEF Receive, TimeOut
  <1>8. ASSUME NEW w \in Workers, Take(w) PROVE GateInv'
    <2>1. PICK p \in todo : UNCHANGED worker \/ BeginPdf(w, p)
      BY <1>8 DEF Take
    <2>2. Passed' = Passed
      BY <1>8, <2>1 DEF Take, At, BeginPdf, Begin, Goto, Passed, Inv, TypeOK, worker
    <2> QED
      BY <1>1, <1>3, <1>8, <2>2 DEF Take, counters
  <1>9. ASSUME NEW w \in Workers, Record(w) PROVE GateInv'
    <2>1. Passed' = Passed
      BY <1>9 DEF Record, At, Begin, Finish, Goto, Passed, Inv, TypeOK
    <2> QED
      BY <1>1, <1>3, <1>9, <2>1 DEF Record, counters
  <1>10. ASSUME NEW j \in Jobs, Answer(j) \/ ThreadExit(j) PROVE GateInv'
    BY <1>1, <1>3, <1>10 DEF Answer, ThreadExit, Passed, worker, counters
  <1>11. CASE Kill
    <2>1. Passed' = {} /\ spawned' = 0
      BY <1>11 DEF Kill, NoPcs, Passed
    <2> QED
      BY <1>1, <2>1, FS_EmptySet DEF GateInv
  <1>12. CASE FinishRun \/ Memory \/ UNCHANGED vars
    BY <1>1, <1>3, <1>12 DEF FinishRun, Memory, vars, Passed, worker, counters
  <1>13. ASSUME NEW w \in Workers, SpawnFails(w) PROVE GateInv'
    <2>1. w \in Passed /\ Passed' = Passed \ {w}
      BY <1>13, FailStep DEF Passed, Inv, TypeOK
    <2>2. Cardinality(Passed') = P - 1
      BY <2>1, Finite, FS_RemoveElement
    <2>3. spawned' = spawned + 1
      BY <1>13, FailStep DEF Inv
    <2> QED
      BY <1>1, <1>2, <2>2, <2>3 DEF GateInv
  <1> QED
    BY <1>4, <1>5, <1>6, <1>7, <1>8, <1>9, <1>10, <1>11, <1>12, <1>13
       DEF Next, WorkerStep, ThreadStep, Over

-----------------------------------------------------------------------------
(* Who is at which document, and which of its tests have threads and rows. *)

(* A step that takes no document and moves no worker to another test.      *)
LEMMA OwnFrame == ASSUME OwnInv, UNCHANGED <<todo, job>> PROVE OwnInv'
  BY DEF OwnInv, Busy

(* Take hands out a document, or passes it over.                           *)
LEMMA TakeStep ==
  ASSUME TypeOK, NEW w \in Workers, Take(w)
  PROVE  \E p \in todo :
           /\ todo' = todo \ {p} /\ p \in Pdfs
           /\ \/ UNCHANGED worker
              \/ /\ ~Completed(p) \/ p \in uncounted'
                 /\ <<p, 1>> \in Jobs
                 /\ job' = [job EXCEPT ![w] = <<p, 1>>]
                 /\ \A v \in Workers \ {w} : pc'[v] = pc[v]
                 /\ \A v \in Workers \ {w} : result'[v] = result[v]
                 /\ pc'[w] = "record" => result'[w] # "none"
  <1>1. PICK p \in todo : /\ todo' = todo \ {p}
                          /\ \/ UNCHANGED worker
                             \/ /\ BeginPdf(w, p)
                                /\ ~Resumed(p) \/ p \in uncounted'
    BY DEF Take
  <1>2. p \in Pdfs /\ <<p, 1>> \in Jobs /\ PreChecks[p] \subseteq Modes
    BY TestsNat DEF TypeOK, Jobs
  <1>3. CASE BeginPdf(w, p) /\ (~Resumed(p) \/ p \in uncounted')
    <2>1. PICK m \in Modes : Begin(w, <<p, 1>>, m)
      BY <1>2, <1>3 DEF BeginPdf
    <2>2. /\ job' = [job EXCEPT ![w] = <<p, 1>>]
          /\ \A v \in Workers \ {w} : pc'[v] = pc[v]
          /\ \A v \in Workers \ {w} : result'[v] = result[v]
          /\ pc'[w] = "record" => result'[w] # "none"
      BY <1>2, <2>1, BeginStep
    <2> QED
      BY <1>1, <1>2, <1>3, <2>2 DEF Resumed
  <1> QED
    BY <1>1, <1>2, <1>3

(* Record goes on to the next test, or leaves the document.                *)
LEMMA RecordStep ==
  ASSUME TypeOK, NEW w \in Workers, Record(w)
  PROVE  /\ job[w] \in Jobs /\ Busy(w) /\ pc[w] = "record"
         /\ \/ db' = [db EXCEPT ![job[w]] = result[w]] /\ UNCHANGED unwritten
            \/ unwritten' = unwritten \cup {job[w]} /\ UNCHANGED db
         /\ UNCHANGED <<todo, thread, uncounted>>
         /\ \A v \in Workers \ {w} : pc'[v] = pc[v]
         /\ \A v \in Workers \ {w} : result'[v] = result[v]
         /\ \/ /\ job[w][2] < TestCount /\ <<job[w][1], job[w][2] + 1>> \in Jobs
               /\ job' = [job EXCEPT ![w] = <<job[w][1], job[w][2] + 1>>]
               /\ pc'[w] = "record" => result'[w] # "none"
            \/ /\ ~(job[w][2] < TestCount)
               /\ job' = [job EXCEPT ![w] = NoJob]
               /\ pc'[w] = "idle"
  <1>1. /\ job[w] \in Jobs /\ Busy(w)
        /\ job[w][2] < TestCount => <<job[w][1], job[w][2] + 1>> \in Jobs
    BY NextTest DEF Record
  <1>2. /\ pc[w] = "record"
        /\ \/ db' = [db EXCEPT ![job[w]] = result[w]] /\ UNCHANGED unwritten
           \/ unwritten' = unwritten \cup {job[w]} /\ UNCHANGED db
        /\ UNCHANGED <<todo, thread, uncounted>>
    BY DEF Record, Insert, At, threads
  <1>3. CASE job[w][2] < TestCount
    <2>1. Begin(w, <<job[w][1], job[w][2] + 1>>, mode[w]) /\ mode[w] \in Modes
      BY <1>3 DEF Record, TypeOK
    <2>2. /\ job' = [job EXCEPT ![w] = <<job[w][1], job[w][2] + 1>>]
          /\ \A v \in Workers \ {w} : pc'[v] = pc[v]
          /\ \A v \in Workers \ {w} : result'[v] = result[v]
          /\ pc'[w] = "record" => result'[w] # "none"
      BY <1>1, <1>3, <2>1, BeginStep
    <2> QED
      BY <1>1, <1>2, <1>3, <2>2
  <1>4. CASE ~(job[w][2] < TestCount)
    <2>1. /\ job' = [job EXCEPT ![w] = NoJob]
          /\ pc' = [pc EXCEPT ![w] = "idle"]
          /\ result' = [result EXCEPT ![w] = "none"]
      BY <1>4 DEF Record, Finish, Goto
    <2>2. /\ pc'[w] = "idle"
          /\ \A v \in Workers \ {w} : pc'[v] = pc[v] /\ result'[v] = result[v]
      BY <2>1 DEF TypeOK
    <2> QED
      BY <1>1, <1>2, <1>4, <2>1, <2>2
  <1> QED
    BY <1>3, <1>4

LEMMA OwnStep == Inv /\ [Next]_vars => OwnInv'
  <1> SUFFICES ASSUME Inv, [Next]_vars PROVE OwnInv'
    OBVIOUS
  <1>1. OwnInv /\ TypeOK
    BY DEF Inv
  <1>2. ASSUME NEW w \in Workers, Take(w) PROVE OwnInv'
    <2>1. PICK p \in todo :
            /\ todo' = todo \ {p} /\ p \in Pdfs
            /\ \/ UNCHANGED worker
               \/ /\ <<p, 1>> \in Jobs
                  /\ job' = [job EXCEPT ![w] = <<p, 1>>]
      BY <1>1, <1>2, TakeStep
    <2>2. CASE UNCHANGED worker
      BY <1>1, <2>1, <2>2 DEF OwnInv, Busy, worker
    <2>3. CASE job' = [job EXCEPT ![w] = <<p, 1>>]
      <3>1. job'[w][1] = p /\ \A v \in Workers \ {w} : job'[v] = job[v]
        BY <1>1, <2>3 DEF TypeOK
      <3>2. \A v \in Workers : Busy(v) => job[v][1] # p
        BY <1>1 DEF OwnInv
      <3> QED
        BY <1>1, <2>1, <3>1, <3>2 DEF OwnInv, Busy
    <2> QED
      BY <2>1, <2>2, <2>3
  <1>3. ASSUME NEW w \in Workers, Record(w) PROVE OwnInv'
    <2>1. /\ Busy(w) /\ UNCHANGED todo
          /\ \/ job' = [job EXCEPT ![w] = <<job[w][1], job[w][2] + 1>>]
             \/ job' = [job EXCEPT ![w] = NoJob]
      BY <1>1, <1>3, RecordStep
    <2>2. /\ \A v \in Workers \ {w} : job'[v] = job[v]
          /\ job'[w] # NoJob => job'[w][1] = job[w][1]
      BY <1>1, <2>1 DEF TypeOK
    <2> QED
      BY <1>1, <2>1, <2>2 DEF OwnInv, Busy
  <1>4. CASE Kill
    BY <1>4 DEF Kill, NoJobs, OwnInv, Busy
  <1>5. ASSUME NEW w \in Workers,
               Gate(w) \/ Enter(w) \/ Spawn(w) \/ Receive(w) \/ TimeOut(w)
        PROVE  OwnInv'
    BY <1>1, <1>5, OwnFrame DEF Gate, Enter, Spawn, Receive, TimeOut
  <1>6. ASSUME NEW j \in Jobs, Answer(j) \/ ThreadExit(j) PROVE OwnInv'
    BY <1>1, <1>6, OwnFrame DEF Answer, ThreadExit, worker
  <1>7. CASE FinishRun \/ Memory \/ UNCHANGED vars
    BY <1>1, <1>7, OwnFrame DEF FinishRun, Memory, vars, worker
  <1>8. ASSUME NEW w \in Workers, SpawnFails(w) PROVE OwnInv'
    BY <1>1, <1>8, FailStep DEF OwnInv, Busy
  <1> QED
    BY <1>2, <1>3, <1>4, <1>5, <1>6, <1>7, <1>8 DEF Next, WorkerStep, ThreadStep, Over

(* What the steps of a worker at one test leave alone.                     *)
LEMMA ThreadStepInv == Inv /\ [Next]_vars => ThreadInv'
  <1> SUFFICES ASSUME Inv, [Next]_vars PROVE ThreadInv'
    OBVIOUS
  <1>1. OwnInv /\ ThreadInv /\ TypeOK
    BY DEF Inv
  <1>2. ASSUME UNCHANGED <<todo, job>>,
               \A j \in Jobs : thread[j] = "none" => thread'[j] = "none",
               \A w \in Workers : pc'[w] \in {"gate", "enter", "spawn"} =>
                                    pc[w] \in {"gate", "enter", "spawn"}
        PROVE  ThreadInv'
    <2>1. ASSUME NEW p \in todo', NEW t \in Tests PROVE thread'[<<p, t>>] = "none"
      BY <1>1, <1>2, <2>1 DEF ThreadInv, TypeOK, Jobs
    <2>2. ASSUME NEW w \in Workers, Busy(w)', NEW t \in Tests,
                 \/ t > job'[w][2]
                 \/ t = job'[w][2] /\ pc'[w] \in {"gate", "enter", "spawn"}
          PROVE  thread'[<<job'[w][1], t>>] = "none"
      <3>1. Busy(w) /\ job[w] \in Jobs /\ job[w][1] \in Pdfs
        BY <1>1, <1>2, <2>2, JobParts DEF Busy, TypeOK
      <3>2. thread[<<job[w][1], t>>] = "none"
        BY <1>1, <1>2, <2>2, <3>1 DEF ThreadInv
      <3>3. <<job[w][1], t>> \in Jobs
        BY <3>1 DEF Jobs
      <3> QED
        BY <1>2, <3>2, <3>3
    <2> QED
      BY <2>1, <2>2 DEF ThreadInv
  <1>3. ASSUME NEW w \in Workers, Gate(w) \/ Enter(w) \/ Receive(w) \/ TimeOut(w)
        PROVE  ThreadInv'
    BY <1>1, <1>2, <1>3 DEF Gate, Enter, Receive, TimeOut, At, Goto, threads, TypeOK
  <1>4. ASSUME NEW w \in Workers, Spawn(w) PROVE ThreadInv'
    <2>1. /\ job[w] \in Jobs /\ Busy(w) /\ job[w] = <<job[w][1], job[w][2]>>
          /\ job[w][2] \in Tests
      BY <1>1, <1>4, JobParts DEF Spawn, At, TypeOK, Busy
    <2>2. /\ UNCHANGED <<todo, job>> /\ pc' = [pc EXCEPT ![w] = "wait"]
          /\ thread' = [thread EXCEPT ![job[w]] = "alive"]
      BY <1>4 DEF Spawn, Goto
    <2>3. ASSUME NEW p \in todo', NEW t \in Tests PROVE thread'[<<p, t>>] = "none"
      <3>1. p # job[w][1] /\ <<p, t>> \in Jobs /\ thread[<<p, t>>] = "none"
        BY <1>1, <2>1, <2>2, <2>3 DEF OwnInv, ThreadInv, TypeOK, Jobs
      <3> QED
        BY <1>1, <2>1, <2>2, <3>1 DEF TypeOK
    <2>4. ASSUME NEW v \in Workers, Busy(v)', NEW t \in Tests,
                 \/ t > job'[v][2]
                 \/ t = job'[v][2] /\ pc'[v] \in {"gate", "enter", "spawn"}
          PROVE  thread'[<<job'[v][1], t>>] = "none"
      <3>1. Busy(v) /\ job[v] \in Jobs /\ job'[v] = job[v] /\ job[v][1] \in Pdfs
        BY <1>1, <2>2, <2>4, JobParts DEF Busy, TypeOK
      <3>2. <<job[v][1], t>> # job[w]
        <4>1. CASE v = w
          <5>1. pc'[w] = "wait"
            BY <1>1, <2>2 DEF TypeOK
          <5>2. t > job[w][2]
            BY <2>4, <3>1, <4>1, <5>1
          <5> QED
            BY <2>1, <5>2, TestsNat
        <4>2. CASE v # w
          BY <1>1, <2>1, <3>1, <4>2 DEF OwnInv
        <4> QED
          BY <4>1, <4>2
      <3>3. pc'[v] \in {"gate", "enter", "spawn"} => pc[v] \in {"gate", "enter", "spawn"}
        BY <1>1, <2>2 DEF TypeOK
      <3>4. thread[<<job[v][1], t>>] = "none"
        BY <1>1, <2>4, <3>1, <3>3 DEF ThreadInv
      <3>5. <<job[v][1], t>> \in Jobs
        BY <3>1 DEF Jobs
      <3> QED
        BY <1>1, <2>2, <3>1, <3>2, <3>4, <3>5 DEF TypeOK
    <2> QED
      BY <2>3, <2>4 DEF ThreadInv
  <1>5. ASSUME NEW j \in Jobs, Answer(j) \/ ThreadExit(j) PROVE ThreadInv'
    BY <1>1, <1>2, <1>5 DEF Answer, ThreadExit, worker, TypeOK
  <1>6. CASE FinishRun \/ Memory \/ UNCHANGED vars
    BY <1>2, <1>6 DEF FinishRun, Memory, vars, worker, threads
  <1>7. ASSUME NEW w \in Workers, SpawnFails(w) PROVE ThreadInv'
    BY <1>1, <1>7, FailStep DEF ThreadInv, Busy
  <1>8. CASE Kill
    <2>1. /\ \A j \in Jobs : thread'[j] = "none"
          /\ todo' \subseteq Pdfs
          /\ \A w \in Workers : ~(Busy(w)')
      BY <1>8 DEF Kill, NoThreads, NoJobs, Busy
    <2> QED
      BY <2>1 DEF ThreadInv, Jobs
  <1>9. ASSUME NEW w \in Workers, Take(w) PROVE ThreadInv'
    <2>1. PICK p \in todo :
            /\ todo' = todo \ {p} /\ p \in Pdfs
            /\ \/ UNCHANGED worker
               \/ /\ <<p, 1>> \in Jobs
                  /\ job' = [job EXCEPT ![w] = <<p, 1>>]
                  /\ \A v \in Workers \ {w} : pc'[v] = pc[v]
      BY <1>1, <1>9, TakeStep
    <2>2. UNCHANGED thread
      BY <1>9 DEF Take, threads
    <2>3. CASE UNCHANGED worker
      BY <1>1, <2>1, <2>2, <2>3 DEF ThreadInv, worker, Busy
    <2>4. CASE /\ job' = [job EXCEPT ![w] = <<p, 1>>]
               /\ \A v \in Workers \ {w} : pc'[v] = pc[v]
      <3>1. job'[w] = <<p, 1>> /\ \A v \in Workers \ {w} : job'[v] = job[v]
        BY <1>1, <2>4 DEF TypeOK
      <3>2. \A t \in Tests : thread'[<<p, t>>] = "none"
        BY <1>1, <2>1, <2>2 DEF ThreadInv
      <3>3. ASSUME NEW v \in Workers, Busy(v)', NEW t \in Tests,
                   \/ t > job'[v][2]
                   \/ t = job'[v][2] /\ pc'[v] \in {"gate", "enter", "spawn"}
            PROVE  thread'[<<job'[v][1], t>>] = "none"
        BY <1>1, <2>2, <2>4, <3>1, <3>2, <3>3 DEF ThreadInv, Busy
      <3> QED
        BY <1>1, <2>1, <2>2, <3>3 DEF ThreadInv
    <2> QED
      BY <2>1, <2>3, <2>4
  <1>10. ASSUME NEW w \in Workers, Record(w) PROVE ThreadInv'
    <2>1. /\ job[w] \in Jobs /\ Busy(w) /\ UNCHANGED <<todo, thread>>
          /\ \A v \in Workers \ {w} : pc'[v] = pc[v]
          /\ \/ job' = [job EXCEPT ![w] = <<job[w][1], job[w][2] + 1>>]
             \/ job' = [job EXCEPT ![w] = NoJob]
      BY <1>1, <1>10, RecordStep
    <2>2. /\ job[w][2] \in Nat
          /\ \A v \in Workers \ {w} : job'[v] = job[v]
          /\ Busy(w)' => job'[w][1] = job[w][1] /\ job'[w][2] = job[w][2] + 1
      BY <1>1, <2>1, JobParts, TestsNat DEF TypeOK, Busy
    <2>3. ASSUME NEW v \in Workers, Busy(v)', NEW t \in Tests,
                 \/ t > job'[v][2]
                 \/ t = job'[v][2] /\ pc'[v] \in {"gate", "enter", "spawn"}
          PROVE  thread'[<<job'[v][1], t>>] = "none"
      <3>1. CASE v = w
        <4>1. t > job[w][2]
          BY <2>2, <2>3, <3>1, TestsNat
        <4> QED
          BY <1>1, <2>1, <2>2, <2>3, <3>1, <4>1 DEF ThreadInv
      <3>2. CASE v # w
        BY <1>1, <2>1, <2>2, <2>3, <3>2 DEF ThreadInv, Busy
      <3> QED
        BY <3>1, <3>2
    <2> QED
      BY <1>1, <2>1, <2>3 DEF ThreadInv
  <1> QED
    BY <1>3, <1>4, <1>5, <1>6, <1>7, <1>8, <1>9, <1>10
       DEF Next, WorkerStep, ThreadStep, Over

(* A document has all its rows exactly if none is missing.                 *)
LEMMA CompletedMeans ==
  ASSUME NEW p \in Pdfs
  PROVE  Completed(p) <=> \A t \in Tests : db[<<p, t>>] # "none"
  <1> DEFINE rows == {t \in Tests : db[<<p, t>>] # "none"}
  <1>1. IsFiniteSet(Tests) /\ Cardinality(Tests) = TestCount
    BY FS_Interval DEF Tests
  <1>2. rows \in SUBSET Tests
    OBVIOUS
  <1>3. /\ Cardinality(rows) <= TestCount
        /\ Cardinality(rows) = TestCount => rows = Tests
        /\ IsFiniteSet(rows)
    <2> HIDE DEF rows
    <2> QED
      BY <1>1, <1>2, FS_Subset
  <1>4. Cardinality(rows) \in Nat
    BY <1>3, FS_CardinalityType
  <1>5. Cardinality(rows) >= TestCount <=> rows = Tests
    <2> HIDE DEF rows
    <2>1. rows = Tests => Cardinality(rows) = TestCount
      BY <1>1
    <2>2. Cardinality(rows) >= TestCount => Cardinality(rows) = TestCount
      BY <1>3, <1>4
    <2>3. Cardinality(rows) = TestCount => Cardinality(rows) >= TestCount
      BY <1>4
    <2> QED
      BY <1>3, <2>1, <2>2, <2>3
  <1> QED
    BY <1>5 DEF Completed

(* What troubles a document troubles it for good.                          *)
LEMMA TroubleStays ==
  ASSUME [Next]_vars, NEW p \in Pdfs, Untroubled(p)' PROVE Untroubled(p)
  <1>1. unwritten \subseteq unwritten' /\ uncounted \subseteq uncounted'
    BY DEF Next, WorkerStep, ThreadStep, Take, Gate, Enter, Spawn, SpawnFails, Answer,
           ThreadExit, Receive, TimeOut, Record, Insert, FinishRun, Memory, Kill, Over,
           vars, outside, faults
  <1> QED
    BY <1>1 DEF Untroubled

(* An incomplete document has no last row.                                 *)
LEMMA LastRowMissing ==
  ASSUME TypeOK, RowInv, NEW p \in Pdfs, ~Completed(p), Untroubled(p)
  PROVE  db[<<p, TestCount>>] = "none"
  <1>1. PICK t \in Tests : db[<<p, t>>] = "none"
    BY CompletedMeans
  <1>2. t < TestCount \/ t = TestCount
    BY DEF Tests
  <1> QED
    BY <1>1, <1>2, TestsNat DEF RowInv

LEMMA RowStep == Inv /\ [Next]_vars => RowInv'
  <1> SUFFICES ASSUME Inv, [Next]_vars PROVE RowInv'
    OBVIOUS
  <1>1. OwnInv /\ RowInv /\ TypeOK
    BY DEF Inv
  <1>2. \A p \in Pdfs : Untroubled(p)' => Untroubled(p)
    BY TroubleStays
  <1>3. ASSUME UNCHANGED db,
               \A w \in Workers : Busy(w)' => Busy(w) /\ job'[w] = job[w],
               \A w \in Workers : pc'[w] = "record" => result'[w] # "none"
        PROVE  RowInv'
    <2>1. \A w \in Workers : Busy(w)' => job'[w][1] \in Pdfs
      BY <1>1, <1>3, JobParts DEF Busy, TypeOK
    <2> QED
      BY <1>1, <1>2, <1>3, <2>1 DEF RowInv
  <1>4. ASSUME NEW w \in Workers, Gate(w) \/ Enter(w) \/ Spawn(w) PROVE RowInv'
    BY <1>1, <1>3, <1>4 DEF Gate, Enter, Spawn, Goto, outside, TypeOK, RowInv, Busy
  <1>5. ASSUME NEW w \in Workers, Receive(w) \/ TimeOut(w) PROVE RowInv'
    <2>1. /\ UNCHANGED <<job, db>>
          /\ pc' = [pc EXCEPT ![w] = "record"]
          /\ \E r \in Statuses : result' = [result EXCEPT ![w] = r]
      <3>1. job[w] \in Jobs
        BY <1>1, <1>5 DEF Receive, TimeOut, At, TypeOK
      <3>2. CASE Receive(w)
        BY <1>1, <3>1, <3>2 DEF Receive, Goto, outside, TypeOK, Statuses
      <3>3. CASE TimeOut(w)
        BY <3>3 DEF TimeOut, Goto, outside, Statuses
      <3> QED
        BY <1>5, <3>2, <3>3
    <2>2. "none" \notin Statuses
      BY DEF Statuses, Outcomes
    <2>3. \A v \in Workers : pc'[v] = "record" => result'[v] # "none"
      BY <1>1, <2>1, <2>2 DEF TypeOK, RowInv
    <2> QED
      BY <1>3, <2>1, <2>3 DEF Busy
  <1>6. ASSUME NEW j \in Jobs, Answer(j) \/ ThreadExit(j) PROVE RowInv'
    BY <1>1, <1>3, <1>6 DEF Answer, ThreadExit, worker, outside, RowInv, Busy
  <1>7. CASE FinishRun \/ Memory \/ UNCHANGED vars
    BY <1>1, <1>3, <1>7 DEF FinishRun, Memory, vars, worker, outside, RowInv, Busy
  <1>8. ASSUME NEW w \in Workers, SpawnFails(w) PROVE RowInv'
    BY <1>1, <1>3, <1>8, FailStep DEF RowInv, Busy
  <1>9. CASE Kill
    <2>1. /\ UNCHANGED db
          /\ \A w \in Workers : ~(Busy(w)') /\ pc'[w] = "idle"
      BY <1>9 DEF Kill, NoJobs, NoPcs, Busy
    <2> QED
      BY <1>3, <2>1
  <1>10. ASSUME NEW w \in Workers, Take(w) PROVE RowInv'
    <2>1. PICK p \in todo :
            /\ p \in Pdfs
            /\ \/ UNCHANGED worker
               \/ /\ ~Completed(p) \/ p \in uncounted'
                  /\ <<p, 1>> \in Jobs
                  /\ job' = [job EXCEPT ![w] = <<p, 1>>]
                  /\ \A v \in Workers \ {w} : pc'[v] = pc[v]
                  /\ \A v \in Workers \ {w} : result'[v] = result[v]
                  /\ pc'[w] = "record" => result'[w] # "none"
      BY <1>1, <1>10, TakeStep
    <2>2. UNCHANGED db
      BY <1>10 DEF Take
    <2>3. CASE UNCHANGED worker
      BY <1>1, <1>3, <2>2, <2>3 DEF RowInv, worker, Busy
    <2>4. CASE ~UNCHANGED worker
      <3>1. job'[w] = <<p, 1>> /\ \A v \in Workers \ {w} : job'[v] = job[v]
        BY <1>1, <2>1, <2>4 DEF TypeOK
      <3>2. Untroubled(p)' => db[<<p, TestCount>>] = "none"
        BY <1>1, <1>2, <2>1, <2>4, LastRowMissing DEF Untroubled
      <3>3. \A s \in Tests : ~(s < 1)
        BY TestsNat
      <3>4. \A v \in Workers \ {w} : Busy(v)' => Busy(v) /\ job[v][1] \in Pdfs
        BY <1>1, <3>1, JobParts DEF Busy, TypeOK
      <3>5. ASSUME NEW v \in Workers, Busy(v)', Untroubled(job[v][1])'
            PROVE  /\ db'[<<job'[v][1], TestCount>>] = "none"
                   /\ \A s \in Tests : s < job'[v][2] => db'[<<job'[v][1], s>>] # "none"
        <4>1. CASE v = w
          BY <2>2, <3>1, <3>2, <3>3, <3>5, <4>1
        <4>2. CASE v # w
          <5>1. Busy(v) /\ Untroubled(job[v][1]) /\ job'[v] = job[v]
            BY <1>2, <3>1, <3>4, <3>5, <4>2
          <5> QED
            BY <1>1, <2>2, <5>1 DEF RowInv
        <4> QED
          BY <4>1, <4>2
      <3>6. \A v \in Workers : pc'[v] = "record" => result'[v] # "none"
        BY <1>1, <2>1, <2>4 DEF RowInv
      <3>7. \A q \in Pdfs, s, t \in Tests :
              Untroubled(q)' /\ s < t /\ db'[<<q, t>>] # "none" => db'[<<q, s>>] # "none"
        BY <1>1, <1>2, <2>2 DEF RowInv
      <3> QED
        BY <3>5, <3>6, <3>7 DEF RowInv
    <2> QED
      BY <2>3, <2>4
  <1>11. ASSUME NEW w \in Workers, Record(w) PROVE RowInv'
    <2>1. /\ job[w] \in Jobs /\ Busy(w) /\ pc[w] = "record"
          /\ \/ db' = [db EXCEPT ![job[w]] = result[w]]
             \/ unwritten' = unwritten \cup {job[w]} /\ UNCHANGED db
          /\ \A v \in Workers \ {w} : pc'[v] = pc[v]
          /\ \A v \in Workers \ {w} : result'[v] = result[v]
          /\ \/ /\ job[w][2] < TestCount
                /\ job' = [job EXCEPT ![w] = <<job[w][1], job[w][2] + 1>>]
                /\ pc'[w] = "record" => result'[w] # "none"
             \/ /\ ~(job[w][2] < TestCount)
                /\ job' = [job EXCEPT ![w] = NoJob]
                /\ pc'[w] = "idle"
      BY <1>1, <1>11, RecordStep
    <2>2. PICK q \in Pdfs, n \in Tests :
            job[w] = <<q, n>> /\ job[w][1] = q /\ job[w][2] = n /\ result[w] # "none"
      BY <1>1, <2>1, JobParts DEF RowInv
    <2>3. \A v \in Workers \ {w} : job'[v] = job[v]
      BY <1>1, <2>1 DEF TypeOK
    <2>4. Busy(w)' => job'[w] = <<q, n + 1>> /\ n < TestCount
      BY <1>1, <2>1, <2>2 DEF TypeOK, Busy
    <2>5. /\ Untroubled(q)' => db'[<<q, n>>] # "none"
          /\ \A p \in Pdfs, t \in Tests : <<p, t>> # <<q, n>> => db'[<<p, t>>] = db[<<p, t>>]
      BY <1>1, <2>1, <2>2 DEF TypeOK, Jobs, Untroubled
    <2>6. Untroubled(q)' => \A s \in Tests : s < n => db[<<q, s>>] # "none"
      BY <1>1, <1>2, <2>1, <2>2 DEF RowInv
    <2>7. ASSUME NEW p \in Pdfs, NEW s \in Tests, NEW t \in Tests,
                 Untroubled(p)', s < t, db'[<<p, t>>] # "none"
          PROVE  db'[<<p, s>>] # "none"
      <3>1. CASE p = q /\ s = n
        BY <2>5, <2>7, <3>1
      <3>2. CASE p = q /\ t = n
        <4>1. db[<<p, s>>] # "none" /\ s # n
          BY <2>2, <2>6, <2>7, <3>2, TestsNat
        <4> QED
          BY <2>5, <4>1
      <3>3. CASE ~(p = q /\ s = n) /\ ~(p = q /\ t = n)
        <4>1. db[<<p, t>>] # "none"
          BY <2>5, <2>7, <3>3
        <4>2. db[<<p, s>>] # "none"
          BY <1>1, <1>2, <2>7, <4>1 DEF RowInv
        <4> QED
          BY <2>5, <3>3, <4>2
      <3> QED
        BY <3>1, <3>2, <3>3
    <2>8. ASSUME NEW v \in Workers, Busy(v)', Untroubled(job[v][1])'
          PROVE  /\ db'[<<job'[v][1], TestCount>>] = "none"
                 /\ \A s \in Tests : s < job'[v][2] => db'[<<job'[v][1], s>>] # "none"
      <3>1. CASE v = w
        <4>1. job'[v][1] = q /\ job'[v][2] = n + 1 /\ n < TestCount /\ Untroubled(q)'
          <5>1. job'[v] = <<q, n + 1>> /\ n < TestCount
            BY <2>4, <2>8, <3>1
          <5> QED
            BY <2>8, <5>1 DEF Untroubled
        <4>2. db[<<q, TestCount>>] = "none"
          BY <1>1, <1>2, <2>1, <2>2, <4>1 DEF RowInv
        <4>3. db'[<<q, TestCount>>] = "none"
          BY <2>2, <2>5, <4>1, <4>2, TestsNat
        <4>4. ASSUME NEW s \in Tests, s < n + 1 PROVE db'[<<q, s>>] # "none"
          <5>1. s < n \/ s = n
            BY <2>2, <4>4, TestsNat
          <5>2. CASE s = n
            BY <2>5, <4>1, <5>2
          <5>3. CASE s < n /\ s # n
            BY <2>2, <2>5, <2>6, <4>1, <5>3
          <5>4. s < n => s # n
            BY <2>2, TestsNat
          <5> QED
            BY <5>1, <5>2, <5>3, <5>4
        <4> QED
          BY <4>1, <4>3, <4>4
      <3>2. CASE v # w
        <4>1. Busy(v) /\ job'[v] = job[v] /\ job[v][1] # q /\ job[v][1] \in Pdfs
          BY <1>1, <2>1, <2>2, <2>3, <2>8, <3>2, JobParts DEF OwnInv, Busy, TypeOK
        <4>2. \A t \in Tests : db'[<<job[v][1], t>>] = db[<<job[v][1], t>>]
          BY <2>5, <4>1
        <4>3. Untroubled(job[v][1])
          <5>1. Untroubled(job[v][1])'
            BY <2>8
          <5> QED
            BY <1>2, <4>1, <5>1
        <4> QED
          BY <1>1, <4>1, <4>2, <4>3, TestsNat DEF RowInv
      <3> QED
        BY <3>1, <3>2
    <2>9. \A v \in Workers : pc'[v] = "record" => result'[v] # "none"
      BY <1>1, <2>1 DEF RowInv
    <2> QED
      BY <2>7, <2>8, <2>9 DEF RowInv
  <1> QED
    BY <1>4, <1>5, <1>6, <1>7, <1>8, <1>9, <1>10, <1>11
       DEF Next, WorkerStep, ThreadStep, Over

-----------------------------------------------------------------------------
LEMMA InvInit == Init => Inv
  <1> SUFFICES ASSUME Init PROVE Inv
    OBVIOUS
  <1>1. TypeOK
    BY TypesInit
  <1>2. Alive = {} /\ Passed = {} /\ \A w \in Workers : ~Busy(w) /\ pc[w] = "idle"
    BY DEF Init, NoThreads, NoPcs, NoJobs, Alive, Passed, Busy
  <1>3. Cardinality({}) = 0 /\ Cardinality(Workers) \in Nat
    BY Finite, FS_EmptySet, FS_CardinalityType
  <1>4. CountInv /\ GateInv
    BY <1>2, <1>3 DEF CountInv, GateInv, Init
  <1>5. \A p \in Pdfs, t \in Tests : thread[<<p, t>>] = "none" /\ db[<<p, t>>] = "none"
    BY DEF Init, NoThreads, Jobs
  <1>6. OwnInv /\ ThreadInv /\ RowInv
    BY <1>1, <1>2, <1>5 DEF OwnInv, ThreadInv, RowInv, TypeOK
  <1> QED
    BY <1>1, <1>4, <1>6 DEF Inv

(* The strengthening: all that the three properties below rest on.         *)
THEOREM RunnerInvariant == Spec => []Inv
  <1>1. Inv /\ [Next]_vars => Inv'
    BY TypesStep, CountStep, GateStep, OwnStep, ThreadStepInv, RowStep DEF Inv
  <1> QED
    BY InvInit, <1>1, PTL DEF Spec

(* However many tests outlive their limit, the threads alive stay below    *)
(* MAX_SPAWNED_THREADS plus the number of workers (runner.rs:680-693).     *)
THEOREM RunnerAliveBounded == Spec => []AliveBounded
  <1>1. Inv => AliveBounded
    <2> SUFFICES ASSUME Inv PROVE AliveBounded
      OBVIOUS
    <2>1. Cardinality(Passed) \in Nat /\ Cardinality(Alive) \in Nat /\ Cardinality(Workers) \in Nat
      BY Finite, FS_CardinalityType
    <2>2. /\ Cardinality(Alive) <= spawned /\ spawned \in Int
          /\ spawned + Cardinality(Passed) < MaxSpawned + Cardinality(Workers)
      BY DEF Inv, TypeOK, CountInv, GateInv
    <2> QED
      BY <2>1, <2>2 DEF AliveBounded
  <1> QED
    BY <1>1, RunnerInvariant, PTL

(* No step, of a resumed run or of a late thread, changes a row of a       *)
(* document that has all of them and for which the database failed neither *)
(* an insert nor the count (runner.rs:336-344, 763-793).                   *)
THEOREM RunnerVerdictsStand == Spec => VerdictsStand
  <1> DEFINE Stand == \A p \in Pdfs : Completed(p) /\ Untroubled(p) =>
                        \A t \in Tests : db'[<<p, t>>] = db[<<p, t>>]
  <1>1. Inv /\ [Next]_vars => [Stand]_vars
    <2> SUFFICES ASSUME Inv, Next PROVE Stand
      OBVIOUS
    <2>1. ASSUME UNCHANGED db PROVE Stand
      BY <2>1
    <2>2. ASSUME NEW w \in Workers, Record(w) PROVE Stand
      <3>1. TypeOK /\ RowInv
        BY DEF Inv
      <3>2. /\ job[w] \in Jobs /\ Busy(w)
            /\ db' = [db EXCEPT ![job[w]] = result[w]] \/ UNCHANGED db
        BY <2>2, <3>1, RecordStep
      <3>3. job[w][1] \in Pdfs /\ job[w] = <<job[w][1], job[w][2]>>
        BY <3>2, JobParts
      <3>4. ~(Completed(job[w][1]) /\ Untroubled(job[w][1]))
        BY <3>1, <3>2, <3>3, CompletedMeans, TestsNat DEF RowInv
      <3>5. ASSUME NEW p \in Pdfs, Completed(p), Untroubled(p), NEW t \in Tests
            PROVE  db'[<<p, t>>] = db[<<p, t>>]
        <4>1. <<p, t>> # job[w] /\ <<p, t>> \in Jobs
          BY <3>3, <3>4, <3>5 DEF Jobs
        <4> QED
          BY <3>1, <3>2, <4>1 DEF TypeOK
      <3> QED
        BY <3>5
    <2>3. ASSUME NEW w \in Workers,
                 \/ Take(w) \/ Gate(w) \/ Enter(w) \/ Spawn(w) \/ SpawnFails(w)
                 \/ Receive(w) \/ TimeOut(w)
          PROVE  UNCHANGED db
      BY <2>3 DEF Take, Gate, Enter, Spawn, SpawnFails, Receive, TimeOut, outside
    <2>4. ASSUME NEW j \in Jobs, Answer(j) \/ ThreadExit(j) PROVE UNCHANGED db
      BY <2>4 DEF Answer, ThreadExit, outside
    <2>5. CASE FinishRun \/ Memory \/ Kill \/ Over
      BY <2>1, <2>5 DEF FinishRun, Memory, Kill, Over, vars, outside
    <2> QED
      BY <2>1, <2>2, <2>3, <2>4, <2>5 DEF Next, WorkerStep, ThreadStep
  <1> QED
    BY <1>1, RunnerInvariant, PTL DEF Spec, VerdictsStand
=============================================================================
