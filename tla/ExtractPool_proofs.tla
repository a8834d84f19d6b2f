-------------------------- MODULE ExtractPool_proofs -------------------------
(***************************************************************************)
(* Proofs about the pool of ExtractPool, for every number of items and of  *)
(* jobs: its type invariant, its safety invariants, that nothing is fed or *)
(* committed after a stop, and that it implements OrderedCommit.           *)
(*                                                                         *)
(* The invariants of ExtractPool are not inductive: they follow from one   *)
(* that says where each item is.  An item that has begun and is not yet    *)
(* committed is with one worker, or in the result channel, or in the map,  *)
(* and in one of them only; what has not begun is in the job channel, in   *)
(* input order, or not fed.                                                *)
(***************************************************************************)
EXTENDS ExtractPool, SequenceTheorems, TLAPS

(* The job channel holds the items Begun .. fed - 1, oldest first.         *)
QueueInv == /\ Len(jobq) <= fed
            /\ \A k \in 1 .. Len(jobq) : jobq[k] = Begun + k - 1

(* How far the main thread feeds, and when it drops the sender.            *)
FeedInv == /\ fed <= Window + next
           /\ next <= Begun
           /\ ~txOpen /\ ~stop /\ RxOpen /\ mpc # "done" => fed = N

(* The mutex is held exactly by the worker that waits in recv.             *)
LockInv == /\ lock # NoWorker => wpc[lock] = "recv"
           /\ \A w \in Workers : wpc[w] = "recv" => lock = w

(* A worker's item has begun, is not committed, is nobody else's and lies  *)
(* in neither the result channel nor the map.                              *)
HeldInv == \A w \in Workers : Busy(w) =>
              /\ witem[w] \in Items
              /\ witem[w] >= next
              /\ witem[w] < Begun
              /\ pending[witem[w]] = NoOutcome
              /\ \A k \in 1 .. Len(results) : results[k].index # witem[w]
              /\ \A v \in Workers : Busy(v) /\ v # w => witem[v] # witem[w]

(* A message in the result channel carries its own item's outcome.         *)
ResultsInv == \A k \in 1 .. Len(results) :
                 /\ results[k].index >= next
                 /\ results[k].index < Begun
                 /\ pending[results[k].index] = NoOutcome
                 /\ results[k].result = outcome[results[k].index]
                 /\ \A m \in 1 .. Len(results) :
                       m # k => results[m].index # results[k].index

(* So does an entry of the map.                                            *)
PendingInv == \A i \in Items : pending[i] # NoOutcome =>
                 /\ i >= next
                 /\ i < Begun
                 /\ pending[i] = outcome[i]

(* Work is called once per item that has begun, by the worker that took it *)
AttemptsInv == /\ \A i \in Items : i >= Begun => attempts[i] = 0
               /\ \A i \in Items : attempts[i] <= 1
               /\ \A w \in Workers : wpc[w] = "work" => attempts[witem[w]] = 0

(* Until a stop or a panic every begun item that is not committed is       *)
(* somewhere.                                                              *)
Somewhere(i) == \/ pending[i] # NoOutcome
                \/ \E k \in 1 .. Len(results) : results[k].index = i
                \/ \E w \in Workers : Busy(w) /\ witem[w] = i

CompleteInv == ~stop /\ RxOpen =>
                  \A i \in Items : next <= i /\ i < Begun => Somewhere(i)

(* Without a stop a worker leaves only when there is nothing left to take. *)
ExitInv == \A w \in Workers : wpc[w] = "exit" => stop \/ (jobq = <<>> /\ ~txOpen)

(* What is known where the main thread stands.                             *)
MainInv == /\ mpc = "closing" => stop
           /\ stop => mpc \in {"closing", "recv", "done"}
           /\ mpc = "recv" /\ ~stop => ~(next < N /\ pending[next] # NoOutcome)
           /\ mpc = "unwinding" => ~txOpen
           /\ ~RxOpen => results = <<>>
           /\ Returned => AllExited
           /\ mpc = "done" /\ ~stop => next = N
           /\ N = 0 => mpc = "done"

IInv == /\ TypeOK
        /\ QueueInv
        /\ FeedInv
        /\ LockInv
        /\ HeldInv
        /\ ResultsInv
        /\ PendingInv
        /\ AttemptsInv
        /\ CompleteInv
        /\ ExitInv
        /\ MainInv
        /\ CommitsInOrder

-----------------------------------------------------------------------------
(* The pool has at least one worker unless there is nothing to do, and the *)
(* window is a number.                                                     *)
LEMMA PoolSize ==
    /\ JobCount \in Nat
    /\ Window \in Nat
    /\ N > 0 => 1 \in Workers
    /\ N = 0 => Workers = {}
    /\ NoWorker \notin Workers
  BY PoolAssumption DEF JobCount, Window, Workers, NoWorker, Min2, Max2

(* The initial state satisfies the inductive invariant.                    *)
LEMMA InitIInv == Init => IInv
<1> SUFFICES ASSUME Init PROVE IInv
  OBVIOUS
<1> USE PoolAssumption, PoolSize
<1>1. TypeOK
  <2>1. /\ wpc \in [Workers -> WorkerPCs]
        /\ witem \in [Workers -> Items \cup {0}]
        /\ lock \in Workers \cup {NoWorker}
    BY DEF Init, WorkerPCs
  <2>2. /\ outcome \in [Items -> Outcomes]
        /\ pending \in [Items -> Outcomes \cup {NoOutcome}]
        /\ attempts \in [Items -> Nat]
    BY DEF Init
  <2>3. /\ txOpen \in BOOLEAN
        /\ stop \in BOOLEAN
        /\ mpc \in MainPCs
    BY DEF Init, MainPCs
  <2>4. fed \in 0 .. N /\ next \in 0 .. N
    BY DEF Init
  <2>5. /\ jobq \in Seq(Items)
        /\ results \in Seq(Message)
        /\ committed \in Seq(Outcomes)
    BY EmptySeq DEF Init
  <2> QED BY <2>1, <2>2, <2>3, <2>4, <2>5 DEF TypeOK
<1>2. Len(jobq) = 0 /\ Len(results) = 0 /\ Len(committed) = 0
  BY EmptySeq DEF Init
<1>3. Begun = 0
  <2>1. fed = 0
    BY DEF Init
  <2> QED BY <2>1, <1>2 DEF Begun
<1>4. QueueInv /\ FeedInv
  BY <1>2, <1>3 DEF QueueInv, FeedInv, Init, RxOpen
<1>5. LockInv /\ HeldInv /\ ExitInv
  BY DEF LockInv, HeldInv, ExitInv, Init, Busy
<1>6. ResultsInv /\ PendingInv /\ AttemptsInv
  BY <1>2, <1>3 DEF ResultsInv, PendingInv, AttemptsInv, Init, Items
<1>7. CompleteInv
  BY <1>3 DEF CompleteInv, Init, Items
<1>8. MainInv
  BY DEF MainInv, Init, RxOpen, Returned, AllExited
<1>9. CommitsInOrder
  BY <1>2 DEF CommitsInOrder, Init
<1> QED
  BY <1>1, <1>4, <1>5, <1>6, <1>7, <1>8, <1>9 DEF IInv

-----------------------------------------------------------------------------
(* Every step keeps the types.                                             *)
LEMMA TypeStep == ASSUME TypeOK, [Next]_vars
                  PROVE  TypeOK'
<1> USE PoolAssumption, PoolSize DEF TypeOK
<1>1. ASSUME NEW w \in Workers, WorkerStep(w)
      PROVE  TypeOK'
  <2>1. Items \cup {0} = Items
    BY DEF Items
  <2>2. CASE LoadStop(w)
    BY <2>2 DEF LoadStop, mainVars, WorkerPCs
  <2>3. CASE LockJobs(w)
    BY <2>3 DEF LockJobs, mainVars, WorkerPCs
  <2>4. CASE RecvJob(w)
    <3>1. Head(jobq) \in Items /\ Tail(jobq) \in Seq(Items)
      BY <2>4, HeadTailProperties DEF RecvJob
    <3> QED BY <3>1, <2>4 DEF RecvJob, mainVars, WorkerPCs
  <2>5. CASE RecvClosed(w)
    BY <2>5 DEF RecvClosed, mainVars, WorkerPCs
  <2>6. CASE Work(w)
    <3>1. witem[w] \in Items
      BY <2>1
    <3>2. attempts' \in [Items -> Nat]
      BY <3>1, <2>6 DEF Work
    <3>3. wpc' \in [Workers -> WorkerPCs]
      BY <2>6 DEF Work, WorkerPCs
    <3>4. UNCHANGED <<mainVars, jobq, results, lock, witem>>
      BY <2>6 DEF Work
    <3> QED BY <3>2, <3>3, <3>4 DEF mainVars
  <2>7. CASE SendResult(w)
    <3>1. [index |-> witem[w], result |-> outcome[witem[w]]] \in Message
      BY <2>1 DEF Message
    <3>2. results' \in Seq(Message)
      BY <3>1, <2>7, AppendProperties DEF SendResult
    <3> QED BY <3>2, <2>7 DEF SendResult, mainVars, WorkerPCs
  <2> QED BY <1>1, <2>2, <2>3, <2>4, <2>5, <2>6, <2>7 DEF WorkerStep
<1>2. ASSUME MainStep
      PROVE  TypeOK'
  <2>1. CASE Feed
    <3>1. fed \in Items /\ fed + 1 \in 0 .. N
      BY <2>1 DEF Feed, FeedLimit, Min2, Items
    <3>2. jobq' \in Seq(Items)
      BY <3>1, <2>1, AppendProperties DEF Feed
    <3> QED BY <3>1, <3>2, <2>1 DEF Feed, workVars
  <2>2. CASE FeedEnd
    BY <2>2 DEF FeedEnd, workVars, MainPCs
  <2>3. CASE RecvResult
    <3>1. Head(results) \in Message /\ Tail(results) \in Seq(Message)
      BY <2>3, HeadTailProperties DEF RecvResult
    <3>2. Head(results).index \in Items /\ Head(results).result \in Outcomes
      BY <3>1 DEF Message
    <3> QED BY <3>1, <3>2, <2>3 DEF RecvResult, workVars, MainPCs
  <2>4. CASE DrainResult
    <3>1. Tail(results) \in Seq(Message)
      BY <2>4, HeadTailProperties DEF DrainResult
    <3> QED BY <3>1, <2>4 DEF DrainResult, mainVars, workVars
  <2>5. CASE ResultsClosed
    BY <2>5 DEF ResultsClosed, workVars, MainPCs
  <2>6. CASE CommitWait
    BY <2>6 DEF CommitWait, workVars, MainPCs
  <2>7. CASE CommitGo
    <3>1. next \in Items /\ pending[next] \in Outcomes /\ next + 1 \in 0 .. N
      BY <2>7 DEF CommitGo, CanCommit, Items
    <3>2. committed' \in Seq(Outcomes)
      BY <3>1, <2>7, AppendProperties DEF CommitGo
    <3> QED BY <3>1, <3>2, <2>7 DEF CommitGo, workVars, MainPCs
  <2>8. CASE CommitStop
    BY <2>8 DEF CommitStop, workVars, MainPCs
  <2>9. CASE CloseJobs
    BY <2>9 DEF CloseJobs, workVars, MainPCs
  <2>10. CASE CommitPanic
    <3>1. results' \in Seq(Message)
      BY <2>10, EmptySeq DEF CommitPanic
    <3> QED BY <3>1, <2>10 DEF CommitPanic, workVars, MainPCs
  <2>11. CASE ScopeUnwound
    BY <2>11 DEF ScopeUnwound, workVars, MainPCs
  <2> QED
    BY <1>2, <2>1, <2>2, <2>3, <2>4, <2>5, <2>6, <2>7, <2>8, <2>9, <2>10, <2>11
       DEF MainStep
<1>3. ASSUME UNCHANGED vars
      PROVE  TypeOK'
  BY <1>3 DEF vars
<1> QED BY <1>1, <1>2, <1>3 DEF Next, Finished

(* Types hold throughout, for every number of items and jobs.              *)
THEOREM PoolTypes == Spec => []TypeOK
<1>1. Init => TypeOK
  BY InitIInv DEF IInv
<1>2. TypeOK /\ [Next]_vars => TypeOK'
  BY TypeStep
<1> QED BY <1>1, <1>2, PTL DEF Spec

-----------------------------------------------------------------------------
(* The inductive step, one lemma per action.  Each lists the conjuncts     *)
(* whose variables the action touches; the others are framed.              *)

(* A message names an item and carries an outcome.                         *)
LEMMA MessageTypes ==
    ASSUME IInv
    PROVE  /\ Len(results) \in Nat
           /\ \A k \in 1 .. Len(results) : /\ results[k].index \in Items
                                           /\ results[k].result \in Outcomes
<1>1. results \in Seq(Message)
  BY DEF IInv, TypeOK
<1>2. \A k \in 1 .. Len(results) : results[k] \in Message
  BY <1>1, ElementOfSeq
<1> QED BY <1>1, <1>2, LenProperties DEF Message

(* What has begun is a number of items.                                    *)
LEMMA BegunType ==
    ASSUME IInv
    PROVE  /\ Begun \in 0 .. N
           /\ Len(jobq) \in Nat
           /\ fed \in 0 .. N
           /\ next \in 0 .. N
           /\ N \in Nat
<1>1. jobq \in Seq(Items) /\ fed \in 0 .. N /\ next \in 0 .. N /\ N \in Nat
  BY PoolAssumption DEF IInv, TypeOK
<1>2. Len(jobq) \in Nat
  BY <1>1, LenProperties
<1> QED BY <1>1, <1>2 DEF IInv, QueueInv, Begun

(* A step that moves one worker to a place where it holds no item, and     *)
(* held none before, leaves every item where it was.                       *)
LEMMA IdleWorkerFrame ==
    ASSUME IInv, NEW w \in Workers,
           ~Busy(w), NEW pc \in {"check", "lock", "recv", "exit"},
           wpc' = [wpc EXCEPT ![w] = pc],
           UNCHANGED <<mainVars, jobq, results, witem, attempts>>
    PROVE  /\ QueueInv' /\ FeedInv' /\ HeldInv' /\ ResultsInv' /\ PendingInv'
           /\ AttemptsInv' /\ CompleteInv' /\ CommitsInOrder'
           /\ \A v \in Workers : Busy(v)' <=> Busy(v)
<1> USE DEF mainVars
<1>1. wpc \in [Workers -> WorkerPCs]
  BY DEF IInv, TypeOK
<1>2. \A v \in Workers : Busy(v)' <=> Busy(v)
  BY <1>1 DEF Busy
<1>3. Begun' = Begun /\ RxOpen' = RxOpen
  BY DEF Begun, RxOpen
<1>4. QueueInv' /\ FeedInv'
  BY <1>3 DEF IInv, QueueInv, FeedInv
<1>5. HeldInv'
  BY <1>2, <1>3 DEF IInv, HeldInv
<1>6. ResultsInv' /\ PendingInv'
  BY <1>3 DEF IInv, ResultsInv, PendingInv
<1>7. AttemptsInv'
  BY <1>1, <1>3 DEF IInv, AttemptsInv
<1>8. CompleteInv'
  BY <1>2, <1>3 DEF IInv, CompleteInv, Somewhere
<1>9. CommitsInOrder'
  BY DEF IInv, CommitsInOrder
<1> QED BY <1>2, <1>4, <1>5, <1>6, <1>7, <1>8, <1>9

LEMMA LoadStopIInv == ASSUME IInv, TypeOK', NEW w \in Workers, LoadStop(w)
                      PROVE  IInv'
<1> USE DEF mainVars
<1>1. wpc \in [Workers -> WorkerPCs] /\ ~Busy(w)
  BY DEF IInv, TypeOK, LoadStop, Busy
<1>2. PICK pc \in {"lock", "exit"} : /\ wpc' = [wpc EXCEPT ![w] = pc]
                                     /\ pc = "exit" => stop
  BY DEF LoadStop
<1>3. UNCHANGED <<mainVars, jobq, results, lock, witem, attempts>>
  BY DEF LoadStop
<1>4. /\ QueueInv' /\ FeedInv' /\ HeldInv' /\ ResultsInv' /\ PendingInv'
      /\ AttemptsInv' /\ CompleteInv' /\ CommitsInOrder'
  BY <1>1, <1>2, <1>3, IdleWorkerFrame
<1>5. LockInv'
  BY <1>1, <1>2, <1>3 DEF IInv, LockInv, LoadStop
<1>6. ExitInv'
  BY <1>1, <1>2, <1>3 DEF IInv, ExitInv
<1>7. MainInv'
  <2>1. AllExited => AllExited'
    BY <1>1 DEF AllExited, LoadStop
  <2> QED BY <2>1, <1>3 DEF IInv, MainInv, RxOpen, Returned
<1> QED BY <1>4, <1>5, <1>6, <1>7 DEF IInv

LEMMA LockJobsIInv == ASSUME IInv, TypeOK', NEW w \in Workers, LockJobs(w)
                      PROVE  IInv'
<1> USE DEF mainVars
<1>1. wpc \in [Workers -> WorkerPCs] /\ ~Busy(w)
  BY DEF IInv, TypeOK, LockJobs, Busy
<1>2. wpc' = [wpc EXCEPT ![w] = "recv"] /\ lock = NoWorker /\ lock' = w
  BY DEF LockJobs
<1>3. UNCHANGED <<mainVars, jobq, results, witem, attempts>>
  BY DEF LockJobs
<1>4. /\ QueueInv' /\ FeedInv' /\ HeldInv' /\ ResultsInv' /\ PendingInv'
      /\ AttemptsInv' /\ CompleteInv' /\ CommitsInOrder'
  BY <1>1, <1>2, <1>3, IdleWorkerFrame
<1>5. LockInv'
  BY <1>1, <1>2, <1>3, PoolSize DEF IInv, LockInv
<1>6. ExitInv'
  BY <1>1, <1>2, <1>3 DEF IInv, ExitInv
<1>7. MainInv'
  <2>1. AllExited => AllExited'
    BY <1>1 DEF AllExited, LockJobs
  <2> QED BY <2>1, <1>3 DEF IInv, MainInv, RxOpen, Returned
<1> QED BY <1>4, <1>5, <1>6, <1>7 DEF IInv

LEMMA RecvClosedIInv == ASSUME IInv, TypeOK', NEW w \in Workers, RecvClosed(w)
                        PROVE  IInv'
<1> USE DEF mainVars
<1>1. wpc \in [Workers -> WorkerPCs] /\ ~Busy(w)
  BY DEF IInv, TypeOK, RecvClosed, Busy
<1>2. /\ wpc' = [wpc EXCEPT ![w] = "exit"]
      /\ lock = w /\ lock' = NoWorker
      /\ jobq = <<>> /\ ~txOpen
  BY DEF RecvClosed, IInv, LockInv
<1>3. UNCHANGED <<mainVars, jobq, results, witem, attempts>>
  BY DEF RecvClosed
<1>4. /\ QueueInv' /\ FeedInv' /\ HeldInv' /\ ResultsInv' /\ PendingInv'
      /\ AttemptsInv' /\ CompleteInv' /\ CommitsInOrder'
  BY <1>1, <1>2, <1>3, IdleWorkerFrame
<1>5. LockInv'
  BY <1>1, <1>2, <1>3, PoolSize DEF IInv, LockInv
<1>6. ExitInv'
  BY <1>1, <1>2, <1>3 DEF IInv, ExitInv
<1>7. MainInv'
  <2>1. AllExited => AllExited'
    BY <1>1, <1>2 DEF AllExited
  <2> QED BY <2>1, <1>3 DEF IInv, MainInv, RxOpen, Returned
<1> QED BY <1>4, <1>5, <1>6, <1>7 DEF IInv

(* Taking an item: the head of the channel is the first item not begun.    *)
LEMMA RecvJobIInv == ASSUME IInv, TypeOK', NEW w \in Workers, RecvJob(w)
                     PROVE  IInv'
<1> USE DEF mainVars
<1>1. /\ wpc \in [Workers -> WorkerPCs] /\ witem \in [Workers -> Items \cup {0}]
      /\ jobq \in Seq(Items) /\ fed \in 0 .. N /\ N \in Nat
      /\ jobq # <<>>
      /\ pending \in [Items -> Outcomes \cup {NoOutcome}]
      /\ next \in 0 .. N
  BY PoolAssumption DEF IInv, TypeOK, RecvJob
<1>2. /\ Len(jobq) \in Nat \ {0}
      /\ Len(jobq') = Len(jobq) - 1
      /\ \A k \in 1 .. Len(jobq') : jobq'[k] = jobq[k + 1]
      /\ Head(jobq) = jobq[1]
  BY <1>1, HeadTailProperties, EmptySeq DEF RecvJob
<1>3. /\ Begun \in Items
      /\ Begun' = Begun + 1
      /\ Head(jobq) = Begun
  BY <1>1, <1>2 DEF IInv, QueueInv, Begun, Items, RecvJob
<1>4. /\ wpc' = [wpc EXCEPT ![w] = "work"]
      /\ witem' = [witem EXCEPT ![w] = Begun]
      /\ lock = w /\ lock' = NoWorker
  BY <1>3 DEF RecvJob, IInv, LockInv
<1>5. UNCHANGED <<mainVars, results, attempts>> /\ ~Busy(w)
  BY DEF RecvJob, Busy
<1>6. \A v \in Workers : /\ Busy(v)' <=> (Busy(v) \/ v = w)
                         /\ v # w => witem'[v] = witem[v]
                         /\ witem'[w] = Begun
  BY <1>1, <1>4 DEF Busy
<1>7. QueueInv'
  <2>1. \A k \in 1 .. Len(jobq) : jobq[k] = Begun + k - 1
    BY DEF IInv, QueueInv
  <2>2. \A k \in 1 .. Len(jobq') : jobq'[k] = Begun' + k - 1
    BY <1>2, <1>3, <2>1 DEF Items
  <2>3. Len(jobq') <= fed'
    BY <1>1, <1>2, <1>5 DEF IInv, QueueInv
  <2> QED BY <2>2, <2>3 DEF QueueInv
<1>8. FeedInv'
  BY <1>1, <1>3, <1>5 DEF IInv, FeedInv, RxOpen, Items
<1>9. LockInv'
  BY <1>1, <1>4, <1>5, PoolSize DEF IInv, LockInv
<1>10. HeldInv'
  <2>1. /\ Begun >= next
        /\ pending[Begun] = NoOutcome
        /\ \A k \in 1 .. Len(results) : results[k].index # Begun
        /\ \A v \in Workers : Busy(v) => witem[v] # Begun
    BY <1>1, <1>3 DEF IInv, FeedInv, PendingInv, ResultsInv, HeldInv, Items
  <2>2. ASSUME NEW v \in Workers, Busy(v)', v # w
        PROVE  /\ witem'[v] = witem[v]
               /\ Busy(v)
               /\ witem[v] # Begun
    BY <1>6, <2>1, <2>2
  <2>3. ASSUME NEW v \in Workers, Busy(v)'
        PROVE  /\ witem'[v] \in Items
               /\ witem'[v] >= next'
               /\ witem'[v] < Begun'
               /\ pending'[witem'[v]] = NoOutcome
               /\ \A k \in 1 .. Len(results') : results'[k].index # witem'[v]
    <3>1. CASE v = w
      BY <1>3, <1>5, <1>6, <2>1, <3>1 DEF Items
    <3>2. CASE v # w
      BY <1>3, <1>5, <2>2, <2>3, <3>2 DEF IInv, HeldInv, Items
    <3> QED BY <3>1, <3>2
  <2>4. ASSUME NEW v \in Workers, NEW u \in Workers, Busy(v)', Busy(u)', u # v
        PROVE  witem'[u] # witem'[v]
    BY <1>6, <2>2, <2>4 DEF IInv, HeldInv
  <2> QED BY <2>3, <2>4 DEF HeldInv
<1>11. ResultsInv' /\ PendingInv'
  <2>1. ResultsInv'
    <3>1. \A k \in 1 .. Len(results) : results[k].index \in Nat
      BY MessageTypes DEF Items
    <3>2. ResultsInv /\ Begun \in Nat /\ Begun' = Begun + 1
      BY <1>3 DEF IInv, Items
    <3>3. UNCHANGED <<results, next, pending, outcome>>
      BY <1>5
    <3> QED BY <3>1, <3>2, <3>3 DEF ResultsInv
  <2>2. PendingInv'
    BY <1>3, <1>5 DEF IInv, PendingInv, Items
  <2> QED BY <2>1, <2>2
<1>12. AttemptsInv'
  BY <1>1, <1>3, <1>4, <1>5, <1>6 DEF IInv, AttemptsInv, Items
<1>13. CompleteInv'
  BY <1>3, <1>5, <1>6 DEF IInv, CompleteInv, Somewhere, RxOpen, Items
<1>14. ExitInv'
  BY <1>1, <1>4, <1>5 DEF IInv, ExitInv
<1>15. MainInv'
  <2>1. ~AllExited
    BY DEF AllExited, RecvJob
  <2> QED BY <2>1, <1>5 DEF IInv, MainInv, RxOpen, Returned
<1>16. CommitsInOrder'
  BY <1>5 DEF IInv, CommitsInOrder
<1> QED
  BY <1>7, <1>8, <1>9, <1>10, <1>11, <1>12, <1>13, <1>14, <1>15, <1>16 DEF IInv

LEMMA WorkIInv == ASSUME IInv, TypeOK', NEW w \in Workers, Work(w)
                  PROVE  IInv'
<1> USE DEF mainVars
<1>1. /\ wpc \in [Workers -> WorkerPCs] /\ witem \in [Workers -> Items \cup {0}]
      /\ attempts \in [Items -> Nat]
  BY DEF IInv, TypeOK
<1>2. /\ wpc[w] = "work"
      /\ wpc' = [wpc EXCEPT ![w] = "send"]
      /\ attempts' = [attempts EXCEPT ![witem[w]] = @ + 1]
      /\ UNCHANGED <<mainVars, jobq, results, lock, witem>>
  BY DEF Work
<1>3. /\ \A v \in Workers : Busy(v)' <=> Busy(v)
      /\ Begun' = Begun /\ RxOpen' = RxOpen /\ AllExited' = AllExited
  BY <1>1, <1>2 DEF Busy, Begun, RxOpen, AllExited
<1>4. /\ witem[w] \in Items
      /\ witem[w] < Begun
      /\ attempts[witem[w]] = 0
      /\ \A v \in Workers : wpc[v] = "work" /\ v # w => witem[v] # witem[w]
  BY <1>2 DEF IInv, HeldInv, AttemptsInv, Busy
<1>5. QueueInv' /\ FeedInv' /\ LockInv' /\ CommitsInOrder'
  BY <1>1, <1>2, <1>3 DEF IInv, QueueInv, FeedInv, LockInv, CommitsInOrder
<1>6. HeldInv'
  BY <1>2, <1>3 DEF IInv, HeldInv
<1>7. ResultsInv' /\ PendingInv'
  BY <1>2, <1>3 DEF IInv, ResultsInv, PendingInv
<1>8. AttemptsInv'
  <2>1. \A i \in Items : attempts'[i] = IF i = witem[w] THEN 1 ELSE attempts[i]
    <3>1. attempts' = [attempts EXCEPT ![witem[w]] = 1]
      <4>1. attempts' = [attempts EXCEPT ![witem[w]] = attempts[witem[w]] + 1]
        BY <1>2
      <4>2. attempts[witem[w]] + 1 = 1
        BY <1>4
      <4> QED BY <4>1, <4>2
    <3> QED BY <3>1, <1>1, <1>4
  <2>2. \A i \in Items : i >= Begun' => attempts'[i] = 0
    BY <2>1, <1>3, <1>4, BegunType DEF IInv, AttemptsInv, Items
  <2>3. \A i \in Items : attempts'[i] <= 1
    BY <2>1 DEF IInv, AttemptsInv
  <2>4. ASSUME NEW v \in Workers, wpc'[v] = "work"
        PROVE  attempts'[witem'[v]] = 0
    <3>1. v # w /\ wpc[v] = "work"
      BY <1>1, <1>2, <2>4
    <3>2. witem[v] \in Items /\ witem[v] # witem[w] /\ attempts[witem[v]] = 0
      BY <3>1, <1>4 DEF IInv, HeldInv, AttemptsInv, Busy
    <3> QED BY <3>2, <2>1, <1>2
  <2> QED BY <2>2, <2>3, <2>4 DEF AttemptsInv
<1>9. CompleteInv'
  BY <1>2, <1>3 DEF IInv, CompleteInv, Somewhere
<1>10. ExitInv'
  BY <1>1, <1>2 DEF IInv, ExitInv
<1>11. MainInv'
  <2>1. ~AllExited
    BY <1>2 DEF AllExited
  <2> QED BY <2>1, <1>2, <1>3 DEF IInv, MainInv, RxOpen, Returned
<1> QED
  BY <1>5, <1>6, <1>7, <1>8, <1>9, <1>10, <1>11 DEF IInv

(* The item moves from the worker to the channel, unless nobody listens.   *)
LEMMA SendResultIInv == ASSUME IInv, TypeOK', NEW w \in Workers, SendResult(w)
                        PROVE  IInv'
<1> USE DEF mainVars
<1> DEFINE msg == [index |-> witem[w], result |-> outcome[witem[w]]]
<1>1. /\ wpc \in [Workers -> WorkerPCs] /\ witem \in [Workers -> Items \cup {0}]
      /\ results \in Seq(Message)
      /\ outcome \in [Items -> Outcomes]
  BY DEF IInv, TypeOK
<1>2. /\ wpc[w] = "send"
      /\ wpc' = [wpc EXCEPT ![w] = "check"]
      /\ UNCHANGED <<mainVars, jobq, lock, witem, attempts>>
      /\ results' = IF RxOpen THEN Append(results, msg) ELSE results
  BY DEF SendResult
<1>3. /\ \A v \in Workers : Busy(v)' <=> Busy(v) /\ v # w
      /\ Busy(w)
      /\ Begun' = Begun /\ RxOpen' = RxOpen
  BY <1>1, <1>2 DEF Busy, Begun, RxOpen
<1>4. /\ witem[w] \in Items
      /\ witem[w] >= next
      /\ witem[w] < Begun
      /\ pending[witem[w]] = NoOutcome
      /\ \A k \in 1 .. Len(results) : results[k].index # witem[w]
      /\ \A v \in Workers : Busy(v) /\ v # w => witem[v] # witem[w]
  BY <1>3 DEF IInv, HeldInv
<1>5. msg \in Message
  BY <1>1, <1>4 DEF Message
<1>6. RxOpen => /\ Len(results) \in Nat
                /\ Len(results') = Len(results) + 1
                /\ results'[Len(results) + 1] = msg
                /\ \A k \in 1 .. Len(results) : results'[k] = results[k]
  BY <1>1, <1>2, <1>5, AppendProperties, LenProperties
<1>7. QueueInv' /\ FeedInv' /\ LockInv' /\ CommitsInOrder'
  BY <1>1, <1>2, <1>3 DEF IInv, QueueInv, FeedInv, LockInv, CommitsInOrder
<1>8. HeldInv'
  <2>1. ASSUME NEW v \in Workers, Busy(v)', NEW k \in 1 .. Len(results')
        PROVE  results'[k].index # witem'[v]
    <3>1. Busy(v) /\ v # w /\ witem'[v] = witem[v] /\ witem[v] # witem[w]
      BY <2>1, <1>2, <1>3, <1>4
    <3>2. CASE RxOpen /\ k = Len(results) + 1
      BY <3>1, <3>2, <1>6
    <3>3. CASE RxOpen /\ k # Len(results) + 1
      BY <3>1, <3>3, <1>6 DEF IInv, HeldInv
    <3>4. CASE ~RxOpen
      BY <3>1, <3>4, <1>2 DEF IInv, HeldInv
    <3> QED BY <3>2, <3>3, <3>4
  <2> QED BY <2>1, <1>2, <1>3 DEF IInv, HeldInv
<1>9. ResultsInv'
  <2>1. CASE ~RxOpen
    BY <2>1, <1>2, <1>3 DEF IInv, ResultsInv
  <2>2. CASE RxOpen
    <3>1. ASSUME NEW k \in 1 .. Len(results')
          PROVE  /\ results'[k].index >= next'
                 /\ results'[k].index < Begun'
                 /\ pending'[results'[k].index] = NoOutcome
                 /\ results'[k].result = outcome'[results'[k].index]
      <4>1. CASE k = Len(results) + 1
        BY <4>1, <2>2, <1>2, <1>3, <1>4, <1>6
      <4>2. CASE k # Len(results) + 1
        <5>1. k \in 1 .. Len(results) /\ results'[k] = results[k]
          BY <4>2, <2>2, <1>6
        <5> QED BY <5>1, <1>2, <1>3 DEF IInv, ResultsInv
      <4> QED BY <4>1, <4>2
    <3>2. ASSUME NEW k \in 1 .. Len(results'), NEW m \in 1 .. Len(results'), m # k
          PROVE  results'[m].index # results'[k].index
      <4>1. CASE k = Len(results) + 1
        BY <4>1, <3>2, <2>2, <1>4, <1>6
      <4>2. CASE m = Len(results) + 1
        BY <4>2, <3>2, <2>2, <1>4, <1>6
      <4>3. CASE k # Len(results) + 1 /\ m # Len(results) + 1
        <5>1. /\ k \in 1 .. Len(results) /\ results'[k] = results[k]
              /\ m \in 1 .. Len(results) /\ results'[m] = results[m]
          BY <4>3, <2>2, <1>6
        <5> QED BY <5>1, <3>2 DEF IInv, ResultsInv
      <4> QED BY <4>1, <4>2, <4>3
    <3> QED BY <3>1, <3>2 DEF ResultsInv
  <2> QED BY <2>1, <2>2
<1>10. PendingInv'
  BY <1>2, <1>3 DEF IInv, PendingInv
<1>11. AttemptsInv'
  BY <1>1, <1>2, <1>3 DEF IInv, AttemptsInv
<1>12. CompleteInv'
  <2>1. SUFFICES ASSUME ~stop, RxOpen, NEW i \in Items, next <= i, i < Begun
                 PROVE  Somewhere(i)'
    BY <1>2, <1>3 DEF CompleteInv
  <2>2. Somewhere(i)
    BY <2>1 DEF IInv, CompleteInv
  <2>3. CASE pending[i] # NoOutcome
    BY <2>3, <1>2 DEF Somewhere
  <2>4. CASE \E k \in 1 .. Len(results) : results[k].index = i
    BY <2>1, <2>4, <1>6 DEF Somewhere
  <2>5. CASE \E v \in Workers : Busy(v) /\ witem[v] = i
    <3>1. PICK v \in Workers : Busy(v) /\ witem[v] = i
      BY <2>5
    <3>2. CASE v = w
      <4>1. /\ Len(results) + 1 \in 1 .. Len(results')
            /\ results'[Len(results) + 1].index = i
        BY <2>1, <3>1, <3>2, <1>6
      <4> QED BY <4>1 DEF Somewhere
    <3>3. CASE v # w
      BY <3>1, <3>3, <1>2, <1>3 DEF Somewhere
    <3> QED BY <3>2, <3>3
  <2> QED BY <2>2, <2>3, <2>4, <2>5 DEF Somewhere
<1>13. ExitInv'
  BY <1>1, <1>2 DEF IInv, ExitInv
<1>14. MainInv'
  <2>1. ~AllExited
    BY <1>2 DEF AllExited
  <2> QED BY <2>1, <1>2, <1>3 DEF IInv, MainInv, RxOpen, Returned
<1> QED
  BY <1>7, <1>8, <1>9, <1>10, <1>11, <1>12, <1>13, <1>14 DEF IInv

-----------------------------------------------------------------------------
(* Steps of the main thread.                                               *)

(* What a step of the main thread leaves as it is.                         *)
LEMMA MainFrame ==
    ASSUME IInv, UNCHANGED workVars
    PROVE  /\ LockInv'
           /\ \A v \in Workers : (Busy(v)' <=> Busy(v)) /\ witem'[v] = witem[v]
           /\ AllExited' = AllExited
  BY DEF IInv, LockInv, workVars, Busy, AllExited

LEMMA FeedIInv == ASSUME IInv, TypeOK', Feed
                  PROVE  IInv'
<1> USE DEF workVars
<1>1. /\ mpc = "feed" /\ txOpen /\ fed < FeedLimit
      /\ jobq' = Append(jobq, fed)
      /\ fed' = fed + 1
      /\ UNCHANGED <<workVars, outcome, txOpen, stop, results, pending, next,
                     committed, mpc>>
  BY DEF Feed
<1>2. fed < N /\ fed < Window + next /\ fed \in Items
  BY <1>1, PoolSize, BegunType DEF FeedLimit, Min2, Items
<1>3. /\ Len(jobq) \in Nat
      /\ Len(jobq') = Len(jobq) + 1
      /\ jobq'[Len(jobq) + 1] = fed
      /\ \A k \in 1 .. Len(jobq) : jobq'[k] = jobq[k]
  <2>1. jobq \in Seq(Items)
    BY DEF IInv, TypeOK
  <2> QED BY <2>1, <1>1, <1>2, AppendProperties, LenProperties
<1>4. Begun' = Begun /\ RxOpen' = RxOpen
  BY <1>1, <1>3, BegunType DEF Begun, RxOpen
<1>5. QueueInv'
  <2>1. ASSUME NEW k \in 1 .. Len(jobq')
        PROVE  jobq'[k] = Begun' + k - 1
    <3>1. CASE k = Len(jobq) + 1
      BY <3>1, <1>3, <1>4, BegunType DEF Begun
    <3>2. CASE k # Len(jobq) + 1
      BY <3>2, <1>3, <1>4 DEF IInv, QueueInv
    <3> QED BY <3>1, <3>2
  <2>2. Len(jobq') <= fed'
    BY <1>1, <1>3, BegunType DEF IInv, QueueInv
  <2> QED BY <2>1, <2>2 DEF QueueInv
<1>6. FeedInv'
  BY <1>1, <1>2, <1>4, PoolSize, BegunType DEF IInv, FeedInv
<1>7. HeldInv' /\ ResultsInv' /\ PendingInv' /\ AttemptsInv'
  BY <1>1, <1>4, MainFrame DEF IInv, HeldInv, ResultsInv, PendingInv, AttemptsInv
<1>8. CompleteInv'
  BY <1>1, <1>4, MainFrame DEF IInv, CompleteInv, Somewhere
<1>9. ExitInv'
  BY <1>1 DEF IInv, ExitInv, MainInv
<1>10. MainInv'
  BY <1>1, <1>4 DEF IInv, MainInv, RxOpen, Returned
<1>11. CommitsInOrder'
  BY <1>1 DEF IInv, CommitsInOrder
<1> QED
  BY <1>5, <1>6, <1>7, <1>8, <1>9, <1>10, <1>11, <1>1, MainFrame DEF IInv

LEMMA FeedEndIInv == ASSUME IInv, TypeOK', FeedEnd
                     PROVE  IInv'
<1> USE DEF workVars
<1>1. /\ mpc = "feed" /\ mpc' = "commit"
      /\ txOpen' = (txOpen /\ fed # N)
      /\ UNCHANGED <<workVars, outcome, jobq, fed, stop, results, pending,
                     next, committed>>
  BY DEF FeedEnd
<1>2. Begun' = Begun /\ RxOpen /\ RxOpen'
  BY <1>1 DEF Begun, RxOpen
<1>3. ~stop
  BY <1>1 DEF IInv, MainInv
<1>4. QueueInv' /\ FeedInv'
  <2>1. ~txOpen => fed = N
    BY <1>1, <1>2, <1>3 DEF IInv, FeedInv
  <2>2. ~txOpen' => fed = N
    BY <1>1, <2>1 DEF IInv, TypeOK
  <2> QED BY <2>2, <1>1, <1>2 DEF IInv, QueueInv, FeedInv
<1>5. HeldInv' /\ ResultsInv' /\ PendingInv' /\ AttemptsInv'
  BY <1>1, <1>2, MainFrame DEF IInv, HeldInv, ResultsInv, PendingInv, AttemptsInv
<1>6. CompleteInv'
  BY <1>1, <1>2, MainFrame DEF IInv, CompleteInv, Somewhere
<1>7. ExitInv'
  BY <1>1, <1>3 DEF IInv, ExitInv
<1>8. MainInv'
  BY <1>1, <1>2, <1>3 DEF IInv, MainInv, Returned
<1>9. CommitsInOrder'
  BY <1>1 DEF IInv, CommitsInOrder
<1> QED
  BY <1>4, <1>5, <1>6, <1>7, <1>8, <1>9, <1>1, MainFrame DEF IInv

(* Taking the head off the result channel.                                 *)
LEMMA ResultsTail ==
    ASSUME IInv, results # <<>>, results' = Tail(results)
    PROVE  /\ 1 \in 1 .. Len(results)
           /\ Head(results) = results[1]
           /\ Len(results) \in Nat
           /\ Len(results') = Len(results) - 1
           /\ \A k \in 1 .. Len(results') : /\ results'[k] = results[k + 1]
                                            /\ k + 1 \in 1 .. Len(results)
                                            /\ k + 1 # 1
<1>1. results \in Seq(Message)
  BY DEF IInv, TypeOK
<1>2. Len(results) \in Nat \ {0}
  BY <1>1, EmptySeq
<1>3. /\ Len(results') = Len(results) - 1
      /\ \A k \in 1 .. Len(results') : results'[k] = results[k + 1]
  BY <1>1, HeadTailProperties
<1> QED BY <1>1, <1>2, <1>3

LEMMA RecvResultIInv == ASSUME IInv, TypeOK', RecvResult
                        PROVE  IInv'
<1> USE DEF workVars
<1> DEFINE msg == results[1]
<1>1. /\ mpc = "recv" /\ mpc' = "commit"
      /\ results # <<>> /\ results' = Tail(results)
      /\ ~stop
      /\ UNCHANGED <<workVars, outcome, jobq, txOpen, fed, stop, next, committed>>
  BY DEF RecvResult
<1>2. pending' = [pending EXCEPT ![msg.index] = msg.result]
  BY <1>1, ResultsTail DEF RecvResult
<1>3. Begun' = Begun /\ RxOpen /\ RxOpen'
  BY <1>1 DEF Begun, RxOpen
<1>4. /\ msg.index \in Items
      /\ msg.index >= next
      /\ msg.index < Begun
      /\ msg.result = outcome[msg.index]
      /\ msg.result \in Outcomes
      /\ msg.result # NoOutcome
      /\ \A k \in 1 .. Len(results) : k # 1 => results[k].index # msg.index
      /\ \A v \in Workers : Busy(v) => witem[v] # msg.index
  BY <1>1, ResultsTail, MessageTypes, PoolAssumption DEF IInv, ResultsInv, HeldInv
<1>5. pending \in [Items -> Outcomes \cup {NoOutcome}]
  BY DEF IInv, TypeOK
<1>6. \A i \in Items : pending'[i] = IF i = msg.index THEN msg.result ELSE pending[i]
  BY <1>2, <1>4, <1>5
<1>7. QueueInv' /\ FeedInv'
  BY <1>1, <1>3 DEF IInv, QueueInv, FeedInv
<1>8. HeldInv'
  <2>1. ASSUME NEW v \in Workers, Busy(v)'
        PROVE  /\ pending'[witem'[v]] = NoOutcome
               /\ \A k \in 1 .. Len(results') : results'[k].index # witem'[v]
    <3>1. /\ Busy(v) /\ witem'[v] = witem[v] /\ witem[v] \in Items
          /\ witem[v] # msg.index /\ pending[witem[v]] = NoOutcome
          /\ \A k \in 1 .. Len(results) : results[k].index # witem[v]
      BY <2>1, <1>1, <1>4, MainFrame DEF IInv, HeldInv
    <3>2. pending'[witem[v]] = NoOutcome
      BY <3>1, <1>6
    <3>3. \A k \in 1 .. Len(results') : results'[k].index # witem[v]
      BY <3>1, <1>1, ResultsTail
    <3> QED BY <3>1, <3>2, <3>3
  <2> QED BY <2>1, <1>1, <1>3, MainFrame DEF IInv, HeldInv
<1>9. ResultsInv'
  <2>1. ASSUME NEW k \in 1 .. Len(results')
        PROVE  /\ results'[k] = results[k + 1]
               /\ k + 1 \in 1 .. Len(results)
               /\ results[k + 1].index \in Items
               /\ results[k + 1].index # msg.index
    BY <1>1, <1>4, ResultsTail, MessageTypes
  <2>2. ASSUME NEW k \in 1 .. Len(results')
        PROVE  /\ results'[k].index >= next'
               /\ results'[k].index < Begun'
               /\ pending'[results'[k].index] = NoOutcome
               /\ results'[k].result = outcome'[results'[k].index]
    BY <2>1, <1>1, <1>3, <1>6 DEF IInv, ResultsInv
  <2>3. ASSUME NEW k \in 1 .. Len(results'), NEW m \in 1 .. Len(results'), m # k
        PROVE  results'[m].index # results'[k].index
    <3>1. m + 1 # k + 1
      BY <2>3, <1>1, ResultsTail
    <3> QED BY <3>1, <2>1 DEF IInv, ResultsInv
  <2> QED BY <2>2, <2>3 DEF ResultsInv
<1>10. PendingInv'
  BY <1>1, <1>3, <1>4, <1>6 DEF IInv, PendingInv
<1>11. AttemptsInv'
  BY <1>1, <1>3 DEF IInv, AttemptsInv
<1>12. CompleteInv'
  <2>1. SUFFICES ASSUME NEW i \in Items, next <= i, i < Begun
                 PROVE  Somewhere(i)'
    BY <1>1, <1>3 DEF CompleteInv
  <2>2. Somewhere(i)
    BY <2>1, <1>1, <1>3 DEF IInv, CompleteInv
  <2>3. CASE i = msg.index
    BY <2>3, <1>4, <1>6 DEF Somewhere
  <2>4. CASE i # msg.index /\ pending[i] # NoOutcome
    BY <2>4, <1>6 DEF Somewhere
  <2>5. CASE i # msg.index /\ \E k \in 1 .. Len(results) : results[k].index = i
    <3>1. PICK k \in 1 .. Len(results) : results[k].index = i
      BY <2>5
    <3>2. k # 1
      BY <3>1, <2>5
    <3>3. k - 1 \in 1 .. Len(results') /\ (k - 1) + 1 = k
      BY <3>2, <1>1, ResultsTail
    <3>4. results'[k - 1].index = i
      BY <3>1, <3>3, <1>1, ResultsTail
    <3> QED BY <3>3, <3>4 DEF Somewhere
  <2>6. CASE \E v \in Workers : Busy(v) /\ witem[v] = i
    BY <2>6, <1>1, MainFrame DEF Somewhere
  <2> QED BY <2>2, <2>3, <2>4, <2>5, <2>6 DEF Somewhere
<1>13. ExitInv'
  BY <1>1 DEF IInv, ExitInv
<1>14. MainInv'
  BY <1>1, <1>3, ResultsTail DEF IInv, MainInv, Returned, RxOpen
<1>15. CommitsInOrder'
  BY <1>1 DEF IInv, CommitsInOrder
<1> QED
  BY <1>7, <1>8, <1>9, <1>10, <1>11, <1>12, <1>13, <1>14, <1>15, <1>1, MainFrame
     DEF IInv

LEMMA DrainResultIInv == ASSUME IInv, TypeOK', DrainResult
                         PROVE  IInv'
<1> USE DEF mainVars
<1>1. /\ mpc = "recv" /\ stop
      /\ results # <<>> /\ results' = Tail(results)
      /\ UNCHANGED <<mainVars, workVars, jobq>>
  BY DEF DrainResult
<1>2. Begun' = Begun /\ RxOpen' = RxOpen
  BY <1>1 DEF Begun, RxOpen
<1>3. /\ QueueInv' /\ FeedInv' /\ PendingInv' /\ AttemptsInv' /\ CompleteInv'
      /\ ExitInv' /\ CommitsInOrder'
  BY <1>1, <1>2 DEF IInv, QueueInv, FeedInv, PendingInv, AttemptsInv, CompleteInv,
                    ExitInv, CommitsInOrder, workVars
<1>4. HeldInv'
  BY <1>1, <1>2, ResultsTail, MainFrame DEF IInv, HeldInv
<1>5. ResultsInv'
  <2>1. ASSUME NEW k \in 1 .. Len(results')
        PROVE  /\ results'[k].index >= next'
               /\ results'[k].index < Begun'
               /\ pending'[results'[k].index] = NoOutcome
               /\ results'[k].result = outcome'[results'[k].index]
    BY <1>1, <1>2, ResultsTail DEF IInv, ResultsInv
  <2>2. ASSUME NEW k \in 1 .. Len(results'), NEW m \in 1 .. Len(results'), m # k
        PROVE  results'[m].index # results'[k].index
    <3>1. m + 1 # k + 1
      BY <2>2, <1>1, ResultsTail
    <3> QED BY <3>1, <1>1, ResultsTail DEF IInv, ResultsInv
  <2> QED BY <2>1, <2>2 DEF ResultsInv
<1>6. MainInv'
  BY <1>1, MainFrame DEF IInv, MainInv, Returned, RxOpen
<1> QED BY <1>3, <1>4, <1>5, <1>6, <1>1, MainFrame DEF IInv

(* The loop over the results ends only when every item is committed, unless*)
(* the batch was stopped.                                                  *)
LEMMA ResultsClosedIInv == ASSUME IInv, TypeOK', ResultsClosed
                           PROVE  IInv'
<1>1. /\ mpc = "recv" /\ mpc' = "done" /\ results = <<>> /\ AllExited
      /\ UNCHANGED <<workVars, outcome, jobq, txOpen, fed, stop, results,
                     pending, next, committed>>
  BY DEF ResultsClosed
<1>2. Begun' = Begun /\ RxOpen' = RxOpen /\ RxOpen /\ Len(results) = 0
  BY <1>1, EmptySeq DEF Begun, RxOpen
<1>3. /\ QueueInv' /\ HeldInv' /\ ResultsInv' /\ PendingInv' /\ AttemptsInv'
      /\ CommitsInOrder' /\ ExitInv'
  BY <1>1, <1>2 DEF IInv, QueueInv, HeldInv, ResultsInv, PendingInv, AttemptsInv,
                    CommitsInOrder, ExitInv, workVars, Busy
<1>4. FeedInv' /\ CompleteInv'
  BY <1>1, <1>2, MainFrame DEF IInv, FeedInv, CompleteInv, Somewhere
<1>5. ASSUME ~stop
      PROVE  next = N
  <2>1. N > 0
    BY <1>1, BegunType DEF IInv, MainInv
  <2>2. jobq = <<>> /\ ~txOpen
    BY <1>1, <1>5, <2>1, PoolSize DEF IInv, ExitInv, AllExited
  <2>3. fed = N /\ Len(jobq) = 0
    BY <1>1, <1>2, <1>5, <2>2, EmptySeq DEF IInv, FeedInv
  <2>4. Begun = N
    BY <2>3, BegunType DEF Begun
  <2>5. SUFFICES ASSUME next < N
                 PROVE  FALSE
    BY BegunType
  <2>6. next \in Items
    BY <2>5, BegunType DEF Items
  <2>7. Somewhere(next)
    BY <1>2, <1>5, <2>4, <2>5, <2>6, BegunType DEF IInv, CompleteInv
  <2>8. pending[next] = NoOutcome
    BY <1>1, <1>5, <2>5 DEF IInv, MainInv
  <2>9. ~ \E w \in Workers : Busy(w)
    BY <1>1 DEF AllExited, Busy
  <2> QED BY <1>2, <2>7, <2>8, <2>9 DEF Somewhere
<1>6. MainInv'
  BY <1>1, <1>2, <1>5, MainFrame DEF IInv, MainInv, Returned, RxOpen
<1> QED BY <1>3, <1>4, <1>6, <1>1, MainFrame DEF IInv

LEMMA CommitWaitIInv == ASSUME IInv, TypeOK', CommitWait
                        PROVE  IInv'
<1>1. /\ mpc = "commit" /\ ~(next < N /\ pending[next] # NoOutcome)
      /\ mpc' = "recv"
      /\ UNCHANGED <<workVars, outcome, jobq, txOpen, fed, stop, results,
                     pending, next, committed>>
  BY DEF CommitWait, CanCommit
<1>2. Begun' = Begun /\ RxOpen' /\ RxOpen
  BY <1>1 DEF Begun, RxOpen
<1>3. /\ QueueInv' /\ HeldInv' /\ ResultsInv' /\ PendingInv' /\ AttemptsInv'
      /\ CommitsInOrder' /\ ExitInv'
  BY <1>1, <1>2 DEF IInv, QueueInv, HeldInv, ResultsInv, PendingInv, AttemptsInv,
                    CommitsInOrder, ExitInv, workVars, Busy
<1>4. FeedInv' /\ CompleteInv'
  BY <1>1, <1>2, MainFrame DEF IInv, FeedInv, CompleteInv, Somewhere
<1>5. MainInv'
  BY <1>1, <1>2, MainFrame DEF IInv, MainInv, Returned
<1> QED BY <1>3, <1>4, <1>5, <1>1, MainFrame DEF IInv

(* The item at `next` leaves the map; it was nowhere else.                 *)
LEMMA CommitGoIInv == ASSUME IInv, TypeOK', CommitGo
                      PROVE  IInv'
<1>1. /\ mpc = "commit" /\ next < N /\ pending[next] # NoOutcome
      /\ mpc' = "feed"
      /\ committed' = Append(committed, pending[next])
      /\ pending' = [pending EXCEPT ![next] = NoOutcome]
      /\ next' = next + 1
      /\ UNCHANGED <<workVars, outcome, jobq, txOpen, fed, stop, results>>
  BY DEF CommitGo, CanCommit
<1>2. Begun' = Begun /\ RxOpen' /\ RxOpen
  BY <1>1 DEF Begun, RxOpen
<1>3. next \in Items
  BY <1>1, BegunType DEF Items
<1>4. pending[next] = outcome[next] /\ next < Begun /\ ~stop
  BY <1>1, <1>3 DEF IInv, PendingInv, MainInv
<1>5. pending \in [Items -> Outcomes \cup {NoOutcome}]
  BY DEF IInv, TypeOK
<1>6. \A i \in Items : pending'[i] = IF i = next THEN NoOutcome ELSE pending[i]
  BY <1>1, <1>3, <1>5
<1>7. QueueInv'
  BY <1>1, <1>2 DEF IInv, QueueInv
<1>8. FeedInv'
  BY <1>1, <1>2, <1>4, BegunType, PoolSize DEF IInv, FeedInv
<1>9. HeldInv'
  <2>1. ASSUME NEW v \in Workers, Busy(v)'
        PROVE  /\ witem'[v] >= next'
               /\ pending'[witem'[v]] = NoOutcome
    <3>1. /\ Busy(v) /\ witem'[v] = witem[v] /\ witem[v] \in Items
          /\ witem[v] >= next /\ pending[witem[v]] = NoOutcome
      BY <2>1, <1>1, MainFrame DEF IInv, HeldInv
    <3>2. witem[v] # next
      BY <3>1, <1>1
    <3> QED BY <3>1, <3>2, <1>1, <1>6, BegunType DEF Items
  <2> QED BY <2>1, <1>1, <1>2, MainFrame DEF IInv, HeldInv
<1>10. ResultsInv'
  <2>1. ASSUME NEW k \in 1 .. Len(results)
        PROVE  /\ results[k].index >= next'
               /\ pending'[results[k].index] = NoOutcome
    <3>1. /\ results[k].index \in Items
          /\ results[k].index >= next
          /\ pending[results[k].index] = NoOutcome
      BY MessageTypes DEF IInv, ResultsInv
    <3>2. results[k].index # next
      BY <3>1, <1>1
    <3> QED BY <3>1, <3>2, <1>1, <1>6, BegunType DEF Items
  <2> QED BY <2>1, <1>1, <1>2 DEF IInv, ResultsInv
<1>11. PendingInv'
  <2>1. ASSUME NEW i \in Items, pending'[i] # NoOutcome
        PROVE  i >= next' /\ i < Begun' /\ pending'[i] = outcome'[i]
    <3>1. i # next /\ pending'[i] = pending[i]
      BY <2>1, <1>6
    <3>2. i >= next /\ i < Begun /\ pending[i] = outcome[i]
      BY <2>1, <3>1 DEF IInv, PendingInv
    <3> QED BY <3>1, <3>2, <1>1, <1>2, BegunType DEF Items
  <2> QED BY <2>1 DEF PendingInv
<1>12. AttemptsInv'
  BY <1>1, <1>2 DEF IInv, AttemptsInv, workVars
<1>13. CompleteInv'
  <2>1. SUFFICES ASSUME NEW i \in Items, next + 1 <= i, i < Begun
                 PROVE  Somewhere(i)'
    BY <1>1, <1>2 DEF CompleteInv
  <2>2. next <= i /\ i # next
    BY <2>1, BegunType DEF Items
  <2>3. Somewhere(i)
    BY <2>1, <2>2, <1>2, <1>4 DEF IInv, CompleteInv
  <2> QED BY <2>2, <2>3, <1>1, <1>6, MainFrame DEF Somewhere
<1>14. ExitInv'
  BY <1>1 DEF IInv, ExitInv, workVars
<1>15. MainInv'
  BY <1>1, <1>2, <1>4, MainFrame DEF IInv, MainInv, Returned
<1>16. CommitsInOrder'
  <2>1. /\ Len(committed) = next
        /\ Len(committed') = next + 1
        /\ committed'[next + 1] = outcome[next]
        /\ \A k \in 1 .. next : committed'[k] = committed[k]
    <3>1. committed \in Seq(Outcomes) /\ pending[next] \in Outcomes
      BY <1>1, <1>3, <1>5 DEF IInv, TypeOK
    <3> QED BY <3>1, <1>1, <1>4, AppendProperties DEF IInv, CommitsInOrder
  <2>2. ASSUME NEW i \in 0 .. next
        PROVE  committed'[i + 1] = outcome[i]
    <3>1. CASE i = next
      BY <3>1, <2>1
    <3>2. CASE i # next
      <4>1. i \in 0 .. next - 1 /\ i + 1 \in 1 .. next
        BY <3>2, BegunType
      <4> QED BY <4>1, <2>1 DEF IInv, CommitsInOrder
    <3> QED BY <3>1, <3>2
  <2>3. next' - 1 = next
    BY <1>1, BegunType
  <2> QED BY <2>1, <2>2, <2>3, <1>1 DEF CommitsInOrder
<1> QED
  BY <1>7, <1>8, <1>9, <1>10, <1>11, <1>12, <1>13, <1>14, <1>15, <1>16, <1>1,
     MainFrame DEF IInv

(* Clearing the map, in whole or at `next`, after the answer stop.         *)
LEMMA CommitStopIInv == ASSUME IInv, TypeOK', CommitStop
                        PROVE  IInv'
<1>1. /\ mpc = "commit" /\ mpc' = "closing" /\ stop'
      /\ pending' = [pending EXCEPT ![next] = NoOutcome]
      /\ UNCHANGED <<workVars, outcome, jobq, txOpen, fed, results, next,
                     committed>>
  BY DEF CommitStop, CanCommit
<1>2. Begun' = Begun /\ RxOpen' /\ RxOpen
  BY <1>1 DEF Begun, RxOpen
<1>3. \A i \in Items : pending'[i] \in {NoOutcome, pending[i]}
  BY <1>1 DEF IInv, TypeOK
<1>4. QueueInv' /\ FeedInv' /\ AttemptsInv' /\ CommitsInOrder' /\ ExitInv'
  BY <1>1, <1>2 DEF IInv, QueueInv, FeedInv, AttemptsInv, CommitsInOrder, ExitInv,
                    workVars
<1>5. HeldInv'
  BY <1>1, <1>2, <1>3, MainFrame DEF IInv, HeldInv
<1>6. ResultsInv'
  BY <1>1, <1>2, <1>3, MessageTypes DEF IInv, ResultsInv
<1>7. PendingInv'
  BY <1>1, <1>2, <1>3 DEF IInv, PendingInv
<1>8. CompleteInv' /\ MainInv'
  BY <1>1, <1>2, MainFrame DEF IInv, CompleteInv, MainInv, Returned
<1> QED BY <1>4, <1>5, <1>6, <1>7, <1>8, <1>1, MainFrame DEF IInv

LEMMA CloseJobsIInv == ASSUME IInv, TypeOK', CloseJobs
                       PROVE  IInv'
<1>1. /\ mpc = "closing" /\ mpc' = "recv" /\ ~txOpen' /\ stop /\ stop'
      /\ pending' = [i \in Items |-> NoOutcome]
      /\ UNCHANGED <<workVars, outcome, jobq, fed, results, next, committed>>
  BY DEF CloseJobs, IInv, MainInv
<1>2. Begun' = Begun /\ RxOpen' /\ RxOpen
  BY <1>1 DEF Begun, RxOpen
<1>3. QueueInv' /\ FeedInv' /\ AttemptsInv' /\ CommitsInOrder' /\ ExitInv'
  BY <1>1, <1>2 DEF IInv, QueueInv, FeedInv, AttemptsInv, CommitsInOrder, ExitInv,
                    workVars
<1>4. HeldInv'
  BY <1>1, <1>2, MainFrame DEF IInv, HeldInv
<1>5. ResultsInv'
  BY <1>1, <1>2, MessageTypes DEF IInv, ResultsInv
<1>6. PendingInv' /\ CompleteInv'
  BY <1>1 DEF PendingInv, CompleteInv
<1>7. MainInv'
  BY <1>1, <1>2, MainFrame DEF IInv, MainInv, Returned
<1> QED BY <1>3, <1>4, <1>5, <1>6, <1>7, <1>1, MainFrame DEF IInv

LEMMA CommitPanicIInv == ASSUME IInv, TypeOK', CommitPanic
                         PROVE  IInv'
<1>1. /\ mpc = "commit" /\ mpc' = "unwinding" /\ ~txOpen' /\ results' = <<>>
      /\ pending' = [i \in Items |-> NoOutcome]
      /\ UNCHANGED <<workVars, outcome, jobq, fed, stop, next, committed>>
  BY DEF CommitPanic, CanCommit
<1>2. Begun' = Begun /\ ~RxOpen' /\ Len(results') = 0 /\ ~stop
  BY <1>1, EmptySeq DEF Begun, RxOpen, IInv, MainInv
<1>3. QueueInv' /\ FeedInv' /\ AttemptsInv' /\ CommitsInOrder' /\ ExitInv'
  BY <1>1, <1>2 DEF IInv, QueueInv, FeedInv, AttemptsInv, CommitsInOrder, ExitInv,
                    workVars
<1>4. HeldInv'
  BY <1>1, <1>2, MainFrame DEF IInv, HeldInv
<1>5. ResultsInv' /\ PendingInv' /\ CompleteInv'
  BY <1>1, <1>2 DEF ResultsInv, PendingInv, CompleteInv
<1>6. MainInv'
  BY <1>1, <1>2, MainFrame DEF IInv, MainInv, Returned
<1> QED BY <1>3, <1>4, <1>5, <1>6, <1>1, MainFrame DEF IInv

LEMMA ScopeUnwoundIInv == ASSUME IInv, TypeOK', ScopeUnwound
                          PROVE  IInv'
<1>1. /\ mpc = "unwinding" /\ mpc' = "unwound" /\ AllExited
      /\ UNCHANGED <<workVars, outcome, jobq, txOpen, fed, stop, results,
                     pending, next, committed>>
  BY DEF ScopeUnwound
<1>2. Begun' = Begun /\ ~RxOpen' /\ ~RxOpen /\ ~stop
  BY <1>1 DEF Begun, RxOpen, IInv, MainInv
<1>3. /\ QueueInv' /\ FeedInv' /\ AttemptsInv' /\ CommitsInOrder' /\ ExitInv'
      /\ PendingInv' /\ ResultsInv' /\ CompleteInv'
  BY <1>1, <1>2 DEF IInv, QueueInv, FeedInv, AttemptsInv, CommitsInOrder, ExitInv,
                    PendingInv, ResultsInv, CompleteInv, workVars
<1>4. HeldInv'
  BY <1>1, <1>2, MainFrame DEF IInv, HeldInv
<1>5. MainInv'
  BY <1>1, <1>2, MainFrame DEF IInv, MainInv, Returned
<1> QED BY <1>3, <1>4, <1>5, <1>1, MainFrame DEF IInv

-----------------------------------------------------------------------------
LEMMA NextIInv == ASSUME IInv, [Next]_vars
                  PROVE  IInv'
<1>1. TypeOK'
  BY TypeStep DEF IInv
<1>2. ASSUME NEW w \in Workers, WorkerStep(w)
      PROVE  IInv'
  BY <1>1, <1>2, LoadStopIInv, LockJobsIInv, RecvJobIInv, RecvClosedIInv, WorkIInv,
     SendResultIInv DEF WorkerStep
<1>3. ASSUME MainStep
      PROVE  IInv'
  BY <1>1, <1>3, FeedIInv, FeedEndIInv, RecvResultIInv, DrainResultIInv,
     ResultsClosedIInv, CommitWaitIInv, CommitGoIInv, CommitStopIInv, CloseJobsIInv,
     CommitPanicIInv, ScopeUnwoundIInv DEF MainStep
<1>4. ASSUME UNCHANGED vars
      PROVE  IInv'
  BY <1>4 DEF vars, IInv, TypeOK, QueueInv, FeedInv, LockInv, HeldInv, ResultsInv,
              PendingInv, AttemptsInv, CompleteInv, ExitInv, MainInv, CommitsInOrder,
              Begun, Busy, RxOpen, Returned, AllExited, Somewhere
<1> QED BY <1>2, <1>3, <1>4 DEF Next, Finished

(* The inductive invariant.                                                *)
THEOREM PoolInvariant == Spec => []IInv
<1>1. Init => IInv
  BY InitIInv
<1>2. IInv /\ [Next]_vars => IInv'
  BY NextIInv
<1> QED BY <1>1, <1>2, PTL DEF Spec

(* Commits are the outcomes of the first items, in input order.            *)
THEOREM PoolCommitsInOrder == Spec => []CommitsInOrder
<1>1. IInv => CommitsInOrder
  BY DEF IInv
<1> QED BY <1>1, PoolInvariant, PTL

(* No item is rendered twice, nor further than a window past the commits.  *)
THEOREM PoolRendersInWindow == Spec => []RenderedOnceInWindow
<1>1. IInv => RenderedOnceInWindow
  <2>1. SUFFICES ASSUME IInv, NEW i \in Items
                 PROVE  /\ attempts[i] <= 1
                        /\ attempts[i] = 1 => i < next + Window
    BY DEF RenderedOnceInWindow
  <2>2. attempts[i] <= 1
    BY <2>1 DEF IInv, AttemptsInv
  <2>3. ASSUME attempts[i] = 1
        PROVE  i < next + Window
    <3>1. i < Begun
      BY <2>1, <2>3, BegunType DEF IInv, AttemptsInv, Items
    <3>2. Begun <= fed /\ fed <= Window + next
      BY <2>1, BegunType DEF IInv, FeedInv, Begun
    <3> QED BY <2>1, <3>1, <3>2, BegunType, PoolSize DEF Items
  <2> QED BY <2>2, <2>3
<1> QED BY <1>1, PoolInvariant, PTL

(* A batch that ends without a stop or a panic has committed every item.   *)
THEOREM PoolNothingLost == Spec => []NothingLost
<1>1. IInv => NothingLost
  BY DEF IInv, MainInv, NothingLost
<1> QED BY <1>1, PoolInvariant, PTL

(* After a stop nothing is fed or committed.                               *)
THEOREM PoolNothingAfterStop == Spec => NothingAfterStop
<1>1. IInv /\ [Next]_vars =>
         [stop => stop' /\ UNCHANGED <<fed, next, committed>>]_vars
  <2>1. SUFFICES ASSUME IInv, Next, stop
                 PROVE  stop' /\ UNCHANGED <<fed, next, committed>>
    OBVIOUS
  <2>2. mpc \notin {"feed", "commit"}
    BY <2>1 DEF IInv, MainInv
  <2>3. ASSUME NEW w \in Workers, WorkerStep(w)
        PROVE  UNCHANGED mainVars
    BY <2>3 DEF WorkerStep, LoadStop, LockJobs, RecvJob, RecvClosed, Work, SendResult
  <2>4. ASSUME MainStep
        PROVE  UNCHANGED <<stop, fed, next, committed>>
    BY <2>4, <2>2 DEF MainStep, Feed, FeedEnd, RecvResult, DrainResult, ResultsClosed,
                      CommitWait, CommitGo, CommitStop, CloseJobs, CommitPanic,
                      CanCommit, ScopeUnwound, mainVars
  <2>5. CASE Finished
    BY <2>1, <2>5 DEF Finished, vars
  <2> QED BY <2>1, <2>3, <2>4, <2>5 DEF Next, mainVars
<1> QED BY <1>1, PoolInvariant, PTL DEF Spec, NothingAfterStop

-----------------------------------------------------------------------------
(* The pool implements OrderedCommit for every number of items and jobs:   *)
(* its initial states map to initial states, and each of its steps maps to *)
(* Begin (a worker takes a job), Finish (it sends the result), Commit,     *)
(* Halt, Close, or to a step that changes nothing.                         *)

Done == {i \in Items : i < Begun} \ Held

(* What no step of a worker but taking and handing over an item changes.   *)
LEMMA HeldFrame ==
    ASSUME \A w \in Workers : (Busy(w))' = Busy(w),
           UNCHANGED witem
    PROVE  Held' = Held
  BY DEF Held

(* The main thread's steps hold nothing.                                   *)
LEMMA MainHeld == ASSUME UNCHANGED workVars
                  PROVE  Held' = Held
  BY DEF Held, Busy, workVars

(* The initial states map to initial states.                               *)
LEMMA RefinesInit == Init => OC!Init
<1> SUFFICES ASSUME Init PROVE OC!Init
  OBVIOUS
<1>1. Begun = 0
  <2>1. fed = 0
    BY DEF Init
  <2>2. Len(jobq) = 0
    BY EmptySeq DEF Init
  <2> QED BY <2>1, <2>2 DEF Begun
<1>2. Done = {}
  BY <1>1, PoolAssumption DEF Done, Items
<1>3. Phase = IF N = 0 THEN "closed" ELSE "running"
  BY PoolAssumption DEF Init, Phase, Returned
<1> QED BY <1>1, <1>2, <1>3 DEF Init, OC!Init, Done, Items, OC!Items

(* A worker that takes a job begins the next item.                         *)
LEMMA RefinesBegin == ASSUME IInv, NEW w \in Workers, RecvJob(w)
                      PROVE  OC!Begin
<1>1. /\ wpc[w] = "recv" /\ jobq # <<>>
      /\ witem' = [witem EXCEPT ![w] = Head(jobq)] /\ jobq' = Tail(jobq)
      /\ wpc' = [wpc EXCEPT ![w] = "work"]
      /\ UNCHANGED mainVars
  BY DEF RecvJob
<1>2. jobq \in Seq(Items) /\ fed \in 0 .. N /\ next \in 0 .. N
  BY DEF IInv, TypeOK
<1>3. /\ Len(jobq) \in Nat /\ Len(jobq) > 0 /\ Len(jobq') = Len(jobq) - 1
      /\ Head(jobq) = jobq[1]
  BY <1>1, <1>2, EmptySeq, LenProperties, HeadTailProperties
<1>4. Head(jobq) = Begun /\ Begun' = Begun + 1 /\ Begun \in Items
  BY <1>1, <1>2, <1>3, BegunType, PoolAssumption
     DEF IInv, QueueInv, Begun, mainVars, Items
<1>5. Begun < N /\ Begun < Window + Len(committed)
  BY <1>2, <1>3, <1>4, BegunType, PoolSize, PoolAssumption
     DEF IInv, FeedInv, CommitsInOrder, Begun, Items
<1>6. ~Returned /\ ~Returned'
  BY <1>1 DEF IInv, MainInv, AllExited, Returned, mainVars
<1>7. Phase # "closed" /\ Phase' = Phase
  BY <1>1, <1>6 DEF Phase, mainVars, Returned
<1>8. Held' = Held \cup {Begun}
  <2>1. ~Busy(w) /\ (Busy(w))' /\ witem'[w] = Begun
    BY <1>1, <1>4 DEF Busy, IInv, TypeOK
  <2>2. \A v \in Workers : v # w => (Busy(v))' = Busy(v) /\ witem'[v] = witem[v]
    BY <1>1 DEF Busy, IInv, TypeOK
  <2> QED BY <2>1, <2>2, <1>4 DEF Held
<1>9. Done' = Done
  BY <1>4, <1>8, BegunType DEF Done, Items
<1> QED BY <1>1, <1>4, <1>5, <1>7, <1>9 DEF OC!Begin, Done, Items, mainVars

(* A worker that hands its result over finishes its item.                  *)
LEMMA RefinesFinish == ASSUME IInv, NEW w \in Workers, SendResult(w)
                       PROVE  OC!Finish(witem[w]) /\ witem[w] \in Items
<1>1. /\ Busy(w) /\ wpc' = [wpc EXCEPT ![w] = "check"]
      /\ UNCHANGED <<mainVars, jobq, witem>>
  BY DEF SendResult, Busy
<1>2. witem[w] \in Items /\ witem[w] < Begun
  BY <1>1 DEF IInv, HeldInv
<1>3. Begun' = Begun
  BY <1>1 DEF Begun, mainVars
<1>4. witem[w] \in Held
  BY <1>1, <1>2 DEF Held
<1>5. Held' = Held \ {witem[w]}
  <2>1. ~(Busy(w))'
    BY <1>1 DEF Busy, IInv, TypeOK
  <2>2. \A v \in Workers : v # w => (Busy(v))' = Busy(v) /\ witem'[v] = witem[v]
    BY <1>1 DEF Busy, IInv, TypeOK
  <2>3. \A v \in Workers : Busy(v) /\ v # w => witem[v] # witem[w]
    BY <1>1 DEF IInv, HeldInv
  <2> QED BY <2>1, <2>2, <2>3, <1>1 DEF Held
<1>6. Done' = Done \cup {witem[w]} /\ witem[w] \notin Done
  BY <1>2, <1>3, <1>4, <1>5 DEF Done
<1>7. ~Returned
  BY <1>1 DEF IInv, MainInv, AllExited, Busy
<1>8. Phase # "closed" /\ Phase' = Phase
  BY <1>1, <1>7 DEF Phase, mainVars, Returned
<1> QED BY <1>1, <1>2, <1>3, <1>6, <1>8 DEF OC!Finish, Done, mainVars

(* The item at `next` has been worked on when it is in the map.            *)
LEMMA ReadyFinished == ASSUME IInv, CanCommit
                       PROVE  /\ Len(committed) = next
                              /\ next \in Done
                              /\ pending[next] = outcome[next]
                              /\ Phase = "running"
<1>1. /\ mpc = "commit" /\ next < N /\ pending[next] # NoOutcome
      /\ next \in Items
  BY BegunType DEF CanCommit, Items
<1>2. Len(committed) = next
  BY DEF IInv, CommitsInOrder
<1>3. next < Begun /\ pending[next] = outcome[next]
  BY <1>1 DEF IInv, PendingInv
<1>4. next \notin Held
  BY <1>1 DEF Held, IInv, HeldInv
<1>5. ~stop
  BY <1>1 DEF IInv, MainInv
<1> QED BY <1>1, <1>2, <1>3, <1>4, <1>5 DEF Done, Phase, Returned

(* A commit that goes on, and one that stops or panics.                    *)
LEMMA RefinesCommit == ASSUME IInv, CommitGo
                       PROVE  OC!Commit
<1>1. /\ CanCommit /\ mpc' = "feed"
      /\ committed' = Append(committed, pending[next])
      /\ UNCHANGED <<workVars, outcome, jobq, fed, stop>>
  BY DEF CommitGo
<1>2. Begun' = Begun /\ Done' = Done
  BY <1>1, MainHeld DEF Begun, Done
<1>3. Phase' = "running"
  BY <1>1, ReadyFinished DEF Phase, Returned
<1> QED BY <1>1, <1>2, <1>3, ReadyFinished DEF OC!Commit, Done

LEMMA RefinesHalt == ASSUME IInv, CommitStop \/ CommitPanic
                     PROVE  OC!Halt
<1>1. /\ CanCommit
      /\ mpc' \in {"closing", "unwinding"}
      /\ mpc' = "closing" => stop'
      /\ UNCHANGED <<workVars, outcome, jobq, fed, committed>>
  BY DEF CommitStop, CommitPanic
<1>2. Begun' = Begun /\ Done' = Done
  BY <1>1, MainHeld DEF Begun, Done
<1>3. Phase' = "halted"
  BY <1>1 DEF Phase, Returned
<1> QED BY <1>1, <1>2, <1>3, ReadyFinished DEF OC!Halt, Done

(* The call returns, or its panic reaches the caller.                      *)
LEMMA RefinesClose == ASSUME IInv, IInv', ResultsClosed \/ ScopeUnwound
                      PROVE  OC!Close
<1>1. /\ AllExited /\ mpc' \in {"done", "unwound"}
      /\ ScopeUnwound => mpc = "unwinding"
      /\ ResultsClosed => mpc = "recv" /\ mpc' = "done"
      /\ UNCHANGED <<workVars, outcome, jobq, fed, stop, next, committed>>
  BY DEF ResultsClosed, ScopeUnwound
<1>2. Begun' = Begun /\ Done' = Done
  BY <1>1, MainHeld DEF Begun, Done
<1>3. Phase' = "closed"
  BY <1>1 DEF Phase, Returned
<1>4. Held = {}
  BY <1>1 DEF Held, AllExited, Busy
<1>5. Done = 0 .. Begun - 1
  BY <1>4, BegunType DEF Done, Items
<1>6. Phase = "halted" \/ (Phase = "running" /\ Len(committed) = N)
  <2>1. CASE mpc = "unwinding" \/ stop
    BY <2>1, <1>1 DEF Phase, Returned
  <2>2. CASE mpc = "recv" /\ ~stop
    <3>1. next = N
      BY <2>2, <1>1 DEF IInv, MainInv, ResultsClosed, ScopeUnwound
    <3> QED BY <3>1, <2>2 DEF Phase, Returned, IInv, CommitsInOrder
  <2> QED BY <2>1, <2>2, <1>1
<1> QED BY <1>1, <1>2, <1>3, <1>5, <1>6 DEF OC!Close, Done

-----------------------------------------------------------------------------
(* The other steps change nothing the contract sees.                       *)
LEMMA RefinesStutter ==
    ASSUME IInv, NEW w \in Workers,
           \/ LoadStop(w) \/ LockJobs(w) \/ RecvClosed(w) \/ Work(w)
    PROVE  UNCHANGED OC!vars
<1>1. /\ UNCHANGED <<mainVars, jobq, witem>>
      /\ \E pc \in WorkerPCs : /\ wpc' = [wpc EXCEPT ![w] = pc]
                               /\ (wpc[w] = "work" /\ pc = "send")
                                  \/ (~Busy(w) /\ pc \notin {"work", "send"})
  BY DEF LoadStop, LockJobs, RecvClosed, Work, WorkerPCs, Busy
<1>2. \A v \in Workers : (Busy(v))' = Busy(v)
  BY <1>1 DEF Busy, IInv, TypeOK
<1>3. Held' = Held
  BY <1>1, <1>2, HeldFrame
<1>4. Begun' = Begun /\ Phase' = Phase
  BY <1>1 DEF Begun, Phase, Returned, mainVars
<1> QED BY <1>1, <1>3, <1>4 DEF OC!vars, mainVars

LEMMA RefinesMainStutter ==
    ASSUME IInv,
           \/ Feed \/ FeedEnd \/ RecvResult \/ DrainResult \/ CommitWait
           \/ CloseJobs
    PROVE  UNCHANGED OC!vars
<1>1. /\ UNCHANGED <<workVars, outcome, stop, committed>>
      /\ mpc \in {"feed", "recv", "commit", "closing"}
      /\ mpc' \in {"feed", "recv", "commit", "closing"}
  BY DEF Feed, FeedEnd, RecvResult, DrainResult, CommitWait, CloseJobs, mainVars
<1>2. Phase' = Phase
  BY <1>1 DEF Phase, Returned
<1>3. Begun' = Begun
  <2>1. CASE Feed
    <3>1. jobq' = Append(jobq, fed) /\ fed' = fed + 1 /\ fed < N
      BY <2>1, BegunType, PoolSize DEF Feed, FeedLimit, Min2
    <3>2. jobq \in Seq(Items) /\ fed \in Items
      BY <3>1, BegunType DEF IInv, TypeOK, Items
    <3>3. Len(jobq') = Len(jobq) + 1
      BY <3>1, <3>2, AppendProperties
    <3> QED BY <3>1, <3>3, BegunType DEF Begun
  <2>2. CASE FeedEnd \/ RecvResult \/ DrainResult \/ CommitWait \/ CloseJobs
    BY <2>2 DEF FeedEnd, RecvResult, DrainResult, CommitWait, CloseJobs, Begun,
                mainVars
  <2> QED BY <2>1, <2>2
<1>4. Held' = Held
  BY <1>1, MainHeld
<1> QED BY <1>1, <1>2, <1>3, <1>4 DEF OC!vars

(* Every step is a step of the contract or changes nothing of it.          *)
LEMMA RefinesNext == ASSUME IInv, IInv', [Next]_vars
                     PROVE  [OC!Next]_(OC!vars)
<1>1. ASSUME NEW w \in Workers, WorkerStep(w)
      PROVE  [OC!Next]_(OC!vars)
  <2>1. CASE RecvJob(w)
    BY <2>1, RefinesBegin DEF OC!Next
  <2>2. CASE SendResult(w)
    <3>1. OC!Finish(witem[w]) /\ witem[w] \in OC!Items
      BY <2>2, RefinesFinish DEF OC!Items, Items
    <3>2. \E i \in OC!Items : OC!Finish(i)
      BY <3>1 DEF OC!Finish
    <3> QED BY <3>2 DEF OC!Next
  <2>3. CASE LoadStop(w) \/ LockJobs(w) \/ RecvClosed(w) \/ Work(w)
    BY <2>3, RefinesStutter
  <2> QED BY <1>1, <2>1, <2>2, <2>3 DEF WorkerStep
<1>2. ASSUME MainStep
      PROVE  [OC!Next]_(OC!vars)
  <2>1. CASE CommitGo
    BY <2>1, RefinesCommit DEF OC!Next
  <2>2. CASE CommitStop \/ CommitPanic
    BY <2>2, RefinesHalt DEF OC!Next
  <2>3. CASE ResultsClosed \/ ScopeUnwound
    BY <2>3, RefinesClose DEF OC!Next
  <2>4. CASE \/ Feed \/ FeedEnd \/ RecvResult \/ DrainResult \/ CommitWait
             \/ CloseJobs
    BY <2>4, RefinesMainStutter
  <2> QED BY <1>2, <2>1, <2>2, <2>3, <2>4 DEF MainStep
<1>3. ASSUME UNCHANGED vars
      PROVE  UNCHANGED OC!vars
  BY <1>3 DEF vars, OC!vars, Begun, Held, Busy, Phase, Returned
<1> QED BY <1>1, <1>2, <1>3 DEF Next, Finished

(* run_bounded_ordered keeps the contract its doc comment states.          *)
THEOREM PoolImplementsOrderedCommit == Spec => ImplementsOrderedCommit
<1>1. Init => OC!Init
  BY RefinesInit
<1>2. IInv /\ IInv' /\ [Next]_vars => [OC!Next]_(OC!vars)
  BY RefinesNext
<1> QED
  BY <1>1, <1>2, PoolInvariant, PTL DEF Spec, ImplementsOrderedCommit, OC!Spec
=============================================================================
