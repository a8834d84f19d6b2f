----------------------------- MODULE ExtractPool -----------------------------
(***************************************************************************)
(* run_bounded_ordered and feed_window of the `extract` command            *)
(* (crates/pdfluent-cli/src/cmd_extract.rs): a scoped pool of worker       *)
(* threads that share one job channel behind a mutex, and a main thread    *)
(* that feeds the channel a window ahead of its commits and commits the    *)
(* results in input order.                                                 *)
(*                                                                         *)
(* Items are numbered from 0, as in the code.  The work closure is the     *)
(* function `outcome` (a panicking item has the outcome on_panic gives);   *)
(* what the commit closure answers is a choice made at each commit.        *)
(***************************************************************************)
EXTENDS Integers, Sequences

CONSTANTS N,          \* items.len()
          Jobs,       \* the `jobs` argument
          Outcomes,   \* the values of the type parameter R
          NoOutcome   \* the absence of one

ASSUME PoolAssumption == /\ N \in Nat
                         /\ Jobs \in Nat
                         /\ NoOutcome \notin Outcomes

Items == 0 .. N - 1

Min2(a, b) == IF a < b THEN a ELSE b
Max2(a, b) == IF a > b THEN a ELSE b

JobCount == Min2(Max2(Jobs, 1), N)
Workers == 1 .. JobCount
Window == JobCount * 2

NoWorker == 0

VARIABLES outcome,    \* the work closure: item -> outcome
          jobq,       \* the job channel, oldest first
          txOpen,     \* job_tx is Some
          fed,        \* items sent so far
          lock,       \* the holder of the mutex on job_rx, or NoWorker
          wpc,        \* where each worker stands in its loop
          witem,      \* the item of a worker that has taken one
          stop,       \* the AtomicBool, and the main thread's `stopped`
          results,    \* the result channel, oldest first
          pending,    \* the BTreeMap of results that wait for a predecessor
          next,       \* the next index to commit
          committed,  \* the outcomes passed to commit with the answer go on
          attempts,   \* how often the work closure was called on an item
          mpc         \* where the main thread stands

mainVars == <<outcome, txOpen, fed, stop, pending, next, committed, mpc>>
workVars == <<lock, wpc, witem, attempts>>
vars == <<outcome, jobq, txOpen, fed, lock, wpc, witem, stop, results, pending,
          next, committed, attempts, mpc>>

WorkerPCs == {"check", "lock", "recv", "work", "send", "exit"}
MainPCs == {"feed", "commit", "recv", "closing", "unwinding", "done", "unwound"}

Message == [index : Items, result : Outcomes]

(* The result receiver is dropped when a commit panic unwinds the scope.   *)
RxOpen == mpc \notin {"unwinding", "unwound"}

AllExited == \A w \in Workers : wpc[w] = "exit"

Busy(w) == wpc[w] \in {"work", "send"}

-----------------------------------------------------------------------------
Init == /\ outcome \in [Items -> Outcomes]
        /\ jobq = <<>>
        /\ txOpen = TRUE
        /\ fed = 0
        /\ lock = NoWorker
        /\ wpc = [w \in Workers |-> "check"]
        /\ witem = [w \in Workers |-> 0]
        /\ stop = FALSE
        /\ results = <<>>
        /\ pending = [i \in Items |-> NoOutcome]
        /\ next = 0
        /\ committed = <<>>
        /\ attempts = [i \in Items |-> 0]
        /\ mpc = IF N = 0 THEN "done" ELSE "feed"

-----------------------------------------------------------------------------
(* Worker threads.                                                         *)

LoadStop(w) == /\ wpc[w] = "check"
               /\ wpc' = [wpc EXCEPT ![w] = IF stop THEN "exit" ELSE "lock"]
               /\ UNCHANGED <<mainVars, jobq, results, lock, witem, attempts>>

LockJobs(w) == /\ wpc[w] = "lock"
               /\ lock = NoWorker
               /\ lock' = w
               /\ wpc' = [wpc EXCEPT ![w] = "recv"]
               /\ UNCHANGED <<mainVars, jobq, results, witem, attempts>>

(* Mutant of RecvJob: takes the newest job, not the oldest.                *)
RecvNewestJob(w) ==
    /\ wpc[w] = "recv"
    /\ jobq # <<>>
    /\ witem' = [witem EXCEPT ![w] = jobq[Len(jobq)]]
    /\ jobq' = SubSeq(jobq, 1, Len(jobq) - 1)
    /\ lock' = NoWorker
    /\ wpc' = [wpc EXCEPT ![w] = "work"]
    /\ UNCHANGED <<mainVars, results, attempts>>

(* The mutex is held while recv waits, and released once it returns.       *)
RecvJob(w) == /\ wpc[w] = "recv"
              /\ jobq # <<>>
              /\ witem' = [witem EXCEPT ![w] = Head(jobq)]
              /\ jobq' = Tail(jobq)
              /\ lock' = NoWorker
              /\ wpc' = [wpc EXCEPT ![w] = "work"]
              /\ UNCHANGED <<mainVars, results, attempts>>

(* recv fails once the sender is gone and the channel is empty.            *)
RecvClosed(w) == /\ wpc[w] = "recv"
                 /\ jobq = <<>>
                 /\ ~txOpen
                 /\ lock' = NoWorker
                 /\ wpc' = [wpc EXCEPT ![w] = "exit"]
                 /\ UNCHANGED <<mainVars, jobq, results, witem, attempts>>

Work(w) == /\ wpc[w] = "work"
           /\ attempts' = [attempts EXCEPT ![witem[w]] = @ + 1]
           /\ wpc' = [wpc EXCEPT ![w] = "send"]
           /\ UNCHANGED <<mainVars, jobq, results, lock, witem>>

(* A send to a dropped receiver is ignored.                                *)
SendResult(w) ==
    /\ wpc[w] = "send"
    /\ results' = IF RxOpen
                    THEN Append(results, [index  |-> witem[w],
                                          result |-> outcome[witem[w]]])
                    ELSE results
    /\ wpc' = [wpc EXCEPT ![w] = "check"]
    /\ UNCHANGED <<mainVars, jobq, lock, witem, attempts>>

WorkerStep(w) == \/ LoadStop(w)
                 \/ LockJobs(w)
                 \/ RecvJob(w)
                 \/ RecvClosed(w)
                 \/ Work(w)
                 \/ SendResult(w)

-----------------------------------------------------------------------------
(* The main thread: feed_window, one send at a time, with the limit it is  *)
(* called with (window, then window + next: next is 0 the first time).     *)

(* Mutant of FeedLimit: everything at once.                                *)
FeedEverything == N

FeedLimit == Min2(N, Window + next)

(* Mutant of Feed: the limit itself is fed too.                            *)
FeedInclusive == /\ mpc = "feed"
                 /\ txOpen
                 /\ fed <= FeedLimit
                 /\ jobq' = Append(jobq, fed)
                 /\ fed' = fed + 1
                 /\ UNCHANGED <<workVars, outcome, txOpen, stop, results, pending,
                                next, committed, mpc>>

Feed == /\ mpc = "feed"
        /\ txOpen
        /\ fed < FeedLimit
        /\ jobq' = Append(jobq, fed)
        /\ fed' = fed + 1
        /\ UNCHANGED <<workVars, outcome, txOpen, stop, results, pending, next,
                       committed, mpc>>

(* Mutants of FeedEnd: the sender is never dropped; it is dropped after    *)
(* the first window.                                                       *)
FeedEndKeepsSender == /\ mpc = "feed"
                      /\ ~(txOpen /\ fed < FeedLimit)
                      /\ mpc' = "commit"
                      /\ UNCHANGED <<workVars, outcome, jobq, txOpen, fed, stop,
                                     results, pending, next, committed>>

FeedEndDropsSender == /\ mpc = "feed"
                      /\ ~(txOpen /\ fed < FeedLimit)
                      /\ txOpen' = FALSE
                      /\ mpc' = "commit"
                      /\ UNCHANGED <<workVars, outcome, jobq, fed, stop, results,
                                     pending, next, committed>>

FeedEnd == /\ mpc = "feed"
           /\ ~(txOpen /\ fed < FeedLimit)
           /\ txOpen' = (txOpen /\ fed # N)
           /\ mpc' = "commit"
           /\ UNCHANGED <<workVars, outcome, jobq, fed, stop, results, pending,
                          next, committed>>

(* for (index, result) in res_rx.  After a stop the results are drained.   *)
RecvResult == /\ mpc = "recv"
              /\ results # <<>>
              /\ ~stop
              /\ pending' = [pending EXCEPT ![Head(results).index] =
                                               Head(results).result]
              /\ results' = Tail(results)
              /\ mpc' = "commit"
              /\ UNCHANGED <<workVars, outcome, jobq, txOpen, fed, stop, next,
                             committed>>

DrainResult == /\ mpc = "recv"
               /\ results # <<>>
               /\ stop
               /\ results' = Tail(results)
               /\ UNCHANGED <<mainVars, workVars, jobq>>

(* Every worker's sender is dropped and the channel is empty: the loop     *)
(* ends and the scope joins.                                               *)
ResultsClosed == /\ mpc = "recv"
                 /\ results = <<>>
                 /\ AllExited
                 /\ mpc' = "done"
                 /\ UNCHANGED <<workVars, outcome, jobq, txOpen, fed, stop,
                                results, pending, next, committed>>

CanCommit == /\ mpc = "commit"
             /\ next < N
             /\ pending[next] # NoOutcome

(* while let Some(result) = pending.remove(&next)                          *)
CommitWait == /\ mpc = "commit"
              /\ ~CanCommit
              /\ mpc' = "recv"
              /\ UNCHANGED <<workVars, outcome, jobq, txOpen, fed, stop, results,
                             pending, next, committed>>

(* Mutant of CommitGo: commits whatever has arrived.                       *)
CommitAsItArrives ==
    /\ mpc = "commit"
    /\ next < N
    /\ \E i \in Items : /\ pending[i] # NoOutcome
                        /\ committed' = Append(committed, pending[i])
                        /\ pending' = [pending EXCEPT ![i] = NoOutcome]
    /\ next' = next + 1
    /\ mpc' = "feed"
    /\ UNCHANGED <<workVars, outcome, jobq, txOpen, fed, stop, results>>

CommitGo == /\ CanCommit
            /\ committed' = Append(committed, pending[next])
            /\ pending' = [pending EXCEPT ![next] = NoOutcome]
            /\ next' = next + 1
            /\ mpc' = "feed"
            /\ UNCHANGED <<workVars, outcome, jobq, txOpen, fed, stop, results>>

(* Mutant of CommitStop: counts the item and stays in the loop.            *)
CommitStopStays == /\ CanCommit
                   /\ pending' = [pending EXCEPT ![next] = NoOutcome]
                   /\ next' = next + 1
                   /\ stop' = TRUE
                   /\ mpc' = "feed"
                   /\ UNCHANGED <<workVars, outcome, jobq, txOpen, fed, results,
                                  committed>>

CommitStop == /\ CanCommit
              /\ pending' = [pending EXCEPT ![next] = NoOutcome]
              /\ stop' = TRUE
              /\ mpc' = "closing"
              /\ UNCHANGED <<workVars, outcome, jobq, txOpen, fed, results, next,
                             committed>>

(* After the flag: the sender is dropped and what waits is discarded.      *)
CloseJobs == /\ mpc = "closing"
             /\ txOpen' = FALSE
             /\ pending' = [i \in Items |-> NoOutcome]
             /\ mpc' = "recv"
             /\ UNCHANGED <<workVars, outcome, jobq, fed, stop, results, next,
                            committed>>

(* A commit that panics unwinds the scope's closure: the receiver, the     *)
(* sender and the map are dropped, the stop flag is not set, and the scope *)
(* still joins its threads.                                                *)
CommitPanic == /\ CanCommit
               /\ pending' = [i \in Items |-> NoOutcome]
               /\ results' = <<>>
               /\ txOpen' = FALSE
               /\ mpc' = "unwinding"
               /\ UNCHANGED <<workVars, outcome, jobq, fed, stop, next, committed>>

ScopeUnwound == /\ mpc = "unwinding"
                /\ AllExited
                /\ mpc' = "unwound"
                /\ UNCHANGED <<workVars, outcome, jobq, txOpen, fed, stop, results,
                               pending, next, committed>>

MainStep == \/ Feed
            \/ FeedEnd
            \/ RecvResult
            \/ DrainResult
            \/ ResultsClosed
            \/ CommitWait
            \/ CommitGo
            \/ CommitStop
            \/ CloseJobs
            \/ CommitPanic
            \/ ScopeUnwound

Returned == mpc \in {"done", "unwound"}

Finished == Returned /\ UNCHANGED vars

Next == \/ MainStep
        \/ \E w \in Workers : WorkerStep(w)
        \/ Finished

(* Every thread is scheduled, and the work and commit closures return.     *)
Fairness == /\ WF_vars(MainStep)
            /\ \A w \in Workers : WF_vars(WorkerStep(w))

Spec == Init /\ [][Next]_vars
FairSpec == Spec /\ Fairness

-----------------------------------------------------------------------------
(* Every variable keeps its type: what is in the job channel, in the       *)
(* result channel and in the map names items of the batch.                 *)
TypeOK == /\ outcome \in [Items -> Outcomes]
          /\ jobq \in Seq(Items)
          /\ txOpen \in BOOLEAN
          /\ fed \in 0 .. N
          /\ lock \in Workers \cup {NoWorker}
          /\ wpc \in [Workers -> WorkerPCs]
          /\ witem \in [Workers -> Items \cup {0}]
          /\ stop \in BOOLEAN
          /\ results \in Seq(Message)
          /\ pending \in [Items -> Outcomes \cup {NoOutcome}]
          /\ next \in 0 .. N
          /\ committed \in Seq(Outcomes)
          /\ attempts \in [Items -> Nat]
          /\ mpc \in MainPCs

(* "committing each result in input order": what has been committed is the *)
(* outcome of the first `next` items, each its own, however the workers    *)
(* overlapped.                                                             *)
CommitsInOrder == /\ Len(committed) = next
                  /\ \A i \in 0 .. next - 1 : committed[i + 1] = outcome[i]

(* "at most a window of renders waits however the batch sizes": an item is *)
(* rendered at most once, and only while it is less than a window past the *)
(* commits, so the renders that wait are among `Window` items.             *)
RenderedOnceInWindow ==
    \A i \in Items : /\ attempts[i] <= 1
                     /\ attempts[i] = 1 => i < next + Window

(* A batch that returns without a stop or a panic has committed every      *)
(* item: no item is lost between the channels, the workers and the map.    *)
NothingLost == mpc = "done" /\ ~stop => next = N

(* "when it says stop, nothing further is fed or committed", and the flag  *)
(* is never taken back.                                                    *)
NothingAfterStop ==
    [][stop => stop' /\ UNCHANGED <<fed, next, committed>>]_vars

(* The call returns: no worker is left blocked in recv with the mutex held *)
(* and the main thread never waits for a result nobody will send.          *)
Termination == <>Returned

-----------------------------------------------------------------------------
(* The pool implements the contract of its doc comment.                    *)

Held == {i \in Items : \E w \in Workers : Busy(w) /\ witem[w] = i}

Begun == fed - Len(jobq)

Phase == IF Returned THEN "closed"
         ELSE IF stop \/ mpc = "unwinding" THEN "halted" ELSE "running"

OC == INSTANCE OrderedCommit
        WITH begun <- Begun,
             finished <- {i \in Items : i < Begun} \ Held,
             log <- committed,
             phase <- Phase

ImplementsOrderedCommit == OC!Spec

=============================================================================
