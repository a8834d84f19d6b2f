------------------------- MODULE ExtractBatch_proofs -------------------------
(***************************************************************************)
(* Proofs about the batch of ExtractBatch, for every number of items, of   *)
(* jobs and of targets and for every plan: it runs the pool of ExtractPool *)
(* as it is, and from the pool's invariant and one of its own, that ties   *)
(* the disk and the two lists to the number of items passed so far, follow *)
(* the properties of the batch.                                            *)
(***************************************************************************)
EXTENDS ExtractBatch, ExtractPool_proofs

BatchTypeOK == /\ plan \in Plans
               /\ plan.protected \subseteq plan.existing
               /\ disk \in [Targets -> Items \cup {Absent, Old}]
               /\ staged \subseteq Items
               /\ stuck \subseteq staged
               /\ figures \subseteq Items
               /\ succeeded \in Seq(Items)
               /\ failed \in Seq(Items)
               /\ step \in {"plan", "pool", "refused", "reported", "panicked"}

(* A temp file that was not one to be removed in vain is that of the item  *)
(* the main thread is committing, whose render succeeded and whose file    *)
(* was created, or of the item whose commit panicked.                      *)
InCommit(i) == /\ step = "pool"
               /\ CanCommit
               /\ pending[i] = "rendered"
               /\ plan.placing[i] # "create_fails"

Abandoned == ~RxOpen /\ step \in {"pool", "panicked"}

StagedInv == /\ stuck \subseteq Members(failed)
             /\ \A i \in staged \ stuck : i = next /\ (InCommit(i) \/ Abandoned)

(* The two lists divide the items passed so far, in input order.  A batch  *)
(* that stops stands at the first bad item, which is in the list too.      *)
VerdictInv == /\ Increasing(succeeded)
              /\ Members(succeeded) = {i \in Items : i < next /\ Good(i)}
              /\ Increasing(failed)
              /\ Members(failed) =
                    {i \in Items : ~Good(i) /\ (i < next \/ (stop /\ i = next))}
              /\ ~plan.keepGoing => \A j \in Items : j < next => Good(j)
              /\ stop => next \in Items /\ ~plan.keepGoing /\ ~Good(next)

(* Nothing is passed before the guard, and the report and the panic wait   *)
(* for the pool.                                                           *)
StepInv == /\ step \in {"plan", "refused"} => next = 0 /\ ~stop /\ RxOpen
           /\ step = "reported" => mpc = "done"
           /\ step = "panicked" => mpc = "unwound"

(* What the guard has checked once the pool runs.                          *)
GuardInv == step \in {"pool", "reported", "panicked"} =>
               /\ \A i, j \in Items : plan.target[i] = plan.target[j] => i = j
               /\ \A i \in Items : plan.target[i] \notin plan.protected
               /\ ~plan.force =>
                     \A i \in Items : plan.target[i] \notin plan.existing

(* A target holds the item written there, if one has been, and otherwise   *)
(* what it held before the run.  After a panic one more item may have been *)
(* written, and nothing is written any more.                               *)
Before(t) == IF t \in plan.existing THEN Old ELSE Absent

Written(i, t) == i < next /\ Good(i) /\ plan.target[i] = t

DiskInv == RxOpen =>
              \A t \in Targets :
                 /\ \A i \in Items : Written(i, t) => disk[t] = i
                 /\ (\A i \in Items : ~Written(i, t)) => disk[t] = Before(t)

(* No item that failed is on its target, panic or not.                     *)
FailedUnwritten == \A i \in Members(failed) : disk[plan.target[i]] # i

OwnInv == /\ BatchTypeOK
          /\ StagedInv
          /\ VerdictInv
          /\ StepInv
          /\ GuardInv
          /\ DiskInv
          /\ FailedUnwritten

BInv == IInv /\ OwnInv

-----------------------------------------------------------------------------
(* The batch around the pool: every step of a batch is a step of its pool  *)
(* or leaves the pool alone.                                               *)
LEMMA BatchStepsPool == ASSUME [BatchNext]_allVars
                        PROVE  [Next]_vars
<1>1. CASE Refuse \/ StartPool \/ StageMarkdown \/ Report \/ PanicLeaves
              \/ BatchOver
  BY <1>1 DEF Refuse, StartPool, StageMarkdown, Report, PanicLeaves, BatchOver,
              allVars
<1>2. ASSUME NEW w \in Workers, Render(w)
      PROVE  [Next]_vars
  BY <1>2 DEF Render, WorkerStep, Next
<1>3. CASE PoolStep
  BY <1>3 DEF PoolStep, WorkerStep, MainStep, Next
<1>4. CASE RenameMarkdown
  BY <1>4 DEF RenameMarkdown, MainStep, Next
<1>5. CASE CommitFailure
  BY <1>5 DEF CommitFailure, MainStep, Next
<1>6. CASE CommitPanics
  BY <1>6 DEF CommitPanics, MainStep, Next
<1>7. CASE UNCHANGED allVars
  BY <1>7 DEF allVars
<1> QED BY <1>1, <1>2, <1>3, <1>4, <1>5, <1>6, <1>7 DEF BatchNext

(* The batch runs run_bounded_ordered as the pool's own specification says *)
(* it runs: what the guard, the renders and the commit closures do never   *)
(* takes a step the pool alone could not take.                             *)
THEOREM BatchRunsPool == BatchSpec => Spec
<1>1. BatchInit => Init
  BY DEF BatchInit
<1>2. [BatchNext]_allVars => [Next]_vars
  BY BatchStepsPool
<1> QED BY <1>1, <1>2, PTL DEF BatchSpec, Spec

(* So a batch, too, keeps the contract of run_bounded_ordered's comment:   *)
(* items begin in order within the window and commit in input order, one   *)
(* by one, until all are committed or the batch halts.                     *)
THEOREM BatchImplementsOrderedCommit == BatchSpec => ImplementsOrderedCommit
  BY BatchRunsPool, PoolImplementsOrderedCommit

-----------------------------------------------------------------------------
(* Facts about the operators.                                              *)

(* Appending an item greater than every item of an increasing list keeps   *)
(* it increasing and adds that item to its members.                        *)
LEMMA AppendGreatest ==
    ASSUME NEW s \in Seq(Items), NEW x \in Items,
           Increasing(s),
           \A y \in Members(s) : y < x
    PROVE  /\ Append(s, x) \in Seq(Items)
           /\ Increasing(Append(s, x))
           /\ Members(Append(s, x)) = Members(s) \cup {x}
<1> DEFINE r == Append(s, x)
<1>1. /\ r \in Seq(Items)
      /\ Len(s) \in Nat
      /\ Len(r) = Len(s) + 1
      /\ \A k \in 1 .. Len(s) : r[k] = s[k]
      /\ r[Len(s) + 1] = x
  BY AppendProperties, LenProperties
<1> HIDE DEF r
<1>2. Increasing(r)
  <2> SUFFICES ASSUME NEW a \in 1 .. Len(r), NEW b \in 1 .. Len(r), a < b
               PROVE  r[a] < r[b]
    BY DEF Increasing
  <2>1. a \in 1 .. Len(s) /\ r[a] = s[a] /\ s[a] \in Members(s)
    BY <1>1 DEF Members
  <2>2. CASE b \in 1 .. Len(s)
    BY <1>1, <2>1, <2>2 DEF Increasing
  <2>3. CASE b = Len(s) + 1
    BY <1>1, <2>1, <2>3
  <2> QED BY <1>1, <2>2, <2>3
<1>3. Members(r) = Members(s) \cup {x}
  <2>1. 1 .. Len(r) = (1 .. Len(s)) \cup {Len(s) + 1}
    BY <1>1
  <2>2. \A k \in 1 .. Len(r) : r[k] \in Members(s) \cup {x}
    BY <1>1, <2>1 DEF Members
  <2>3. \A k \in 1 .. Len(s) : s[k] \in Members(r)
    BY <1>1, <2>1 DEF Members
  <2>4. x \in Members(r)
    BY <1>1, <2>1 DEF Members
  <2> QED BY <2>2, <2>3, <2>4 DEF Members
<1> QED BY <1>1, <1>2, <1>3 DEF r

(* What the pool's invariant says of the item being committed: its outcome *)
(* is its own, and the batch has not stopped.                              *)
LEMMA AtCommit == ASSUME IInv, CanCommit
                  PROVE  /\ next \in Items
                         /\ next + 1 \in 0 .. N
                         /\ pending[next] = outcome[next]
                         /\ ~stop
                         /\ mpc = "commit"
<1>1. next \in Items /\ next + 1 \in 0 .. N
  BY PoolAssumption DEF IInv, TypeOK, CanCommit, Items
<1>2. pending[next] = outcome[next]
  BY <1>1 DEF IInv, PendingInv, CanCommit
<1>3. ~stop
  BY DEF IInv, MainInv, CanCommit
<1> QED BY <1>1, <1>2, <1>3 DEF CanCommit

(* The parts of a plan.                                                    *)
LEMMA PlanTypes == ASSUME BatchTypeOK
                   PROVE  /\ plan.target \in [Items -> Targets]
                          /\ plan.placing \in [Items -> Placings]
                          /\ plan.keepGoing \in BOOLEAN
                          /\ plan.force \in BOOLEAN
  BY DEF BatchTypeOK, Plans

(* A commit fails only when the item is not good: its render failed, or    *)
(* creating, writing or renaming its file would.                           *)
LEMMA FailedIsBad == ASSUME BInv, CanCommit, FailedItem
                     PROVE  ~Good(next)
<1>1. pending[next] = outcome[next]
  BY AtCommit DEF BInv
<1> QED BY <1>1 DEF FailedItem, Good

(* The item being committed comes after all that are in a list, and no     *)
(* temp file but its own is there, or one that could not be removed.       *)
LEMMA NextIsLatest ==
    ASSUME BInv, CanCommit
    PROVE  /\ \A y \in Members(succeeded) : y < next
           /\ \A y \in Members(failed) : y \in Items /\ y < next
           /\ staged \ stuck \subseteq {next}
           /\ next \notin stuck
<1>1. ~stop /\ next \in Items
  BY AtCommit DEF BInv
<1>2. \A y \in Members(failed) : y \in Items /\ y < next
  BY <1>1 DEF BInv, OwnInv, VerdictInv
<1>3. next \notin stuck
  <2>1. next \in Members(failed) => next < next
    BY <1>2
  <2>2. ~(next < next)
    BY <1>1 DEF Items
  <2> QED BY <2>1, <2>2 DEF BInv, OwnInv, StagedInv
<1> QED BY <1>2, <1>3 DEF BInv, OwnInv, VerdictInv, StagedInv

(* A staged file that fits is that of an item to be written.              *)
LEMMA StagedIsGood == ASSUME BInv, CanCommit, next \in staged,
                             plan.placing[next] = "fits"
                      PROVE  Good(next)
<1>1. RxOpen
  BY DEF CanCommit, RxOpen
<1>2. pending[next] = "rendered"
  BY <1>1, NextIsLatest DEF BInv, OwnInv, StagedInv, InCommit, Abandoned
<1> QED BY <1>2, AtCommit DEF BInv, Good

-----------------------------------------------------------------------------
(* The initial state.                                                      *)
LEMMA InitBInv == BatchInit => BInv
<1> SUFFICES ASSUME BatchInit PROVE BInv
  OBVIOUS
<1>1. IInv
  BY InitIInv DEF BatchInit
<1>2. next = 0 /\ ~stop
  BY DEF BatchInit, Init
<1>3. BatchTypeOK
  <2>1. <<>> \in Seq(Items)
    BY EmptySeq
  <2>2. disk \in [Targets -> Items \cup {Absent, Old}]
    BY DEF BatchInit
  <2> QED BY <2>1, <2>2 DEF BatchInit, BatchTypeOK
<1>4. StagedInv /\ FailedUnwritten
  <2>1. Members(<<>>) = {}
    BY EmptySeq DEF Members
  <2> QED BY <2>1 DEF BatchInit, StagedInv, FailedUnwritten
<1>5. VerdictInv
  <2>1. Len(<<>>) = 0
    BY EmptySeq
  <2>2. Increasing(<<>>) /\ Members(<<>>) = {}
    BY <2>1 DEF Increasing, Members
  <2>3. \A i \in Items : ~(i < next)
    BY <1>2 DEF Items
  <2> QED BY <1>2, <2>2, <2>3 DEF BatchInit, VerdictInv
<1>6. StepInv /\ GuardInv
  BY <1>2 DEF BatchInit, Init, StepInv, GuardInv, RxOpen
<1>7. DiskInv
  <2>1. \A i \in Items, t \in Targets : ~Written(i, t)
    BY <1>2 DEF Items, Written
  <2> QED BY <2>1 DEF BatchInit, DiskInv, Before
<1> QED BY <1>1, <1>3, <1>4, <1>5, <1>6, <1>7 DEF BInv, OwnInv

-----------------------------------------------------------------------------
(* The inductive step.                                                     *)

(* A step that leaves alone what the batch has written and listed, the     *)
(* plan, and how far the pool has passed, and does not take the item away  *)
(* that is being committed, keeps the batch's invariant.                   *)
LEMMA BatchFrame ==
    ASSUME BInv, BatchTypeOK',
           UNCHANGED <<plan, disk, staged, stuck, succeeded, failed, step,
                       outcome, next, stop>>,
           CanCommit => UNCHANGED <<mpc, pending>>,
           RxOpen' <=> RxOpen,
           mpc \in {"done", "unwound"} => mpc' = mpc
    PROVE  OwnInv'
<1> USE DEF BInv, OwnInv
<1>1. StagedInv'
  <2>1. \A i : i = next /\ InCommit(i) => InCommit(i)'
    BY DEF InCommit, CanCommit
  <2>2. Abandoned => Abandoned'
    BY DEF Abandoned
  <2> QED BY <2>1, <2>2 DEF StagedInv, Members
<1>2. VerdictInv' /\ FailedUnwritten'
  BY DEF VerdictInv, Good, FailedUnwritten, Members
<1>3. StepInv' /\ GuardInv'
  BY DEF StepInv, GuardInv
<1>4. DiskInv'
  BY DEF DiskInv, Written, Before, Good
<1> QED BY <1>1, <1>2, <1>3, <1>4

(* The steps of the pool alone are such steps.                             *)
LEMMA PoolStepFrames ==
    ASSUME \/ Feed \/ FeedEnd \/ RecvResult \/ DrainResult \/ ResultsClosed
           \/ CommitWait \/ CloseJobs \/ ScopeUnwound
           \/ \E w \in Workers : WorkerStep(w)
    PROVE  /\ UNCHANGED <<outcome, next, stop>>
           /\ CanCommit => UNCHANGED <<mpc, pending>>
           /\ RxOpen' <=> RxOpen
           /\ mpc \in {"done", "unwound"} => mpc' = mpc
<1>1. CASE \E w \in Workers : WorkerStep(w)
  BY <1>1 DEF WorkerStep, LoadStop, LockJobs, RecvJob, RecvClosed, Work,
              SendResult, mainVars, RxOpen
<1>2. CASE Feed \/ FeedEnd
  BY <1>2 DEF Feed, FeedEnd, CanCommit, RxOpen
<1>3. CASE RecvResult \/ DrainResult \/ ResultsClosed
  BY <1>3 DEF RecvResult, DrainResult, ResultsClosed, mainVars, CanCommit,
              RxOpen
<1>4. CASE CommitWait \/ CloseJobs \/ ScopeUnwound
  BY <1>4 DEF CommitWait, CloseJobs, ScopeUnwound, CanCommit, RxOpen
<1> QED BY <1>1, <1>2, <1>3, <1>4

(* So are those of the pool and of a render within the batch.             *)
LEMMA PoolStepOwn == ASSUME BInv, PoolStep
                     PROVE  OwnInv'
<1>1. /\ UNCHANGED <<outcome, next, stop>>
      /\ CanCommit => UNCHANGED <<mpc, pending>>
      /\ RxOpen' <=> RxOpen
      /\ mpc \in {"done", "unwound"} => mpc' = mpc
  BY PoolStepFrames DEF PoolStep, WorkerStep
<1>2. UNCHANGED batchVars
  BY DEF PoolStep
<1>3. BatchTypeOK'
  BY <1>2 DEF BInv, OwnInv, BatchTypeOK, batchVars
<1> QED BY <1>1, <1>2, <1>3, BatchFrame DEF batchVars

LEMMA RenderOwn == ASSUME BInv, NEW w \in Workers, Render(w)
                   PROVE  OwnInv'
<1>1. /\ UNCHANGED <<outcome, next, stop>>
      /\ CanCommit => UNCHANGED <<mpc, pending>>
      /\ RxOpen' <=> RxOpen
      /\ mpc \in {"done", "unwound"} => mpc' = mpc
  BY PoolStepFrames DEF Render, WorkerStep
<1>2. UNCHANGED <<plan, disk, staged, stuck, succeeded, failed, step>>
  BY DEF Render
<1>3. witem[w] \in Items
  BY DEF Render, Work, BInv, IInv, HeldInv, Busy
<1>4. figures' \subseteq Items
  BY <1>3 DEF Render, BInv, OwnInv, BatchTypeOK
<1>5. BatchTypeOK'
  BY <1>2, <1>4 DEF BInv, OwnInv, BatchTypeOK
<1> QED BY <1>1, <1>2, <1>5, BatchFrame

(* What the guard has seen of the disk is what was there before the run.   *)
LEMMA GuardSeesBefore == ASSUME BInv, step = "plan"
                         PROVE  \A t \in Targets : disk[t] = Before(t)
<1>1. next = 0 /\ RxOpen
  BY DEF BInv, OwnInv, StepInv
<1>2. \A i \in Items, t \in Targets : ~Written(i, t)
  BY <1>1 DEF Items, Written
<1> QED BY <1>1, <1>2 DEF BInv, OwnInv, DiskInv

(* A step from one phase to the next keeps the rest of the invariant.      *)
LEMMA StepMoves ==
    ASSUME BInv, GuardInv', StepInv',
           step' \in {"plan", "pool", "refused", "reported", "panicked"},
           \A i \in staged \ stuck : i = next /\ Abandoned',
           UNCHANGED <<vars, plan, disk, staged, stuck, figures, succeeded,
                       failed>>
    PROVE  OwnInv'
<1> USE DEF BInv, OwnInv, vars
<1>1. BatchTypeOK'
  BY DEF BatchTypeOK
<1>2. StagedInv'
  BY DEF StagedInv, Members
<1>3. VerdictInv' /\ FailedUnwritten'
  BY DEF VerdictInv, Good, FailedUnwritten, Members
<1>4. DiskInv'
  BY DEF DiskInv, Written, Before, Good, RxOpen
<1> QED BY <1>1, <1>2, <1>3, <1>4

(* No temp file is there before the pool runs.                            *)
LEMMA NoneStagedYet == ASSUME BInv, step = "plan"
                       PROVE  staged \ stuck = {}
  BY DEF BInv, OwnInv, StagedInv, InCommit, Abandoned

LEMMA PlanOwn == ASSUME BInv, Refuse \/ StartPool
                 PROVE  OwnInv'
<1> USE DEF BInv, OwnInv
<1>1. CASE Refuse
  <2>1. step = "plan" /\ step' = "refused"
    BY <1>1 DEF Refuse
  <2>2. UNCHANGED <<vars, plan, disk, staged, stuck, figures, succeeded,
                    failed>>
    BY <1>1 DEF Refuse
  <2>3. StepInv' /\ GuardInv'
    BY <2>1, <2>2 DEF StepInv, GuardInv, vars, RxOpen
  <2> QED BY <2>1, <2>2, <2>3, NoneStagedYet, StepMoves
<1>2. CASE StartPool
  <2>1. step = "plan" /\ step' = "pool" /\ ~Collides /\ ~GuardFails
    BY <1>2 DEF StartPool
  <2>2. UNCHANGED <<vars, plan, disk, staged, stuck, figures, succeeded,
                    failed>>
    BY <1>2 DEF StartPool
  <2>3. StepInv'
    BY <2>1 DEF StepInv
  <2>4. ASSUME ~plan.force, NEW i \in Items
        PROVE  plan.target[i] \notin plan.existing
    <3>1. plan.target[i] \in Targets
      BY PlanTypes
    <3>2. disk[plan.target[i]] = Absent
      BY <2>1, <2>4 DEF GuardFails
    <3> QED BY <2>1, <3>1, <3>2, GuardSeesBefore DEF Before, Absent, Old
  <2>5. GuardInv'
    BY <2>1, <2>2, <2>4 DEF GuardInv, Collides, GuardFails
  <2> QED BY <2>1, <2>2, <2>3, <2>5, NoneStagedYet, StepMoves
<1> QED BY <1>1, <1>2

LEMMA StageOwn == ASSUME BInv, StageMarkdown
                  PROVE  OwnInv'
<1> USE DEF BInv, OwnInv, vars
<1>1. next \in Items
  BY AtCommit DEF StageMarkdown
<1>2. UNCHANGED <<vars, plan, disk, stuck, figures, succeeded, failed, step>>
  BY DEF StageMarkdown
<1>3. BatchTypeOK'
  BY <1>1, <1>2 DEF BatchTypeOK, StageMarkdown
<1>4. StagedInv'
  <2>1. InCommit(next)'
    BY <1>2 DEF StageMarkdown, InCommit, CanCommit
  <2>2. staged \ stuck \subseteq {next}
    BY NextIsLatest DEF StageMarkdown
  <2>3. staged' \ stuck' \subseteq {next'}
    BY <1>2, <2>2 DEF StageMarkdown
  <2>4. stuck' \subseteq Members(failed)'
    BY <1>2 DEF StagedInv, Members
  <2> QED BY <1>2, <2>1, <2>3, <2>4 DEF StagedInv
<1>5. VerdictInv' /\ FailedUnwritten'
  BY <1>2 DEF VerdictInv, Good, FailedUnwritten, Members
<1>6. StepInv' /\ GuardInv'
  BY <1>2 DEF StepInv, GuardInv, RxOpen
<1>7. DiskInv'
  BY <1>2 DEF DiskInv, Written, Before, Good, RxOpen
<1> QED BY <1>3, <1>4, <1>5, <1>6, <1>7

(* When the pool has returned, or has been unwound, the batch is over, and *)
(* no temp file is there that the batch had yet to deal with, unless its   *)
(* commit panicked.                                                        *)
LEMMA EndOwn == ASSUME BInv, Report \/ PanicLeaves
                PROVE  OwnInv'
<1> USE DEF BInv, OwnInv
<1>1. /\ step = "pool"
      /\ UNCHANGED <<vars, plan, disk, staged, stuck, figures, succeeded,
                     failed>>
      /\ \/ mpc = "done" /\ step' = "reported"
         \/ mpc = "unwound" /\ step' = "panicked"
  BY DEF Report, PanicLeaves
<1>2. StepInv' /\ GuardInv'
  BY <1>1 DEF StepInv, GuardInv, vars
<1>3. \A i \in staged \ stuck : i = next /\ Abandoned'
  BY <1>1 DEF StagedInv, InCommit, Abandoned, CanCommit, RxOpen, vars
<1> QED BY <1>1, <1>2, <1>3, StepMoves

(* An item that is not on its list yet, and nothing is on its target.      *)
LEMMA TargetIsFree ==
    ASSUME BInv, step = "pool", CanCommit
    PROVE  /\ disk[plan.target[next]] # next
           /\ \A i \in Members(failed) :
                 i \in Items /\ i # next /\ plan.target[i] # plan.target[next]
<1> USE DEF BInv, OwnInv
<1>1. next \in Items /\ next \in Nat /\ ~(next < next) /\ RxOpen
  BY AtCommit DEF Items, CanCommit, RxOpen
<1>2. \A i \in Items : ~Written(i, plan.target[next])
  BY <1>1 DEF Written, GuardInv
<1>3. plan.target[next] \in Targets
  BY <1>1, PlanTypes
<1>4. disk[plan.target[next]] = Before(plan.target[next])
  BY <1>1, <1>2, <1>3 DEF DiskInv
<1>5. Before(plan.target[next]) # next
  BY <1>1 DEF Before, Old, Absent
<1>6. ASSUME NEW i \in Members(failed)
      PROVE  i \in Items /\ i # next /\ plan.target[i] # plan.target[next]
  <2>1. i \in Items /\ i < next
    BY NextIsLatest
  <2>2. i # next
    BY <1>1, <2>1
  <2> QED BY <1>1, <2>1, <2>2 DEF GuardInv
<1> QED BY <1>4, <1>5, <1>6

(* The item is written: it joins the successes, and its target, which no   *)
(* other item has, holds it.                                               *)
LEMMA RenameOwn == ASSUME BInv, RenameMarkdown
                   PROVE  OwnInv'
<1> USE DEF BInv, OwnInv
<1>1. CanCommit /\ Good(next) /\ step = "pool"
  BY StagedIsGood DEF RenameMarkdown, Placed, CommitGo
<1>2. /\ next \in Items /\ next + 1 \in 0 .. N /\ ~stop
      /\ next' = next + 1 /\ UNCHANGED <<outcome, stop>>
  BY <1>1, AtCommit DEF RenameMarkdown, CommitGo
<1>3. /\ UNCHANGED <<plan, stuck, figures, failed, step>>
      /\ staged' = staged \ {next}
      /\ succeeded' = Append(succeeded, next)
      /\ disk' = [disk EXCEPT ![plan.target[next]] = next]
  BY DEF RenameMarkdown, Placed
<1>4. \A i \in Items : Good(i)' <=> Good(i)
  BY <1>2, <1>3 DEF Good
<1>5. \A i \in Items : i < next' <=> i < next \/ i = next
  BY <1>2 DEF Items
<1>6. plan.target[next] \in Targets
  BY <1>2, PlanTypes
<1>7. /\ succeeded' \in Seq(Items)
      /\ Increasing(succeeded')
      /\ Members(succeeded') = Members(succeeded) \cup {next}
  <2>1. Increasing(succeeded) /\ succeeded \in Seq(Items)
    BY DEF VerdictInv, BatchTypeOK
  <2> QED BY <1>1, <1>2, <1>3, <2>1, NextIsLatest, AppendGreatest
<1>8. BatchTypeOK'
  <2>1. disk' \in [Targets -> Items \cup {Absent, Old}]
    BY <1>2, <1>3 DEF BatchTypeOK
  <2>2. stuck' \subseteq staged'
    BY <1>1, <1>3, NextIsLatest DEF BatchTypeOK
  <2> QED BY <1>3, <1>7, <2>1, <2>2 DEF BatchTypeOK
<1>9. StagedInv'
  <2>1. staged' \ stuck' = {}
    BY <1>1, <1>3, NextIsLatest
  <2>2. stuck' \subseteq Members(failed)'
    BY <1>3 DEF StagedInv, Members
  <2> QED BY <2>1, <2>2 DEF StagedInv
<1>10. VerdictInv'
  <2>1. Increasing(succeeded)'
    BY <1>7 DEF Increasing
  <2>2. Members(succeeded)' = {i \in Items : i < next' /\ Good(i)'}
    <3>1. Members(succeeded)' = Members(succeeded) \cup {next}
      BY <1>7 DEF Members
    <3>2. Members(succeeded) = {i \in Items : i < next /\ Good(i)}
      BY DEF VerdictInv
    <3> QED BY <1>1, <1>2, <1>4, <1>5, <3>1, <3>2
  <2>3. Increasing(failed)' /\ Members(failed)' = Members(failed)
    BY <1>3 DEF VerdictInv, Increasing, Members
  <2>4. Members(failed)' =
           {i \in Items : ~Good(i)' /\ (i < next' \/ (stop' /\ i = next'))}
    <3>1. Members(failed) =
             {i \in Items : ~Good(i) /\ (i < next \/ (stop /\ i = next))}
      BY DEF VerdictInv
    <3> QED BY <1>1, <1>2, <1>4, <1>5, <2>3, <3>1
  <2>5. ~plan'.keepGoing => \A j \in Items : j < next' => Good(j)'
    BY <1>1, <1>3, <1>4, <1>5 DEF VerdictInv
  <2> QED BY <1>2, <2>1, <2>2, <2>3, <2>4, <2>5 DEF VerdictInv
<1>11. StepInv' /\ GuardInv' /\ RxOpen /\ RxOpen'
  BY <1>1, <1>3 DEF StepInv, GuardInv, RxOpen, RenameMarkdown, CommitGo,
                    CanCommit
<1>12. DiskInv' /\ FailedUnwritten'
  <2>1. \A i \in Items, t \in Targets :
           Written(i, t)' <=> Written(i, t) \/ (i = next /\ plan.target[next] = t)
    BY <1>1, <1>3, <1>4, <1>5 DEF Written
  <2>2. \A i \in Items : plan.target[i] = plan.target[next] => i = next
    BY <1>1, <1>2 DEF GuardInv
  <2>3. \A t \in Targets : disk'[t] = IF t = plan.target[next] THEN next
                                      ELSE disk[t]
    BY <1>3 DEF BatchTypeOK
  <2>4. FailedUnwritten'
    <3>1. Members(failed)' = Members(failed)
      BY <1>3 DEF Members
    <3>2. \A i \in Members(failed) : disk'[plan.target[i]] = disk[plan.target[i]]
      BY <1>1, <2>3, TargetIsFree, PlanTypes
    <3> QED BY <1>3, <3>1, <3>2 DEF FailedUnwritten
  <2> SUFFICES ASSUME NEW t \in Targets
               PROVE  /\ \A i \in Items : Written(i, t)' => disk'[t] = i
                      /\ (\A i \in Items : ~Written(i, t)') =>
                            disk'[t] = Before(t)'
    BY <2>4 DEF DiskInv
  <2>5. Before(t)' = Before(t)
    BY <1>3 DEF Before
  <2>6. CASE t = plan.target[next]
    <3>1. \A i \in Items : Written(i, t)' => i = next
      BY <2>1, <2>2, <2>6 DEF Written
    <3>2. \E i \in Items : Written(i, t)'
      BY <1>2, <2>1, <2>6
    <3> QED BY <1>2, <2>3, <2>6, <3>1, <3>2
  <2>7. CASE t # plan.target[next]
    <3>1. disk'[t] = disk[t]
      BY <2>3, <2>7
    <3>2. \A i \in Items : Written(i, t)' <=> Written(i, t)
      BY <2>1, <2>7
    <3> QED BY <1>11, <2>5, <3>1, <3>2 DEF DiskInv
  <2> QED BY <2>6, <2>7
<1> QED BY <1>8, <1>9, <1>10, <1>11, <1>12

(* The item is given up: it joins the errors, its temp file is gone or     *)
(* stuck, and the batch goes on past it or stops at it.                    *)
LEMMA FailureOwn == ASSUME BInv, CommitFailure
                    PROVE  OwnInv'
<1> USE DEF BInv, OwnInv
<1>1. CanCommit /\ ~Good(next) /\ step = "pool"
  BY FailedIsBad DEF CommitFailure
<1>2. /\ next \in Items /\ next + 1 \in 0 .. N /\ ~stop /\ outcome' = outcome
      /\ \/ plan.keepGoing /\ next' = next + 1 /\ stop' = stop
         \/ ~plan.keepGoing /\ next' = next /\ stop' = TRUE
  BY <1>1, AtCommit DEF CommitFailure, CommitGo, CommitStop
<1>3. /\ UNCHANGED <<plan, disk, figures, succeeded, step>>
      /\ failed' = Append(failed, next)
  BY DEF CommitFailure
<1>4. \A i \in Items : Good(i)' <=> Good(i)
  BY <1>2, <1>3 DEF Good
<1>5. /\ failed' \in Seq(Items)
      /\ Increasing(failed')
      /\ Members(failed') = Members(failed) \cup {next}
  <2>1. Increasing(failed) /\ failed \in Seq(Items)
    BY DEF VerdictInv, BatchTypeOK
  <2> QED BY <1>1, <1>2, <1>3, <2>1, NextIsLatest, AppendGreatest
<1>6. /\ staged' \subseteq Items
      /\ stuck' \subseteq staged'
      /\ stuck' \subseteq stuck \cup {next}
      /\ staged' \ stuck' = {}
  <2>1. staged \ stuck \subseteq {next} /\ next \notin stuck
    BY <1>1, NextIsLatest
  <2>2. staged \subseteq Items /\ stuck \subseteq staged
    BY DEF BatchTypeOK
  <2> QED BY <2>1, <2>2 DEF CommitFailure, RemoveTemp
<1>7. BatchTypeOK'
  BY <1>3, <1>5, <1>6 DEF BatchTypeOK
<1>8. StagedInv'
  <2>1. Members(failed)' = Members(failed) \cup {next}
    BY <1>5 DEF Members
  <2> QED BY <1>6, <2>1 DEF StagedInv
<1>9. \A i \in Items : i < next' \/ (stop' /\ i = next') <=> i < next \/ i = next
  BY <1>2 DEF Items
<1>10. \A i \in Items : Good(i) => (i < next' <=> i < next)
  BY <1>1, <1>2 DEF Items
<1>11. VerdictInv'
  <2>1. Increasing(succeeded)' /\ Members(succeeded)' = Members(succeeded)
    BY <1>3 DEF VerdictInv, Increasing, Members
  <2>2. Members(succeeded)' = {i \in Items : i < next' /\ Good(i)'}
    <3>1. Members(succeeded) = {i \in Items : i < next /\ Good(i)}
      BY DEF VerdictInv
    <3> QED BY <1>4, <1>10, <2>1, <3>1
  <2>3. Increasing(failed)'
    BY <1>5 DEF Increasing
  <2>4. Members(failed)' =
           {i \in Items : ~Good(i)' /\ (i < next' \/ (stop' /\ i = next'))}
    <3>1. Members(failed) =
             {i \in Items : ~Good(i) /\ (i < next \/ (stop /\ i = next))}
      BY DEF VerdictInv
    <3>2. Members(failed)' = Members(failed) \cup {next}
      BY <1>5 DEF Members
    <3> QED BY <1>1, <1>2, <1>4, <1>9, <3>1, <3>2
  <2>5. ~plan'.keepGoing => \A j \in Items : j < next' => Good(j)'
    BY <1>2, <1>3, <1>4 DEF VerdictInv
  <2>6. stop' => next' \in Items /\ ~plan'.keepGoing /\ ~Good(next)'
    BY <1>1, <1>2, <1>3, <1>4 DEF Good
  <2> QED BY <2>1, <2>2, <2>3, <2>4, <2>5, <2>6 DEF VerdictInv
<1>12. StepInv' /\ GuardInv' /\ RxOpen
  BY <1>1, <1>3 DEF StepInv, GuardInv, CanCommit, RxOpen
<1>13. DiskInv' /\ FailedUnwritten'
  <2>1. \A i \in Items, t \in Targets : Written(i, t)' <=> Written(i, t)
    BY <1>3, <1>4, <1>10 DEF Written
  <2>2. DiskInv'
    BY <1>3, <1>12, <2>1 DEF DiskInv, Before
  <2>3. Members(failed)' = Members(failed) \cup {next}
    BY <1>5 DEF Members
  <2> QED BY <1>1, <1>3, <2>2, <2>3, TargetIsFree DEF FailedUnwritten
<1> QED BY <1>7, <1>8, <1>11, <1>12, <1>13

(* A commit that panics leaves its temp file, or its item on the target,   *)
(* and passes nothing.                                                     *)
LEMMA PanicOwn == ASSUME BInv, CommitPanics
                  PROVE  OwnInv'
<1> USE DEF BInv, OwnInv
<1>1. /\ CanCommit /\ step = "pool" /\ ~RxOpen'
      /\ UNCHANGED <<outcome, next, stop>>
      /\ UNCHANGED <<plan, stuck, figures, succeeded, failed, step>>
  BY DEF CommitPanics, CommitPanic, RxOpen
<1>2. next \in Items /\ next \notin stuck /\ staged \ stuck \subseteq {next}
  BY <1>1, AtCommit, NextIsLatest
<1>3. /\ staged' \subseteq staged
      /\ stuck' \subseteq staged'
      /\ disk' \in [Targets -> Items \cup {Absent, Old}]
      /\ \A t \in Targets : t # plan.target[next] => disk'[t] = disk[t]
  BY <1>1, <1>2 DEF CommitPanics, Placed, BatchTypeOK
<1>4. BatchTypeOK'
  BY <1>1, <1>3 DEF BatchTypeOK
<1>5. StagedInv'
  <2>1. Abandoned'
    BY <1>1 DEF Abandoned
  <2>2. stuck' \subseteq Members(failed)'
    BY <1>1 DEF StagedInv, Members
  <2>3. \A i \in staged' \ stuck' : i = next'
    BY <1>1, <1>2, <1>3
  <2> QED BY <2>1, <2>2, <2>3 DEF StagedInv
<1>6. VerdictInv'
  BY <1>1 DEF VerdictInv, Good
<1>7. StepInv' /\ GuardInv' /\ DiskInv'
  BY <1>1 DEF StepInv, GuardInv, DiskInv
<1>8. FailedUnwritten'
  <2>1. Members(failed)' = Members(failed)
    BY <1>1 DEF Members
  <2>2. \A i \in Members(failed) : disk'[plan.target[i]] = disk[plan.target[i]]
    BY <1>1, <1>3, TargetIsFree, PlanTypes
  <2> QED BY <1>1, <2>1, <2>2 DEF FailedUnwritten
<1> QED BY <1>4, <1>5, <1>6, <1>7, <1>8

LEMMA NextBInv == ASSUME BInv, [BatchNext]_allVars
                  PROVE  BInv'
<1>1. IInv'
  BY BatchStepsPool, NextIInv DEF BInv
<1>2. ASSUME UNCHANGED allVars
      PROVE  OwnInv'
  <2>1. BatchTypeOK'
    BY <1>2 DEF BInv, OwnInv, BatchTypeOK, allVars, batchVars
  <2>2. /\ CanCommit => UNCHANGED <<mpc, pending>>
        /\ RxOpen' <=> RxOpen
    BY <1>2 DEF allVars, vars, RxOpen
  <2> QED BY <1>2, <2>1, <2>2, BatchFrame DEF allVars, batchVars, vars
<1>3. OwnInv'
  BY <1>2, PlanOwn, RenderOwn, PoolStepOwn, StageOwn, RenameOwn, FailureOwn,
     PanicOwn, EndOwn DEF BatchNext, BatchOver
<1> QED BY <1>1, <1>3 DEF BInv

(* The batch's inductive invariant, with the pool's inside it, holds       *)
(* throughout.                                                             *)
THEOREM BatchInvariant == BatchSpec => []BInv
  BY InitBInv, NextBInv, PTL DEF BatchSpec

-----------------------------------------------------------------------------
(* What the run owes is, at the report, what it has passed and found good. *)
LEMMA DueIsPassed ==
    ASSUME BInv, step = "reported", NEW i \in Items
    PROVE  /\ Due(i) <=> i < next /\ Good(i)
           /\ (/\ ~Good(i)
               /\ plan.keepGoing \/ \A j \in 0 .. i - 1 : Good(j))
              <=> ~Good(i) /\ (i < next \/ (stop /\ i = next))
<1> USE DEF BInv, OwnInv
<1>1. next \in 0 .. N /\ N \in Nat /\ i \in 0 .. N - 1
  BY PoolAssumption DEF IInv, TypeOK, Items
<1>2. ~stop => next = N
  BY DEF StepInv, IInv, MainInv
<1>3. /\ ~plan.keepGoing => \A j \in 0 .. N - 1 : j < next => Good(j)
      /\ stop => next \in 0 .. N - 1 /\ ~plan.keepGoing /\ ~Good(next)
  BY DEF VerdictInv, Items
<1>4. stop \in BOOLEAN
  BY DEF IInv, TypeOK
<1>5. CASE ~stop
  BY <1>1, <1>2, <1>3, <1>5 DEF Due
<1>6. CASE stop
  <2>1. \A j \in 0 .. i - 1 : j < next => Good(j)
    BY <1>1, <1>3, <1>6
  <2>2. (\A j \in 0 .. i - 1 : Good(j)) <=> i <= next
    BY <1>1, <1>3, <1>6, <2>1
  <2> QED BY <1>1, <1>3, <1>6, <2>2 DEF Due
<1> QED BY <1>5, <1>6

(* "what lands on disk is deterministic however the renders overlapped":   *)
(* after the report each target holds the Markdown due there, or what it   *)
(* held before the run, for every number of inputs and jobs and any plan   *)
(* (run and commit_one in cmd_extract.rs).                                 *)
THEOREM BatchDisk == BatchSpec => []DiskIsDeterministic
<1>1. ASSUME BInv
      PROVE  DiskIsDeterministic
  <2> USE <1>1 DEF BInv, OwnInv
  <2> SUFFICES ASSUME step = "reported", NEW t \in Targets
               PROVE  disk[t] =
                         IF \E i \in Items : plan.target[i] = t /\ Due(i)
                           THEN CHOOSE i \in Items : plan.target[i] = t
                           ELSE IF t \in plan.existing THEN Old ELSE Absent
    BY DEF DiskIsDeterministic
  <2>1. \A i \in Items : plan.target[i] = t /\ Due(i) <=> Written(i, t)
    BY DueIsPassed DEF Written
  <2>2. RxOpen
    BY DEF StepInv, RxOpen
  <2>3. CASE \E i \in Items : plan.target[i] = t /\ Due(i)
    <3>1. PICK i \in Items : plan.target[i] = t /\ Due(i)
      BY <2>3
    <3>2. disk[t] = i
      BY <2>1, <2>2, <3>1 DEF DiskInv
    <3>3. \A j \in Items : plan.target[j] = t => j = i
      BY <3>1 DEF GuardInv
    <3>4. (CHOOSE j \in Items : plan.target[j] = t) = i
      BY <3>1, <3>3
    <3> QED BY <2>3, <3>2, <3>4
  <2>4. CASE ~\E i \in Items : plan.target[i] = t /\ Due(i)
    BY <2>1, <2>2, <2>4 DEF DiskInv, Before
  <2> QED BY <2>3, <2>4
<1> QED BY <1>1, BatchInvariant, PTL

(* "--keep-going commits every input and reports every error together with *)
(* every success", each once and in input order; without it the one error  *)
(* reported is that of the first bad input in input order (run in          *)
(* cmd_extract.rs).                                                        *)
THEOREM BatchVerdict == BatchSpec => []VerdictIsComplete
<1>1. ASSUME BInv
      PROVE  VerdictIsComplete
  <2> USE <1>1 DEF BInv, OwnInv
  <2> SUFFICES ASSUME step = "reported"
               PROVE  /\ Increasing(succeeded)
                      /\ Members(succeeded) = {i \in Items : Due(i)}
                      /\ Increasing(failed)
                      /\ Members(failed) =
                            {i \in Items :
                               /\ ~Good(i)
                               /\ \/ plan.keepGoing
                                  \/ \A j \in 0 .. i - 1 : Good(j)}
    BY DEF VerdictIsComplete
  <2>1. Members(succeeded) = {i \in Items : Due(i)}
    BY DueIsPassed DEF VerdictInv
  <2>2. Members(failed) =
           {i \in Items : /\ ~Good(i)
                          /\ plan.keepGoing \/ \A j \in 0 .. i - 1 : Good(j)}
    BY DueIsPassed DEF VerdictInv
  <2> QED BY <2>1, <2>2 DEF VerdictInv
<1> QED BY <1>1, BatchInvariant, PTL

(* At every moment, and so wherever the batch stops, panics or is killed,  *)
(* a temp file beside a target is one the system refused to remove, whose  *)
(* item is reported as an error and is not on its target, or that of the   *)
(* one item whose commit is under way or panicked (commit_one and          *)
(* stage_file_pair drop the error of remove_file).                         *)
THEOREM BatchLeavesNoTemp == BatchSpec => []NoTempFileLeft
<1>1. ASSUME BInv
      PROVE  NoTempFileLeft
  <2> USE <1>1 DEF BInv, OwnInv
  <2>1. \A i \in stuck : i \in Members(failed) /\ disk[plan.target[i]] # i
    BY DEF StagedInv, FailedUnwritten
  <2>2. \A i \in staged \ stuck : i = next /\ step \in {"pool", "panicked"}
    BY DEF StagedInv, InCommit, Abandoned
  <2> QED BY <2>1, <2>2 DEF NoTempFileLeft
<1> QED BY <1>1, BatchInvariant, PTL

(* A target is written at most once in a run, a file that was there before *)
(* only with --force, and an input never (the guard of run in              *)
(* cmd_extract.rs and the renames of its commit closures).                 *)
THEOREM BatchOverwrites == BatchSpec => OverwritesOnlyByForce
<1>1. ASSUME BInv, [BatchNext]_allVars, NEW t \in Targets, disk'[t] # disk[t]
      PROVE  \/ disk[t] = Absent
             \/ disk[t] = Old /\ plan.force /\ t \notin plan.protected
  <2> USE <1>1 DEF BInv, OwnInv
  <2>1. (RenameMarkdown \/ CommitPanics) /\ Placed
    BY DEF BatchNext, Refuse, StartPool, Render, PoolStep, StageMarkdown,
           RenameMarkdown, CommitFailure, CommitPanics, Report, PanicLeaves,
           BatchOver, allVars, batchVars
  <2>2. step = "pool" /\ CanCommit /\ RxOpen
    BY <2>1 DEF RenameMarkdown, CommitGo, CommitPanics, CommitPanic, CanCommit,
                RxOpen
  <2>3. next \in Items /\ next \in Int
    BY <2>2, AtCommit DEF Items
  <2>4. t = plan.target[next]
    BY <2>1 DEF Placed, BatchTypeOK
  <2>5. \A i \in Items : ~Written(i, t)
    BY <2>2, <2>3, <2>4 DEF Written, GuardInv
  <2>6. disk[t] = Before(t)
    BY <2>2, <2>5 DEF DiskInv
  <2>7. t \notin plan.protected /\ (~plan.force => t \notin plan.existing)
    BY <2>2, <2>3, <2>4 DEF GuardInv
  <2>8. plan.force \in BOOLEAN
    BY PlanTypes
  <2> QED BY <2>6, <2>7, <2>8 DEF Before
<1>2. BInv /\ [BatchNext]_allVars =>
         [\A t \in Targets : disk'[t] # disk[t] =>
             \/ disk[t] = Absent
             \/ disk[t] = Old /\ plan.force /\ t \notin plan.protected]_allVars
  BY <1>1
<1> QED BY <1>2, BatchInvariant, PTL DEF BatchSpec, OverwritesOnlyByForce
==============================================================================
