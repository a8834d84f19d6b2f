----------------------------- MODULE ExtractBatch ----------------------------
(***************************************************************************)
(* The batch of the `extract` command around its pool (run, render_one and *)
(* commit_one in crates/pdfluent-cli/src/cmd_extract.rs, guard_failure and *)
(* stage_file_pair in input.rs): every target is planned and guarded       *)
(* before the first byte is read, workers render, the main thread stages   *)
(* each Markdown file beside its target and renames it into place, in      *)
(* input order, and one verdict is reported.                               *)
(*                                                                         *)
(* An item's outcome is whether its render succeeds; a panic is a failure  *)
(* (on_panic).  `placing` is what its commit meets on disk, where removing *)
(* a temp file may fail as well, and a commit may panic.  Writing to files *)
(* is modelled; the stdout mode has a single item and no target.           *)
(***************************************************************************)
EXTENDS ExtractPool

CONSTANT Targets      \* output paths, NFC-normalised and casefolded

(* What a target holds: nothing, a file from before the run, or the        *)
(* Markdown of the item with that number.                                  *)
Absent == -1
Old == -2

(* Where writing an item fails: nowhere, or as its temp file is created,   *)
(* written or renamed onto the target.                                     *)
Placings == {"fits", "create_fails", "write_fails", "rename_fails"}

ASSUME BatchAssumption == Outcomes = {"rendered", "failed"}

VARIABLES plan,       \* what the command line and the disk fix for the run
          disk,       \* target -> Absent, Old or the item written there
          staged,     \* items whose temp file lies beside its target
          stuck,      \* items whose temp file the program failed to remove
          figures,    \* items with figure files under the images directory
          succeeded,  \* the `results` vector of run: items, in commit order
          failed,     \* `errors`, or the one `first_error`
          step        \* "plan", "pool", "refused", "reported" or "panicked"

batchVars == <<plan, disk, staged, stuck, figures, succeeded, failed, step>>
allVars == <<vars, batchVars>>

Plans == [target    : [Items -> Targets],
          existing  : SUBSET Targets,
          protected : SUBSET Targets,    \* directories, and the inputs themselves
          placing   : [Items -> Placings],
          keepGoing : BOOLEAN,
          force     : BOOLEAN,
          imagesDir : BOOLEAN]

BatchInit == /\ Init
             /\ plan \in Plans
             /\ plan.protected \subseteq plan.existing
             /\ disk = [t \in Targets |->
                          IF t \in plan.existing THEN Old ELSE Absent]
             /\ staged = {}
             /\ stuck = {}
             /\ figures = {}
             /\ succeeded = <<>>
             /\ failed = <<>>
             /\ step = "plan"

-----------------------------------------------------------------------------
(* Mutant of Collides: compares neighbours only.                           *)
CollidesNextTo == \E i \in Items : i > 0 /\ plan.target[i] = plan.target[i - 1]

(* Two inputs with one output file, then an output that is a directory or  *)
(* an input, or that exists without --force, refuse the batch before       *)
(* anything is read.                                                       *)
Collides == \E i, j \in Items : i # j /\ plan.target[i] = plan.target[j]

GuardFails ==
    \E i \in Items : \/ plan.target[i] \in plan.protected
                     \/ ~plan.force /\ disk[plan.target[i]] # Absent

Refuse == /\ step = "plan"
          /\ Collides \/ GuardFails
          /\ step' = "refused"
          /\ UNCHANGED <<vars, plan, disk, staged, stuck, figures, succeeded,
                         failed>>

StartPool == /\ step = "plan"
             /\ ~Collides
             /\ ~GuardFails
             /\ step' = "pool"
             /\ UNCHANGED <<vars, plan, disk, staged, stuck, figures, succeeded,
                            failed>>

(* render_one: with --images dir the engine writes the item's figures, if  *)
(* it has any, as it renders; a render may also fail after some of them.   *)
Render(w) == /\ step = "pool"
             /\ Work(w)
             /\ \/ figures' = figures
                \/ plan.imagesDir /\ figures' = figures \cup {witem[w]}
             /\ UNCHANGED <<plan, disk, staged, stuck, succeeded, failed, step>>

(* The steps of the pool that touch nothing outside it.                    *)
PoolStep == /\ step = "pool"
            /\ \/ Feed \/ FeedEnd \/ RecvResult \/ DrainResult \/ ResultsClosed
               \/ CommitWait \/ CloseJobs \/ ScopeUnwound
               \/ \E w \in Workers : \/ LoadStop(w) \/ LockJobs(w) \/ RecvJob(w)
                                     \/ RecvClosed(w) \/ SendResult(w)
            /\ UNCHANGED batchVars

-----------------------------------------------------------------------------
(* The commit closures of run.                                             *)

(* temp_sibling in stage_file_pair: create_new, before a byte is written.  *)
StageMarkdown == /\ step = "pool"
                 /\ CanCommit
                 /\ pending[next] = "rendered"
                 /\ next \notin staged
                 /\ plan.placing[next] # "create_fails"
                 /\ staged' = staged \cup {next}
                 /\ UNCHANGED <<vars, plan, disk, stuck, figures, succeeded,
                                failed, step>>

(* The temp file was written and renamed onto its target.                  *)
Placed == /\ next \in staged
          /\ plan.placing[next] = "fits"
          /\ disk' = [disk EXCEPT ![plan.target[next]] = next]
          /\ staged' = staged \ {next}

RenameMarkdown == /\ step = "pool"
                  /\ Placed
                  /\ succeeded' = Append(succeeded, next)
                  /\ CommitGo
                  /\ UNCHANGED <<plan, stuck, figures, failed, step>>

(* The render failed, or creating the temp file did, or writing or         *)
(* renaming the file that was created.                                     *)
FailedItem ==
    \/ pending[next] = "failed"
    \/ plan.placing[next] = "create_fails"
    \/ next \in staged /\ plan.placing[next] \in {"write_fails", "rename_fails"}

(* Mutant of RemoveTemp: leaves the temp file where it is.                 *)
RemoveNothing == UNCHANGED <<staged, stuck>>

(* remove_file on the temp file, if there is one; its error is dropped.    *)
RemoveTemp == \/ staged' = staged \ {next} /\ stuck' = stuck
              \/ /\ next \in staged
                 /\ stuck' = stuck \cup {next}
                 /\ staged' = staged

(* Mutants of CommitFailure: goes on without --keep-going; stops despite   *)
(* it.                                                                     *)
CommitFailureGoesOn == /\ step = "pool"
                       /\ CanCommit
                       /\ FailedItem
                       /\ RemoveTemp
                       /\ failed' = Append(failed, next)
                       /\ CommitGo
                       /\ UNCHANGED <<plan, disk, figures, succeeded, step>>

CommitFailureStops == /\ step = "pool"
                      /\ CanCommit
                      /\ FailedItem
                      /\ RemoveTemp
                      /\ failed' = Append(failed, next)
                      /\ CommitStop
                      /\ UNCHANGED <<plan, disk, figures, succeeded, step>>

(* The error is recorded; --keep-going goes on, the default stops.         *)
CommitFailure == /\ step = "pool"
                 /\ CanCommit
                 /\ FailedItem
                 /\ RemoveTemp
                 /\ failed' = Append(failed, next)
                 /\ IF plan.keepGoing THEN CommitGo ELSE CommitStop
                 /\ UNCHANGED <<plan, disk, figures, succeeded, step>>

(* A commit that panics, before its temp file is created, with the file    *)
(* beside the target, or once it is renamed (`verbose` prints then), skips *)
(* what was left to do: removing the file, and recording the item.         *)
CommitPanics == /\ step = "pool"
                /\ CommitPanic
                /\ Placed \/ UNCHANGED <<disk, staged>>
                /\ UNCHANGED <<plan, stuck, figures, succeeded, failed, step>>

Report == /\ step = "pool"
          /\ mpc = "done"
          /\ step' = "reported"
          /\ UNCHANGED <<vars, plan, disk, staged, stuck, figures, succeeded,
                         failed>>

(* The scope has joined its threads, and the panic leaves run.             *)
PanicLeaves == /\ step = "pool"
               /\ mpc = "unwound"
               /\ step' = "panicked"
               /\ UNCHANGED <<vars, plan, disk, staged, stuck, figures,
                              succeeded, failed>>

Over == step \in {"refused", "reported", "panicked"}

BatchOver == Over /\ UNCHANGED allVars

BatchNext == \/ Refuse
             \/ StartPool
             \/ \E w \in Workers : Render(w)
             \/ PoolStep
             \/ StageMarkdown
             \/ RenameMarkdown
             \/ CommitFailure
             \/ CommitPanics
             \/ Report
             \/ PanicLeaves
             \/ BatchOver

BatchSpec == BatchInit /\ [][BatchNext]_allVars

-----------------------------------------------------------------------------
(* An item whose render and whose write both succeed.                      *)
Good(i) == outcome[i] = "rendered" /\ plan.placing[i] = "fits"

(* The items whose Markdown the run must leave behind: all good ones with  *)
(* --keep-going, otherwise the good ones before the first bad one.         *)
Due(i) == /\ Good(i)
          /\ plan.keepGoing \/ \A j \in 0 .. i - 1 : Good(j)

(* "what lands on disk is deterministic however the renders overlapped":   *)
(* after the report each target holds the Markdown that is due there, or   *)
(* what it held before the run.                                            *)
DiskIsDeterministic ==
    step = "reported" =>
        \A t \in Targets :
            disk[t] = IF \E i \in Items : plan.target[i] = t /\ Due(i)
                        THEN CHOOSE i \in Items : plan.target[i] = t
                        ELSE IF t \in plan.existing THEN Old ELSE Absent

(* "--keep-going commits every input and reports every error together with *)
(* every success", each once and in input order; without it the error      *)
(* reported is that of the first bad input in input order, which need not  *)
(* be the first to fail in time.                                           *)
Increasing(s) == \A a, b \in 1 .. Len(s) : a < b => s[a] < s[b]

Members(s) == {s[k] : k \in 1 .. Len(s)}

VerdictIsComplete ==
    step = "reported" =>
        /\ Increasing(succeeded)
        /\ Members(succeeded) = {i \in Items : Due(i)}
        /\ Increasing(failed)
        /\ Members(failed) = {i \in Items : /\ ~Good(i)
                                            /\ \/ plan.keepGoing
                                               \/ \A j \in 0 .. i - 1 : Good(j)}

(* A target is written at most once in a run, a file that was there before *)
(* only with --force, and an input never: same-named inputs never          *)
(* overwrite each other, and no input is rewritten in place.               *)
OverwritesOnlyByForce ==
    [][\A t \in Targets : disk'[t] # disk[t] =>
          \/ disk[t] = Absent
          \/ disk[t] = Old /\ plan.force /\ t \notin plan.protected]_allVars

(* At every moment, so wherever the batch stops, panics or is killed, a    *)
(* temp file beside a target is one the system refused to remove, and then *)
(* its item is among the errors and its target holds something else, or it *)
(* is that of the one item whose commit is under way or panicked.  A batch *)
(* that reports leaves none of the second kind.                            *)
NoTempFileLeft ==
    \A i \in staged :
        \/ i \in stuck \cap Members(failed) /\ disk[plan.target[i]] # i
        \/ i = next /\ step \in {"pool", "panicked"}

(* "extract stages its Markdown first and only then commits its figures,   *)
(* so a failed Markdown write leaves no orphan figures behind"             *)
(* (crates/pdfluent-cli/src/input.rs:229).                                 *)
NoOrphanFigures ==
    Over => \A i \in figures \cap Members(failed) : outcome[i] # "rendered"
=============================================================================
