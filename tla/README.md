# Verification of the PDFluent SDK

TLA+ models of the concurrent and stateful core of the PDFluent SDK, checked
with TLC on small instances, and theorems about them checked by the TLA+ proof
system.  File and line references are to `src/` of this repository.

## 1. The system

The SDK is a workspace of some fifty Rust crates (`src/ARCHITECTURE.md`).  From
the bottom up:

| part | crates | state it keeps | operations | what is hard |
|---|---|---|---|---|
| codecs, fonts | hayro-*, cff-parser, pdf-font | none | decode | byte formats, sequential |
| read-only parser | pdf-syntax | per document: cross-reference map behind a RwLock with a `repaired` flag; decoded object streams and their offset tables behind mutexes | `XRef::get`, `repair`, `objects` | several threads resolve, decode and repair at once; cyclic and lying tables |
| mutable documents | lopdf, pdf-manip, pdf-forms, pdf-annot, pdf-redact, pdf-compliance | one document in memory | sequential edits, save | long sequences of legal edits |
| rendering | pdf-interpret, pdf-render | per page caches | render a page (pages in parallel over one document) | shares the document with other threads |
| engine | pdf-engine | none between calls; `run_batch` has a worker pool, a stop flag, a result channel | open, render, extract, `process_batch` | time limits, panics, fail-fast |
| XFA | pdf-xfa, xfa-dom-resolver, formcalc-interpreter, xfa-layout-engine, xfa-json | form tree with a snapshot | script passes, layout, rollback | partial failure of a script pass |
| scripts | xfa-js-sandboxed | a QuickJS context, deadline, cancel token, field values | `execute_calculate` | deadline against a late answer, state left for the next script |
| signatures | pdf-sign | the bytes of a document, revision by revision | sign, sign incrementally, time-stamp, embed validation data | what an increment must keep; byte ranges |
| OCR | pdf-ocr | process-wide: loaded library, session cache, session pools | `init`, `session`, `run` | initialise once, give sessions back on panic, two threads loading one model |
| converters | pdf-docx, pdf-xlsx, pdf-pptx, *-extract | none | convert | - |
| command line | pdfluent-cli | for one `extract`: a worker pool, two channels, a reorder map, the output directory | plan, render, commit, report | ordering, stop on error, window, failed writes, deterministic output |
| desktop | pdf-desktop | open documents, undo and redo stacks, saved bytes | edit, undo, redo, save, save as | an edit that fails half way, a save that breaks off, a dirty flag that is stale |
| test runner | xfa-test-runner | threads in flight, threads past their limit, a database of results | run the corpus, resume | zombie threads, backpressure, a killed run |
| servers, bindings | xfa-api-server, pdf-capi, pdf-python, pdf-node, pdf-java, xfa-wasm | handles | convert and forward | - |

How they interact: the command line and the bindings call the engine; the engine
opens a document with pdf-syntax, and its threads (parallel pages, batch
workers) share the document's cross-reference map and caches through shared
memory and locks.  Inside a batch, workers and the main thread talk by channels,
an atomic flag and a counter; callbacks report progress.  The test runner wraps
each test in a thread of its own and talks to it by a channel and two counters.
Signing loads and saves documents through lopdf and reads them back through
pdf-syntax.  The command line, the desktop and the test runner write files.

What makes each modelled part correct:

- *extract pool*: commits in input order, bounded read-ahead, nothing lost,
  nothing after a stop, no thread left waiting.
- *extract batch*: what lands on disk and what is reported depend on the inputs
  only; no file overwritten without `--force`; a temp file stays only where
  the system refused to remove it or a panic or a crash came before that.
- *object resolution*: whoever repairs, whoever decodes first, an object is
  found if the rebuilt table holds it, and it is the one asked for; a lying
  table cannot make resolution run for ever.
- *engine batch*: one outcome per file and a true one, none missing, fail-fast
  stops the workers, and a processor that never returns does not keep the call.
- *OCR runtime*: one library per process, one pool per key and only from a
  vetted file, every session in exactly one place, and no caller left waiting
  beside an idle session.
- *signing*: a revision leaves every earlier signature intact, reported as valid
  as long as the fields of the form are listed, and every earlier object
  reachable; a held signature is delivered only under a token that stamps it;
  validation data is filed under a signature of the file; the lists of fields
  and annotations keep what they held.
- *test runner*: the threads alive are bounded however many tests outlive their
  limit; a finished document's verdicts stand, a killed run included; every test
  gets a row, or was refused one by the database.
- *desktop document*: the stacks are one line of versions with a cursor, never
  longer than the cap, and the view and the file follow it.

## 2. The modules

| module | models | variables and the code's state | actions and the code's steps |
|---|---|---|---|
| `OrderedCommit` | the contract in the doc comment of `run_bounded_ordered` (cmd_extract.rs:626-635) | `begun`, `finished`, `log`, `phase` | `Begin`, `Finish`, `Commit`, `Halt`, `Close` |
| `ExtractPool` | `run_bounded_ordered`, `feed_window` (cmd_extract.rs:636-747) | `jobq`/`txOpen`/`lock`: the job channel, its sender and the mutex on its receiver; `results`: the result channel; `pending`: the BTreeMap; `fed`, `next`, `stop`: the locals of those names; `wpc`, `mpc`: where a thread stands; `attempts`, `committed`: what the closures were called with | a worker's `LoadStop`, `LockJobs`, `RecvJob`/`RecvClosed`, `Work`, `SendResult`; the main thread's `Feed`, `FeedEnd`, `RecvResult`/`DrainResult`, `CommitGo`/`CommitStop`/`CommitPanic`, `CommitWait`, `CloseJobs`, `ResultsClosed`, `ScopeUnwound` |
| `ExtractBatch` | `run`, `render_one`, `commit_one`, `guard_failure`, `stage_file_pair`; extends `ExtractPool` | `plan`: command line and what the disk will answer; `disk`, `staged`, `stuck` (temp files that were not removed), `figures`; `succeeded`, `failed`: the vectors of `run` | `Refuse`, `StartPool`, `Render`, `StageMarkdown` (the temp file is created), `RenameMarkdown`, `CommitFailure`, `CommitPanics`, `Report`, `PanicLeaves`; `PoolStep` for what the pool does by itself |
| `XRefResolve` | `XRef::get_with`, `repair` (xref.rs:454-596), `Data::get_with`, `get_object_stream_offsets_or_init` (data.rs:107-171) | `map`, `repaired`, `writer`: MapRepr and its RwLock; `slotOf`, `slots`: Data.map and Data.decoded; `offsets`: Data.object_stream_offsets; `stack`: the nested calls of each thread | one action between two lock operations: `Lookup`, `ReadDirect`, `LockForRepair`, `Rescan`, `EnterStream`, `LookupBytes`, `Publish`, `LookupOffsets`, `ParseOffsets`, `PickPacked`, `Fail` |
| `EngineBatch` | `run_batch`, `process_one` (batch.rs:162-312) | `nextIndex`, `stop`, `results`, `done`, the three lists of BatchResult; `reader`: the thread of each file; `late` and `expired` are history variables: files claimed after the stop, and files whose limit was over | `LoadStop`, `Claim`, `ReadFile`, `SpawnPanics`, `TakeAnswer`, `Timeout`, `SendOutcome`; `Process`, `Page`; `Receive`, `EndOfResults`, `Leave`, `Join` |
| `OcrRuntime` | `init`, `builder`, `session`, `cache_insert`, `SharedSession::run`, `SessionReturn` (pdf-ocr runtime.rs:480-818) | `recorded`: INITIALIZED_DYLIB; `initLock`: INIT_LOCK; `loaded`: the library inside ort; `cache`: SESSION_CACHE; `idle`: the `pool` of each SharedSession; `pc` "wait": the threads on its condition variable; `built`, `handle`, `session`: what a thread has loaded, got and taken; `verified`, `agreed` are history variables | `CallSession`, `Lookup`, `Verify`, `InitAgain`/`InitRefused`/`InitFirst`, `LoadLibrary`, `Record`, `BuildSession`/`BuildFails`, `CacheInsert`; `CallRun`, `Take`, `Wait`, `SpuriousWake`, `Infer`, `Release` |
| `SignedHistory` | what pdf-sign promises a holder, without bytes (sign.rs:70-137, 862-938; lib.rs:181-192) | `made`, `held`; `doc`: the signatures that are intact, those of them that are reported valid, and whether the list of the fields is one the next revision loses | `Replace`, `Approve`, `Hold`, `Release` |
| `PdfSigning` | sign.rs, ltv.rs, increment.rs and the readers of lib.rs and byte_range.rs in pdf-sign, over `save_internal` and `read` of lopdf | `file`: the bytes, as cells; `digests`: what each signature was made over; `pending`: a PendingTimestamp | `Sign`, `SignIncremental`, `SignPending`, `Timestamped`, `LongTerm`, `EmbedDss`; each of the helpers (`CarryOver`, `Prepare`, `EnsureAcroForm`, `Rebase`, `InjectSignature`, ...) is an operator on files or objects |
| `RunnerPool` | `run_corpus`, `run_single_test` (runner.rs:297-797), the rows of db.rs | `inFlight`, `spawned`: the counters of Runner; `thread`, `channel`: the thread of each test and its channel; `pc`, `job`, `mode`, `result`: the locals of a rayon worker; `memoryHigh`: current_rss_bytes against its threshold; `db`: test_results of the run; `unwritten`, `uncounted` are history variables: what the database failed to do | a worker's `Take`, `Gate`, `Enter`, `Spawn`/`SpawnFails`, `Receive`/`TimeOut`, `Record`; a test thread's `Answer`, `ThreadExit`; `FinishRun`; `Memory`; `Kill` for a process that dies and is started with `--resume` |
| `VersionLine` | what the desktop editor promises (state.rs:12-50) | `line`, `cursor`, `shown`, `saved`, `file` | `Open`, `Commit`, `Undo`, `Redo`, `Save`, `SaveCopy`, `Close` |
| `EditHistory` | OpenDocument and the commands that change it (state.rs:12-50, commands.rs:85-138, 387-563, 657-700) | `raw`, `saved`, `undo`, `redo`: the fields of OpenDocument; `doc`: the bytes its view was parsed from; `file`: what stands at its path | `OpenDocument`, `CloseDocument`, `Edit`, `EditFails`, `Undo`, `Redo`, `SaveDocument`, `SaveDocumentAs`: each holds the mutex of the documents from its first line to its last |

`PdfSigning` composes with `SignedHistory`, `EditHistory` with `VersionLine` and
`ExtractPool` with `OrderedCommit` by a refinement mapping at the end of the
detailed module; `ExtractBatch` extends `ExtractPool`.

The modules whose name ends in `_proofs` hold the proofs.  A module whose name
starts with `MC` gives constants and initial states for TLC. An operator
announced by a comment "Mutant" is a plausible bug of the definition that
follows it and no part of the model: each property is known to fail when one of
these takes the place of its original.

### What is abstracted

- An item's render is a value (`outcome`); a panic is the outcome `on_panic`
  gives it.  In `ExtractBatch` it is whether the render succeeded.
- Panics unwind, as in a debug build or a test.  A release build has
  panic = "abort" (Cargo.toml:182): there a panic ends the process, which for
  the runner is a `Kill` and for the batch the state it leaves; a test that
  panics is then no `Answer`.
- A temp file is created, written and renamed: `plan` says which of these fails.
  That a file is removed, or the removal refused, is a choice, and a commit may
  panic before its file is created, beside it, or once it is renamed.
- Markdown, figures and messages have no content.  A target holds the number of
  the item written to it.  Targets are compared after the NFC and case folding
  of cmd_extract.rs:398-402.
- A document is a record of what stands at each offset, what its own table says
  and what a scan finds.  `Init` starts either with the file's table or, as
  `fallback` does when no table can be read, with the scan and the flag set.
  Lengths and filters of streams are direct objects, and the depth limit of 512
  (indirect.rs:38) is beyond the documents considered.
- When a stream's dictionary comes from one version and its cached bytes from
  another, whether the dictionary fits is a choice (`ParseOffsets`).
- Relaxed and SeqCst atomics are sequentially consistent here: each flag is only
  ever raised, and the counter is only used by `fetch_add`.
- In `OcrRuntime` a model file is present or not, and reads to its pinned digest
  or not, for the whole run; `Corrupt` includes a file that cannot be read.
  `ort` keeps the first library it loads, as the comment at runtime.rs:485 says.
  The mutexes of the cache and of a pool are held for one action; INIT_LOCK has
  a variable because loading a library takes several.
- `Timeout` may happen whenever no answer has come: nothing is said about how
  long anything takes.  The spawn of a file's thread may panic; the spawns of the
  workers themselves, before which nothing has happened, are left out.
- In `PdfSigning` a file is a sequence of cells: an object is one cell, a
  signature dictionary two (its /ByteRange and its /Contents), a cross-reference
  table and a startxref one each, so an offset is an index.  A digest is the
  very sequence of cells it covers, and two digests are equal exactly when their
  cells are.  The number written into a placeholder always fits, and a CMS fits
  its /Contents (`TimestampSigned`'s mutant is one that does not) with zeros
  left behind it, so that the key of a VRI entry is one of two values: the hash
  of the CMS alone (`Bare`) or of the /Contents as it stands in the file
  (`AsStored`).  A CMS that fills its /Contents to the last byte, for which the
  two are one, is left out.  The signer, the token and the certificates are the
  serial number of the signature.  A document has one page and one text field;
  the places of /AcroForm, /Fields and /Annots vary.  One signature is held at a
  time.  Each call is one action: it works on bytes it owns.
- In `EditHistory` a document is one of a few contents and what an edit makes of
  it is a choice; an encrypted content opens with its password and does not
  reload, as `reload` gives none.  A save may leave the file `Torn`.
- In `RunnerPool` when a limit is over, how a test ends and whether it blew up
  the memory are choices; so are the memory in use, which shuts `Gate`, an
  insert, a query or `finish_run` that fails, and a spawn that panics.  A crash of
  a test is recorded as a failure.  The increments and the spawn are two actions;
  the check before them is a third.  A test thread sends once and exits after
  it; it counts as ended at its decrement, its last statement.  `Kill` starts the
  same run again, on the same documents and tests; rows survive it as SQLite
  commits each one.  The tests are those given to `Runner::new`, whose one caller
  has already reduced them to the configured filter (main.rs:693-706), so the
  `continue` of runner.rs:498-502 passes over none and `tests.len()` is the number
  of rows of a complete document.

## 3. The runs

| run | instance | what it shows |
|---|---|---|
| `extract_pool` | 6 items, 2 workers (window 4) | order, window, nothing lost, nothing after a stop, termination, and that the pool implements `OrderedCommit`; 39,819 states |
| `extract_batch` | 3 inputs, 2 workers | determinism of disk and verdict over all mixes of failing renders, creations, writes, renames and removals, `--keep-going` or not; where a temp file may stay, panics included; guards; 1.5 million states |
| `orphan_figures` | the same | a violation: see section 5 |
| `xref_resolve` | 2 threads, 3 calls in all, 5 objects, 5 documents | one repair, coherent caches, right answers, bounded nesting, termination; 134,803 states |
| `stale_objstm_cache` | 1 thread, 3 calls | a violation: see section 5 |
| `engine_batch` | 3 files, 2 workers, 3 strategies, 4 kinds of batch | one true outcome per file, none missing but with a worker whose spawn panicked, fail-fast, termination; 275,132 states |
| `ocr_runtime` | 3 threads, 3 calls each, 3 libraries, 5 mixes of requests | one library, one pool per key, vetted pools, sessions conserved, no lost wake-up, every call returns; 489,473 states |
| `pdf_signing` | 3 signatures, 3 revisions, 7 layouts of form, fields and annotations | every object reachable at its newest version, validation data filed under a signature of the file, lists kept, and that signing implements `SignedHistory`; 55,349 states |
| `pdf_signing_listed` | the same | a violation: see section 5 |
| `pdf_signing_vri` | the same | a violation: see section 5 |
| `runner_pool` | 2 documents, 2 tests, 2 workers, 1 hanging test, 2 threads alive, 1 kill, 1 database fault | bounded threads, verdicts that stand, a row for every test; 660,087 states |
| `edit_history` | 3 contents, one of them encrypted, 3 snapshots | both stacks under one cap, and that they implement `VersionLine`; 5,692 states |

Bounds.  Six items with two workers is the smallest batch in which the first
window does not hold everything, two commits feed the rest, and a worker can lap
the other one.  Three inputs let a failure have a success before and after it,
with two of them rendered at once; figures are varied where they matter, which
is where renders succeed and renames may fail, and a file or a target that
stands in the way where nothing fails later.  Each of the five documents is one kind of
defect: entries into the header (as the fixture of xref.rs:1604), entries
shifted to a neighbour, streams that claim to pack each other, a stream that
does not decode, and an update that was cut off; three calls let two threads
race on one stream and one of them read another stream afterwards, which is what
a misfiled slot needs to show.  Three threads on a pool of one are the fewest
with which one thread runs, one waits and a third arrives between the
notification and the waiter's next look at the pool; with three calls a thread
asks, runs, and runs or asks again.  The five mixes are a pool of one, a pool of
two, two usable libraries and one of the wrong version for one model, three keys
over two files, and a missing beside a corrupt model.  `MaxCalls` (in
`XRefResolve` and `OcrRuntime`), `MaxSignatures` and `MaxRevisions` (in
`PdfSigning`), `MaxKills` and `MaxFaults` (in `RunnerPool`) are the only bounds
in a guard.  Three revisions are the fewest in which a middle one is neither the
first nor the last of the /Prev chain, and three signatures let an approval
follow a held one.  The seven layouts are those between which `ensure_acroform`
and the page code decide.  Two workers that pass the gate together while one
test hangs are the fewest that overshoot the limit on threads; two documents of
two tests are the fewest with a row before the last of one and a worker at the
other, and one of the tests has passed before under the same version.  One fault
is enough for a row that is missing, or a complete document that is taken for an
incomplete one.  Three snapshots let the cap be hit with something to undo and
to redo.  `pdf_signing` does not check deadlock: once the bounds are used up
nothing is left to do.  No symmetry is used: the runs check liveness or name the
threads' items.

Fairness.  `WF` on each thread's steps: the operating system schedules every
thread that can run, mutexes and channels wake a waiter.  In `ExtractPool` this
includes that the work and commit closures return.  In `EngineBatch` it does
not include the processor, only that a time limit is over at some time; a spawn
need not panic, and none is promised to succeed.  Weak
fairness is enough: the only contended lock is the mutex of the job channel, and
once the sender is gone each holder gives it back for good.  In `XRefResolve` a
thread waits only for the writer of the map, which never waits.
In `OcrRuntime` each thread inside a call is scheduled and an inference ends;
nobody has to make a call, and no waiter may count on a spurious wake-up.
`std` does not promise that the waiter a notification reaches gets the mutex
next, and the model lets an arrival overtake it; that every call returns needs
the bound on calls, without which arrivals could overtake one waiter for ever.
In `RunnerPool` each worker and each test thread is scheduled and a limit that
is over is noticed; a hanging test never ends.  Of the memory, the database and
the system's threads nothing is assumed: `EveryTestReported` promises a row for
every test, or an insert that was refused, if from some time on the memory is low
and no panic is on its way, and if fewer tests hang than threads may be alive.
Without that the gate stays shut, which is what the code does.

The properties that carry weight:

- `RenderedOnceInWindow`: the code bounds memory by feeding on commits.  It
  relates a worker's history to the main thread's progress.
- `NothingLost`, `Termination`: the sender is dropped in `feed_window` as soon as
  all is fed, while items wait in the channel and a worker may hold the mutex.
- `DiskIsDeterministic`, `VerdictIsComplete`: state the result of a run as a
  function of the inputs, with no reference to the schedule.
- `AnswersAreRight`: for documents whose wrong entries show when read
  (`Detectable`), every answer is the object a scan would find, whatever the
  interleaving.  A silently missing entry, or one that leads to an object of
  another type, is excluded: the code answers None without a repair by design
  (xref.rs:543-550), so its answer depends on whether another object has
  triggered one.
- `CachesCoherent`: ties the slot table, the slots and the offset tables of all
  streams together.
- `ReportedOnceAndTruly`: a file that answers after its limit was over is not
  reported a second time; a success is one that answered in time, and a failure
  is one that could not be read or processed, or did not.
- `NoTempFileLeft`: at every moment, so wherever the process dies, a temp file
  beside a target is that of the one item being committed, or one that could not
  be removed and whose item is reported.
- `VerdictsStand`: relates the rows of a document to every earlier insert and
  count for it, over killed and resumed runs.  Where the database failed in
  between, the code does replace rows of a complete document; the premise
  (`Untroubled`) says so.
- `NoLostWakeup`: relates the number of idle sessions to the number of woken
  threads while somebody waits; `notify_one` is enough because of it.
- `OneLibrary`: what `init` has answered against what the process runs on, with
  threads that name different libraries between the check and the load.
- `HistorySpec` of `PdfSigning`: the intact signatures are found by reading the
  file back, through every table, and comparing what the ranges cover with what
  was signed; any byte moved between the two breaks it.  The valid ones are those
  of them that `signature_fields` lists, by its walk over /Fields or, when that
  finds none, its scan: they grow with each revision but for the one that loses
  an indirect /Fields (section 5), after which the new one is the only one
  reported.
- `NewestIsFound`: the chain of tables after `rebase`, for every object of every
  revision.
- `AliveBounded`: relates the threads that outlived their limit to counters that
  are read before they are raised.  The bound is the limit plus the workers less
  one, though runner.rs:248 calls it the "maximum number of test threads alive at
  any moment": the gate is a check and not a reservation.
- `EveryTestReported`: a count that is not lowered by a late thread shuts the
  gate for good.
- `HistorySpec` of `EditHistory`: the two stacks and the bytes between them are
  one line, read from the oldest snapshot to the last that was undone.

## 4. What is proved

Eight modules are proved about, each for every value of its constants; the
assumptions are named ASSUMEs of the module, which TLC evaluates on its
instances too.

`ExtractPool`, for every number of items and workers and every set of outcomes
(`PoolAssumption`: `N` and `Jobs` are naturals, and "no outcome" is not an
outcome):

| theorem | says |
|---|---|
| `PoolTypes` | type correctness of `ExtractPool` |
| `PoolCommitsInOrder` | commits are the outcomes of the first items, in order |
| `PoolRendersInWindow` | an item is rendered at most once, inside the window |
| `PoolNothingLost` | without a stop everything is committed on return |
| `PoolNothingAfterStop` | nothing is fed or committed after a stop |
| `PoolImplementsOrderedCommit` | the pool implements the contract, initial state and every step, under the mapping at the end of `ExtractPool` |

The argument.  None of these is inductive alone: that `pending[i]` is item i's
own outcome says nothing of where an item is that is neither pending nor
committed.  The strengthening (`PoolInvariant` in `ExtractPool_proofs`) says
where every fed item is: the job channel holds the last of the fed items, in
ascending order and contiguous; each item before those has been taken, and is
in exactly one place: held by one worker, in the result channel once, in the
map, or committed; items are rendered exactly when they are past the worker's
`Work` step; the fed items are within the window; a dropped sender means that
all is fed, or that the pool stopped or unwinds; and the holder of the mutex is
the one worker in `recv`.  Order and window follow from the contiguity, "nothing
lost" from the places being exhaustive, and the refinement from both: `begun` is
the fed items less those in the channel, `finished` those taken that no worker
holds.

`ExtractBatch`, for every number of items and workers, every set of targets and
every plan, that is every mix of targets, files that exist, failing renders and
writes, and options (`BatchAssumption`: a render succeeds or fails):

| theorem | says |
|---|---|
| `BatchRunsPool` | a batch takes only steps the pool alone could take |
| `BatchImplementsOrderedCommit` | so it keeps the pool's contract |
| `BatchDisk` | `DiskIsDeterministic`: what lands on disk depends on the inputs only |
| `BatchVerdict` | `VerdictIsComplete`: successes and errors, each once and in order |
| `BatchLeavesNoTemp` | `NoTempFileLeft`, at every moment, after panics and failed removals too |
| `BatchOverwrites` | `OverwritesOnlyByForce`: a target is written at most once, an old file only with `--force`, an input never |

The argument.  By `BatchRunsPool` the invariant of the pool holds inside a
batch: what is committed is the item's own outcome, in order, and a batch that
is done without a stop has passed every item.  `BInv` adds what the commit
closures have made of the items passed so far.  `VerdictInv`: the two lists
divide them into the good and the bad, in order, and a batch that stops stands
at the first bad item.  `DiskInv`: a target holds the good item written there,
if one has been passed, and otherwise what it held before; the guard
(`GuardInv`) is what makes that item unique.  `StagedInv`: a temp file that was
not refused its removal is that of the item being committed, after a render and
a creation that succeeded, or of the item whose commit panicked.  An item is
recorded with the step that removes its file or fails to, so one that is refused
is among the errors.  The removal, the panic and the outcome of each call on
disk are choices of the model; what is proved is that no order of renders,
commits and stops leaves any other file.  At the report "passed and good" is
"due" (`DueIsPassed`), which no longer mentions the schedule.

`XRefResolve`, for any threads, any documents and any finite set of object
numbers (`ResolveAssumption`: object numbers and offsets are positive, documents
are documents, and "nothing" is neither an object nor a number):

| theorem | says |
|---|---|
| `ResolutionTypes` | type correctness |
| `ScannedOnce` | `RepairsOnce`: the file is scanned at most once |
| `CachesAgree` | `CachesCoherent`: slots and offset tables belong to their streams |
| `NestingIsBounded` | `NestingBounded`: a cyclic table cannot nest calls for ever |
| `RightAnswers` | `AnswersAreRight`: where wrong entries show, every answer is the object a scan finds |

The argument.  `FrameInv` says what a call knows of the caches, and that it
stays true because a slot and an offset table are written once; `ChainInv` says
that every call below the top waits for a stream, that its number is on the
chain of every call above it, and that a call inside a stream is on its own
chain once, which bounds the nesting; `SlotsInv` says that slots are handed out
in order, so a new one is nobody else's.  A step is one of three things to a
stack, and the lemmas are about these three: the top goes on, calls, or returns.
`AnswersAreRight` needs more: `MapInv`, that the map is the table until the
repair and the scan after it, and, for a document that is `Candid` (its scan is
true and each wrong entry shows), what is in the hands of each call: at most two
are nested, since the scan keeps streams outside streams, the inner one will
return the stream the outer one asked for or nothing, and what is cached are the
bytes of the true stream.  The premise is not empty: three documents of the run
are candid with a broken table, and it is a conjunct of the inductive invariant
that TLC checked on that instance.

`EngineBatch`, for every number of files and every limit on workers
(`BatchAssumption`: both are naturals):

| theorem | says |
|---|---|
| `BatchTypes` | type correctness; the counter overruns the files by at most one a worker |
| `OneTrueOutcome` | `ReportedOnceAndTruly`: one outcome per file, and a true one, success or failure |
| `NoFileForgotten` | `EveryFileReported`: without fail-fast every file is in a list, unless its worker's spawn panicked or no worker was left |
| `FirstFailureStops` | `FailFastStops`: one failure at most, and no worker claims two files after the flag |

The argument.  `PlaceInv`: a file the counter has passed is with one worker, in
the result channel or in a list, in one of these and once.  `CountInv`: `done` is
the number of files in the lists.  `OverrunInv`: the counter is past the last
file by at most the workers that have left.  `TruthInv`: an outcome that says
success is of a file whose reader thread has opened it, processed it and paged
it; `BlameInv`: one that says failure is of a file that could not be, or whose
limit was over; `LateInv`: a file whose limit was over is on no way to a success,
since an answer after it finds nobody.  `StopInv`, `HaltInv` and
`LeftInv` say what the flag and the place of the main thread imply: without the
flag a worker leaves only when no file is left, the first failure under fail-fast
ends the loop, and any other strategy ends it with every file in a list.

`OcrRuntime`, for every finite set of threads and any requests, files and
libraries (`RuntimeAssumption`: `Threads` is finite, pool sizes and `MaxCalls`
are naturals, a usable library is a library, and "none" is neither a library nor
a thread):

| theorem | says |
|---|---|
| `RuntimeTypes` | type correctness; no build exceeds its key's pool size, and a pool holds and hands out its own sessions only |
| `RuntimeOneLibrary` | every Ok of `init` was for the library the process runs on |
| `RuntimeOnePoolPerKey` | every handle is the pool of the cache |
| `RuntimePoolsAreVetted` | a cached pool comes from a verified file and an initialised process |
| `RuntimeSessionsConserved` | every session of a cached pool has exactly one place |
| `RuntimeNoLostWakeup` | while somebody waits, every idle session has a woken taker |

The argument.  `OneLibrary` needs `InitInv`: INIT_LOCK is held exactly by the
thread that loads or records, and while it is free the loaded and the recorded
library are the same, so an Ok from the recorded one is an Ok from the loaded
one.  `PoolsAreVetted` needs `BuildInv`: what a thread between its verification
and its insertion has passed, `init` included.  `SessionsConserved` counts the
places of a session; `PlacesInv` says it without counting (each session of a
cached pool is at one index of the pool or with one user, never both), which is
what a step preserves, and a lemma turns it into the count.  `NoLostWakeup` is
inductive with `HandleInv`: taking removes a taker and an idle session
together, giving back adds both, and the last taker to wait finds the pool
empty.  `RuntimeInvariant` is their conjunction.

`RunnerPool`, for every finite corpus and every finite set of workers, any
limits, hanging tests and number of kills and database faults
(`RunnerAssumption`: the limits and `TestCount` are positive, and "no job" is not
a job):

| theorem | says |
|---|---|
| `RunnerTypes` | type correctness |
| `RunnerAliveBounded` | the threads alive stay below the limit plus the workers |
| `RunnerVerdictsStand` | a document with a row for every test, and no failed insert or count, keeps each of them |

The argument.  No more threads are alive than `spawned` says (`CountInv`; a
spawn that fails leaves a count without a thread); that a spawn adds one needs
that the test has no thread yet (`ThreadInv`) and that no two workers are at one
document (`OwnInv`).  The bound is not inductive alone: a worker past the gate
will raise the count whatever it is by then, so `GateInv` counts those workers
in, and the last one to pass saw fewer than the limit.  `VerdictsStand` needs
`RowInv`: where the database has not failed rows come in the order of the tests,
and the last one is missing while a worker is at the document, so a complete
document is nobody's and is not begun again.  A fault at one document says
nothing of another.

`EditHistory`, for every cap and every set of contents (`EditAssumption`: the
cap is positive, and neither "nothing" nor "torn" is a content):

| theorem | says |
|---|---|
| `EditTypes` | type correctness; both stacks together stay within the cap |
| `EditImplementsVersionLine` | the stacks implement the line of versions, initial state and every step |

The argument.  Types are inductive only with the bound on the sum of the
stacks: `redo_document` pushes without looking at the cap.  For the refinement
the line is described by what stands at each index of it, an undo or a redo
moves one version from one stack to the other and so changes no index, and a
commit at the cap shifts every index by one.

`PdfSigning`, for any layouts of the original and any number of signatures and
revisions (`SigningAssumption`: layouts are layouts, the bounds are naturals, and
a file may have two revisions, which the long-term form needs):

| theorem | says |
|---|---|
| `Invariance` | the inductive invariant itself |
| `TypeCorrect` | type correctness: the cells of a file are those of whole revisions |
| `NewestFound` | `NewestIsFound`: a reader finds the newest cell of every object |
| `StoreNamed` | `StoreNamesASignature`: validation data is filed under a CMS of the file, with its zeros or without |
| `SigningImplementsHistory` | signing implements `SignedHistory`, initial state and every step |
| `ListsKept` | `ListsAreKept`: what each operation keeps of fields and annotations |

The argument, from cells up to files.  `SaveTo` writes a `Piece`: every object
stands where the table of the piece says, and the slots are in the order of the
numbers.  `Rebase` makes it a piece that stands behind other cells.  `Appended`
says that a file with a piece behind it loads to the objects of the file under
those of the piece: `Entries` is the one function that follows the links
(`Follows`), and the links below the old last table are unchanged, since a /Prev
only points back.  `Placeholder` says that pass 2 finds what pass 1 wrote:
Prepare adds one signature whose /Contents is zeros, no other signature of a
sound file waits, and its /ByteRange stands right before its /Contents.
`Written` says that overwriting these two cells is writing a piece with another
signature in it, so nothing moves.

The invariant (`IInv`) says of every file that it is `Sound`, so that it can be
loaded and worked on again, and `Told`: the lists have the shapes the handlers
look for, and each signature in it is `Genuine`, it covers the very cells it was
made over, or `Foreign`.  Why a rewrite invalidates the earlier signatures needs
an argument, because one of them would verify again if the rewritten cells
happened to be those it was made over: every signing puts a field with a number
higher than any before on the page, the page is the second cell of every
document and of every digest, so the second cell of the new document is that of
no earlier digest (`Dated`).  A signature in a revision of its own keeps the
others genuine because the cells they cover are still there (`VerdictKept`); a
time stamp changes only the /Contents, which its signature does not cover, and
no other signature of that document verified (`StampKeeps`).  For that last part
the invariant says of the signature that waits that it is the last of a document
of one revision (`Fresh`), which is what the search for the last /Contents
relies on, and the only one that verifies.  A signature made while it waits adds
a digest and changes no verdict (`FurtherDigest`).  What is reported needs two
facts more about the form: every listed field is an object of the document, and
a document with a signature lists one (`Linked`), so that the walk of
`signature_fields` finds something and its scan is not needed (`ListedAre`); and
an operation adds its field to the list it found, or to an empty one if that was
an indirect /Fields and a revision has left it behind (`Enrolled`,
`LinkedMore`).  The refinement and the lists are then read off one lemma per
operation (`SignStep` to `EmbedDssStep`).

Only model-checked: termination and the other liveness properties of all modules
(`Termination`, `EveryCallReturns`, `EveryTestReported`), which are out of the
prover's reach.  Every invariant, action property and refinement of a passing
run is a theorem.  `NoOrphanFigures` and the other properties of the runs that
expect a violation are false of the code (section 5) and so no theorems.

## 5. Where code and documentation part

1. `orphan_figures`.  input.rs:229-231: "extract stages its Markdown first and
   only then commits its figures, so a failed Markdown write leaves no orphan
   figures behind."  The figures are written by the render
   (cmd_extract.rs:819-826, markdown_images.rs:338-347), before the Markdown is
   staged.  TLC's trace: render with a figure, staging fails, report.
2. `stale_objstm_cache`.  data.rs:79-81: "cache entries can never become stale".
   The bytes of the file do not change, but the table does: in a file that ends
   in an update without its own table, reading an object of stream S caches the
   first version; a broken entry elsewhere triggers the repair, which finds the
   second version; the index of the second is then applied to the bytes of the
   first, and object 5 is returned for object 3.
3. `pdf_signing_listed`.  sign.rs:83 of pdf-sign: "Sign a PDF incrementally
   (append-only, preserves existing signatures)", and sign.rs:577-580 that
   `ensure_acroform` "handles all four combinations of inline vs.
   indirect-reference for /AcroForm and /Fields".  The array an indirect /Fields
   points at is not among what `carry_over_structure` copies (sign.rs:152-184),
   so the combination is met, its push finds no object, and the fallback
   (sign.rs:733-742) writes an inline form with the new field alone.  TLC's
   trace: a form with indirect /Fields, a first signature, an incremental second
   one; the first still verifies and is listed no more.  In the same way an
   indirect /Annots is replaced by an array of the new widget alone
   (sign.rs:379-391); `ListsAreKept` says what is kept.

4. `pdf_signing_vri`.  ltv.rs:128 of pdf-sign: "The VRI key is the uppercase hex
   SHA-1 of the raw /Contents bytes", and the test
   `trailing_zero_padding_changes_the_key` (ltv.rs:352-360) that the zeros behind
   the CMS count, because a reader hashes what stands in the file.
   `add_validation_store_for_chain` hashes the CMS it was handed
   (sign.rs:826-827), which has no zeros.  TLC's trace: a signature is held, and
   released with a validation store; the store's key is that of no /Contents.
   `StoreNamesASignature` says what does hold: but for the zeros the key is that
   of a signature of the file, time stamp included.

Four more, which the models show and no run states:

- runtime.rs:577-579 of pdf-ocr: "The SHA-256 is verified by streaming the file,
  and at most once per process per file".  The cache is looked up and its lock
  given back before the file is hashed, so two threads that miss together both
  hash it and both load every session (`verified` counts it); `cache_insert`
  keeps the first pool, and `OnePoolPerKey` holds.
- A file of `run_batch` past its limit goes on being processed beside the next
  one (batch.rs:285-303), so more files than workers can be in processing at
  once; the test runner has a backpressure for just this, `run_batch` has none.
- Save As onto the document's own path, the name its dialog proposes, leaves
  `saved_bytes` as it was (commands.rs:387-399): after an undo the document shows
  no unsaved change although the file holds the newer version.
- An edit that fails has pushed its snapshot and cleared the redo stack
  (commands.rs:413): the user has one undo that does nothing, and no redo.

## 6. Not modelled

See `components` in PROJECT.json.  Codecs, fonts, layout, converters and
interpreters are sequential computations over data too large to enumerate; of
lopdf, a third-party library in a fork, only what signing uses is modelled; the
bindings and the API server keep no state of their own worth a model.  Of the
modelled parts, these are left out: other processes in the output directory of
`extract`, stdout mode; encryption and the object iterator of `XRef`; in pdf-ocr
the `intra_threads` of a cache key, model files that change while the process
runs, and how a path is resolved from arguments, environment and defaults; in
pdf-sign the sizes of placeholders and numbers, a CMS that fills its /Contents
exactly, certification and its permissions, the visible appearance, remote
signers, a document with several pages, and cross-reference streams, which
`rebase` refuses; in xfa-test-runner the tests themselves, the memory log, crash
forensics, the reports, the list of the failures of another run that
`--rerun-failures` selects, and the separate harness (harness.rs, pool.rs); in
pdf-desktop two handles on one path, other programs that write the file, and a
mutex poisoned by a panic.

Two stateful parts are not modelled.  The script sandbox (xfa-js-sandboxed)
stops a script from the interrupt handler of its JavaScript engine; what the
engine has done by then is not in this repository and would be most of a model.
The dynamic pass (pdf-xfa) restores a form tree after a failed script pass: it
is sequential, and what has to be restored is the whole tree.

## 7. Plan

What is left, in this order:

1. Modules for the rollback of a script pass and for the deadline of a script,
   once the parts of them that lie in the JavaScript engine are pinned down.
2. `PdfSigning` with placeholders that have a size: a CMS that fills its
   /Contents exactly, and one that does not fit.
