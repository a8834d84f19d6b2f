----------------------------- MODULE OcrRuntime ------------------------------
(***************************************************************************)
(* The process-wide ONNX Runtime layer of crates/pdf-ocr/src/runtime.rs:   *)
(* init, session and SharedSession::run, called by several threads.        *)
(*                                                                         *)
(* A thread asks for a session pool with a request (a model file and a     *)
(* number of sessions) and a library.  session() looks in the cache,       *)
(* verifies the file, initialises the process, loads the sessions and      *)
(* inserts the pool; run() takes a free session, or waits on the pool's    *)
(* condition variable, and gives it back even if the inference panics.     *)
(* intra_threads, the other field of a cache key, distinguishes keys just  *)
(* as the number of sessions does and is left out.                         *)
(***************************************************************************)
EXTENDS Integers, Sequences, FiniteSets

CONSTANTS Threads,
          Requests,     \* what is asked for: [file, sessions]
          Missing,      \* the model files that do not exist
          Corrupt,      \* those that do not read, or not to the pinned digest
          Libraries,    \* the paths a request may resolve to
          Usable,       \* those that exist and report the pinned version
          MaxCalls,     \* calls of session() and run() by one thread
          NoLibrary, NoThread

ASSUME RuntimeAssumption ==
    /\ IsFiniteSet(Threads)
    /\ Requests \subseteq [file : {r.file : r \in Requests}, sessions : Nat]
    /\ Usable \subseteq Libraries
    /\ NoLibrary \notin Libraries
    /\ NoThread \notin Threads
    /\ MaxCalls \in Nat

VARIABLES
    loaded,     \* the library the process has loaded
    recorded,   \* INITIALIZED_DYLIB
    initLock,   \* the holder of INIT_LOCK
    cache,      \* SESSION_CACHE: key -> the thread that built its pool
    idle,       \* SharedSession.pool of each pool that was inserted
    library,    \* the library each thread's configuration resolves to
    request,    \* the model it asks for
    pc,         \* where each thread stands
    built,      \* the sessions its build_pool has loaded
    handle,     \* the pool it has got: the thread that built it
    session,    \* the session it has taken, or 0
    calls,      \* the calls it has made
    verified,   \* history: how often each file's digest was computed
    agreed      \* history: the libraries for which init has answered Ok

callVars == <<library, request, calls>>
initVars == <<loaded, recorded, initLock, agreed>>
poolVars == <<cache, idle>>
vars == <<loaded, recorded, initLock, cache, idle, library, request, pc,
          built, handle, session, calls, verified, agreed>>

Max2(a, b) == IF a > b THEN a ELSE b

(* Mutant of EffectivePool: the configured value as it is.                 *)
ConfiguredPool(r) == r.sessions

EffectivePool(r) == Max2(r.sessions, 1)

CacheKey(r) == [file |-> r.file, sessions |-> EffectivePool(r)]

Keys == {CacheKey(r) : r \in Requests}
Files == {r.file : r \in Requests}
Pools == Keys \X Threads

KeyOf(t) == CacheKey(request[t])
PoolOf(t) == <<KeyOf(t), handle[t]>>
SessionIds(k) == 1 .. k.sessions

Using == {"run", "release", "unwind"}
Resting == {"idle", "have"}
PCs == Resting \cup Using \cup
       {"lookup", "verify", "init", "load", "record", "build", "take",
        "wait"}

Goto(t, where) == pc' = [pc EXCEPT ![t] = where]

Takers(p) == {t \in Threads : pc[t] = "take" /\ PoolOf(t) = p}
Waiters(p) == {t \in Threads : pc[t] = "wait" /\ PoolOf(t) = p}
Users(p) == {t \in Threads : pc[t] \in Using /\ PoolOf(t) = p}

Init == /\ loaded = NoLibrary
        /\ recorded = NoLibrary
        /\ initLock = NoThread
        /\ cache = [k \in Keys |-> NoThread]
        /\ idle = [p \in Pools |-> <<>>]
        /\ library \in [Threads -> Libraries]
        /\ request \in [Threads -> Requests]
        /\ pc = [t \in Threads |-> "idle"]
        /\ built = [t \in Threads |-> 0]
        /\ handle = [t \in Threads |-> NoThread]
        /\ session = [t \in Threads |-> 0]
        /\ calls = [t \in Threads |-> 0]
        /\ verified = [f \in Files |-> 0]
        /\ agreed = {}

-----------------------------------------------------------------------------
(* session(): one action between two operations on shared state.           *)

CallSession(t) == /\ pc[t] \in Resting
                  /\ calls[t] < MaxCalls
                  /\ calls' = [calls EXCEPT ![t] = @ + 1]
                  /\ handle' = [handle EXCEPT ![t] = NoThread]
                  /\ Goto(t, "lookup")
                  /\ UNCHANGED <<initVars, poolVars, library, request, built,
                                 session, verified>>

(* cache_get; on a miss the file must exist.                               *)
Lookup(t) == /\ pc[t] = "lookup"
             /\ handle' = [handle EXCEPT ![t] = cache[KeyOf(t)]]
             /\ Goto(t, IF cache[KeyOf(t)] # NoThread THEN "have"
                        ELSE IF KeyOf(t).file \in Missing THEN "idle" ELSE "verify")
             /\ UNCHANGED <<initVars, poolVars, callVars, built, session, verified>>

(* Mutant of Verify: a mismatch is not an error.                           *)
VerifyReportsOnly(t) ==
    /\ pc[t] = "verify"
    /\ verified' = [verified EXCEPT ![KeyOf(t).file] = @ + 1]
    /\ Goto(t, "init")
    /\ UNCHANGED <<initVars, poolVars, callVars, built, handle, session>>

Verify(t) == /\ pc[t] = "verify"
             /\ verified' = [verified EXCEPT ![KeyOf(t).file] = @ + 1]
             /\ Goto(t, IF KeyOf(t).file \in Corrupt THEN "idle" ELSE "init")
             /\ UNCHANGED <<initVars, poolVars, callVars, built, handle, session>>

(* init answers: Ok lets the build go on, an error ends the call.          *)
InitAnswers(t, ok) ==
    /\ agreed' = IF ok THEN agreed \cup {library[t]} ELSE agreed
    /\ Goto(t, IF ok THEN "build" ELSE "idle")

(* init once the process has a library: the same one, or an error.         *)
InitAgain(t) == /\ pc[t] = "init"
                /\ initLock = NoThread
                /\ recorded # NoLibrary
                /\ InitAnswers(t, library[t] = recorded)
                /\ UNCHANGED <<loaded, recorded, initLock, poolVars, callVars,
                               built, handle, session, verified>>

(* The first init with a library that is missing or of another version.    *)
InitRefused(t) == /\ pc[t] = "init"
                  /\ initLock = NoThread
                  /\ recorded = NoLibrary
                  /\ library[t] \notin Usable
                  /\ InitAnswers(t, FALSE)
                  /\ UNCHANGED <<loaded, recorded, initLock, poolVars, callVars,
                                 built, handle, session, verified>>

(* Mutant of InitFirst: init runs without INIT_LOCK.                       *)
InitUnlocked(t) == /\ pc[t] = "init"
                   /\ recorded = NoLibrary
                   /\ library[t] \in Usable
                   /\ Goto(t, "load")
                   /\ UNCHANGED <<loaded, recorded, initLock, agreed, poolVars,
                                  callVars, built, handle, session, verified>>

InitFirst(t) == /\ pc[t] = "init"
                /\ initLock = NoThread
                /\ recorded = NoLibrary
                /\ library[t] \in Usable
                /\ initLock' = t
                /\ Goto(t, "load")
                /\ UNCHANGED <<loaded, recorded, agreed, poolVars, callVars, built,
                               handle, session, verified>>

(* ort::init_from: ort keeps the first library it has loaded.              *)
LoadLibrary(t) == /\ pc[t] = "load"
                  /\ loaded' = IF loaded = NoLibrary THEN library[t] ELSE loaded
                  /\ Goto(t, "record")
                  /\ UNCHANGED <<recorded, initLock, agreed, poolVars, callVars,
                                 built, handle, session, verified>>

LoadLibraryFails(t) == /\ pc[t] = "load"
                       /\ initLock' = NoThread
                       /\ InitAnswers(t, FALSE)
                       /\ UNCHANGED <<loaded, recorded, poolVars, callVars, built, handle,
                                      session, verified>>

(* INITIALIZED_DYLIB.set, and an answer from what it holds if it was set.  *)
Record(t) == /\ pc[t] = "record"
             /\ recorded' = IF recorded = NoLibrary THEN library[t] ELSE recorded
             /\ initLock' = NoThread
             /\ InitAnswers(t, library[t] = recorded')
             /\ UNCHANGED <<loaded, poolVars, callVars, built, handle, session, verified>>

(* Mutant of BuildSession: 0 ..= effective_pool.                           *)
BuildOneMore(t) == /\ pc[t] = "build"
                   /\ initLock = NoThread
                   /\ built[t] <= KeyOf(t).sessions
                   /\ built' = [built EXCEPT ![t] = @ + 1]
                   /\ UNCHANGED <<initVars, poolVars, callVars, pc, handle,
                                  session, verified>>

(* One iteration of build_pool.  Its builder calls init again, which finds *)
(* the library that the init before it agreed to.                          *)
BuildSession(t) == /\ pc[t] = "build"
                   /\ initLock = NoThread
                   /\ built[t] < KeyOf(t).sessions
                   /\ built' = [built EXCEPT ![t] = @ + 1]
                   /\ UNCHANGED <<initVars, poolVars, callVars, pc, handle,
                                  session, verified>>

BuildFails(t) == /\ pc[t] = "build"
                 /\ initLock = NoThread
                 /\ built[t] < KeyOf(t).sessions
                 /\ Goto(t, "idle")
                 /\ built' = [built EXCEPT ![t] = 0]
                 /\ UNCHANGED <<initVars, poolVars, callVars, handle,
                                session, verified>>

(* Mutant of CacheInsert: the last pool replaces the one before it.        *)
CacheInsertReplaces(t) ==
    /\ pc[t] = "build"
    /\ built[t] = KeyOf(t).sessions
    /\ cache' = [cache EXCEPT ![KeyOf(t)] = t]
    /\ idle' = [idle EXCEPT ![<<KeyOf(t), t>>] = [i \in SessionIds(KeyOf(t)) |-> i]]
    /\ handle' = [handle EXCEPT ![t] = t]
    /\ built' = [built EXCEPT ![t] = 0]
    /\ Goto(t, "have")
    /\ UNCHANGED <<initVars, callVars, session, verified>>

(* cache_insert: the first pool of a key wins, and a later one is dropped. *)
CacheInsert(t) ==
    /\ pc[t] = "build"
    /\ built[t] = KeyOf(t).sessions
    /\ IF cache[KeyOf(t)] # NoThread
         THEN UNCHANGED poolVars
         ELSE /\ cache' = [cache EXCEPT ![KeyOf(t)] = t]
              /\ idle' = [idle EXCEPT ![<<KeyOf(t), t>>] =
                                         [i \in SessionIds(KeyOf(t)) |-> i]]
    /\ handle' = [handle EXCEPT ![t] = cache'[KeyOf(t)]]
    /\ built' = [built EXCEPT ![t] = 0]
    /\ Goto(t, "have")
    /\ UNCHANGED <<initVars, callVars, session, verified>>

SessionStep(t) == \/ Lookup(t)
                  \/ Verify(t)
                  \/ InitAgain(t)
                  \/ InitRefused(t)
                  \/ InitFirst(t)
                  \/ LoadLibrary(t)
                  \/ LoadLibraryFails(t)
                  \/ Record(t)
                  \/ BuildSession(t)
                  \/ BuildFails(t)
                  \/ CacheInsert(t)

-----------------------------------------------------------------------------
(* run(): the pool's mutex is held for one action at a time.               *)

CallRun(t) == /\ pc[t] = "have"
              /\ calls[t] < MaxCalls
              /\ calls' = [calls EXCEPT ![t] = @ + 1]
              /\ Goto(t, "take")
              /\ UNCHANGED <<initVars, poolVars, library, request, built, handle,
                             session, verified>>

Take(t) == /\ pc[t] = "take"
           /\ LET free == idle[PoolOf(t)] IN
                /\ free # <<>>
                /\ session' = [session EXCEPT ![t] = free[Len(free)]]
                /\ idle' = [idle EXCEPT ![PoolOf(t)] =
                                          SubSeq(free, 1, Len(free) - 1)]
           /\ Goto(t, "run")
           /\ UNCHANGED <<initVars, cache, callVars, built, handle, verified>>

(* available.wait gives the mutex back and blocks in one step.             *)
Wait(t) == /\ pc[t] = "take"
           /\ idle[PoolOf(t)] = <<>>
           /\ Goto(t, "wait")
           /\ UNCHANGED <<initVars, poolVars, callVars, built, handle, session,
                          verified>>

(* A condition variable may also wake a waiter for no reason.              *)
SpuriousWake(t) == /\ pc[t] = "wait"
                   /\ Goto(t, "take")
                   /\ UNCHANGED <<initVars, poolVars, callVars, built, handle,
                                  session, verified>>

(* The closure returns a result or an error, or it panics.                 *)
Infer(t) == /\ pc[t] = "run"
            /\ \E way \in {"release", "unwind"} : Goto(t, way)
            /\ UNCHANGED <<initVars, poolVars, callVars, built, handle, session,
                           verified>>

(* Where the caller stands once its session is back: a panic unwinds it.   *)
Released(t) == IF pc[t] = "unwind" THEN "idle" ELSE "have"

GiveBack(t) == /\ idle' = [idle EXCEPT ![PoolOf(t)] = Append(@, session[t])]
               /\ session' = [session EXCEPT ![t] = 0]
               /\ UNCHANGED <<initVars, cache, callVars, built, handle, verified>>

(* Mutants of Release: nobody is notified; no Drop, so that a panic keeps  *)
(* the session.                                                            *)
ReleaseSilently(t) == /\ pc[t] \in {"release", "unwind"}
                      /\ GiveBack(t)
                      /\ Goto(t, Released(t))

ReleaseWithoutDrop(t) ==
    \/ /\ pc[t] = "release"
       /\ GiveBack(t)
       /\ IF Waiters(PoolOf(t)) = {}
            THEN Goto(t, "have")
            ELSE \E w \in Waiters(PoolOf(t)) :
                    pc' = [pc EXCEPT ![t] = "have", ![w] = "take"]
    \/ /\ pc[t] = "unwind"
       /\ session' = [session EXCEPT ![t] = 0]
       /\ Goto(t, "idle")
       /\ UNCHANGED <<initVars, poolVars, callVars, built, handle, verified>>

(* SessionReturn: the session goes back and one waiter is notified.        *)
Release(t) == /\ pc[t] \in {"release", "unwind"}
              /\ GiveBack(t)
              /\ IF Waiters(PoolOf(t)) = {}
                   THEN Goto(t, Released(t))
                   ELSE \E w \in Waiters(PoolOf(t)) :
                          pc' = [pc EXCEPT ![t] = Released(t), ![w] = "take"]

RunStep(t) == \/ Take(t)
              \/ Wait(t)
              \/ Infer(t)
              \/ Release(t)

Done == /\ \A t \in Threads : pc[t] \in Resting
        /\ UNCHANGED vars

Next == \/ \E t \in Threads : \/ SessionStep(t)
                              \/ RunStep(t)
                              \/ CallSession(t)
                              \/ CallRun(t)
                              \/ SpuriousWake(t)
        \/ Done

(* A thread inside a call is scheduled, and an inference comes to an end.  *)
(* Nobody has to call, and no waiter may count on a spurious wake-up.      *)
Fairness == \A t \in Threads : WF_vars(SessionStep(t) \/ RunStep(t))

Spec == Init /\ [][Next]_vars
FairSpec == Spec /\ Fairness

-----------------------------------------------------------------------------
(* The idle sessions of a pool and the session a thread runs on are among  *)
(* those that were loaded for that pool.                                   *)
OwnSessions ==
    /\ \A p \in Pools :
          \A i \in 1 .. Len(idle[p]) : idle[p][i] \in SessionIds(p[1])
    /\ \A t \in Threads : pc[t] \in Using => session[t] \in SessionIds(KeyOf(t))

VarTypes == /\ loaded \in Libraries \cup {NoLibrary}
            /\ recorded \in Libraries \cup {NoLibrary}
            /\ initLock \in Threads \cup {NoThread}
            /\ cache \in [Keys -> Threads \cup {NoThread}]
            /\ idle \in [Pools -> Seq(Nat)]
            /\ library \in [Threads -> Libraries]
            /\ pc \in [Threads -> PCs]
            /\ request \in [Threads -> Requests]
            /\ built \in [Threads -> Nat]
            /\ handle \in [Threads -> Threads \cup {NoThread}]
            /\ session \in [Threads -> Nat]
            /\ calls \in [Threads -> 0 .. MaxCalls]
            /\ verified \in [Files -> Nat]
            /\ agreed \subseteq Libraries
            /\ \A t \in Threads : built[t] <= KeyOf(t).sessions

(* Every variable keeps its type: a build loads no more sessions than the  *)
(* key says, and a pool holds and hands out none but its own.              *)
TypeOK == VarTypes /\ OwnSessions

(* "once per process": every Ok that init has answered was for the library *)
(* the process really runs on, however many threads asked for different    *)
(* ones at the same time.                                                  *)
OneLibrary == agreed \subseteq {loaded}

(* "every caller for one key shares one Arc": threads that load one key at *)
(* the same time come out with the pool of the cache, and it never changes.*)
OnePoolPerKey == \A t \in Threads :
                     handle[t] # NoThread => cache[KeyOf(t)] = handle[t]

(* A pool in the cache was loaded from a file that passed its checksum, by *)
(* a process that had its library: no error path leaves a pool behind.     *)
PoolsAreVetted ==
    \A k \in Keys : cache[k] # NoThread =>
        /\ k.file \notin Missing \cup Corrupt
        /\ verified[k.file] > 0
        /\ recorded = loaded
        /\ loaded \in Usable

(* Each session of a pool is idle once or in the hands of one thread, also *)
(* after errors and panics: a pool never shrinks and no two threads run on *)
(* one session (run takes it mutably).                                     *)
SessionsConserved ==
    \A k \in Keys : LET p == <<k, cache[k]>> IN
        cache[k] # NoThread =>
            \A s \in SessionIds(k) :
                Cardinality({i \in DOMAIN idle[p] : idle[p][i] = s})
                  + Cardinality({t \in Users(p) : session[t] = s}) = 1

(* While threads wait on a pool, every idle session has a woken thread on  *)
(* its way to it: no wake-up is lost when arrivals take sessions before    *)
(* the notified thread gets the mutex.                                     *)
NoLostWakeup ==
    \A p \in Pools : Waiters(p) # {} => Cardinality(Takers(p)) >= Len(idle[p])

(* Every call returns: nobody waits on a pool for ever while sessions come *)
(* back to it, and nobody waits for INIT_LOCK for ever.                    *)
EveryCallReturns == \A t \in Threads : []<>(pc[t] \in Resting)

=============================================================================
