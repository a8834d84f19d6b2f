-------------------------- MODULE OcrRuntime_proofs --------------------------
(***************************************************************************)
(* Proofs about OcrRuntime, for any threads, requests, files and           *)
(* libraries: its type invariant, that the process runs on one library,    *)
(* that a key has one pool, that a pool was vetted, that its sessions are  *)
(* neither lost nor shared, and that no wake-up is lost.                   *)
(*                                                                         *)
(* OneLibrary alone is not inductive: it needs that whoever is between     *)
(* loading a library and recording it holds INIT_LOCK, and that with the   *)
(* lock free the recorded library is the loaded one.  PoolsAreVetted needs *)
(* what a thread on its way to cache_insert has already passed.            *)
(* SessionsConserved counts; PlacesInv says the same without counting:     *)
(* every session of a cached pool has one place.                           *)
(***************************************************************************)
EXTENDS OcrRuntime, SequenceTheorems, FiniteSetTheorems, TLAPS

(* A thread that has, awaits or uses a pool has its handle.                *)
HandleInv == \A t \in Threads :
                pc[t] \in {"have", "take", "wait"} \cup Using =>
                   handle[t] \in Threads

(* INIT_LOCK is held exactly by the thread that loads or records, and what *)
(* is loaded and what is recorded only differ between those two steps.     *)
InitInv == /\ \A t \in Threads : pc[t] \in {"load", "record"} <=> initLock = t
           /\ initLock = NoThread => loaded = recorded
           /\ recorded # NoLibrary => recorded = loaded
           /\ \A t \in Threads : pc[t] = "load" =>
                 /\ loaded = NoLibrary
                 /\ recorded = NoLibrary
                 /\ library[t] \in Usable
           /\ \A t \in Threads : pc[t] = "record" =>
                 /\ loaded = library[t]
                 /\ recorded = NoLibrary
           /\ loaded \in Usable \cup {NoLibrary}
           /\ agreed \subseteq {recorded}

(* What a thread has passed on its way from verify to cache_insert.        *)
Vetted(t) == /\ KeyOf(t).file \notin Missing \cup Corrupt
             /\ verified[KeyOf(t).file] > 0

BuildInv == /\ \A t \in Threads : pc[t] = "verify" =>
                  KeyOf(t).file \notin Missing
            /\ \A t \in Threads :
                  pc[t] \in {"init", "load", "record", "build"} => Vetted(t)
            /\ \A t \in Threads : pc[t] = "build" =>
                  recorded = library[t] /\ recorded # NoLibrary

(* Where the sessions of a cached pool are: no number is in the pool twice *)
(* or with two threads, none is in both places, and none is nowhere.       *)
Places(k, p) ==
    /\ \A i, j \in 1 .. Len(idle[p]) : i # j => idle[p][i] # idle[p][j]
    /\ \A u \in Users(p), i \in 1 .. Len(idle[p]) : session[u] # idle[p][i]
    /\ \A u, v \in Users(p) : u # v => session[u] # session[v]
    /\ \A s \in SessionIds(k) : \/ \E i \in 1 .. Len(idle[p]) : idle[p][i] = s
                                \/ \E u \in Users(p) : session[u] = s

PlacesInv == \A k \in Keys : cache[k] # NoThread => Places(k, <<k, cache[k]>>)

IInv == /\ VarTypes
        /\ OwnSessions
        /\ HandleInv
        /\ InitInv
        /\ BuildInv
        /\ OnePoolPerKey
        /\ PoolsAreVetted
        /\ NoLostWakeup
        /\ PlacesInv

-----------------------------------------------------------------------------
(* What is known of a request and its key.                                 *)
LEMMA KeyFacts ==
    ASSUME VarTypes, NEW t \in Threads
    PROVE  /\ KeyOf(t) \in Keys
           /\ KeyOf(t).file \in Files
           /\ KeyOf(t).sessions \in Nat
           /\ KeyOf(t).sessions > 0
<1>1. request[t] \in Requests
  BY DEF VarTypes
<1>2. request[t].sessions \in Nat /\ request[t].file \in Files
  BY <1>1, RuntimeAssumption DEF Files
<1>3. EffectivePool(request[t]) \in Nat /\ EffectivePool(request[t]) > 0
  BY <1>2 DEF EffectivePool, Max2
<1> QED
  BY <1>1, <1>2, <1>3 DEF KeyOf, CacheKey, Keys

(* The last element of a sequence and what is before it.                   *)
LEMMA LastAndFront ==
    ASSUME NEW S, NEW s \in Seq(S), s # <<>>
    PROVE  /\ Len(s) \in Nat \ {0}
           /\ s[Len(s)] \in S
           /\ SubSeq(s, 1, Len(s) - 1) \in Seq(S)
           /\ Len(SubSeq(s, 1, Len(s) - 1)) = Len(s) - 1
           /\ \A i \in 1 .. Len(s) - 1 : SubSeq(s, 1, Len(s) - 1)[i] = s[i]
<1> DEFINE n == Len(s)
<1>1. Len(s) \in Nat \ {0}
  BY EmptySeq, LenProperties
<1>2. \A i \in 1 .. Len(s) : s[i] \in S
  BY ElementOfSeq
<1>3. /\ Len(s) - 1 \in Int
      /\ \A i \in 1 .. Len(s) - 1 : s[i] \in S
  BY <1>1, <1>2
<1>4. /\ SubSeq(s, 1, Len(s) - 1) \in Seq(S)
      /\ Len(SubSeq(s, 1, Len(s) - 1)) = IF 1 <= Len(s) - 1
                                           THEN Len(s) - 1 - 1 + 1 ELSE 0
      /\ \A i \in 1 .. Len(s) - 1 - 1 + 1 :
            SubSeq(s, 1, Len(s) - 1)[i] = s[1 + i - 1]
  BY <1>3, SubSeqProperties
<1>5. Len(s) \in 1 .. Len(s)
  BY <1>1
<1>6. s[Len(s)] \in S
  BY <1>2, <1>5
<1>7. Len(SubSeq(s, 1, Len(s) - 1)) = Len(s) - 1
  <2> DEFINE m == Len(SubSeq(s, 1, n - 1))
  <2>1. n \in Nat /\ n >= 1 /\ m = IF 1 <= n - 1 THEN n - 1 - 1 + 1 ELSE 0
    BY <1>1, <1>4
  <2> HIDE DEF n, m
  <2>2. m = n - 1
    BY <2>1
  <2> QED
    BY <2>2 DEF n, m
<1> QED
  BY <1>1, <1>4, <1>6, <1>7

(* A new pool is a sequence of session numbers.                            *)
LEMMA AllSessions ==
    ASSUME NEW n \in Nat
    PROVE  /\ [i \in 1 .. n |-> i] \in Seq(Nat)
           /\ Len([i \in 1 .. n |-> i]) = n
<1>1. [i \in 1 .. n |-> i] \in [1 .. n -> Nat]
  OBVIOUS
<1>2. [i \in 1 .. n |-> i] \in Seq(Nat)
  BY <1>1, SeqDef
<1> QED
  BY <1>1, <1>2, LenProperties

(* The initial state satisfies the inductive invariant.                    *)
LEMMA InitIInv == Init => IInv
<1> SUFFICES ASSUME Init PROVE IInv
  OBVIOUS
<1>1. VarTypes
  <2>1. /\ request \in [Threads -> Requests]
        /\ library \in [Threads -> Libraries]
        /\ agreed \subseteq Libraries
        /\ pc \in [Threads -> PCs]
    BY DEF Init, PCs, Resting
  <2>2. /\ idle \in [Pools -> Seq(Nat)]
        /\ cache \in [Keys -> Threads \cup {NoThread}]
        /\ handle \in [Threads -> Threads \cup {NoThread}]
        /\ verified \in [Files -> Nat]
        /\ session \in [Threads -> Nat]
        /\ built \in [Threads -> Nat]
        /\ calls \in [Threads -> 0 .. MaxCalls]
    BY RuntimeAssumption DEF Init
  <2>3. \A t \in Threads : built[t] <= KeyOf(t).sessions
    <3> TAKE t \in Threads
    <3>1. request[t].sessions \in Nat
      BY <2>1, RuntimeAssumption
    <3>2. KeyOf(t).sessions = Max2(request[t].sessions, 1)
      BY DEF KeyOf, CacheKey, EffectivePool
    <3> QED
      BY <3>1, <3>2 DEF Init, Max2
  <2> QED
    BY <2>1, <2>2, <2>3 DEF VarTypes, Init
<1>2. HandleInv /\ InitInv
  BY RuntimeAssumption DEF Init, HandleInv, InitInv, Using
<1>3. BuildInv
  BY DEF Init, BuildInv
<1>4. OnePoolPerKey /\ PoolsAreVetted /\ PlacesInv
  BY DEF Init, OnePoolPerKey, PoolsAreVetted, PlacesInv
<1>5. NoLostWakeup
  BY DEF Init, NoLostWakeup, Waiters
<1>6. OwnSessions
  BY EmptySeq DEF Init, OwnSessions, Using
<1> QED
  BY <1>1, <1>2, <1>3, <1>4, <1>5, <1>6 DEF IInv

-----------------------------------------------------------------------------
(* Every step keeps the types.                                             *)
LEMMA TypeStep == VarTypes /\ HandleInv /\ [Next]_vars => VarTypes'
<1> SUFFICES ASSUME VarTypes, HandleInv, [Next]_vars PROVE VarTypes'
  OBVIOUS
<1> USE RuntimeAssumption DEF VarTypes, Goto
<1>k. \A t \in Threads : /\ KeyOf(t) \in Keys
                         /\ KeyOf(t).file \in Files
                         /\ KeyOf(t).sessions \in Nat
                         /\ KeyOf(t).sessions > 0
  BY KeyFacts
<1>s. UNCHANGED request => \A t \in Threads : KeyOf(t)' = KeyOf(t)
  BY DEF KeyOf
<1>b. ASSUME NEW t \in Threads, built' = [built EXCEPT ![t] = 0], UNCHANGED request
      PROVE  /\ built' \in [Threads -> Nat]
             /\ \A u \in Threads : built'[u] <= KeyOf(u)'.sessions
  <2>1. built' \in [Threads -> Nat]
    BY <1>b
  <2>2. ASSUME NEW u \in Threads PROVE built'[u] <= KeyOf(u).sessions
    <3>1. CASE u = t
      <4>1. built'[u] = 0
        BY <1>b, <3>1
      <4>2. KeyOf(u).sessions \in Nat
        BY <1>k
      <4> HIDE DEF VarTypes
      <4> QED
        BY <4>1, <4>2
    <3>2. CASE u # t
      BY <1>b, <3>2
    <3> QED
      BY <3>1, <3>2
  <2> QED
    BY <2>1, <2>2, <1>b, <1>s
<1>q. {"idle", "have", "lookup", "verify", "init", "load", "record", "build",
       "take", "wait", "run", "release", "unwind"} \subseteq PCs
  BY DEF PCs, Resting, Using
<1>1. ASSUME NEW t \in Threads, CallSession(t) PROVE VarTypes'
  <2>1. calls[t] \in 0 .. MaxCalls /\ calls[t] + 1 \in 0 .. MaxCalls
    BY <1>1 DEF CallSession
  <2>2. calls' \in [Threads -> 0 .. MaxCalls]
    BY <1>1, <2>1 DEF CallSession
  <2>3. handle' \in [Threads -> Threads \cup {NoThread}]
    BY <1>1 DEF CallSession
  <2>4. pc' \in [Threads -> PCs]
    BY <1>1, <1>q DEF CallSession
  <2>5. UNCHANGED <<initVars, poolVars, library, request, built, session,
                    verified>>
    BY <1>1 DEF CallSession
  <2>6. \A u \in Threads : built'[u] <= KeyOf(u)'.sessions
    BY <1>s, <2>5
  <2> QED
    BY <2>2, <2>3, <2>4, <2>5, <2>6 DEF initVars, poolVars
<1>2. ASSUME NEW t \in Threads, Lookup(t) PROVE VarTypes'
  <2>1. cache[KeyOf(t)] \in Threads \cup {NoThread}
    BY <1>k
  <2> QED
    BY <1>2, <2>1, <1>q, <1>s DEF Lookup, initVars, poolVars, callVars
<1>3. ASSUME NEW t \in Threads, Verify(t) PROVE VarTypes'
  <2>1. verified' \in [Files -> Nat]
    <3> DEFINE file == KeyOf(t).file
    <3>1. file \in Files /\ verified' = [verified EXCEPT ![file] = @ + 1]
      BY <1>3, <1>k DEF Verify
    <3>2. verified \in [Files -> Nat]
      OBVIOUS
    <3> HIDE DEF file, VarTypes
    <3> QED
      BY <3>1, <3>2
  <2>2. pc' \in [Threads -> PCs]
    <3>1. "idle" \in PCs /\ "init" \in PCs
      BY <1>q
    <3> QED
      BY <1>3, <3>1 DEF Verify
  <2>3. UNCHANGED <<initVars, poolVars, callVars, built, handle, session>>
    BY <1>3 DEF Verify
  <2> QED
    BY <2>1, <2>2, <2>3, <1>s DEF initVars, poolVars, callVars
<1>4. ASSUME NEW t \in Threads, InitAgain(t) PROVE VarTypes'
  BY <1>4, <1>q, <1>s DEF InitAgain, InitAnswers, poolVars, callVars
<1>5. ASSUME NEW t \in Threads, InitRefused(t) PROVE VarTypes'
  BY <1>5, <1>q, <1>s DEF InitRefused, InitAnswers, poolVars, callVars
<1>6. ASSUME NEW t \in Threads, InitFirst(t) PROVE VarTypes'
  BY <1>6, <1>q, <1>s DEF InitFirst, poolVars, callVars
<1>7. ASSUME NEW t \in Threads, LoadLibrary(t) PROVE VarTypes'
  BY <1>7, <1>q, <1>s DEF LoadLibrary, poolVars, callVars
<1>8. ASSUME NEW t \in Threads, LoadLibraryFails(t) PROVE VarTypes'
  BY <1>8, <1>q, <1>s DEF LoadLibraryFails, InitAnswers, poolVars, callVars
<1>9. ASSUME NEW t \in Threads, Record(t) PROVE VarTypes'
  BY <1>9, <1>q, <1>s DEF Record, InitAnswers, poolVars, callVars
<1>10. ASSUME NEW t \in Threads, BuildSession(t) PROVE VarTypes'
  <2>1. built[t] + 1 \in Nat /\ built[t] + 1 <= KeyOf(t).sessions
    BY <1>10, <1>k DEF BuildSession
  <2>2. UNCHANGED request
    BY <1>10 DEF BuildSession, callVars
  <2>3. \A u \in Threads : built'[u] <= KeyOf(u)'.sessions
    BY <1>10, <2>1, <2>2, <1>s DEF BuildSession
  <2>4. built' \in [Threads -> Nat]
    BY <1>10, <2>1 DEF BuildSession
  <2> QED
    BY <1>10, <2>3, <2>4 DEF BuildSession, initVars, poolVars, callVars
<1>11. ASSUME NEW t \in Threads, BuildFails(t) PROVE VarTypes'
  <2>1. UNCHANGED request
    BY <1>11 DEF BuildFails, callVars
  <2>2. /\ built' \in [Threads -> Nat]
        /\ \A u \in Threads : built'[u] <= KeyOf(u)'.sessions
    BY <1>11, <2>1, <1>b DEF BuildFails
  <2> QED
    BY <1>11, <2>2, <1>q DEF BuildFails, initVars, poolVars, callVars
<1>12. ASSUME NEW t \in Threads, CacheInsert(t) PROVE VarTypes'
  <2>1. <<KeyOf(t), t>> \in Pools
    BY <1>k DEF Pools
  <2>2. [i \in SessionIds(KeyOf(t)) |-> i] \in Seq(Nat)
    BY <1>k, AllSessions DEF SessionIds
  <2>3. /\ cache' \in [Keys -> Threads \cup {NoThread}]
        /\ idle' \in [Pools -> Seq(Nat)]
    <3>1. CASE cache[KeyOf(t)] # NoThread
      BY <1>12, <3>1 DEF CacheInsert, poolVars
    <3>2. CASE cache[KeyOf(t)] = NoThread
      <4> DEFINE all == [i \in SessionIds(KeyOf(t)) |-> i]
      <4>1. /\ cache' = [cache EXCEPT ![KeyOf(t)] = t]
            /\ idle' = [idle EXCEPT ![<<KeyOf(t), t>>] = all]
        BY <1>12, <3>2 DEF CacheInsert
      <4>2. all \in Seq(Nat)
        BY <2>2
      <4> HIDE DEF all
      <4> QED
        BY <4>1, <4>2, <2>1
    <3> QED
      BY <3>1, <3>2
  <2>4. UNCHANGED request
    BY <1>12 DEF CacheInsert, callVars
  <2>5. handle' \in [Threads -> Threads \cup {NoThread}]
    <3>1. cache'[KeyOf(t)] \in Threads \cup {NoThread}
      BY <1>k, <2>3
    <3> QED
      BY <1>12, <2>4, <1>s, <3>1 DEF CacheInsert
  <2>6. /\ built' \in [Threads -> Nat]
        /\ \A u \in Threads : built'[u] <= KeyOf(u)'.sessions
    BY <1>12, <2>4, <1>b DEF CacheInsert
  <2> QED
    BY <1>12, <2>3, <2>5, <2>6, <1>q DEF CacheInsert, initVars, callVars
<1>13. ASSUME NEW t \in Threads, CallRun(t) PROVE VarTypes'
  <2>1. calls[t] \in 0 .. MaxCalls /\ calls[t] + 1 \in 0 .. MaxCalls
    BY <1>13 DEF CallRun
  <2>2. calls' \in [Threads -> 0 .. MaxCalls]
    BY <1>13, <2>1 DEF CallRun
  <2> QED
    BY <1>13, <2>2, <1>q, <1>s DEF CallRun, initVars, poolVars
<1>14. ASSUME NEW t \in Threads, Take(t) PROVE VarTypes'
  <2> DEFINE free == idle[PoolOf(t)]
  <2>1. free \in Seq(Nat)
    <3>1. PoolOf(t) \in Pools
      BY <1>14, <1>k DEF Take, HandleInv, PoolOf, Pools
    <3> QED
      BY <3>1
  <2>2. free # <<>> => /\ free[Len(free)] \in Nat
                       /\ SubSeq(free, 1, Len(free) - 1) \in Seq(Nat)
    BY <2>1, LastAndFront
  <2>3. session' \in [Threads -> Nat] /\ idle' \in [Pools -> Seq(Nat)]
    BY <1>14, <2>2 DEF Take
  <2> QED
    BY <1>14, <2>3, <1>q, <1>s DEF Take, initVars, callVars
<1>15. ASSUME NEW t \in Threads, Wait(t) PROVE VarTypes'
  BY <1>15, <1>q, <1>s DEF Wait, initVars, poolVars, callVars
<1>16. ASSUME NEW t \in Threads, SpuriousWake(t) PROVE VarTypes'
  BY <1>16, <1>q, <1>s DEF SpuriousWake, initVars, poolVars, callVars
<1>17. ASSUME NEW t \in Threads, Infer(t) PROVE VarTypes'
  <2>1. "release" \in PCs /\ "unwind" \in PCs
    BY <1>q
  <2>2. pc' \in [Threads -> PCs]
    BY <1>17, <2>1 DEF Infer
  <2> QED
    BY <1>17, <2>2, <1>s DEF Infer, initVars, poolVars, callVars
<1>18. ASSUME NEW t \in Threads, Release(t) PROVE VarTypes'
  <2>1. idle' \in [Pools -> Seq(Nat)] /\ session' \in [Threads -> Nat]
    <3>1. PoolOf(t) \in Pools
      BY <1>18, <1>k DEF Release, HandleInv, Using, PoolOf, Pools
    <3>2. Append(idle[PoolOf(t)], session[t]) \in Seq(Nat)
      BY <3>1
    <3> QED
      BY <1>18, <3>1, <3>2 DEF Release, GiveBack
  <2>2. pc' \in [Threads -> PCs]
    <3>1. Released(t) \in PCs /\ "take" \in PCs
      BY <1>q DEF Released
    <3>2. CASE pc' = [pc EXCEPT ![t] = Released(t)]
      BY <3>1, <3>2
    <3>3. CASE \E w \in Threads :
                  pc' = [pc EXCEPT ![t] = Released(t), ![w] = "take"]
      BY <3>1, <3>3
    <3> QED
      BY <1>18, <3>2, <3>3 DEF Release, Waiters
  <2> QED
    BY <1>18, <2>1, <2>2, <1>s DEF Release, GiveBack, initVars, callVars
<1>19. ASSUME UNCHANGED vars PROVE VarTypes'
  BY <1>19, <1>s DEF vars
<1> QED
  BY <1>1, <1>2, <1>3, <1>4, <1>5, <1>6, <1>7, <1>8, <1>9, <1>10, <1>11, <1>12,
     <1>13, <1>14, <1>15, <1>16, <1>17, <1>18, <1>19
  DEF Next, SessionStep, RunStep, Done

-----------------------------------------------------------------------------
(* The steps of init keep its invariant; no other step touches what it     *)
(* speaks of, but for the program counters.                                *)
LEMMA InitStep == VarTypes /\ InitInv /\ [Next]_vars => InitInv'
<1> SUFFICES ASSUME VarTypes, InitInv, [Next]_vars PROVE InitInv'
  OBVIOUS
<1> USE RuntimeAssumption DEF InitInv, Goto
<1>t. /\ pc \in [Threads -> PCs]
      /\ library \in [Threads -> Libraries]
      /\ loaded \in Libraries \cup {NoLibrary}
      /\ recorded \in Libraries \cup {NoLibrary}
  BY DEF VarTypes
<1>o. ASSUME NEW t \in Threads,
             UNCHANGED <<initVars, library>>,
             pc[t] \notin {"load", "record"},
             \E where \in PCs \ {"load", "record"} :
                pc' = [pc EXCEPT ![t] = where]
      PROVE  InitInv'
  BY <1>o, <1>t DEF initVars
<1>q. {"idle", "have", "lookup", "verify", "init", "build", "take", "wait", "run",
       "release", "unwind"} \subseteq PCs \ {"load", "record"}
  BY DEF PCs, Resting, Using
<1>1. ASSUME NEW t \in Threads, CallSession(t) PROVE InitInv'
  BY <1>1, <1>o, <1>q DEF CallSession, Resting
<1>2. ASSUME NEW t \in Threads, Lookup(t) PROVE InitInv'
  BY <1>2, <1>o, <1>q DEF Lookup, callVars
<1>3. ASSUME NEW t \in Threads, Verify(t) PROVE InitInv'
  BY <1>3, <1>o, <1>q DEF Verify, callVars
<1>4. ASSUME NEW t \in Threads, InitAgain(t) PROVE InitInv'
  BY <1>4, <1>t DEF InitAgain, InitAnswers, callVars
<1>5. ASSUME NEW t \in Threads, InitRefused(t) PROVE InitInv'
  BY <1>5, <1>t DEF InitRefused, InitAnswers, callVars
<1>6. ASSUME NEW t \in Threads, InitFirst(t) PROVE InitInv'
  BY <1>6, <1>t DEF InitFirst, callVars
<1>7. ASSUME NEW t \in Threads, LoadLibrary(t) PROVE InitInv'
  BY <1>7, <1>t DEF LoadLibrary, callVars
<1>8. ASSUME NEW t \in Threads, LoadLibraryFails(t) PROVE InitInv'
  BY <1>8, <1>t DEF LoadLibraryFails, InitAnswers, callVars
<1>9. ASSUME NEW t \in Threads, Record(t) PROVE InitInv'
  <2>1. /\ recorded = NoLibrary
        /\ loaded = library[t]
        /\ library[t] \in Libraries
        /\ initLock = t
    BY <1>9, <1>t DEF Record
  <2>2. recorded' = loaded /\ library[t] = recorded'
    BY <1>9, <2>1 DEF Record
  <2>3. agreed' = agreed \cup {library[t]} /\ agreed = {}
    <3>1. agreed' = agreed \cup {library[t]}
      BY <1>9, <2>2 DEF Record, InitAnswers
    <3>2. agreed \subseteq Libraries
      BY DEF VarTypes
    <3> QED
      BY <2>1, <3>1, <3>2
  <2>4. initLock' = NoThread /\ UNCHANGED <<loaded, library>>
    BY <1>9 DEF Record, callVars
  <2>5. \A u \in Threads : pc'[u] \notin {"load", "record"}
    BY <1>9, <2>1, <1>t DEF Record, InitAnswers
  <2> QED
    BY <2>1, <2>2, <2>3, <2>4, <2>5
<1>10. ASSUME NEW t \in Threads, BuildSession(t) PROVE InitInv'
  BY <1>10 DEF BuildSession, initVars, callVars
<1>11. ASSUME NEW t \in Threads, BuildFails(t) PROVE InitInv'
  BY <1>11, <1>o, <1>q DEF BuildFails, callVars
<1>12. ASSUME NEW t \in Threads, CacheInsert(t) PROVE InitInv'
  BY <1>12, <1>o, <1>q DEF CacheInsert, callVars
<1>13. ASSUME NEW t \in Threads, CallRun(t) PROVE InitInv'
  BY <1>13, <1>o, <1>q DEF CallRun
<1>14. ASSUME NEW t \in Threads, Take(t) PROVE InitInv'
  BY <1>14, <1>o, <1>q DEF Take, callVars
<1>15. ASSUME NEW t \in Threads, Wait(t) \/ SpuriousWake(t) PROVE InitInv'
  BY <1>15, <1>o, <1>q DEF Wait, SpuriousWake, callVars
<1>16. ASSUME NEW t \in Threads, Infer(t) PROVE InitInv'
  BY <1>16, <1>o, <1>q DEF Infer, callVars
<1>17. ASSUME NEW t \in Threads, Release(t) PROVE InitInv'
  <2>1. UNCHANGED <<initVars, library>>
    BY <1>17 DEF Release, GiveBack, callVars
  <2>2. \A u \in Threads : \/ pc'[u] = pc[u]
                           \/ /\ pc[u] \notin {"load", "record"}
                              /\ pc'[u] \notin {"load", "record"}
    BY <1>17, <1>t DEF Release, Released, Waiters
  <2> QED
    BY <2>1, <2>2 DEF initVars
<1>18. ASSUME UNCHANGED vars PROVE InitInv'
  BY <1>18 DEF vars
<1> QED
  BY <1>1, <1>2, <1>3, <1>4, <1>5, <1>6, <1>7, <1>8, <1>9, <1>10, <1>11, <1>12,
     <1>13, <1>14, <1>15, <1>16, <1>17, <1>18
  DEF Next, SessionStep, RunStep, Done

-----------------------------------------------------------------------------
(* Handles are only given out by Lookup and CacheInsert, and both give the *)
(* pool of the cache.                                                      *)
LEMMA HandleStep ==
    VarTypes /\ HandleInv /\ OnePoolPerKey /\ [Next]_vars
       => HandleInv' /\ OnePoolPerKey'
<1> SUFFICES ASSUME VarTypes, HandleInv, OnePoolPerKey, [Next]_vars
             PROVE  HandleInv' /\ OnePoolPerKey'
  OBVIOUS
<1> USE RuntimeAssumption DEF HandleInv, OnePoolPerKey, Goto, Using
<1>t. /\ pc \in [Threads -> PCs]
      /\ handle \in [Threads -> Threads \cup {NoThread}]
      /\ cache \in [Keys -> Threads \cup {NoThread}]
  BY DEF VarTypes
<1>k. \A t \in Threads : KeyOf(t) \in Keys
  BY KeyFacts
<1>r. UNCHANGED request
  BY DEF Next, SessionStep, RunStep, Done, vars, callVars, CallSession, Lookup,
         Verify, InitAgain, InitRefused, InitFirst, LoadLibrary,
         LoadLibraryFails, Record, BuildSession, BuildFails, CacheInsert, CallRun,
         Take, Wait, SpuriousWake, Infer, Release, GiveBack
<1>s. \A t \in Threads : KeyOf(t)' = KeyOf(t)
  BY <1>r DEF KeyOf
<1>1. ASSUME NEW t \in Threads, CallSession(t)
      PROVE  HandleInv' /\ OnePoolPerKey'
  BY <1>1, <1>t, <1>s DEF CallSession, poolVars
<1>2. ASSUME NEW t \in Threads, Lookup(t)
      PROVE  HandleInv' /\ OnePoolPerKey'
  BY <1>2, <1>t, <1>k, <1>s DEF Lookup, poolVars
<1>3. ASSUME NEW t \in Threads, CacheInsert(t)
      PROVE  HandleInv' /\ OnePoolPerKey'
  <2>1. /\ cache'[KeyOf(t)] \in Threads
        /\ \A k \in Keys : cache[k] # NoThread => cache'[k] = cache[k]
    BY <1>3, <1>t, <1>k DEF CacheInsert, poolVars
  <2>2. handle' = [handle EXCEPT ![t] = cache'[KeyOf(t)]]
    BY <1>3, <1>s DEF CacheInsert
  <2>3. HandleInv'
    BY <1>3, <2>1, <2>2, <1>t DEF CacheInsert
  <2>4. ASSUME NEW u \in Threads, handle'[u] # NoThread
        PROVE  cache'[KeyOf(u)] = handle'[u]
    BY <2>1, <2>2, <2>4, <1>t, <1>k
  <2> QED
    BY <2>3, <2>4, <1>s
<1>4. ASSUME UNCHANGED <<handle, cache>>,
             \A u \in Threads : pc'[u] \in {"have", "take", "wait"} \cup Using =>
                pc[u] \in {"have", "take", "wait"} \cup Using
      PROVE  HandleInv' /\ OnePoolPerKey'
  BY <1>4, <1>s
<1>5. ASSUME NEW t \in Threads,
             \/ Verify(t) \/ InitAgain(t) \/ InitRefused(t) \/ InitFirst(t)
             \/ LoadLibrary(t) \/ LoadLibraryFails(t) \/ Record(t)
             \/ BuildSession(t) \/ BuildFails(t)
      PROVE  HandleInv' /\ OnePoolPerKey'
  BY <1>5, <1>4, <1>t DEF Verify, InitAgain, InitRefused, InitFirst, LoadLibrary,
     LoadLibraryFails, Record, BuildSession, BuildFails, InitAnswers, poolVars
<1>6. ASSUME NEW t \in Threads,
             \/ CallRun(t) \/ Take(t) \/ Wait(t) \/ SpuriousWake(t) \/ Infer(t)
      PROVE  HandleInv' /\ OnePoolPerKey'
  BY <1>6, <1>4, <1>t DEF CallRun, Take, Wait, SpuriousWake, Infer, poolVars
<1>7. ASSUME NEW t \in Threads, Release(t)
      PROVE  HandleInv' /\ OnePoolPerKey'
  BY <1>7, <1>4, <1>t DEF Release, GiveBack, Released, Waiters
<1>8. ASSUME UNCHANGED vars PROVE HandleInv' /\ OnePoolPerKey'
  BY <1>8, <1>4 DEF vars
<1> QED
  BY <1>1, <1>2, <1>3, <1>5, <1>6, <1>7, <1>8
  DEF Next, SessionStep, RunStep, Done

-----------------------------------------------------------------------------
(* A thread on its way to cache_insert has a file that exists and passed   *)
(* its checksum, and once it builds, the library the process runs on.      *)
LEMMA BuildStep ==
    VarTypes /\ InitInv /\ BuildInv /\ [Next]_vars => BuildInv'
<1> SUFFICES ASSUME VarTypes, InitInv, BuildInv, [Next]_vars PROVE BuildInv'
  OBVIOUS
<1> DEFINE onTheWay == {"init", "load", "record", "build"}
<1> USE RuntimeAssumption DEF BuildInv, Goto
<1>t. /\ pc \in [Threads -> PCs]
      /\ library \in [Threads -> Libraries]
      /\ verified \in [Files -> Nat]
  BY DEF VarTypes
<1>k. \A t \in Threads : KeyOf(t) \in Keys /\ KeyOf(t).file \in Files
  BY KeyFacts
<1>r. UNCHANGED <<request, library>>
  BY DEF Next, SessionStep, RunStep, Done, vars, callVars, CallSession, Lookup,
         Verify, InitAgain, InitRefused, InitFirst, LoadLibrary,
         LoadLibraryFails, Record, BuildSession, BuildFails, CacheInsert, CallRun,
         Take, Wait, SpuriousWake, Infer, Release, GiveBack
<1>s. \A t \in Threads : KeyOf(t)' = KeyOf(t)
  BY <1>r DEF KeyOf
<1>v. UNCHANGED verified => \A t \in Threads : Vetted(t)' = Vetted(t)
  BY <1>s DEF Vetted
<1>o. ASSUME UNCHANGED <<verified, recorded>>,
             \A u \in Threads : pc'[u] \in onTheWay \cup {"verify"} => pc'[u] = pc[u]
      PROVE  BuildInv'
  BY <1>o, <1>r, <1>s, <1>v
<1>1. ASSUME NEW t \in Threads, CallSession(t) PROVE BuildInv'
  BY <1>1, <1>o, <1>t DEF CallSession, initVars
<1>2. ASSUME NEW t \in Threads, Lookup(t) PROVE BuildInv'
  BY <1>2, <1>t, <1>r, <1>s, <1>v DEF Lookup, initVars
<1>3. ASSUME NEW t \in Threads, Verify(t) PROVE BuildInv'
  <2>1. /\ pc[t] = "verify"
        /\ KeyOf(t).file \notin Missing
        /\ pc' = [pc EXCEPT ![t] = IF KeyOf(t).file \in Corrupt
                                     THEN "idle" ELSE "init"]
        /\ verified' = [verified EXCEPT ![KeyOf(t).file] = @ + 1]
        /\ recorded' = recorded
    BY <1>3 DEF Verify, initVars
  <2>2. /\ \A f \in Files : verified[f] > 0 => verified'[f] > 0
        /\ verified'[KeyOf(t).file] > 0
    BY <2>1, <1>t, <1>k
  <2>3. \A u \in Threads : Vetted(u) => Vetted(u)'
    BY <2>2, <1>k, <1>s DEF Vetted
  <2>4. KeyOf(t).file \notin Corrupt => Vetted(t)'
    BY <2>1, <2>2, <1>s DEF Vetted
  <2> QED
    BY <2>1, <2>3, <2>4, <1>t, <1>r, <1>s
<1>4. ASSUME NEW t \in Threads, InitAgain(t) PROVE BuildInv'
  BY <1>4, <1>t, <1>r, <1>s, <1>v DEF InitAgain, InitAnswers
<1>5. ASSUME NEW t \in Threads, InitRefused(t) PROVE BuildInv'
  BY <1>5, <1>o, <1>t DEF InitRefused, InitAnswers
<1>6. ASSUME NEW t \in Threads, InitFirst(t) PROVE BuildInv'
  BY <1>6, <1>t, <1>r, <1>s, <1>v DEF InitFirst
<1>7. ASSUME NEW t \in Threads, LoadLibrary(t) PROVE BuildInv'
  BY <1>7, <1>t, <1>r, <1>s, <1>v DEF LoadLibrary
<1>8. ASSUME NEW t \in Threads, LoadLibraryFails(t) PROVE BuildInv'
  BY <1>8, <1>o, <1>t DEF LoadLibraryFails, InitAnswers
<1>9. ASSUME NEW t \in Threads, Record(t) PROVE BuildInv'
  <2>1. recorded = NoLibrary /\ library[t] \in Libraries
    BY <1>9, <1>t DEF Record, InitInv
  <2>2. \A u \in Threads : pc[u] # "build"
    BY <2>1
  <2> QED
    BY <1>9, <2>1, <2>2, <1>t, <1>r, <1>s, <1>v DEF Record, InitAnswers
<1>10. ASSUME NEW t \in Threads, BuildSession(t) PROVE BuildInv'
  BY <1>10, <1>o DEF BuildSession, initVars
<1>11. ASSUME NEW t \in Threads, BuildFails(t) \/ CacheInsert(t) PROVE BuildInv'
  BY <1>11, <1>o, <1>t DEF BuildFails, CacheInsert, initVars
<1>12. ASSUME NEW t \in Threads,
              \/ CallRun(t) \/ Take(t) \/ Wait(t) \/ SpuriousWake(t) \/ Infer(t)
       PROVE  BuildInv'
  BY <1>12, <1>o, <1>t DEF CallRun, Take, Wait, SpuriousWake, Infer, initVars
<1>13. ASSUME NEW t \in Threads, Release(t) PROVE BuildInv'
  BY <1>13, <1>o, <1>t DEF Release, GiveBack, Released, Waiters, initVars
<1>14. ASSUME UNCHANGED vars PROVE BuildInv'
  BY <1>14, <1>o DEF vars
<1> QED
  BY <1>1, <1>2, <1>3, <1>4, <1>5, <1>6, <1>7, <1>8, <1>9, <1>10, <1>11, <1>12,
     <1>13, <1>14
  DEF Next, SessionStep, RunStep, Done

(* Only cache_insert adds a pool, and it comes from a vetted file; once    *)
(* there is a pool the library is fixed.                                   *)
LEMMA PoolsStep ==
    VarTypes /\ InitInv /\ BuildInv /\ PoolsAreVetted /\ [Next]_vars
       => PoolsAreVetted'
<1> SUFFICES ASSUME VarTypes, InitInv, BuildInv, PoolsAreVetted, [Next]_vars
             PROVE  PoolsAreVetted'
  OBVIOUS
<1> USE RuntimeAssumption DEF PoolsAreVetted, Goto
<1>t. /\ cache \in [Keys -> Threads \cup {NoThread}]
      /\ verified \in [Files -> Nat]
      /\ loaded \in Libraries \cup {NoLibrary}
      /\ recorded \in Libraries \cup {NoLibrary}
  BY DEF VarTypes
<1>k. \A t \in Threads : KeyOf(t) \in Keys /\ KeyOf(t).file \in Files
  BY KeyFacts
<1>f. \A k \in Keys : k.file \in Files
  BY DEF Keys, CacheKey, Files
<1>1. ASSUME UNCHANGED <<cache, verified, loaded, recorded>>
      PROVE  PoolsAreVetted'
  BY <1>1
<1>2. ASSUME NEW t \in Threads, Verify(t) PROVE PoolsAreVetted'
  <2>1. \A f \in Files : verified[f] > 0 => verified'[f] > 0
    BY <1>2, <1>t DEF Verify
  <2> QED
    BY <1>2, <2>1, <1>f DEF Verify, poolVars, initVars
<1>3. ASSUME NEW t \in Threads, LoadLibrary(t) \/ Record(t) PROVE PoolsAreVetted'
  <2>1. recorded = NoLibrary
    BY <1>3 DEF LoadLibrary, Record, InitInv
  <2>2. \A k \in Keys : cache[k] = NoThread
    BY <2>1
  <2> QED
    BY <1>3, <2>2 DEF LoadLibrary, Record, poolVars
<1>4. ASSUME NEW t \in Threads, CacheInsert(t) PROVE PoolsAreVetted'
  <2>1. UNCHANGED <<verified, loaded, recorded>>
    BY <1>4 DEF CacheInsert, initVars
  <2>2. /\ Vetted(t)
        /\ recorded # NoLibrary
    BY <1>4 DEF CacheInsert, BuildInv
  <2>3. recorded = loaded /\ loaded \in Usable
    BY <2>2 DEF InitInv
  <2>4. \A k \in Keys : cache'[k] # NoThread => cache[k] # NoThread \/ k = KeyOf(t)
    BY <1>4, <1>t DEF CacheInsert, poolVars
  <2> QED
    BY <2>1, <2>2, <2>3, <2>4 DEF Vetted
<1>5. ASSUME NEW t \in Threads,
             \/ CallSession(t) \/ Lookup(t) \/ InitAgain(t) \/ InitRefused(t)
             \/ InitFirst(t) \/ LoadLibraryFails(t) \/ BuildSession(t)
             \/ BuildFails(t)
      PROVE  PoolsAreVetted'
  BY <1>5, <1>1 DEF CallSession, Lookup, InitAgain, InitRefused, InitFirst,
     LoadLibraryFails, BuildSession, BuildFails, initVars, poolVars
<1>6. ASSUME NEW t \in Threads,
             \/ CallRun(t) \/ Take(t) \/ Wait(t) \/ SpuriousWake(t) \/ Infer(t)
             \/ Release(t)
      PROVE  PoolsAreVetted'
  BY <1>6, <1>1 DEF CallRun, Take, Wait, SpuriousWake, Infer, Release, GiveBack,
     initVars, poolVars
<1>7. ASSUME UNCHANGED vars PROVE PoolsAreVetted'
  BY <1>7, <1>1 DEF vars
<1> QED
  BY <1>2, <1>3, <1>4, <1>5, <1>6, <1>7 DEF Next, SessionStep, RunStep, Done

-----------------------------------------------------------------------------
(* The threads on their way to a pool are finitely many.                   *)
LEMMA TakersFinite ==
    \A p : IsFiniteSet(Takers(p)) /\ Cardinality(Takers(p)) \in Nat
<1> TAKE p
<1>1. Takers(p) \in SUBSET Threads
  BY DEF Takers
<1>2. IsFiniteSet(Takers(p))
  BY <1>1, RuntimeAssumption, FS_Subset
<1> QED
  BY <1>2, FS_CardinalityType

(* A pool that is not in the cache has no taker, no waiter and no user.    *)
LEMMA NobodyAtNewPool ==
    ASSUME VarTypes, HandleInv, OnePoolPerKey,
           NEW k \in Keys, cache[k] = NoThread, NEW t \in Threads
    PROVE  Waiters(<<k, t>>) = {} /\ Users(<<k, t>>) = {}
<1>1. ASSUME NEW u \in Threads, PoolOf(u) = <<k, t>> PROVE FALSE
  <2>1. KeyOf(u) = k /\ handle[u] = t
    BY <1>1 DEF PoolOf
  <2> QED
    BY <2>1, RuntimeAssumption DEF OnePoolPerKey
<1> QED
  BY <1>1 DEF Waiters, Users

(* No wake-up is lost.                                                     *)
LEMMA WakeStep ==
    VarTypes /\ HandleInv /\ OnePoolPerKey /\ NoLostWakeup /\ [Next]_vars
       => NoLostWakeup'
<1> SUFFICES ASSUME VarTypes, HandleInv, OnePoolPerKey, NoLostWakeup, [Next]_vars
             PROVE  NoLostWakeup'
  OBVIOUS
<1> USE RuntimeAssumption DEF Goto
<1>t. /\ pc \in [Threads -> PCs]
      /\ handle \in [Threads -> Threads \cup {NoThread}]
      /\ idle \in [Pools -> Seq(Nat)]
  BY DEF VarTypes
<1>k. \A t \in Threads : KeyOf(t) \in Keys
  BY KeyFacts
<1>r. UNCHANGED request
  BY DEF Next, SessionStep, RunStep, Done, vars, callVars, CallSession, Lookup,
         Verify, InitAgain, InitRefused, InitFirst, LoadLibrary,
         LoadLibraryFails, Record, BuildSession, BuildFails, CacheInsert, CallRun,
         Take, Wait, SpuriousWake, Infer, Release, GiveBack
<1>s. \A t \in Threads : KeyOf(t)' = KeyOf(t)
  BY <1>r DEF KeyOf
<1>h. \A t \in Threads : handle'[t] = handle[t] => PoolOf(t)' = PoolOf(t)
  BY <1>s DEF PoolOf
<1>f. \A p : /\ IsFiniteSet(Takers(p)) /\ Cardinality(Takers(p)) \in Nat
             /\ IsFiniteSet(Takers(p)') /\ Cardinality(Takers(p)') \in Nat
  <2>1. \A p : Takers(p)' \in SUBSET Threads
    BY DEF Takers
  <2>2. \A p : IsFiniteSet(Takers(p)')
    BY <2>1, FS_Subset
  <2> QED
    BY <2>2, TakersFinite, FS_CardinalityType
<1>l. \A p \in Pools : Len(idle[p]) \in Nat
  BY <1>t, LenProperties
<1>o. ASSUME NEW p \in Pools,
             idle'[p] = idle[p],
             Takers(p) \subseteq Takers(p)',
             Waiters(p)' \subseteq Waiters(p)
      PROVE  Waiters(p)' # {} => Cardinality(Takers(p)') >= Len(idle'[p])
  <2>1. Cardinality(Takers(p)) <= Cardinality(Takers(p)')
    BY <1>o, <1>f, FS_Subset
  <2> QED
    BY <1>o, <1>f, <1>l, <2>1 DEF NoLostWakeup
<1>p. ASSUME UNCHANGED idle,
             \A u \in Threads : /\ pc[u] = "take" => /\ pc'[u] = "take"
                                                     /\ handle'[u] = handle[u]
                                /\ pc'[u] = "wait" => /\ pc[u] = "wait"
                                                      /\ handle'[u] = handle[u]
      PROVE  NoLostWakeup'
  <2>1. \A p \in Pools : Takers(p) \subseteq Takers(p)'
    BY <1>p, <1>h DEF Takers
  <2>2. \A p \in Pools : Waiters(p)' \subseteq Waiters(p)
    BY <1>p, <1>h DEF Waiters
  <2> QED
    BY <1>p, <1>o, <2>1, <2>2 DEF NoLostWakeup
<1>1. ASSUME NEW t \in Threads, CallSession(t) \/ Lookup(t) PROVE NoLostWakeup'
  BY <1>1, <1>p, <1>t DEF CallSession, Lookup, Resting, poolVars
<1>2. ASSUME NEW t \in Threads,
             \/ Verify(t) \/ InitAgain(t) \/ InitRefused(t) \/ InitFirst(t)
             \/ LoadLibrary(t) \/ LoadLibraryFails(t) \/ Record(t)
             \/ BuildSession(t) \/ BuildFails(t)
      PROVE  NoLostWakeup'
  BY <1>2, <1>p, <1>t DEF Verify, InitAgain, InitRefused, InitFirst, LoadLibrary,
     LoadLibraryFails, Record, BuildSession, BuildFails, InitAnswers, poolVars
<1>3. ASSUME NEW t \in Threads, CacheInsert(t) PROVE NoLostWakeup'
  <2>1. \A u \in Threads : /\ pc[u] = "take" => /\ pc'[u] = "take"
                                                /\ handle'[u] = handle[u]
                           /\ pc'[u] = "wait" => /\ pc[u] = "wait"
                                                 /\ handle'[u] = handle[u]
    BY <1>3, <1>t DEF CacheInsert
  <2>2. \A p \in Pools : /\ Takers(p) \subseteq Takers(p)'
                         /\ Waiters(p)' \subseteq Waiters(p)
    BY <2>1, <1>h DEF Takers, Waiters
  <2>3. CASE cache[KeyOf(t)] # NoThread
    BY <1>3, <2>1, <2>3, <1>p DEF CacheInsert, poolVars
  <2>4. CASE cache[KeyOf(t)] = NoThread
    <3>1. Waiters(<<KeyOf(t), t>>) = {}
      BY <2>4, <1>k, NobodyAtNewPool
    <3>2. \A p \in Pools : p # <<KeyOf(t), t>> => idle'[p] = idle[p]
      BY <1>3, <2>4, <1>t DEF CacheInsert
    <3>3. ASSUME NEW p \in Pools
          PROVE  Waiters(p)' # {} => Cardinality(Takers(p)') >= Len(idle'[p])
      <4>1. CASE p = <<KeyOf(t), t>>
        BY <4>1, <3>1, <2>2
      <4>2. CASE p # <<KeyOf(t), t>>
        BY <4>2, <3>2, <2>2, <1>o
      <4> QED
        BY <4>1, <4>2
    <3> QED
      BY <3>3 DEF NoLostWakeup
  <2> QED
    BY <2>3, <2>4
<1>4. ASSUME NEW t \in Threads, CallRun(t) \/ SpuriousWake(t) \/ Infer(t)
      PROVE  NoLostWakeup'
  BY <1>4, <1>p, <1>t DEF CallRun, SpuriousWake, Infer, poolVars
<1>5. ASSUME NEW t \in Threads, Take(t) PROVE NoLostWakeup'
  <2>0. PICK q : q = PoolOf(t)
    OBVIOUS
  <2>1. q \in Pools
    BY <1>5, <2>0, <1>k DEF Take, HandleInv, PoolOf, Pools
  <2>2. /\ pc[t] = "take"
        /\ pc' = [pc EXCEPT ![t] = "run"]
        /\ UNCHANGED handle
        /\ idle[q] # <<>>
        /\ idle' = [idle EXCEPT ![q] = SubSeq(idle[q], 1, Len(idle[q]) - 1)]
    BY <1>5, <2>0 DEF Take
  <2>3. \A p : /\ Takers(p)' = Takers(p) \ {t}
               /\ Waiters(p)' = Waiters(p)
    BY <2>2, <1>t, <1>h DEF Takers, Waiters
  <2>4. \A p \in Pools : p # q => idle'[p] = idle[p] /\ Takers(p)' = Takers(p)
    <3>1. \A p : p # q => t \notin Takers(p)
      BY <2>0 DEF Takers
    <3>2. \A p : p # q => Takers(p) \ {t} = Takers(p)
      BY <3>1
    <3>3. \A p \in Pools : p # q => idle'[p] = idle[p]
      BY <2>2, <1>t
    <3> QED
      BY <3>2, <3>3, <2>3
  <2>5. Waiters(q)' # {} => Cardinality(Takers(q)') >= Len(idle'[q])
    <3>1. idle[q] \in Seq(Nat)
      BY <2>1, <1>t
    <3>2. Len(idle'[q]) = Len(idle[q]) - 1
      BY <2>1, <2>2, <3>1, <1>t, LastAndFront
    <3>3. t \in Takers(q)
      BY <2>0, <2>2 DEF Takers
    <3>4. Cardinality(Takers(q)') = Cardinality(Takers(q)) - 1
      <4>1. Cardinality(Takers(q) \ {t}) = Cardinality(Takers(q)) - 1
        BY <3>3, <1>f, FS_RemoveElement
      <4> QED
        BY <4>1, <2>3
    <3>5. Waiters(q) # {} => Cardinality(Takers(q)) >= Len(idle[q])
      BY <2>1 DEF NoLostWakeup
    <3>6. Cardinality(Takers(q)) \in Nat /\ Len(idle[q]) \in Nat
      BY <2>1, <1>f, <1>l
    <3> QED
      BY <2>3, <3>2, <3>4, <3>5, <3>6
  <2>6. ASSUME NEW p \in Pools, p # q
        PROVE  Waiters(p)' # {} => Cardinality(Takers(p)') >= Len(idle'[p])
    BY <2>3, <2>4, <2>6, <1>o
  <2> QED
    BY <2>5, <2>6 DEF NoLostWakeup
<1>6. ASSUME NEW t \in Threads, Wait(t) PROVE NoLostWakeup'
  <2>1. /\ pc[t] = "take"
        /\ pc' = [pc EXCEPT ![t] = "wait"]
        /\ UNCHANGED <<handle, idle>>
        /\ idle[PoolOf(t)] = <<>>
    BY <1>6 DEF Wait, poolVars
  <2>2. ASSUME NEW p \in Pools
        PROVE  Waiters(p)' # {} => Cardinality(Takers(p)') >= Len(idle'[p])
    <3>1. CASE p = PoolOf(t)
      <4>1. Len(idle'[p]) = 0
        BY <2>1, <3>1
      <4>2. Cardinality(Takers(p)') \in Nat
        BY <1>f
      <4> QED
        BY <4>1, <4>2
    <3>2. CASE p # PoolOf(t)
      <4>1. Takers(p) \subseteq Takers(p)' /\ Waiters(p)' \subseteq Waiters(p)
        BY <2>1, <3>2, <1>t, <1>h DEF Takers, Waiters
      <4> QED
        BY <4>1, <2>1, <1>o
    <3> QED
      BY <3>1, <3>2
  <2> QED
    BY <2>2 DEF NoLostWakeup
<1>7. ASSUME NEW t \in Threads, Release(t) PROVE NoLostWakeup'
  <2>0. PICK q : q = PoolOf(t)
    OBVIOUS
  <2>1. q \in Pools
    BY <1>7, <2>0, <1>k DEF Release, HandleInv, Using, PoolOf, Pools
  <2>2. /\ pc[t] \in {"release", "unwind"}
        /\ UNCHANGED handle
        /\ idle' = [idle EXCEPT ![q] = Append(idle[q], session[t])]
    BY <1>7, <2>0 DEF Release, GiveBack
  <2>3. Released(t) \in {"idle", "have"}
    BY DEF Released
  <2>4. idle[q] \in Seq(Nat) /\ Len(idle[q]) \in Nat
    BY <2>1, <1>t, <1>l
  <2>5. Len(idle'[q]) = Len(idle[q]) + 1
    BY <2>1, <2>2, <2>4, <1>t
  <2>6. \A p \in Pools : p # q => idle'[p] = idle[p]
    BY <2>2, <1>t
  <2>7. CASE Waiters(q) = {}
    <3>1. pc' = [pc EXCEPT ![t] = Released(t)]
      BY <1>7, <2>0, <2>7 DEF Release
    <3>2. \A p : Takers(p)' = Takers(p) /\ Waiters(p)' = Waiters(p)
      BY <3>1, <2>2, <2>3, <1>t, <1>h DEF Takers, Waiters
    <3>3. ASSUME NEW p \in Pools
          PROVE  Waiters(p)' # {} => Cardinality(Takers(p)') >= Len(idle'[p])
      <4>1. CASE p = q
        BY <4>1, <3>2, <2>7
      <4>2. CASE p # q
        BY <4>2, <3>2, <2>6, <1>o
      <4> QED
        BY <4>1, <4>2
    <3> QED
      BY <3>3 DEF NoLostWakeup
  <2>8. CASE Waiters(q) # {}
    <3>1. PICK w \in Waiters(q) :
             pc' = [pc EXCEPT ![t] = Released(t), ![w] = "take"]
      BY <1>7, <2>0, <2>8 DEF Release
    <3>2. /\ w \in Threads
          /\ w # t
          /\ pc[w] = "wait"
          /\ PoolOf(w) = q
      BY <2>2 DEF Waiters
    <3>3. /\ Takers(q)' = Takers(q) \cup {w}
          /\ w \notin Takers(q)
      BY <3>1, <3>2, <2>2, <2>3, <1>t, <1>h DEF Takers
    <3>4. \A p : /\ Takers(p) \subseteq Takers(p)'
                 /\ Waiters(p)' \subseteq Waiters(p)
      BY <3>1, <3>2, <2>2, <2>3, <1>t, <1>h DEF Takers, Waiters
    <3>5. Cardinality(Takers(q)') = Cardinality(Takers(q)) + 1
      BY <3>3, <1>f, FS_AddElement
    <3>6. Cardinality(Takers(q)) >= Len(idle[q])
      BY <2>1, <2>8 DEF NoLostWakeup
    <3>7. Cardinality(Takers(q)') >= Len(idle'[q])
      BY <3>5, <3>6, <2>4, <2>5, <1>f
    <3>8. ASSUME NEW p \in Pools
          PROVE  Waiters(p)' # {} => Cardinality(Takers(p)') >= Len(idle'[p])
      <4>1. CASE p = q
        BY <4>1, <3>7
      <4>2. CASE p # q
        BY <4>2, <3>4, <2>6, <1>o
      <4> QED
        BY <4>1, <4>2
    <3> QED
      BY <3>8 DEF NoLostWakeup
  <2> QED
    BY <2>7, <2>8
<1>8. ASSUME UNCHANGED vars PROVE NoLostWakeup'
  BY <1>8, <1>p DEF vars
<1> QED
  BY <1>1, <1>2, <1>3, <1>4, <1>5, <1>6, <1>7, <1>8
  DEF Next, SessionStep, RunStep, Done

-----------------------------------------------------------------------------
(* Insertion fills a pool with the numbers of its own sessions, and run    *)
(* and release only pass them to and fro.                                  *)
LEMMA OwnStep ==
    VarTypes /\ HandleInv /\ OwnSessions /\ [Next]_vars => OwnSessions'
<1> SUFFICES ASSUME VarTypes, HandleInv, OwnSessions, [Next]_vars
             PROVE  OwnSessions'
  OBVIOUS
<1> USE RuntimeAssumption DEF Goto
<1>1. /\ pc \in [Threads -> PCs]
      /\ session \in [Threads -> Nat]
      /\ idle \in [Pools -> Seq(Nat)]
  BY DEF VarTypes
<1>2. \A t \in Threads : KeyOf(t) \in Keys /\ KeyOf(t).sessions \in Nat
  BY KeyFacts
<1>3. \A t \in Threads : KeyOf(t)' = KeyOf(t)
  <2>1. UNCHANGED request
    BY DEF Next, SessionStep, RunStep, Done, vars, callVars, CallSession, Lookup,
           Verify, InitAgain, InitRefused, InitFirst, LoadLibrary,
           LoadLibraryFails, Record, BuildSession, BuildFails, CacheInsert,
           CallRun, Take, Wait, SpuriousWake, Infer, Release, GiveBack
  <2> QED BY <2>1 DEF KeyOf
<1>4. \A t \in Threads : handle[t] \in Threads =>
         /\ PoolOf(t) \in Pools
         /\ PoolOf(t)[1] = KeyOf(t)
         /\ idle[PoolOf(t)] \in Seq(Nat)
  BY <1>1, <1>2 DEF PoolOf, Pools
<1>5. ASSUME UNCHANGED <<idle, session>>,
             \A u \in Threads : pc'[u] \in Using => pc[u] \in Using
      PROVE  OwnSessions'
  BY <1>3, <1>5 DEF OwnSessions, SessionIds
(* One pool and one thread change.                                         *)
<1>6. ASSUME NEW q \in Pools, NEW t \in Threads,
             \A p \in Pools : p # q => idle'[p] = idle[p],
             \A i \in 1 .. Len(idle'[q]) : idle'[q][i] \in SessionIds(q[1]),
             \A u \in Threads \ {t} : /\ session'[u] = session[u]
                                      /\ pc'[u] \in Using => pc[u] \in Using,
             pc'[t] \in Using => session'[t] \in SessionIds(KeyOf(t))
      PROVE  OwnSessions'
  <2>1. ASSUME NEW p \in Pools, NEW i \in 1 .. Len(idle'[p])
        PROVE  idle'[p][i] \in SessionIds(p[1])
    <3>1. CASE p = q
      BY <1>6, <2>1, <3>1
    <3>2. CASE p # q
      <4>1. idle'[p] = idle[p]
        BY <1>6, <3>2
      <4> QED BY <2>1, <4>1 DEF OwnSessions
    <3> QED BY <3>1, <3>2
  <2>2. ASSUME NEW u \in Threads, pc'[u] \in Using
        PROVE  session'[u] \in SessionIds(KeyOf(u))
    <3>1. CASE u = t
      BY <1>6, <2>2, <3>1
    <3>2. CASE u # t
      <4>1. u \in Threads \ {t}
        BY <3>2
      <4>2. session'[u] = session[u] /\ pc[u] \in Using
        BY <1>6, <2>2, <4>1
      <4> QED BY <4>2 DEF OwnSessions
    <3> QED BY <3>1, <3>2
  <2> QED BY <1>3, <2>1, <2>2 DEF OwnSessions, SessionIds
<1>7. ASSUME NEW t \in Threads,
             \/ CallSession(t) \/ Lookup(t) \/ Verify(t) \/ InitAgain(t)
             \/ InitRefused(t) \/ InitFirst(t) \/ LoadLibrary(t)
             \/ LoadLibraryFails(t) \/ Record(t) \/ BuildSession(t)
             \/ BuildFails(t)
      PROVE  OwnSessions'
  BY <1>7, <1>5, <1>1 DEF CallSession, Lookup, Verify, InitAgain, InitRefused,
     InitFirst, LoadLibrary, LoadLibraryFails, Record, BuildSession, BuildFails,
     InitAnswers, Using, poolVars
<1>8. ASSUME NEW t \in Threads,
             CallRun(t) \/ Wait(t) \/ SpuriousWake(t) \/ Infer(t)
      PROVE  OwnSessions'
  BY <1>8, <1>5, <1>1 DEF CallRun, Wait, SpuriousWake, Infer, Using, poolVars
<1>9. ASSUME NEW t \in Threads, CacheInsert(t)
      PROVE  OwnSessions'
  <2>1. pc' = [pc EXCEPT ![t] = "have"] /\ UNCHANGED session
    BY <1>9 DEF CacheInsert
  <2>2. \A u \in Threads : pc'[u] \in Using => pc[u] \in Using
    BY <1>1, <2>1 DEF Using
  <2>3. CASE UNCHANGED idle
    BY <1>5, <2>1, <2>2, <2>3
  <2>4. CASE ~UNCHANGED idle
    <3>1. PICK q, n : q = <<KeyOf(t), t>> /\ n = KeyOf(t).sessions
      OBVIOUS
    <3>2. /\ idle' = [idle EXCEPT ![q] = [i \in 1 .. n |-> i]]
          /\ q \in Pools
          /\ n \in Nat
          /\ SessionIds(q[1]) = 1 .. n
      BY <1>2, <1>9, <2>4, <3>1 DEF CacheInsert, SessionIds, Pools, poolVars
    <3>3. idle'[q] = [i \in 1 .. n |-> i] /\ Len(idle'[q]) = n
      BY <1>1, <3>2, AllSessions
    <3>4. \A p \in Pools : p # q => idle'[p] = idle[p]
      BY <1>1, <3>2
    <3>5. \A i \in 1 .. Len(idle'[q]) : idle'[q][i] \in SessionIds(q[1])
      BY <3>2, <3>3
    <3>6. pc'[t] \notin Using
      BY <1>1, <2>1 DEF Using
    <3> QED BY <1>6, <2>1, <2>2, <3>2, <3>4, <3>5, <3>6
  <2> QED BY <2>3, <2>4
<1>10. ASSUME NEW t \in Threads, Take(t)
       PROVE  OwnSessions'
  <2>1. PICK q, s : q = PoolOf(t) /\ s = idle[q]
    OBVIOUS
  <2>2. /\ q \in Pools
        /\ q[1] = KeyOf(t)
        /\ s \in Seq(Nat)
        /\ s # <<>>
        /\ \A i \in 1 .. Len(s) : s[i] \in SessionIds(q[1])
    BY <1>4, <1>10, <2>1 DEF Take, HandleInv, OwnSessions
  <2>3. /\ idle' = [idle EXCEPT ![q] = SubSeq(s, 1, Len(s) - 1)]
        /\ session' = [session EXCEPT ![t] = s[Len(s)]]
        /\ pc' = [pc EXCEPT ![t] = "run"]
    BY <1>10, <2>1 DEF Take
  <2>4. /\ Len(s) \in Nat \ {0}
        /\ Len(s) \in 1 .. Len(s)
        /\ Len(SubSeq(s, 1, Len(s) - 1)) = Len(s) - 1
        /\ \A i \in 1 .. Len(s) - 1 : SubSeq(s, 1, Len(s) - 1)[i] = s[i]
    <3>1. Len(s) \in Nat \ {0}
      BY <2>2, LastAndFront
    <3> QED BY <2>2, <3>1, LastAndFront
  <2>5. idle'[q] = SubSeq(s, 1, Len(s) - 1)
    BY <1>1, <2>2, <2>3
  <2>6. \A i \in 1 .. Len(idle'[q]) : idle'[q][i] \in SessionIds(q[1])
    BY <2>2, <2>4, <2>5
  <2>7. session'[t] \in SessionIds(KeyOf(t))
    BY <1>1, <2>2, <2>3, <2>4
  <2>8. \A u \in Threads \ {t} : session'[u] = session[u] /\ pc'[u] = pc[u]
    BY <1>1, <2>3
  <2>9. \A p \in Pools : p # q => idle'[p] = idle[p]
    BY <1>1, <2>3
  <2> QED BY <1>6, <2>2, <2>6, <2>7, <2>8, <2>9
<1>11. ASSUME NEW t \in Threads, Release(t)
       PROVE  OwnSessions'
  <2>1. PICK q, s : q = PoolOf(t) /\ s = idle[q]
    OBVIOUS
  <2>2. /\ q \in Pools
        /\ q[1] = KeyOf(t)
        /\ s \in Seq(Nat)
        /\ session[t] \in Nat
        /\ session[t] \in SessionIds(q[1])
        /\ \A i \in 1 .. Len(s) : s[i] \in SessionIds(q[1])
    BY <1>1, <1>4, <1>11, <2>1 DEF Release, HandleInv, OwnSessions, Using
  <2>3. /\ idle' = [idle EXCEPT ![q] = Append(s, session[t])]
        /\ session' = [session EXCEPT ![t] = 0]
    BY <1>1, <1>11, <2>1, <2>2 DEF Release, GiveBack
  <2>4. /\ Len(Append(s, session[t])) = Len(s) + 1
        /\ Append(s, session[t])[Len(s) + 1] = session[t]
        /\ \A i \in 1 .. Len(s) : Append(s, session[t])[i] = s[i]
        /\ Len(s) \in Nat
    BY <2>2, AppendProperties, LenProperties
  <2>5. idle'[q] = Append(s, session[t])
    BY <1>1, <2>2, <2>3
  <2>6. \A i \in 1 .. Len(idle'[q]) : idle'[q][i] \in SessionIds(q[1])
    <3>1. 1 .. Len(s) + 1 = (1 .. Len(s)) \cup {Len(s) + 1}
      BY <2>4
    <3> QED BY <2>2, <2>4, <2>5, <3>1
  <2>7. \A u \in Threads : pc'[u] \in Using => u # t /\ pc[u] \in Using
    BY <1>1, <1>11 DEF Release, Released, Using
  <2>8. \A u \in Threads \ {t} : session'[u] = session[u]
    BY <1>1, <2>3
  <2>9. \A p \in Pools : p # q => idle'[p] = idle[p]
    BY <1>1, <2>3
  <2> QED BY <1>6, <2>2, <2>6, <2>7, <2>8, <2>9
<1>12. ASSUME UNCHANGED vars
       PROVE  OwnSessions'
  BY <1>5, <1>12 DEF vars
<1> QED
  BY <1>7, <1>8, <1>9, <1>10, <1>11, <1>12 DEF Next, SessionStep, RunStep, Done

-----------------------------------------------------------------------------
(* The places of the sessions: nothing but insertion, run and release      *)
(* moves a session, and each keeps the places apart.                       *)
LEMMA PlacesStep ==
    VarTypes /\ HandleInv /\ OnePoolPerKey /\ PlacesInv /\ [Next]_vars
       => PlacesInv'
<1> SUFFICES ASSUME VarTypes, HandleInv, OnePoolPerKey, PlacesInv, [Next]_vars
             PROVE  PlacesInv'
  OBVIOUS
<1> USE RuntimeAssumption DEF Goto
<1>t. /\ pc \in [Threads -> PCs]
      /\ handle \in [Threads -> Threads \cup {NoThread}]
      /\ cache \in [Keys -> Threads \cup {NoThread}]
      /\ session \in [Threads -> Nat]
      /\ idle \in [Pools -> Seq(Nat)]
  BY DEF VarTypes
<1>k. \A t \in Threads : KeyOf(t) \in Keys
  BY KeyFacts
<1>r. UNCHANGED request
  BY DEF Next, SessionStep, RunStep, Done, vars, callVars, CallSession, Lookup,
         Verify, InitAgain, InitRefused, InitFirst, LoadLibrary,
         LoadLibraryFails, Record, BuildSession, BuildFails, CacheInsert, CallRun,
         Take, Wait, SpuriousWake, Infer, Release, GiveBack
<1>s. \A t \in Threads : KeyOf(t)' = KeyOf(t)
  BY <1>r DEF KeyOf
<1>h. \A t \in Threads : handle'[t] = handle[t] => PoolOf(t)' = PoolOf(t)
  BY <1>s DEF PoolOf
<1>o. ASSUME NEW k \in Keys, NEW p,
             idle'[p] = idle[p],
             Users(p)' = Users(p),
             \A u \in Users(p) : session'[u] = session[u],
             Places(k, p)
      PROVE  Places(k, p)'
  BY <1>o DEF Places, SessionIds
<1>p. ASSUME UNCHANGED <<cache, idle, session>>,
             \A u \in Threads : /\ pc'[u] \in Using <=> pc[u] \in Using
                                /\ pc[u] \in Using => handle'[u] = handle[u]
      PROVE  PlacesInv'
  <2>1. \A p : Users(p)' = Users(p)
    BY <1>p, <1>h DEF Users
  <2>2. ASSUME NEW k \in Keys, cache'[k] # NoThread
        PROVE  Places(k, <<k, cache[k]>>)'
    <3>1. PICK p : p = <<k, cache[k]>>
      OBVIOUS
    <3>2. p' = <<k, cache'[k]>> /\ cache[k] # NoThread
      BY <1>p, <2>2, <3>1
    <3>3. Places(k, p)
      BY <3>1, <3>2 DEF PlacesInv
    <3>4. Places(k, p)'
      BY <3>3, <2>1, <1>p, <1>o
    <3> QED
      BY <3>2, <3>4 DEF Places, SessionIds
  <2> QED
    BY <2>2 DEF PlacesInv
<1>1. ASSUME NEW t \in Threads, CallSession(t) \/ Lookup(t) PROVE PlacesInv'
  BY <1>1, <1>p, <1>t DEF CallSession, Lookup, Resting, Using, poolVars
<1>2. ASSUME NEW t \in Threads,
             \/ Verify(t) \/ InitAgain(t) \/ InitRefused(t) \/ InitFirst(t)
             \/ LoadLibrary(t) \/ LoadLibraryFails(t) \/ Record(t)
             \/ BuildSession(t) \/ BuildFails(t)
      PROVE  PlacesInv'
  BY <1>2, <1>p, <1>t DEF Verify, InitAgain, InitRefused, InitFirst, LoadLibrary,
     LoadLibraryFails, Record, BuildSession, BuildFails, InitAnswers, Using,
     poolVars
<1>3. ASSUME NEW t \in Threads,
             CallRun(t) \/ Wait(t) \/ SpuriousWake(t) \/ Infer(t)
      PROVE  PlacesInv'
  BY <1>3, <1>p, <1>t DEF CallRun, Wait, SpuriousWake, Infer, Using, poolVars
<1>8. ASSUME UNCHANGED vars PROVE PlacesInv'
  BY <1>8, <1>p DEF vars
(* A cached pool after a step that changes one pool only.                  *)
<1>e. ASSUME NEW q,
             \A k \in Keys : cache'[k] # NoThread =>
                \/ /\ <<k, cache'[k]>> = q
                   /\ Places(k, q)'
                \/ /\ <<k, cache'[k]>> # q
                   /\ cache[k] = cache'[k]
                   /\ idle'[<<k, cache[k]>>] = idle[<<k, cache[k]>>],
             \A p : p # q => Users(p)' = Users(p),
             \A p : \A u \in Users(p) : p # q => session'[u] = session[u]
      PROVE  PlacesInv'
  <2>1. ASSUME NEW k \in Keys, cache'[k] # NoThread
        PROVE  Places(k, <<k, cache[k]>>)'
    <3>1. PICK p : p = <<k, cache'[k]>>
      OBVIOUS
    <3>2. CASE p = q
      <4>1. Places(k, q)'
        BY <1>e, <2>1, <3>1, <3>2
      <4> QED
        BY <4>1, <3>1, <3>2 DEF Places, SessionIds
    <3>3. CASE p # q
      <4>1. p = <<k, cache[k]>> /\ cache[k] # NoThread
        BY <1>e, <2>1, <3>1, <3>3
      <4>2. Places(k, p)
        BY <4>1 DEF PlacesInv
      <4>3. idle'[p] = idle[p]
        BY <1>e, <2>1, <3>1, <3>3, <4>1
      <4>4. Places(k, p)'
        BY <4>2, <4>3, <3>3, <1>e, <1>o
      <4> QED
        BY <4>4, <3>1 DEF Places, SessionIds
    <3> QED
      BY <3>2, <3>3
  <2> QED
    BY <2>1 DEF PlacesInv
<1>4. ASSUME NEW t \in Threads, CacheInsert(t) PROVE PlacesInv'
  <2>1. /\ pc[t] = "build"
        /\ pc' = [pc EXCEPT ![t] = "have"]
        /\ handle' = [handle EXCEPT ![t] = cache'[KeyOf(t)]]
        /\ UNCHANGED session
    BY <1>4, <1>s DEF CacheInsert
  <2>2. \A u \in Threads : /\ pc'[u] \in Using <=> pc[u] \in Using
                           /\ pc[u] \in Using => handle'[u] = handle[u]
    BY <2>1, <1>t DEF Using
  <2>3. CASE cache[KeyOf(t)] # NoThread
    BY <1>4, <2>1, <2>2, <2>3, <1>p DEF CacheInsert, poolVars
  <2>4. CASE cache[KeyOf(t)] = NoThread
    <3>1. PICK q, n : q = <<KeyOf(t), t>> /\ n = KeyOf(t).sessions
      OBVIOUS
    <3>2. /\ cache' = [cache EXCEPT ![KeyOf(t)] = t]
          /\ idle' = [idle EXCEPT ![q] = [i \in 1 .. n |-> i]]
          /\ q \in Pools
          /\ n \in Nat
      BY <1>4, <2>4, <3>1, <1>k, KeyFacts DEF CacheInsert, SessionIds, Pools
    <3>3. \A p : Users(p)' = Users(p)
      BY <2>2, <1>h DEF Users
    <3>4. Users(q)' = {}
      BY <3>1, <3>3, <2>4, <1>k, NobodyAtNewPool
    <3>5. Places(KeyOf(t), q)'
      <4>1. idle'[q] = [i \in 1 .. n |-> i] /\ Len(idle'[q]) = n
        BY <3>2, <1>t, AllSessions
      <4> QED
        BY <4>1, <3>1, <3>2, <3>4, <1>s DEF Places, SessionIds
    <3>6. ASSUME NEW k \in Keys, cache'[k] # NoThread, k # KeyOf(t)
          PROVE  /\ <<k, cache'[k]>> # q
                 /\ cache[k] = cache'[k]
                 /\ idle'[<<k, cache[k]>>] = idle[<<k, cache[k]>>]
      <4>1. cache'[k] = cache[k] /\ cache[k] \in Threads
        BY <3>2, <3>6, <1>t
      <4>2. <<k, cache[k]>> \in Pools /\ <<k, cache[k]>> # q
        BY <4>1, <3>1, <3>6 DEF Pools
      <4> QED
        BY <4>1, <4>2, <3>2, <1>t
    <3>7. cache'[KeyOf(t)] = t
      BY <3>2, <1>t, <1>k
    <3>8. ASSUME NEW k \in Keys, cache'[k] # NoThread
          PROVE  \/ /\ <<k, cache'[k]>> = q
                    /\ Places(k, q)'
                 \/ /\ <<k, cache'[k]>> # q
                    /\ cache[k] = cache'[k]
                    /\ idle'[<<k, cache[k]>>] = idle[<<k, cache[k]>>]
      <4>1. CASE k = KeyOf(t)
        <5>1. Places(k, q)'
          BY <4>1, <3>5, <1>s DEF Places, SessionIds
        <5> QED
          BY <5>1, <4>1, <3>1, <3>7
      <4>2. CASE k # KeyOf(t)
        BY <4>2, <3>6, <3>8
      <4> QED
        BY <4>1, <4>2
    <3> QED
      BY <3>3, <3>8, <2>1, <1>e
  <2> QED
    BY <2>3, <2>4
(* What Take and Release have in common: one pool in use changes.          *)
<1>u. ASSUME NEW t \in Threads, NEW q,
             q = PoolOf(t),
             handle[t] \in Threads,
             UNCHANGED <<cache, handle>>,
             \A u \in Threads : u # t => /\ session'[u] = session[u]
                                         /\ pc'[u] \in Using <=> pc[u] \in Using,
             \A p \in Pools : p # q => idle'[p] = idle[p],
             Places(KeyOf(t), q) => Places(KeyOf(t), q)'
      PROVE  PlacesInv'
  <2>1. cache[KeyOf(t)] = handle[t] /\ q = <<KeyOf(t), cache[KeyOf(t)]>>
    BY <1>u DEF OnePoolPerKey, PoolOf
  <2>2. Places(KeyOf(t), q)'
    BY <2>1, <1>u, <1>k DEF PlacesInv
  <2>3. \A p : p # q => Users(p)' = Users(p)
    BY <1>u, <1>h DEF Users
  <2>4. \A p : \A u \in Users(p) : p # q => session'[u] = session[u]
    BY <1>u DEF Users
  <2>5. ASSUME NEW k \in Keys, cache'[k] # NoThread
        PROVE  \/ /\ <<k, cache'[k]>> = q
                  /\ Places(k, q)'
               \/ /\ <<k, cache'[k]>> # q
                  /\ cache[k] = cache'[k]
                  /\ idle'[<<k, cache[k]>>] = idle[<<k, cache[k]>>]
    <3>1. CASE <<k, cache'[k]>> = q
      <4>1. k = KeyOf(t)
        BY <3>1, <2>1
      <4>2. Places(k, q)'
        BY <4>1, <2>2, <1>s DEF Places, SessionIds
      <4> QED
        BY <3>1, <4>2
    <3>2. CASE <<k, cache'[k]>> # q
      <4>1. cache[k] = cache'[k] /\ cache[k] \in Threads
        BY <2>5, <1>u, <1>t
      <4>2. <<k, cache[k]>> \in Pools
        BY <4>1 DEF Pools
      <4> QED
        BY <3>2, <4>1, <4>2, <1>u
    <3> QED
      BY <3>1, <3>2
  <2> QED
    BY <2>3, <2>4, <2>5, <1>e
<1>5. ASSUME NEW t \in Threads, Take(t) PROVE PlacesInv'
  <2>0. PICK q, n : q = PoolOf(t) /\ n = Len(idle[q])
    OBVIOUS
  <2>1. q \in Pools /\ handle[t] \in Threads
    BY <1>5, <2>0, <1>k DEF Take, HandleInv, PoolOf, Pools
  <2>2. /\ pc[t] = "take"
        /\ pc' = [pc EXCEPT ![t] = "run"]
        /\ UNCHANGED <<cache, handle>>
        /\ idle[q] # <<>>
        /\ session' = [session EXCEPT ![t] = idle[q][n]]
        /\ idle' = [idle EXCEPT ![q] = SubSeq(idle[q], 1, n - 1)]
    BY <1>5, <2>0 DEF Take
  <2>3. idle[q] \in Seq(Nat) /\ n \in Nat /\ n > 0
    BY <2>0, <2>1, <2>2, <1>t, LastAndFront
  <2>4. /\ Len(idle'[q]) = n - 1
        /\ \A i \in 1 .. n - 1 : idle'[q][i] = idle[q][i]
    <3>1. \A i \in 1 .. n - 1 : idle[q][i] \in Nat
      BY <2>0, <2>3, ElementOfSeq
    <3>2. /\ Len(SubSeq(idle[q], 1, n - 1)) = n - 1
          /\ \A i \in 1 .. n - 1 : SubSeq(idle[q], 1, n - 1)[i] = idle[q][i]
      BY <2>0, <2>3
    <3> QED
      BY <3>2, <2>1, <2>2, <1>t
  <2>5. Users(q)' = Users(q) \cup {t} /\ t \notin Users(q)
    BY <2>0, <2>2, <1>t, <1>h DEF Users, Using
  <2>6. /\ session'[t] = idle[q][n]
        /\ \A u \in Users(q) : session'[u] = session[u]
    BY <2>2, <2>5, <1>t DEF Users
  <2>7. ASSUME Places(KeyOf(t), q) PROVE Places(KeyOf(t), q)'
    <3>a. /\ \A i \in 1 .. n - 1 : i \in 1 .. n /\ i # n
          /\ n \in 1 .. n
      BY <2>3
    <3>b. /\ \A i, j \in 1 .. n : i # j => idle[q][i] # idle[q][j]
          /\ \A u \in Users(q), i \in 1 .. n : session[u] # idle[q][i]
      BY <2>0, <2>7 DEF Places
    <3>1. \A i, j \in 1 .. n - 1 : i # j => idle'[q][i] # idle'[q][j]
      BY <3>a, <3>b, <2>4
    <3>2. ASSUME NEW u \in Users(q)', NEW i \in 1 .. n - 1
          PROVE  session'[u] # idle'[q][i]
      <4>1. CASE u = t
        BY <4>1, <3>a, <3>b, <2>4, <2>6
      <4>2. CASE u # t
        BY <4>2, <3>a, <3>b, <2>4, <2>5, <2>6
      <4> QED
        BY <4>1, <4>2
    <3>3. \A u, v \in Users(q)' : u # v => session'[u] # session'[v]
      BY <2>0, <2>3, <2>5, <2>6, <2>7 DEF Places
    <3>4. ASSUME NEW x \in SessionIds(KeyOf(t))
          PROVE  \/ \E i \in 1 .. n - 1 : idle'[q][i] = x
                 \/ \E u \in Users(q)' : session'[u] = x
      <4>1. CASE \E u \in Users(q) : session[u] = x
        BY <4>1, <2>5, <2>6
      <4>2. CASE idle[q][n] = x
        BY <4>2, <2>5, <2>6
      <4>3. CASE \E i \in 1 .. n - 1 : idle[q][i] = x
        BY <4>3, <2>4
      <4>4. \A i \in 1 .. n : i = n \/ i \in 1 .. n - 1
        BY <2>3
      <4> QED
        BY <4>1, <4>2, <4>3, <4>4, <2>0, <2>7 DEF Places
    <3> QED
      BY <3>1, <3>2, <3>3, <3>4, <2>4, <1>s DEF Places, SessionIds
  <2>8. \A p \in Pools : p # q => idle'[p] = idle[p]
    BY <2>2, <1>t
  <2>9. \A u \in Threads : u # t => /\ session'[u] = session[u]
                                    /\ pc'[u] \in Using <=> pc[u] \in Using
    BY <2>2, <1>t
  <2> QED
    BY <2>0, <2>1, <2>2, <2>7, <2>8, <2>9, <1>u
<1>6. ASSUME NEW t \in Threads, Release(t) PROVE PlacesInv'
  <2>0. PICK q, n : q = PoolOf(t) /\ n = Len(idle[q])
    OBVIOUS
  <2>1. q \in Pools /\ handle[t] \in Threads
    BY <1>6, <2>0, <1>k DEF Release, HandleInv, Using, PoolOf, Pools
  <2>2. /\ pc[t] \in {"release", "unwind"}
        /\ UNCHANGED <<cache, handle>>
        /\ session' = [session EXCEPT ![t] = 0]
        /\ idle' = [idle EXCEPT ![q] = Append(idle[q], session[t])]
    BY <1>6, <2>0 DEF Release, GiveBack
  <2>3. /\ pc'[t] \notin Using
        /\ \A u \in Threads : u # t => (pc'[u] \in Using <=> pc[u] \in Using)
    BY <1>6, <2>2, <1>t DEF Release, Released, Waiters, Using
  <2>4. idle[q] \in Seq(Nat) /\ n \in Nat /\ session[t] \in Nat
    BY <2>0, <2>1, <1>t, LenProperties
  <2>5. /\ Len(idle'[q]) = n + 1
        /\ \A i \in 1 .. n : idle'[q][i] = idle[q][i]
        /\ idle'[q][n + 1] = session[t]
    <3>1. idle'[q] = Append(idle[q], session[t])
      BY <2>1, <2>2, <1>t
    <3> QED
      BY <3>1, <2>0, <2>4
  <2>6. Users(q)' = Users(q) \ {t} /\ t \in Users(q)
    BY <2>0, <2>2, <2>3, <1>t, <1>h DEF Users, Using
  <2>7. \A u \in Users(q) : u # t => session'[u] = session[u]
    BY <2>2, <1>t DEF Users
  <2>8. ASSUME Places(KeyOf(t), q) PROVE Places(KeyOf(t), q)'
    <3>0. /\ \A i \in 1 .. n + 1 : i \in 1 .. n \/ i = n + 1
          /\ \A i \in 1 .. n : i \in 1 .. n + 1
          /\ n + 1 \in 1 .. n + 1
      BY <2>4
    <3>b. /\ \A i, j \in 1 .. n : i # j => idle[q][i] # idle[q][j]
          /\ \A u \in Users(q), i \in 1 .. n : session[u] # idle[q][i]
      BY <2>0, <2>8 DEF Places
    <3>1. ASSUME NEW i \in 1 .. n + 1, NEW j \in 1 .. n + 1, i # j
          PROVE  idle'[q][i] # idle'[q][j]
      <4>1. CASE i \in 1 .. n /\ j \in 1 .. n
        BY <4>1, <3>1, <3>b, <2>5
      <4>2. CASE i = n + 1 /\ j \in 1 .. n
        BY <4>2, <3>b, <2>5, <2>6
      <4>3. CASE i \in 1 .. n /\ j = n + 1
        BY <4>3, <3>b, <2>5, <2>6
      <4> QED
        BY <4>1, <4>2, <4>3, <3>0, <3>1
    <3>2. \A u \in Users(q)', i \in 1 .. n + 1 : session'[u] # idle'[q][i]
      BY <3>0, <3>b, <2>0, <2>5, <2>6, <2>7, <2>8 DEF Places
    <3>3. \A u, v \in Users(q)' : u # v => session'[u] # session'[v]
      BY <2>6, <2>7, <2>8 DEF Places
    <3>4. ASSUME NEW x \in SessionIds(KeyOf(t))
          PROVE  \/ \E i \in 1 .. n + 1 : idle'[q][i] = x
                 \/ \E u \in Users(q)' : session'[u] = x
      <4>1. CASE session[t] = x
        BY <4>1, <3>0, <2>5
      <4>2. CASE \E u \in Users(q) : u # t /\ session[u] = x
        BY <4>2, <2>6, <2>7
      <4>3. CASE \E i \in 1 .. n : idle[q][i] = x
        BY <4>3, <3>0, <2>5
      <4> QED
        BY <4>1, <4>2, <4>3, <2>0, <2>8 DEF Places
    <3> QED
      BY <3>1, <3>2, <3>3, <3>4, <2>5, <1>s DEF Places, SessionIds
  <2>9. \A p \in Pools : p # q => idle'[p] = idle[p]
    BY <2>2, <1>t
  <2>10. \A u \in Threads : u # t => session'[u] = session[u]
    BY <2>2, <1>t
  <2> QED
    BY <2>0, <2>1, <2>2, <2>3, <2>8, <2>9, <2>10, <1>u
<1> QED
  BY <1>1, <1>2, <1>3, <1>4, <1>5, <1>6, <1>8
  DEF Next, SessionStep, RunStep, Done

(* What is nowhere twice and somewhere is counted once.                    *)
LEMMA PlacesCount ==
    ASSUME VarTypes, PlacesInv
    PROVE  SessionsConserved
<1> SUFFICES ASSUME NEW k \in Keys, cache[k] # NoThread, NEW s \in SessionIds(k)
             PROVE  LET p == <<k, cache[k]>> IN
                      Cardinality({i \in DOMAIN idle[p] : idle[p][i] = s})
                        + Cardinality({t \in Users(p) : session[t] = s}) = 1
  BY DEF SessionsConserved
<1>0. PICK p : p = <<k, cache[k]>>
  OBVIOUS
<1> DEFINE I == {i \in DOMAIN idle[p] : idle[p][i] = s}
           U == {t \in Users(p) : session[t] = s}
<1>1. p \in Pools /\ idle[p] \in Seq(Nat)
  BY <1>0 DEF VarTypes, Pools
<1>2. DOMAIN idle[p] = 1 .. Len(idle[p])
  BY <1>1, LenProperties
<1>3. Places(k, p)
  BY <1>0 DEF PlacesInv
<1>4. \/ U = {} /\ \E i : I = {i}
      \/ I = {} /\ \E t : U = {t}
  <2>1. CASE \E i \in 1 .. Len(idle[p]) : idle[p][i] = s
    <3>1. U = {}
      BY <2>1, <1>3 DEF Places
    <3>2. PICK i \in 1 .. Len(idle[p]) : idle[p][i] = s
      BY <2>1
    <3>3. I = {i}
      BY <3>2, <1>2, <1>3 DEF Places
    <3> QED
      BY <3>1, <3>3
  <2>2. CASE ~ \E i \in 1 .. Len(idle[p]) : idle[p][i] = s
    <3>1. I = {}
      BY <2>2, <1>2
    <3>2. PICK t \in Users(p) : session[t] = s
      BY <2>2, <1>3 DEF Places
    <3>3. U = {t}
      BY <3>2, <1>3 DEF Places
    <3> QED
      BY <3>1, <3>3
  <2> QED
    BY <2>1, <2>2
<1>5. Cardinality(I) + Cardinality(U) = 1
  <2>1. Cardinality({}) = 0 /\ \A x : Cardinality({x}) = 1
    BY FS_EmptySet, FS_Singleton
  <2>2. CASE U = {} /\ \E i : I = {i}
    <3>1. Cardinality(U) = 0 /\ Cardinality(I) = 1
      BY <2>1, <2>2
    <3> HIDE DEF I, U
    <3> QED
      BY <3>1
  <2>3. CASE I = {} /\ \E t : U = {t}
    <3>1. Cardinality(I) = 0 /\ Cardinality(U) = 1
      BY <2>1, <2>3
    <3> HIDE DEF I, U
    <3> QED
      BY <3>1
  <2> QED
    BY <1>4, <2>2, <2>3
<1> QED
  BY <1>0, <1>5

-----------------------------------------------------------------------------
(* The inductive invariant holds in every reachable state.                 *)
THEOREM RuntimeInvariant == Spec => []IInv
<1>1. IInv /\ [Next]_vars => IInv'
  BY TypeStep, OwnStep, HandleStep, InitStep, BuildStep, PoolsStep, WakeStep,
     PlacesStep DEF IInv
<1> QED
  BY InitIInv, <1>1, PTL DEF Spec

(* Type correctness of OcrRuntime.                                         *)
THEOREM RuntimeTypes == Spec => []TypeOK
<1>1. IInv => TypeOK
  BY DEF IInv, TypeOK
<1> QED
  BY RuntimeInvariant, <1>1, PTL

(* Whoever was told that init succeeded asked for the library the process  *)
(* runs on, for any threads and libraries.                                 *)
THEOREM RuntimeOneLibrary == Spec => []OneLibrary
<1>1. IInv => OneLibrary
  BY RuntimeAssumption DEF IInv, InitInv, VarTypes, OneLibrary
<1> QED
  BY RuntimeInvariant, <1>1, PTL

(* All callers for one key share one pool, for any threads and requests.   *)
THEOREM RuntimeOnePoolPerKey == Spec => []OnePoolPerKey
<1>1. IInv => OnePoolPerKey
  BY DEF IInv
<1> QED
  BY RuntimeInvariant, <1>1, PTL

(* No pool is in the cache whose file did not pass its checksum or that    *)
(* was built before the process had its library.                           *)
THEOREM RuntimePoolsAreVetted == Spec => []PoolsAreVetted
<1>1. IInv => PoolsAreVetted
  BY DEF IInv
<1> QED
  BY RuntimeInvariant, <1>1, PTL

(* While threads wait on a pool, as many have been woken as sessions are   *)
(* idle, for any number of threads and sessions.                           *)
THEOREM RuntimeNoLostWakeup == Spec => []NoLostWakeup
<1>1. IInv => NoLostWakeup
  BY DEF IInv
<1> QED
  BY RuntimeInvariant, <1>1, PTL

(* A session is idle once or with one thread, for any number of both.      *)
THEOREM RuntimeSessionsConserved == Spec => []SessionsConserved
<1>1. IInv => SessionsConserved
  BY PlacesCount DEF IInv
<1> QED
  BY RuntimeInvariant, <1>1, PTL

=============================================================================
