------------------------- MODULE EngineBatch_proofs -------------------------
(***************************************************************************)
(* Proofs about EngineBatch, for any number of files and any number of     *)
(* workers: type correctness, and that every safety property of the runs   *)
(* holds of Spec.                                                          *)
(*                                                                         *)
(* The argument follows a file.  From the moment the counter passes it, it *)
(* is in exactly one place: with one worker, be it dead, in the channel    *)
(* once, or once in one of the three lists of the result (PlaceInv).  As   *)
(* many outcomes as there are files are then all the files, and an empty   *)
(* channel whose senders are gone leaves files with the dead only.  What   *)
(* is said of a file is followed along the same way, and a file whose      *)
(* limit was over is nobody else's (LateInv).  That the counter overruns   *)
(* by one a worker is a count of the workers that exited.                  *)
(***************************************************************************)
EXTENDS EngineBatch, FiniteSetTheorems, SequenceTheorems, TLAPS

USE BatchAssumption

(* A worker keeps the file it died with.                                   *)
Holding == {w \in Workers : pc[w] \in {"read", "wait", "send", "dead"}}

(* The files of a sequence of outcomes, and that each is there once.       *)
Names(s) == {s[i].file : i \in DOMAIN s}
Apart(s) == \A i, j \in DOMAIN s : i # j => s[i].file # s[j].file

InHand == {item[w] : w \in Holding}
InChannel == Names(results)
Told == Range(successes) \cup Range(failures) \cup Range(skipped)

Once(s) == \A a, b \in DOMAIN s : a # b => s[a] # s[b]

(* A file the counter has passed is in one place, and there once.          *)
PlaceInv ==
  /\ \A v, w \in Holding : v # w => item[v] # item[w]
  /\ Apart(results)
  /\ Once(successes) /\ Once(failures) /\ Once(skipped)
  /\ Range(successes) \cap Range(failures) = {}
  /\ Range(successes) \cap Range(skipped) = {}
  /\ Range(failures) \cap Range(skipped) = {}
  /\ InHand \cap InChannel = {}
  /\ InHand \cap Told = {}
  /\ InChannel \cap Told = {}
  /\ InHand \cup InChannel \cup Told = {f \in Files : f < nextIndex}

(* What on_progress is told is the number of files in the result.          *)
CountInv == done = Cardinality(Told)

Exited == {w \in Workers : pc[w] = "exit"}

(* A claim beyond the last file is the last step of its worker.            *)
OverrunInv == nextIndex <= N + Cardinality(Exited)

Good(f) == fate[f] = "good" /\ f \in paged

(* Where a success comes from; only a file that was read has a thread.     *)
ReaderTruth ==
  \A f \in Files : /\ reader[f] = "running" => fate[f] # "unreadable"
                   /\ reader[f] = "paging" => fate[f] = "good"
                   /\ reader[f] = "ok" => Good(f)
VerdictTruth == \A w \in Workers : pc[w] = "send" /\ verdict[w] => Good(item[w])
ChannelTruth == \A i \in DOMAIN results : results[i].ok => Good(results[i].file)
ListTruth == \A f \in Range(successes) : Good(f)

TruthInv == ReaderTruth /\ VerdictTruth /\ ChannelTruth /\ ListTruth

(* Where a failure comes from.                                             *)
ReaderBlame ==
  \A f \in Files : /\ reader[f] = "err" => fate[f] = "bad"
                   /\ reader[f] = "gone" => fate[f] = "panics"
VerdictBlame == \A w \in Workers : pc[w] = "send" /\ ~verdict[w] => Failed(item[w])
ChannelBlame == \A i \in DOMAIN results : ~results[i].ok => Failed(results[i].file)
ListBlame == \A f \in Range(failures) \cup Range(skipped) : Failed(f)

BlameInv == ReaderBlame /\ VerdictBlame /\ ChannelBlame /\ ListBlame

(* A file whose limit was over is nowhere on its way to a success.         *)
InTime(w) == \/ pc[w] \in {"read", "wait"}
             \/ pc[w] = "send" /\ verdict[w]

LateInv ==
  /\ \A f \in expired : f \in Files /\ f < nextIndex
  /\ \A w \in Workers : InTime(w) => item[w] \notin expired
  /\ \A i \in DOMAIN results : results[i].ok => results[i].file \notin expired
  /\ \A f \in Range(successes) : f \notin expired

(* The flag, and what the workers do about it.                             *)
StopInv ==
  /\ stop => mpc # "recv"
  /\ ~stop => \A w \in Workers : /\ late[w] = 0
                                 /\ pc[w] = "exit" => nextIndex >= N
  /\ \A w \in Workers : late[w] <= 1 /\ (pc[w] = "claim" => late[w] = 0)

(* The first failure ends the loop of the main thread.                     *)
HaltInv == strategy = "FailFast" => /\ Len(failures) <= 1
                                    /\ mpc = "recv" => failures = <<>>

(* Any other strategy leaves the loop with every file in the result, but   *)
(* for those whose workers are gone.                                       *)
LeftInv == mpc # "recv" /\ strategy # "FailFast" =>
              \A f \in Files : f \in Told \/ Orphaned(f)

IInv == /\ TypeOK
        /\ PlaceInv /\ CountInv /\ OverrunInv
        /\ TruthInv /\ BlameInv /\ LateInv /\ StopInv /\ HaltInv /\ LeftInv

-----------------------------------------------------------------------------
(* Where there is a worker there is a file.                                *)
LEMMA WorkersFinite ==
  /\ WorkerCount \in Nat
  /\ IsFiniteSet(Workers) /\ Cardinality(Workers) = WorkerCount
  /\ Workers # {} => N > 0 /\ 0 \in Files
  /\ IsFiniteSet(Files) /\ Cardinality(Files) = N
  <1>1. WorkerCount \in Nat
    BY DEF WorkerCount, AtLeastOne
  <1>2. IsFiniteSet(Workers) /\ Cardinality(Workers) = WorkerCount
    BY <1>1, FS_Interval DEF Workers
  <1>3. Workers # {} => N > 0 /\ 0 \in Files
    BY DEF Workers, WorkerCount, AtLeastOne, Files
  <1>4. IsFiniteSet(Files) /\ Cardinality(Files) = N
    BY FS_Interval DEF Files
  <1> QED
    BY <1>1, <1>2, <1>3, <1>4

(* Appending an element that is not there.                                 *)
LEMMA RangeAppend ==
  ASSUME NEW S, NEW s \in Seq(S), NEW e \in S
  PROVE  /\ Append(s, e) \in Seq(S)
         /\ Range(Append(s, e)) = Range(s) \cup {e}
         /\ Once(s) /\ e \notin Range(s) => Once(Append(s, e))
  <1>1. /\ Append(s, e) \in Seq(S) /\ DOMAIN s = 1 .. Len(s) /\ Len(s) \in Nat
        /\ DOMAIN Append(s, e) = 1 .. Len(s) + 1
        /\ \A i \in 1 .. Len(s) : Append(s, e)[i] = s[i]
        /\ Append(s, e)[Len(s) + 1] = e
    OBVIOUS
  <1>2. Range(Append(s, e)) = Range(s) \cup {e}
    <2>1. ASSUME NEW x \in Range(s) PROVE x \in Range(Append(s, e))
      <3>1. PICK i \in 1 .. Len(s) : s[i] = x
        BY <1>1, <2>1 DEF Range
      <3> QED
        BY <1>1, <3>1 DEF Range
    <2>2. ASSUME NEW x \in Range(Append(s, e)) PROVE x \in Range(s) \cup {e}
      <3>1. PICK i \in 1 .. Len(s) + 1 : Append(s, e)[i] = x
        BY <1>1, <2>2 DEF Range
      <3> QED
        BY <1>1, <3>1 DEF Range
    <2>3. e \in Range(Append(s, e))
      BY <1>1 DEF Range
    <2> QED
      BY <2>1, <2>2, <2>3
  <1>3. \A i \in 1 .. Len(s) : s[i] \in Range(s)
    BY <1>1 DEF Range
  <1>4. Once(s) /\ e \notin Range(s) => Once(Append(s, e))
    BY <1>1, <1>3 DEF Once
  <1> QED
    BY <1>1, <1>2, <1>4

(* A concatenation has an element twice only if a part has, or both have.  *)
LEMMA RangeConcat ==
  ASSUME NEW S, NEW s \in Seq(S), NEW t \in Seq(S)
  PROVE  /\ s \o t \in Seq(S)
         /\ Range(s \o t) = Range(s) \cup Range(t)
         /\ Once(s) /\ Once(t) /\ Range(s) \cap Range(t) = {} => Once(s \o t)
  <1>1. s \o t \in Seq(S) /\ Range(s \o t) = Range(s) \cup Range(t)
    BY RangeConcatenation, ConcatProperties
  <1>2. ASSUME Once(s), Once(t), Range(s) \cap Range(t) = {},
               NEW a \in DOMAIN (s \o t), NEW b \in DOMAIN (s \o t), a # b
        PROVE  (s \o t)[a] # (s \o t)[b]
    <2>1. /\ a \in 1 .. Len(s) + Len(t) /\ b \in 1 .. Len(s) + Len(t)
          /\ Len(s) \in Nat /\ Len(t) \in Nat
          /\ DOMAIN s = 1 .. Len(s) /\ DOMAIN t = 1 .. Len(t)
      BY <1>2
    <2>2. \A i \in 1 .. Len(s) + Len(t) :
            (s \o t)[i] = IF i <= Len(s) THEN s[i] ELSE t[i - Len(s)]
      OBVIOUS
    <2>3. \A i \in 1 .. Len(s) : s[i] \in Range(s)
      BY <2>1 DEF Range
    <2>4. \A i \in 1 .. Len(t) : t[i] \in Range(t)
      BY <2>1 DEF Range
    <2>5. \A i, j \in 1 .. Len(s) : i # j => s[i] # s[j]
      BY <1>2, <2>1 DEF Once
    <2>6. \A i, j \in 1 .. Len(t) : i # j => t[i] # t[j]
      BY <1>2, <2>1 DEF Once
    <2>7. CASE a <= Len(s) /\ b <= Len(s)
      BY <1>2, <2>1, <2>2, <2>5, <2>7
    <2>8. CASE a > Len(s) /\ b > Len(s)
      BY <1>2, <2>1, <2>2, <2>6, <2>8
    <2>9. CASE a <= Len(s) /\ b > Len(s)
      BY <1>2, <2>1, <2>2, <2>3, <2>4, <2>9
    <2>10. CASE a > Len(s) /\ b <= Len(s)
      BY <1>2, <2>1, <2>2, <2>3, <2>4, <2>10
    <2> QED
      BY <2>1, <2>7, <2>8, <2>9, <2>10
  <1> QED
    BY <1>1, <1>2 DEF Once

(* Every step of the types, as one fact.                                   *)
LEMMA TypesInit == Init => TypeOK
  <1> SUFFICES ASSUME Init PROVE TypeOK
    OBVIOUS
  <1>1. /\ pc \in [Workers -> PCs] /\ item \in [Workers -> Files \cup {0}]
        /\ late \in [Workers -> Nat] /\ reader \in [Files -> ReaderStates]
    BY DEF Init, PCs, ReaderStates
  <1>2. verdict \in [Workers -> BOOLEAN]
    BY DEF Init
  <1>3. /\ nextIndex \in 0 .. N + WorkerCount /\ done \in 0 .. N
        /\ mpc \in {"recv", "leave", "join", "returned"}
        /\ results \in Seq(Outcome) /\ paged \subseteq Files
        /\ successes \in Seq(Files) /\ failures \in Seq(Files)
        /\ skipped \in Seq(Files) /\ expired \subseteq Files
    BY WorkersFinite DEF Init
  <1>4. stop \in BOOLEAN /\ fate \in [Files -> Fates] /\ strategy \in Strategies
    BY Zenon DEF Init
  <1> QED
    BY <1>1, <1>2, <1>3, <1>4 DEF TypeOK

LEMMA InvInit == Init => IInv
  <1> SUFFICES ASSUME Init PROVE IInv
    OBVIOUS
  <1>1. Holding = {} /\ InHand = {} /\ InChannel = {} /\ Exited = {}
    BY DEF Init, Holding, InHand, InChannel, Names, Exited
  <1>2. /\ successes = <<>> /\ failures = <<>> /\ skipped = <<>> /\ results = <<>>
        /\ nextIndex = 0 /\ done = 0 /\ ~stop
    BY DEF Init
  <1>3. Range(<<>>) = {} /\ Once(<<>>) /\ Told = {}
    BY <1>2 DEF Range, Once, Told
  <1>4. PlaceInv
    BY <1>1, <1>2, <1>3 DEF PlaceInv, Files, Apart
  <1>5. CountInv /\ OverrunInv
    BY <1>1, <1>2, <1>3, FS_EmptySet DEF CountInv, OverrunInv
  <1>6. TruthInv
    BY <1>2, <1>3 DEF TruthInv, ReaderTruth, VerdictTruth, ChannelTruth,
                      ListTruth, Init
  <1>7. BlameInv
    BY <1>2, <1>3 DEF BlameInv, ReaderBlame, VerdictBlame, ChannelBlame,
                      ListBlame, Init
  <1>8. LateInv
    BY <1>2, <1>3 DEF LateInv, InTime, Init
  <1>9. StopInv
    BY <1>2 DEF StopInv, Init
  <1>10. HaltInv
    BY <1>2 DEF HaltInv
  <1>11. LeftInv
    BY <1>3 DEF LeftInv, Init, Files
  <1> QED
    BY <1>4, <1>5, <1>6, <1>7, <1>8, <1>9, <1>10, <1>11, TypesInit DEF IInv

(* The channel is first in, first out.                                     *)
LEMMA NamesAppend ==
  ASSUME NEW s \in Seq(Outcome), NEW e \in Outcome
  PROVE  /\ Append(s, e) \in Seq(Outcome)
         /\ Names(Append(s, e)) = Names(s) \cup {e.file}
         /\ Apart(s) /\ e.file \notin Names(s) => Apart(Append(s, e))
  <1>1. /\ Append(s, e) \in Seq(Outcome) /\ DOMAIN s = 1 .. Len(s) /\ Len(s) \in Nat
        /\ DOMAIN Append(s, e) = 1 .. Len(s) + 1
        /\ \A i \in 1 .. Len(s) : Append(s, e)[i] = s[i]
        /\ Append(s, e)[Len(s) + 1] = e
    OBVIOUS
  <1>2. Names(Append(s, e)) = Names(s) \cup {e.file}
    <2>1. ASSUME NEW x \in Names(s) PROVE x \in Names(Append(s, e))
      <3>1. PICK i \in 1 .. Len(s) : s[i].file = x
        BY <1>1, <2>1 DEF Names
      <3> QED
        BY <1>1, <3>1 DEF Names
    <2>2. ASSUME NEW x \in Names(Append(s, e)) PROVE x \in Names(s) \cup {e.file}
      <3>1. PICK i \in 1 .. Len(s) + 1 : Append(s, e)[i].file = x
        BY <1>1, <2>2 DEF Names
      <3> QED
        BY <1>1, <3>1 DEF Names
    <2>3. e.file \in Names(Append(s, e))
      BY <1>1 DEF Names
    <2> QED
      BY <2>1, <2>2, <2>3
  <1>3. \A i \in 1 .. Len(s) : s[i].file \in Names(s)
    BY <1>1 DEF Names
  <1>4. Apart(s) /\ e.file \notin Names(s) => Apart(Append(s, e))
    BY <1>1, <1>3 DEF Apart
  <1> QED
    BY <1>1, <1>2, <1>4

LEMMA NamesTail ==
  ASSUME NEW s \in Seq(Outcome), s # <<>>, Apart(s)
  PROVE  /\ Head(s) \in Outcome /\ Tail(s) \in Seq(Outcome)
         /\ Head(s) = s[1] /\ 1 \in DOMAIN s
         /\ \A i \in DOMAIN Tail(s) : i + 1 \in DOMAIN s /\ Tail(s)[i] = s[i + 1]
         /\ Apart(Tail(s))
         /\ Head(s).file \notin Names(Tail(s))
         /\ Names(s) = Names(Tail(s)) \cup {Head(s).file}
  <1>1. /\ Len(s) \in Nat \ {0} /\ DOMAIN s = 1 .. Len(s) /\ Head(s) = s[1]
        /\ Head(s) \in Outcome /\ Tail(s) \in Seq(Outcome)
        /\ DOMAIN Tail(s) = 1 .. Len(s) - 1
        /\ \A i \in 1 .. Len(s) - 1 : Tail(s)[i] = s[i + 1]
    OBVIOUS
  <1>2. \A i \in DOMAIN Tail(s) : i + 1 \in DOMAIN s /\ Tail(s)[i] = s[i + 1]
    BY <1>1
  <1>3. Apart(Tail(s))
    <2> SUFFICES ASSUME NEW i \in DOMAIN Tail(s), NEW j \in DOMAIN Tail(s), i # j
                 PROVE  Tail(s)[i].file # Tail(s)[j].file
      BY DEF Apart
    <2>1. i + 1 # j + 1
      BY <1>1
    <2> QED
      BY <1>2, <2>1 DEF Apart
  <1>4. Head(s).file \notin Names(Tail(s))
    <2> SUFFICES ASSUME NEW i \in DOMAIN Tail(s) PROVE Tail(s)[i].file # Head(s).file
      BY DEF Names
    <2>1. i + 1 # 1
      BY <1>1
    <2> QED
      BY <1>1, <1>2, <2>1 DEF Apart
  <1>5. ASSUME NEW x \in Names(s) PROVE x \in Names(Tail(s)) \cup {Head(s).file}
    <2>1. PICK i \in DOMAIN s : s[i].file = x
      BY <1>5 DEF Names
    <2>2. CASE i = 1
      BY <1>1, <2>1, <2>2
    <2>3. CASE i # 1
      <3>1. i - 1 \in DOMAIN Tail(s) /\ Tail(s)[i - 1] = s[i]
        BY <1>1, <2>3
      <3> QED
        BY <2>1, <3>1 DEF Names
    <2> QED
      BY <2>2, <2>3
  <1>6. ASSUME NEW x \in Names(Tail(s)) \cup {Head(s).file} PROVE x \in Names(s)
    <2>1. s[1].file \in Names(s)
      BY <1>1 DEF Names
    <2>2. \A i \in DOMAIN Tail(s) : Tail(s)[i].file \in Names(s)
      BY <1>2 DEF Names
    <2> QED
      BY <1>1, <1>6, <2>1, <2>2 DEF Names
  <1> QED
    BY <1>1, <1>2, <1>3, <1>4, <1>5, <1>6

-----------------------------------------------------------------------------
(* The places.                                                             *)

(* What the invariant says of a worker that holds a file.                  *)
LEMMA Held ==
  ASSUME TypeOK, PlaceInv, NEW w \in Holding
  PROVE  /\ w \in Workers /\ item[w] \in InHand /\ item[w] \in Files
         /\ item[w] \notin InChannel /\ item[w] \notin Told
         /\ item[w] \notin {item[v] : v \in Holding \ {w}}
  <1>1. item[w] \in InHand /\ w \in Workers
    BY DEF InHand, Holding
  <1> QED
    BY <1>1 DEF PlaceInv

LEMMA SamePlaces ==
  ASSUME PlaceInv, Holding' = Holding, \A w \in Holding : item'[w] = item[w],
         {f \in Files : f < nextIndex'} = {f \in Files : f < nextIndex},
         UNCHANGED <<results, successes, failures, skipped>>
  PROVE  PlaceInv'
  <1>1. InHand' = InHand
    BY DEF InHand
  <1>2. InChannel' = InChannel /\ Told' = Told
    BY DEF InChannel, Told
  <1> QED
    BY <1>1, <1>2 DEF PlaceInv

LEMMA PlaceClaim ==
  ASSUME TypeOK, PlaceInv, NEW w \in Workers, Claim(w) PROVE PlaceInv'
  <1>1. nextIndex \in Nat /\ nextIndex' = nextIndex + 1 /\ w \notin Holding
    BY DEF Claim, TypeOK, Holding
  <1>2. UNCHANGED <<results, successes, failures, skipped>>
    BY DEF Claim, mainVars
  <1>3. CASE nextIndex < N
    <2>1. /\ item' = [item EXCEPT ![w] = nextIndex]
          /\ pc' = [pc EXCEPT ![w] = "read"]
      BY <1>3 DEF Claim
    <2>2. /\ Holding' = Holding \cup {w} /\ item'[w] = nextIndex
          /\ \A v \in Holding : item'[v] = item[v]
      BY <1>1, <2>1 DEF TypeOK, Holding
    <2>3. InHand' = InHand \cup {nextIndex}
      BY <2>2 DEF InHand
    <2>4. InChannel' = InChannel /\ Told' = Told
      BY <1>2 DEF InChannel, Told
    <2>5. nextIndex \notin InHand \cup InChannel \cup Told
      BY <1>1 DEF PlaceInv
    <2>6. \A u, v \in Holding' : u # v => item'[u] # item'[v]
      BY <2>2, <2>5 DEF PlaceInv, InHand
    <2>7. {f \in Files : f < nextIndex'} = {f \in Files : f < nextIndex} \cup {nextIndex}
      BY <1>1, <1>3 DEF Files
    <2>8. InHand' \cup InChannel' \cup Told' = {f \in Files : f < nextIndex'}
      BY <2>3, <2>4, <2>7 DEF PlaceInv
    <2> QED
      BY <1>2, <2>3, <2>4, <2>5, <2>6, <2>8 DEF PlaceInv
  <1>4. CASE ~(nextIndex < N)
    <2>1. Holding' = Holding /\ item' = item
      BY <1>1, <1>4 DEF Claim, TypeOK, Holding
    <2>2. {f \in Files : f < nextIndex'} = {f \in Files : f < nextIndex}
      BY <1>1, <1>4 DEF Files
    <2> QED
      BY <1>2, <2>1, <2>2, SamePlaces
  <1> QED
    BY <1>3, <1>4

LEMMA PlaceSend ==
  ASSUME TypeOK, PlaceInv, NEW w \in Workers, SendOutcome(w) PROVE PlaceInv'
  <1> DEFINE e == [file |-> item[w], ok |-> verdict[w]]
  <1>1. w \in Holding /\ results' = Append(results, e)
    BY DEF SendOutcome, Holding
  <1>2. UNCHANGED <<nextIndex, item, successes, failures, skipped>>
    BY DEF SendOutcome, mainVars
  <1>3. Holding' = Holding \ {w}
    BY DEF SendOutcome, TypeOK, Holding
  <1>4. InHand' = InHand \ {item[w]}
    BY <1>1, <1>2, <1>3 DEF InHand, PlaceInv
  <1>5. e \in Outcome /\ e.file = item[w]
    BY <1>1, Held DEF Outcome, TypeOK
  <1>6. InChannel' = InChannel \cup {item[w]} /\ Apart(results')
    BY <1>1, <1>5, Held, NamesAppend DEF TypeOK, InChannel, PlaceInv
  <1>7. Told' = Told
    BY <1>2 DEF Told
  <1>8. item[w] \in InHand
    BY <1>1 DEF InHand
  <1>9. \A u, v \in Holding' : u # v => item'[u] # item'[v]
    BY <1>2, <1>3 DEF PlaceInv
  <1> QED
    BY <1>2, <1>4, <1>6, <1>7, <1>8, <1>9 DEF PlaceInv

(* The outcome taken from the channel goes to one of the lists.            *)
LEMMA ReceiveMoves ==
  ASSUME TypeOK, PlaceInv, Receive
  PROVE  /\ Head(results) \in Outcome /\ Head(results).file \in Files
         /\ Head(results) = results[1] /\ 1 \in DOMAIN results
         /\ Head(results).file \notin Told
         /\ results' \in Seq(Outcome) /\ Apart(results')
         /\ \A i \in DOMAIN results' : i + 1 \in DOMAIN results
                                     /\ results'[i] = results[i + 1]
         /\ Head(results).file \notin InChannel'
         /\ InChannel = InChannel' \cup {Head(results).file}
         /\ \/ /\ Head(results).ok /\ successes' = Append(successes, Head(results).file)
               /\ UNCHANGED <<failures, skipped>>
            \/ /\ strategy # "Skip" /\ failures' = Append(failures, Head(results).file)
               /\ UNCHANGED <<successes, skipped>>
            \/ /\ strategy = "Skip" /\ skipped' = Append(skipped, Head(results).file)
               /\ UNCHANGED <<successes, failures>>
  <1>1. results \in Seq(Outcome) /\ results # <<>> /\ Apart(results)
        /\ results' = Tail(results)
    BY DEF Receive, TypeOK, PlaceInv
  <1>2. Head(results) \in Outcome /\ Head(results).file \in Files
    <2>1. Head(results) \in Outcome
      BY <1>1, NamesTail
    <2> QED
      BY <2>1 DEF Outcome
  <1>3. InChannel = InChannel' \cup {Head(results).file}
        /\ Head(results).file \notin InChannel'
    BY <1>1, NamesTail DEF InChannel
  <1>4. Head(results).file \notin Told
    BY <1>3 DEF PlaceInv
  <1>5. \/ /\ Head(results).ok /\ successes' = Append(successes, Head(results).file)
           /\ UNCHANGED <<failures, skipped>>
        \/ /\ strategy # "Skip" /\ failures' = Append(failures, Head(results).file)
           /\ UNCHANGED <<successes, skipped>>
        \/ /\ strategy = "Skip" /\ skipped' = Append(skipped, Head(results).file)
           /\ UNCHANGED <<successes, failures>>
    BY DEF Receive
  <1>6. /\ Head(results) = results[1] /\ 1 \in DOMAIN results
        /\ results' \in Seq(Outcome) /\ Apart(results')
        /\ \A i \in DOMAIN results' : i + 1 \in DOMAIN results
                                    /\ results'[i] = results[i + 1]
    BY <1>1, NamesTail
  <1> QED
    BY <1>2, <1>3, <1>4, <1>5, <1>6

LEMMA PlaceReceive ==
  ASSUME TypeOK, PlaceInv, Receive
  PROVE  PlaceInv' /\ Told' = Told \cup {Head(results).file}
  <1> DEFINE h == Head(results).file
  <1>1. /\ h \in Files /\ h \notin Told /\ Apart(results')
        /\ h \notin InChannel' /\ InChannel = InChannel' \cup {h}
    BY ReceiveMoves
  <1>2. UNCHANGED <<nextIndex, item, pc>> /\ Holding' = Holding /\ InHand' = InHand
    BY DEF Receive, workerVars, Holding, InHand
  <1>3. /\ successes \in Seq(Files) /\ failures \in Seq(Files) /\ skipped \in Seq(Files)
        /\ h \notin Range(successes) /\ h \notin Range(failures) /\ h \notin Range(skipped)
    BY <1>1 DEF TypeOK, Told
  <1>4. /\ Once(successes') /\ Once(failures') /\ Once(skipped')
        /\ Range(successes') \cap Range(failures') = {}
        /\ Range(successes') \cap Range(skipped') = {}
        /\ Range(failures') \cap Range(skipped') = {}
        /\ Told' = Told \cup {h}
    <2>1. CASE successes' = Append(successes, h) /\ UNCHANGED <<failures, skipped>>
      <3>1. Range(successes') = Range(successes) \cup {h} /\ Once(successes')
        BY <1>1, <1>3, <2>1, RangeAppend DEF PlaceInv
      <3> QED
        BY <1>3, <2>1, <3>1 DEF PlaceInv, Told
    <2>2. CASE failures' = Append(failures, h) /\ UNCHANGED <<successes, skipped>>
      <3>1. Range(failures') = Range(failures) \cup {h} /\ Once(failures')
        BY <1>1, <1>3, <2>2, RangeAppend DEF PlaceInv
      <3> QED
        BY <1>3, <2>2, <3>1 DEF PlaceInv, Told
    <2>3. CASE skipped' = Append(skipped, h) /\ UNCHANGED <<successes, failures>>
      <3>1. Range(skipped') = Range(skipped) \cup {h} /\ Once(skipped')
        BY <1>1, <1>3, <2>3, RangeAppend DEF PlaceInv
      <3> QED
        BY <1>3, <2>3, <3>1 DEF PlaceInv, Told
    <2> QED
      BY <2>1, <2>2, <2>3, ReceiveMoves
  <1>5. InHand' \cap Told' = {}
    BY <1>1, <1>2, <1>4 DEF PlaceInv
  <1>6. InChannel' \cap Told' = {} /\ InHand' \cap InChannel' = {}
    BY <1>1, <1>2, <1>4 DEF PlaceInv
  <1>7. InHand' \cup InChannel' \cup Told' = {f \in Files : f < nextIndex'}
    BY <1>1, <1>2, <1>4 DEF PlaceInv
  <1>8. \A u, v \in Holding' : u # v => item'[u] # item'[v]
    BY <1>2 DEF PlaceInv
  <1> QED
    BY <1>1, <1>4, <1>5, <1>6, <1>7, <1>8 DEF PlaceInv

(* Every other step leaves the files where they are.                       *)
LEMMA PlaceStep == TypeOK /\ PlaceInv /\ [Next]_vars => PlaceInv'
  <1> SUFFICES ASSUME TypeOK, PlaceInv, [Next]_vars PROVE PlaceInv'
    OBVIOUS
  <1> USE DEF inputVars, workerVars, readerVars, mainVars
  <1>1. ASSUME UNCHANGED <<pc, item, nextIndex, results, successes, failures, skipped>>
        PROVE  PlaceInv'
    <2>1. Holding' = Holding
      BY <1>1 DEF Holding
    <2> QED
      BY <1>1, <2>1, SamePlaces
  <1>2. ASSUME NEW w \in Workers, NEW q \in PCs, pc' = [pc EXCEPT ![w] = q],
               w \in Holding <=> q \in {"read", "wait", "send", "dead"},
               UNCHANGED <<item, nextIndex, results, successes, failures, skipped>>
        PROVE  PlaceInv'
    <2>1. Holding' = Holding
      BY <1>2 DEF Holding, TypeOK
    <2> QED
      BY <1>2, <2>1, SamePlaces
  <1>3. ASSUME NEW w \in Workers, LoadStop(w) PROVE PlaceInv'
    BY <1>2, <1>3 DEF LoadStop, Holding, PCs
  <1>4. ASSUME NEW w \in Workers, Claim(w) PROVE PlaceInv'
    BY <1>4, PlaceClaim
  <1>5. ASSUME NEW w \in Workers, ReadFile(w) PROVE PlaceInv'
    BY <1>2, <1>5 DEF ReadFile, Holding, PCs
  <1>6. ASSUME NEW w \in Workers, TakeAnswer(w) PROVE PlaceInv'
    BY <1>2, <1>6 DEF TakeAnswer, Conclude, Holding, PCs
  <1>7. ASSUME NEW w \in Workers, Timeout(w) PROVE PlaceInv'
    BY <1>2, <1>7 DEF Timeout, Conclude, Holding, PCs
  <1>8. ASSUME NEW w \in Workers, SendOutcome(w) PROVE PlaceInv'
    BY <1>8, PlaceSend
  <1>9. ASSUME NEW w \in Workers, SpawnPanics(w) PROVE PlaceInv'
    BY <1>2, <1>9 DEF SpawnPanics, Holding, PCs
  <1>10. CASE MainStep
    BY <1>1, <1>10, PlaceReceive DEF MainStep, EndOfResults, Leave, Join
  <1>11. ASSUME NEW f \in Files, Process(f) \/ Page(f) PROVE PlaceInv'
    BY <1>1, <1>11 DEF Process, Page
  <1>12. CASE UNCHANGED vars
    BY <1>1, <1>12 DEF vars
  <1> QED
    BY <1>3, <1>4, <1>5, <1>6, <1>7, <1>8, <1>9, <1>10, <1>11, <1>12
       DEF Next, WorkerStep

-----------------------------------------------------------------------------
(* The counts.                                                             *)
LEMMA ToldFinite ==
  ASSUME TypeOK PROVE Told \subseteq Files /\ IsFiniteSet(Told)
  <1>1. /\ Range(successes) \subseteq Files /\ Range(failures) \subseteq Files
        /\ Range(skipped) \subseteq Files
    BY RangeOfSeq DEF TypeOK
  <1> QED
    BY <1>1, WorkersFinite, FS_Subset DEF Told

LEMMA CountStep ==
  ASSUME TypeOK, PlaceInv, CountInv, [Next]_vars PROVE CountInv'
  <1> USE DEF inputVars, workerVars, readerVars, mainVars
  <1>1. ASSUME UNCHANGED <<done, successes, failures, skipped>> PROVE CountInv'
    BY <1>1 DEF CountInv, Told
  <1>2. CASE Receive
    <2>1. Head(results).file \notin Told /\ Told' = Told \cup {Head(results).file}
      BY <1>2, PlaceReceive, ReceiveMoves
    <2>2. Cardinality(Told') = Cardinality(Told) + 1
      BY <2>1, ToldFinite, FS_AddElement
    <2>3. done' = done + 1
      BY <1>2 DEF Receive
    <2> QED
      BY <2>2, <2>3 DEF CountInv
  <1>3. ASSUME NEW w \in Workers, WorkerStep(w) \/ SpawnPanics(w) PROVE CountInv'
    BY <1>1, <1>3 DEF WorkerStep, LoadStop, Claim, ReadFile, TakeAnswer, Timeout,
                      Conclude, SendOutcome, SpawnPanics
  <1>4. ASSUME NEW f \in Files, Process(f) \/ Page(f) PROVE CountInv'
    BY <1>1, <1>4 DEF Process, Page
  <1>5. CASE EndOfResults \/ Leave \/ Join
    BY <1>1, <1>5 DEF EndOfResults, Leave, Join
  <1>6. CASE UNCHANGED vars
    BY <1>1, <1>6 DEF vars
  <1> QED
    BY <1>2, <1>3, <1>4, <1>5, <1>6 DEF Next, MainStep

LEMMA ExitedFinite ==
  /\ IsFiniteSet(Exited)
  /\ Cardinality(Exited) \in Nat /\ Cardinality(Exited) <= WorkerCount
  <1>1. Exited \subseteq Workers
    BY DEF Exited
  <1> QED
    BY <1>1, WorkersFinite, FS_Subset, FS_CardinalityType

LEMMA OverrunStep ==
  ASSUME TypeOK, OverrunInv, [Next]_vars
  PROVE  OverrunInv' /\ nextIndex' \in 0 .. N + WorkerCount
  <1> USE DEF inputVars, workerVars, readerVars, mainVars
  <1>1. nextIndex \in Nat
    BY WorkersFinite DEF TypeOK
  <1>2. ASSUME nextIndex' = nextIndex, Exited \subseteq Exited' PROVE OverrunInv'
    <2>1. IsFiniteSet(Exited') /\ Cardinality(Exited') \in Nat
      <3>1. Exited' \subseteq Workers
        BY DEF Exited
      <3> QED
        BY <3>1, WorkersFinite, FS_Subset, FS_CardinalityType
    <2>2. Cardinality(Exited) <= Cardinality(Exited')
      BY <1>2, <2>1, FS_Subset
    <2> QED
      BY <1>1, <1>2, <2>1, <2>2, ExitedFinite DEF OverrunInv
  <1>3. ASSUME NEW w \in Workers, Claim(w) PROVE OverrunInv'
    <2>1. nextIndex' = nextIndex + 1 /\ w \notin Exited
      BY <1>3 DEF Claim, Exited
    <2>2. CASE nextIndex < N
      <3>1. Exited' = Exited
        BY <1>3, <2>1, <2>2 DEF Claim, TypeOK, Exited
      <3> QED
        BY <1>1, <2>1, <2>2, <3>1, ExitedFinite DEF OverrunInv
    <2>3. CASE ~(nextIndex < N)
      <3>1. Exited' = Exited \cup {w}
        BY <1>3, <2>1, <2>3 DEF Claim, TypeOK, Exited
      <3>2. Cardinality(Exited') = Cardinality(Exited) + 1
        BY <2>1, <3>1, ExitedFinite, FS_AddElement
      <3> QED
        BY <1>1, <2>1, <3>2, ExitedFinite DEF OverrunInv
    <2> QED
      BY <2>2, <2>3
  <1>4. ASSUME NEW w \in Workers, pc[w] # "exit", NEW q \in PCs,
               pc' = [pc EXCEPT ![w] = q], nextIndex' = nextIndex
        PROVE  OverrunInv'
    <2>1. Exited \subseteq Exited'
      BY <1>4 DEF TypeOK, Exited
    <2> QED
      BY <1>2, <1>4, <2>1
  <1>5. ASSUME NEW w \in Workers, WorkerStep(w) \/ SpawnPanics(w) PROVE OverrunInv'
    BY <1>3, <1>4, <1>5 DEF WorkerStep, LoadStop, ReadFile, TakeAnswer, Timeout,
                            Conclude, SendOutcome, SpawnPanics, PCs
  <1>6. ASSUME UNCHANGED <<pc, nextIndex>> PROVE OverrunInv'
    BY <1>2, <1>6 DEF Exited
  <1>7. ASSUME NEW f \in Files, Process(f) \/ Page(f) PROVE OverrunInv'
    <2>1. UNCHANGED <<pc, nextIndex>>
      BY <1>7 DEF Process, Page
    <2> QED
      BY <1>6, <2>1
  <1>8. ASSUME MainStep PROVE OverrunInv'
    <2>1. UNCHANGED <<pc, nextIndex>>
      BY <1>8 DEF MainStep, Receive, EndOfResults, Leave, Join
    <2> QED
      BY <1>6, <2>1
  <1>9. ASSUME UNCHANGED vars PROVE OverrunInv'
    BY <1>6, <1>9 DEF vars
  <1>10. OverrunInv'
    BY <1>5, <1>7, <1>8, <1>9 DEF Next
  <1>11. nextIndex' \in Nat
    <2>1. ASSUME NEW w \in Workers, WorkerStep(w) \/ SpawnPanics(w)
          PROVE  nextIndex' \in Nat
      BY <1>1, <2>1 DEF WorkerStep, LoadStop, Claim, ReadFile, TakeAnswer, Timeout,
                        Conclude, SendOutcome, SpawnPanics
    <2>2. ASSUME NEW f \in Files, Process(f) \/ Page(f) PROVE nextIndex' \in Nat
      BY <1>1, <2>2 DEF Process, Page
    <2>3. CASE MainStep
      BY <1>1, <2>3 DEF MainStep, Receive, EndOfResults, Leave, Join
    <2>4. CASE UNCHANGED vars
      BY <1>1, <2>4 DEF vars
    <2> QED
      BY <2>1, <2>2, <2>3, <2>4 DEF Next
  <1>12. Cardinality(Exited') \in Nat /\ Cardinality(Exited') <= WorkerCount
    <2>1. Exited' \subseteq Workers
      BY DEF Exited
    <2> QED
      BY <2>1, WorkersFinite, FS_Subset, FS_CardinalityType
  <1> QED
    BY <1>10, <1>11, <1>12, WorkersFinite DEF OverrunInv

-----------------------------------------------------------------------------
(* The types.                                                              *)
LEMMA TypesStep ==
  ASSUME TypeOK, PlaceInv, OverrunInv, TruthInv, [Next]_vars PROVE TypeOK'
  <1> USE DEF inputVars, workerVars, readerVars, mainVars
  <1>1. nextIndex' \in 0 .. N + WorkerCount /\ nextIndex \in Nat
    BY OverrunStep, WorkersFinite DEF TypeOK
  <1>2. ASSUME NEW w \in Workers, LoadStop(w) PROVE TypeOK'
    <2>1. pc' \in [Workers -> PCs]
      BY <1>2 DEF LoadStop, TypeOK, PCs
    <2> QED
      BY <1>1, <1>2, <2>1 DEF LoadStop, TypeOK
  <1>3. ASSUME NEW w \in Workers, Claim(w) PROVE TypeOK'
    <2>1. CASE nextIndex < N
      <3>1. nextIndex \in Files
        BY <1>1, <2>1 DEF Files
      <3>2. item' \in [Workers -> Files \cup {0}]
        BY <1>3, <2>1, <3>1 DEF Claim, TypeOK
      <3>3. pc' \in [Workers -> PCs]
        BY <1>3, <2>1 DEF Claim, TypeOK, PCs
      <3>4. late' \in [Workers -> Nat]
        <4>1. late' = [late EXCEPT ![w] = late[w] + 1] \/ late' = late
          BY <1>3, <2>1 DEF Claim, TypeOK
        <4> QED
          BY <4>1 DEF TypeOK
      <3> QED
        BY <1>1, <1>3, <3>2, <3>3, <3>4 DEF Claim, TypeOK
    <2>2. CASE ~(nextIndex < N)
      <3>1. pc' \in [Workers -> PCs] /\ UNCHANGED <<item, late>>
        BY <1>3, <2>2 DEF Claim, TypeOK, PCs
      <3> QED
        BY <1>1, <1>3, <3>1 DEF Claim, TypeOK
    <2> QED
      BY <2>1, <2>2
  <1>4. ASSUME NEW w \in Workers, ReadFile(w) PROVE TypeOK'
    <2>1. item[w] \in Files
      BY <1>4, Held DEF ReadFile, Holding
    <2>2. /\ pc' \in [Workers -> PCs] /\ reader' \in [Files -> ReaderStates]
          /\ verdict' \in [Workers -> BOOLEAN]
      BY <1>4, <2>1 DEF ReadFile, TypeOK, PCs, ReaderStates
    <2> QED
      BY <1>1, <1>4, <2>2 DEF ReadFile, TypeOK
  <1>5. ASSUME NEW w \in Workers, SpawnPanics(w) PROVE TypeOK'
    <2>1. pc' \in [Workers -> PCs]
      BY <1>5 DEF SpawnPanics, TypeOK, PCs
    <2> QED
      BY <1>1, <1>5, <2>1 DEF SpawnPanics, TypeOK
  <1>6. ASSUME NEW w \in Workers, NEW ok \in BOOLEAN, Conclude(w, ok),
               expired' \subseteq Files
        PROVE  TypeOK'
    <2>1. pc' \in [Workers -> PCs]
      BY <1>6 DEF Conclude, TypeOK, PCs
    <2>2. verdict' \in [Workers -> BOOLEAN]
      BY <1>6 DEF Conclude, TypeOK
    <2> QED
      BY <1>1, <1>6, <2>1, <2>2 DEF Conclude, TypeOK
  <1>7. ASSUME NEW w \in Workers, TakeAnswer(w) \/ Timeout(w) PROVE TypeOK'
    <2>1. (reader[item[w]] = "ok") \in BOOLEAN /\ FALSE \in BOOLEAN
      OBVIOUS
    <2>2. item[w] \in Files
      BY <1>7, Held DEF TakeAnswer, Timeout, Holding
    <2>3. expired' \subseteq Files
      BY <1>7, <2>2 DEF TakeAnswer, Timeout, TypeOK
    <2> QED
      BY <1>6, <1>7, <2>1, <2>3 DEF TakeAnswer, Timeout
  <1>8. ASSUME NEW w \in Workers, SendOutcome(w) PROVE TypeOK'
    <2>1. item[w] \in Files
      BY <1>8, Held DEF SendOutcome, Holding
    <2>2. results' \in Seq(Outcome) /\ pc' \in [Workers -> PCs]
      BY <1>8, <2>1 DEF SendOutcome, TypeOK, PCs, Outcome
    <2> QED
      BY <1>1, <1>8, <2>2 DEF SendOutcome, TypeOK
  <1>9. ASSUME NEW f \in Files, Process(f) PROVE TypeOK'
    <2>1. reader' \in [Files -> ReaderStates]
      <3>1. fate[f] \in {"good", "bad", "panics", "unreadable"}
        BY <1>9 DEF Process, TypeOK, Fates
      <3>2. fate[f] # "unreadable"
        BY <1>9 DEF Process, TruthInv, ReaderTruth
      <3> QED
        BY <1>9, <3>1, <3>2 DEF Process, TypeOK, ReaderStates
    <2> QED
      BY <1>1, <1>9, <2>1 DEF Process, TypeOK
  <1>10. ASSUME NEW f \in Files, Page(f) PROVE TypeOK'
    BY <1>1, <1>10 DEF Page, TypeOK, ReaderStates
  <1>11. CASE Receive
    <2>1. /\ results' \in Seq(Outcome)
          /\ successes' \in Seq(Files) /\ failures' \in Seq(Files)
          /\ skipped' \in Seq(Files)
      <3> DEFINE h == Head(results).file
      <3>1. h \in Files /\ results' \in Seq(Outcome)
        BY <1>11, ReceiveMoves
      <3>2. /\ successes \in Seq(Files) /\ failures \in Seq(Files)
            /\ skipped \in Seq(Files)
        BY DEF TypeOK
      <3>3. /\ successes' = successes \/ successes' = Append(successes, h)
            /\ failures' = failures \/ failures' = Append(failures, h)
            /\ skipped' = skipped \/ skipped' = Append(skipped, h)
        BY <1>11 DEF Receive
      <3> HIDE DEF h
      <3>4. \A s \in Seq(Files) : Append(s, h) \in Seq(Files)
        BY <3>1
      <3> QED
        BY <3>1, <3>2, <3>3, <3>4, Zenon
    <2>2. done' \in 0 .. N /\ mpc' \in {"recv", "leave", "join", "returned"}
      BY <1>11 DEF Receive, TypeOK
    <2>3. stop' \in BOOLEAN
      <3>1. stop' = (stop \/ (~Head(results).ok /\ strategy = "FailFast"))
        BY <1>11 DEF Receive
      <3> QED
        BY <3>1
    <2> QED
      BY <1>1, <1>11, <2>1, <2>2, <2>3 DEF Receive, TypeOK
  <1>12. CASE EndOfResults \/ Leave \/ Join
    <2>1. mpc' \in {"recv", "leave", "join", "returned"} /\ stop' \in BOOLEAN
      BY <1>12 DEF EndOfResults, Leave, Join, TypeOK
    <2> QED
      BY <1>1, <1>12, <2>1 DEF EndOfResults, Leave, Join, TypeOK
  <1>13. CASE UNCHANGED vars
    BY <1>13 DEF vars, TypeOK
  <1> QED
    BY <1>2, <1>3, <1>4, <1>5, <1>7, <1>8, <1>9, <1>10, <1>11, <1>12, <1>13
       DEF Next, MainStep, WorkerStep

-----------------------------------------------------------------------------
(* The truth of a success.                                                 *)
LEMMA TruthStep ==
  ASSUME TypeOK, PlaceInv, TruthInv, [Next]_vars PROVE TruthInv'
  <1> USE DEF inputVars, workerVars, readerVars, mainVars
  <1>1. fate' = fate
    BY DEF Next, MainStep, Receive, EndOfResults, Leave, Join, WorkerStep, LoadStop,
           Claim, ReadFile, SpawnPanics, TakeAnswer, Timeout, Conclude, SendOutcome,
           Process, Page, vars
  <1>2. ASSUME UNCHANGED readerVars, NEW w \in Workers, NEW q \in PCs,
               pc' = [pc EXCEPT ![w] = q], UNCHANGED <<results, successes>>,
               \A v \in Workers \ {w} : verdict'[v] = verdict[v] /\ item'[v] = item[v],
               q = "send" /\ verdict'[w] => Good(item'[w])
        PROVE  TruthInv'
    <2>1. \A v \in Workers : pc'[v] = "send" /\ verdict'[v] => Good(item'[v])
      BY <1>2 DEF TruthInv, ReaderTruth, VerdictTruth, ChannelTruth, ListTruth,
                  TypeOK
    <2> QED
      BY <1>1, <1>2, <2>1 DEF TruthInv, ReaderTruth, VerdictTruth, ChannelTruth,
                              ListTruth, Good
  <1>3. ASSUME NEW w \in Workers, LoadStop(w) PROVE TruthInv'
    BY <1>2, <1>3 DEF LoadStop, PCs
  <1>4. ASSUME NEW w \in Workers, SpawnPanics(w) PROVE TruthInv'
    BY <1>2, <1>4 DEF SpawnPanics, PCs
  <1>5. ASSUME NEW w \in Workers, Claim(w) PROVE TruthInv'
    BY <1>2, <1>5 DEF Claim, PCs, TypeOK
  <1>6. ASSUME NEW w \in Workers, ReadFile(w) PROVE TruthInv'
    <2>1. item[w] \in Files
      BY <1>6, Held DEF ReadFile, Holding
    <2>2. CASE fate[item[w]] = "unreadable"
      BY <1>2, <1>6, <2>2 DEF ReadFile, PCs, TypeOK
    <2>3. CASE fate[item[w]] # "unreadable"
      <3>1. /\ reader' = [reader EXCEPT ![item[w]] = "running"]
            /\ pc' = [pc EXCEPT ![w] = "wait"]
            /\ UNCHANGED <<paged, verdict, item, results, successes>>
        BY <1>6, <2>3 DEF ReadFile
      <3> QED
        BY <1>1, <2>1, <2>3, <3>1 DEF TruthInv, ReaderTruth, VerdictTruth,
                                      ChannelTruth, ListTruth, TypeOK, Good
    <2> QED
      BY <2>2, <2>3
  <1>7. ASSUME NEW w \in Workers, TakeAnswer(w) PROVE TruthInv'
    <2>1. item[w] \in Files
      BY <1>7, Held DEF TakeAnswer, Holding
    <2>2. verdict' = [verdict EXCEPT ![w] = (reader[item[w]] = "ok")]
          /\ item' = item
      BY <1>7 DEF TakeAnswer, Conclude
    <2>3. verdict'[w] => Good(item'[w])
      BY <2>1, <2>2 DEF TypeOK, TruthInv, ReaderTruth
    <2>4. \A v \in Workers \ {w} : verdict'[v] = verdict[v]
      BY <2>2 DEF TypeOK
    <2> QED
      BY <1>2, <1>7, <2>2, <2>3, <2>4 DEF TakeAnswer, Conclude, PCs
  <1>8. ASSUME NEW w \in Workers, Timeout(w) PROVE TruthInv'
    <2>1. ~verdict'[w] /\ \A v \in Workers \ {w} : verdict'[v] = verdict[v]
      BY <1>8 DEF Timeout, Conclude, TypeOK
    <2> QED
      BY <1>2, <1>8, <2>1 DEF Timeout, Conclude, PCs
  <1>9. ASSUME NEW w \in Workers, SendOutcome(w) PROVE TruthInv'
    <2> DEFINE e == [file |-> item[w], ok |-> verdict[w]]
    <2>1. /\ results' = Append(results, e) /\ pc' = [pc EXCEPT ![w] = "check"]
          /\ UNCHANGED <<reader, paged, item, verdict, successes>>
      BY <1>9 DEF SendOutcome
    <2>2. UNCHANGED <<fate, paged>>
      BY <1>1, <2>1
    <2>3. verdict[w] => Good(item[w])
      BY <1>9 DEF SendOutcome, TruthInv, VerdictTruth
    <2>4. ASSUME NEW i \in DOMAIN results', results'[i].ok
          PROVE  Good(results'[i].file)
      <3>1. /\ results \in Seq(Outcome) /\ Len(results) \in Nat
            /\ DOMAIN results = 1 .. Len(results)
            /\ DOMAIN results' = 1 .. Len(results) + 1
            /\ \A j \in 1 .. Len(results) : results'[j] = results[j]
            /\ results'[Len(results) + 1] = e
        BY <2>1 DEF TypeOK
      <3>2. CASE i \in 1 .. Len(results)
        BY <2>4, <3>1, <3>2 DEF TruthInv, ChannelTruth
      <3>3. CASE i = Len(results) + 1
        BY <2>3, <2>4, <3>1, <3>3
      <3> QED
        BY <3>1, <3>2, <3>3
    <2>5. \A v \in Workers : pc'[v] = "send" => pc[v] = "send"
      BY <2>1 DEF TypeOK
    <2> QED
      BY <1>1, <2>1, <2>2, <2>4, <2>5 DEF TruthInv, ReaderTruth, VerdictTruth,
                                          ChannelTruth, ListTruth, Good
  <1>10. ASSUME NEW f \in Files, Process(f) PROVE TruthInv'
    <2>1. fate[f] \in {"good", "bad", "panics"} /\ paged' = paged
      BY <1>10 DEF Process, TypeOK, Fates, TruthInv, ReaderTruth
    <2>2. UNCHANGED <<fate, paged>>
      BY <1>1, <2>1
    <2>3. /\ \A g \in Files \ {f} : reader'[g] = reader[g]
          /\ reader'[f] \in {"paging", "err", "gone"}
          /\ reader'[f] = "paging" => fate[f] = "good"
      BY <1>10, <2>1 DEF Process, TypeOK
    <2>4. \A g \in Files : Good(g)' <=> Good(g)
      BY <2>2 DEF Good
    <2>5. ReaderTruth'
      BY <1>1, <2>2, <2>3, <2>4 DEF TruthInv, ReaderTruth
    <2>6. UNCHANGED <<pc, item, verdict, results, successes>>
      BY <1>10 DEF Process, workerVars, mainVars
    <2> QED
      BY <1>1, <2>2, <2>5, <2>6 DEF TruthInv, VerdictTruth, ChannelTruth,
                                    ListTruth, Good
  <1>11. ASSUME NEW k \in Files, Page(k) PROVE TruthInv'
    <2>1. paged' = paged \cup {k} /\ fate[k] = "good"
      BY <1>11 DEF Page, TruthInv, ReaderTruth, VerdictTruth, ChannelTruth,
                   ListTruth
    <2>2. fate' = fate /\ paged \subseteq paged'
      BY <1>1, <2>1
    <2>3. fate[k] = "good" /\ k \in paged'
      BY <2>1
    <2>4. \A g \in Files \ {k} : reader'[g] = reader[g]
      BY <1>11 DEF Page, TypeOK
    <2>5. reader'[k] = "ok"
      BY <1>11 DEF Page, TypeOK
    <2>6. ReaderTruth'
      <3> SUFFICES ASSUME NEW g \in Files
                   PROVE  /\ reader'[g] = "running" => fate'[g] # "unreadable"
                          /\ reader'[g] = "paging" => fate'[g] = "good"
                          /\ reader'[g] = "ok" => fate'[g] = "good" /\ g \in paged'
        BY DEF ReaderTruth, Good
      <3> QED
        BY <2>2, <2>3, <2>4, <2>5 DEF TruthInv, ReaderTruth, Good
    <2>7. UNCHANGED <<pc, verdict, item, results, successes>>
      BY <1>11 DEF Page
    <2>8. \A g : Good(g) => fate'[g] = "good" /\ g \in paged'
      BY <2>2 DEF Good
    <2>9. \A v \in Workers : pc'[v] = "send" /\ verdict'[v]
                               => fate'[item'[v]] = "good" /\ item'[v] \in paged'
      BY <2>7, <2>8 DEF TruthInv, ReaderTruth, VerdictTruth, ChannelTruth,
                        ListTruth
    <2>10. \A i \in DOMAIN results' : results'[i].ok
              => fate'[results'[i].file] = "good" /\ results'[i].file \in paged'
      BY <2>7, <2>8 DEF TruthInv, ReaderTruth, VerdictTruth, ChannelTruth,
                        ListTruth
    <2>11. \A g \in Range(successes') : fate'[g] = "good" /\ g \in paged'
      BY <2>7, <2>8 DEF TruthInv, ReaderTruth, VerdictTruth, ChannelTruth,
                        ListTruth
    <2>12. VerdictTruth'
      BY <2>9 DEF VerdictTruth, Good
    <2>13. ChannelTruth'
      BY <2>10 DEF ChannelTruth, Good
    <2>14. ListTruth'
      BY <2>11 DEF ListTruth, Good
    <2> QED
      BY <2>6, <2>12, <2>13, <2>14 DEF TruthInv
  <1>12. CASE Receive
    <2>1. UNCHANGED <<reader, paged, pc, verdict, item>>
      BY <1>12 DEF Receive
    <2>2. UNCHANGED <<fate, paged>>
      BY <1>1, <2>1
    <2>3. \A i \in DOMAIN results' : results'[i].ok => Good(results'[i].file)
      BY <1>12, ReceiveMoves DEF TruthInv, ReaderTruth, VerdictTruth,
                                 ChannelTruth, ListTruth
    <2>4. \/ successes' = successes
          \/ /\ successes' = Append(successes, Head(results).file)
             /\ Good(Head(results).file)
      BY <1>12, ReceiveMoves DEF TruthInv, ReaderTruth, VerdictTruth,
                                 ChannelTruth, ListTruth
    <2>5. \A f \in Range(successes') : Good(f)
      <3>1. /\ successes \in Seq(Files) /\ Head(results).file \in Files
            /\ \A f \in Range(successes) : Good(f)
        BY <1>12, ReceiveMoves DEF TruthInv, ReaderTruth, VerdictTruth,
                                   ChannelTruth, ListTruth, TypeOK
      <3>2. Range(Append(successes, Head(results).file))
              = Range(successes) \cup {Head(results).file}
        BY <3>1, RangeAppend
      <3> QED
        BY <2>4, <3>1, <3>2
    <2> QED
      BY <1>1, <2>1, <2>2, <2>3, <2>5 DEF TruthInv, ReaderTruth, VerdictTruth,
                                          ChannelTruth, ListTruth, Good
  <1>13. CASE EndOfResults \/ Leave \/ Join \/ UNCHANGED vars
    <2>1. UNCHANGED <<reader, paged, pc, verdict, item, results, successes>>
      BY <1>13 DEF EndOfResults, Leave, Join, vars
    <2>2. UNCHANGED <<fate, paged>>
      BY <1>1, <2>1
    <2> QED
      BY <1>1, <2>1, <2>2 DEF TruthInv, ReaderTruth, VerdictTruth, ChannelTruth,
                              ListTruth, Good
  <1> QED
    BY <1>3, <1>4, <1>5, <1>6, <1>7, <1>8, <1>9, <1>10, <1>11, <1>12, <1>13
       DEF Next, MainStep, WorkerStep

(* The truth of a failure.                                                 *)
LEMMA BlameStep ==
  ASSUME TypeOK, PlaceInv, TruthInv, BlameInv, [Next]_vars PROVE BlameInv'
  <1> USE DEF inputVars, workerVars, readerVars, mainVars
  <1>1. fate' = fate /\ expired \subseteq expired'
    BY DEF Next, MainStep, Receive, EndOfResults, Leave, Join, WorkerStep, LoadStop,
           Claim, ReadFile, SpawnPanics, TakeAnswer, Timeout, Conclude, SendOutcome,
           Process, Page, vars
  <1>2. \A f : Failed(f) => Failed(f)'
    BY <1>1 DEF Failed
  <1>3. ASSUME UNCHANGED reader PROVE ReaderBlame'
    BY <1>1, <1>3 DEF BlameInv, ReaderBlame
  <1>4. ASSUME UNCHANGED results PROVE ChannelBlame'
    BY <1>2, <1>4 DEF BlameInv, ChannelBlame
  <1>5. ASSUME UNCHANGED <<failures, skipped>> PROVE ListBlame'
    BY <1>2, <1>5 DEF BlameInv, ListBlame
  <1>6. ASSUME NEW w \in Workers,
               \A v \in Workers \ {w} : /\ pc'[v] = pc[v]
                                        /\ verdict'[v] = verdict[v]
                                        /\ item'[v] = item[v],
               pc'[w] = "send" /\ ~verdict'[w] => Failed(item[w])'
        PROVE  VerdictBlame'
    <2> SUFFICES ASSUME NEW v \in Workers, pc'[v] = "send", ~verdict'[v]
                 PROVE  Failed(item[v])'
      BY DEF VerdictBlame
    <2>1. CASE v = w
      BY <1>6, <2>1
    <2>2. CASE v # w
      <3>1. pc[v] = "send" /\ ~verdict[v] /\ item'[v] = item[v]
        BY <1>6, <2>2
      <3>2. Failed(item[v])
        BY <3>1 DEF BlameInv, VerdictBlame
      <3> QED
        BY <1>1, <3>1, <3>2 DEF Failed
    <2> QED
      BY <2>1, <2>2
  <1>7. ASSUME UNCHANGED <<pc, verdict, item>> PROVE VerdictBlame'
    BY <1>1, <1>7 DEF BlameInv, VerdictBlame, Failed
  <1>8. ASSUME NEW w \in Workers, LoadStop(w) \/ Claim(w) \/ SpawnPanics(w)
        PROVE  BlameInv'
    <2>1. pc'[w] # "send"
      BY <1>8 DEF LoadStop, Claim, SpawnPanics, TypeOK
    <2>2. VerdictBlame'
      BY <1>6, <1>8, <2>1 DEF LoadStop, Claim, SpawnPanics, TypeOK
    <2> QED
      BY <1>3, <1>4, <1>5, <1>8, <2>2 DEF BlameInv, LoadStop, Claim, SpawnPanics
  <1>9. ASSUME NEW w \in Workers, ReadFile(w) PROVE BlameInv'
    <2>1. item[w] \in Files
      BY <1>9, Held DEF ReadFile, Holding
    <2>2. pc'[w] = "send" => fate[item[w]] = "unreadable"
      BY <1>9 DEF ReadFile, TypeOK
    <2>3. pc'[w] = "send" => Failed(item[w])'
      BY <1>1, <1>9, <2>2 DEF ReadFile, Failed
    <2>4. VerdictBlame'
      BY <1>6, <1>9, <2>3 DEF ReadFile, TypeOK
    <2>5. ReaderBlame'
      BY <1>1, <1>9, <2>1 DEF ReadFile, TypeOK, BlameInv, ReaderBlame
    <2> QED
      BY <1>4, <1>5, <1>9, <2>4, <2>5 DEF BlameInv, ReadFile
  <1>10. ASSUME NEW w \in Workers, TakeAnswer(w) PROVE BlameInv'
    <2>1. item[w] \in Files
      BY <1>10, Held DEF TakeAnswer, Holding
    <2>2. /\ pc' = [pc EXCEPT ![w] = "send"] /\ item' = item
          /\ verdict' = [verdict EXCEPT ![w] = (reader[item[w]] = "ok")]
      BY <1>10 DEF TakeAnswer, Conclude
    <2>3. ~verdict'[w] => reader[item[w]] \in {"err", "gone"}
      BY <1>10, <2>2 DEF TakeAnswer, TypeOK
    <2>4. ~verdict'[w] => fate[item[w]] \in {"bad", "panics"}
      BY <2>1, <2>3 DEF BlameInv, ReaderBlame
    <2>5. ~verdict'[w] => Failed(item[w])'
      BY <1>1, <2>2, <2>4 DEF Failed
    <2>6. VerdictBlame'
      BY <1>6, <2>2, <2>5 DEF TypeOK
    <2> QED
      BY <1>3, <1>4, <1>5, <1>10, <2>6 DEF BlameInv, TakeAnswer, Conclude
  <1>11. ASSUME NEW w \in Workers, Timeout(w) PROVE BlameInv'
    <2>1. /\ pc' = [pc EXCEPT ![w] = "send"] /\ item' = item
          /\ verdict' = [verdict EXCEPT ![w] = FALSE]
          /\ expired' = expired \cup {item[w]}
      BY <1>11 DEF Timeout, Conclude
    <2>2. Failed(item[w])'
      BY <2>1 DEF Failed
    <2>3. VerdictBlame'
      BY <1>6, <2>1, <2>2 DEF TypeOK
    <2> QED
      BY <1>3, <1>4, <1>5, <1>11, <2>3 DEF BlameInv, Timeout, Conclude
  <1>12. ASSUME NEW w \in Workers, SendOutcome(w) PROVE BlameInv'
    <2> DEFINE e == [file |-> item[w], ok |-> verdict[w]]
    <2>1. /\ results' = Append(results, e) /\ pc' = [pc EXCEPT ![w] = "check"]
          /\ UNCHANGED <<reader, item, verdict, failures, skipped, expired>>
      BY <1>12 DEF SendOutcome
    <2>2. VerdictBlame'
      BY <1>6, <2>1 DEF TypeOK
    <2>3. ~verdict[w] => Failed(item[w])
      BY <1>12 DEF SendOutcome, BlameInv, VerdictBlame
    <2>4. ASSUME NEW i \in DOMAIN results', ~results'[i].ok
          PROVE  Failed(results'[i].file)
      <3>1. /\ results \in Seq(Outcome) /\ Len(results) \in Nat
            /\ DOMAIN results = 1 .. Len(results)
            /\ DOMAIN results' = 1 .. Len(results) + 1
            /\ \A j \in 1 .. Len(results) : results'[j] = results[j]
            /\ results'[Len(results) + 1] = e
        BY <2>1 DEF TypeOK
      <3>2. CASE i \in 1 .. Len(results)
        BY <2>4, <3>1, <3>2 DEF BlameInv, ChannelBlame
      <3>3. CASE i = Len(results) + 1
        BY <2>3, <2>4, <3>1, <3>3
      <3> QED
        BY <3>1, <3>2, <3>3
    <2>5. ChannelBlame'
      BY <1>1, <2>1, <2>4 DEF ChannelBlame, Failed
    <2> QED
      BY <1>3, <1>5, <2>1, <2>2, <2>5 DEF BlameInv
  <1>13. ASSUME NEW f \in Files, Process(f) PROVE BlameInv'
    <2>1. fate[f] \in {"good", "bad", "panics"}
      BY <1>13 DEF Process, TypeOK, Fates, TruthInv, ReaderTruth
    <2>2. /\ \A g \in Files \ {f} : reader'[g] = reader[g]
          /\ reader'[f] = "err" => fate[f] = "bad"
          /\ reader'[f] = "gone" => fate[f] = "panics"
      BY <1>13, <2>1 DEF Process, TypeOK
    <2>3. ReaderBlame'
      BY <1>1, <2>2 DEF BlameInv, ReaderBlame
    <2> QED
      BY <1>4, <1>5, <1>7, <1>13, <2>3 DEF BlameInv, Process
  <1>14. ASSUME NEW f \in Files, Page(f) PROVE BlameInv'
    <2>1. /\ \A g \in Files \ {f} : reader'[g] = reader[g]
          /\ reader'[f] = "ok"
      BY <1>14 DEF Page, TypeOK
    <2>2. ReaderBlame'
      BY <1>1, <2>1 DEF BlameInv, ReaderBlame
    <2> QED
      BY <1>4, <1>5, <1>7, <1>14, <2>2 DEF BlameInv, Page
  <1>15. CASE Receive
    <2>1. UNCHANGED <<reader, pc, verdict, item, expired>>
      BY <1>15 DEF Receive
    <2>2. ChannelBlame'
      BY <1>1, <1>15, <2>1, ReceiveMoves DEF BlameInv, ChannelBlame, Failed
    <2>3. ListBlame'
      <3> DEFINE h == Head(results).file
      <3>1. /\ failures \in Seq(Files) /\ skipped \in Seq(Files) /\ h \in Files
        BY <1>15, ReceiveMoves DEF TypeOK
      <3>2. /\ failures' = failures \/ (failures' = Append(failures, h) /\ Failed(h))
            /\ skipped' = skipped \/ (skipped' = Append(skipped, h) /\ Failed(h))
        BY <1>15, ReceiveMoves DEF Receive, BlameInv, ChannelBlame
      <3>3. /\ Range(Append(failures, h)) = Range(failures) \cup {h}
            /\ Range(Append(skipped, h)) = Range(skipped) \cup {h}
        BY <3>1, RangeAppend
      <3>4. \A f \in Range(failures') \cup Range(skipped') : Failed(f)
        BY <3>2, <3>3 DEF BlameInv, ListBlame
      <3> QED
        BY <1>2, <3>4 DEF ListBlame
    <2> QED
      BY <1>3, <1>7, <2>1, <2>2, <2>3 DEF BlameInv
  <1>16. CASE EndOfResults \/ Leave \/ Join \/ UNCHANGED vars
    BY <1>3, <1>4, <1>5, <1>7, <1>16
       DEF BlameInv, EndOfResults, Leave, Join, vars
  <1> QED
    BY <1>8, <1>9, <1>10, <1>11, <1>12, <1>13, <1>14, <1>15, <1>16
       DEF Next, MainStep, WorkerStep

(* A limit that is over puts an end to the hope of its file, and of no     *)
(* other: nobody else holds the file.                                      *)
LEMMA LateStep ==
  ASSUME TypeOK, PlaceInv, LateInv, [Next]_vars PROVE LateInv'
  <1> USE DEF inputVars, workerVars, readerVars, mainVars
  <1>1. nextIndex \in Nat
    BY WorkersFinite DEF TypeOK
  <1>2. ASSUME UNCHANGED <<nextIndex, pc, item, verdict, expired, results, successes>>
        PROVE  LateInv'
    BY <1>2 DEF LateInv, InTime
  <1>3. ASSUME NEW w \in Workers, UNCHANGED <<expired, results, successes>>,
               nextIndex' \in {nextIndex, nextIndex + 1},
               \A v \in Workers \ {w} : /\ pc'[v] = pc[v]
                                        /\ verdict'[v] = verdict[v]
                                        /\ item'[v] = item[v],
               InTime(w)' => item'[w] \notin expired
        PROVE  LateInv'
    <2>1. \A f \in expired : f \in Files /\ f < nextIndex'
      BY <1>1, <1>3 DEF LateInv, Files
    <2>2. \A v \in Workers \ {w} : InTime(v)' => InTime(v)
      BY <1>3 DEF InTime
    <2>3. \A v \in Workers : InTime(v)' => item'[v] \notin expired
      BY <1>3, <2>2 DEF LateInv
    <2> QED
      BY <1>3, <2>1, <2>3 DEF LateInv
  <1>4. ASSUME NEW w \in Workers, LoadStop(w) \/ SpawnPanics(w) PROVE LateInv'
    <2>1. ~InTime(w)'
      BY <1>4 DEF LoadStop, SpawnPanics, InTime, TypeOK
    <2> QED
      BY <1>3, <1>4, <2>1 DEF LoadStop, SpawnPanics, TypeOK
  <1>5. ASSUME NEW w \in Workers, Claim(w) PROVE LateInv'
    <2>1. CASE nextIndex < N
      <3>1. item'[w] = nextIndex
        BY <1>5, <2>1 DEF Claim, TypeOK
      <3>2. item'[w] \notin expired
        BY <1>1, <3>1 DEF LateInv
      <3> QED
        BY <1>3, <1>5, <2>1, <3>2 DEF Claim, TypeOK
    <2>2. CASE ~(nextIndex < N)
      <3>1. ~InTime(w)'
        BY <1>5, <2>2 DEF Claim, InTime, TypeOK
      <3> QED
        BY <1>3, <1>5, <2>2, <3>1 DEF Claim, TypeOK
    <2> QED
      BY <2>1, <2>2
  <1>6. ASSUME NEW w \in Workers, ReadFile(w) \/ TakeAnswer(w) PROVE LateInv'
    <2>1. InTime(w) /\ item' = item
      BY <1>6 DEF ReadFile, TakeAnswer, Conclude, InTime
    <2> QED
      BY <1>3, <1>6, <2>1 DEF ReadFile, TakeAnswer, Conclude, TypeOK, LateInv
  <1>7. ASSUME NEW w \in Workers, Timeout(w) PROVE LateInv'
    <2>1. /\ pc' = [pc EXCEPT ![w] = "send"]
          /\ verdict' = [verdict EXCEPT ![w] = FALSE]
          /\ expired' = expired \cup {item[w]}
          /\ UNCHANGED <<nextIndex, item, results, successes>>
      BY <1>7 DEF Timeout, Conclude
    <2>2. w \in Holding
      BY <1>7 DEF Timeout, Holding
    <2>3. item[w] \in Files /\ item[w] < nextIndex
      BY <2>2, Held DEF PlaceInv
    <2>4. ~InTime(w)'
      BY <2>1 DEF InTime, TypeOK
    <2>5. \A v \in Workers \ {w} : InTime(v)' => InTime(v) /\ v \in Holding
      BY <2>1 DEF InTime, Holding, TypeOK
    <2>6. \A v \in Workers : InTime(v)' => item'[v] \notin expired'
      BY <2>1, <2>2, <2>4, <2>5 DEF PlaceInv, LateInv
    <2>7. \A i \in DOMAIN results : results[i].file # item[w]
      BY <2>2, Held DEF InChannel, Names
    <2>8. \A f \in Range(successes) : f # item[w]
      BY <2>2, Held DEF Told
    <2> QED
      BY <2>1, <2>3, <2>6, <2>7, <2>8 DEF LateInv
  <1>8. ASSUME NEW w \in Workers, SendOutcome(w) PROVE LateInv'
    <2> DEFINE e == [file |-> item[w], ok |-> verdict[w]]
    <2>1. /\ results' = Append(results, e) /\ pc' = [pc EXCEPT ![w] = "check"]
          /\ UNCHANGED <<nextIndex, item, verdict, successes, expired>>
      BY <1>8 DEF SendOutcome
    <2>2. verdict[w] => item[w] \notin expired
      BY <1>8 DEF SendOutcome, LateInv, InTime
    <2>3. ASSUME NEW i \in DOMAIN results', results'[i].ok
          PROVE  results'[i].file \notin expired
      <3>1. /\ results \in Seq(Outcome) /\ Len(results) \in Nat
            /\ DOMAIN results = 1 .. Len(results)
            /\ DOMAIN results' = 1 .. Len(results) + 1
            /\ \A j \in 1 .. Len(results) : results'[j] = results[j]
            /\ results'[Len(results) + 1] = e
        BY <2>1 DEF TypeOK
      <3>2. CASE i \in 1 .. Len(results)
        BY <2>3, <3>1, <3>2 DEF LateInv
      <3>3. CASE i = Len(results) + 1
        BY <2>2, <2>3, <3>1, <3>3
      <3> QED
        BY <3>1, <3>2, <3>3
    <2>4. \A v \in Workers : InTime(v)' => InTime(v)
      BY <2>1 DEF InTime, TypeOK
    <2> QED
      BY <2>1, <2>3, <2>4 DEF LateInv
  <1>9. CASE Receive
    <2> DEFINE h == Head(results).file
    <2>1. UNCHANGED <<nextIndex, pc, item, verdict, expired>>
      BY <1>9 DEF Receive
    <2>2. \A i \in DOMAIN results' : results'[i].ok => results'[i].file \notin expired
      BY <1>9, ReceiveMoves DEF LateInv
    <2>3. \/ successes' = successes
          \/ successes' = Append(successes, h) /\ h \notin expired
      BY <1>9, ReceiveMoves DEF LateInv
    <2>4. Range(Append(successes, h)) = Range(successes) \cup {h}
      BY <1>9, ReceiveMoves, RangeAppend DEF TypeOK
    <2>5. \A f \in Range(successes') : f \notin expired
      BY <2>3, <2>4 DEF LateInv
    <2> QED
      BY <2>1, <2>2, <2>5 DEF LateInv, InTime
  <1>10. CASE EndOfResults \/ Leave \/ Join \/ UNCHANGED vars
    BY <1>2, <1>10 DEF EndOfResults, Leave, Join, vars
  <1>11. ASSUME NEW f \in Files, Process(f) \/ Page(f) PROVE LateInv'
    BY <1>2, <1>11 DEF Process, Page
  <1> QED
    BY <1>4, <1>5, <1>6, <1>7, <1>8, <1>9, <1>10, <1>11
       DEF Next, MainStep, WorkerStep

(* The flag.                                                               *)
LEMMA StopStep ==
  ASSUME TypeOK, StopInv, [Next]_vars PROVE StopInv'
  <1> USE DEF inputVars, workerVars, readerVars, mainVars
  <1>1. /\ nextIndex \in Nat /\ stop \in BOOLEAN
        /\ pc \in [Workers -> PCs] /\ late \in [Workers -> Nat]
    BY WorkersFinite DEF TypeOK
  <1>2. ASSUME NEW w \in Workers, pc[w] # "exit", NEW q \in PCs \ {"claim", "exit"},
               pc' = [pc EXCEPT ![w] = q], UNCHANGED <<late, nextIndex, stop, mpc>>
        PROVE  StopInv'
    BY <1>1, <1>2 DEF StopInv
  <1>3. ASSUME NEW w \in Workers, LoadStop(w) PROVE StopInv'
    <2>1. UNCHANGED <<late, nextIndex, stop, mpc>>
      BY <1>3 DEF LoadStop
    <2>2. CASE stop
      <3>1. pc' = [pc EXCEPT ![w] = "exit"]
        BY <1>3, <2>2 DEF LoadStop
      <3> QED
        BY <1>1, <2>1, <2>2, <3>1 DEF StopInv
    <2>3. CASE ~stop
      <3>1. pc' = [pc EXCEPT ![w] = "claim"]
        BY <1>3, <2>3 DEF LoadStop
      <3> QED
        BY <1>1, <2>1, <2>3, <3>1 DEF StopInv
    <2> QED
      BY <2>2, <2>3
  <1>4. ASSUME NEW w \in Workers, Claim(w) PROVE StopInv'
    <2>1. UNCHANGED <<stop, mpc>> /\ nextIndex' = nextIndex + 1 /\ late[w] = 0
      BY <1>4 DEF Claim, StopInv
    <2>2. CASE nextIndex < N
      <3>1. pc' = [pc EXCEPT ![w] = "read"]
        BY <1>4, <2>2 DEF Claim
      <3>2. CASE stop
        <4>1. late' = [late EXCEPT ![w] = 1]
          BY <1>1, <1>4, <2>1, <2>2, <3>2 DEF Claim
        <4> QED
          BY <1>1, <2>1, <3>1, <3>2, <4>1 DEF StopInv
      <3>3. CASE ~stop
        <4>1. late' = late
          BY <1>1, <1>4, <2>1, <2>2, <3>3 DEF Claim
        <4> QED
          BY <1>1, <2>1, <3>1, <3>3, <4>1 DEF StopInv
      <3> QED
        BY <3>2, <3>3
    <2>3. CASE ~(nextIndex < N)
      <3>1. pc' = [pc EXCEPT ![w] = "exit"] /\ late' = late
        BY <1>4, <2>3 DEF Claim
      <3> QED
        BY <1>1, <2>1, <2>3, <3>1 DEF StopInv
    <2> QED
      BY <2>2, <2>3
  <1>5. ASSUME NEW w \in Workers,
               \/ ReadFile(w) \/ SpawnPanics(w) \/ TakeAnswer(w)
               \/ Timeout(w) \/ SendOutcome(w)
        PROVE  StopInv'
    <2>1. /\ pc[w] # "exit" /\ UNCHANGED <<late, nextIndex, stop, mpc>>
          /\ \E q \in {"check", "wait", "send", "dead"} : pc' = [pc EXCEPT ![w] = q]
      BY <1>5 DEF ReadFile, SpawnPanics, TakeAnswer, Timeout, Conclude, SendOutcome
    <2> QED
      BY <1>2, <2>1 DEF PCs
  <1>6. CASE Receive
    <2>1. UNCHANGED <<late, nextIndex, pc>> /\ ~stop
      BY <1>6 DEF Receive, StopInv
    <2>2. \/ stop' = stop /\ mpc' = "recv"
          \/ stop' = TRUE /\ mpc' = "leave"
      BY <1>1, <1>6, <2>1 DEF Receive
    <2> QED
      BY <2>1, <2>2 DEF StopInv
  <1>7. CASE EndOfResults \/ Leave \/ Join
    <2>1. /\ UNCHANGED <<late, nextIndex, pc>> /\ mpc' # "recv"
          /\ stop' = stop \/ stop' = TRUE
      BY <1>7 DEF EndOfResults, Leave, Join
    <2> QED
      BY <2>1 DEF StopInv
  <1>8. ASSUME UNCHANGED <<late, nextIndex, pc, stop, mpc>> PROVE StopInv'
    BY <1>8 DEF StopInv
  <1>9. ASSUME NEW f \in Files, Process(f) \/ Page(f) PROVE StopInv'
    <2>1. UNCHANGED <<late, nextIndex, pc, stop, mpc>>
      BY <1>9 DEF Process, Page
    <2> QED
      BY <1>8, <2>1
  <1>10. CASE UNCHANGED vars
    BY <1>8, <1>10 DEF vars
  <1> QED
    BY <1>3, <1>4, <1>5, <1>6, <1>7, <1>9, <1>10 DEF Next, MainStep, WorkerStep

(* The first failure under FailFast, and the end under any other strategy. *)
LEMMA HaltStep ==
  ASSUME TypeOK, PlaceInv, HaltInv, [Next]_vars PROVE HaltInv'
  <1> USE DEF inputVars, workerVars, readerVars, mainVars
  <1>1. ASSUME UNCHANGED <<strategy, failures>>, mpc' = mpc \/ mpc' # "recv"
        PROVE  HaltInv'
    BY <1>1 DEF HaltInv
  <1>2. CASE Receive
    <2>1. strategy' = strategy /\ mpc = "recv"
      BY <1>2 DEF Receive
    <2>2. CASE Head(results).ok \/ strategy = "Skip"
      <3>1. failures' = failures
        BY <1>2, <2>2 DEF Receive
      <3> QED
        BY <2>1, <3>1 DEF HaltInv
    <2>3. CASE ~Head(results).ok /\ strategy = "FailFast"
      <3>1. failures = <<>> /\ failures' = Append(failures, Head(results).file)
        BY <1>2, <2>1, <2>3 DEF Receive, HaltInv
      <3>2. Len(failures') = 1 /\ mpc' = "leave"
        BY <1>2, <2>3, <3>1 DEF Receive
      <3> QED
        BY <3>2 DEF HaltInv
    <2>4. CASE strategy = "Collect"
      BY <2>1, <2>4 DEF HaltInv
    <2> QED
      BY <2>2, <2>3, <2>4 DEF TypeOK, Strategies
  <1>3. CASE EndOfResults \/ Leave \/ Join \/ UNCHANGED vars
    <2>1. UNCHANGED <<strategy, failures>> /\ (mpc' = mpc \/ mpc' # "recv")
      BY <1>3 DEF EndOfResults, Leave, Join, vars
    <2> QED
      BY <1>1, <2>1
  <1>4. ASSUME NEW w \in Workers, WorkerStep(w) \/ SpawnPanics(w) PROVE HaltInv'
    <2>1. UNCHANGED <<strategy, failures, mpc>>
      BY <1>4 DEF WorkerStep, LoadStop, Claim, ReadFile, TakeAnswer, Timeout,
                  Conclude, SendOutcome, SpawnPanics
    <2> QED
      BY <1>1, <2>1
  <1>5. ASSUME NEW f \in Files, Process(f) \/ Page(f) PROVE HaltInv'
    <2>1. UNCHANGED <<strategy, failures, mpc>>
      BY <1>5 DEF Process, Page
    <2> QED
      BY <1>1, <2>1
  <1> QED
    BY <1>2, <1>3, <1>4, <1>5 DEF Next, MainStep

(* The loop ends with every file told or without a worker, unless it is    *)
(* halted.                                                                 *)
LEMMA AllTold ==
  ASSUME TypeOK, PlaceInv, CountInv, StopInv, EndOfResults, NEW f \in Files
  PROVE  f \in Told \/ Orphaned(f)
  <1>1. mpc = "recv" /\ ~stop /\ (done = N \/ (results = <<>> /\ AllExited))
    BY DEF EndOfResults, StopInv
  <1>2. CASE done = N
    BY <1>2, WorkersFinite, ToldFinite, FS_Subset DEF CountInv
  <1>3. CASE results = <<>> /\ AllExited
    <2>1. nextIndex \in Nat /\ f \in 0 .. N - 1
      BY WorkersFinite DEF TypeOK, Files
    <2>2. CASE f < nextIndex
      <3>1. InChannel = {}
        BY <1>3 DEF InChannel, Names
      <3>2. f \in InHand \cup Told
        BY <2>2, <3>1 DEF PlaceInv
      <3>3. \A w \in Holding : pc[w] = "dead"
        BY <1>3 DEF AllExited, Holding
      <3> QED
        BY <3>2, <3>3 DEF InHand, Holding, Orphaned
    <2>3. CASE nextIndex <= f
      <3>1. \A w \in Workers : pc[w] = "dead"
        BY <1>1, <1>3, <2>1, <2>3 DEF AllExited, StopInv
      <3> QED
        BY <2>3, <3>1 DEF Orphaned
    <2> QED
      BY <2>1, <2>2, <2>3
  <1> QED
    BY <1>1, <1>2, <1>3

(* A dead worker stays dead, and when all are nothing is claimed.          *)
LEMMA OrphanStays ==
  ASSUME TypeOK, NEW f \in Files, Orphaned(f), [Next]_vars PROVE Orphaned(f)'
  <1> USE DEF inputVars, workerVars, readerVars, mainVars
  <1>1. ASSUME UNCHANGED <<pc, item, nextIndex>> PROVE Orphaned(f)'
    BY <1>1 DEF Orphaned
  <1>2. ASSUME NEW w \in Workers, pc[w] # "dead",
               \A v \in Workers \ {w} : pc'[v] = pc[v] /\ item'[v] = item[v]
        PROVE  Orphaned(f)'
    BY <1>2 DEF Orphaned
  <1>3. ASSUME NEW w \in Workers, WorkerStep(w) \/ SpawnPanics(w)
        PROVE  Orphaned(f)'
    BY <1>2, <1>3 DEF WorkerStep, LoadStop, Claim, ReadFile, TakeAnswer, Timeout,
                      Conclude, SendOutcome, SpawnPanics, TypeOK
  <1>4. ASSUME NEW g \in Files, Process(g) \/ Page(g) PROVE Orphaned(f)'
    BY <1>1, <1>4 DEF Process, Page
  <1>5. CASE MainStep
    BY <1>1, <1>5 DEF MainStep, Receive, EndOfResults, Leave, Join
  <1>6. CASE UNCHANGED vars
    BY <1>1, <1>6 DEF vars
  <1> QED
    BY <1>3, <1>4, <1>5, <1>6 DEF Next

LEMMA LeftStep ==
  ASSUME TypeOK, PlaceInv, CountInv, StopInv, LeftInv, [Next]_vars PROVE LeftInv'
  <1> USE DEF inputVars, workerVars, readerVars, mainVars
  <1>1. ASSUME UNCHANGED <<strategy, mpc, successes, failures, skipped>> PROVE LeftInv'
    BY <1>1, OrphanStays DEF LeftInv, Told
  <1>2. CASE Receive
    <2>1. strategy' = strategy
          /\ (mpc' = "recv" \/ (mpc' = "leave" /\ strategy = "FailFast"))
      BY <1>2 DEF Receive
    <2> QED
      BY <2>1 DEF LeftInv
  <1>3. CASE EndOfResults
    <2>1. Told' = Told
      BY <1>3 DEF EndOfResults, Told
    <2> QED
      BY <1>3, <2>1, AllTold, OrphanStays DEF LeftInv
  <1>4. CASE Leave \/ Join
    <2>1. mpc # "recv" /\ UNCHANGED <<strategy, successes, failures, skipped>>
      BY <1>4 DEF Leave, Join
    <2> QED
      BY <2>1, OrphanStays DEF LeftInv, Told
  <1>5. ASSUME NEW w \in Workers, WorkerStep(w) \/ SpawnPanics(w) PROVE LeftInv'
    <2>1. UNCHANGED <<strategy, mpc, successes, failures, skipped>>
      BY <1>5 DEF WorkerStep, LoadStop, Claim, ReadFile, TakeAnswer, Timeout,
                  Conclude, SendOutcome, SpawnPanics
    <2> QED
      BY <1>1, <2>1
  <1>6. ASSUME NEW f \in Files, Process(f) \/ Page(f) PROVE LeftInv'
    <2>1. UNCHANGED <<strategy, mpc, successes, failures, skipped>>
      BY <1>6 DEF Process, Page
    <2> QED
      BY <1>1, <2>1
  <1>7. CASE UNCHANGED vars
    BY <1>1, <1>7 DEF vars
  <1> QED
    BY <1>2, <1>3, <1>4, <1>5, <1>6, <1>7 DEF Next, MainStep

-----------------------------------------------------------------------------
(* The inductive invariant holds in every reachable state of run_batch.    *)
THEOREM BatchInvariant == Spec => []IInv
  <1>1. IInv /\ [Next]_vars => IInv'
    BY TypesStep, PlaceStep, CountStep, OverrunStep, TruthStep, BlameStep, LateStep,
       StopStep, HaltStep, LeftStep DEF IInv
  <1> QED
    BY InvInit, <1>1, PTL DEF Spec

(* Type correctness of run_batch, for any number of files and workers: the *)
(* counter overruns the files by at most one a worker.                     *)
THEOREM BatchTypes == Spec => []TypeOK
  <1> QED
    BY BatchInvariant, PTL DEF IInv

(* run_batch gives a file one outcome, however its answer and its time     *)
(* limit race, and the one that is true: a success was processed, its      *)
(* pages were reported and its answer was in time; a failure could not be  *)
(* read or processed, or its limit was over.                               *)
THEOREM OneTrueOutcome == Spec => []ReportedOnceAndTruly
  <1>1. IInv => ReportedOnceAndTruly
    <2> SUFFICES ASSUME IInv PROVE ReportedOnceAndTruly
      OBVIOUS
    <2>1. /\ successes \in Seq(Files) /\ failures \in Seq(Files)
          /\ skipped \in Seq(Files)
      BY DEF IInv, TypeOK
    <2>2. /\ successes \o failures \in Seq(Files) /\ Once(successes \o failures)
          /\ Range(successes \o failures) = Range(successes) \cup Range(failures)
      BY <2>1, RangeConcat DEF IInv, PlaceInv
    <2>3. Once((successes \o failures) \o skipped)
      <3>1. Range(successes \o failures) \cap Range(skipped) = {} /\ Once(skipped)
        BY <2>2 DEF IInv, PlaceInv
      <3> QED
        BY <2>1, <2>2, <3>1, RangeConcat
    <2>4. \A a \in DOMAIN Reported, b \in DOMAIN Reported :
            a # b => Reported[a] # Reported[b]
      BY <2>3 DEF Reported, Once
    <2>5. \A a \in DOMAIN successes : successes[a] \in Range(successes)
      BY DEF Range
    <2>6. \A a \in DOMAIN successes : /\ fate[successes[a]] = "good"
                                      /\ successes[a] \in paged
      BY <2>5 DEF IInv, TruthInv, ListTruth, Good
    <2>7. \A a \in DOMAIN successes : successes[a] \notin expired
      BY <2>5 DEF IInv, LateInv
    <2>8. /\ \A a \in DOMAIN failures : Failed(failures[a])
          /\ \A a \in DOMAIN skipped : Failed(skipped[a])
      BY DEF Range, IInv, BlameInv, ListBlame
    <2> QED
      BY <2>4, <2>6, <2>7, <2>8, Zenon DEF ReportedOnceAndTruly, Succeeded
  <1> QED
    BY BatchInvariant, <1>1, PTL

(* Unless it fails fast, run_batch returns an outcome for every file, the  *)
(* hanging, panicking and unreadable ones included, but for those it could *)
(* have no thread for.                                                     *)
THEOREM NoFileForgotten == Spec => []EveryFileReported
  <1>1. IInv => EveryFileReported
    <2> SUFFICES ASSUME IInv, mpc = "returned", strategy # "FailFast",
                        NEW f \in Files, ~Orphaned(f)
                 PROVE  \E a \in DOMAIN Reported : Reported[a] = f
      BY DEF EveryFileReported
    <2>1. /\ successes \in Seq(Files) /\ failures \in Seq(Files)
          /\ skipped \in Seq(Files)
      BY DEF IInv, TypeOK
    <2>2. \A s, t \in Seq(Files) : /\ s \o t \in Seq(Files)
                                   /\ Range(s \o t) = Range(s) \cup Range(t)
      BY RangeConcat
    <2>3. Range(Reported) = Told
      <3>1. /\ successes \o failures \in Seq(Files)
            /\ Range(successes \o failures) = Range(successes) \cup Range(failures)
        BY <2>1, <2>2
      <3>2. Range((successes \o failures) \o skipped)
              = Range(successes \o failures) \cup Range(skipped)
        BY <2>1, <2>2, <3>1
      <3>3. Reported = (successes \o failures) \o skipped
        BY DEF Reported
      <3> QED
        BY <3>1, <3>2, <3>3, Zenon DEF Told
    <2>4. f \in Range(Reported)
      BY <2>3 DEF IInv, LeftInv
    <2> QED
      BY <2>4 DEF Range
  <1> QED
    BY BatchInvariant, <1>1, PTL

(* Under FailFast run_batch reports one failure at most, and whatever the  *)
(* strategy no worker claims two files after the flag is set.              *)
THEOREM FirstFailureStops == Spec => []FailFastStops
  <1>1. IInv => FailFastStops
    BY DEF IInv, HaltInv, StopInv, FailFastStops
  <1> QED
    BY BatchInvariant, <1>1, PTL
=============================================================================
