------------------------- MODULE XRefResolve_proofs -------------------------
(***************************************************************************)
(* Proofs about XRefResolve, for any threads, object numbers, offsets and  *)
(* documents: type correctness, that the file is scanned once, that the    *)
(* caches agree, that resolution does not chase its own tail, and that the *)
(* answers are right.                                                      *)
(*                                                                         *)
(* A step changes the stack of one thread in one of three ways: the call   *)
(* on top goes on, it calls, or it returns.  What each way does to a stack *)
(* is said once (SetTopStep, CallStep, ReturnStep).  The calls below the   *)
(* top wait for a stream, and their numbers are on the chain of every call *)
(* above them (ChainInv).  What a call knows of the caches stays true,     *)
(* since a slot and a table of offsets are written once (FrameInv).        *)
(***************************************************************************)
EXTENDS XRefResolve, FunctionTheorems, FiniteSetTheorems, TLAPS

USE ResolveAssumption

Waiting == {"header", "decode"}
HasData == {"publish", "table", "parse", "pick"}
InStream == Waiting \cup HasData \cup {"bytes"}

(* The kind of entry a call follows.                                       *)
Follows(f) == /\ f.pc = "direct" => f.entry.kind = "normal"
              /\ f.pc \in InStream \cup {"packed"} => f.entry.kind = "packed"

(* What a call knows of the caches: the bodies, slotOf, slots and offsets. *)
Knows(f, body, filed, held, tabled) ==
  /\ f.pc \in HasData => f.data \in Offsets /\ body[f.data].num = f.entry.at
  /\ f.pc \in HasData \ {"publish"} => /\ filed[f.entry.at] # Nothing
                                       /\ f.data = held[filed[f.entry.at]]
  /\ f.pc = "pick" => tabled[f.entry.at] # Nothing

FrameInv ==
  \A t \in Threads : \A i \in 1 .. Depth(t) :
    /\ Follows(stack[t][i])
    /\ Knows(stack[t][i], file.body, slotOf, slots, offsets)

(* Who waits, for whom, and which numbers are on the chain.                *)
Linked(s, i) ==
  /\ i < Len(s) <=> s[i].pc \in Waiting
  /\ \A j \in 1 .. i - 1 : s[j].num \in s[i].chain
  /\ s[i].pc \in InStream => /\ s[i].num \in s[i].chain
                             /\ \A j \in 1 .. i - 1 : s[j].num # s[i].num
  /\ i > 1 => s[i].asStream /\ s[i].num = s[i - 1].entry.at

ChainInv == \A t \in Threads : \A i \in 1 .. Depth(t) : Linked(stack[t], i)

(* The slots are handed out in order.                                      *)
SlotsInv ==
  /\ \A s \in Ids : slotOf[s] # Nothing => slotOf[s] < Used
  /\ \A k \in 0 .. Cardinality(Ids) - 1 : k >= Used => slots[k] = Nothing

IInv == /\ TypeOK /\ FrameInv /\ ChainInv
        /\ CachesCoherent /\ SlotsInv /\ RepairsOnce

(* The three ways of a step of t.                                          *)
Returns(t) ==
  \E got \in Object \cup {Nothing} :
    /\ Return(t, got)
    /\ got = Nothing \/ Depth(t) = 1 \/ file.body[got.from].num = Top(t).num

GoesOn(t) ==
  \E g \in Frames :
    /\ SetTop(t, g)
    /\ g.num = Top(t).num /\ g.asStream = Top(t).asStream /\ g.chain = Top(t).chain
    /\ g.pc \notin Waiting /\ (g.pc \in InStream => Top(t).pc \in InStream)
    /\ Follows(g) /\ Knows(g, file.body, slotOf', slots', offsets')
    /\ answer' = answer

Calls(t) ==
  \E g \in Frames :
    /\ Call(t, g, NewFrame(g.entry.at, TRUE, g.chain))
    /\ g.num = Top(t).num /\ g.asStream = Top(t).asStream /\ g.entry = Top(t).entry
    /\ g.pc \in Waiting /\ g.entry.kind = "packed"
    /\ Top(t).chain \subseteq g.chain /\ g.num \in g.chain
    /\ Top(t).pc \in InStream \/ Top(t).num \notin Top(t).chain
    /\ answer' = answer

-----------------------------------------------------------------------------
(* A call below the top keeps its links when it is copied with all below   *)
(* it.                                                                     *)
LEMMA LinkedCopy ==
  ASSUME NEW s, NEW r, NEW i \in Nat, Linked(s, i),
         i < Len(s), i < Len(r), r[i] = s[i],
         \A j \in 1 .. i - 1 : r[j] = s[j], i > 1 => r[i - 1] = s[i - 1]
  PROVE  Linked(r, i)
  BY DEF Linked

(* What a step does to a stack.                                            *)
LEMMA TopTypes ==
  ASSUME TypeOK, NEW t \in Threads, stack[t] # <<>>
  PROVE  /\ stack[t] \in Seq(Frames) /\ Depth(t) \in Nat \ {0} /\ Top(t) \in Frames
         /\ \A i \in 1 .. Depth(t) : stack[t][i] \in Frames
  BY DEF TypeOK, Depth, Top

LEMMA SetTopStep ==
  ASSUME TypeOK, NEW t \in Threads, stack[t] # <<>>, NEW g \in Frames, SetTop(t, g)
  PROVE  /\ stack' \in [Threads -> Seq(Frames)]
         /\ \A u \in Threads \ {t} : stack'[u] = stack[u]
         /\ Len(stack'[t]) = Depth(t) /\ stack'[t][Depth(t)] = g
         /\ \A i \in 1 .. Depth(t) - 1 : stack'[t][i] = stack[t][i]
         /\ stack'[t] # <<>>
  <1>1. stack[t] \in Seq(Frames) /\ Len(stack[t]) \in Nat \ {0}
    BY TopTypes DEF Depth
  <1>2. stack' = [stack EXCEPT ![t] = [stack[t] EXCEPT ![Len(stack[t])] = g]]
    BY DEF SetTop, Depth, TypeOK
  <1>3. [stack[t] EXCEPT ![Len(stack[t])] = g] \in Seq(Frames)
    BY <1>1
  <1>4. stack'[t] = [stack[t] EXCEPT ![Len(stack[t])] = g]
    BY <1>2 DEF TypeOK
  <1>5. stack' \in [Threads -> Seq(Frames)]
    BY <1>2, <1>3 DEF TypeOK
  <1>6. \A u \in Threads \ {t} : stack'[u] = stack[u]
    BY <1>2 DEF TypeOK
  <1>7. /\ Len(stack'[t]) = Len(stack[t]) /\ stack'[t][Len(stack[t])] = g
        /\ \A i \in 1 .. Len(stack[t]) - 1 : stack'[t][i] = stack[t][i]
    BY <1>1, <1>4
  <1>8. stack'[t] # <<>>
    BY <1>1, <1>7
  <1> QED
    BY <1>5, <1>6, <1>7, <1>8 DEF Depth

LEMMA CallStep ==
  ASSUME TypeOK, NEW t \in Threads, stack[t] # <<>>, NEW g \in Frames,
         NEW h \in Frames, Call(t, g, h)
  PROVE  /\ stack' \in [Threads -> Seq(Frames)]
         /\ \A u \in Threads \ {t} : stack'[u] = stack[u]
         /\ Len(stack'[t]) = Depth(t) + 1
         /\ stack'[t][Depth(t)] = g /\ stack'[t][Depth(t) + 1] = h
         /\ \A i \in 1 .. Depth(t) - 1 : stack'[t][i] = stack[t][i]
  <1>1. stack[t] \in Seq(Frames) /\ Len(stack[t]) \in Nat \ {0}
    BY TopTypes DEF Depth
  <1> DEFINE s == [stack[t] EXCEPT ![Len(stack[t])] = g]
  <1>2. stack' = [stack EXCEPT ![t] = Append(s, h)]
    BY DEF Call, Depth, TypeOK
  <1>3. /\ s \in Seq(Frames) /\ Len(s) = Len(stack[t]) /\ s[Len(stack[t])] = g
        /\ \A i \in 1 .. Len(stack[t]) - 1 : s[i] = stack[t][i]
    BY <1>1
  <1> HIDE DEF s
  <1>4. /\ Append(s, h) \in Seq(Frames) /\ Len(Append(s, h)) = Len(stack[t]) + 1
        /\ Append(s, h)[Len(stack[t]) + 1] = h
        /\ \A i \in 1 .. Len(stack[t]) : Append(s, h)[i] = s[i]
    BY <1>1, <1>3
  <1>5. stack'[t] = Append(s, h) /\ stack' \in [Threads -> Seq(Frames)]
        /\ \A u \in Threads \ {t} : stack'[u] = stack[u]
    BY <1>2, <1>4 DEF TypeOK
  <1> QED
    BY <1>1, <1>3, <1>4, <1>5 DEF Depth

LEMMA ResumedType ==
  ASSUME TypeOK, NEW f \in Frames, NEW got \in Object \cup {Nothing}
  PROVE  Resumed(f, got) \in Frames
  <1>1. got # Nothing => got.from \in Offsets
    BY DEF Object
  <1> QED
    BY <1>1 DEF Resumed, Frames, PCs

LEMMA ReturnStep ==
  ASSUME TypeOK, NEW t \in Threads, stack[t] # <<>>, NEW got \in Object \cup {Nothing},
         Return(t, got)
  PROVE  /\ stack' \in [Threads -> Seq(Frames)]
         /\ \A u \in Threads \ {t} : stack'[u] = stack[u]
         /\ Depth(t) = 1 => /\ stack'[t] = <<>>
                            /\ answer' = [answer EXCEPT ![t] =
                                            [asked |-> Top(t).num, got |-> got]]
         /\ Depth(t) > 1 =>
              /\ Len(stack'[t]) = Depth(t) - 1
              /\ stack'[t][Depth(t) - 1] = Resumed(stack[t][Depth(t) - 1], got)
              /\ \A i \in 1 .. Depth(t) - 2 : stack'[t][i] = stack[t][i]
              /\ answer' = answer
         /\ answer' \in [Threads -> [asked : Ids, got : Object \cup {Nothing}]
                                      \cup {Nothing}]
  <1>1. /\ stack[t] \in Seq(Frames) /\ Len(stack[t]) \in Nat \ {0}
        /\ Top(t) \in Frames /\ \A i \in 1 .. Len(stack[t]) : stack[t][i] \in Frames
    BY TopTypes DEF Depth
  <1>2. CASE Depth(t) = 1
    <2>1. /\ stack' = [stack EXCEPT ![t] = <<>>]
          /\ answer' = [answer EXCEPT ![t] = [asked |-> Top(t).num, got |-> got]]
      BY <1>2 DEF Return
    <2>2. stack' \in [Threads -> Seq(Frames)] /\ stack'[t] = <<>>
          /\ \A u \in Threads \ {t} : stack'[u] = stack[u]
      BY <2>1 DEF TypeOK
    <2>3. Top(t).num \in Ids
      BY <1>1 DEF Frames
    <2>4. answer' \in [Threads -> [asked : Ids, got : Object \cup {Nothing}]
                                     \cup {Nothing}]
      BY <2>1, <2>3 DEF TypeOK
    <2> QED
      BY <1>2, <2>1, <2>2, <2>4
  <1>3. CASE Depth(t) # 1
    <2> DEFINE up == Len(stack[t]) - 1
               g == Resumed(stack[t][up], got)
               s == SubSeq(stack[t], 1, up - 1)
    <2>1. up \in Nat \ {0} /\ up \in 1 .. Len(stack[t])
      <3>1. Len(stack[t]) \in Nat \ {0}
        BY <1>1
      <3>2. Len(stack[t]) # 1
        BY <1>3 DEF Depth
      <3>3. \A n \in Nat \ {0} : n # 1 => n - 1 \in Nat \ {0} /\ n - 1 \in 1 .. n
        OBVIOUS
      <3> QED
        BY <3>1, <3>2, <3>3, Zenon
    <2>2. stack' = [stack EXCEPT ![t] = Append(s, g)] /\ answer' = answer
      BY <1>3 DEF Return, Depth, TypeOK
    <2>3. g \in Frames
      BY <1>1, <2>1, ResumedType
    <2>4. /\ s \in Seq(Frames) /\ Len(s) = up - 1
          /\ \A i \in 1 .. up - 1 : s[i] = stack[t][i]
      BY <1>1, <2>1
    <2> HIDE DEF up, g, s
    <2>5. /\ Append(s, g) \in Seq(Frames) /\ Len(Append(s, g)) = up
          /\ Append(s, g)[up] = g
          /\ \A i \in 1 .. up - 1 : Append(s, g)[i] = s[i]
      BY <2>1, <2>3, <2>4
    <2>6. stack'[t] = Append(s, g) /\ stack' \in [Threads -> Seq(Frames)]
          /\ \A u \in Threads \ {t} : stack'[u] = stack[u]
      BY <2>2, <2>5 DEF TypeOK
    <2>7. up = Depth(t) - 1 /\ up - 1 = Depth(t) - 2
      BY <1>1 DEF up, Depth
    <2>8. answer' \in [Threads -> [asked : Ids, got : Object \cup {Nothing}]
                                     \cup {Nothing}]
      BY <2>2 DEF TypeOK
    <2>9. g = Resumed(stack[t][up], got)
      BY DEF g
    <2>10. Len(stack'[t]) = up /\ stack'[t][up] = g
           /\ \A i \in 1 .. up - 1 : stack'[t][i] = stack[t][i]
      BY <2>4, <2>5, <2>6
    <2> QED
      BY <1>3, <2>2, <2>6, <2>7, <2>8, <2>9, <2>10
  <1> QED
    BY <1>2, <1>3

-----------------------------------------------------------------------------
(* What the entries and the frames are.                                    *)
LEMMA EntryTypes ==
  ASSUME NEW e \in Entry
  PROVE  /\ e.kind = "normal" => e.at \in Offsets
         /\ e.kind = "packed" => e.at \in Ids /\ e.index \in Nat
         /\ e.kind \in {"none", "normal", "packed"}
  BY DEF Entry

LEMMA FileTypes ==
  ASSUME TypeOK
  PROVE  /\ file.table \in [Ids -> Entry] /\ file.scan \in [Ids -> Entry]
         /\ \A o \in Offsets : /\ file.body[o] \in Body
                               /\ file.body[o].num \in Ids
                               /\ file.body[o].packs \in Seq(Ids)
  <1>1. file \in File
    BY DEF TypeOK
  <1> QED
    BY <1>1 DEF File, Body

LEMMA FrameTypes ==
  ASSUME NEW f \in Frames
  PROVE  /\ f.pc \in PCs /\ f.num \in Ids /\ f.asStream \in BOOLEAN
         /\ f.chain \subseteq Ids /\ f.entry \in Entry /\ f.fresh \in BOOLEAN
         /\ f.header \in Offsets \cup {0} /\ f.data \in Offsets \cup {0}
         /\ \A q \in PCs : [f EXCEPT !.pc = q] \in Frames
  BY DEF Frames

LEMMA NewFrameType ==
  ASSUME NEW num \in Ids, NEW asStream \in BOOLEAN, NEW chain \in SUBSET Ids
  PROVE  NewFrame(num, asStream, chain) \in Frames
  BY DEF NewFrame, Frames, PCs, Undefined, Entry

LEMMA UsedBound ==
  ASSUME TypeOK
  PROVE  /\ Cardinality(Ids) \in Nat /\ Used \in Nat /\ Used <= Cardinality(Ids)
         /\ \A s \in Ids : slotOf[s] = Nothing => Used < Cardinality(Ids)
  <1> DEFINE Filed == {s \in Ids : slotOf[s] # Nothing}
  <1>1. /\ IsFiniteSet(Filed) /\ Cardinality(Filed) <= Cardinality(Ids)
        /\ Cardinality(Filed) = Cardinality(Ids) => Filed = Ids
    <2>1. Filed \in SUBSET Ids
      OBVIOUS
    <2> HIDE DEF Filed
    <2> QED
      BY <2>1, FS_Subset, Zenon
  <1>2. Cardinality(Ids) \in Nat /\ Cardinality(Filed) \in Nat
    BY <1>1, FS_CardinalityType
  <1>3. ASSUME NEW s \in Ids, slotOf[s] = Nothing
        PROVE  Cardinality(Filed) # Cardinality(Ids)
    BY <1>1, <1>3
  <1> QED
    BY <1>1, <1>2, <1>3 DEF Used

LEMMA NothingElse ==
  /\ Nothing \notin Offsets /\ Nothing \notin Ids
  /\ Nothing \notin 0 .. Cardinality(Ids) - 1
  <1>1. Offsets \subseteq Nat /\ Ids \subseteq Nat /\ Nothing \notin Nat
    OBVIOUS
  <1>2. 0 .. Cardinality(Ids) - 1 \subseteq Nat
    BY FS_CardinalityType
  <1> QED
    BY <1>1, <1>2, Zenon

-----------------------------------------------------------------------------
(* Each action goes one of the three ways.                                 *)
LEMMA LookupForm ==
  ASSUME IInv, NEW t \in Threads, Lookup(t) PROVE Returns(t) \/ GoesOn(t)
  <1>1. TypeOK /\ stack[t] # <<>> /\ Top(t).pc = "lookup"
    BY DEF IInv, Lookup, At
  <1>2. Top(t) \in Frames /\ Top(t).num \in Ids /\ map[Top(t).num] \in Entry
    BY <1>1, TopTypes, FrameTypes DEF TypeOK
  <1> DEFINE e == map[Top(t).num]
  <1>3. CASE e.kind = "none"
    BY <1>3 DEF Lookup, Returns
  <1>4. CASE e.kind # "none"
    <2> DEFINE q == IF e.kind = "normal" THEN "direct" ELSE "packed"
               g == [Top(t) EXCEPT !.pc = q, !.entry = e, !.fresh = repaired]
    <2>1. SetTop(t, g) /\ answer' = answer
      BY <1>4 DEF Lookup
    <2>2. repaired \in BOOLEAN
      BY <1>1 DEF TypeOK
    <2>3. g \in Frames /\ g.pc = q /\ g.num = Top(t).num /\ g.chain = Top(t).chain
          /\ g.asStream = Top(t).asStream /\ g.entry = e
      BY <1>2, <2>2 DEF Frames, PCs
    <2>4. q \in {"direct", "packed"} /\ (q = "direct" => e.kind = "normal")
          /\ (q = "packed" => e.kind = "packed")
      BY <1>2, <1>4, EntryTypes
    <2> HIDE DEF g, q, e
    <2>5. Follows(g) /\ Knows(g, file.body, slotOf', slots', offsets')
          /\ g.pc \notin InStream
      BY <2>3, <2>4 DEF Follows, Knows, InStream, Waiting, HasData
    <2> QED
      BY <2>1, <2>3, <2>5 DEF GoesOn, InStream
  <1> QED
    BY <1>3, <1>4

LEMMA PlainGoto ==
  ASSUME IInv, NEW t \in Threads, stack[t] # <<>>, NEW q \in PCs, Goto(t, q),
         q \in {"repair", "scan", "lookup", "fail"}, answer' = answer
  PROVE  GoesOn(t)
  <1>1. Top(t) \in Frames
    BY TopTypes DEF IInv
  <1> DEFINE g == [Top(t) EXCEPT !.pc = q]
  <1>2. g \in Frames /\ g.pc = q /\ g.num = Top(t).num /\ g.chain = Top(t).chain
        /\ g.asStream = Top(t).asStream
    BY <1>1 DEF Frames
  <1>3. SetTop(t, g)
    BY DEF Goto
  <1> HIDE DEF g
  <1>4. Follows(g) /\ Knows(g, file.body, slotOf', slots', offsets')
        /\ g.pc \notin InStream
    BY <1>2 DEF Follows, Knows, InStream, Waiting, HasData
  <1> QED
    BY <1>2, <1>3, <1>4 DEF GoesOn, InStream

(* The top of a stack, as its invariants see it.                           *)
LEMMA TopInv ==
  ASSUME IInv, NEW t \in Threads, stack[t] # <<>>
  PROVE  /\ TypeOK /\ Top(t) \in Frames /\ Depth(t) \in Nat \ {0}
         /\ Follows(Top(t)) /\ Knows(Top(t), file.body, slotOf, slots, offsets)
         /\ Linked(stack[t], Depth(t)) /\ Top(t).pc \notin Waiting
         /\ Depth(t) > 1 => Top(t).asStream
  <1>1. Depth(t) \in Nat \ {0} /\ Top(t) \in Frames /\ TypeOK
    BY TopTypes DEF IInv
  <1>2. Depth(t) \in 1 .. Depth(t)
    BY <1>1
  <1>3. Follows(Top(t)) /\ Knows(Top(t), file.body, slotOf, slots, offsets)
        /\ Linked(stack[t], Depth(t))
    BY <1>2 DEF IInv, FrameInv, ChainInv, Top
  <1> QED
    BY <1>1, <1>3 DEF Linked, Top, Depth

LEMMA ReadDirectForm ==
  ASSUME IInv, NEW t \in Threads, ReadDirect(t) PROVE Returns(t) \/ GoesOn(t)
  <1>1. stack[t] # <<>> /\ Top(t).pc = "direct"
    BY DEF ReadDirect, At
  <1>2. TypeOK /\ Top(t) \in Frames /\ Top(t).entry.at \in Offsets
    BY <1>1, TopInv, FrameTypes, EntryTypes DEF Follows
  <1> DEFINE at == Top(t).entry.at
             body == file.body[at]
             obj == [num |-> body.num, from |-> at, place |-> 0]
  <1>3. \/ Return(t, Nothing)
        \/ body.num = Top(t).num /\ Return(t, obj)
        \/ Goto(t, "repair") /\ answer' = answer
    BY DEF ReadDirect
  <1>4. CASE Return(t, Nothing)
    BY <1>4 DEF Returns
  <1>5. CASE body.num = Top(t).num /\ Return(t, obj)
    <2>1. obj \in Object /\ obj.from = at
      BY <1>2, FileTypes DEF Object
    <2> QED
      BY <1>5, <2>1 DEF Returns
  <1>6. CASE Goto(t, "repair") /\ answer' = answer
    BY <1>1, <1>6, PlainGoto DEF PCs
  <1> QED
    BY <1>3, <1>4, <1>5, <1>6
LEMMA LockForRepairForm ==
  ASSUME IInv, NEW t \in Threads, LockForRepair(t) PROVE GoesOn(t)
  <1>1. stack[t] # <<>> /\ answer' = answer
    BY DEF LockForRepair, At, callVars
  <1>2. Goto(t, "lookup") \/ Goto(t, "scan")
    BY DEF LockForRepair
  <1> QED
    BY <1>1, <1>2, PlainGoto DEF PCs

LEMMA RescanForm ==
  ASSUME IInv, NEW t \in Threads, Rescan(t) PROVE GoesOn(t)
  <1>1. stack[t] # <<>> /\ answer' = answer /\ Goto(t, "lookup")
    BY DEF Rescan, At, callVars
  <1> QED
    BY <1>1, PlainGoto DEF PCs

LEMMA FailForm ==
  ASSUME NEW t \in Threads, Fail(t) PROVE Returns(t)
  BY DEF Fail, Returns

LEMMA EnterStreamForm ==
  ASSUME IInv, NEW t \in Threads, EnterStream(t) PROVE Returns(t) \/ Calls(t)
  <1>1. stack[t] # <<>> /\ Top(t).pc = "packed"
    BY DEF EnterStream, At
  <1>2. Top(t) \in Frames /\ Top(t).entry.kind = "packed"
    BY <1>1, TopInv DEF Follows
  <1> DEFINE g == [Top(t) EXCEPT !.pc = "header", !.chain = @ \cup {Top(t).num}]
  <1>3. CASE Return(t, Nothing)
    BY <1>3 DEF Returns
  <1>4. CASE /\ Top(t).num \notin Top(t).chain /\ answer' = answer
             /\ Call(t, g, NewFrame(Top(t).entry.at, TRUE, g.chain))
    <2>1. g \in Frames
      BY <1>2 DEF Frames, PCs
    <2>2. /\ g.num = Top(t).num /\ g.asStream = Top(t).asStream
          /\ g.entry = Top(t).entry /\ g.pc = "header"
          /\ g.chain = Top(t).chain \cup {Top(t).num}
      BY <1>2 DEF Frames
    <2> HIDE DEF g
    <2> QED
      BY <1>2, <1>4, <2>1, <2>2 DEF Calls, Waiting
  <1> QED
    BY <1>3, <1>4 DEF EnterStream

(* What the cache holds for a stream.                                      *)
LEMMA HeldBytes ==
  ASSUME TypeOK, CachesCoherent, NEW s \in Ids, slotOf[s] # Nothing
  PROVE  /\ slotOf[s] \in 0 .. Cardinality(Ids) - 1
         /\ slots[slotOf[s]] \in Offsets /\ file.body[slots[slotOf[s]]].num = s
  <1>1. slotOf[s] \in 0 .. Cardinality(Ids) - 1
    BY DEF TypeOK
  <1>2. slots[slotOf[s]] # Nothing /\ file.body[slots[slotOf[s]]].num = s
    BY DEF CachesCoherent
  <1>3. \A k \in 0 .. Cardinality(Ids) - 1 : slots[k] \in Offsets \cup {Nothing}
    BY DEF TypeOK
  <1> QED
    BY <1>1, <1>2, <1>3, Zenon

LEMMA FreeSlot ==
  ASSUME TypeOK, SlotsInv, NEW s \in Ids, slotOf[s] = Nothing
  PROVE  /\ Used \in 0 .. Cardinality(Ids) - 1 /\ Used \in Nat
         /\ slots[Used] = Nothing /\ Used # Nothing
  <1>1. Used \in Nat /\ Cardinality(Ids) \in Nat /\ Used < Cardinality(Ids)
    BY UsedBound
  <1>2. \A m, n \in Nat : m < n => m \in 0 .. n - 1 /\ m >= m
    OBVIOUS
  <1>3. Used \in 0 .. Cardinality(Ids) - 1 /\ Used >= Used
    BY <1>1, <1>2, Zenon
  <1>4. slots[Used] = Nothing
    BY <1>3, Zenon DEF SlotsInv
  <1> QED
    BY <1>1, <1>3, <1>4, Zenon

(* Going on within the stream, with what was found for it.                 *)
LEMMA DataGoto ==
  ASSUME IInv, NEW t \in Threads, stack[t] # <<>>, Top(t).pc \in InStream,
         NEW q \in HasData, NEW d \in Offsets, SetTop(t, [Top(t) EXCEPT !.pc = q, !.data = d]),
         file.body[d].num = Top(t).entry.at,
         q # "publish" => /\ slotOf'[Top(t).entry.at] # Nothing
                          /\ d = slots'[slotOf'[Top(t).entry.at]],
         q = "pick" => offsets'[Top(t).entry.at] # Nothing,
         answer' = answer
  PROVE  GoesOn(t)
  <1>1. Top(t) \in Frames /\ Top(t).entry.kind = "packed"
    BY TopInv DEF Follows
  <1> DEFINE g == [Top(t) EXCEPT !.pc = q, !.data = d]
  <1>2. g \in Frames /\ g.pc = q /\ g.num = Top(t).num /\ g.chain = Top(t).chain
        /\ g.asStream = Top(t).asStream /\ g.entry = Top(t).entry /\ g.data = d
    BY <1>1 DEF Frames, PCs, HasData
  <1>3. SetTop(t, g)
    OBVIOUS
  <1> HIDE DEF g
  <1>4. g.pc \notin Waiting /\ g.pc # "direct"
    BY <1>2 DEF Waiting, HasData
  <1>5. Follows(g)
    BY <1>1, <1>2, <1>4 DEF Follows
  <1>6. Knows(g, file.body, slotOf', slots', offsets')
    BY <1>2 DEF Knows, HasData
  <1> QED
    BY <1>2, <1>3, <1>4, <1>5, <1>6 DEF GoesOn

LEMMA LookupBytesForm ==
  ASSUME IInv, NEW t \in Threads, LookupBytes(t) PROVE GoesOn(t) \/ Calls(t)
  <1>1. stack[t] # <<>> /\ Top(t).pc = "bytes" /\ answer' = answer
        /\ slotOf' = slotOf /\ slots' = slots
    BY DEF LookupBytes, At, callVars, cacheVars
  <1>2. /\ TypeOK /\ Top(t) \in Frames /\ Top(t).entry.kind = "packed"
        /\ Top(t).entry.at \in Ids /\ Top(t).num \in Top(t).chain
    BY <1>1, TopInv, FrameTypes, EntryTypes DEF Follows, InStream, Linked, Top,
                                                Depth
  <1> DEFINE at == Top(t).entry.at
             slot == slotOf[at]
             g == [Top(t) EXCEPT !.pc = "decode"]
             d == slots[slot]
  <1>3. ASSUME slot = Nothing PROVE Calls(t)
    <2>1. g \in Frames
      BY <1>2 DEF Frames, PCs
    <2>2. /\ g.num = Top(t).num /\ g.asStream = Top(t).asStream
          /\ g.entry = Top(t).entry /\ g.pc = "decode" /\ g.chain = Top(t).chain
      BY <1>2 DEF Frames
    <2>3. Call(t, g, NewFrame(g.entry.at, TRUE, g.chain))
      BY <1>3, <2>2 DEF LookupBytes
    <2> HIDE DEF g
    <2> QED
      BY <1>1, <1>2, <2>1, <2>2, <2>3 DEF Calls, Waiting, InStream
  <1>4. ASSUME slot # Nothing, slots[slot] = Nothing PROVE GoesOn(t)
    <2>1. Goto(t, "fail")
      BY <1>4 DEF LookupBytes
    <2> QED
      BY <1>1, <2>1, PlainGoto DEF PCs
  <1>5. ASSUME slot # Nothing, slots[slot] # Nothing PROVE GoesOn(t)
    <2>1. SetTop(t, [Top(t) EXCEPT !.pc = "table", !.data = d])
      BY <1>5 DEF LookupBytes
    <2>2. d \in Offsets /\ file.body[d].num = at
      BY <1>2, <1>5, HeldBytes DEF IInv
    <2>3. "table" \in HasData /\ Top(t).pc \in InStream
      BY <1>1 DEF HasData, InStream
    <2> QED
      BY <1>1, <1>5, <2>1, <2>2, <2>3, DataGoto
  <1> QED
    BY <1>3, <1>4, <1>5

LEMMA LookupOffsetsForm ==
  ASSUME IInv, NEW t \in Threads, LookupOffsets(t) PROVE GoesOn(t)
  <1>1. stack[t] # <<>> /\ Top(t).pc = "table" /\ answer' = answer
        /\ slotOf' = slotOf /\ slots' = slots /\ offsets' = offsets
    BY DEF LookupOffsets, At, callVars, cacheVars
  <1>2. Top(t) \in Frames /\ Knows(Top(t), file.body, slotOf, slots, offsets)
    BY <1>1, TopInv
  <1> DEFINE at == Top(t).entry.at
             d == Top(t).data
  <1>3. d \in Offsets /\ file.body[d].num = at /\ slotOf[at] # Nothing
        /\ d = slots[slotOf[at]]
    BY <1>1, <1>2 DEF Knows, HasData
  <1>4. PICK q \in {"parse", "pick"} : /\ Goto(t, q)
                                       /\ q = "pick" => offsets[at] # Nothing
    BY DEF LookupOffsets
  <1>5. SetTop(t, [Top(t) EXCEPT !.pc = q, !.data = d])
    <2>1. [Top(t) EXCEPT !.pc = q, !.data = d] = [Top(t) EXCEPT !.pc = q]
      BY <1>2 DEF Frames
    <2> QED
      BY <1>4, <2>1 DEF Goto
  <1>6. q \in HasData /\ Top(t).pc \in InStream
    BY <1>1 DEF HasData, InStream
  <1> QED
    BY <1>1, <1>3, <1>4, <1>5, <1>6, DataGoto

LEMMA ParseOffsetsForm ==
  ASSUME IInv, NEW t \in Threads, ParseOffsets(t) PROVE GoesOn(t)
  <1>1. stack[t] # <<>> /\ Top(t).pc = "parse" /\ answer' = answer
        /\ slotOf' = slotOf /\ slots' = slots
    BY DEF ParseOffsets, At, callVars
  <1>2. /\ TypeOK /\ Top(t) \in Frames /\ Top(t).entry.at \in Ids
        /\ Knows(Top(t), file.body, slotOf, slots, offsets)
    BY <1>1, TopInv, FrameTypes, EntryTypes DEF Follows, InStream, HasData
  <1> DEFINE at == Top(t).entry.at
             d == Top(t).data
  <1>3. d \in Offsets /\ file.body[d].num = at /\ slotOf[at] # Nothing
        /\ d = slots[slotOf[at]]
    BY <1>1, <1>2 DEF Knows, HasData
  <1>4. ASSUME Goto(t, "fail") PROVE GoesOn(t)
    BY <1>1, <1>4, PlainGoto DEF PCs
  <1>5. ASSUME offsets' = [offsets EXCEPT ![at] = IF @ = Nothing THEN d ELSE @],
               Goto(t, "pick")
        PROVE  GoesOn(t)
    <2>1. offsets'[at] # Nothing
      BY <1>2, <1>3, <1>5, NothingElse DEF TypeOK
    <2>2. SetTop(t, [Top(t) EXCEPT !.pc = "pick", !.data = d])
      <3>1. [Top(t) EXCEPT !.pc = "pick", !.data = d] = [Top(t) EXCEPT !.pc = "pick"]
        BY <1>2 DEF Frames
      <3> QED
        BY <1>5, <3>1 DEF Goto
    <2>3. "pick" \in HasData /\ Top(t).pc \in InStream
      BY <1>1 DEF HasData, InStream
    <2> QED
      BY <1>1, <1>3, <2>1, <2>2, <2>3, DataGoto
  <1> QED
    BY <1>4, <1>5 DEF ParseOffsets

LEMMA PickPackedForm ==
  ASSUME IInv, NEW t \in Threads, PickPacked(t) PROVE Returns(t)
  <1>1. stack[t] # <<>> /\ Top(t).pc = "pick"
    BY DEF PickPacked, At
  <1>2. /\ TypeOK /\ Top(t) \in Frames /\ Top(t).entry.at \in Ids
        /\ Top(t).entry.index \in Nat /\ Top(t).data \in Offsets
        /\ Depth(t) \in Nat \ {0} /\ (Depth(t) > 1 => Top(t).asStream)
        /\ offsets[Top(t).entry.at] \in Offsets
    <2>1. Top(t) \in Frames /\ Top(t).entry.kind = "packed"
          /\ Knows(Top(t), file.body, slotOf, slots, offsets)
      BY <1>1, TopInv DEF Follows, InStream, HasData
    <2>2. Top(t).entry.at \in Ids /\ Top(t).entry.index \in Nat
      BY <2>1, FrameTypes, EntryTypes
    <2>3. Top(t).data \in Offsets /\ offsets[Top(t).entry.at] # Nothing
      BY <1>1, <2>1 DEF Knows, HasData
    <2>4. TypeOK /\ Depth(t) \in Nat \ {0} /\ (Depth(t) > 1 => Top(t).asStream)
      BY <1>1, TopInv
    <2>5. offsets[Top(t).entry.at] \in Offsets
      BY <2>2, <2>3, <2>4 DEF TypeOK
    <2> QED
      BY <2>1, <2>2, <2>3, <2>4, <2>5
  <1> DEFINE packs == file.body[offsets[Top(t).entry.at]].packs
             place == Top(t).entry.index + 1
             obj == [num |-> packs[place], from |-> Top(t).data, place |-> place]
  <1>3. CASE Return(t, Nothing)
    BY <1>3 DEF Returns
  <1>4. CASE ~Top(t).asStream /\ ~(place > Len(packs)) /\ Return(t, obj)
    <2>1. packs \in Seq(Ids) /\ place \in Nat \ {0}
      <3>1. packs \in Seq(Ids)
        BY <1>2, FileTypes
      <3>2. place \in Nat \ {0}
        BY <1>2
      <3> QED
        BY <3>1, <3>2
    <2> HIDE DEF packs, place
    <2>2. packs[place] \in Ids
      BY <1>4, <2>1
    <2>3. obj \in Object
      BY <1>2, <2>1, <2>2 DEF Object
    <2>4. Depth(t) = 1
      BY <1>2, <1>4
    <2> QED
      BY <1>4, <2>3, <2>4 DEF Returns
  <1> QED
    BY <1>3, <1>4 DEF PickPacked

LEMMA PublishForm ==
  ASSUME IInv, NEW t \in Threads, Publish(t) PROVE GoesOn(t)
  <1>1. stack[t] # <<>> /\ Top(t).pc = "publish" /\ answer' = answer
    BY DEF Publish, At, callVars
  <1>2. /\ TypeOK /\ Top(t) \in Frames /\ Top(t).entry.at \in Ids
        /\ Knows(Top(t), file.body, slotOf, slots, offsets)
    BY <1>1, TopInv, FrameTypes, EntryTypes DEF Follows, InStream, HasData
  <1> DEFINE at == Top(t).entry.at
             d == Top(t).data
             slot == slotOf[at]
  <1>3. d \in Offsets /\ file.body[d].num = at
    BY <1>1, <1>2 DEF Knows, HasData
  <1>4. "table" \in HasData /\ Top(t).pc \in InStream
    BY <1>1 DEF HasData, InStream
  <1>5. ASSUME slot # Nothing, slots[slot] = Nothing PROVE GoesOn(t)
    <2>1. Goto(t, "fail")
      BY <1>5 DEF Publish
    <2> QED
      BY <1>1, <2>1, PlainGoto DEF PCs
  <1>6. ASSUME slot # Nothing, slots[slot] # Nothing PROVE GoesOn(t)
    <2>1. SetTop(t, [Top(t) EXCEPT !.pc = "table", !.data = slots[slot]])
          /\ slotOf' = slotOf /\ slots' = slots
      BY <1>6 DEF Publish
    <2>2. slots[slot] \in Offsets /\ file.body[slots[slot]].num = at
      BY <1>2, <1>6, HeldBytes DEF IInv
    <2> QED
      BY <1>1, <1>4, <1>6, <2>1, <2>2, DataGoto
  <1>7. ASSUME slot = Nothing PROVE GoesOn(t)
    <2>1. /\ slots' = [slots EXCEPT ![Used] = IF @ = Nothing THEN d ELSE @]
          /\ slotOf' = [slotOf EXCEPT ![at] = Used]
          /\ SetTop(t, [Top(t) EXCEPT !.pc = "table", !.data = slots'[Used]])
      BY <1>7 DEF Publish
    <2>2. /\ Used \in 0 .. Cardinality(Ids) - 1 /\ slots[Used] = Nothing
          /\ Used # Nothing
      BY <1>2, <1>7, FreeSlot DEF IInv
    <2>3. slots'[Used] = d /\ slotOf'[at] = Used
      BY <1>2, <2>1, <2>2 DEF TypeOK
    <2> QED
      BY <1>1, <1>3, <1>4, <2>1, <2>2, <2>3, DataGoto
  <1> QED
    BY <1>5, <1>6, <1>7
-----------------------------------------------------------------------------
(* The two ways in which a step writes the caches.                         *)
FilesSlot(s, d) ==
  /\ slotOf[s] = Nothing /\ file.body[d].num = s
  /\ slots' = [slots EXCEPT ![Used] = IF @ = Nothing THEN d ELSE @]
  /\ slotOf' = [slotOf EXCEPT ![s] = Used]
  /\ offsets' = offsets

FilesTable(s, d) ==
  /\ slotOf[s] # Nothing /\ d = slots[slotOf[s]]
  /\ offsets' = [offsets EXCEPT ![s] = IF @ = Nothing THEN d ELSE @]
  /\ slotOf' = slotOf /\ slots' = slots

(* What is in a cache stays there.                                         *)
CachesGrow ==
  /\ \A s \in Ids : slotOf[s] # Nothing => slotOf'[s] = slotOf[s]
  /\ \A k \in 0 .. Cardinality(Ids) - 1 : slots[k] # Nothing => slots'[k] = slots[k]
  /\ \A s \in Ids : offsets[s] # Nothing => offsets'[s] = offsets[s]

CacheTypes ==
  /\ slotOf \in [Ids -> (0 .. Cardinality(Ids) - 1) \cup {Nothing}]
  /\ slots \in [0 .. Cardinality(Ids) - 1 -> Offsets \cup {Nothing}]
  /\ offsets \in [Ids -> Offsets \cup {Nothing}]

LEMMA StepCaches ==
  ASSUME IInv, NEW t \in Threads, Step(t)
  PROVE  /\ file' = file
         /\ \/ UNCHANGED cacheVars
            \/ \E s \in Ids, d \in Offsets : FilesSlot(s, d) \/ FilesTable(s, d)
  <1>1. CASE Publish(t)
    <2>1. stack[t] # <<>> /\ Top(t).pc = "publish"
      BY <1>1 DEF Publish, At
    <2>2. /\ Top(t) \in Frames /\ Top(t).entry.at \in Ids
          /\ Knows(Top(t), file.body, slotOf, slots, offsets)
      BY <2>1, TopInv, FrameTypes, EntryTypes DEF Follows, InStream, HasData
    <2>3. Top(t).data \in Offsets /\ file.body[Top(t).data].num = Top(t).entry.at
      BY <2>1, <2>2 DEF Knows, HasData
    <2>4. file' = file /\ offsets' = offsets
      BY <1>1 DEF Publish
    <2>5. \/ slotOf' = slotOf /\ slots' = slots
          \/ FilesSlot(Top(t).entry.at, Top(t).data)
      BY <1>1, <2>3, <2>4 DEF Publish, FilesSlot
    <2> QED
      BY <2>2, <2>3, <2>4, <2>5 DEF cacheVars
  <1>2. CASE ParseOffsets(t)
    <2>1. stack[t] # <<>> /\ Top(t).pc = "parse"
      BY <1>2 DEF ParseOffsets, At
    <2>2. /\ Top(t) \in Frames /\ Top(t).entry.at \in Ids
          /\ Knows(Top(t), file.body, slotOf, slots, offsets)
      BY <2>1, TopInv, FrameTypes, EntryTypes DEF Follows, InStream, HasData
    <2>3. Top(t).data \in Offsets /\ slotOf[Top(t).entry.at] # Nothing
          /\ Top(t).data = slots[slotOf[Top(t).entry.at]]
      BY <2>1, <2>2 DEF Knows, HasData
    <2>4. file' = file /\ slotOf' = slotOf /\ slots' = slots
      BY <1>2 DEF ParseOffsets
    <2>5. offsets' = offsets \/ FilesTable(Top(t).entry.at, Top(t).data)
      BY <1>2, <2>3, <2>4 DEF ParseOffsets, FilesTable
    <2> QED
      BY <2>2, <2>3, <2>4, <2>5 DEF cacheVars
  <1>3. CASE Lookup(t) \/ ReadDirect(t) \/ LockForRepair(t) \/ Rescan(t)
    BY <1>3 DEF Lookup, ReadDirect, LockForRepair, Rescan, cacheVars
  <1>4. CASE EnterStream(t) \/ LookupBytes(t) \/ LookupOffsets(t) \/ PickPacked(t)
             \/ Fail(t)
    BY <1>4 DEF EnterStream, LookupBytes, LookupOffsets, PickPacked, Fail,
                cacheVars
  <1> QED
    BY <1>1, <1>2, <1>3, <1>4 DEF Step

(* Filing a slot keeps the caches in order.                                *)
LEMMA FilesSlotStep ==
  ASSUME IInv, file' = file, NEW s \in Ids, NEW d \in Offsets, FilesSlot(s, d)
  PROVE  CacheTypes' /\ CachesGrow /\ CachesCoherent' /\ SlotsInv'
  <1> DEFINE Slots == 0 .. Cardinality(Ids) - 1
  <1>1. TypeOK /\ CachesCoherent /\ SlotsInv
    BY DEF IInv
  <1>2. /\ Used \in Slots /\ Used \in Nat
        /\ slots[Used] = Nothing /\ Used # Nothing
    BY <1>1, FreeSlot DEF FilesSlot
  <1>3. /\ slotOf' = [slotOf EXCEPT ![s] = Used] /\ slotOf'[s] = Used
        /\ slots' = [slots EXCEPT ![Used] = d] /\ slots'[Used] = d
        /\ \A r \in Ids \ {s} : slotOf'[r] = slotOf[r]
        /\ \A k \in Slots \ {Used} : slots'[k] = slots[k]
        /\ offsets' = offsets /\ slotOf[s] = Nothing /\ file.body[d].num = s
    BY <1>1, <1>2 DEF FilesSlot, TypeOK
  <1>4. CacheTypes'
    <2>1. slotOf' \in [Ids -> Slots \cup {Nothing}]
      BY <1>1, <1>2, <1>3 DEF TypeOK
    <2>2. slots' \in [Slots -> Offsets \cup {Nothing}]
      BY <1>1, <1>3 DEF TypeOK
    <2>3. offsets' \in [Ids -> Offsets \cup {Nothing}]
      BY <1>1, <1>3 DEF TypeOK
    <2> QED
      BY <2>1, <2>2, <2>3 DEF CacheTypes
  <1>5. CachesGrow
    BY <1>2, <1>3 DEF CachesGrow
  <1>6. \A r \in Ids \ {s} : slotOf[r] # Nothing =>
          slotOf[r] \in Slots /\ slotOf[r] # Used
    <2> SUFFICES ASSUME NEW r \in Ids \ {s}, slotOf[r] # Nothing
                 PROVE  slotOf[r] \in Slots /\ slotOf[r] # Used
      OBVIOUS
    <2>1. slotOf[r] \in Slots /\ slots[slotOf[r]] \in Offsets
      BY <1>1, HeldBytes
    <2> QED
      BY <2>1, <1>2, NothingElse
  <1>7. CachesCoherent'
    <2>1. ASSUME NEW r \in Ids, slotOf'[r] # Nothing
          PROVE  /\ slots'[slotOf'[r]] # Nothing
                 /\ file.body[slots'[slotOf'[r]]].num = r
                 /\ \A other \in Ids \ {r} : slotOf'[other] # slotOf'[r]
      <3>1. CASE r = s
        <4>1. slots'[slotOf'[r]] # Nothing /\ file.body[slots'[slotOf'[r]]].num = r
          BY <1>3, <3>1, NothingElse
        <4>2. \A other \in Ids \ {r} : slotOf'[other] # slotOf'[r]
          BY <1>2, <1>3, <1>6, <3>1
        <4> QED
          BY <4>1, <4>2
      <3>2. CASE r # s
        <4>1. slotOf'[r] = slotOf[r] /\ slotOf[r] \in Slots \ {Used}
          BY <1>3, <1>6, <2>1, <3>2
        <4>2. slots'[slotOf'[r]] = slots[slotOf[r]]
          BY <1>3, <4>1
        <4>3. /\ slots[slotOf[r]] # Nothing /\ file.body[slots[slotOf[r]]].num = r
              /\ \A other \in Ids \ {r} : slotOf[other] # slotOf[r]
          BY <1>1, <2>1, <4>1 DEF CachesCoherent
        <4>4. \A other \in Ids \ {r} : slotOf'[other] # slotOf'[r]
          BY <1>3, <4>1, <4>3
        <4> QED
          BY <4>2, <4>3, <4>4
      <3> QED
        BY <3>1, <3>2
    <2>2. ASSUME NEW r \in Ids, offsets'[r] # Nothing
          PROVE  slotOf'[r] # Nothing /\ offsets'[r] = slots'[slotOf'[r]]
      <3>1. slotOf[r] # Nothing /\ offsets[r] = slots[slotOf[r]]
        BY <1>1, <1>3, <2>2 DEF CachesCoherent
      <3>2. r # s
        BY <1>3, <3>1
      <3>3. slotOf'[r] = slotOf[r] /\ slotOf[r] \in Slots \ {Used}
        BY <1>3, <1>6, <3>1, <3>2
      <3> QED
        BY <1>3, <3>1, <3>3
    <2> QED
      BY <2>1, <2>2 DEF CachesCoherent
  <1>8. SlotsInv'
    <2> DEFINE Filed == {r \in Ids : slotOf[r] # Nothing}
               FiledNow == {r \in Ids : slotOf'[r] # Nothing}
    <2>1. FiledNow = Filed \cup {s} /\ s \notin Filed
      BY <1>2, <1>3
    <2>2. IsFiniteSet(Filed)
      BY FS_Subset
    <2>3. Cardinality(FiledNow) = Cardinality(Filed) + 1
      <3> HIDE DEF Filed, FiledNow
      <3> QED
        BY <2>1, <2>2, FS_AddElement
    <2>4. Used' = Used + 1
      BY <2>3 DEF Used
    <2>5. ASSUME NEW r \in Ids, slotOf'[r] # Nothing PROVE slotOf'[r] < Used'
      <3>1. CASE r = s
        BY <3>1, <1>2, <1>3, <2>4
      <3>2. CASE r # s
        <4>1. slotOf[r] < Used /\ slotOf'[r] = slotOf[r] /\ slotOf[r] \in Slots
          BY <1>1, <1>3, <1>6, <2>5, <3>2 DEF SlotsInv
        <4> QED
          BY <1>2, <2>4, <4>1
      <3> QED
        BY <3>1, <3>2
    <2>6. ASSUME NEW k \in Slots, k >= Used' PROVE slots'[k] = Nothing
      <3>1. k >= Used /\ k # Used
        BY <1>2, <2>4, <2>6
      <3> QED
        BY <1>1, <1>3, <3>1 DEF SlotsInv
    <2> HIDE DEF Filed, FiledNow
    <2> QED
      BY <2>5, <2>6 DEF SlotsInv
  <1> QED
    BY <1>4, <1>5, <1>7, <1>8

(* So does filing a table of offsets.                                      *)
LEMMA FilesTableStep ==
  ASSUME IInv, file' = file, NEW s \in Ids, NEW d \in Offsets, FilesTable(s, d)
  PROVE  CacheTypes' /\ CachesGrow /\ CachesCoherent' /\ SlotsInv'
  <1>1. TypeOK /\ CachesCoherent /\ SlotsInv
    BY DEF IInv
  <1>2. /\ offsets' = [offsets EXCEPT ![s] = IF @ = Nothing THEN d ELSE @]
        /\ slotOf' = slotOf /\ slots' = slots /\ slotOf[s] # Nothing
        /\ d = slots[slotOf[s]]
    BY DEF FilesTable
  <1>3. CacheTypes'
    BY <1>1, <1>2 DEF CacheTypes, TypeOK
  <1>4. CachesGrow
    BY <1>1, <1>2 DEF CachesGrow, TypeOK
  <1>5. ASSUME NEW r \in Ids, offsets'[r] # Nothing
        PROVE  slotOf[r] # Nothing /\ offsets'[r] = slots[slotOf[r]]
    BY <1>1, <1>2, <1>5 DEF CachesCoherent, TypeOK
  <1>6. CachesCoherent'
    BY <1>1, <1>2, <1>5 DEF CachesCoherent
  <1>7. SlotsInv'
    BY <1>1, <1>2 DEF SlotsInv, Used
  <1> QED
    BY <1>3, <1>4, <1>6, <1>7

LEMMA CacheStep ==
  ASSUME IInv, [Next]_vars
  PROVE  /\ file' = file
         /\ CacheTypes' /\ CachesGrow /\ CachesCoherent' /\ SlotsInv'
  <1>1. ASSUME file' = file, UNCHANGED cacheVars
        PROVE  CacheTypes' /\ CachesGrow /\ CachesCoherent' /\ SlotsInv'
    <2>1. slotOf' = slotOf /\ slots' = slots /\ offsets' = offsets
      BY <1>1 DEF cacheVars
    <2>2. CacheTypes'
      BY <2>1 DEF CacheTypes, IInv, TypeOK
    <2>3. CachesGrow
      BY <2>1 DEF CachesGrow
    <2>4. CachesCoherent'
      BY <1>1, <2>1 DEF CachesCoherent, IInv
    <2>5. SlotsInv'
      BY <2>1 DEF SlotsInv, Used, IInv
    <2> QED
      BY <2>2, <2>3, <2>4, <2>5
  <1>2. ASSUME NEW t \in Threads, Step(t)
        PROVE  /\ file' = file
               /\ CacheTypes' /\ CachesGrow /\ CachesCoherent' /\ SlotsInv'
    BY <1>1, <1>2, StepCaches, FilesSlotStep, FilesTableStep
  <1>3. ASSUME NEW t \in Threads, NEW num \in Ids, Get(t, num)
        PROVE  file' = file /\ UNCHANGED cacheVars
    BY <1>3 DEF Get
  <1>4. CASE UNCHANGED vars
    BY <1>1, <1>4 DEF vars
  <1> QED
    BY <1>1, <1>2, <1>3, <1>4 DEF Next, Quiet
-----------------------------------------------------------------------------
(* The calls of one thread, with what they know of the caches.             *)
Sound(s, body, filed, held, tabled) ==
  \A i \in 1 .. Len(s) :
    Follows(s[i]) /\ Knows(s[i], body, filed, held, tabled) /\ Linked(s, i)

LEMMA AllSound ==
  ASSUME FrameInv, ChainInv, NEW t \in Threads
  PROVE  Sound(stack[t], file.body, slotOf, slots, offsets)
  BY DEF FrameInv, ChainInv, Sound, Depth

LEMMA KnowsStable ==
  ASSUME IInv, CachesGrow, NEW f \in Frames, Follows(f),
         Knows(f, file.body, slotOf, slots, offsets)
  PROVE  Knows(f, file.body, slotOf', slots', offsets')
  <1>1. CASE f.pc \notin HasData
    BY <1>1 DEF Knows, HasData
  <1>2. CASE f.pc \in HasData
    <2> DEFINE at == f.entry.at
    <2>1. at \in Ids
      BY <1>2, FrameTypes, EntryTypes DEF Follows, InStream
    <2>2. f.data \in Offsets /\ file.body[f.data].num = at
      BY <1>2 DEF Knows
    <2>3. ASSUME f.pc # "publish"
          PROVE  slotOf'[at] # Nothing /\ f.data = slots'[slotOf'[at]]
      <3>1. slotOf[at] # Nothing /\ f.data = slots[slotOf[at]]
        BY <1>2, <2>3 DEF Knows
      <3>2. slotOf[at] \in 0 .. Cardinality(Ids) - 1 /\ slots[slotOf[at]] # Nothing
        BY <2>1, <3>1, HeldBytes, NothingElse DEF IInv
      <3>3. slotOf'[at] = slotOf[at]
        BY <2>1, <3>1 DEF CachesGrow
      <3>4. slots'[slotOf[at]] = slots[slotOf[at]]
        BY <3>2 DEF CachesGrow
      <3> QED
        BY <3>1, <3>3, <3>4
    <2>4. ASSUME f.pc = "pick" PROVE offsets'[at] # Nothing
      BY <2>1, <2>4 DEF Knows, CachesGrow
    <2> HIDE DEF at
    <2> QED
      BY <2>2, <2>3, <2>4 DEF Knows, at
  <1> QED
    BY <1>1, <1>2

(* A thread whose stack stays.                                             *)
LEMMA SoundStays ==
  ASSUME IInv, CachesGrow, NEW t \in Threads, stack'[t] = stack[t]
  PROVE  Sound(stack'[t], file.body, slotOf', slots', offsets')
  <1>1. Sound(stack[t], file.body, slotOf, slots, offsets)
    BY AllSound DEF IInv
  <1>2. stack[t] \in Seq(Frames)
    BY DEF IInv, TypeOK
  <1> SUFFICES ASSUME NEW i \in 1 .. Len(stack[t])
               PROVE  /\ Follows(stack[t][i]) /\ Linked(stack[t], i)
                      /\ Knows(stack[t][i], file.body, slotOf', slots', offsets')
    BY DEF Sound
  <1>3. stack[t][i] \in Frames
    BY <1>2
  <1>4. Follows(stack[t][i]) /\ Linked(stack[t], i)
        /\ Knows(stack[t][i], file.body, slotOf, slots, offsets)
    BY <1>1 DEF Sound
  <1> QED
    BY <1>3, <1>4, KnowsStable

(* A frame of the stack, below its top, that stays.                        *)
LEMMA FrameStays ==
  ASSUME IInv, CachesGrow, NEW t \in Threads, NEW i \in 1 .. Depth(t)
  PROVE  /\ stack[t][i] \in Frames /\ Follows(stack[t][i]) /\ Linked(stack[t], i)
         /\ Knows(stack[t][i], file.body, slotOf', slots', offsets')
  <1>1. stack[t][i] \in Frames
    BY DEF IInv, TypeOK, Depth
  <1>2. Follows(stack[t][i]) /\ Linked(stack[t], i)
        /\ Knows(stack[t][i], file.body, slotOf, slots, offsets)
    BY DEF IInv, FrameInv, ChainInv
  <1> QED
    BY <1>1, <1>2, KnowsStable

LEMMA GoesOnKeeps ==
  ASSUME IInv, CachesGrow, NEW t \in Threads, stack[t] # <<>>, GoesOn(t)
  PROVE  /\ stack' \in [Threads -> Seq(Frames)]
         /\ \A u \in Threads \ {t} : stack'[u] = stack[u]
         /\ Sound(stack'[t], file.body, slotOf', slots', offsets')
  <1> DEFINE n == Depth(t)
             s == stack[t]
             r == stack'[t]
  <1>1. PICK g \in Frames :
          /\ SetTop(t, g)
          /\ g.num = Top(t).num /\ g.asStream = Top(t).asStream
          /\ g.chain = Top(t).chain
          /\ g.pc \notin Waiting /\ (g.pc \in InStream => Top(t).pc \in InStream)
          /\ Follows(g) /\ Knows(g, file.body, slotOf', slots', offsets')
    BY DEF GoesOn
  <1>2. /\ stack' \in [Threads -> Seq(Frames)]
        /\ \A u \in Threads \ {t} : stack'[u] = stack[u]
        /\ Len(r) = n /\ r[n] = g /\ \A i \in 1 .. n - 1 : r[i] = s[i]
    BY <1>1, SetTopStep DEF IInv
  <1>3. n \in Nat \ {0} /\ Linked(s, n) /\ Top(t) = s[n] /\ Len(s) = n
    BY TopInv DEF Top, Depth
  <1>4. ASSUME NEW i \in 1 .. n, i # n
        PROVE  Follows(r[i]) /\ Linked(r, i)
               /\ Knows(r[i], file.body, slotOf', slots', offsets')
    <2>1. i \in 1 .. n - 1 /\ i < n
      BY <1>3, <1>4
    <2>2. Follows(s[i]) /\ Linked(s, i)
          /\ Knows(s[i], file.body, slotOf', slots', offsets')
      BY <1>3, FrameStays
    <2>3. r[i] = s[i] /\ \A j \in 1 .. i - 1 : r[j] = s[j]
      <3>1. \A j \in 1 .. i - 1 : j \in 1 .. n - 1
        BY <1>3
      <3> QED
        BY <1>2, <2>1, <3>1
    <2>4. i > 1 => r[i - 1] = s[i - 1]
      BY <1>2, <1>3, <2>1
    <2> HIDE DEF n, s, r
    <2>5. Linked(r, i)
      BY <1>2, <1>3, <2>1, <2>2, <2>3, <2>4, LinkedCopy
    <2> QED
      BY <2>2, <2>3, <2>5
  <1>5. Linked(r, n)
    <2>1. \A j \in 1 .. n - 1 : r[j] = s[j]
      BY <1>2
    <2>2. n > 1 => r[n - 1] = s[n - 1]
      BY <1>2, <1>3
    <2> HIDE DEF n, s, r
    <2>3. n < Len(r) <=> r[n].pc \in Waiting
      BY <1>1, <1>2, <1>3
    <2>4. \A j \in 1 .. n - 1 : r[j].num \in r[n].chain
      BY <1>1, <1>2, <1>3, <2>1 DEF Linked
    <2>5. r[n].pc \in InStream =>
             /\ r[n].num \in r[n].chain
             /\ \A j \in 1 .. n - 1 : r[j].num # r[n].num
      BY <1>1, <1>2, <1>3, <2>1 DEF Linked
    <2>6. n > 1 => r[n].asStream /\ r[n].num = r[n - 1].entry.at
      BY <1>1, <1>2, <1>3, <2>2 DEF Linked
    <2> QED
      BY <2>3, <2>4, <2>5, <2>6 DEF Linked
  <1>6. \A i \in 1 .. n : Follows(r[i]) /\ Linked(r, i)
               /\ Knows(r[i], file.body, slotOf', slots', offsets')
    BY <1>1, <1>2, <1>4, <1>5
  <1>7. Sound(r, file.body, slotOf', slots', offsets')
    <2> HIDE DEF n, s, r
    <2> QED
      BY <1>2, <1>6 DEF Sound
  <1> QED
    BY <1>2, <1>7

LEMMA CallsKeep ==
  ASSUME IInv, CachesGrow, NEW t \in Threads, stack[t] # <<>>, Calls(t)
  PROVE  /\ stack' \in [Threads -> Seq(Frames)]
         /\ \A u \in Threads \ {t} : stack'[u] = stack[u]
         /\ Sound(stack'[t], file.body, slotOf', slots', offsets')
  <1> DEFINE n == Depth(t)
             s == stack[t]
             r == stack'[t]
  <1>1. PICK g \in Frames :
          /\ Call(t, g, NewFrame(g.entry.at, TRUE, g.chain))
          /\ g.num = Top(t).num /\ g.asStream = Top(t).asStream
          /\ g.entry = Top(t).entry
          /\ g.pc \in Waiting /\ g.entry.kind = "packed"
          /\ Top(t).chain \subseteq g.chain /\ g.num \in g.chain
          /\ Top(t).pc \in InStream \/ Top(t).num \notin Top(t).chain
    BY DEF Calls
  <1> DEFINE h == NewFrame(g.entry.at, TRUE, g.chain)
  <1>2. h \in Frames
    BY NewFrameType, FrameTypes, EntryTypes, <1>1
  <1>3. /\ h.pc = "lookup" /\ h.num = g.entry.at /\ h.asStream = TRUE
        /\ h.chain = g.chain
    BY DEF NewFrame
  <1>4. Call(t, g, h)
    BY <1>1
  <1> HIDE DEF h
  <1>5. /\ stack' \in [Threads -> Seq(Frames)]
        /\ \A u \in Threads \ {t} : stack'[u] = stack[u]
        /\ Len(r) = n + 1 /\ r[n] = g /\ r[n + 1] = h
        /\ \A i \in 1 .. n - 1 : r[i] = s[i]
    BY <1>2, <1>4, CallStep DEF IInv
  <1>6. n \in Nat \ {0} /\ Linked(s, n) /\ Top(t) = s[n] /\ Len(s) = n
    BY TopInv DEF Top, Depth
  <1>7. ASSUME NEW i \in 1 .. n, i # n
        PROVE  Follows(r[i]) /\ Linked(r, i)
               /\ Knows(r[i], file.body, slotOf', slots', offsets')
    <2>1. i \in 1 .. n - 1 /\ i < n /\ i < n + 1
      BY <1>6, <1>7
    <2>2. Follows(s[i]) /\ Linked(s, i)
          /\ Knows(s[i], file.body, slotOf', slots', offsets')
      BY <1>6, FrameStays
    <2>3. r[i] = s[i] /\ \A j \in 1 .. i - 1 : r[j] = s[j]
      <3>1. \A j \in 1 .. i - 1 : j \in 1 .. n - 1
        BY <1>6, <2>1
      <3> HIDE DEF n, s, r
      <3> QED
        BY <1>5, <2>1, <3>1
    <2>4. i > 1 => r[i - 1] = s[i - 1]
      <3>1. i > 1 => i - 1 \in 1 .. i - 1
        BY <2>1
      <3> HIDE DEF n, s, r
      <3> QED
        BY <2>3, <3>1
    <2> HIDE DEF n, s, r
    <2>5. Linked(r, i)
      BY <1>5, <1>6, <2>1, <2>2, <2>3, <2>4, LinkedCopy
    <2> QED
      BY <2>2, <2>3, <2>5
  <1>8. Follows(g) /\ Knows(g, file.body, slotOf', slots', offsets')
    <2>1. g.pc \notin HasData /\ g.pc # "direct" /\ g.pc # "pick" /\ g.pc # "publish"
      BY <1>1 DEF Waiting, HasData
    <2> QED
      BY <1>1, <2>1 DEF Follows, Knows
  <1>9. Linked(r, n)
    <2>1. \A j \in 1 .. n - 1 : r[j] = s[j]
      BY <1>5
    <2>2. n > 1 => r[n - 1] = s[n - 1]
      BY <1>5, <1>6
    <2>3. n < n + 1
      BY <1>6
    <2> HIDE DEF n, s, r
    <2>4. \A j \in 1 .. n - 1 : r[j].num \in g.chain
      BY <1>1, <1>6, <2>1 DEF Linked
    <2>5. \A j \in 1 .. n - 1 : r[j].num # g.num
      BY <1>1, <1>6, <2>1 DEF Linked
    <2>6. n > 1 => g.asStream /\ g.num = r[n - 1].entry.at
      BY <1>1, <1>6, <2>2 DEF Linked
    <2> QED
      BY <1>1, <1>5, <2>3, <2>4, <2>5, <2>6 DEF Linked
  <1>10. Follows(h) /\ Knows(h, file.body, slotOf', slots', offsets')
    BY <1>3 DEF Follows, Knows, InStream, HasData, Waiting
  <1>11. Linked(r, n + 1)
    <2>1. (n + 1) - 1 = n /\ 1 .. n = (1 .. n - 1) \cup {n}
      BY <1>6
    <2>2. \A j \in 1 .. n - 1 : r[j].num \in h.chain
      BY <1>1, <1>3, <1>5, <1>6 DEF Linked
    <2>3. \A j \in 1 .. n : r[j].num \in h.chain
      BY <1>1, <1>3, <1>5, <2>1, <2>2
    <2>4. h.pc \notin Waiting /\ h.pc \notin InStream
      BY <1>3 DEF Waiting, InStream, HasData
    <2>5. ~(n + 1 < Len(r))
      BY <1>5, <1>6
    <2> HIDE DEF n, s, r
    <2> QED
      BY <1>3, <1>5, <2>1, <2>3, <2>4, <2>5 DEF Linked
  <1>12. \A i \in 1 .. n + 1 : Follows(r[i]) /\ Linked(r, i)
               /\ Knows(r[i], file.body, slotOf', slots', offsets')
    <2>1. \A i \in 1 .. n + 1 : i = n + 1 \/ i = n \/ (i \in 1 .. n /\ i # n)
      BY <1>6
    <2> HIDE DEF n, s, r
    <2> QED
      BY <1>5, <1>7, <1>8, <1>9, <1>10, <1>11, <2>1
  <1>13. Sound(r, file.body, slotOf', slots', offsets')
    <2> HIDE DEF n, s, r
    <2> QED
      BY <1>5, <1>12 DEF Sound
  <1> QED
    BY <1>5, <1>13

LEMMA ReturnsKeep ==
  ASSUME IInv, CachesGrow, NEW t \in Threads, stack[t] # <<>>, Returns(t)
  PROVE  /\ stack' \in [Threads -> Seq(Frames)]
         /\ \A u \in Threads \ {t} : stack'[u] = stack[u]
         /\ Sound(stack'[t], file.body, slotOf', slots', offsets')
         /\ answer' \in [Threads -> [asked : Ids, got : Object \cup {Nothing}]
                                      \cup {Nothing}]
  <1> DEFINE n == Depth(t)
             s == stack[t]
             r == stack'[t]
  <1>1. PICK got \in Object \cup {Nothing} :
          /\ Return(t, got)
          /\ got = Nothing \/ n = 1 \/ file.body[got.from].num = Top(t).num
    BY DEF Returns
  <1>2. /\ stack' \in [Threads -> Seq(Frames)]
        /\ \A u \in Threads \ {t} : stack'[u] = stack[u]
        /\ n = 1 => r = <<>>
        /\ n > 1 => /\ Len(r) = n - 1 /\ r[n - 1] = Resumed(s[n - 1], got)
                    /\ \A i \in 1 .. n - 2 : r[i] = s[i]
        /\ answer' \in [Threads -> [asked : Ids, got : Object \cup {Nothing}]
                                      \cup {Nothing}]
    BY <1>1, ReturnStep DEF IInv
  <1>3. n \in Nat \ {0} /\ Linked(s, n) /\ Top(t) = s[n] /\ Len(s) = n
    BY TopInv DEF Top, Depth
  <1>4. CASE n = 1
    BY <1>2, <1>4 DEF Sound
  <1>5. CASE n > 1
    <2> DEFINE up == n - 1
               f == s[up]
               g == r[up]
    <2>1. up \in Nat \ {0} /\ up \in 1 .. n /\ up < n /\ n - 2 = up - 1 /\ n # 1
      BY <1>3, <1>5
    <2>2. /\ f \in Frames /\ Follows(f) /\ Linked(s, up)
          /\ g = Resumed(f, got) /\ Len(r) = up
          /\ \A i \in 1 .. up - 1 : r[i] = s[i]
      BY <1>2, <1>5, <2>1, FrameStays
    <2>3. f.pc \in Waiting /\ Top(t).num = f.entry.at
      BY <1>3, <1>5, <2>1, <2>2 DEF Linked
    <2>4. f.entry.kind = "packed" /\ f.pc \in InStream
      BY <2>2, <2>3 DEF Follows, InStream
    <2>5. got # Nothing => got.from \in Offsets
      BY <1>1 DEF Object
    <2>6. /\ g \in Frames /\ g.pc \in {"fail", "bytes", "publish"} /\ g.num = f.num
          /\ g.asStream = f.asStream /\ g.chain = f.chain /\ g.entry = f.entry
          /\ g.pc = "publish" => got # Nothing /\ g.data = got.from
      <3>1. g \in Frames
        BY <1>1, <2>2, ResumedType DEF IInv
      <3> HIDE DEF g, f
      <3> QED
        BY <2>2, <2>5, <3>1 DEF Resumed, Frames
    <2>7. Follows(g) /\ Knows(g, file.body, slotOf', slots', offsets')
      <3>1. Follows(g)
        BY <2>4, <2>6 DEF Follows
      <3>2. g.pc = "publish" => g.data \in Offsets /\ file.body[g.data].num = g.entry.at
        BY <1>1, <2>1, <2>3, <2>5, <2>6
      <3> HIDE DEF g
      <3> QED
        BY <2>6, <3>1, <3>2 DEF Knows, HasData
    <2>8. Linked(r, up)
      <3>1. up > 1 => r[up - 1] = s[up - 1]
        BY <2>1, <2>2
      <3>2. g.pc \notin Waiting /\ r[up] = g /\ s[up] = f
        BY <2>6 DEF Waiting
      <3> HIDE DEF g, f, up, n, s, r
      <3>3. up < Len(r) <=> r[up].pc \in Waiting
        BY <2>1, <2>2, <3>2
      <3>4. \A j \in 1 .. up - 1 : r[j].num \in r[up].chain
        BY <2>2, <2>6, <3>2 DEF Linked
      <3>5. /\ r[up].num \in r[up].chain
            /\ \A j \in 1 .. up - 1 : r[j].num # r[up].num
        <4>1. /\ s[up].num \in s[up].chain
              /\ \A j \in 1 .. up - 1 : s[j].num # s[up].num
          BY <2>2, <2>4, <3>2 DEF Linked
        <4> QED
          BY <2>2, <2>6, <3>2, <4>1
      <3>6. up > 1 => r[up].asStream /\ r[up].num = r[up - 1].entry.at
        BY <2>2, <2>6, <3>1, <3>2 DEF Linked
      <3> QED
        BY <3>3, <3>4, <3>5, <3>6 DEF Linked
    <2>9. ASSUME NEW i \in 1 .. up, i # up
          PROVE  Follows(r[i]) /\ Linked(r, i)
                 /\ Knows(r[i], file.body, slotOf', slots', offsets')
      <3>1. i \in 1 .. up - 1 /\ i \in 1 .. n /\ i < up /\ i < n
        BY <1>3, <2>1, <2>9
      <3>2. Follows(s[i]) /\ Linked(s, i)
            /\ Knows(s[i], file.body, slotOf', slots', offsets')
        BY <3>1, FrameStays
      <3>3. r[i] = s[i] /\ \A j \in 1 .. i - 1 : r[j] = s[j]
        <4>1. \A j \in 1 .. i - 1 : j \in 1 .. up - 1
          BY <2>1, <3>1
        <4> QED
          BY <2>2, <3>1, <4>1
      <3>4. i > 1 => r[i - 1] = s[i - 1]
        <4>1. i > 1 => i - 1 \in 1 .. i - 1
          BY <3>1
        <4> QED
          BY <3>3, <4>1
      <3> HIDE DEF n, s, r, up
      <3>5. Linked(r, i)
        BY <1>3, <2>2, <3>1, <3>2, <3>3, <3>4, LinkedCopy
      <3> QED
        BY <3>2, <3>3, <3>5
    <2> HIDE DEF n, s, r, up
    <2>10. Sound(r, file.body, slotOf', slots', offsets')
      BY <2>2, <2>7, <2>8, <2>9 DEF Sound
    <2> QED
      BY <1>2, <2>10 DEF r
  <1> QED
    BY <1>3, <1>4, <1>5

(* A call that begins.                                                     *)
LEMMA GetKeeps ==
  ASSUME IInv, NEW t \in Threads, NEW num \in Ids, Get(t, num)
  PROVE  /\ stack' \in [Threads -> Seq(Frames)]
         /\ \A u \in Threads \ {t} : stack'[u] = stack[u]
         /\ Sound(stack'[t], file.body, slotOf', slots', offsets')
         /\ answer' = answer
  <1> DEFINE f == NewFrame(num, FALSE, {})
  <1>1. f \in Frames /\ f.pc = "lookup"
    BY NewFrameType DEF NewFrame
  <1>2. stack' = [stack EXCEPT ![t] = <<f>>] /\ answer' = answer
    BY DEF Get
  <1> HIDE DEF f
  <1>3. <<f>> \in Seq(Frames) /\ Len(<<f>>) = 1 /\ <<f>>[1] = f
    BY <1>1
  <1>4. /\ stack' \in [Threads -> Seq(Frames)] /\ stack'[t] = <<f>>
        /\ \A u \in Threads \ {t} : stack'[u] = stack[u]
    BY <1>2, <1>3 DEF IInv, TypeOK
  <1>5. f.pc \notin Waiting /\ f.pc \notin InStream
    BY <1>1 DEF Waiting, InStream, HasData
  <1>6. Follows(f) /\ Knows(f, file.body, slotOf', slots', offsets')
    BY <1>1, <1>5 DEF Follows, Knows, HasData
  <1>7. Linked(<<f>>, 1)
    BY <1>3, <1>5 DEF Linked
  <1>8. Sound(<<f>>, file.body, slotOf', slots', offsets')
    BY <1>3, <1>6, <1>7 DEF Sound
  <1> QED
    BY <1>2, <1>4, <1>8

(* The stacks after any step.                                              *)
LEMMA StackStep ==
  ASSUME IInv, [Next]_vars
  PROVE  /\ stack' \in [Threads -> Seq(Frames)]
         /\ answer' \in [Threads -> [asked : Ids, got : Object \cup {Nothing}]
                                      \cup {Nothing}]
         /\ \A t \in Threads : Sound(stack'[t], file.body, slotOf', slots', offsets')
  <1>1. /\ CachesGrow /\ stack \in [Threads -> Seq(Frames)]
        /\ answer \in [Threads -> [asked : Ids, got : Object \cup {Nothing}]
                                      \cup {Nothing}]
    BY CacheStep DEF IInv, TypeOK
  <1>2. ASSUME NEW t \in Threads, Step(t)
        PROVE  stack[t] # <<>> /\ (Returns(t) \/ GoesOn(t) \/ Calls(t))
    <2>1. stack[t] # <<>>
      BY <1>2 DEF Step, At, Lookup, ReadDirect, LockForRepair, Rescan,
                  EnterStream,
                  LookupBytes, Publish, LookupOffsets, ParseOffsets, PickPacked, Fail
    <2>2. Returns(t) \/ GoesOn(t) \/ Calls(t)
      BY <1>2, LookupForm, ReadDirectForm, LockForRepairForm, RescanForm,
         EnterStreamForm, LookupBytesForm, PublishForm, LookupOffsetsForm,
         ParseOffsetsForm, PickPackedForm, FailForm DEF Step
    <2> QED
      BY <2>1, <2>2
  <1>3. ASSUME NEW t \in Threads, Step(t)
        PROVE  /\ stack' \in [Threads -> Seq(Frames)]
               /\ \A u \in Threads \ {t} : stack'[u] = stack[u]
               /\ Sound(stack'[t], file.body, slotOf', slots', offsets')
               /\ answer' \in [Threads -> [asked : Ids, got : Object \cup {Nothing}]
                                            \cup {Nothing}]
    <2>1. CASE Returns(t)
      BY <1>1, <1>2, <1>3, <2>1, ReturnsKeep
    <2>2. CASE GoesOn(t)
      <3>1. answer' = answer
        BY <2>2 DEF GoesOn
      <3> QED
        BY <1>1, <1>2, <1>3, <2>2, <3>1, GoesOnKeeps
    <2>3. CASE Calls(t)
      <3>1. answer' = answer
        BY <2>3 DEF Calls
      <3> QED
        BY <1>1, <1>2, <1>3, <2>3, <3>1, CallsKeep
    <2> QED
      BY <1>2, <1>3, <2>1, <2>2, <2>3
  <1>4. ASSUME NEW t \in Threads, \A u \in Threads \ {t} : stack'[u] = stack[u],
               Sound(stack'[t], file.body, slotOf', slots', offsets')
        PROVE  \A u \in Threads : Sound(stack'[u], file.body, slotOf', slots', offsets')
    BY <1>1, <1>4, SoundStays
  <1>5. CASE \E t \in Threads : Step(t)
    BY <1>3, <1>4, <1>5
  <1>6. CASE \E t \in Threads, num \in Ids : Get(t, num)
    BY <1>1, <1>4, <1>6, GetKeeps
  <1>7. CASE UNCHANGED vars
    <2>1. stack' = stack /\ answer' = answer
      BY <1>7 DEF vars, callVars
    <2> QED
      BY <1>1, <2>1, SoundStays
  <1> QED
    BY <1>5, <1>6, <1>7 DEF Next, Quiet

(* The map and its lock after any step.                                    *)
MapTypes == /\ map \in [Ids -> Entry] /\ repaired \in BOOLEAN
            /\ writer \in Threads \cup {NoThread} /\ calls \in 0 .. MaxCalls

LEMMA MapStep ==
  ASSUME IInv, [Next]_vars PROVE MapTypes' /\ RepairsOnce'
  <1>1. MapTypes /\ RepairsOnce /\ file.scan \in [Ids -> Entry]
    BY FileTypes DEF IInv, TypeOK, MapTypes
  <1>2. CASE UNCHANGED <<mapVars, calls>>
    BY <1>1, <1>2 DEF MapTypes, RepairsOnce, mapVars
  <1>3. ASSUME NEW t \in Threads, Step(t) PROVE MapTypes' /\ RepairsOnce'
    <2>1. CASE LockForRepair(t)
      BY <1>1, <2>1 DEF LockForRepair, MapTypes, RepairsOnce, callVars
    <2>2. CASE Rescan(t)
      BY <1>1, <2>2 DEF Rescan, MapTypes, RepairsOnce, callVars
    <2>3. CASE Lookup(t) \/ ReadDirect(t) \/ EnterStream(t) \/ LookupBytes(t)
      BY <1>2, <2>3 DEF Lookup, ReadDirect, EnterStream, LookupBytes, callVars
    <2>4. CASE Publish(t) \/ LookupOffsets(t) \/ ParseOffsets(t) \/ PickPacked(t)
               \/ Fail(t)
      BY <1>2, <2>4 DEF Publish, LookupOffsets, ParseOffsets, PickPacked, Fail,
                        callVars
    <2> QED
      BY <1>3, <2>1, <2>2, <2>3, <2>4 DEF Step
  <1>4. ASSUME NEW t \in Threads, NEW num \in Ids, Get(t, num)
        PROVE  MapTypes' /\ RepairsOnce'
    <2>1. UNCHANGED mapVars /\ calls' = calls + 1 /\ calls < MaxCalls
      BY <1>4 DEF Get
    <2>2. calls' \in 0 .. MaxCalls
      BY <1>1, <2>1 DEF MapTypes
    <2> QED
      BY <1>1, <2>1, <2>2 DEF MapTypes, RepairsOnce, mapVars
  <1>5. CASE UNCHANGED vars
    BY <1>2, <1>5 DEF vars, callVars
  <1> QED
    BY <1>3, <1>4, <1>5 DEF Next, Quiet

-----------------------------------------------------------------------------
LEMMA InvInit == Init => IInv
  <1> SUFFICES ASSUME Init PROVE IInv
    OBVIOUS
  <1>1. TypeOK
    <2>1. file \in Files /\ file \in File
      BY DEF Init
    <2>2. map \in [Ids -> Entry] /\ repaired \in BOOLEAN
      BY <2>1 DEF Init, File
    <2>3. writer \in Threads \cup {NoThread} /\ calls \in 0 .. MaxCalls
      BY DEF Init
    <2>4. CacheTypes
      BY DEF Init, CacheTypes
    <2>5. stack \in [Threads -> Seq(Frames)]
      <3>1. <<>> \in Seq(Frames)
        OBVIOUS
      <3> QED
        BY <3>1 DEF Init
    <2>6. answer \in [Threads -> [asked : Ids, got : Object \cup {Nothing}]
                                    \cup {Nothing}]
      BY DEF Init
    <2> QED
      BY <2>1, <2>2, <2>3, <2>4, <2>5, <2>6 DEF TypeOK, CacheTypes
  <1>2. \A t \in Threads : Depth(t) = 0
    BY DEF Init, Depth
  <1>3. FrameInv /\ ChainInv
    BY <1>2 DEF FrameInv, ChainInv
  <1>4. CachesCoherent
    BY DEF Init, CachesCoherent
  <1>5. SlotsInv
    BY DEF Init, SlotsInv
  <1>6. RepairsOnce
    BY DEF Init, RepairsOnce
  <1> QED
    BY <1>1, <1>3, <1>4, <1>5, <1>6 DEF IInv

LEMMA InvNext == IInv /\ [Next]_vars => IInv'
  <1> SUFFICES ASSUME IInv, [Next]_vars PROVE IInv'
    OBVIOUS
  <1>1. file' = file /\ CacheTypes' /\ CachesCoherent' /\ SlotsInv'
    BY CacheStep
  <1>2. MapTypes' /\ RepairsOnce'
    BY MapStep
  <1>3. /\ stack' \in [Threads -> Seq(Frames)]
        /\ answer' \in [Threads -> [asked : Ids, got : Object \cup {Nothing}]
                                     \cup {Nothing}]
        /\ \A t \in Threads : Sound(stack'[t], file.body, slotOf', slots', offsets')
    BY StackStep
  <1>4. file' \in Files
    BY <1>1 DEF IInv, TypeOK
  <1>5. TypeOK'
    BY <1>1, <1>2, <1>3, <1>4 DEF TypeOK, CacheTypes, MapTypes
  <1>6. FrameInv'
    BY <1>1, <1>3 DEF FrameInv, Sound, Depth
  <1>7. ChainInv'
    BY <1>3 DEF ChainInv, Sound, Depth
  <1> QED
    BY <1>1, <1>2, <1>5, <1>6, <1>7 DEF IInv

LEMMA InvAlways == Spec => []IInv
  BY InvInit, InvNext, PTL DEF Spec

(* The waiting calls of a thread resolve different objects.                *)
LEMMA WaitingDiffer ==
  ASSUME IInv, NEW t \in Threads, NEW a \in 1 .. Depth(t) - 1,
         NEW b \in 1 .. Depth(t) - 1, a < b
  PROVE  stack[t][a].num # stack[t][b].num
  <1>1. Depth(t) \in Nat
    BY DEF IInv, TypeOK, Depth
  <1>2. b \in 1 .. Depth(t) /\ b < Depth(t) /\ a \in 1 .. b - 1
    BY <1>1
  <1>3. Linked(stack[t], b)
    BY <1>2 DEF IInv, ChainInv
  <1>4. stack[t][b].pc \in InStream
    BY <1>2, <1>3 DEF Linked, InStream, Depth
  <1> QED
    BY <1>2, <1>3, <1>4 DEF Linked

LEMMA InvNesting == IInv => NestingBounded
  <1> SUFFICES ASSUME IInv, NEW t \in Threads
               PROVE  /\ Depth(t) <= Cardinality(Ids) + 1
                      /\ \A a, b \in 1 .. Depth(t) - 1 :
                            a # b => stack[t][a].num # stack[t][b].num
    BY DEF NestingBounded
  <1>1. Depth(t) \in Nat /\ stack[t] \in Seq(Frames)
    BY DEF IInv, TypeOK, Depth
  <1> DEFINE S == 1 .. Depth(t) - 1
             num == [i \in S |-> stack[t][i].num]
  <1>2. ASSUME NEW a \in S, NEW b \in S, a # b
        PROVE  stack[t][a].num # stack[t][b].num
    <2>1. a < b \/ b < a
      BY <1>1, <1>2
    <2> QED
      BY <2>1, WaitingDiffer
  <1>3. num \in [S -> Ids]
    <2>1. \A i \in S : stack[t][i] \in Frames
      BY <1>1 DEF Depth
    <2> QED
      BY <2>1, FrameTypes
  <1>4. IsFiniteSet(Ids) /\ Cardinality(Ids) \in Nat
    BY FS_CardinalityType
  <1>5. \A a, b \in S : num[a] = num[b] => a = b
    BY <1>2
  <1>6. Cardinality(S) <= Cardinality(Ids)
    <2> HIDE DEF S, num
    <2>1. num \in Injection(S, Ids)
      BY <1>3, <1>5, Fun_IsInj
    <2> QED
      BY <1>4, <2>1, FS_Injection
  <1>7. Depth(t) = 0 \/ Cardinality(S) = Depth(t) - 1
    <2>1. ASSUME Depth(t) # 0 PROVE Cardinality(S) = Depth(t) - 1
      <3> DEFINE m == Depth(t) - 1
      <3>1. m \in Nat /\ m - 1 + 1 = m /\ (1 > m => m = 0) /\ m \in Int
            /\ 1 \in Int
        BY <1>1, <2>1
      <3>2. Cardinality(1 .. m) = IF 1 > m THEN 0 ELSE m - 1 + 1
        BY <3>1, FS_Interval, Zenon
      <3> QED
        BY <3>1, <3>2
    <2> QED
      BY <2>1
  <1>8. Depth(t) <= Cardinality(Ids) + 1
    <2> HIDE DEF S, num
    <2> QED
      BY <1>1, <1>4, <1>6, <1>7
  <1> QED
    BY <1>2, <1>8

-----------------------------------------------------------------------------
(* Every table, cache and nested call has its type.                        *)
THEOREM ResolutionTypes == Spec => []TypeOK
  <1>1. IInv => TypeOK
    BY DEF IInv
  <1> QED
    BY <1>1, InvAlways, PTL

(* XRef::repair: nobody scans the file again once the map is repaired,     *)
(* however many threads waited for the write lock meanwhile.               *)
THEOREM ScannedOnce == Spec => []RepairsOnce
  <1>1. IInv => RepairsOnce
    BY DEF IInv
  <1> QED
    BY <1>1, InvAlways, PTL

(* Data::get_with and get_object_stream_offsets_or_init: whoever races to  *)
(* publish, a slot holds the bytes of the stream it is filed under, and an *)
(* offset table was parsed from the bytes that are cached for its stream.  *)
THEOREM CachesAgree == Spec => []CachesCoherent
  <1>1. IInv => CachesCoherent
    BY DEF IInv
  <1> QED
    BY <1>1, InvAlways, PTL

(* XRef::get_with: the chain of what is being resolved cuts every cycle,   *)
(* so that the nesting is bounded by the number of objects, whatever the   *)
(* document.                                                               *)
THEOREM NestingIsBounded == Spec => []NestingBounded
  BY InvNesting, InvAlways, PTL

-----------------------------------------------------------------------------
(* The answers, for a document whose scan is true and whose table is right *)
(* or betrays itself.  Such a document leaves resolution little to do: an  *)
(* object stream is itself never packed, so that at most two calls nest,   *)
(* and whatever is cached of a stream was read where the scan finds it.    *)
Candid == ScanIsTrue /\ (\A num \in Ids : Detectable(num))

(* The entry a call follows is the table's or the scan's, and which one it *)
(* knows.                                                                  *)
Leads(doc, f) == /\ f.entry \in {doc.table[f.num], doc.scan[f.num]}
                 /\ f.fresh => f.entry = doc.scan[f.num]

(* A call of get.                                                          *)
First(doc, f) ==
  /\ ~f.asStream
  /\ f.pc \in {"lookup", "direct", "repair", "scan", "packed"} => f.chain = {}
  /\ f.pc \in InStream => f.chain = {f.num}
  /\ f.pc \in InStream \cup {"direct", "packed"} => Leads(doc, f)
  /\ f.pc \in InStream \ {"header"} => f.header = doc.scan[f.entry.at].at
  /\ f.pc \in HasData => /\ f.data = doc.scan[f.entry.at].at
                         /\ doc.body[f.data].decodes
  /\ f.pc = "fail" => doc.scan[f.num].kind = "none"

(* The call for the object stream that the call c waits for.               *)
Second(doc, c, f) ==
  /\ f.pc \in {"lookup", "direct", "repair", "scan"}
  /\ doc.scan[f.num].kind = "normal" /\ f.chain = {c.num}
  /\ f.pc = "direct" => Leads(doc, f)

Straight(doc, s) == /\ Len(s) <= 2
                    /\ s # <<>> => First(doc, s[1])
                    /\ Len(s) = 2 => Second(doc, s[1], s[2])

HeldRight == \A s \in Ids : slotOf[s] # Nothing =>
               /\ slots[slotOf[s]] = file.scan[s].at
               /\ file.body[file.scan[s].at].decodes

AnswersRight == \A t \in Threads : answer[t] # Nothing =>
                  answer[t].got = Truth(answer[t].asked)

MapInv == map = IF repaired THEN file.scan ELSE file.table

AInv == /\ IInv /\ MapInv
        /\ Candid => /\ \A t \in Threads : Straight(file, stack[t])
                     /\ HeldRight /\ AnswersRight

(* What the scan says of an object, and what an entry is worth.            *)
LEMMA ScanNormal ==
  ASSUME TypeOK, Candid, NEW num \in Ids, file.scan[num].kind = "normal"
  PROVE  /\ file.scan[num].at \in Offsets
         /\ file.body[file.scan[num].at].type # "junk"
         /\ file.body[file.scan[num].at].num = num
  <1>1. file.scan[num] \in Entry
    BY FileTypes
  <1> QED
    BY <1>1, EntryTypes DEF Candid, ScanIsTrue

LEMMA ScanPacked ==
  ASSUME TypeOK, Candid, NEW num \in Ids, file.scan[num].kind = "packed"
  PROVE  LET e == file.scan[num]
             stream == file.body[file.scan[e.at].at]
         IN /\ file.scan[e.at].kind = "normal"
            /\ stream.type = "stream" /\ stream.decodes
            /\ e.index < Len(stream.packs) /\ stream.packs[e.index + 1] = num
  BY DEF Candid, ScanIsTrue

(* An entry that either table may give for num, and that says "packed".    *)
Packs(num, e) == e \in {file.table[num], file.scan[num]} /\ e.kind = "packed"

LEMMA PackedEntry ==
  ASSUME TypeOK, Candid, NEW num \in Ids, NEW e, Packs(num, e)
  PROVE  /\ e \in Entry /\ e.at \in Ids /\ file.scan[e.at].kind = "normal"
         /\ e.at # num
         /\ file.scan[num].kind # "none" => e = file.scan[num]
         /\ file.body[file.scan[e.at].at].decodes = (file.scan[num].kind # "none")
  <1>0. e \in {file.table[num], file.scan[num]} /\ e.kind = "packed"
    BY DEF Packs
  <1>1. e \in Entry /\ e.at \in Ids
    BY <1>0, FileTypes, EntryTypes
  <1>2. ASSUME file.scan[e.at].kind = "normal"
        PROVE  /\ file.body[file.scan[e.at].at] \in Body
               /\ file.body[file.scan[e.at].at].decodes \in BOOLEAN
    BY <1>1, <1>2, FileTypes, ScanNormal DEF Body
  <1>3. CASE e = file.scan[num]
    BY <1>0, <1>1, <1>2, <1>3, ScanPacked
  <1>4. CASE e # file.scan[num]
    <2>1. Detectable(num) /\ e = file.table[num]
      BY <1>0, <1>4 DEF Candid
    <2>2. /\ file.scan[num].kind = "none" /\ file.scan[e.at].kind = "normal"
          /\ ~file.body[file.scan[e.at].at].decodes
      BY <1>0, <1>4, <2>1 DEF Detectable
    <2> QED
      BY <1>1, <1>2, <2>2
  <1> QED
    BY <1>3, <1>4

LEMMA PackedLeads ==
  ASSUME TypeOK, Candid, NEW f \in Frames, Leads(file, f), f.entry.kind = "packed"
  PROVE  /\ f.entry.at \in Ids /\ file.scan[f.entry.at].kind = "normal"
         /\ f.entry.at # f.num
         /\ file.scan[f.num].kind # "none" => f.entry = file.scan[f.num]
         /\ file.body[file.scan[f.entry.at].at].decodes = (file.scan[f.num].kind # "none")
  <1>1. f.num \in Ids /\ f.entry \in {file.table[f.num], file.scan[f.num]}
    BY FrameTypes DEF Leads
  <1> DEFINE num == f.num
             e == f.entry
  <1>2. num \in Ids /\ e \in {file.table[num], file.scan[num]} /\ e.kind = "packed"
    BY <1>1
  <1> HIDE DEF num, e
  <1>3. /\ e.at \in Ids /\ file.scan[e.at].kind = "normal" /\ e.at # num
        /\ file.scan[num].kind # "none" => e = file.scan[num]
        /\ file.body[file.scan[e.at].at].decodes = (file.scan[num].kind # "none")
    <2>1. Packs(num, e)
      BY <1>2 DEF Packs
    <2> QED
      BY <1>2, <2>1, PackedEntry
  <1> QED
    BY <1>3 DEF num, e

LEMMA NoneEntry ==
  ASSUME Candid, NEW num \in Ids,
         NEW e \in {file.table[num], file.scan[num]}, e.kind = "none"
  PROVE  file.scan[num].kind = "none"
  BY DEF Candid, Detectable

LEMMA DirectEntry ==
  ASSUME Candid, NEW num \in Ids,
         NEW e \in {file.table[num], file.scan[num]}, e.kind = "normal",
         file.body[e.at].type # "junk", file.body[e.at].num = num
  PROVE  e = file.scan[num]
  BY DEF Candid, Detectable

(* The stream of an object that the scan finds: whatever stands where its  *)
(* entry leads, it is a stream and not that object, or nothing at all.     *)
LEMMA StreamEntry ==
  ASSUME TypeOK, Candid, NEW num \in Ids,
         NEW e \in {file.table[num], file.scan[num]}, e.kind = "normal",
         NEW of \in Ids, file.scan[of].kind = "packed", file.scan[of].at = num,
         file.body[e.at].type # "junk"
  PROVE  file.body[e.at].num # of /\ file.body[e.at].type = "stream"
  <1> DEFINE true == file.body[file.scan[num].at]
  <1>1. /\ file.scan[num].kind = "normal" /\ true.type = "stream"
        /\ file.scan[num].at \in Offsets /\ true.num = num /\ of # num
    BY ScanPacked, ScanNormal
  <1>2. CASE e = file.scan[num]
    BY <1>1, <1>2
  <1>3. CASE e # file.scan[num]
    <2>1. Detectable(num) /\ e = file.table[num]
      BY <1>3 DEF Candid
    <2>2. /\ file.scan[file.body[e.at].num].kind # "packed"
          /\ \/ file.body[e.at].type = "stream"
             \/ \A o \in Offsets : file.body[o].num = num => file.body[o].type # "stream"
      BY <1>1, <1>3, <2>1 DEF Detectable
    <2> QED
      BY <1>1, <2>2
  <1> QED
    BY <1>2, <1>3

-----------------------------------------------------------------------------
(* The three ways of a step of t, in such a document.                      *)
RightReturn(t) ==
  \E got \in Object \cup {Nothing} :
    /\ Return(t, got)
    /\ Depth(t) = 1 => got = Truth(Top(t).num)
    /\ Depth(t) = 2 => First(file, Resumed(stack[t][1], got))

RightGoing(t) ==
  \E g \in Frames :
    /\ SetTop(t, g) /\ answer' = answer
    /\ Depth(t) = 1 => First(file, g)
    /\ Depth(t) = 2 => Second(file, stack[t][1], g)

RightCall(t) ==
  \E g, h \in Frames :
    /\ Call(t, g, h) /\ answer' = answer
    /\ Depth(t) = 1 /\ First(file, g) /\ Second(file, g, h)

Right(t) == RightReturn(t) \/ RightGoing(t) \/ RightCall(t)

(* Where a thread is: in a call of get, or in the call for its stream.     *)
LEMMA Where ==
  ASSUME AInv, Candid, NEW t \in Threads, stack[t] # <<>>
  PROVE  /\ TypeOK /\ Top(t) \in Frames /\ Depth(t) \in {1, 2}
         /\ Depth(t) = 1 => Top(t) = stack[t][1] /\ First(file, Top(t))
         /\ Depth(t) = 2 =>
              LET c == stack[t][1]
              IN /\ c \in Frames /\ c.pc \in Waiting /\ c.entry.kind = "packed"
                 /\ First(file, c) /\ Second(file, c, Top(t))
                 /\ Top(t).asStream /\ Top(t).num = c.entry.at
  <1>1. /\ TypeOK /\ Top(t) \in Frames /\ Depth(t) \in Nat \ {0}
        /\ Linked(stack[t], Depth(t))
    BY TopInv DEF AInv
  <1>2. Straight(file, stack[t])
    BY DEF AInv
  <1>3. Depth(t) \in {1, 2}
    <2>1. Depth(t) <= 2
      BY <1>2 DEF Straight, Depth
    <2> QED
      BY <1>1, <2>1
  <1>4. CASE Depth(t) = 1
    BY <1>1, <1>2, <1>4 DEF Straight, Top
  <1>5. CASE Depth(t) = 2
    <2> DEFINE c == stack[t][1]
    <2>1. 1 \in 1 .. Depth(t) /\ Len(stack[t]) = 2 /\ Top(t) = stack[t][2]
      BY <1>5 DEF Depth, Top
    <2>2. c \in Frames /\ Follows(c) /\ Linked(stack[t], 1)
      BY <2>1, TopTypes DEF AInv, IInv, FrameInv, ChainInv
    <2>3. c.pc \in Waiting
      BY <2>1, <2>2 DEF Linked
    <2>4. c.entry.kind = "packed"
      BY <2>2, <2>3 DEF Follows, InStream
    <2>5. First(file, c) /\ Second(file, c, Top(t))
      BY <1>2, <2>1 DEF Straight
    <2>6. Top(t).asStream /\ Top(t).num = c.entry.at
      BY <1>1, <1>5 DEF Linked, Top, Depth
    <2> QED
      BY <1>1, <1>5, <2>2, <2>3, <2>4, <2>5, <2>6
  <1> QED
    BY <1>1, <1>3, <1>4, <1>5

(* What the map says is the table's or the scan's.                         *)
LEMMA MapEntry ==
  ASSUME MapInv, NEW num
  PROVE  /\ map[num] \in {file.table[num], file.scan[num]}
         /\ repaired => map[num] = file.scan[num]
  BY DEF MapInv

(* The stream was found where the scan finds it, or the object is none of  *)
(* those the scan finds.                                                   *)
LEMMA ResumeRight ==
  ASSUME TypeOK, Candid, NEW c \in Frames, c.pc \in Waiting, First(file, c),
         c.entry.kind = "packed", NEW got \in Object \cup {Nothing},
         \/ got = Nothing /\ file.scan[c.num].kind = "none"
         \/ got # Nothing /\ got.from = file.scan[c.entry.at].at
  PROVE  First(file, Resumed(c, got))
  <1> DEFINE g == Resumed(c, got)
  <1>1. /\ Leads(file, c) /\ c.chain = {c.num} /\ ~c.asStream
        /\ c.pc = "decode" => c.header = file.scan[c.entry.at].at
    BY DEF First, InStream, Waiting
  <1>2. c.num \in Ids /\ (got # Nothing => got.from \in Offsets)
    BY FrameTypes DEF Object
  <1>3. file.body[file.scan[c.entry.at].at].decodes = (file.scan[c.num].kind # "none")
    BY <1>1, PackedLeads
  <1>4. CASE got = Nothing
    <2>1. g = [c EXCEPT !.pc = "fail"] /\ file.scan[c.num].kind = "none"
      BY <1>4 DEF Resumed
    <2>2. g.pc = "fail" /\ g.num = c.num /\ g.asStream = c.asStream
      BY <2>1 DEF Frames
    <2> HIDE DEF g
    <2> QED
      BY <1>1, <2>1, <2>2 DEF First, InStream, Waiting, HasData, g
  <1>5. CASE got # Nothing /\ c.pc = "header"
    <2>1. g = [c EXCEPT !.pc = "bytes", !.header = got.from]
      BY <1>5 DEF Resumed
    <2>2. /\ g.pc = "bytes" /\ g.num = c.num /\ g.asStream = c.asStream
          /\ g.chain = c.chain /\ g.entry = c.entry /\ g.fresh = c.fresh
          /\ g.header = file.scan[c.entry.at].at
      BY <1>5, <2>1 DEF Frames
    <2>3. Leads(file, g)
      BY <1>1, <2>2 DEF Leads
    <2> HIDE DEF g
    <2> QED
      BY <1>1, <2>2, <2>3 DEF First, InStream, Waiting, HasData, g
  <1>6. CASE got # Nothing /\ c.pc = "decode" /\ file.body[got.from].decodes
    <2>1. g = [c EXCEPT !.pc = "publish", !.data = got.from]
      BY <1>6 DEF Resumed
    <2>2. /\ g.pc = "publish" /\ g.num = c.num /\ g.asStream = c.asStream
          /\ g.chain = c.chain /\ g.entry = c.entry /\ g.fresh = c.fresh
          /\ g.header = c.header /\ g.data = file.scan[c.entry.at].at
          /\ file.body[g.data].decodes
      BY <1>6, <2>1 DEF Frames
    <2>3. Leads(file, g)
      BY <1>1, <2>2 DEF Leads
    <2> HIDE DEF g
    <2> QED
      BY <1>1, <1>6, <2>2, <2>3 DEF First, InStream, Waiting, HasData, g
  <1>7. CASE got # Nothing /\ c.pc = "decode" /\ ~file.body[got.from].decodes
    <2>1. g = [c EXCEPT !.pc = "fail"] /\ file.scan[c.num].kind = "none"
      BY <1>3, <1>7 DEF Resumed
    <2>2. g.pc = "fail" /\ g.num = c.num /\ g.asStream = c.asStream
      BY <2>1 DEF Frames
    <2> HIDE DEF g
    <2> QED
      BY <1>1, <2>1, <2>2 DEF First, InStream, Waiting, HasData, g
  <1>8. c.pc = "header" \/ c.pc = "decode"
    BY DEF Waiting
  <1> QED
    BY <1>4, <1>5, <1>6, <1>7, <1>8

-----------------------------------------------------------------------------
(* Each action goes one of the three ways.                                 *)
LEMMA TruthIs ==
  ASSUME NEW num
  PROVE  LET e == file.scan[num]
         IN /\ e.kind = "none" => Truth(num) = Nothing
            /\ e.kind = "normal" =>
                 Truth(num) = [num |-> num, from |-> e.at, place |-> 0]
            /\ e.kind = "packed" =>
                 Truth(num) = [num |-> num, from |-> file.scan[e.at].at,
                               place |-> e.index + 1]
  BY DEF Truth

LEMMA GotoRight ==
  ASSUME AInv, Candid, NEW t \in Threads, stack[t] # <<>>,
         Top(t).pc \in {"direct", "repair", "scan"},
         NEW q \in {"lookup", "repair", "scan"}, Goto(t, q), answer' = answer
  PROVE  RightGoing(t)
  <1> DEFINE g == [Top(t) EXCEPT !.pc = q]
             c == stack[t][1]
  <1>1. Top(t) \in Frames
    BY Where
  <1>2. g \in Frames /\ g.pc = q /\ g.num = Top(t).num /\ g.chain = Top(t).chain
        /\ g.asStream = Top(t).asStream
    BY <1>1 DEF Frames, PCs
  <1>3. SetTop(t, g)
    BY DEF Goto
  <1>4. ASSUME Depth(t) = 1 PROVE First(file, g)
    <2>1. First(file, Top(t))
      BY <1>4, Where
    <2>2. ~Top(t).asStream /\ Top(t).chain = {}
      BY <2>1 DEF First
    <2> HIDE DEF g
    <2> QED
      BY <1>2, <2>2 DEF First, InStream, Waiting, HasData
  <1>5. ASSUME Depth(t) = 2 PROVE Second(file, c, g)
    <2>1. Second(file, c, Top(t))
      BY <1>5, Where
    <2> HIDE DEF g, c
    <2> QED
      BY <1>2, <2>1 DEF Second
  <1> HIDE DEF g
  <1> QED
    BY <1>2, <1>3, <1>4, <1>5 DEF RightGoing

LEMMA LookupRight ==
  ASSUME AInv, Candid, NEW t \in Threads, Lookup(t) PROVE Right(t)
  <1> DEFINE e == map[Top(t).num]
             c == stack[t][1]
  <1>1. stack[t] # <<>> /\ Top(t).pc = "lookup"
    BY DEF Lookup, At
  <1>2. /\ TypeOK /\ Top(t) \in Frames /\ Depth(t) \in {1, 2}
        /\ Top(t).num \in Ids /\ e \in Entry /\ repaired \in BOOLEAN
    BY <1>1, Where, FrameTypes DEF TypeOK
  <1>3. /\ e \in {file.table[Top(t).num], file.scan[Top(t).num]}
        /\ repaired => e = file.scan[Top(t).num]
    BY MapEntry DEF AInv
  <1>4. ASSUME Depth(t) = 2 PROVE e.kind = "normal" /\ Second(file, c, Top(t))
    <2>1. Second(file, c, Top(t)) /\ file.scan[Top(t).num].kind = "normal"
      BY <1>1, <1>4, Where DEF Second
    <2>2. e.kind # "none"
      <3> HIDE DEF e
      <3> QED
        BY <1>2, <1>3, <2>1, NoneEntry
    <2>3. e.kind # "packed"
      <3> DEFINE num == Top(t).num
      <3>1. /\ TypeOK /\ num \in Ids /\ e \in {file.table[num], file.scan[num]}
            /\ file.scan[num].kind = "normal"
        BY <1>2, <1>3, <2>1
      <3> HIDE DEF e, num
      <3>2. e.kind = "packed" => e = file.scan[num]
        <4>1. e.kind = "packed" => Packs(num, e)
          BY <3>1 DEF Packs
        <4> QED
          BY <3>1, <4>1, PackedEntry
      <3> QED
        BY <3>1, <3>2
    <2> QED
      BY <1>2, <2>1, <2>2, <2>3, EntryTypes
  <1>5. CASE e.kind = "none"
    <2>1. Return(t, Nothing)
      BY <1>5 DEF Lookup
    <2>2. file.scan[Top(t).num].kind = "none"
      <3> HIDE DEF e
      <3> QED
        BY <1>2, <1>3, <1>5, NoneEntry
    <2>3. Depth(t) = 1
      BY <1>2, <1>4, <1>5
    <2>4. Truth(Top(t).num) = Nothing
      BY <2>2, TruthIs
    <2> QED
      BY <2>1, <2>3, <2>4 DEF Right, RightReturn
  <1>6. CASE e.kind # "none"
    <2> DEFINE q == IF e.kind = "normal" THEN "direct" ELSE "packed"
               g == [Top(t) EXCEPT !.pc = q, !.entry = e, !.fresh = repaired]
    <2>1. SetTop(t, g) /\ answer' = answer
      BY <1>6 DEF Lookup
    <2>2. g \in Frames /\ g.pc = q /\ g.num = Top(t).num /\ g.chain = Top(t).chain
          /\ g.asStream = Top(t).asStream /\ g.entry = e /\ g.fresh = repaired
      BY <1>2 DEF Frames, PCs
    <2>3. q \in {"direct", "packed"} /\ (e.kind = "normal" => q = "direct")
      OBVIOUS
    <2> HIDE DEF g, q, e
    <2>4. Leads(file, g)
      BY <1>3, <2>2 DEF Leads
    <2>5. ASSUME Depth(t) = 1 PROVE First(file, g)
      <3>1. First(file, Top(t))
        BY <1>1, <2>5, Where
      <3>2. ~Top(t).asStream /\ Top(t).chain = {}
        BY <1>1, <3>1 DEF First
      <3> QED
        BY <2>2, <2>3, <2>4, <3>2 DEF First, InStream, Waiting, HasData
    <2>6. ASSUME Depth(t) = 2 PROVE Second(file, c, g)
      <3>1. Second(file, c, Top(t)) /\ q = "direct"
        BY <1>4, <2>3, <2>6
      <3> HIDE DEF c
      <3> QED
        BY <2>2, <2>4, <3>1 DEF Second
    <2> QED
      BY <2>1, <2>2, <2>5, <2>6 DEF Right, RightGoing
  <1> QED
    BY <1>5, <1>6

LEMMA ReadDirectRight ==
  ASSUME AInv, Candid, NEW t \in Threads, ReadDirect(t) PROVE Right(t)
  <1> DEFINE f == Top(t)
             e == f.entry
             b == file.body[e.at]
             c == stack[t][1]
             obj == [num |-> b.num, from |-> e.at, place |-> 0]
  <1>1. stack[t] # <<>> /\ f.pc = "direct"
    BY DEF ReadDirect, At
  <1>2. /\ TypeOK /\ f \in Frames /\ Depth(t) \in {1, 2} /\ f.num \in Ids
        /\ e \in Entry /\ e.kind = "normal" /\ e.at \in Offsets
    BY <1>1, Where, TopInv, FrameTypes, EntryTypes DEF Follows, AInv
  <1>3. Leads(file, f)
    <2>1. CASE Depth(t) = 1
      BY <1>1, <2>1, Where DEF First
    <2>2. CASE Depth(t) = 2
      BY <1>1, <2>2, Where DEF Second
    <2> QED
      BY <1>2, <2>1, <2>2
  <1>4. e \in {file.table[f.num], file.scan[f.num]} /\ (f.fresh => e = file.scan[f.num])
    BY <1>3 DEF Leads
  <1>5. e = file.scan[f.num] => b.type # "junk" /\ b.num = f.num
    <2> HIDE DEF f
    <2> QED
      BY <1>2, ScanNormal
  <1>6. ASSUME b.type # "junk", b.num = f.num
        PROVE  /\ obj = [num |-> f.num, from |-> file.scan[f.num].at, place |-> 0]
               /\ file.scan[f.num].kind = "normal" /\ obj \in Object
    <2>1. e = file.scan[f.num]
      <3> HIDE DEF f
      <3> QED
        BY <1>2, <1>4, <1>6, DirectEntry
    <2>2. obj \in Object
      BY <1>2, <1>6 DEF Object
    <2> QED
      BY <1>2, <1>6, <2>1, <2>2
  <1>7. \/ Unusable(f, b) /\ Return(t, Nothing)
        \/ ~Unusable(f, b) /\ b.type # "junk" /\ b.num = f.num /\ Return(t, obj)
        \/ /\ ~Unusable(f, b) /\ ~(b.type # "junk" /\ b.num = f.num)
           /\ f.fresh /\ Return(t, Nothing)
        \/ Goto(t, "repair") /\ answer' = answer
    BY DEF ReadDirect
  <1>8. CASE Goto(t, "repair") /\ answer' = answer
    BY <1>1, <1>8, GotoRight DEF Right
  <1>9. ASSUME Unusable(f, b), Return(t, Nothing) PROVE Right(t)
    <2>1. Depth(t) = 2
      <3>1. ASSUME Depth(t) = 1 PROVE FALSE
        <4>1. ~f.asStream /\ f.chain = {}
          BY <1>1, <3>1, Where DEF First
        <4> QED
          BY <1>9, <4>1 DEF Unusable
      <3> QED
        BY <1>2, <3>1
    <2>2. /\ c \in Frames /\ c.pc \in Waiting /\ c.entry.kind = "packed"
          /\ First(file, c) /\ Second(file, c, f) /\ f.num = c.entry.at
      BY <1>1, <2>1, Where
    <2>3. f.chain = {c.num} /\ c.num \in Ids
      BY <2>2, FrameTypes DEF Second
    <2>4. Leads(file, c)
      BY <2>2 DEF First, InStream
    <2>5. file.scan[c.num].kind = "none"
      <3> SUFFICES ASSUME file.scan[c.num].kind # "none" PROVE FALSE
        OBVIOUS
      <3>1. c.entry = file.scan[c.num]
        BY <1>2, <2>2, <2>4, PackedLeads
      <3>2. b.type # "junk" /\ (b.num \in f.chain \/ b.type # "stream")
        BY <1>9 DEF Unusable
      <3>3. file.scan[c.num].kind = "packed" /\ file.scan[c.num].at = f.num
        BY <2>2, <3>1
      <3> DEFINE num == f.num
                 of == c.num
      <3>4. /\ TypeOK /\ num \in Ids /\ e \in {file.table[num], file.scan[num]}
            /\ e.kind = "normal" /\ of \in Ids /\ file.scan[of].kind = "packed"
            /\ file.scan[of].at = num /\ b.type # "junk"
        BY <1>2, <1>4, <2>3, <3>2, <3>3
      <3>5. b.num # of /\ b.type = "stream"
        <4> HIDE DEF num, of, e
        <4> QED
          BY <3>4, StreamEntry
      <3> QED
        BY <2>3, <3>2, <3>5
    <2>6. First(file, Resumed(c, Nothing))
      <3> HIDE DEF c
      <3> QED
        BY <1>2, <2>2, <2>5, ResumeRight
    <2> QED
      BY <1>9, <2>1, <2>6 DEF Right, RightReturn
  <1>10. ASSUME b.type # "junk", b.num = f.num, Return(t, obj) PROVE Right(t)
    <2>1. /\ obj = [num |-> f.num, from |-> file.scan[f.num].at, place |-> 0]
          /\ file.scan[f.num].kind = "normal" /\ obj \in Object
      BY <1>6, <1>10
    <2>2. obj = Truth(f.num)
      BY <2>1, TruthIs
    <2>3. ASSUME Depth(t) = 2 PROVE First(file, Resumed(c, obj))
      <3>1. /\ c \in Frames /\ c.pc \in Waiting /\ c.entry.kind = "packed"
            /\ First(file, c) /\ f.num = c.entry.at
        BY <1>1, <2>3, Where
      <3>2. obj.from = file.scan[c.entry.at].at /\ obj # Nothing
        BY <2>1, <3>1
      <3> HIDE DEF c, obj
      <3> QED
        BY <1>2, <2>1, <3>1, <3>2, ResumeRight
    <2> HIDE DEF obj
    <2> QED
      BY <1>10, <2>1, <2>2, <2>3 DEF Right, RightReturn
  <1>11. CASE /\ ~(b.type # "junk" /\ b.num = f.num) /\ f.fresh
    BY <1>4, <1>5, <1>11
  <1> QED
    BY <1>7, <1>8, <1>9, <1>10, <1>11

LEMMA RepairRight ==
  ASSUME AInv, Candid, NEW t \in Threads, LockForRepair(t) \/ Rescan(t)
  PROVE  Right(t)
  <1>1. stack[t] # <<>> /\ Top(t).pc \in {"repair", "scan"} /\ answer' = answer
    BY DEF LockForRepair, Rescan, At, callVars
  <1>2. Goto(t, "lookup") \/ Goto(t, "scan")
    BY DEF LockForRepair, Rescan
  <1> QED
    BY <1>1, <1>2, GotoRight DEF Right

(* The calls that are in a stream, or enter one, are calls of get.         *)
LEMMA InStreamFirst ==
  ASSUME AInv, Candid, NEW t \in Threads, stack[t] # <<>>,
         Top(t).pc \notin {"lookup", "direct", "repair", "scan"}
  PROVE  /\ TypeOK /\ Top(t) \in Frames /\ Depth(t) = 1 /\ First(file, Top(t))
         /\ Top(t).num \in Ids
         /\ Top(t).pc # "fail" =>
              LET e == Top(t).entry
              IN /\ Leads(file, Top(t)) /\ e.kind = "packed" /\ e.at \in Ids
                 /\ file.scan[e.at].kind = "normal" /\ e.at # Top(t).num
                 /\ file.scan[e.at].at \in Offsets
                 /\ file.scan[Top(t).num].kind # "none" => e = file.scan[Top(t).num]
                 /\ file.body[file.scan[e.at].at].decodes
                      = (file.scan[Top(t).num].kind # "none")
  <1>1. TypeOK /\ Top(t) \in Frames /\ Depth(t) = 1 /\ First(file, Top(t))
        /\ Top(t).num \in Ids
    <2>1. Depth(t) # 2
      BY Where DEF Second
    <2> QED
      BY <2>1, Where, FrameTypes
  <1>2. ASSUME Top(t).pc # "fail"
        PROVE  Leads(file, Top(t)) /\ Top(t).entry.kind = "packed"
    <2>1. Top(t).pc \in InStream \cup {"packed"}
      BY <1>1, <1>2 DEF Frames, PCs, InStream, Waiting, HasData
    <2> QED
      BY <1>1, <2>1, TopInv DEF First, Follows, AInv
  <1>3. ASSUME Top(t).pc # "fail"
        PROVE  LET e == Top(t).entry
               IN /\ e.kind = "packed" /\ e.at \in Ids
                  /\ file.scan[e.at].kind = "normal" /\ e.at # Top(t).num
                  /\ file.scan[Top(t).num].kind # "none" => e = file.scan[Top(t).num]
                  /\ file.body[file.scan[e.at].at].decodes
                       = (file.scan[Top(t).num].kind # "none")
    <2> DEFINE f == Top(t)
    <2>1. Leads(file, f) /\ f.entry.kind = "packed" /\ TypeOK /\ f \in Frames
      BY <1>1, <1>2, <1>3
    <2> HIDE DEF f
    <2>2. /\ f.entry.at \in Ids /\ file.scan[f.entry.at].kind = "normal"
          /\ f.entry.at # f.num
          /\ file.scan[f.num].kind # "none" => f.entry = file.scan[f.num]
          /\ file.body[file.scan[f.entry.at].at].decodes
               = (file.scan[f.num].kind # "none")
      BY <2>1, PackedLeads
    <2> QED
      BY <2>1, <2>2 DEF f
  <1>4. ASSUME Top(t).pc # "fail" PROVE file.scan[Top(t).entry.at].at \in Offsets
    BY <1>1, <1>3, <1>4, ScanNormal
  <1> QED
    BY <1>1, <1>2, <1>3, <1>4

(* The call for the stream.                                                *)
LEMMA SecondBegins ==
  ASSUME TypeOK, NEW g \in Frames, g.entry.at \in Ids,
         file.scan[g.entry.at].kind = "normal", g.chain = {g.num}
  PROVE  LET h == NewFrame(g.entry.at, TRUE, g.chain)
         IN h \in Frames /\ Second(file, g, h)
  <1>1. g.num \in Ids
    BY FrameTypes
  <1> QED
    BY <1>1, NewFrameType DEF NewFrame, Second

LEMMA EnterStreamRight ==
  ASSUME AInv, Candid, NEW t \in Threads, EnterStream(t) PROVE Right(t)
  <1> DEFINE f == Top(t)
             g == [f EXCEPT !.pc = "header", !.chain = @ \cup {f.num}]
             h == NewFrame(f.entry.at, TRUE, g.chain)
  <1>1. stack[t] # <<>> /\ f.pc = "packed"
    BY DEF EnterStream, At
  <1>2. /\ TypeOK /\ f \in Frames /\ Depth(t) = 1 /\ f.chain = {} /\ f.num \in Ids
        /\ ~f.asStream /\ Leads(file, f) /\ f.entry.at \in Ids /\ f.entry.at # f.num
        /\ file.scan[f.entry.at].kind = "normal"
    BY <1>1, InStreamFirst DEF First
  <1>3. Call(t, g, h) /\ answer' = answer
    BY <1>2 DEF EnterStream
  <1>4. /\ g \in Frames /\ g.pc = "header" /\ g.num = f.num /\ g.chain = {f.num}
        /\ g.entry = f.entry /\ g.fresh = f.fresh /\ g.asStream = f.asStream
    BY <1>2 DEF Frames, PCs
  <1> HIDE DEF f, g
  <1>5. Leads(file, g)
    BY <1>2, <1>4 DEF Leads
  <1>6. First(file, g)
    BY <1>2, <1>4, <1>5 DEF First, InStream, Waiting, HasData
  <1>7. h \in Frames /\ Second(file, g, h)
    BY <1>2, <1>4, SecondBegins
  <1> HIDE DEF h
  <1> QED
    BY <1>2, <1>3, <1>4, <1>6, <1>7 DEF Right, RightCall

(* Going on within the stream, with the bytes the scan finds.              *)
LEMMA DataRight ==
  ASSUME AInv, Candid, NEW t \in Threads, stack[t] # <<>>,
         Top(t).pc \in HasData \cup {"bytes"}, NEW q \in HasData, NEW d \in Offsets,
         SetTop(t, [Top(t) EXCEPT !.pc = q, !.data = d]),
         d = file.scan[Top(t).entry.at].at, file.body[d].decodes, answer' = answer
  PROVE  Right(t)
  <1> DEFINE f == Top(t)
             g == [f EXCEPT !.pc = q, !.data = d]
  <1>1. f.pc \in InStream \ {"header"}
    BY DEF HasData, InStream, Waiting
  <1>2. f \in Frames /\ Depth(t) = 1 /\ First(file, f)
    BY InStreamFirst DEF HasData
  <1>3. /\ ~f.asStream /\ f.chain = {f.num} /\ Leads(file, f)
        /\ f.header = file.scan[f.entry.at].at
    BY <1>1, <1>2 DEF First
  <1>4. /\ g \in Frames /\ g.pc = q /\ g.num = f.num /\ g.chain = f.chain
        /\ g.asStream = f.asStream /\ g.entry = f.entry /\ g.fresh = f.fresh
        /\ g.header = f.header /\ g.data = d
    <2>1. f \in Frames /\ q \in PCs
      BY <1>2 DEF PCs, HasData
    <2> HIDE DEF f
    <2> QED
      BY <2>1 DEF Frames
  <1>5. SetTop(t, g)
    OBVIOUS
  <1> HIDE DEF g
  <1>6. Leads(file, g)
    BY <1>3, <1>4 DEF Leads
  <1>7. First(file, g)
    BY <1>3, <1>4, <1>6 DEF First, InStream, Waiting, HasData
  <1>8. RightGoing(t)
    <2> HIDE DEF f
    <2>1. Depth(t) = 1 /\ g \in Frames
      BY <1>2, <1>4
    <2>2. Depth(t) # 2
      BY <2>1
    <2> QED
      BY <1>5, <1>7, <2>1, <2>2 DEF RightGoing
  <1> QED
    BY <1>8 DEF Right

(* What the cache holds for a stream is what the scan finds.               *)
LEMMA HeldTrue ==
  ASSUME AInv, Candid, NEW s \in Ids, slotOf[s] # Nothing
  PROVE  /\ slots[slotOf[s]] # Nothing /\ slots[slotOf[s]] \in Offsets
         /\ slots[slotOf[s]] = file.scan[s].at /\ file.body[slots[slotOf[s]]].decodes
  <1>1. slots[slotOf[s]] \in Offsets
    BY HeldBytes DEF AInv, IInv
  <1>2. slots[slotOf[s]] = file.scan[s].at /\ file.body[file.scan[s].at].decodes
    BY DEF AInv, HeldRight
  <1> QED
    BY <1>1, <1>2, NothingElse

LEMMA LookupBytesRight ==
  ASSUME AInv, Candid, NEW t \in Threads, LookupBytes(t) PROVE Right(t)
  <1> DEFINE f == Top(t)
             at == f.entry.at
             slot == slotOf[at]
             g == [f EXCEPT !.pc = "decode"]
             h == NewFrame(at, TRUE, f.chain)
  <1>1. stack[t] # <<>> /\ f.pc = "bytes" /\ answer' = answer
    BY DEF LookupBytes, At, callVars
  <1>2. /\ TypeOK /\ f \in Frames /\ Depth(t) = 1 /\ f.chain = {f.num} /\ f.num \in Ids
        /\ ~f.asStream /\ Leads(file, f) /\ at \in Ids
        /\ file.scan[at].kind = "normal" /\ f.header = file.scan[at].at
    BY <1>1, InStreamFirst DEF First, InStream
  <1>3. ASSUME slot = Nothing PROVE Right(t)
    <2>1. Call(t, g, h)
      BY <1>3 DEF LookupBytes
    <2>2. /\ g \in Frames /\ g.pc = "decode" /\ g.num = f.num /\ g.chain = f.chain
          /\ g.entry = f.entry /\ g.fresh = f.fresh /\ g.asStream = f.asStream
          /\ g.header = f.header
      BY <1>2 DEF Frames, PCs
    <2> HIDE DEF f, g
    <2>3. Leads(file, g)
      BY <1>2, <2>2 DEF Leads
    <2>4. First(file, g)
      BY <1>2, <2>2, <2>3 DEF First, InStream, Waiting, HasData
    <2>5. h \in Frames /\ Second(file, g, h)
      BY <1>2, <2>2, SecondBegins
    <2> HIDE DEF h
    <2> QED
      BY <1>1, <1>2, <2>1, <2>2, <2>4, <2>5 DEF Right, RightCall
  <1>4. ASSUME slot # Nothing PROVE Right(t)
    <2> DEFINE d == slots[slot]
    <2>1. d # Nothing /\ d \in Offsets /\ d = file.scan[at].at /\ file.body[d].decodes
      BY <1>2, <1>4, HeldTrue
    <2>2. SetTop(t, [Top(t) EXCEPT !.pc = "table", !.data = d])
      BY <1>4, <2>1 DEF LookupBytes
    <2>3. "table" \in HasData /\ Top(t).pc \in HasData \cup {"bytes"}
      BY <1>1 DEF HasData
    <2> HIDE DEF d
    <2> QED
      BY <1>1, <2>1, <2>2, <2>3, DataRight
  <1> QED
    BY <1>3, <1>4

LEMMA PublishRight ==
  ASSUME AInv, Candid, NEW t \in Threads, Publish(t) PROVE Right(t)
  <1> DEFINE f == Top(t)
             at == f.entry.at
             slot == slotOf[at]
  <1>1. stack[t] # <<>> /\ f.pc = "publish" /\ answer' = answer
    BY DEF Publish, At, callVars
  <1>2. /\ TypeOK /\ f \in Frames /\ at \in Ids /\ file.scan[at].at \in Offsets
        /\ f.data = file.scan[at].at /\ file.body[f.data].decodes
    BY <1>1, InStreamFirst DEF First, HasData
  <1>3. "table" \in HasData /\ f.pc \in HasData \cup {"bytes"}
    BY <1>1 DEF HasData
  <1>4. ASSUME slot # Nothing PROVE Right(t)
    <2> DEFINE d == slots[slot]
    <2>1. d # Nothing /\ d \in Offsets /\ d = file.scan[at].at /\ file.body[d].decodes
      BY <1>2, <1>4, HeldTrue
    <2>2. SetTop(t, [Top(t) EXCEPT !.pc = "table", !.data = d])
      BY <1>4, <2>1 DEF Publish
    <2> HIDE DEF d
    <2> QED
      BY <1>1, <1>3, <2>1, <2>2, DataRight
  <1>5. ASSUME slot = Nothing PROVE Right(t)
    <2>1. /\ slots' = [slots EXCEPT ![Used] = IF @ = Nothing THEN f.data ELSE @]
          /\ SetTop(t, [f EXCEPT !.pc = "table", !.data = slots'[Used]])
      BY <1>5 DEF Publish
    <2>2. Used \in 0 .. Cardinality(Ids) - 1 /\ slots[Used] = Nothing
      BY <1>2, <1>5, FreeSlot DEF AInv, IInv
    <2>3. slots'[Used] = f.data
      BY <1>2, <2>1, <2>2 DEF TypeOK
    <2>4. SetTop(t, [Top(t) EXCEPT !.pc = "table", !.data = f.data])
      BY <2>1, <2>3
    <2> QED
      BY <1>1, <1>2, <1>3, <2>4, DataRight
  <1> QED
    BY <1>4, <1>5

LEMMA TableRight ==
  ASSUME AInv, Candid, NEW t \in Threads, LookupOffsets(t) \/ ParseOffsets(t)
  PROVE  Right(t)
  <1> DEFINE f == Top(t)
             at == f.entry.at
  <1>1. stack[t] # <<>> /\ f.pc \in {"table", "parse"} /\ answer' = answer
    BY DEF LookupOffsets, ParseOffsets, At, callVars
  <1>2. f.pc \in HasData /\ f.pc \in InStream \ {"header"}
    BY <1>1 DEF HasData, InStream, Waiting
  <1>3. /\ f \in Frames /\ file.scan[at].at \in Offsets
        /\ f.data = file.scan[at].at /\ file.body[f.data].decodes
        /\ f.header = file.scan[at].at
    BY <1>1, <1>2, InStreamFirst DEF First
  <1>4. PICK q \in {"parse", "pick"} : Goto(t, q)
    BY <1>3 DEF LookupOffsets, ParseOffsets
  <1>5. SetTop(t, [Top(t) EXCEPT !.pc = q, !.data = f.data])
    <2>1. [Top(t) EXCEPT !.pc = q, !.data = f.data] = [Top(t) EXCEPT !.pc = q]
      BY <1>3 DEF Frames
    <2> QED
      BY <1>4, <2>1 DEF Goto
  <1>6. q \in HasData
    BY DEF HasData
  <1> QED
    BY <1>1, <1>2, <1>3, <1>5, <1>6, DataRight

LEMMA PickPackedRight ==
  ASSUME AInv, Candid, NEW t \in Threads, PickPacked(t) PROVE Right(t)
  <1> DEFINE f == Top(t)
             e == f.entry
             packs == file.body[offsets[e.at]].packs
             place == e.index + 1
             obj == [num |-> packs[place], from |-> f.data, place |-> place]
  <1>1. stack[t] # <<>> /\ f.pc = "pick"
    BY DEF PickPacked, At
  <1>2. f.pc \in HasData /\ f.pc \in InStream
    BY <1>1 DEF HasData, InStream
  <1>3. /\ TypeOK /\ f \in Frames /\ Depth(t) = 1 /\ f.num \in Ids /\ ~f.asStream
        /\ e.kind = "packed" /\ e.at \in Ids /\ file.scan[e.at].at \in Offsets
        /\ f.data = file.scan[e.at].at /\ file.body[f.data].decodes
        /\ file.scan[f.num].kind # "none" => e = file.scan[f.num]
        /\ file.body[file.scan[e.at].at].decodes = (file.scan[f.num].kind # "none")
    BY <1>1, <1>2, InStreamFirst DEF First
  <1>4. e = file.scan[f.num]
    BY <1>3
  <1>5. offsets[e.at] = file.scan[e.at].at
    <2>1. offsets[e.at] # Nothing
      BY <1>1, TopInv DEF Knows, AInv
    <2>2. slotOf[e.at] # Nothing /\ offsets[e.at] = slots[slotOf[e.at]]
      BY <1>3, <2>1 DEF AInv, IInv, CachesCoherent
    <2> QED
      BY <1>3, <2>2, HeldTrue
  <1>6. e.index < Len(packs) /\ packs[place] = f.num /\ e.index \in Nat
        /\ packs \in Seq(Ids)
    <2>1. file.scan[f.num].kind = "packed"
      BY <1>3, <1>4
    <2>2. e.index < Len(packs) /\ packs[place] = f.num
      <3> DEFINE num == f.num
                 stream == file.body[file.scan[file.scan[num].at].at]
      <3>1. num \in Ids /\ file.scan[num].kind = "packed" /\ TypeOK
        BY <1>3, <2>1
      <3>2. packs = stream.packs /\ e = file.scan[num]
        BY <1>4, <1>5
      <3> HIDE DEF num, e, packs
      <3>3. /\ file.scan[num].index < Len(stream.packs)
            /\ stream.packs[file.scan[num].index + 1] = num
        BY <3>1, ScanPacked
      <3> QED
        BY <3>2, <3>3 DEF num
    <2>3. e.index \in Nat
      BY <1>3, FrameTypes, EntryTypes
    <2>4. packs \in Seq(Ids)
      BY <1>3, <1>5, FileTypes
    <2> QED
      BY <2>2, <2>3, <2>4
  <1>7. ~(place > Len(packs)) /\ place \in Nat
    <2> HIDE DEF packs
    <2>1. Len(packs) \in Nat
      BY <1>6
    <2> HIDE DEF e
    <2> QED
      BY <1>6, <2>1
  <1>8. Return(t, obj)
    BY <1>3, <1>7 DEF PickPacked
  <1>9. obj = [num |-> f.num, from |-> file.scan[e.at].at, place |-> e.index + 1]
    BY <1>3, <1>6
  <1>10. obj \in Object
    BY <1>3, <1>7, <1>9 DEF Object
  <1>11. obj = Truth(f.num)
    <2>1. Truth(f.num) = [num |-> f.num, from |-> file.scan[e.at].at,
                          place |-> e.index + 1]
      <3> DEFINE num == f.num
      <3>1. file.scan[num].kind = "packed" /\ e = file.scan[num]
        BY <1>3, <1>4
      <3> HIDE DEF num, e
      <3>2. Truth(num) = [num |-> num, from |-> file.scan[e.at].at,
                          place |-> e.index + 1]
        BY <3>1, TruthIs
      <3> QED
        BY <3>2 DEF num
    <2> QED
      BY <1>9, <2>1
  <1> HIDE DEF obj
  <1>12. RightReturn(t)
    <2> HIDE DEF e, packs, place
    <2> QED
      BY <1>3, <1>8, <1>10, <1>11 DEF RightReturn
  <1> QED
    BY <1>12 DEF Right

LEMMA FailRight ==
  ASSUME AInv, Candid, NEW t \in Threads, Fail(t) PROVE Right(t)
  <1>1. stack[t] # <<>> /\ Top(t).pc = "fail" /\ Return(t, Nothing)
    BY DEF Fail, At
  <1>2. Depth(t) = 1 /\ file.scan[Top(t).num].kind = "none"
    BY <1>1, InStreamFirst DEF First
  <1>3. Truth(Top(t).num) = Nothing
    BY <1>2, TruthIs
  <1> QED
    BY <1>1, <1>2, <1>3 DEF Right, RightReturn

LEMMA StepRight ==
  ASSUME AInv, Candid, NEW t \in Threads, Step(t) PROVE stack[t] # <<>> /\ Right(t)
  <1>1. stack[t] # <<>>
    BY DEF Step, At, Lookup, ReadDirect, LockForRepair, Rescan, EnterStream,
           LookupBytes, Publish, LookupOffsets, ParseOffsets, PickPacked, Fail
  <1> QED
    BY <1>1, LookupRight, ReadDirectRight, RepairRight, EnterStreamRight,
       LookupBytesRight, PublishRight, TableRight, PickPackedRight, FailRight DEF Step

-----------------------------------------------------------------------------
(* What such a step leaves behind.                                         *)
LEMMA ReturnStraight ==
  ASSUME AInv, Candid, NEW t \in Threads, stack[t] # <<>>, RightReturn(t)
  PROVE  /\ Straight(file, stack'[t])
         /\ \A u \in Threads \ {t} : stack'[u] = stack[u]
         /\ \/ answer' = answer
            \/ \E num \in Ids : answer' = [answer EXCEPT ![t] =
                                            [asked |-> num, got |-> Truth(num)]]
  <1>1. PICK got \in Object \cup {Nothing} :
          /\ Return(t, got)
          /\ Depth(t) = 1 => got = Truth(Top(t).num)
          /\ Depth(t) = 2 => First(file, Resumed(stack[t][1], got))
    BY DEF RightReturn
  <1>2. TypeOK /\ Depth(t) \in {1, 2} /\ Top(t).num \in Ids
    BY Where, FrameTypes
  <1>3. /\ \A u \in Threads \ {t} : stack'[u] = stack[u]
        /\ Depth(t) = 1 => /\ stack'[t] = <<>>
                           /\ answer' = [answer EXCEPT ![t] =
                                           [asked |-> Top(t).num, got |-> got]]
        /\ Depth(t) > 1 => /\ Len(stack'[t]) = Depth(t) - 1
                           /\ stack'[t][Depth(t) - 1]
                                = Resumed(stack[t][Depth(t) - 1], got)
                           /\ answer' = answer
    BY <1>1, <1>2, ReturnStep
  <1>4. CASE Depth(t) = 1
    <2>1. Straight(file, stack'[t])
      BY <1>3, <1>4 DEF Straight
    <2> QED
      BY <1>1, <1>2, <1>3, <1>4, <2>1
  <1>5. CASE Depth(t) = 2
    <2>1. Len(stack'[t]) = 1 /\ stack'[t][1] = Resumed(stack[t][1], got)
      BY <1>3, <1>5
    <2>2. Straight(file, stack'[t])
      BY <1>1, <1>5, <2>1 DEF Straight
    <2> QED
      BY <1>3, <1>5, <2>2
  <1> QED
    BY <1>2, <1>4, <1>5

LEMMA GoingStraight ==
  ASSUME AInv, Candid, NEW t \in Threads, stack[t] # <<>>, RightGoing(t)
  PROVE  /\ Straight(file, stack'[t]) /\ answer' = answer
         /\ \A u \in Threads \ {t} : stack'[u] = stack[u]
  <1>1. PICK g \in Frames :
         /\ SetTop(t, g) /\ answer' = answer
         /\ Depth(t) = 1 => First(file, g)
         /\ Depth(t) = 2 => Second(file, stack[t][1], g)
    BY DEF RightGoing
  <1>2. TypeOK /\ Depth(t) \in {1, 2}
        /\ (Depth(t) = 2 => First(file, stack[t][1]))
    BY Where
  <1>3. /\ \A u \in Threads \ {t} : stack'[u] = stack[u]
        /\ Len(stack'[t]) = Depth(t) /\ stack'[t][Depth(t)] = g
        /\ \A i \in 1 .. Depth(t) - 1 : stack'[t][i] = stack[t][i]
    BY <1>1, <1>2, SetTopStep
  <1>4. CASE Depth(t) = 1
    BY <1>1, <1>3, <1>4 DEF Straight
  <1>5. CASE Depth(t) = 2
    <2>1. Len(stack'[t]) = 2 /\ stack'[t][2] = g /\ stack'[t][1] = stack[t][1]
      BY <1>3, <1>5
    <2>2. Straight(file, stack'[t])
      BY <1>1, <1>2, <1>5, <2>1 DEF Straight
    <2> QED
      BY <1>1, <1>3, <2>2
  <1> QED
    BY <1>2, <1>4, <1>5

LEMMA CallStraight ==
  ASSUME AInv, Candid, NEW t \in Threads, stack[t] # <<>>, RightCall(t)
  PROVE  /\ Straight(file, stack'[t]) /\ answer' = answer
         /\ \A u \in Threads \ {t} : stack'[u] = stack[u]
  <1>1. PICK g \in Frames, h \in Frames :
         /\ Call(t, g, h) /\ answer' = answer
         /\ Depth(t) = 1 /\ First(file, g) /\ Second(file, g, h)
    BY DEF RightCall
  <1>2. TypeOK
    BY DEF AInv, IInv
  <1>3. /\ \A u \in Threads \ {t} : stack'[u] = stack[u]
        /\ Len(stack'[t]) = Depth(t) + 1
        /\ stack'[t][Depth(t)] = g /\ stack'[t][Depth(t) + 1] = h
    BY <1>1, <1>2, CallStep
  <1>4. Len(stack'[t]) = 2 /\ stack'[t][1] = g /\ stack'[t][2] = h
    BY <1>1, <1>3
  <1>5. Straight(file, stack'[t])
    BY <1>1, <1>4 DEF Straight
  <1> QED
    BY <1>1, <1>3, <1>5

(* The stacks and the answers after any step.                              *)
LEMMA StraightStep ==
  ASSUME AInv, Candid, [Next]_vars
  PROVE  /\ \A t \in Threads : Straight(file, stack'[t])
         /\ \/ answer' = answer
            \/ \E t \in Threads, num \in Ids :
                 answer' = [answer EXCEPT ![t] = [asked |-> num, got |-> Truth(num)]]
  <1>1. \A t \in Threads : Straight(file, stack[t])
    BY DEF AInv
  <1>2. ASSUME NEW t \in Threads, Step(t)
        PROVE  /\ \A u \in Threads : Straight(file, stack'[u])
               /\ \/ answer' = answer
                  \/ \E num \in Ids :
                       answer' = [answer EXCEPT ![t] =
                                    [asked |-> num, got |-> Truth(num)]]
    <2>1. stack[t] # <<>> /\ (RightReturn(t) \/ RightGoing(t) \/ RightCall(t))
      BY <1>2, StepRight DEF Right
    <2> QED
      BY <1>1, <2>1, ReturnStraight, GoingStraight, CallStraight
  <1>3. ASSUME NEW t \in Threads, NEW num \in Ids, Get(t, num)
        PROVE  answer' = answer /\ \A u \in Threads : Straight(file, stack'[u])
    <2> DEFINE f == NewFrame(num, FALSE, {})
    <2>1. answer' = answer /\ stack' = [stack EXCEPT ![t] = <<f>>]
      BY <1>3 DEF Get
    <2>2. f.pc = "lookup" /\ ~f.asStream /\ f.chain = {}
      BY DEF NewFrame
    <2> HIDE DEF f
    <2>3. First(file, f)
      BY <2>2 DEF First, InStream, Waiting, HasData
    <2>4. Len(<<f>>) = 1 /\ <<f>>[1] = f
      OBVIOUS
    <2>5. Straight(file, <<f>>)
      BY <2>3, <2>4 DEF Straight
    <2> QED
      BY <1>1, <2>1, <2>5 DEF AInv, IInv, TypeOK
  <1>4. CASE UNCHANGED vars
    BY <1>1, <1>4 DEF vars, callVars
  <1> QED
    BY <1>2, <1>3, <1>4 DEF Next, Quiet

(* Who files a slot files what the scan finds.                             *)
LEMMA FiledRight ==
  ASSUME AInv, Candid, NEW t \in Threads, Step(t), NEW s \in Ids,
         slotOf[s] = Nothing, slotOf'[s] # Nothing
  PROVE  /\ slots'[slotOf'[s]] = file.scan[s].at
         /\ file.body[file.scan[s].at].decodes
  <1>1. slotOf' # slotOf
    OBVIOUS
  <1>2. Publish(t)
    BY <1>1 DEF Step, Lookup, ReadDirect, LockForRepair, Rescan, EnterStream,
                LookupBytes, LookupOffsets, ParseOffsets, PickPacked, Fail, cacheVars
  <1> DEFINE f == Top(t)
             at == f.entry.at
  <1>3. stack[t] # <<>> /\ f.pc = "publish"
    BY <1>2 DEF Publish, At
  <1>4. /\ TypeOK /\ at \in Ids /\ f.data = file.scan[at].at
        /\ file.body[f.data].decodes
    BY <1>3, InStreamFirst DEF First, HasData
  <1>5. /\ slotOf[at] = Nothing
        /\ slots' = [slots EXCEPT ![Used] = IF @ = Nothing THEN f.data ELSE @]
        /\ slotOf' = [slotOf EXCEPT ![at] = Used]
    BY <1>1, <1>2 DEF Publish
  <1>6. s = at
    BY <1>4, <1>5 DEF TypeOK
  <1>7. Used \in 0 .. Cardinality(Ids) - 1 /\ slots[Used] = Nothing
    BY <1>4, <1>5, FreeSlot DEF AInv, IInv
  <1>8. slots'[Used] = f.data /\ slotOf'[at] = Used
    BY <1>4, <1>5, <1>7 DEF TypeOK
  <1> QED
    BY <1>4, <1>6, <1>8

LEMMA HeldStep ==
  ASSUME AInv, Candid, [Next]_vars, NEW s \in Ids, slotOf'[s] # Nothing
  PROVE  /\ slots'[slotOf'[s]] = file.scan[s].at
         /\ file.body[file.scan[s].at].decodes
  <1>1. CASE slotOf[s] # Nothing
    <2>1. CachesGrow
      BY CacheStep DEF AInv
    <2>2. /\ slots[slotOf[s]] # Nothing /\ slots[slotOf[s]] = file.scan[s].at
          /\ file.body[slots[slotOf[s]]].decodes
      BY <1>1, HeldTrue
    <2>3. slotOf'[s] = slotOf[s] /\ slotOf[s] \in 0 .. Cardinality(Ids) - 1
      BY <1>1, <2>1, HeldBytes DEF CachesGrow, AInv, IInv
    <2>4. slots'[slotOf[s]] = slots[slotOf[s]]
      BY <2>1, <2>2, <2>3 DEF CachesGrow
    <2> QED
      BY <2>2, <2>3, <2>4
  <1>2. CASE slotOf[s] = Nothing
    <2>1. slotOf' # slotOf
      BY <1>2
    <2>2. PICK t \in Threads : Step(t)
      BY <2>1 DEF Next, Get, Quiet, vars, cacheVars
    <2> QED
      BY <1>2, <2>2, FiledRight
  <1> QED
    BY <1>1, <1>2

LEMMA MapInvStep ==
  ASSUME MapInv, file' = file, [Next]_vars PROVE MapInv'
  <1>1. CASE UNCHANGED <<map, repaired>>
    BY <1>1 DEF MapInv
  <1>2. CASE map' = file.scan /\ repaired' = TRUE
    BY <1>2 DEF MapInv
  <1>3. ASSUME NEW t \in Threads, Step(t)
        PROVE  UNCHANGED <<map, repaired>> \/ (map' = file.scan /\ repaired' = TRUE)
    <2>1. CASE LockForRepair(t) \/ Rescan(t)
      BY <2>1 DEF LockForRepair, Rescan
    <2>2. CASE Lookup(t) \/ ReadDirect(t) \/ EnterStream(t) \/ LookupBytes(t)
      BY <2>2 DEF Lookup, ReadDirect, EnterStream, LookupBytes, mapVars
    <2>3. CASE Publish(t) \/ LookupOffsets(t) \/ ParseOffsets(t) \/ PickPacked(t)
               \/ Fail(t)
      BY <2>3 DEF Publish, LookupOffsets, ParseOffsets, PickPacked, Fail,
                  mapVars
    <2> QED
      BY <1>3, <2>1, <2>2, <2>3 DEF Step
  <1>4. ASSUME NEW t \in Threads, NEW num \in Ids, Get(t, num)
        PROVE  UNCHANGED <<map, repaired>>
    BY <1>4 DEF Get, mapVars
  <1>5. CASE UNCHANGED vars
    BY <1>1, <1>5 DEF vars, mapVars
  <1> QED
    BY <1>1, <1>2, <1>3, <1>4, <1>5 DEF Next, Quiet

LEMMA AInvInit == Init => AInv
  <1> SUFFICES ASSUME Init PROVE AInv
    OBVIOUS
  <1>1. IInv
    BY InvInit
  <1>2. MapInv
    BY DEF Init, MapInv
  <1>3. \A t \in Threads : stack[t] = <<>> /\ answer[t] = Nothing
    BY DEF Init
  <1>4. \A t \in Threads : Straight(file, stack[t])
    BY <1>3 DEF Straight
  <1>5. HeldRight
    BY DEF Init, HeldRight
  <1>6. AnswersRight
    BY <1>3 DEF AnswersRight
  <1> QED
    BY <1>1, <1>2, <1>4, <1>5, <1>6 DEF AInv

LEMMA AInvNext == AInv /\ [Next]_vars => AInv'
  <1> SUFFICES ASSUME AInv, [Next]_vars PROVE AInv'
    OBVIOUS
  <1>1. IInv' /\ file' = file
    BY InvNext, CacheStep DEF AInv
  <1>2. MapInv'
    BY <1>1, MapInvStep DEF AInv
  <1>3. Candid' => Candid
    <2>1. file' = file
      BY <1>1
    <2>2. ScanIsTrue' => ScanIsTrue
      BY ONLY <2>1 DEF ScanIsTrue
    <2>3. (\A num \in Ids : Detectable(num))' => \A num \in Ids : Detectable(num)
      BY ONLY <2>1, Zenon DEF Detectable
    <2> QED
      BY <2>2, <2>3 DEF Candid
  <1>4. ASSUME Candid
        PROVE  (\A t \in Threads : Straight(file, stack[t]))' /\ HeldRight' /\ AnswersRight'
    <2>1. (\A t \in Threads : Straight(file, stack[t]))'
      BY <1>1, <1>4, StraightStep
    <2>2. HeldRight'
      BY <1>1, <1>4, HeldStep DEF HeldRight
    <2>3. AnswersRight'
      <3>1. AnswersRight /\ answer \in [Threads -> [asked : Ids, got : Object \cup {Nothing}]
                                                    \cup {Nothing}]
        BY <1>4 DEF AInv, IInv, TypeOK
      <3>2. CASE answer' = answer
        BY <1>1, <3>1, <3>2 DEF AnswersRight, Truth
      <3>3. ASSUME NEW t \in Threads, NEW num \in Ids,
                   answer' = [answer EXCEPT ![t] = [asked |-> num, got |-> Truth(num)]]
            PROVE  AnswersRight'
        <4>1. \A u \in Threads : answer'[u] # Nothing =>
                answer'[u].got = Truth(answer'[u].asked)
          BY <3>1, <3>3 DEF AnswersRight
        <4> QED
          BY <1>1, <4>1 DEF AnswersRight, Truth
      <3> QED
        BY <1>4, <3>2, <3>3, StraightStep
    <2> QED
      BY <2>1, <2>2, <2>3
  <1> QED
    BY <1>1, <1>2, <1>3, <1>4 DEF AInv

LEMMA AInvAlways == Spec => []AInv
  BY AInvInit, AInvNext, PTL DEF Spec

(* XRef::get_with: in every document whose scan is true and whose table is *)
(* right or betrays itself, however the threads interleave with the repair *)
(* and with each other's publishing, an answer is the object asked for,    *)
(* and only what the scan does not hold is missing.                        *)
THEOREM RightAnswers == Spec => []AnswersAreRight
  <1>1. AInv => AnswersAreRight
    BY DEF AInv, AnswersAreRight, AnswersRight, Candid
  <1> QED
    BY <1>1, AInvAlways, PTL
=============================================================================
