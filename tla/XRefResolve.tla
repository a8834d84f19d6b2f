----------------------------- MODULE XRefResolve -----------------------------
(***************************************************************************)
(* How pdf-syntax resolves an object number when several threads read one  *)
(* document (XRef::get_with and XRef::repair in crates/pdf-syntax/src/     *)
(* xref.rs, the caches of Data in data.rs).  The cross-reference map       *)
(* stands behind a RwLock and is rebuilt once, by scanning the file, when  *)
(* an entry proves broken.  Objects packed in an object stream are read    *)
(* through two caches behind mutexes: the decoded bytes of the stream and  *)
(* its table of object offsets.                                            *)
(*                                                                         *)
(* A file is what stands at each byte offset, what its own table says, and *)
(* what a scan finds.  A step between two lock operations is one action;   *)
(* a call nested in a call is a frame on its thread's stack.               *)
(***************************************************************************)
EXTENDS Integers, Sequences, FiniteSets

CONSTANTS Threads,
          Ids,        \* object numbers (generation 0)
          Offsets,    \* byte offsets at which the tables say objects are
          Files,      \* the documents considered
          MaxCalls,   \* bound on the calls of XRef::get, of all threads
          NoThread,
          Nothing     \* the None of an Option

(* An entry is missing, or leads to an offset, or to a place in a stream.  *)
Entry == [kind : {"none"}, at : {0}, index : {0}]
         \cup [kind : {"normal"}, at : Offsets, index : {0}]
         \cup [kind : {"packed"}, at : Ids, index : Nat]

Undefined == [kind |-> "none", at |-> 0, index |-> 0]
Normal(offset) == [kind |-> "normal", at |-> offset, index |-> 0]
Packed(num, index) == [kind |-> "packed", at |-> num, index |-> index]

(* What stands at an offset: an object of a number that is a stream or     *)
(* not, or nothing that parses.  A stream decodes or not, and an object    *)
(* stream packs objects.                                                   *)
Body == [num : Ids, type : {"plain", "stream", "junk"}, decodes : BOOLEAN,
         packs : Seq(Ids)]

File == [table : [Ids -> Entry], scan : [Ids -> Entry], body : [Offsets -> Body]]

(* An object that was found: its number, the offset of the object or of    *)
(* the stream that packs it, and its place in that stream.                 *)
Object == [num : Ids, from : Offsets, place : Nat]

ASSUME ResolveAssumption ==
    /\ Files \subseteq File
    /\ Ids \subseteq Nat \ {0}
    /\ Offsets \subseteq Nat \ {0}
    /\ IsFiniteSet(Ids)
    /\ NoThread \notin Threads
    /\ MaxCalls \in Nat
    /\ Nothing \notin Object
    /\ Nothing \notin Nat

VARIABLES file,       \* the document; never changes
          map,        \* MapRepr.xref_map
          repaired,   \* MapRepr.repaired
          writer,     \* the thread that holds the map's write lock
          slotOf,     \* Data.map: stream number -> slot, or Nothing
          slots,      \* Data.decoded: slot -> offset of the decoded stream
          offsets,    \* Data.object_stream_offsets: stream number -> offset
                      \* of the stream the table was parsed from, or Nothing
          stack,      \* the nested get_with calls of each thread
          calls,      \* calls of get so far, a bound
          answer      \* what the last finished call asked and got

mapVars == <<map, repaired, writer>>
cacheVars == <<slotOf, slots, offsets>>
callVars == <<calls, answer>>
vars == <<file, mapVars, cacheVars, stack, callVars>>

PCs == {"lookup", "direct", "repair", "scan", "packed", "header", "bytes",
        "decode", "publish", "table", "parse", "pick", "fail"}

(* One call of get_with.  `asStream` is its type parameter: nested calls   *)
(* want a Stream, the outer ones whatever object there is.                 *)
NewFrame(num, asStream, chain) ==
    [pc |-> "lookup", num |-> num, asStream |-> asStream, chain |-> chain,
     entry |-> Undefined, fresh |-> FALSE, header |-> 0, data |-> 0]

Init == /\ file \in Files
        /\ \/ map = file.table /\ repaired = FALSE
           \/ map = file.scan /\ repaired = TRUE
        /\ writer = NoThread
        /\ slotOf = [s \in Ids |-> Nothing]
        /\ slots = [k \in 0 .. Cardinality(Ids) - 1 |-> Nothing]
        /\ offsets = [s \in Ids |-> Nothing]
        /\ stack = [t \in Threads |-> <<>>]
        /\ calls = 0
        /\ answer = [t \in Threads |-> Nothing]

-----------------------------------------------------------------------------
Depth(t) == Len(stack[t])
Top(t) == stack[t][Depth(t)]
At(t, pc) == stack[t] # <<>> /\ Top(t).pc = pc

SetTop(t, frame) == stack' = [stack EXCEPT ![t][Depth(t)] = frame]
Goto(t, pc) == SetTop(t, [Top(t) EXCEPT !.pc = pc])
Call(t, caller, callee) ==
    stack' = [stack EXCEPT ![t] = Append([@ EXCEPT ![Depth(t)] = caller], callee)]

(* What the caller does with the answer of the call it waits for.          *)
Resumed(f, got) ==
    IF got = Nothing THEN [f EXCEPT !.pc = "fail"]
    ELSE IF f.pc = "header" THEN [f EXCEPT !.pc = "bytes", !.header = got.from]
    ELSE IF file.body[got.from].decodes
      THEN [f EXCEPT !.pc = "publish", !.data = got.from]
      ELSE [f EXCEPT !.pc = "fail"]

Return(t, got) ==
    IF Depth(t) = 1
      THEN /\ stack' = [stack EXCEPT ![t] = <<>>]
           /\ answer' = [answer EXCEPT ![t] = [asked |-> Top(t).num, got |-> got]]
      ELSE LET up == Depth(t) - 1
           IN /\ stack' = [stack EXCEPT ![t] =
                             Append(SubSeq(@, 1, up - 1), Resumed(@[up], got))]
              /\ UNCHANGED answer

(* XRef::get.                                                              *)
Get(t, num) == /\ stack[t] = <<>>
               /\ calls < MaxCalls
               /\ calls' = calls + 1
               /\ stack' = [stack EXCEPT ![t] = <<NewFrame(num, FALSE, {})>>]
               /\ UNCHANGED <<file, mapVars, cacheVars, answer>>

-----------------------------------------------------------------------------
(* XRef::get_with and XRef::repair.                                        *)

(* The entry and the flag are read under one read lock: "the flag must     *)
(* describe the map this entry came from".                                 *)
Lookup(t) == /\ At(t, "lookup")
             /\ writer = NoThread
             /\ LET entry == map[Top(t).num]
                IN IF entry.kind = "none"
                     THEN Return(t, Nothing)
                     ELSE /\ SetTop(t, [Top(t) EXCEPT
                                !.pc = IF entry.kind = "normal" THEN "direct"
                                                                ELSE "packed",
                                !.entry = entry,
                                !.fresh = repaired])
                          /\ UNCHANGED answer
             /\ UNCHANGED <<file, mapVars, cacheVars, calls>>

(* An object stands at the offset, but it is not what the caller can use:  *)
(* it is being resolved already, or it is no stream and one is wanted.     *)
Unusable(f, body) == /\ body.type # "junk"
                     /\ body.num \in f.chain \/ (f.asStream /\ body.type # "stream")

(* Mutant: whether to repair is decided by the flag as it is now.          *)
ReadDirectByFlagNow(t) ==
    /\ At(t, "direct")
    /\ LET f == Top(t)
           body == file.body[f.entry.at]
       IN IF Unusable(f, body) THEN Return(t, Nothing)
          ELSE IF body.type # "junk" /\ body.num = f.num
            THEN Return(t, [num |-> body.num, from |-> f.entry.at, place |-> 0])
          ELSE IF repaired THEN Return(t, Nothing)
          ELSE Goto(t, "repair") /\ UNCHANGED answer
    /\ UNCHANGED <<file, mapVars, cacheVars, calls>>

ReadDirect(t) ==
    /\ At(t, "direct")
    /\ LET f == Top(t)
           body == file.body[f.entry.at]
       IN IF Unusable(f, body) THEN Return(t, Nothing)
          ELSE IF body.type # "junk" /\ body.num = f.num
            THEN Return(t, [num |-> body.num, from |-> f.entry.at, place |-> 0])
          ELSE IF f.fresh THEN Return(t, Nothing)
          ELSE Goto(t, "repair") /\ UNCHANGED answer
    /\ UNCHANGED <<file, mapVars, cacheVars, calls>>

(* Mutant: the waiting thread does not look at the flag again.             *)
LockForRepairUnchecked(t) == /\ At(t, "repair")
                             /\ writer = NoThread
                             /\ Goto(t, "scan")
                             /\ writer' = t
                             /\ UNCHANGED <<file, map, repaired, cacheVars, callVars>>

(* A repair that finds the map repaired returns; then the object is looked *)
(* up again.                                                               *)
LockForRepair(t) == /\ At(t, "repair")
                    /\ writer = NoThread
                    /\ IF repaired
                         THEN Goto(t, "lookup") /\ UNCHANGED writer
                         ELSE Goto(t, "scan") /\ writer' = t
                    /\ UNCHANGED <<file, map, repaired, cacheVars, callVars>>

(* Mutant: the write lock is never given back.                             *)
RescanKeepsLock(t) == /\ At(t, "scan")
                      /\ map' = file.scan
                      /\ repaired' = TRUE
                      /\ Goto(t, "lookup")
                      /\ UNCHANGED <<file, writer, cacheVars, callVars>>

(* fallback_xref_map, under the write lock.                                *)
Rescan(t) == /\ At(t, "scan")
             /\ map' = file.scan
             /\ repaired' = TRUE
             /\ writer' = NoThread
             /\ Goto(t, "lookup")
             /\ UNCHANGED <<file, cacheVars, callVars>>

(* Mutant: only a stream that packs itself counts as a cycle.              *)
EnterStreamUnguarded(t) ==
    /\ At(t, "packed")
    /\ LET f == Top(t)
           caller == [f EXCEPT !.pc = "header", !.chain = @ \cup {f.num}]
       IN IF f.entry.at = f.num
            THEN Return(t, Nothing)
            ELSE /\ Call(t, caller, NewFrame(f.entry.at, TRUE, caller.chain))
                 /\ UNCHANGED answer
    /\ UNCHANGED <<file, mapVars, cacheVars, calls>>

(* The object stream itself is resolved first, with the object on the      *)
(* chain of what is being resolved.                                        *)
EnterStream(t) ==
    /\ At(t, "packed")
    /\ LET f == Top(t)
           caller == [f EXCEPT !.pc = "header", !.chain = @ \cup {f.num}]
       IN IF f.entry.at = f.num \/ f.num \in f.chain
            THEN Return(t, Nothing)
            ELSE /\ Call(t, caller, NewFrame(f.entry.at, TRUE, caller.chain))
                 /\ UNCHANGED answer
    /\ UNCHANGED <<file, mapVars, cacheVars, calls>>

(* Data::get_with: the cached bytes of the stream, or decoding, which      *)
(* resolves the stream once more and holds no lock meanwhile.              *)
LookupBytes(t) ==
    /\ At(t, "bytes")
    /\ LET f == Top(t)
           slot == slotOf[f.entry.at]
       IN IF slot = Nothing
            THEN Call(t, [f EXCEPT !.pc = "decode"], NewFrame(f.entry.at, TRUE, f.chain))
          ELSE IF slots[slot] = Nothing THEN Goto(t, "fail")
          ELSE SetTop(t, [f EXCEPT !.pc = "table", !.data = slots[slot]])
    /\ UNCHANGED <<file, mapVars, cacheVars, callVars>>

(* The first thread to publish wins; the others take what it published.    *)
Used == Cardinality({s \in Ids : slotOf[s] # Nothing})

(* Mutant: what was decoded is filed without looking whether another       *)
(* thread filed it meanwhile.                                              *)
PublishUnchecked(t) ==
    /\ At(t, "publish")
    /\ LET f == Top(t)
       IN /\ slots' = [slots EXCEPT ![Used] = IF @ = Nothing THEN f.data ELSE @]
          /\ slotOf' = [slotOf EXCEPT ![f.entry.at] = Used]
          /\ SetTop(t, [f EXCEPT !.pc = "table", !.data = slots'[Used]])
    /\ UNCHANGED <<file, mapVars, offsets, callVars>>

Publish(t) ==
    /\ At(t, "publish")
    /\ LET f == Top(t)
           slot == slotOf[f.entry.at]
       IN IF slot # Nothing
            THEN /\ IF slots[slot] = Nothing
                      THEN Goto(t, "fail")
                      ELSE SetTop(t, [f EXCEPT !.pc = "table", !.data = slots[slot]])
                 /\ UNCHANGED <<slotOf, slots>>
            ELSE /\ slots' = [slots EXCEPT ![Used] = IF @ = Nothing THEN f.data ELSE @]
                 /\ slotOf' = [slotOf EXCEPT ![f.entry.at] = Used]
                 /\ SetTop(t, [f EXCEPT !.pc = "table", !.data = slots'[Used]])
    /\ UNCHANGED <<file, mapVars, offsets, callVars>>

(* get_object_stream_offsets_or_init: a hit, or parsing without the lock   *)
(* and then insert-if-absent.                                              *)
LookupOffsets(t) == /\ At(t, "table")
                    /\ Goto(t, IF offsets[Top(t).entry.at] = Nothing THEN "parse"
                                                                    ELSE "pick")
                    /\ UNCHANGED <<file, mapVars, cacheVars, callVars>>

(* The stream's dictionary tells how many objects its bytes pack and where *)
(* the first one is; the wrong dictionary may or may not fit.              *)
ParseOffsets(t) ==
    /\ At(t, "parse")
    /\ LET f == Top(t)
       IN \/ /\ offsets' = [offsets EXCEPT ![f.entry.at] =
                              IF @ = Nothing THEN f.data ELSE @]
             /\ Goto(t, "pick")
          \/ /\ f.header # f.data
             /\ Goto(t, "fail")
             /\ UNCHANGED offsets
    /\ UNCHANGED <<file, mapVars, slotOf, slots, callVars>>

(* The object at the index: its number is not compared with what was asked *)
PickPacked(t) ==
    /\ At(t, "pick")
    /\ LET f == Top(t)
           packs == file.body[offsets[f.entry.at]].packs
           place == f.entry.index + 1
       IN IF f.asStream \/ place > Len(packs)
            THEN Return(t, Nothing)
            ELSE Return(t, [num |-> packs[place], from |-> f.data, place |-> place])
    /\ UNCHANGED <<file, mapVars, cacheVars, calls>>

(* Mutant: a failed call answers an empty object.                          *)
FailAnswersNull(t) == /\ At(t, "fail")
                      /\ Return(t, [num |-> Top(t).num, from |-> 0, place |-> 0])
                      /\ UNCHANGED <<file, mapVars, cacheVars, calls>>

(* The `?` on what a nested call or a cache answered.                      *)
Fail(t) == /\ At(t, "fail")
           /\ Return(t, Nothing)
           /\ UNCHANGED <<file, mapVars, cacheVars, calls>>

Step(t) == \/ Lookup(t)
           \/ ReadDirect(t)
           \/ LockForRepair(t)
           \/ Rescan(t)
           \/ EnterStream(t)
           \/ LookupBytes(t)
           \/ Publish(t)
           \/ LookupOffsets(t)
           \/ ParseOffsets(t)
           \/ PickPacked(t)
           \/ Fail(t)

AllAnswered == calls = MaxCalls /\ \A t \in Threads : stack[t] = <<>>

Quiet == AllAnswered /\ UNCHANGED vars

Next == \/ \E t \in Threads : \/ Step(t)
                              \/ \E num \in Ids : Get(t, num)
        \/ Quiet

(* Every thread inside a call is scheduled.                                *)
Fairness == \A t \in Threads : WF_vars(Step(t))

Spec == Init /\ [][Next]_vars
FairSpec == Spec /\ Fairness

-----------------------------------------------------------------------------
Frames == [pc : PCs, num : Ids, asStream : BOOLEAN, chain : SUBSET Ids,
           entry : Entry, fresh : BOOLEAN, header : Offsets \cup {0},
           data : Offsets \cup {0}]

(* Types of the tables, of the caches and of the calls in progress.        *)
TypeOK == /\ file \in Files
          /\ map \in [Ids -> Entry]
          /\ repaired \in BOOLEAN
          /\ writer \in Threads \cup {NoThread}
          /\ slotOf \in [Ids -> (0 .. Cardinality(Ids) - 1) \cup {Nothing}]
          /\ slots \in [0 .. Cardinality(Ids) - 1 -> Offsets \cup {Nothing}]
          /\ offsets \in [Ids -> Offsets \cup {Nothing}]
          /\ stack \in [Threads -> Seq(Frames)]
          /\ calls \in 0 .. MaxCalls
          /\ answer \in [Threads -> [asked : Ids, got : Object \cup {Nothing}]
                                      \cup {Nothing}]

(* The two caches agree: a slot holds the bytes of the stream it is filed  *)
(* under and of no other, and an offset table was parsed from the very     *)
(* bytes that are cached for its stream, whoever raced to publish them.    *)
CachesCoherent ==
    /\ \A s \in Ids : slotOf[s] # Nothing =>
         /\ slots[slotOf[s]] # Nothing
         /\ file.body[slots[slotOf[s]]].num = s
         /\ \A other \in Ids \ {s} : slotOf[other] # slotOf[s]
    /\ \A s \in Ids : offsets[s] # Nothing =>
         slotOf[s] # Nothing /\ offsets[s] = slots[slotOf[s]]

(* The file is scanned once: a thread that waited for the write lock while *)
(* another repaired does not repair again.                                 *)
RepairsOnce == writer # NoThread => ~repaired

(* Where an object really is, by the scan of the whole file.               *)
Truth(num) ==
    LET e == file.scan[num]
    IN CASE e.kind = "none"   -> Nothing
         [] e.kind = "normal" -> [num |-> num, from |-> e.at, place |-> 0]
         [] e.kind = "packed" -> [num |-> num, from |-> file.scan[e.at].at,
                                  place |-> e.index + 1]

(* The scan leads to the objects: it may not where two versions of an      *)
(* object stream stand in the file, for what only the older one packs is   *)
(* looked up in the newer.                                                 *)
ScanIsTrue ==
    \A num \in Ids :
      LET e == file.scan[num]
          body == file.body[e.at]
          stream == file.body[file.scan[e.at].at]
      IN /\ e.kind = "normal" => body.type # "junk" /\ body.num = num
         /\ e.kind = "packed" => /\ file.scan[e.at].kind = "normal"
                                 /\ stream.type = "stream" /\ stream.decodes
                                 /\ e.index < Len(stream.packs)
                                 /\ stream.packs[e.index + 1] = num

(* The table's entry is right, or reading it shows that it is broken, or   *)
(* it names a stream out of which nothing can be had.                      *)
Detectable(num) ==
    LET e == file.table[num]
        body == file.body[e.at]
    IN \/ e = file.scan[num]
       \/ /\ e.kind = "normal"
          /\ \/ body.type = "junk"
             \/ /\ body.num # num
                /\ file.scan[body.num].kind # "packed"
                /\ body.type = "stream" \/ \A o \in Offsets :
                     file.body[o].num = num => file.body[o].type # "stream"
       \/ /\ e.kind = "packed" /\ file.scan[num].kind = "none"
          /\ file.scan[e.at].kind = "normal"
          /\ ~file.body[file.scan[e.at].at].decodes

(* However the threads interleave with the repair and with each other's    *)
(* publishing, an object the rebuilt table holds is found, and is the one  *)
(* asked for: no thread gives up because it read an entry that another     *)
(* thread was about to replace.                                            *)
AnswersAreRight ==
    ScanIsTrue /\ (\A num \in Ids : Detectable(num)) =>
        \A t \in Threads : answer[t] # Nothing =>
            answer[t].got = Truth(answer[t].asked)

(* Resolution does not chase its own tail: the objects that wait for their *)
(* stream are distinct, so the nesting is bounded by the number of objects.*)
NestingBounded ==
    \A t \in Threads :
        /\ Depth(t) <= Cardinality(Ids) + 1
        /\ \A a, b \in 1 .. Depth(t) - 1 : a # b => stack[t][a].num # stack[t][b].num

(* Every call answers, whatever the file and whoever holds the locks.      *)
Termination == \A t \in Threads : stack[t] # <<>> ~> stack[t] = <<>>

(* What Data's documentation takes from the immutability of the bytes: a   *)
(* cached stream or offset table never becomes stale, so no object is read *)
(* out of one that the table in force does not describe.                   *)
NoStaleAnswer == \A t \in Threads :
    answer[t] # Nothing /\ answer[t].got # Nothing =>
        answer[t].got.num = answer[t].asked
=============================================================================
