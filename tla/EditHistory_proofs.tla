------------------------- MODULE EditHistory_proofs -------------------------
(***************************************************************************)
(* Proofs about EditHistory, for every cap and every set of contents: type *)
(* correctness with the bound on both stacks, and that the two stacks      *)
(* implement the line of VersionLine.                                      *)
(***************************************************************************)
EXTENDS EditHistory, SequenceTheorems, TLAPS

USE EditAssumption

(* A popped snapshot is a content, and the rest is a shorter stack.        *)
LEMMA Pop ==
  ASSUME NEW s \in Seq(Contents), s # <<>>
  PROVE  /\ Last(s) \in Contents
         /\ Front(s) \in Seq(Contents)
         /\ Len(Front(s)) = Len(s) - 1
         /\ \A i \in 1 .. Len(s) - 1 : Front(s)[i] = s[i]
  <1>1. Len(s) \in Nat \ {0}
    OBVIOUS
  <1>2. \A i \in 1 .. Len(s) : s[i] \in Contents
    OBVIOUS
  <1>3. Front(s) = [i \in 1 .. Len(s) - 1 |-> s[i]]
    BY <1>1, <1>2 DEF Front
  <1> QED
    BY <1>1, <1>2, <1>3 DEF Last

(* A push leaves at most MaxUndo snapshots, the present one on top.        *)
LEMMA Push ==
  ASSUME NEW s \in Seq(Contents), NEW c \in Contents, Len(s) <= MaxUndo
  PROVE  /\ Capped(Append(s, c)) \in Seq(Contents)
         /\ Len(Capped(Append(s, c))) <= MaxUndo
         /\ Len(s) < MaxUndo => Capped(Append(s, c)) = Append(s, c)
         /\ Len(s) = MaxUndo => Capped(Append(s, c)) = Tail(Append(s, c))
  BY DEF Capped

(* The init and the steps of type correctness.                             *)
LEMMA TypesInit == Init => TypeOK
  BY DEF Init, TypeOK

LEMMA TypesStep == TypeOK /\ [Next]_vars => TypeOK'
  <1> SUFFICES ASSUME TypeOK, [Next]_vars PROVE TypeOK'
    OBVIOUS
  <1>1. CASE OpenDocument
    BY <1>1 DEF OpenDocument, TypeOK
  <1>2. CASE CloseDocument
    BY <1>2 DEF CloseDocument, TypeOK
  <1>3. ASSUME IsOpen PROVE /\ Capped(Append(undo, raw)) \in Seq(Contents)
                            /\ Len(Capped(Append(undo, raw))) <= MaxUndo
    BY <1>3, Push DEF IsOpen, TypeOK
  <1>4. CASE Edit
    BY <1>3, <1>4 DEF Edit, PushUndo, Reload, IsOpen, TypeOK
  <1>5. CASE EditFails
    BY <1>3, <1>5 DEF EditFails, PushUndo, IsOpen, TypeOK
  <1>6. CASE Undo
    <2>1. raw \in Contents
      BY <1>6 DEF Undo, TypeOK
    <2>2. /\ raw' \in Contents /\ undo' \in Seq(Contents) /\ Len(undo') = Len(undo) - 1
      BY <1>6, Pop DEF Undo, TypeOK
    <2> QED
      BY <1>6, <2>1, <2>2 DEF Undo, Reload, TypeOK
  <1>7. CASE Redo
    <2>1. raw \in Contents
      BY <1>7 DEF Redo, TypeOK
    <2>2. /\ raw' \in Contents /\ redo' \in Seq(Contents) /\ Len(redo') = Len(redo) - 1
      BY <1>7, Pop DEF Redo, TypeOK
    <2> QED
      BY <1>7, <2>1, <2>2 DEF Redo, Reload, TypeOK
  <1>8. CASE SaveDocument \/ SaveDocumentAs
    BY <1>8 DEF SaveDocument, SaveDocumentAs, IsOpen, TypeOK
  <1>9. CASE UNCHANGED vars
    BY <1>9 DEF vars, TypeOK
  <1> QED
    BY <1>1, <1>2, <1>4, <1>5, <1>6, <1>7, <1>8, <1>9 DEF Next

(* Type correctness: in particular the two stacks share one cap, though    *)
(* redo pushes without looking at it (state.rs:38-45, commands.rs:674).    *)
THEOREM EditTypes == Spec => []TypeOK
  <1> QED
    BY TypesInit, TypesStep, PTL DEF Spec

-----------------------------------------------------------------------------
(***************************************************************************)
(* The refinement.  Everything is read off one description of the line:    *)
(* which version stands at which index.                                    *)
(***************************************************************************)
Version == Contents \cup {Nothing}
Line(u, x, r) == Append(u, x) \o Reverse(r)

Shape(s, u, x, r) == /\ s \in Seq(Version)
                     /\ Len(s) = Len(u) + 1 + Len(r)
                     /\ \A i \in 1 .. Len(u) : s[i] = u[i]
                     /\ s[Len(u) + 1] = x
                     /\ \A i \in Len(u) + 2 .. Len(u) + 1 + Len(r) :
                          s[i] = r[Len(u) + Len(r) + 2 - i]

LEMMA LineShape ==
  ASSUME NEW u \in Seq(Version), NEW x \in Version, NEW r \in Seq(Version)
  PROVE  Shape(Line(u, x, r), u, x, r)
  <1>1. /\ Append(u, x) \in Seq(Version)
        /\ Len(Append(u, x)) = Len(u) + 1
        /\ \A i \in 1 .. Len(u) : Append(u, x)[i] = u[i]
        /\ Append(u, x)[Len(u) + 1] = x
    BY AppendProperties
  <1>2. /\ Reverse(r) \in Seq(Version)
        /\ Len(Reverse(r)) = Len(r)
        /\ \A i \in 1 .. Len(r) : Reverse(r)[i] = r[Len(r) - i + 1]
    <2>1. \A i \in 1 .. Len(r) : r[Len(r) - i + 1] \in Version
      OBVIOUS
    <2> QED
      BY <2>1 DEF Reverse
  <1>3. /\ Line(u, x, r) \in Seq(Version)
        /\ Len(Line(u, x, r)) = Len(u) + 1 + Len(r)
        /\ \A i \in 1 .. Len(u) + 1 + Len(r) :
             Line(u, x, r)[i] = IF i <= Len(u) + 1 THEN Append(u, x)[i]
                                                    ELSE Reverse(r)[i - (Len(u) + 1)]
    <2>1. ASSUME NEW p \in Seq(Version), NEW q \in Seq(Version),
                 Len(p) = Len(u) + 1, Len(q) = Len(r)
          PROVE  /\ p \o q \in Seq(Version)
                 /\ Len(p \o q) = Len(u) + 1 + Len(r)
                 /\ \A i \in 1 .. Len(u) + 1 + Len(r) :
                      (p \o q)[i] = IF i <= Len(u) + 1 THEN p[i] ELSE q[i - (Len(u) + 1)]
      <3>1. /\ p \o q \in Seq(Version)
            /\ Len(p \o q) = Len(p) + Len(q)
            /\ \A i \in 1 .. Len(p) + Len(q) :
                 (p \o q)[i] = IF i <= Len(p) THEN p[i] ELSE q[i - Len(p)]
        BY ConcatProperties, Zenon
      <3> QED
        BY <2>1, <3>1, Zenon
    <2>2. Line(u, x, r) = Append(u, x) \o Reverse(r)
      BY DEF Line
    <2>3. /\ Append(u, x) \o Reverse(r) \in Seq(Version)
          /\ Len(Append(u, x) \o Reverse(r)) = Len(u) + 1 + Len(r)
          /\ \A i \in 1 .. Len(u) + 1 + Len(r) :
               (Append(u, x) \o Reverse(r))[i] =
                 IF i <= Len(u) + 1 THEN Append(u, x)[i] ELSE Reverse(r)[i - (Len(u) + 1)]
      BY <1>1, <1>2, <2>1, Zenon
    <2> QED
      BY <2>2, <2>3, Zenon
  <1>4. \A i \in Len(u) + 2 .. Len(u) + 1 + Len(r) :
          Line(u, x, r)[i] = r[Len(u) + Len(r) + 2 - i]
    <2> TAKE i \in Len(u) + 2 .. Len(u) + 1 + Len(r)
    <2>1. Len(u) \in Nat /\ Len(r) \in Nat
      OBVIOUS
    <2>2. i - (Len(u) + 1) \in 1 .. Len(r) /\ i > Len(u) + 1
      BY <2>1
    <2>3. Line(u, x, r)[i] = Reverse(r)[i - (Len(u) + 1)]
      BY <1>3, <2>1, <2>2
    <2>4. Reverse(r)[i - (Len(u) + 1)] = r[Len(r) - (i - (Len(u) + 1)) + 1]
      BY <1>2, <2>2
    <2> QED
      BY <2>1, <2>3, <2>4
  <1> QED
    BY <1>1, <1>3, <1>4 DEF Shape

(* p is u with x on top.                                                   *)
Extends(p, u, x) == /\ p \in Seq(Version) /\ Len(p) = Len(u) + 1
                    /\ \A i \in 1 .. Len(u) : p[i] = u[i]
                    /\ p[Len(u) + 1] = x

(* Moving the present version from one stack to the other moves the cursor *)
(* alone: undo and redo change no version.                                 *)
LEMMA LineShift ==
  ASSUME NEW u \in Seq(Version), NEW x \in Version, NEW y \in Version,
         NEW r \in Seq(Version),
         NEW p \in Seq(Version), Extends(p, u, x),
         NEW f \in Seq(Version), Extends(f, r, y)
  PROVE  Line(u, x, f) = Line(p, y, r)
  <1>1. Len(u) \in Nat /\ Len(r) \in Nat
    OBVIOUS
  <1> USE DEF Extends
  <1>2. /\ Line(u, x, f) \in Seq(Version)
        /\ Len(Line(u, x, f)) = Len(u) + Len(r) + 2
        /\ \A i \in 1 .. Len(u) : Line(u, x, f)[i] = u[i]
        /\ Line(u, x, f)[Len(u) + 1] = x
        /\ \A i \in Len(u) + 2 .. Len(u) + Len(r) + 2 :
             Line(u, x, f)[i] = f[Len(u) + Len(r) + 3 - i]
    <2>1. /\ Line(u, x, f) \in Seq(Version)
          /\ Len(Line(u, x, f)) = Len(u) + 1 + Len(f)
          /\ \A i \in 1 .. Len(u) : Line(u, x, f)[i] = u[i]
          /\ Line(u, x, f)[Len(u) + 1] = x
          /\ \A i \in Len(u) + 2 .. Len(u) + 1 + Len(f) :
               Line(u, x, f)[i] = f[Len(u) + Len(f) + 2 - i]
      <3>1. Shape(Line(u, x, f), u, x, f)
        BY LineShape
      <3> QED
        BY <3>1, Zenon DEF Shape
    <2>2. /\ Len(u) + 1 + Len(f) = Len(u) + Len(r) + 2
          /\ \A i \in Int : Len(u) + Len(f) + 2 - i = Len(u) + Len(r) + 3 - i
      BY <1>1
    <2> QED
      BY <2>1, <2>2
  <1>3. /\ Line(p, y, r) \in Seq(Version)
        /\ Len(Line(p, y, r)) = Len(u) + Len(r) + 2
        /\ \A i \in 1 .. Len(u) + 1 : Line(p, y, r)[i] = p[i]
        /\ Line(p, y, r)[Len(u) + 2] = y
        /\ \A i \in Len(u) + 3 .. Len(u) + Len(r) + 2 :
             Line(p, y, r)[i] = r[Len(u) + Len(r) + 3 - i]
    <2>1. /\ Line(p, y, r) \in Seq(Version)
          /\ Len(Line(p, y, r)) = Len(p) + 1 + Len(r)
          /\ \A i \in 1 .. Len(p) : Line(p, y, r)[i] = p[i]
          /\ Line(p, y, r)[Len(p) + 1] = y
          /\ \A i \in Len(p) + 2 .. Len(p) + 1 + Len(r) :
               Line(p, y, r)[i] = r[Len(p) + Len(r) + 2 - i]
      <3>1. Shape(Line(p, y, r), p, y, r)
        BY LineShape
      <3> QED
        BY <3>1, Zenon DEF Shape
    <2>2. /\ Len(p) + 1 + Len(r) = Len(u) + Len(r) + 2
          /\ Len(p) + 1 = Len(u) + 2 /\ Len(p) + 2 = Len(u) + 3
          /\ \A i \in Int : Len(p) + Len(r) + 2 - i = Len(u) + Len(r) + 3 - i
      BY <1>1
    <2> QED
      BY <2>1, <2>2
  <1>4. \A i \in 1 .. Len(u) + Len(r) + 2 : Line(u, x, f)[i] = Line(p, y, r)[i]
    <2> TAKE i \in 1 .. Len(u) + Len(r) + 2
    <2>1. CASE i <= Len(u)
      BY <1>1, <1>2, <1>3, <2>1
    <2>2. CASE i = Len(u) + 1
      BY <1>1, <1>2, <1>3, <2>2
    <2> DEFINE k == Len(u) + Len(r) + 3 - i
    <2>3. CASE i = Len(u) + 2
      <3>1. i \in Len(u) + 2 .. Len(u) + Len(r) + 2 /\ k = Len(r) + 1
        BY <1>1, <2>3
      <3>2. Line(u, x, f)[i] = f[k]
        BY <1>2, <3>1
      <3>3. f[k] = y
        BY <3>1
      <3> QED
        BY <1>3, <2>3, <3>2, <3>3
    <2>4. CASE i > Len(u) + 2
      <3>1. /\ i \in Len(u) + 2 .. Len(u) + Len(r) + 2
            /\ i \in Len(u) + 3 .. Len(u) + Len(r) + 2
            /\ k \in 1 .. Len(r)
        BY <1>1, <2>4
      <3>2. Line(u, x, f)[i] = f[k]
        BY <1>2, <3>1
      <3>3. Line(p, y, r)[i] = r[k]
        BY <1>3, <3>1
      <3>4. f[k] = r[k]
        BY <3>1
      <3> QED
        BY <3>2, <3>3, <3>4
    <2> QED
      BY <1>1, <2>1, <2>2, <2>3, <2>4
  <1> QED
    BY <1>2, <1>3, <1>4, SeqEqual

(* Nothing undone: the line is the past and the present.                   *)
LEMMA LineEnds ==
  ASSUME NEW u \in Seq(Version), NEW x \in Version
  PROVE  Line(u, x, <<>>) = Append(u, x)
  <1>1. Append(u, x) \in Seq(Version)
    BY AppendProperties
  <1>2. Reverse(<<>>) = <<>>
    BY DEF Reverse
  <1> QED
    BY <1>1, <1>2, ConcatEmptySeq, Zenon DEF Line

(* Up to the cursor, the line is the past and the present.                 *)
LEMMA LinePast ==
  ASSUME NEW u \in Seq(Version), NEW x \in Version, NEW r \in Seq(Version)
  PROVE  SubSeq(Line(u, x, r), 1, Len(u) + 1) = Append(u, x)
  <1> DEFINE l == Line(u, x, r)
             p == Append(u, x)
  <1>1. /\ p \in Seq(Version) /\ Len(p) = Len(u) + 1
        /\ \A i \in 1 .. Len(u) : p[i] = u[i]
        /\ p[Len(u) + 1] = x
    BY AppendProperties
  <1>2. Len(u) \in Nat /\ Len(r) \in Nat
    OBVIOUS
  <1>3. /\ l \in Seq(Version) /\ Len(l) = Len(u) + 1 + Len(r)
        /\ \A i \in 1 .. Len(u) : l[i] = u[i]
        /\ l[Len(u) + 1] = x
    BY LineShape DEF Shape
  <1> HIDE DEF l, p
  <1>4. \A i \in 1 .. Len(u) + 1 : l[i] \in Version /\ l[i] = p[i]
    <2> TAKE i \in 1 .. Len(u) + 1
    <2>1. l[i] = p[i]
      <3>1. CASE i = Len(u) + 1
        BY <1>1, <1>3, <3>1
      <3>2. CASE i \in 1 .. Len(u)
        BY <1>1, <1>3, <3>2
      <3> QED
        BY <1>2, <3>1, <3>2
    <2>2. p[i] \in Version
      BY <1>1, <1>2
    <2> QED
      BY <2>1, <2>2
  <1>5. /\ SubSeq(l, 1, Len(u) + 1) \in Seq(Version)
        /\ Len(SubSeq(l, 1, Len(u) + 1)) = Len(u) + 1
        /\ \A i \in 1 .. Len(u) + 1 : SubSeq(l, 1, Len(u) + 1)[i] = l[i]
    <2> DEFINE n == Len(u) + 1
    <2>1. n \in Nat \ {0}
      BY <1>2
    <2>2. \A i \in 1 .. n : l[i] \in Version
      BY <1>4
    <2> HIDE DEF n
    <2>3. /\ SubSeq(l, 1, n) \in Seq(Version)
          /\ Len(SubSeq(l, 1, n)) = n
          /\ \A i \in 1 .. n : SubSeq(l, 1, n)[i] = l[i]
      BY <2>1, <2>2, SubSeqProperties
    <2> QED
      BY <2>3 DEF n
  <1>6. SubSeq(l, 1, Len(u) + 1) = p
    <2> DEFINE q == SubSeq(l, 1, Len(u) + 1)
    <2>1. q \in Seq(Version) /\ Len(q) = Len(p) /\ \A i \in 1 .. Len(q) : q[i] = p[i]
      BY <1>1, <1>4, <1>5
    <2> HIDE DEF q
    <2>2. q = p
      BY <1>1, <2>1, SeqEqual
    <2> QED
      BY <2>2 DEF q
  <1> QED
    BY <1>6 DEF l, p

(* What push_undo drops is what has become too old for the line.           *)
LEMMA LineCommit ==
  ASSUME NEW u \in Seq(Version), NEW x \in Version, NEW c \in Version,
         NEW r \in Seq(Version), Len(u) <= MaxUndo
  PROVE  /\ Line(Capped(Append(u, x)), c, <<>>) =
              History!Newest(Append(SubSeq(Line(u, x, r), 1, Len(u) + 1), c), MaxUndo + 1)
         /\ Line(Capped(Append(u, x)), c, <<>>) \in Seq(Version)
         /\ Len(Line(Capped(Append(u, x)), c, <<>>)) = Len(Capped(Append(u, x))) + 1
  <1> DEFINE p == Append(u, x)
             v == Capped(p)
  <1>1. p \in Seq(Version) /\ Len(p) = Len(u) + 1 /\ Len(p) \in Nat \ {0}
    BY AppendProperties
  <1> HIDE DEF p
  <1>2. v \in Seq(Version)
    BY <1>1 DEF Capped
  <1>3. Append(v, c) = History!Newest(Append(p, c), MaxUndo + 1)
    <2>1. CASE Len(p) <= MaxUndo
      <3>1. v = p
        BY <1>1, <2>1 DEF Capped
      <3>2. Len(Append(p, c)) <= MaxUndo + 1
        BY <1>1, <2>1
      <3> QED
        BY <3>1, <3>2 DEF History!Newest
    <2>2. CASE Len(p) > MaxUndo
      <3>1. Len(p) = MaxUndo + 1
        BY <1>1, <2>2
      <3>2. v = Tail(p)
        BY <2>2, <3>1, <1>1 DEF Capped
      <3>3. Append(p, c) \in Seq(Version) /\ Len(Append(p, c)) = MaxUndo + 2
        BY <1>1, <3>1
      <3>4. History!Newest(Append(p, c), MaxUndo + 1) = SubSeq(Append(p, c), 2, MaxUndo + 2)
        BY <3>3 DEF History!Newest
      <3>5. SubSeq(Append(p, c), 2, MaxUndo + 2) = Append(Tail(p), c)
        BY <1>1, <3>1, <3>3
      <3> QED
        BY <3>2, <3>4, <3>5
    <2> QED
      BY <1>1, <2>1, <2>2
  <1>4. Line(v, c, <<>>) = Append(v, c)
    BY <1>2, LineEnds
  <1>5. SubSeq(Line(u, x, r), 1, Len(u) + 1) = p
    BY LinePast DEF p
  <1>6. Append(v, c) \in Seq(Version) /\ Len(Append(v, c)) = Len(v) + 1
    BY <1>2, AppendProperties
  <1> HIDE DEF v
  <1>7. Line(v, c, <<>>) = History!Newest(Append(SubSeq(Line(u, x, r), 1, Len(u) + 1), c), MaxUndo + 1)
    BY <1>3, <1>4, <1>5
  <1> QED
    BY <1>4, <1>6, <1>7 DEF v, p

(* What TypeOK says of the parts of the line.                              *)
LEMMA Parts ==
  ASSUME TypeOK
  PROVE  /\ undo \in Seq(Version) /\ redo \in Seq(Version) /\ raw \in Version
         /\ Shape(Versions, undo, raw, redo)
         /\ Versions = Line(undo, raw, redo)
         /\ Len(undo) \in Nat /\ Len(redo) \in Nat
         /\ Versions[Len(undo) + 1] = raw
  <1>1. undo \in Seq(Version) /\ redo \in Seq(Version) /\ raw \in Version
    BY DEF TypeOK, Version
  <1>2. Versions = Line(undo, raw, redo)
    BY DEF Versions, Line
  <1>3. Shape(Versions, undo, raw, redo)
    BY <1>1, <1>2, LineShape
  <1> QED
    BY <1>1, <1>2, <1>3 DEF Shape

LEMMA Single == ASSUME NEW x \in Version PROVE Line(<<>>, x, <<>>) = <<x>>
  <1>1. <<>> \in Seq(Version) /\ Append(<<>>, x) = <<x>>
    OBVIOUS
  <1> QED
    BY <1>1, LineEnds

LEMMA RefinesInit == Init => History!Init
  <1> SUFFICES ASSUME Init PROVE History!Init
    OBVIOUS
  <1>1. Versions = <<Nothing>>
    BY Single DEF Init, Versions, Line, Version
  <1> QED
    BY <1>1 DEF Init, History!Init

LEMMA RefinesOpen == ASSUME TypeOK, TypeOK', OpenDocument PROVE History!Open
  <1>1. undo = <<>> /\ undo' = <<>> /\ redo' = <<>> /\ raw = Nothing
    BY DEF OpenDocument, IsOpen, TypeOK
  <1>2. Versions[Len(undo) + 1] = Nothing
    BY <1>1, Parts
  <1>3. Versions' = <<raw'>>
    BY <1>1, Single DEF Versions, Line, TypeOK, Version
  <1> QED
    BY <1>1, <1>2, <1>3 DEF OpenDocument, History!Open, History!Present

LEMMA RefinesClose == ASSUME TypeOK, TypeOK', CloseDocument PROVE History!Close
  <1>1. undo' = <<>> /\ redo' = <<>> /\ raw' = Nothing /\ raw # Nothing
    BY DEF CloseDocument, IsOpen
  <1>2. Versions[Len(undo) + 1] # Nothing
    BY <1>1, Parts
  <1>3. Versions' = <<Nothing>>
    BY <1>1, Single DEF Versions, Line, Version
  <1> QED
    BY <1>1, <1>2, <1>3 DEF CloseDocument, History!Close, History!Present

LEMMA RefinesEdit == ASSUME TypeOK, TypeOK', Edit \/ EditFails PROVE History!Commit
  <1>1. /\ raw # Nothing /\ raw' \in Contents /\ raw' \in Version
        /\ undo' = Capped(Append(undo, raw)) /\ redo' = <<>>
        /\ UNCHANGED <<saved, file>>
    BY DEF Edit, EditFails, PushUndo, IsOpen, TypeOK, Version
  <1>2. Versions[Len(undo) + 1] = raw /\ Versions = Line(undo, raw, redo)
    BY Parts
  <1>3. Versions' = Line(Capped(Append(undo, raw)), raw', <<>>)
    BY <1>1 DEF Versions, Line
  <1>4. Len(undo) <= MaxUndo
    BY Parts DEF TypeOK
  <1>5. /\ Versions' = History!Newest(Append(SubSeq(Versions, 1, Len(undo) + 1), raw'), MaxUndo + 1)
        /\ Len(undo') + 1 = Len(Versions')
    BY <1>1, <1>2, <1>3, <1>4, LineCommit, Parts
  <1>6. Versions'[Len(undo') + 1] = raw'
    <2>1. undo' \in Seq(Version) /\ redo' \in Seq(Version)
      BY DEF TypeOK, Version
    <2>2. Versions' = Line(undo', raw', redo')
      BY DEF Versions, Line
    <2>3. Shape(Versions', undo', raw', redo')
      BY <1>1, <2>1, <2>2, LineShape
    <2> QED
      BY <2>3 DEF Shape
  <1>7. IF raw' = raw THEN doc' \in {doc, raw'}
                      ELSE doc' = IF raw' \in Reloadable THEN raw' ELSE doc
    BY DEF Edit, EditFails, Reload
  <1> QED
    BY <1>1, <1>2, <1>5, <1>6, <1>7 DEF History!Commit, History!Present, History!Show

LEMMA RefinesUndo == ASSUME TypeOK, TypeOK', Undo PROVE History!Undo
  <1>1. /\ undo # <<>> /\ redo' = Append(redo, raw)
        /\ raw' = Last(undo) /\ undo' = Front(undo)
        /\ doc' = (IF raw' \in Reloadable THEN raw' ELSE doc)
        /\ UNCHANGED <<saved, file>>
    BY DEF Undo, Reload
  <1>2. /\ undo' \in Seq(Version) /\ redo' \in Seq(Version) /\ raw' \in Version
        /\ Len(undo') = Len(undo) - 1 /\ raw' = undo[Len(undo)]
        /\ \A i \in 1 .. Len(undo') : undo[i] = undo'[i]
    <2>1. /\ undo \in Seq(Contents)
          /\ undo' \in Seq(Version) /\ redo' \in Seq(Version) /\ raw' \in Version
      BY DEF TypeOK, Version
    <2>2. /\ Len(undo') = Len(undo) - 1
          /\ \A i \in 1 .. Len(undo) - 1 : undo'[i] = undo[i]
      BY <1>1, <2>1, Pop
    <2> QED
      BY <1>1, <2>1, <2>2 DEF Last
  <1>3. /\ Len(redo') = Len(redo) + 1 /\ redo'[Len(redo) + 1] = raw
        /\ \A i \in 1 .. Len(redo) : redo'[i] = redo[i]
    BY <1>1, Parts, AppendProperties
  <1>4. Len(undo) = Len(undo') + 1 /\ undo[Len(undo') + 1] = raw'
    BY <1>2, Parts
  <1>5. Line(undo', raw', redo') = Line(undo, raw, redo)
    <2>1. undo \in Seq(Version) /\ redo \in Seq(Version) /\ raw \in Version
      BY Parts
    <2>2. Extends(undo, undo', raw') /\ Extends(redo', redo, raw)
      BY <1>2, <1>3, <1>4, <2>1 DEF Extends
    <2> QED
      BY <1>2, <2>1, <2>2, LineShift
  <1>6. Versions' = Versions
    BY <1>5 DEF Versions, Line
  <1>7. Shape(Versions, undo, raw, redo)
    BY Parts
  <1>8. Len(undo) \in 1 .. Len(Versions) /\ Versions[Len(undo)] = raw'
    BY <1>2, <1>4, <1>7, Parts DEF Shape
  <1> QED
    BY <1>1, <1>4, <1>6, <1>8, Parts DEF History!Undo, History!Move, History!Show, History!Present

LEMMA RefinesRedo == ASSUME TypeOK, TypeOK', Redo PROVE History!Redo
  <1>1. /\ redo # <<>> /\ undo' = Append(undo, raw)
        /\ raw' = Last(redo) /\ redo' = Front(redo)
        /\ doc' = (IF raw' \in Reloadable THEN raw' ELSE doc)
        /\ UNCHANGED <<saved, file>>
    BY DEF Redo, Reload
  <1>2. /\ undo' \in Seq(Version) /\ redo' \in Seq(Version) /\ raw' \in Version
        /\ Len(redo') = Len(redo) - 1 /\ raw' = redo[Len(redo)]
        /\ \A i \in 1 .. Len(redo') : redo[i] = redo'[i]
    <2>1. /\ redo \in Seq(Contents)
          /\ redo' \in Seq(Version) /\ undo' \in Seq(Version) /\ raw' \in Version
      BY DEF TypeOK, Version
    <2>2. /\ Len(redo') = Len(redo) - 1
          /\ \A i \in 1 .. Len(redo) - 1 : redo'[i] = redo[i]
      BY <1>1, <2>1, Pop
    <2> QED
      BY <1>1, <2>1, <2>2 DEF Last
  <1>3. /\ Len(undo') = Len(undo) + 1 /\ undo'[Len(undo) + 1] = raw
        /\ \A i \in 1 .. Len(undo) : undo'[i] = undo[i]
    BY <1>1, Parts, AppendProperties
  <1>4. Len(redo) = Len(redo') + 1 /\ redo[Len(redo') + 1] = raw'
    BY <1>2, Parts
  <1>5. Line(undo, raw, redo) = Line(undo', raw', redo')
    <2>1. undo \in Seq(Version) /\ redo \in Seq(Version) /\ raw \in Version
      BY Parts
    <2>2. Extends(undo', undo, raw) /\ Extends(redo, redo', raw')
      BY <1>2, <1>3, <1>4, <2>1 DEF Extends
    <2> QED
      BY <1>2, <2>1, <2>2, LineShift
  <1>6. Versions' = Versions
    BY <1>5 DEF Versions, Line
  <1>7. Shape(Versions', undo', raw', redo')
    BY <1>2, LineShape DEF Versions, Line
  <1>8. Len(undo') + 1 \in 1 .. Len(Versions) /\ Versions'[Len(undo') + 1] = raw'
    BY <1>2, <1>6, <1>7 DEF Shape
  <1> QED
    BY <1>1, <1>3, <1>6, <1>8, Parts DEF History!Redo, History!Move, History!Show, History!Present

LEMMA RefinesSave == ASSUME TypeOK, SaveDocument PROVE History!Save
  <1>1. Versions' = Versions /\ Versions[Len(undo) + 1] = raw
    BY Parts DEF SaveDocument, Versions
  <1> QED
    BY <1>1 DEF SaveDocument, IsOpen, History!Save, History!Present

LEMMA RefinesSaveAs == ASSUME TypeOK, SaveDocumentAs PROVE History!SaveCopy
  <1>1. Versions' = Versions /\ Versions[Len(undo) + 1] = raw
    BY Parts DEF SaveDocumentAs, Versions
  <1> QED
    BY <1>1 DEF SaveDocumentAs, IsOpen, History!SaveCopy, History!Present

(* The two stacks of OpenDocument are a line of versions with a cursor:    *)
(* undo and redo change no version, and an edit drops only what is ahead   *)
(* of it or too old (state.rs:30-45, commands.rs:404-700).                 *)
THEOREM EditImplementsVersionLine == Spec => HistorySpec
  <1>1. Init => History!Init
    BY RefinesInit
  <1>2. TypeOK /\ TypeOK' /\ [Next]_vars => [History!Next]_(History!vars)
    <2> SUFFICES ASSUME TypeOK, TypeOK', [Next]_vars
                 PROVE  [History!Next]_(History!vars)
      OBVIOUS
    <2>1. ASSUME Next PROVE History!Next
      BY <2>1, RefinesOpen, RefinesClose, RefinesEdit, RefinesUndo, RefinesRedo, RefinesSave,
         RefinesSaveAs
         DEF Next, History!Next
    <2>2. ASSUME UNCHANGED vars PROVE UNCHANGED History!vars
      BY <2>2 DEF vars, History!vars, Versions
    <2> QED
      BY <2>1, <2>2
  <1> QED
    BY <1>1, <1>2, EditTypes, PTL DEF Spec, HistorySpec, History!Spec
=============================================================================
