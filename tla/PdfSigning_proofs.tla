-------------------------- MODULE PdfSigning_proofs ---------------------------
(***************************************************************************)
(* Proofs about PdfSigning, for any layouts of the original and any number *)
(* of signatures and revisions: type correctness, that the newest cell of  *)
(* every object is found, that a validation store names a signature of the *)
(* file, what becomes of the lists of a document, and that signing         *)
(* implements SignedHistory.                                               *)
(*                                                                         *)
(* A document is made of pieces.  SaveTo writes a Piece, which says where  *)
(* each object of a revision stands; Rebase shifts it; and Appended says   *)
(* what a file and a piece behind it load to, since the links of a longer  *)
(* file below its last table are those of the shorter one (Link, Follows). *)
(* A new signature is found by its zeros: it is the last object but one    *)
(* that is added, and no other signature of a file waits (Placeholder).    *)
(* The invariant says of every file that it is sound: its cells are those  *)
(* of whole revisions, its tables lead to each object, and its objects     *)
(* have the shapes that the handlers rely on (Sound); and that its lists   *)
(* are lists, its fields lead to signatures (Linked), and each of its      *)
(* signatures covers what it was made over or is told apart from it by its *)
(* page (Told), since each signing puts another field on the page and so   *)
(* into what it covers.                                                    *)
(***************************************************************************)
EXTENDS PdfSigning, FiniteSetTheorems, FunctionTheorems, SequenceTheorems,
        TLAPS

-----------------------------------------------------------------------------
(* A set that is ordered by Ahead is written from front to back: the       *)
(* position of a slot is the number of slots ahead of it, and every number *)
(* below the size of the set is the position of one slot.                  *)
IsSlots(S) == IsFiniteSet(S) /\ S \subseteq Nat \X {1, 2}

(* Ahead is a strict total order on slots.                                 *)
LEMMA AheadOrders ==
  ASSUME NEW S, IsSlots(S)
  PROVE  /\ \A s \in S : ~Ahead(s, s)
         /\ \A s, t \in S : s # t => Ahead(s, t) \/ Ahead(t, s)
         /\ \A s, t, u \in S : Ahead(s, t) /\ Ahead(t, u) => Ahead(s, u)
  <1>1. \A s \in S : s[1] \in Nat /\ s[2] \in {1, 2} /\ s = <<s[1], s[2]>>
    BY DEF IsSlots
  <1>2. \A s, t \in S : s # t => s[1] # t[1] \/ s[2] # t[2]
    BY <1>1
  <1> QED
    BY <1>1, <1>2 DEF Ahead

(* A slot ahead of another has the lower position.                         *)
LEMMA PositionOrders ==
  ASSUME NEW S, IsSlots(S), NEW s \in S, NEW t \in S, Ahead(s, t)
  PROVE  Position(S, s) < Position(S, t)
  <1> DEFINE A == {u \in S : Ahead(u, s)}
             B == {u \in S : Ahead(u, t)}
  <1>1. A \subseteq B /\ s \in B /\ s \notin A
    BY AheadOrders
  <1>2. IsFiniteSet(S) /\ A \subseteq S /\ B \subseteq S
    BY DEF IsSlots
  <1> HIDE DEF A, B
  <1>3. IsFiniteSet(A) /\ IsFiniteSet(B)
    BY <1>2, FS_Subset
  <1>4. Cardinality(A) < Cardinality(B)
    BY <1>1, <1>3, FS_Subset, FS_CardinalityType
  <1> QED
    BY <1>4 DEF Position, A, B

(* A position is below the number of slots.                                *)
LEMMA PositionBound ==
  ASSUME NEW S, IsSlots(S), NEW s \in S
  PROVE  Position(S, s) \in 0 .. Cardinality(S) - 1
  <1> DEFINE A == {u \in S : Ahead(u, s)}
  <1>1. IsFiniteSet(S) /\ A \subseteq S /\ s \in S /\ s \notin A
    BY AheadOrders DEF IsSlots
  <1> HIDE DEF A
  <1>2. /\ IsFiniteSet(A) /\ Cardinality(A) \in Nat /\ Cardinality(S) \in Nat
        /\ Cardinality(A) < Cardinality(S)
    BY <1>1, FS_Subset, FS_CardinalityType
  <1> QED
    BY <1>2 DEF Position, A

(* Every number below the number of slots is a position.                   *)
LEMMA PositionTaken ==
  ASSUME NEW S, IsSlots(S), NEW i \in 0 .. Cardinality(S) - 1
  PROVE  \E s \in S : Position(S, s) = i
  <1> DEFINE n == Cardinality(S)
             f == [s \in S |-> Position(S, s)]
  <1>1. n \in Nat /\ IsFiniteSet(S)
    BY FS_CardinalityType DEF IsSlots
  <1>2. f \in [S -> 0 .. n - 1]
    BY PositionBound
  <1>3. \A s, t \in S : f[s] = f[t] => s = t
    <2>1. \A s, t \in S : s # t => Ahead(s, t) \/ Ahead(t, s)
      BY AheadOrders
    <2>2. \A s, t \in S : Ahead(s, t) => Position(S, s) < Position(S, t)
      BY PositionOrders
    <2>3. \A s \in S : Position(S, s) \in 0 .. n - 1
      BY PositionBound
    <2> QED
      BY <1>1, <2>1, <2>2, <2>3
  <1>4. f \in Injection(S, 0 .. n - 1)
    BY <1>2, <1>3 DEF Injection, IsInjective
  <1>5. IsFiniteSet(0 .. n - 1) /\ Cardinality(0 .. n - 1) = n
    BY <1>1, FS_Interval
  <1>6. f \in Surjection(S, 0 .. n - 1)
    BY <1>4, <1>5, FS_Injection
  <1> QED
    BY <1>6 DEF Surjection

(* A finite set of numbers has a greatest one: the last of its slots.      *)
LEMMA MaxIs ==
  ASSUME NEW S, IsFiniteSet(S), S \subseteq Nat, S # {}
  PROVE  Max(S) \in S /\ \A m \in S : Max(S) >= m
  <1> DEFINE T == S \X {1}
             n == Cardinality(T)
  <1>1. IsSlots(T)
    <2>1. IsFiniteSet(T)
      BY FS_Product, FS_Singleton
    <2>2. T \subseteq Nat \X {1, 2}
      OBVIOUS
    <2> HIDE DEF T
    <2> QED
      BY <2>1, <2>2 DEF IsSlots
  <1>2. n \in Nat /\ n # 0
    <2>1. PICK m \in S : <<m, 1>> \in T
      OBVIOUS
    <2> HIDE DEF T
    <2> QED
      BY <1>1, <2>1, FS_CardinalityType, FS_EmptySet DEF IsSlots
  <1>3. PICK s \in T : Position(T, s) = n - 1
    <2> HIDE DEF T
    <2> QED
      BY <1>1, <1>2, PositionTaken
  <1>4. \A t \in T : ~Ahead(s, t)
    <2> HIDE DEF T
    <2>1. SUFFICES ASSUME NEW t \in T, Ahead(s, t) PROVE FALSE
      OBVIOUS
    <2>2. Position(T, t) \in 0 .. n - 1 /\ Position(T, s) < Position(T, t)
      BY <1>1, <2>1, PositionBound, PositionOrders
    <2> QED
      BY <1>2, <1>3, <2>2
  <1>5. \A m \in S : s[1] >= m
    <2>1. s[1] \in Nat
      OBVIOUS
    <2>2. ASSUME NEW m \in S PROVE ~(s[1] < m)
      <3>1. <<m, 1>> \in T /\ <<m, 1>>[1] = m
        OBVIOUS
      <3> HIDE DEF T
      <3> QED
        BY <1>4, <3>1 DEF Ahead
    <2>3. \A m \in S : m \in Nat
      OBVIOUS
    <2> QED
      BY <2>1, <2>2, <2>3
  <1>6. \E x \in S : \A m \in S : x >= m
    BY <1>5
  <1> QED
    BY <1>6 DEF Max

-----------------------------------------------------------------------------
(* Sequences of cells.                                                     *)

IsSeq(f) == f \in Seq(Range(f))

(* A sequence of anything is a sequence of its own cells.                  *)
LEMMA SeqIs ==
  ASSUME NEW S, NEW f \in Seq(S)
  PROVE  IsSeq(f)
  <1>1. \E n \in Nat : f \in [1 .. n -> S]
    BY SeqDef
  <1>2. PICK n \in Nat : f \in [1 .. n -> Range(f)]
    BY <1>1 DEF Range
  <1> QED
    BY <1>2, SeqDef DEF IsSeq

(* A sequence is the function of its positions.                            *)
LEMMA SeqFacts ==
  ASSUME NEW f, IsSeq(f)
  PROVE  /\ Len(f) \in Nat /\ DOMAIN f = 1 .. Len(f)
         /\ f = [i \in 1 .. Len(f) |-> f[i]]
  BY LenProperties DEF IsSeq

(* A function on 1 .. n is a sequence of length n.                         *)
LEMMA MakeSeq ==
  ASSUME NEW n \in Nat, NEW f, f = [i \in 1 .. n |-> f[i]]
  PROVE  IsSeq(f) /\ Len(f) = n
  <1>1. f \in [1 .. n -> Range(f)]
    BY DEF Range
  <1>2. f \in Seq(Range(f))
    BY <1>1, SeqDef
  <1> QED
    BY <1>1, <1>2, LenProperties DEF IsSeq

(* Sequences with the same cells are the same.                             *)
LEMMA SameSeq ==
  ASSUME NEW s, NEW t, IsSeq(s), IsSeq(t), Len(s) = Len(t),
         \A i \in 1 .. Len(s) : s[i] = t[i]
  PROVE  s = t
  <1>1. /\ s = [i \in 1 .. Len(s) |-> s[i]]
        /\ t = [i \in 1 .. Len(s) |-> t[i]]
    BY SeqFacts
  <1> QED
    BY <1>1

(* The cells of a concatenation.                                           *)
LEMMA Joined ==
  ASSUME NEW f, NEW g, IsSeq(f), IsSeq(g)
  PROVE  /\ IsSeq(f \o g) /\ Len(f \o g) = Len(f) + Len(g)
         /\ \A i \in 1 .. Len(f) : (f \o g)[i] = f[i]
         /\ \A i \in 1 .. Len(g) : (f \o g)[Len(f) + i] = g[i]
         /\ \A i \in Len(f) + 1 .. Len(f) + Len(g) : (f \o g)[i] = g[i - Len(f)]
  <1> DEFINE S == Range(f) \cup Range(g)
  <1>1. f \in Seq(S) /\ g \in Seq(S)
    BY SeqMonotonic DEF IsSeq
  <1> HIDE DEF S
  <1>2. f \o g \in Seq(S)
    BY <1>1, ConcatProperties
  <1>3. Len(f) \in Nat /\ Len(g) \in Nat
    BY SeqFacts
  <1>4. /\ Len(f \o g) = Len(f) + Len(g)
        /\ \A i \in 1 .. Len(f) + Len(g) :
             (f \o g)[i] = IF i <= Len(f) THEN f[i] ELSE g[i - Len(f)]
    BY <1>1, ConcatProperties
  <1>5. IsSeq(f \o g)
    BY <1>2, SeqIs
  <1> DEFINE a == Len(f)
             b == Len(g)
             h == f \o g
  <1>6. /\ a \in Nat /\ b \in Nat /\ IsSeq(h) /\ Len(h) = a + b
        /\ \A i \in 1 .. a + b : h[i] = IF i <= a THEN f[i] ELSE g[i - a]
    BY <1>3, <1>4, <1>5
  <1> HIDE DEF a, b, h
  <1>7. \A i \in 1 .. a : h[i] = f[i]
    BY <1>6
  <1>8. \A i \in a + 1 .. a + b : h[i] = g[i - a]
    BY <1>6
  <1>9. \A i \in 1 .. b : h[a + i] = g[i]
    <2>1. SUFFICES ASSUME NEW i \in 1 .. b PROVE h[a + i] = g[i]
      OBVIOUS
    <2>2. PICK j \in a + 1 .. a + b : j = a + i /\ j - a = i
      BY <1>6
    <2> QED
      BY <1>8, <2>2
  <1> QED
    BY <1>6, <1>7, <1>8, <1>9 DEF a, b, h

-----------------------------------------------------------------------------
(* What a reader finds of the objects that SaveTo wrote.                   *)

ObjMap(o) ==
  /\ o = [id \in DOMAIN o |-> o[id]]
  /\ IsFiniteSet(DOMAIN o) /\ DOMAIN o \subseteq Nat \ {0}
  /\ \A id \in DOMAIN o :
       IsSig(o[id]) => o[id] = [range |-> o[id].range, cms |-> o[id].cms]

Holds(p, at, id, v) ==
  IF IsSig(v) THEN /\ p[at + 1] = [k |-> "range", id |-> id, range |-> v.range]
                   /\ p[at + 2] = [k |-> "contents", id |-> id, cms |-> v.cms]
              ELSE p[at + 1] = [k |-> "object", id |-> id, v |-> v]

(* The n cells of p hold the objects o, behind them come the table and the *)
(* startxref, and offsets count from base cells before p.                  *)
Framed(p, n, base, o, prev) ==
  /\ n \in Nat /\ base \in Nat /\ IsSeq(p) /\ Len(p) = n + 2
  /\ p[n + 1] = [k |-> "xref", prev |-> prev, entries |-> p[n + 1].entries]
  /\ p[n + 1].entries = [id \in DOMAIN o |-> p[n + 1].entries[id]]
  /\ p[n + 2] = [k |-> "startxref", at |-> base + n]

Found(p, n, base, o) ==
  \A id \in DOMAIN o :
    \E at \in 0 .. n - 1 : /\ p[n + 1].entries[id] = base + at
                           /\ Holds(p, at, id, o[id])
                           /\ IsSig(o[id]) => at + 1 \in 0 .. n - 1

Filled(p, n, base, o) ==
  \A i \in 1 .. n :
    /\ p[i].k \in {"object", "range", "contents"} /\ p[i].id \in DOMAIN o
    /\ p[i].k # "object" <=> IsSig(o[p[i].id])
    /\ base + i = p[n + 1].entries[p[i].id] + (IF p[i].k = "contents" THEN 2 ELSE 1)

InOrder(p, n, o) ==
  \A a, b \in DOMAIN o : a < b => p[n + 1].entries[a] < p[n + 1].entries[b]

Piece(p, n, base, o, prev) ==
  Framed(p, n, base, o, prev) /\ Found(p, n, base, o) /\ Filled(p, n, base, o)
  /\ InOrder(p, n, o)

(* The slots of a map of objects: one for each, and two for a signature.   *)
LEMMA SlotsAre ==
  ASSUME NEW o, ObjMap(o)
  PROVE  /\ IsSlots(Slots(o))
         /\ \A id \in DOMAIN o : <<id, 1>> \in Slots(o)
         /\ \A id \in DOMAIN o : <<id, 2>> \in Slots(o) <=> IsSig(o[id])
  <1> DEFINE T == (DOMAIN o) \X {1, 2}
  <1>1. IsFiniteSet(T)
    <2>1. IsFiniteSet({1, 2})
      <3>1. IsFiniteSet({1})
        BY FS_Singleton
      <3>2. IsFiniteSet({1} \cup {2})
        BY <3>1, FS_AddElement
      <3>3. {1, 2} = {1} \cup {2}
        OBVIOUS
      <3> QED
        BY <3>2, <3>3
    <2> QED
      BY <2>1, FS_Product DEF ObjMap
  <1>2. Slots(o) \in SUBSET T /\ T \subseteq Nat \X {1, 2}
    BY DEF Slots, ObjMap
  <1>3. IsSlots(Slots(o))
    <2> HIDE DEF T
    <2> QED
      BY <1>1, <1>2, FS_Subset DEF IsSlots
  <1> QED
    BY <1>3 DEF Slots

(* What a slot of a document is.                                           *)
LEMMA SlotIs ==
  ASSUME NEW o, ObjMap(o), NEW s \in Slots(o)
  PROVE  /\ s[1] \in DOMAIN o /\ s = <<s[1], s[2]>>
         /\ s[2] = 1 \/ (s[2] = 2 /\ IsSig(o[s[1]]))
  BY DEF Slots

(* No two slots have one position.                                         *)
LEMMA PositionSame ==
  ASSUME NEW S, IsSlots(S), NEW s \in S, NEW t \in S, Position(S, s) = Position(S, t)
  PROVE  s = t
  <1>1. s # t => Ahead(s, t) \/ Ahead(t, s)
    BY AheadOrders
  <1>2. Position(S, s) \in 0 .. Cardinality(S) - 1
    BY PositionBound
  <1>3. Cardinality(S) \in Nat
    BY FS_CardinalityType DEF IsSlots
  <1> QED
    BY <1>1, <1>2, <1>3, PositionOrders

(* The two cells of a signature stand next to each other.                  *)
LEMMA PositionNext ==
  ASSUME NEW S, IsSlots(S), NEW id, <<id, 1>> \in S, <<id, 2>> \in S
  PROVE  Position(S, <<id, 2>>) = Position(S, <<id, 1>>) + 1
  <1> DEFINE s == <<id, 1>>
             A == {t \in S : Ahead(t, s)}
             B == {t \in S : Ahead(t, <<id, 2>>)}
  <1>1. \A t \in S : Ahead(t, <<id, 2>>) <=> Ahead(t, s) \/ t = s
    <2>1. \A t \in S : t[1] \in Nat /\ t[2] \in {1, 2} /\ t = <<t[1], t[2]>>
      BY DEF IsSlots
    <2>2. id \in Nat
      BY DEF IsSlots
    <2> QED
      BY <2>1, <2>2 DEF Ahead
  <1>2. B = A \cup {s} /\ s \notin A /\ A \subseteq S
    BY <1>1, AheadOrders
  <1> HIDE DEF s, A, B
  <1>3. IsFiniteSet(A)
    BY <1>2, FS_Subset DEF IsSlots
  <1>4. Cardinality(B) = Cardinality(A) + 1
    BY <1>2, <1>3, FS_AddElement
  <1> QED
    BY <1>4 DEF Position, A, B, s

(* The cell of a slot stands at the position of the slot.                  *)
LEMMA BodyIs ==
  ASSUME NEW o, ObjMap(o)
  PROVE  /\ IsSeq(Body(o)) /\ Len(Body(o)) = Cardinality(Slots(o))
         /\ \A s \in Slots(o) :
              Body(o)[Position(Slots(o), s) + 1] = CellOf(s[1], s[2], o[s[1]])
  <1> DEFINE S == Slots(o)
             n == Cardinality(S)
             b == Body(o)
  <1>1. IsSlots(S)
    BY SlotsAre
  <1>2. n \in Nat
    BY <1>1, FS_CardinalityType DEF IsSlots
  <1>3. b = [i \in 1 .. n |->
               LET s == CHOOSE t \in S : [u \in S |-> Position(S, u)][t] = i - 1
               IN  CellOf(s[1], s[2], o[s[1]])]
    BY DEF Body
  <1>4. IsSeq(b) /\ Len(b) = n
    <2>1. b = [i \in 1 .. n |-> b[i]]
      BY <1>3
    <2> HIDE DEF b, n
    <2> QED
      BY <1>2, <2>1, MakeSeq
  <1>5. ASSUME NEW s \in S
        PROVE  b[Position(S, s) + 1] = CellOf(s[1], s[2], o[s[1]])
    <2> DEFINE i == Position(S, s) + 1
    <2>1. i \in 1 .. n /\ i - 1 = Position(S, s)
      BY <1>1, <1>2, PositionBound
    <2>2. (CHOOSE t \in S : [u \in S |-> Position(S, u)][t] = i - 1) = s
      <3> HIDE DEF S
      <3>1. \A t \in S : [u \in S |-> Position(S, u)][t] = i - 1 <=> t = s
        BY <1>1, <2>1, PositionSame
      <3> QED
        BY <3>1
    <2> HIDE DEF i, S, n
    <2>3. b[i] = CellOf(s[1], s[2], o[s[1]])
      BY <1>3, <2>1, <2>2
    <2> QED
      BY <2>3 DEF i
  <1> QED
    BY <1>4, <1>5

(* Where SaveTo puts the cells of an object.                               *)
LEMMA SavedCells ==
  ASSUME NEW o, NEW prev, ObjMap(o)
  PROVE  LET S == Slots(o)
             n == Cardinality(S)
             p == SaveTo(o, prev)
         IN  /\ n \in Nat /\ IsSeq(p) /\ Len(p) = n + 2
             /\ \A s \in S : /\ Position(S, s) \in 0 .. n - 1
                             /\ p[Position(S, s) + 1] = CellOf(s[1], s[2], o[s[1]])
             /\ p[n + 1] = [k |-> "xref", prev |-> prev,
                            entries |-> [id \in DOMAIN o |-> Position(S, <<id, 1>>)]]
             /\ p[n + 2] = [k |-> "startxref", at |-> n]
  <1> DEFINE S == Slots(o)
             n == Cardinality(S)
             b == Body(o)
             x == [k |-> "xref", prev |-> prev,
                   entries |-> [id \in DOMAIN o |-> Position(S, <<id, 1>>)]]
             y == [k |-> "startxref", at |-> n]
             p == b \o <<x, y>>
  <1>1. SaveTo(o, prev) = p
    BY DEF SaveTo
  <1>2. n \in Nat /\ IsSlots(S)
    BY SlotsAre, FS_CardinalityType DEF IsSlots
  <1>3. IsSeq(b) /\ Len(b) = n
    BY BodyIs
  <1> HIDE DEF x, y
  <1>4. IsSeq(<<x, y>>) /\ Len(<<x, y>>) = 2 /\ <<x, y>>[1] = x /\ <<x, y>>[2] = y
    <2>1. <<x, y>> \in Seq({x, y})
      OBVIOUS
    <2> QED
      BY <2>1, SeqIs
  <1>5. \A s \in S : /\ Position(S, s) \in 0 .. n - 1
                     /\ b[Position(S, s) + 1] = CellOf(s[1], s[2], o[s[1]])
    BY <1>2, BodyIs, PositionBound
  <1> DEFINE z == <<x, y>>
  <1> HIDE DEF b, n, S, z
  <1>6. /\ IsSeq(b \o z) /\ Len(b \o z) = n + 2
        /\ \A i \in 1 .. n : (b \o z)[i] = b[i]
        /\ \A i \in 1 .. 2 : (b \o z)[n + i] = z[i]
    BY <1>2, <1>3, <1>4, Joined DEF z
  <1>7. p = b \o z
    BY DEF z
  <1> HIDE DEF p
  <1>8. p[n + 1] = x /\ p[n + 2] = y
    <2>1. 1 \in 1 .. 2 /\ 2 \in 1 .. 2
      OBVIOUS
    <2>2. p[n + 1] = z[1] /\ p[n + 2] = z[2]
      BY <1>6, <1>7, <2>1
    <2> QED
      BY <1>4, <2>2 DEF z
  <1>9. \A s \in S : p[Position(S, s) + 1] = b[Position(S, s) + 1]
    <2>1. \A s \in S : Position(S, s) + 1 \in 1 .. n
      BY <1>2, <1>5
    <2> QED
      BY <1>6, <1>7, <2>1
  <1>10. IsSeq(p) /\ Len(p) = n + 2
    BY <1>6, <1>7
  <1> QED
    BY <1>1, <1>2, <1>5, <1>8, <1>9, <1>10 DEF n, S, x, y

(* What SaveTo writes is a piece that counts from its own first cell.      *)
LEMMA SavedPiece ==
  ASSUME NEW o, NEW prev, ObjMap(o)
  PROVE  Piece(SaveTo(o, prev), Cardinality(Slots(o)), 0, o, prev)
  <1> DEFINE S == Slots(o)
             n == Cardinality(S)
             p == SaveTo(o, prev)
             At(id, part) == Position(S, <<id, part>>)
  <1>1. /\ n \in Nat /\ IsSeq(p) /\ Len(p) = n + 2
        /\ \A s \in S : /\ Position(S, s) \in 0 .. n - 1
                        /\ p[Position(S, s) + 1] = CellOf(s[1], s[2], o[s[1]])
        /\ p[n + 1] = [k |-> "xref", prev |-> prev,
                       entries |-> [id \in DOMAIN o |-> At(id, 1)]]
        /\ p[n + 2] = [k |-> "startxref", at |-> n]
    BY SavedCells
  <1>2. /\ IsSlots(S)
        /\ \A id \in DOMAIN o : <<id, 1>> \in S
        /\ \A id \in DOMAIN o : <<id, 2>> \in S <=> IsSig(o[id])
    BY SlotsAre
  <1>3. \A id \in DOMAIN o : id \in Nat
    BY DEF ObjMap
  <1>4. \A id \in DOMAIN o : p[n + 1].entries[id] = At(id, 1)
    BY <1>1
  <1> HIDE DEF S, n, p
  <1>5. \A id \in DOMAIN o :
          /\ At(id, 1) \in 0 .. n - 1
          /\ p[At(id, 1) + 1] = CellOf(id, 1, o[id])
          /\ IsSig(o[id]) => /\ At(id, 2) = At(id, 1) + 1
                             /\ At(id, 2) \in 0 .. n - 1
                             /\ p[At(id, 2) + 1] = CellOf(id, 2, o[id])
    <2>1. \A id \in DOMAIN o : <<id, 1>>[1] = id /\ <<id, 1>>[2] = 1
                               /\ <<id, 2>>[1] = id /\ <<id, 2>>[2] = 2
      OBVIOUS
    <2> QED
      BY <1>1, <1>2, <2>1, PositionNext
  <1>6. Framed(p, n, 0, o, prev)
    BY <1>1 DEF Framed
  <1> HIDE DEF At
  <1>7. Found(p, n, 0, o)
    <2>1. SUFFICES ASSUME NEW id \in DOMAIN o
                   PROVE  /\ p[n + 1].entries[id] = 0 + At(id, 1)
                          /\ Holds(p, At(id, 1), id, o[id])
                          /\ IsSig(o[id]) => At(id, 1) + 1 \in 0 .. n - 1
      BY <1>5 DEF Found
    <2>2. p[n + 1].entries[id] = 0 + At(id, 1)
      BY <1>1, <1>4, <1>5
    <2>3. Holds(p, At(id, 1), id, o[id])
      <3>1. IsSig(o[id]) => p[At(id, 1) + 2] = CellOf(id, 2, o[id])
        BY <1>1, <1>5
      <3> QED
        BY <1>5, <3>1 DEF Holds, CellOf
    <2> QED
      BY <1>5, <2>2, <2>3
  <1>8. Filled(p, n, 0, o)
    <2>1. SUFFICES ASSUME NEW i \in 1 .. n
                   PROVE  /\ p[i].k \in {"object", "range", "contents"}
                          /\ p[i].id \in DOMAIN o
                          /\ p[i].k # "object" <=> IsSig(o[p[i].id])
                          /\ i = p[n + 1].entries[p[i].id]
                                 + (IF p[i].k = "contents" THEN 2 ELSE 1)
      BY DEF Filled
    <2>2. PICK s \in Slots(o) : Position(S, s) = i - 1
      <3>1. i - 1 \in 0 .. Cardinality(S) - 1
        BY <1>1 DEF n
      <3> QED
        BY <1>2, <3>1, PositionTaken DEF S
    <2>3. /\ s \in S /\ s[1] \in DOMAIN o /\ s = <<s[1], s[2]>>
          /\ s[2] = 1 \/ (s[2] = 2 /\ IsSig(o[s[1]]))
      BY SlotIs DEF S
    <2>4. p[i] = CellOf(s[1], s[2], o[s[1]]) /\ s[1] \in DOMAIN o
      <3>1. Position(S, s) + 1 = i
        BY <1>1, <2>2
      <3>2. p[Position(S, s) + 1] = CellOf(s[1], s[2], o[s[1]])
        BY <1>1, <2>3
      <3> QED
        BY <2>3, <3>1, <3>2
    <2>5. p[i].id = s[1] /\ (p[i].k = "contents" <=> s[2] = 2)
          /\ p[i].k \in {"object", "range", "contents"}
          /\ (p[i].k # "object" <=> IsSig(o[s[1]]))
      BY <2>3, <2>4 DEF CellOf
    <2>6. i = At(s[1], s[2]) + 1
      <3>1. At(s[1], s[2]) = Position(S, s)
        BY <2>3, Zenon DEF At
      <3> QED
        BY <1>1, <2>2, <3>1
    <2>7. i = At(s[1], 1) + (IF p[i].k = "contents" THEN 2 ELSE 1)
      <3>1. CASE s[2] = 1
        BY <2>5, <2>6, <3>1
      <3>2. CASE s[2] = 2
        BY <1>5, <2>3, <2>5, <2>6, <3>2
      <3> QED
        BY <2>3, <3>1, <3>2
    <2> QED
      BY <1>4, <2>4, <2>5, <2>7
  <1>9. InOrder(p, n, o)
    <2>1. SUFFICES ASSUME NEW a \in DOMAIN o, NEW b \in DOMAIN o, a < b
                   PROVE  At(a, 1) < At(b, 1)
      BY <1>4 DEF InOrder
    <2>2. Ahead(<<a, 1>>, <<b, 1>>)
      BY <2>1 DEF Ahead
    <2> QED
      BY <1>2, <2>2, PositionOrders DEF At
  <1> QED
    BY <1>6, <1>7, <1>8, <1>9 DEF Piece, n, p, S

(* Rebase makes it a piece that stands behind base cells.                  *)
LEMMA RebasedPiece ==
  ASSUME NEW p, NEW n, NEW base \in Nat, NEW o, NEW prev, Piece(p, n, 0, o, prev)
  PROVE  /\ Piece(Rebase(p, base), n, base, o, prev)
         /\ \A id \in DOMAIN o :
              Rebase(p, base)[n + 1].entries[id] = base + p[n + 1].entries[id]
  <1> DEFINE q == Rebase(p, base)
  <1>1. /\ n \in Nat /\ IsSeq(p) /\ Len(p) = n + 2
        /\ p[n + 1] = [k |-> "xref", prev |-> prev, entries |-> p[n + 1].entries]
        /\ p[n + 1].entries = [id \in DOMAIN o |-> p[n + 1].entries[id]]
        /\ p[n + 2] = [k |-> "startxref", at |-> n]
    BY DEF Piece, Framed
  <1>2. Found(p, n, 0, o) /\ Filled(p, n, 0, o) /\ InOrder(p, n, o)
    BY DEF Piece
  <1>3. DOMAIN p = 1 .. n + 2
    BY <1>1, SeqFacts
  <1>4. /\ q = [i \in 1 .. n + 2 |-> q[i]]
        /\ \A i \in 1 .. n + 2 :
             q[i] = CASE p[i].k = "xref" ->
                           [p[i] EXCEPT !.entries = [id \in DOMAIN @ |-> @[id] + base]]
                      [] p[i].k = "startxref" -> [p[i] EXCEPT !.at = @ + base]
                      [] OTHER -> p[i]
    BY <1>3 DEF Rebase
  <1> HIDE DEF q
  <1>5. \A i \in 1 .. n : q[i] = p[i]
    <2>1. \A i \in 1 .. n : i \in 1 .. n + 2 /\ p[i].k # "xref" /\ p[i].k # "startxref"
      BY <1>1, <1>2 DEF Filled
    <2> QED
      BY <1>4, <2>1
  <1>6. /\ q[n + 1] = [k |-> "xref", prev |-> prev, entries |-> q[n + 1].entries]
        /\ q[n + 1].entries = [id \in DOMAIN o |-> p[n + 1].entries[id] + base]
    <2>1. n + 1 \in 1 .. n + 2 /\ p[n + 1].k = "xref"
      BY <1>1
    <2>2. q[n + 1] = [p[n + 1] EXCEPT !.entries = [id \in DOMAIN @ |-> @[id] + base]]
      BY <1>4, <2>1
    <2> DEFINE e == p[n + 1].entries
    <2>3. p[n + 1] = [k |-> "xref", prev |-> prev, entries |-> e]
          /\ DOMAIN e = DOMAIN o
      BY <1>1
    <2> HIDE DEF e
    <2>4. q[n + 1] = [k |-> "xref", prev |-> prev,
                      entries |-> [id \in DOMAIN o |-> e[id] + base]]
      BY <2>2, <2>3
    <2> QED
      BY <2>4 DEF e
  <1>7. q[n + 2] = [k |-> "startxref", at |-> base + n]
    <2>1. n + 2 \in 1 .. n + 2 /\ p[n + 2].k = "startxref" /\ p[n + 2].at = n
      BY <1>1
    <2>2. q[n + 2] = [p[n + 2] EXCEPT !.at = @ + base]
      BY <1>4, <2>1
    <2> QED
      BY <1>1, <2>2
  <1>8. Framed(q, n, base, o, prev)
    <2>1. IsSeq(q) /\ Len(q) = n + 2
      BY <1>1, <1>4, MakeSeq
    <2> QED
      BY <1>1, <1>6, <1>7, <2>1 DEF Framed
  <1>9. \A id \in DOMAIN o :
          /\ p[n + 1].entries[id] \in Nat
          /\ q[n + 1].entries[id] = base + p[n + 1].entries[id]
    BY <1>1, <1>2, <1>6 DEF Found
  <1>10. Found(q, n, base, o)
    <2>1. SUFFICES ASSUME NEW id \in DOMAIN o
                   PROVE  \E at \in 0 .. n - 1 :
                            /\ q[n + 1].entries[id] = base + at
                            /\ Holds(q, at, id, o[id])
                            /\ IsSig(o[id]) => at + 1 \in 0 .. n - 1
      BY DEF Found
    <2>2. PICK at \in 0 .. n - 1 : /\ p[n + 1].entries[id] = 0 + at
                                   /\ Holds(p, at, id, o[id])
                                   /\ IsSig(o[id]) => at + 1 \in 0 .. n - 1
      BY <1>2 DEF Found
    <2>3. q[n + 1].entries[id] = base + at
      BY <1>9, <2>2
    <2>4. q[at + 1] = p[at + 1] /\ (IsSig(o[id]) => q[at + 2] = p[at + 2])
      <3>1. at + 1 \in 1 .. n /\ (IsSig(o[id]) => at + 2 \in 1 .. n)
        BY <1>1, <2>2
      <3> QED
        BY <1>5, <3>1
    <2>5. Holds(q, at, id, o[id])
      BY <2>2, <2>4 DEF Holds
    <2> QED
      BY <2>2, <2>3, <2>5
  <1>11. Filled(q, n, base, o)
    <2>1. SUFFICES ASSUME NEW i \in 1 .. n
                   PROVE  /\ p[i].k \in {"object", "range", "contents"}
                          /\ p[i].id \in DOMAIN o
                          /\ p[i].k # "object" <=> IsSig(o[p[i].id])
                          /\ base + i = q[n + 1].entries[p[i].id]
                                 + (IF p[i].k = "contents" THEN 2 ELSE 1)
      BY <1>5 DEF Filled
    <2>2. /\ p[i].k \in {"object", "range", "contents"}
          /\ p[i].id \in DOMAIN o
          /\ p[i].k # "object" <=> IsSig(o[p[i].id])
          /\ 0 + i = p[n + 1].entries[p[i].id]
                     + (IF p[i].k = "contents" THEN 2 ELSE 1)
      BY <1>2 DEF Filled
    <2> QED
      BY <1>1, <1>9, <2>2
  <1>12. InOrder(q, n, o)
    BY <1>2, <1>9 DEF InOrder
  <1> QED
    BY <1>8, <1>9, <1>10, <1>11, <1>12 DEF Piece, q

-----------------------------------------------------------------------------
(* Files: revisions, one behind the other.                                 *)

Kinds == {"object", "range", "contents", "xref", "startxref"}

Cellular(f) ==
  /\ IsSeq(f) /\ Len(f) # 0
  /\ f[Len(f)].k = "startxref" /\ XRefStart(f) \in 0 .. Len(f) - 1
  /\ f[XRefStart(f) + 1].k = "xref"
  /\ \A i \in 1 .. Len(f) :
       /\ f[i].k \in Kinds
       /\ f[i].k = "startxref" => i - 1 \in 1 .. Len(f) /\ f[i - 1].k = "xref"
       /\ f[i].k = "range" => /\ i + 1 \in 1 .. Len(f)
                              /\ f[i + 1].k = "contents" /\ f[i + 1].id = f[i].id
       /\ f[i].k = "contents" => /\ i - 1 \in 1 .. Len(f)
                                 /\ f[i - 1].k = "range" /\ f[i - 1].id = f[i].id
       /\ f[i].k = "object" => ~IsSig(f[i].v)
       /\ f[i].k = "xref" => f[i].prev = Nowhere \/ f[i].prev \in 0 .. i - 2

(* The function that Entries follows, table by table: there is one.        *)
Link(f, g, at) ==
  LET t == f[at + 1] IN
  IF t.k # "xref" THEN << >>
  ELSE IF t.prev = Nowhere THEN t.entries
  ELSE Hide(g[t.prev], t.entries)

IsFrom(f, g) == g = [at \in 0 .. Len(f) - 1 |-> Link(f, g, at)]

Follows(f) == \E g : IsFrom(f, g) /\ \A h : IsFrom(f, h) => h = g

(* Where there is one way to follow the links, Entries takes it.           *)
LEMMA EntriesAre ==
  ASSUME NEW f, NEW g, IsFrom(f, g), \A h : IsFrom(f, h) => h = g
  PROVE  Entries(f) = g[XRefStart(f)]
  <1>1. (CHOOSE h : IsFrom(f, h)) = g
    OBVIOUS
  <1> QED
    BY <1>1 DEF Entries, IsFrom, Link

(* Every object that a cell begins is found, where the last such cell is.  *)
Reaches(f, e) ==
  /\ e = [id \in DOMAIN e |-> e[id]]
  /\ IsFiniteSet(DOMAIN e) /\ DOMAIN e \subseteq Nat \ {0}
  /\ \A id \in DOMAIN e : e[id] \in 0 .. Len(f) - 1 /\ Begins(f[e[id] + 1], id)
  /\ \A i \in 1 .. Len(f) :
       f[i].k \in {"object", "range"} => f[i].id \in DOMAIN e /\ i <= e[f[i].id] + 1

Well(f) == Cellular(f) /\ Follows(f) /\ Reaches(f, Entries(f))

(* What LoadMem gives of a file that Entries reaches all of.               *)
LEMMA LoadIs ==
  ASSUME NEW f, Well(f)
  PROVE  LET e == Entries(f)
             o == LoadMem(f)
         IN  /\ DOMAIN o = DOMAIN e /\ o = [id \in DOMAIN e |-> ObjectAt(f, e[id])]
             /\ ObjMap(o)
             /\ \A id \in DOMAIN e : /\ e[id] \in 0 .. Len(f) - 1
                                     /\ f[e[id] + 1].id = id
                                     /\ IsSig(o[id]) => f[e[id] + 1].k = "range"
                                     /\ ~IsSig(o[id]) => f[e[id] + 1].k = "object"
  <1> DEFINE e == Entries(f)
             o == LoadMem(f)
  <1>1. Cellular(f) /\ Reaches(f, e)
    BY DEF Well
  <1>2. o = [id \in {i \in DOMAIN e : Begins(f[e[i] + 1], i)} |-> ObjectAt(f, e[id])]
    BY DEF LoadMem
  <1> HIDE DEF e, o
  <1>3. {i \in DOMAIN e : Begins(f[e[i] + 1], i)} = DOMAIN e
    BY <1>1 DEF Reaches
  <1>4. o = [id \in DOMAIN e |-> ObjectAt(f, e[id])]
    BY <1>2, <1>3
  <1>5. ASSUME NEW id \in DOMAIN e
        PROVE  /\ e[id] \in 0 .. Len(f) - 1 /\ f[e[id] + 1].id = id
               /\ IsSig(o[id]) => f[e[id] + 1].k = "range"
               /\ ~IsSig(o[id]) => f[e[id] + 1].k = "object"
               /\ IsSig(o[id]) => o[id] = [range |-> o[id].range, cms |-> o[id].cms]
    <2> DEFINE i == e[id] + 1
    <2>1. e[id] \in 0 .. Len(f) - 1 /\ Begins(f[i], id) /\ o[id] = ObjectAt(f, e[id])
      BY <1>1, <1>4 DEF Reaches
    <2>2. Len(f) \in Nat
      BY <1>1, SeqFacts DEF Cellular
    <2>3. i \in 1 .. Len(f) /\ i + 1 = e[id] + 2
      BY <2>1, <2>2
    <2>4. f[i].k \in {"object", "range"} /\ f[i].id = id
      BY <2>1 DEF Begins
    <2>5. o[id] = IF f[i].k = "range" THEN [range |-> f[i].range, cms |-> f[i + 1].cms]
                                      ELSE f[i].v
      BY <2>1, <2>3 DEF ObjectAt
    <2> HIDE DEF i
    <2>6. CASE f[i].k = "range"
      <3>1. IsSig(o[id])
        BY <2>5, <2>6 DEF IsSig
      <3> QED
        BY <2>1, <2>4, <2>5, <2>6, <3>1 DEF i
    <2>7. CASE f[i].k = "object"
      <3>1. ~IsSig(o[id])
        BY <1>1, <2>3, <2>5, <2>7 DEF Cellular
      <3> QED
        BY <2>1, <2>4, <2>7, <3>1 DEF i
    <2> QED
      BY <2>4, <2>6, <2>7
  <1>6. ObjMap(o)
    BY <1>1, <1>4, <1>5 DEF ObjMap, Reaches
  <1> QED
    BY <1>4, <1>5, <1>6 DEF e, o

(* How the cells of a piece stand to each other.                           *)
LEMMA PieceShape ==
  ASSUME NEW p, NEW n, NEW base, NEW o, NEW prev, Piece(p, n, base, o, prev)
  PROVE  /\ \A i \in 1 .. n :
              /\ p[i].k \in {"object", "range", "contents"} /\ p[i].id \in DOMAIN o
              /\ p[i].k = "range" => /\ i + 1 \in 1 .. n
                                     /\ p[i + 1].k = "contents" /\ p[i + 1].id = p[i].id
              /\ p[i].k = "contents" => /\ i - 1 \in 1 .. n
                                        /\ p[i - 1].k = "range" /\ p[i - 1].id = p[i].id
              /\ p[i].k = "object" => ~IsSig(p[i].v)
              /\ p[i].k # "contents" => i = p[n + 1].entries[p[i].id] - base + 1
         /\ \A id \in DOMAIN o :
              /\ p[n + 1].entries[id] - base \in 0 .. n - 1
              /\ p[n + 1].entries[id] \in Nat
              /\ Begins(p[p[n + 1].entries[id] - base + 1], id)
              /\ Holds(p, p[n + 1].entries[id] - base, id, o[id])
  <1> DEFINE e == p[n + 1].entries
  <1>1. n \in Nat /\ base \in Nat
    BY DEF Piece, Framed
  <1>2. \A id \in DOMAIN o :
          \E at \in 0 .. n - 1 : /\ e[id] = base + at
                                 /\ Holds(p, at, id, o[id])
                                 /\ IsSig(o[id]) => at + 1 \in 0 .. n - 1
    BY DEF Piece, Found
  <1>3. \A i \in 1 .. n :
          /\ p[i].k \in {"object", "range", "contents"} /\ p[i].id \in DOMAIN o
          /\ p[i].k # "object" <=> IsSig(o[p[i].id])
          /\ base + i = e[p[i].id] + (IF p[i].k = "contents" THEN 2 ELSE 1)
    BY DEF Piece, Filled
  <1> HIDE DEF e
  <1>4. \A id \in DOMAIN o :
          /\ e[id] - base \in 0 .. n - 1 /\ e[id] \in Nat
          /\ Holds(p, e[id] - base, id, o[id])
          /\ IsSig(o[id]) => e[id] - base + 1 \in 0 .. n - 1
    <2>1. SUFFICES ASSUME NEW id \in DOMAIN o
                   PROVE  /\ e[id] - base \in 0 .. n - 1 /\ e[id] \in Nat
                          /\ Holds(p, e[id] - base, id, o[id])
                          /\ IsSig(o[id]) => e[id] - base + 1 \in 0 .. n - 1
      OBVIOUS
    <2>2. PICK at \in 0 .. n - 1 : /\ e[id] = base + at
                                   /\ Holds(p, at, id, o[id])
                                   /\ IsSig(o[id]) => at + 1 \in 0 .. n - 1
      BY <1>2
    <2>3. e[id] - base = at
      BY <1>1, <2>2
    <2> QED
      BY <1>1, <2>2, <2>3
  <1>5. ASSUME NEW id \in DOMAIN o PROVE Begins(p[e[id] - base + 1], id)
    <2>1. Holds(p, e[id] - base, id, o[id])
      BY <1>4
    <2> DEFINE c == p[e[id] - base + 1]
    <2>2. \/ c = [k |-> "range", id |-> id, range |-> o[id].range]
          \/ c = [k |-> "object", id |-> id, v |-> o[id]]
      BY <2>1 DEF Holds
    <2> HIDE DEF c
    <2>3. Begins(c, id)
      BY <2>2 DEF Begins
    <2> QED
      BY <2>3 DEF c
  <1>6. ASSUME NEW i \in 1 .. n
        PROVE  /\ p[i].k = "range" => /\ i + 1 \in 1 .. n
                                      /\ p[i + 1].k = "contents" /\ p[i + 1].id = p[i].id
               /\ p[i].k = "contents" => /\ i - 1 \in 1 .. n
                                         /\ p[i - 1].k = "range" /\ p[i - 1].id = p[i].id
               /\ p[i].k = "object" => ~IsSig(p[i].v)
               /\ p[i].k # "contents" => i = e[p[i].id] - base + 1
    <2> DEFINE id == p[i].id
               at == e[id] - base
    <2>1. /\ id \in DOMAIN o /\ (p[i].k # "object" <=> IsSig(o[id]))
          /\ base + i = e[id] + (IF p[i].k = "contents" THEN 2 ELSE 1)
      BY <1>3
    <2>2. /\ at \in 0 .. n - 1 /\ e[id] \in Nat /\ Holds(p, at, id, o[id])
          /\ IsSig(o[id]) => at + 1 \in 0 .. n - 1
      BY <1>4, <2>1
    <2>3. IF p[i].k = "contents" THEN at = i - 2 ELSE at = i - 1
      BY <1>1, <2>1, <2>2
    <2>4. CASE p[i].k = "contents"
      <3>1. IsSig(o[id]) /\ at + 1 = i - 1 /\ at + 1 \in 1 .. n
        BY <1>1, <2>1, <2>2, <2>3, <2>4
      <3>2. p[i - 1].k = "range" /\ p[i - 1].id = id
        BY <2>2, <3>1 DEF Holds
      <3> QED
        BY <2>4, <3>1, <3>2
    <2>5. CASE p[i].k = "range"
      <3>1. IsSig(o[id]) /\ at + 2 = i + 1 /\ at + 1 \in 0 .. n - 1 /\ i = at + 1
        BY <1>1, <2>1, <2>2, <2>3, <2>5
      <3>2. p[i + 1].k = "contents" /\ p[i + 1].id = id /\ i + 1 \in 1 .. n
        BY <1>1, <2>2, <3>1 DEF Holds
      <3> QED
        BY <2>5, <3>1, <3>2
    <2>6. CASE p[i].k = "object"
      <3>1. ~IsSig(o[id]) /\ i = at + 1
        BY <2>1, <2>2, <2>3, <2>6
      <3>2. p[i] = [k |-> "object", id |-> id, v |-> o[id]]
        BY <2>2, <3>1 DEF Holds
      <3>3. p[i].v = o[id]
        BY <3>2
      <3> QED
        BY <2>6, <3>1, <3>3
    <2> QED
      BY <1>3, <2>4, <2>5, <2>6
  <1> QED
    BY <1>3, <1>4, <1>5, <1>6 DEF e

(* A document that is one revision.                                        *)
LEMMA First ==
  ASSUME NEW p, NEW n, NEW o, Piece(p, n, 0, o, Nowhere), ObjMap(o)
  PROVE  /\ Well(p) /\ Entries(p) = p[n + 1].entries
         /\ LoadMem(p) = o /\ Revisions(p) = 1
  <1> DEFINE e == p[n + 1].entries
             G == [at \in 0 .. n + 1 |-> IF at = n THEN e ELSE << >>]
  <1>1. /\ n \in Nat /\ IsSeq(p) /\ Len(p) = n + 2
        /\ p[n + 1].k = "xref" /\ p[n + 1].prev = Nowhere
        /\ e = [id \in DOMAIN o |-> e[id]]
        /\ p[n + 2].k = "startxref" /\ p[n + 2].at = n
    BY DEF Piece, Framed
  <1>2. \A i \in 1 .. n :
          /\ p[i].k \in {"object", "range", "contents"} /\ p[i].id \in DOMAIN o
          /\ p[i].k = "range" => /\ i + 1 \in 1 .. n
                                 /\ p[i + 1].k = "contents" /\ p[i + 1].id = p[i].id
          /\ p[i].k = "contents" => /\ i - 1 \in 1 .. n
                                    /\ p[i - 1].k = "range" /\ p[i - 1].id = p[i].id
          /\ p[i].k = "object" => ~IsSig(p[i].v)
          /\ p[i].k # "contents" => i = e[p[i].id] - 0 + 1
    BY PieceShape
  <1>3. \A id \in DOMAIN o : /\ e[id] - 0 \in 0 .. n - 1 /\ e[id] \in Nat
                             /\ Begins(p[e[id] - 0 + 1], id)
                             /\ Holds(p, e[id] - 0, id, o[id])
    BY PieceShape
  <1> HIDE DEF e
  <1>4. \A i \in 1 .. n + 2 : i \in 1 .. n \/ i = n + 1 \/ i = n + 2
    BY <1>1
  <1>5. IsFrom(p, G) /\ \A h : IsFrom(p, h) => h = G
    <2>1. ASSUME NEW h PROVE [at \in 0 .. Len(p) - 1 |-> Link(p, h, at)] = G
      <3>1. \A at \in 0 .. n + 1 : at # n => p[at + 1].k # "xref"
        <4>1. SUFFICES ASSUME NEW at \in 0 .. n + 1, at # n
                       PROVE  p[at + 1].k # "xref"
          OBVIOUS
        <4>2. at + 1 \in 1 .. n \/ at + 1 = n + 2
          BY <1>1, <4>1
        <4> QED
          BY <1>1, <1>2, <4>2
      <3>2. Len(p) - 1 = n + 1
        BY <1>1
      <3>3. \A at \in 0 .. n + 1 : Link(p, h, at) = IF at = n THEN e ELSE << >>
        BY <1>1, <3>1 DEF e, Link
      <3> QED
        BY <3>2, <3>3
    <2> HIDE DEF G
    <2> QED
      BY <2>1 DEF IsFrom
  <1>6. Entries(p) = e
    <2>1. Entries(p) = G[XRefStart(p)]
      BY <1>5, EntriesAre
    <2>2. XRefStart(p) = n
      BY <1>1 DEF XRefStart
    <2> QED
      BY <1>1, <2>1, <2>2
  <1>7. Cellular(p)
    <2>1. XRefStart(p) = n /\ Len(p) # 0
      BY <1>1 DEF XRefStart
    <2>2. ASSUME NEW i \in 1 .. n + 2
          PROVE  /\ p[i].k \in Kinds
                 /\ p[i].k = "startxref" => i - 1 \in 1 .. n + 2 /\ p[i - 1].k = "xref"
                 /\ p[i].k = "range" => /\ i + 1 \in 1 .. n + 2
                                        /\ p[i + 1].k = "contents"
                                        /\ p[i + 1].id = p[i].id
                 /\ p[i].k = "contents" => /\ i - 1 \in 1 .. n + 2
                                           /\ p[i - 1].k = "range"
                                           /\ p[i - 1].id = p[i].id
                 /\ p[i].k = "object" => ~IsSig(p[i].v)
                 /\ p[i].k = "xref" => p[i].prev = Nowhere \/ p[i].prev \in 0 .. i - 2
      <3>1. CASE i \in 1 .. n
        <4>1. \A j \in 1 .. n : j \in 1 .. n + 2
          BY <1>1
        <4>2. p[i].k # "startxref" /\ p[i].k # "xref" /\ p[i].k \in Kinds
          BY <1>2, <3>1 DEF Kinds
        <4> QED
          BY <1>2, <3>1, <4>1, <4>2
      <3>2. CASE i = n + 1
        <4>1. p[i].k = "xref" /\ p[i].prev = Nowhere
          BY <1>1, <3>2
        <4> QED
          BY <4>1 DEF Kinds
      <3>3. CASE i = n + 2
        <4>1. i - 1 = n + 1
          BY <1>1, <3>3
        <4> QED
          BY <1>1, <3>3, <4>1 DEF Kinds
      <3> QED
        BY <1>4, <3>1, <3>2, <3>3
    <2> QED
      BY <1>1, <2>1, <2>2 DEF Cellular
  <1>8. Reaches(p, e)
    <2>1. \A id \in DOMAIN e : e[id] \in 0 .. Len(p) - 1 /\ Begins(p[e[id] + 1], id)
      <3>1. SUFFICES ASSUME NEW id \in DOMAIN o
                     PROVE  e[id] \in 0 .. n + 1 /\ Begins(p[e[id] + 1], id)
        BY <1>1
      <3>2. e[id] - 0 = e[id]
        BY <1>3
      <3> QED
        BY <1>1, <1>3, <3>2
    <2>2. \A i \in 1 .. Len(p) :
            p[i].k \in {"object", "range"} =>
              p[i].id \in DOMAIN e /\ i <= e[p[i].id] + 1
      <3>1. SUFFICES ASSUME NEW i \in 1 .. n + 2, p[i].k \in {"object", "range"}
                     PROVE  p[i].id \in DOMAIN o /\ i <= e[p[i].id] + 1
        BY <1>1
      <3>2. i \in 1 .. n
        BY <1>1, <1>4, <3>1
      <3> QED
        BY <1>2, <1>3, <3>1, <3>2
    <2> QED
      BY <1>1, <2>1, <2>2 DEF Reaches, ObjMap
  <1>9. Well(p)
    BY <1>5, <1>6, <1>7, <1>8 DEF Well, Follows
  <1>10. LoadMem(p) = o
    <2>1. LoadMem(p) = [id \in DOMAIN e |-> ObjectAt(p, e[id])] /\ DOMAIN e = DOMAIN o
      BY <1>1, <1>6, <1>9, LoadIs
    <2>2. ASSUME NEW id \in DOMAIN o PROVE ObjectAt(p, e[id]) = o[id]
      <3>1. e[id] - 0 = e[id] /\ Holds(p, e[id], id, o[id])
        BY <1>3
      <3> QED
        BY <3>1 DEF ObjectAt, Holds, ObjMap
    <2> QED
      BY <2>1, <2>2 DEF ObjMap
  <1>11. Revisions(p) = 1
    <2>1. DOMAIN p = 1 .. n + 2
      BY <1>1, SeqFacts
    <2>2. {i \in DOMAIN p : p[i].k = "startxref"} = {n + 2}
      <3>1. \A i \in 1 .. n + 2 : p[i].k = "startxref" <=> i = n + 2
        BY <1>1, <1>2, <1>4
      <3>2. n + 2 \in 1 .. n + 2
        BY <1>1
      <3> QED
        BY <2>1, <3>1, <3>2
    <2> QED
      BY <2>2, FS_Singleton DEF Revisions
  <1> QED
    BY <1>6, <1>9, <1>10, <1>11 DEF e

(* F has the cells of f, and behind them the n + 2 cells of p.             *)
Behind(F, f, p, n) ==
  /\ Len(f) \in Nat /\ n \in Nat /\ IsSeq(F) /\ Len(F) = Len(f) + n + 2
  /\ \A i \in 1 .. Len(f) : F[i] = f[i] /\ i \in 1 .. Len(f) + n + 2
  /\ \A j \in 1 .. n + 2 : F[Len(f) + j] = p[j] /\ Len(f) + j \in 1 .. Len(f) + n + 2
  /\ \A i \in 1 .. Len(f) + n + 2 :
       i \in 1 .. Len(f) \/ \E j \in 1 .. n + 2 : i = Len(f) + j

(* A piece behind a file leaves the cells of both as they are.             *)
LEMMA AppendedCells ==
  ASSUME NEW f, NEW p, NEW n, NEW base, NEW o, NEW prev,
         IsSeq(f), Piece(p, n, base, o, prev)
  PROVE  Behind(f \o p, f, p, n)
  <1> DEFINE F == f \o p
             L == Len(f)
  <1>1. IsSeq(p) /\ n \in Nat /\ Len(p) = n + 2 /\ L \in Nat
    BY SeqFacts DEF Piece, Framed
  <1>2. /\ IsSeq(F) /\ Len(F) = L + Len(p)
        /\ \A i \in 1 .. L : F[i] = f[i]
        /\ \A i \in 1 .. Len(p) : F[L + i] = p[i]
    BY <1>1, Joined
  <1> HIDE DEF F, L
  <1>3. Len(F) = L + n + 2
    BY <1>1, <1>2
  <1>4. \A i \in 1 .. L : F[i] = f[i] /\ i \in 1 .. L + n + 2
    BY <1>1, <1>2
  <1>5. \A j \in 1 .. n + 2 : F[L + j] = p[j] /\ L + j \in 1 .. L + n + 2
    BY <1>1, <1>2
  <1>6. \A i \in 1 .. L + n + 2 : i \in 1 .. L \/ \E j \in 1 .. n + 2 : i = L + j
    <2>1. SUFFICES ASSUME NEW i \in 1 .. L + n + 2, i \notin 1 .. L
                   PROVE  \E j \in 1 .. n + 2 : i = L + j
      OBVIOUS
    <2>2. i - L \in 1 .. n + 2 /\ i = L + (i - L)
      BY <1>1, <2>1
    <2> QED
      BY <2>2
  <1> QED
    BY <1>1, <1>2, <1>3, <1>4, <1>5, <1>6 DEF Behind, F, L

(* The cells of a file and a piece behind it are those of a file.          *)
LEMMA AppendedCellular ==
  ASSUME NEW f, NEW p, NEW n, NEW o, Cellular(f),
         Piece(p, n, Len(f), o, XRefStart(f))
  PROVE  Cellular(f \o p) /\ XRefStart(f \o p) = Len(f) + n
  <1> DEFINE F == f \o p
             L == Len(f)
             M == L + n + 2
  <1>1. /\ L \in Nat /\ n \in Nat /\ IsSeq(F) /\ Len(F) = M
        /\ \A i \in 1 .. L : F[i] = f[i] /\ i \in 1 .. M
        /\ \A j \in 1 .. n + 2 : F[L + j] = p[j] /\ L + j \in 1 .. M
        /\ \A i \in 1 .. M : i \in 1 .. L \/ \E j \in 1 .. n + 2 : i = L + j
    <2>1. IsSeq(f)
      BY DEF Cellular
    <2>2. Behind(F, f, p, n)
      BY <2>1, AppendedCells
    <2> QED
      BY <2>2 DEF Behind
  <1>2. /\ p[n + 1].k = "xref" /\ p[n + 1].prev = XRefStart(f)
        /\ p[n + 2].k = "startxref" /\ p[n + 2].at = L + n
    BY DEF Piece, Framed
  <1>3. \A i \in 1 .. n :
          /\ p[i].k \in {"object", "range", "contents"}
          /\ p[i].k = "range" => /\ i + 1 \in 1 .. n
                                 /\ p[i + 1].k = "contents" /\ p[i + 1].id = p[i].id
          /\ p[i].k = "contents" => /\ i - 1 \in 1 .. n
                                    /\ p[i - 1].k = "range" /\ p[i - 1].id = p[i].id
          /\ p[i].k = "object" => ~IsSig(p[i].v)
    BY PieceShape
  <1>4. /\ XRefStart(f) \in 0 .. L - 1
        /\ \A i \in 1 .. L :
             /\ f[i].k \in Kinds
             /\ f[i].k = "startxref" => i - 1 \in 1 .. L /\ f[i - 1].k = "xref"
             /\ f[i].k = "range" => /\ i + 1 \in 1 .. L
                                    /\ f[i + 1].k = "contents" /\ f[i + 1].id = f[i].id
             /\ f[i].k = "contents" => /\ i - 1 \in 1 .. L
                                       /\ f[i - 1].k = "range" /\ f[i - 1].id = f[i].id
             /\ f[i].k = "object" => ~IsSig(f[i].v)
             /\ f[i].k = "xref" => f[i].prev = Nowhere \/ f[i].prev \in 0 .. i - 2
    BY DEF Cellular
  <1> DEFINE x == XRefStart(f)
  <1> HIDE DEF F, L, M, x
  <1>5. /\ n + 1 \in 1 .. n + 2 /\ n + 2 \in 1 .. n + 2
        /\ L + (n + 2) = M /\ L + (n + 1) = L + n + 1 /\ L + n \in 0 .. M - 1
    BY <1>1 DEF M
  <1>6. \A j \in 1 .. n + 2 : F[L + j] = p[j] /\ L + j \in 1 .. M
    BY <1>1
  <1>7. F[M].k = "startxref" /\ F[M].at = L + n /\ F[L + n + 1].k = "xref"
    <2>1. F[L + (n + 2)] = p[n + 2] /\ F[L + (n + 1)] = p[n + 1]
      BY <1>1, <1>5
    <2> QED
      BY <1>2, <1>5, <2>1
  <1>8. XRefStart(F) = L + n
    BY <1>1, <1>7 DEF XRefStart
  <1>9. ASSUME NEW i \in 1 .. M
        PROVE  /\ F[i].k \in Kinds
               /\ F[i].k = "startxref" => i - 1 \in 1 .. M /\ F[i - 1].k = "xref"
               /\ F[i].k = "range" => /\ i + 1 \in 1 .. M
                                      /\ F[i + 1].k = "contents" /\ F[i + 1].id = F[i].id
               /\ F[i].k = "contents" => /\ i - 1 \in 1 .. M
                                         /\ F[i - 1].k = "range" /\ F[i - 1].id = F[i].id
               /\ F[i].k = "object" => ~IsSig(F[i].v)
               /\ F[i].k = "xref" => F[i].prev = Nowhere \/ F[i].prev \in 0 .. i - 2
    <2>1. CASE i \in 1 .. L
      <3>1. F[i] = f[i]
        BY <1>1, <2>1
      <3>2. f[i].k = "startxref" \/ f[i].k = "contents" =>
              i - 1 \in 1 .. M /\ F[i - 1] = f[i - 1]
        BY <1>1, <1>4, <2>1
      <3>3. f[i].k = "range" => i + 1 \in 1 .. M /\ F[i + 1] = f[i + 1]
        BY <1>1, <1>4, <2>1
      <3> QED
        BY <1>4, <2>1, <3>1, <3>2, <3>3
    <2>2. ASSUME NEW j \in 1 .. n, i = L + j
          PROVE  /\ F[i].k \in {"object", "range", "contents"}
                 /\ F[i].k = "range" =>
                      i + 1 \in 1 .. M /\ F[i + 1].k = "contents" /\ F[i + 1].id = F[i].id
                 /\ F[i].k = "contents" =>
                      i - 1 \in 1 .. M /\ F[i - 1].k = "range" /\ F[i - 1].id = F[i].id
                 /\ F[i].k = "object" => ~IsSig(F[i].v)
      <3>1. \A k \in 1 .. n : k \in 1 .. n + 2
        BY <1>1
      <3>2. F[i] = p[j]
        BY <1>1, <2>2, <3>1
      <3>3. CASE p[j].k = "range"
        <4>1. /\ j + 1 \in 1 .. n + 2 /\ i + 1 = L + (j + 1)
              /\ p[j + 1].k = "contents" /\ p[j + 1].id = p[j].id
          BY <1>1, <1>3, <2>2, <3>1, <3>3
        <4>2. F[i + 1] = p[j + 1] /\ i + 1 \in 1 .. M
          BY <1>6, <4>1
        <4> QED
          BY <3>2, <3>3, <4>1, <4>2
      <3>4. CASE p[j].k = "contents"
        <4>1. /\ j - 1 \in 1 .. n + 2 /\ i - 1 = L + (j - 1)
              /\ p[j - 1].k = "range" /\ p[j - 1].id = p[j].id
          BY <1>1, <1>3, <2>2, <3>1, <3>4
        <4>2. F[i - 1] = p[j - 1] /\ i - 1 \in 1 .. M
          BY <1>6, <4>1
        <4> QED
          BY <3>2, <3>4, <4>1, <4>2
      <3>5. CASE p[j].k = "object"
        BY <1>3, <3>2, <3>5
      <3> QED
        BY <1>3, <3>3, <3>4, <3>5
    <2>3. CASE i = L + n + 1
      <3>1. F[i].k = "xref" /\ F[i].prev = x
        BY <1>1, <1>2, <1>5, <2>3 DEF x
      <3>2. x \in 0 .. i - 2
        BY <1>1, <1>4, <2>3 DEF x
      <3> QED
        BY <3>1, <3>2 DEF Kinds
    <2>4. CASE i = M
      <3>1. i - 1 = L + n + 1 /\ i - 1 \in 1 .. M
        BY <1>1, <2>4 DEF M
      <3> QED
        BY <1>7, <2>4, <3>1 DEF Kinds
    <2>5. i \in 1 .. L \/ (\E j \in 1 .. n : i = L + j) \/ i = L + n + 1 \/ i = M
      <3>1. ASSUME NEW j \in 1 .. n + 2, i = L + j
            PROVE  (j \in 1 .. n /\ i = L + j) \/ i = L + n + 1 \/ i = M
        <4>1. j \in 1 .. n \/ j = n + 1 \/ j = n + 2
          BY <1>1
        <4> QED
          BY <1>5, <3>1, <4>1
      <3> QED
        BY <1>1, <3>1
    <2> QED
      BY <2>1, <2>2, <2>3, <2>4, <2>5 DEF Kinds
  <1>10. Cellular(F)
    BY <1>1, <1>5, <1>7, <1>8, <1>9 DEF Cellular
  <1> QED
    BY <1>8, <1>10 DEF F, L

(* Its tables are those of the file under the table of the piece.          *)
LEMMA AppendedEntries ==
  ASSUME NEW f, NEW p, NEW n, NEW o, Cellular(f), Follows(f),
         Piece(p, n, Len(f), o, XRefStart(f))
  PROVE  /\ Follows(f \o p)
         /\ Entries(f \o p) = Hide(Entries(f), p[n + 1].entries)
  <1> DEFINE F == f \o p
             L == Len(f)
             x == XRefStart(f)
             e == p[n + 1].entries
  <1>1. PICK g : IsFrom(f, g) /\ \A h : IsFrom(f, h) => h = g
    BY DEF Follows
  <1>2. Behind(F, f, p, n)
    <2>1. IsSeq(f)
      BY DEF Cellular
    <2> QED
      BY <2>1, AppendedCells
  <1>3. /\ L \in Nat /\ n \in Nat /\ Len(F) = L + n + 2 /\ Len(F) - 1 = L + n + 1
        /\ \A i \in 1 .. L : F[i] = f[i]
        /\ \A j \in 1 .. n + 2 : F[L + j] = p[j]
    BY <1>2 DEF Behind
  <1>4. /\ p[n + 1].k = "xref" /\ p[n + 1].prev = x /\ p[n + 2].k # "xref"
        /\ \A j \in 1 .. n : p[j].k # "xref"
    BY DEF Piece, Framed, Filled
  <1>5. /\ x \in 0 .. L - 1 /\ x # Nowhere
        /\ \A i \in 1 .. L : f[i].k = "xref" => f[i].prev = Nowhere \/ f[i].prev \in 0 .. i - 2
    <2>1. x \in 0 .. L - 1
      BY DEF Cellular
    <2>2. x # Nowhere
      BY <1>3, <2>1 DEF Nowhere
    <2>3. \A i \in 1 .. L :
             f[i].k = "xref" => f[i].prev = Nowhere \/ f[i].prev \in 0 .. i - 2
      BY DEF Cellular
    <2> QED
      BY <2>1, <2>2, <2>3
  <1>6. XRefStart(F) = L + n
    BY AppendedCellular
  <1>7. Entries(f) = g[x]
    BY <1>1, EntriesAre
  <1> DEFINE G == [at \in 0 .. L + n + 1 |->
                     IF at < L THEN g[at] ELSE IF at = L + n THEN Hide(g[x], e) ELSE << >>]
  <1> HIDE DEF F, L, x
  <1>8. \A at \in 0 .. L - 1 : at + 1 \in 1 .. L /\ at \in 0 .. L + n + 1
    BY <1>3
  (* Below Len(f) the links of F are those of f.                             *)
  <1>9. ASSUME NEW h, NEW h1, \A at \in 0 .. L - 1 : h[at] = h1[at], NEW at \in 0 .. L - 1
        PROVE  Link(F, h, at) = Link(f, h1, at)
    <2>1. F[at + 1] = f[at + 1]
      BY <1>3, <1>8
    <2>2. f[at + 1].k = "xref" => f[at + 1].prev = Nowhere \/ f[at + 1].prev \in 0 .. L - 1
      <3>1. f[at + 1].k = "xref" => f[at + 1].prev = Nowhere \/ f[at + 1].prev \in 0 .. at + 1 - 2
        BY <1>5, <1>8
      <3> QED
        BY <1>3, <3>1
    <2> QED
      BY <1>9, <2>1, <2>2 DEF Link
  <1>10. ASSUME NEW h, h[x] = g[x], NEW at \in L .. L + n + 1
         PROVE  Link(F, h, at) = IF at = L + n THEN Hide(g[x], e) ELSE << >>
    <2>1. PICK j \in 1 .. n + 2 : at + 1 = L + j
      <3>1. at - L + 1 \in 1 .. n + 2 /\ at + 1 = L + (at - L + 1)
        BY <1>3
      <3> QED
        BY <3>1
    <2>2. F[at + 1] = p[j]
      BY <1>3, <2>1
    <2>3. CASE j = n + 1
      <3>1. F[at + 1] = p[n + 1] /\ at = L + n
        BY <1>3, <2>1, <2>2, <2>3
      <3>2. F[at + 1].k = "xref" /\ F[at + 1].prev = x /\ F[at + 1].entries = e
        BY <1>4, <3>1
      <3>3. Link(F, h, at) = Hide(h[x], e)
        BY <1>5, <3>2 DEF Link
      <3> QED
        BY <1>10, <3>1, <3>3
    <2>4. CASE j # n + 1
      <3>1. j \in 1 .. n \/ j = n + 2
        BY <1>3, <2>4
      <3>2. p[j].k # "xref" /\ at # L + n
        BY <1>3, <1>4, <2>1, <2>4, <3>1
      <3> QED
        BY <2>2, <3>2 DEF Link
    <2> QED
      BY <2>3, <2>4
  <1>11. IsFrom(F, G)
    <2>1. \A at \in 0 .. L - 1 : G[at] = g[at]
      BY <1>3
    <2>2. \A at \in 0 .. L - 1 : Link(f, g, at) = g[at]
      <3>1. g = [at \in 0 .. L - 1 |-> Link(f, g, at)]
        BY <1>1 DEF IsFrom, L
      <3> QED
        BY <3>1
    <2>3. G[x] = g[x]
      BY <1>5, <2>1
    <2>4. ASSUME NEW at \in 0 .. L + n + 1 PROVE G[at] = Link(F, G, at)
      <3>1. CASE at \in 0 .. L - 1
        <4> HIDE DEF G
        <4> QED
          BY <1>9, <2>1, <2>2, <3>1
      <3>2. CASE at \in L .. L + n + 1
        <4>1. G[at] = IF at = L + n THEN Hide(g[x], e) ELSE << >>
          BY <1>3, <3>2
        <4> HIDE DEF G
        <4> QED
          BY <1>10, <2>3, <3>2, <4>1
      <3> QED
        BY <1>3, <3>1, <3>2
    <2>5. G = [at \in 0 .. L + n + 1 |-> G[at]]
      OBVIOUS
    <2> HIDE DEF G
    <2> QED
      BY <1>3, <2>4, <2>5 DEF IsFrom
  <1>12. ASSUME NEW H, IsFrom(F, H) PROVE H = G
    <2>1. H = [at \in 0 .. L + n + 1 |-> Link(F, H, at)]
      BY <1>3, <1>12 DEF IsFrom
    <2> DEFINE h == [at \in 0 .. L - 1 |-> H[at]]
    <2>2. \A at \in 0 .. L - 1 : H[at] = h[at]
      OBVIOUS
    <2>3. \A at \in 0 .. L - 1 : h[at] = Link(f, h, at)
      <3>1. SUFFICES ASSUME NEW at \in 0 .. L - 1 PROVE H[at] = Link(f, h, at)
        OBVIOUS
      <3>2. H[at] = Link(F, H, at)
        BY <1>8, <2>1
      <3> HIDE DEF h
      <3> QED
        BY <1>9, <2>2, <3>2
    <2>4. h = g
      <3>1. h = [at \in 0 .. L - 1 |-> h[at]]
        OBVIOUS
      <3> HIDE DEF h
      <3>2. IsFrom(f, h)
        BY <2>3, <3>1 DEF IsFrom, L
      <3> QED
        BY <1>1, <3>2
    <2>5. \A at \in 0 .. L - 1 : H[at] = g[at]
      BY <2>2, <2>4
    <2>6. H[x] = g[x]
      BY <1>5, <2>5
    <2>7. \A at \in L .. L + n + 1 :
            H[at] = IF at = L + n THEN Hide(g[x], e) ELSE << >>
      <3>1. \A at \in L .. L + n + 1 : at \in 0 .. L + n + 1
        BY <1>3
      <3>2. \A at \in L .. L + n + 1 : H[at] = Link(F, H, at)
        BY <2>1, <3>1
      <3> QED
        BY <1>10, <2>6, <3>2
    <2>8. \A at \in 0 .. L + n + 1 : H[at] = G[at]
      BY <1>3, <2>5, <2>7
    <2> QED
      <3> HIDE DEF h
      <3> QED
        BY <2>1, <2>8
  <1>13. Entries(F) = Hide(Entries(f), e)
    <2>1. Entries(F) = G[XRefStart(F)]
      BY <1>11, <1>12, EntriesAre
    <2>2. G[L + n] = Hide(g[x], e)
      BY <1>3
    <2> QED
      BY <1>6, <1>7, <2>1, <2>2
  <1> QED
    BY <1>11, <1>12, <1>13 DEF F, Follows

(* A revision hides what it holds again, and costs nothing else.           *)
LEMMA Appended ==
  ASSUME NEW f, NEW p, NEW n, NEW o, Well(f), ObjMap(o),
         Piece(p, n, Len(f), o, XRefStart(f))
  PROVE  /\ Well(f \o p) /\ LoadMem(f \o p) = Hide(LoadMem(f), o)
         /\ Revisions(f) \in Nat /\ Revisions(f \o p) = Revisions(f) + 1
  <1> DEFINE F == f \o p
             L == Len(f)
             e == p[n + 1].entries
             a == Entries(f)
             E == Hide(a, e)
  <1>1. Cellular(f) /\ Follows(f) /\ Reaches(f, a)
    BY DEF Well
  <1>2. Behind(F, f, p, n)
    BY <1>1, AppendedCells DEF Cellular
  <1>3. /\ L \in Nat /\ n \in Nat /\ IsSeq(F) /\ Len(F) = L + n + 2
        /\ \A i \in 1 .. L : F[i] = f[i] /\ i \in 1 .. L + n + 2
        /\ \A j \in 1 .. n + 2 : F[L + j] = p[j] /\ L + j \in 1 .. L + n + 2
        /\ \A i \in 1 .. L + n + 2 : i \in 1 .. L \/ \E j \in 1 .. n + 2 : i = L + j
    BY <1>2 DEF Behind
  <1>4. Cellular(F)
    BY <1>1, AppendedCellular
  <1>5. Follows(F) /\ Entries(F) = E
    BY <1>1, AppendedEntries
  <1>6. /\ e = [id \in DOMAIN o |-> e[id]] /\ DOMAIN e = DOMAIN o
        /\ p[n + 1].k = "xref" /\ p[n + 2].k = "startxref"
    BY DEF Piece, Framed
  <1>7. \A j \in 1 .. n :
          /\ p[j].k \in {"object", "range", "contents"} /\ p[j].id \in DOMAIN o
          /\ p[j].k # "contents" => j = e[p[j].id] - L + 1
    BY PieceShape
  <1>8. \A id \in DOMAIN o : /\ e[id] - L \in 0 .. n - 1 /\ e[id] \in Nat
                             /\ Begins(p[e[id] - L + 1], id)
                             /\ Holds(p, e[id] - L, id, o[id])
    BY PieceShape
  <1>9. /\ E = [id \in DOMAIN a \cup DOMAIN o |-> IF id \in DOMAIN o THEN e[id] ELSE a[id]]
        /\ DOMAIN E = DOMAIN a \cup DOMAIN o
    BY <1>6 DEF Hide
  <1>10. LoadMem(f) = [id \in DOMAIN a |-> ObjectAt(f, a[id])]
    BY LoadIs
  <1> HIDE DEF F, L, e, a, E
  (* What the offsets of the old and of the new table lead to.               *)
  <1>11. \A id \in DOMAIN a : /\ a[id] \in 0 .. L - 1 /\ a[id] + 1 \in 1 .. L
                              /\ F[a[id] + 1] = f[a[id] + 1]
                              /\ Begins(f[a[id] + 1], id)
    BY <1>1, <1>3 DEF Reaches, L
  <1>12. ASSUME NEW id \in DOMAIN o
         PROVE  /\ e[id] \in L .. L + n - 1 /\ Begins(F[e[id] + 1], id)
                /\ Holds(F, e[id], id, o[id])
    <2>1. PICK at \in 0 .. n - 1 : at = e[id] - L
      BY <1>8
    <2>2. /\ e[id] = L + at /\ at + 1 \in 1 .. n + 2 /\ at + 2 \in 1 .. n + 2
          /\ e[id] + 1 = L + (at + 1) /\ e[id] + 2 = L + (at + 2)
      <3> DEFINE y == e[id]
      <3>1. y \in Nat /\ at = y - L
        BY <1>8, <2>1
      <3> HIDE DEF y
      <3>2. y = L + at /\ y + 1 = L + (at + 1) /\ y + 2 = L + (at + 2)
        BY <1>3, <3>1
      <3> QED
        BY <1>3, <3>2 DEF y
    <2>3. F[e[id] + 1] = p[at + 1] /\ F[e[id] + 2] = p[at + 2]
      BY <1>3, <2>2
    <2>4. Begins(p[at + 1], id) /\ Holds(p, at, id, o[id])
      BY <1>8, <2>1
    <2>5. e[id] \in L .. L + n - 1
      BY <1>3, <2>2
    <2>6. Holds(F, e[id], id, o[id])
      BY <2>3, <2>4 DEF Holds
    <2> QED
      BY <2>3, <2>4, <2>5, <2>6
  <1>13. Reaches(F, E)
    <2>1. IsFiniteSet(DOMAIN E) /\ DOMAIN E \subseteq Nat \ {0}
      BY <1>1, <1>9, FS_Union DEF Reaches, ObjMap
    <2>2. ASSUME NEW id \in DOMAIN E
          PROVE  E[id] \in 0 .. Len(F) - 1 /\ Begins(F[E[id] + 1], id)
      <3>1. CASE id \in DOMAIN o
        <4>1. E[id] = e[id]
          BY <1>9, <3>1
        <4> QED
          BY <1>3, <1>12, <3>1, <4>1
      <3>2. CASE id \notin DOMAIN o
        <4>1. E[id] = a[id] /\ id \in DOMAIN a
          BY <1>9, <3>2
        <4> QED
          BY <1>3, <1>11, <4>1
      <3> QED
        BY <3>1, <3>2
    <2>3. ASSUME NEW i \in 1 .. L + n + 2, F[i].k \in {"object", "range"}
          PROVE  F[i].id \in DOMAIN E /\ i <= E[F[i].id] + 1
      <3>1. CASE i \in 1 .. L
        <4>1. F[i] = f[i]
          BY <1>3, <3>1
        <4>2. f[i].id \in DOMAIN a /\ i <= a[f[i].id] + 1
          BY <1>1, <2>3, <3>1, <4>1 DEF Reaches, L
        <4>3. f[i].id \in DOMAIN o => i <= e[f[i].id] + 1
          BY <1>3, <1>12, <3>1
        <4> QED
          BY <1>9, <4>1, <4>2, <4>3
      <3>2. ASSUME NEW j \in 1 .. n + 2, i = L + j
            PROVE  F[i].id \in DOMAIN E /\ i <= E[F[i].id] + 1
        <4>1. F[i] = p[j]
          BY <1>3, <3>2
        <4>2. j # n + 1 /\ j # n + 2
          BY <1>6, <2>3, <4>1
        <4>3. j \in 1 .. n
          BY <1>3, <4>2
        <4>4. p[j].id \in DOMAIN o /\ j = e[p[j].id] - L + 1
          BY <1>7, <2>3, <4>1, <4>3
        <4>5. E[p[j].id] = e[p[j].id] /\ e[p[j].id] \in Nat
          BY <1>8, <1>9, <4>4
        <4>6. i = e[p[j].id] + 1
          <5> DEFINE y == e[p[j].id]
          <5>1. y \in Nat /\ j = y - L + 1
            BY <4>4, <4>5
          <5> HIDE DEF y
          <5>2. i = y + 1
            BY <1>3, <3>2, <5>1
          <5> QED
            BY <5>2 DEF y
        <4> QED
          BY <1>9, <4>1, <4>4, <4>5, <4>6
      <3> QED
        BY <1>3, <3>1, <3>2
    <2> QED
      BY <1>3, <1>9, <2>1, <2>2, <2>3 DEF Reaches
  <1>14. Well(F)
    BY <1>4, <1>5, <1>13 DEF Well
  <1>15. LoadMem(F) = Hide(LoadMem(f), o)
    <2> DEFINE H == Hide(LoadMem(f), o)
    <2>1. LoadMem(F) = [id \in DOMAIN E |-> ObjectAt(F, E[id])]
      BY <1>5, <1>14, LoadIs
    <2>2. H = [id \in DOMAIN E |-> IF id \in DOMAIN o THEN o[id] ELSE ObjectAt(f, a[id])]
      <3>1. DOMAIN LoadMem(f) = DOMAIN a
        BY <1>10
      <3> QED
        BY <1>9, <1>10, <3>1 DEF Hide
    <2>3. ASSUME NEW id \in DOMAIN o PROVE ObjectAt(F, E[id]) = o[id]
      <3>1. E[id] = e[id] /\ Holds(F, e[id], id, o[id])
        BY <1>9, <1>12
      <3> QED
        BY <3>1 DEF ObjectAt, Holds, ObjMap
    <2>4. ASSUME NEW id \in DOMAIN E, id \notin DOMAIN o
          PROVE  ObjectAt(F, E[id]) = ObjectAt(f, a[id])
      <3>1. E[id] = a[id] /\ id \in DOMAIN a
        BY <1>9, <2>4
      <3>2. F[a[id] + 1] = f[a[id] + 1] /\ a[id] + 1 \in 1 .. L /\ a[id] \in Nat
        BY <1>3, <1>11, <3>1
      <3>3. f[a[id] + 1].k = "range" => F[a[id] + 2] = f[a[id] + 2]
        <4>1. a[id] + 1 + 1 = a[id] + 2
          BY <3>2
        <4> QED
          BY <1>1, <1>3, <3>2, <4>1 DEF Cellular, L
      <3> QED
        BY <3>1, <3>2, <3>3 DEF ObjectAt
    <2> HIDE DEF H
    <2>5. \A id \in DOMAIN E : ObjectAt(F, E[id]) =
                                 IF id \in DOMAIN o THEN o[id] ELSE ObjectAt(f, a[id])
      BY <2>3, <2>4
    <2>6. LoadMem(F) = H
      BY <2>1, <2>2, <2>5
    <2> QED
      BY <2>6 DEF H
  <1>16. Revisions(f) \in Nat /\ Revisions(F) = Revisions(f) + 1
    <2> DEFINE A == {i \in DOMAIN f : f[i].k = "startxref"}
               B == {i \in DOMAIN F : F[i].k = "startxref"}
               m == L + n + 2
    <2>1. DOMAIN f = 1 .. L /\ DOMAIN F = 1 .. m
      BY <1>1, <1>3, SeqFacts DEF Cellular, L
    <2>2. m \in 1 .. m /\ m \notin 1 .. L /\ F[m].k = "startxref"
      <3>1. n + 2 \in 1 .. n + 2 /\ L + (n + 2) = m
        BY <1>3
      <3>2. F[L + (n + 2)] = p[n + 2]
        BY <1>3, <3>1
      <3> QED
        BY <1>3, <1>6, <3>1, <3>2
    <2>3. \A j \in 1 .. n + 2 : p[j].k = "startxref" => j = n + 2
      <3>1. \A j \in 1 .. n + 2 : j \in 1 .. n \/ j = n + 1 \/ j = n + 2
        BY <1>3
      <3> QED
        BY <1>6, <1>7, <3>1
    <2>4. \A i \in 1 .. m : F[i].k = "startxref" => i \in A \/ i = m
      <3>1. SUFFICES ASSUME NEW i \in 1 .. m, F[i].k = "startxref", i \notin 1 .. L
                     PROVE  i = m
        BY <1>3, <2>1
      <3>2. i - L \in 1 .. n + 2 /\ i = L + (i - L)
        BY <1>3, <3>1
      <3>3. F[i] = p[i - L]
        BY <1>3, <3>2
      <3>4. i - L = n + 2
        BY <2>3, <3>1, <3>2, <3>3
      <3> QED
        BY <1>3, <3>2, <3>4
    <2>5. \A i \in A : i \in 1 .. m /\ F[i].k = "startxref"
      BY <1>3, <2>1
    <2>6. B = A \cup {m} /\ m \notin A
      BY <2>1, <2>2, <2>4, <2>5
    <2>7. IsFiniteSet(1 .. L) /\ A \subseteq 1 .. L
      BY <1>3, <2>1, FS_Interval
    <2> HIDE DEF A, B, m
    <2>8. IsFiniteSet(A)
      BY <2>7, FS_Subset
    <2>9. Cardinality(A) \in Nat /\ Cardinality(B) = Cardinality(A) + 1
      BY <2>6, <2>8, FS_CardinalityType, FS_AddElement
    <2> QED
      BY <2>9 DEF A, B, Revisions
  <1> QED
    BY <1>14, <1>15, <1>16 DEF F

-----------------------------------------------------------------------------
(* What is written over the placeholder of a signature.                    *)

Filling(o, sig, r, c) == [o EXCEPT ![sig] = [range |-> r, cms |-> c]]

(* Filling changes the two values of one signature.                        *)
LEMMA FillingIs ==
  ASSUME NEW o, ObjMap(o), NEW sig \in DOMAIN o, IsSig(o[sig]), NEW r, NEW c
  PROVE  LET q == Filling(o, sig, r, c)
         IN  /\ ObjMap(q) /\ DOMAIN q = DOMAIN o
             /\ \A id \in DOMAIN o : IsSig(q[id]) <=> IsSig(o[id])
             /\ \A id \in DOMAIN o \ {sig} : q[id] = o[id]
             /\ q[sig] = [range |-> r, cms |-> c]
  <1> DEFINE q == Filling(o, sig, r, c)
             v == [range |-> r, cms |-> c]
  <1>1. /\ q = [id \in DOMAIN o |-> q[id]] /\ DOMAIN q = DOMAIN o
        /\ \A id \in DOMAIN o \ {sig} : q[id] = o[id]
        /\ q[sig] = v
    BY DEF Filling, ObjMap
  <1>2. IsSig(v) /\ v = [range |-> v.range, cms |-> v.cms]
    BY DEF IsSig
  <1> HIDE DEF q, v
  <1>3. \A id \in DOMAIN o : IsSig(q[id]) <=> IsSig(o[id])
    BY <1>1, <1>2
  <1>4. ObjMap(q)
    BY <1>1, <1>2 DEF ObjMap
  <1> QED
    BY <1>1, <1>3, <1>4 DEF q, v

(* A piece whose two cells of a signature are overwritten is a piece.      *)
LEMMA FilledPiece ==
  ASSUME NEW p, NEW n, NEW base, NEW o, NEW prev, NEW sig \in DOMAIN o, NEW r, NEW c,
         Piece(p, n, base, o, prev), ObjMap(o), IsSig(o[sig]),
         NEW q, IsSeq(q), Len(q) = Len(p),
         LET at == p[n + 1].entries[sig] - base
         IN  /\ q[at + 1] = [k |-> "range", id |-> sig, range |-> r]
             /\ q[at + 2] = [k |-> "contents", id |-> sig, cms |-> c]
             /\ \A i \in 1 .. n + 2 : i # at + 1 /\ i # at + 2 => q[i] = p[i]
  PROVE  Piece(q, n, base, Filling(o, sig, r, c), prev)
  <1> DEFINE e == p[n + 1].entries
             at == e[sig] - base
             O == Filling(o, sig, r, c)
  <1>1. /\ q[at + 1] = [k |-> "range", id |-> sig, range |-> r]
        /\ q[at + 2] = [k |-> "contents", id |-> sig, cms |-> c]
        /\ \A i \in 1 .. n + 2 : i # at + 1 /\ i # at + 2 => q[i] = p[i]
    OBVIOUS
  <1>2. /\ n \in Nat /\ base \in Nat /\ Len(p) = n + 2
        /\ p[n + 1] = [k |-> "xref", prev |-> prev, entries |-> e]
        /\ e = [id \in DOMAIN o |-> e[id]]
        /\ p[n + 2] = [k |-> "startxref", at |-> base + n]
    BY DEF Piece, Framed
  <1>3. \A id \in DOMAIN o : \E a \in 0 .. n - 1 : /\ e[id] = base + a
                                                   /\ Holds(p, a, id, o[id])
                                                   /\ IsSig(o[id]) => a + 1 \in 0 .. n - 1
    BY DEF Piece, Found
  <1>4. \A i \in 1 .. n :
          /\ p[i].k \in {"object", "range", "contents"} /\ p[i].id \in DOMAIN o
          /\ p[i].k # "object" <=> IsSig(o[p[i].id])
          /\ base + i = e[p[i].id] + (IF p[i].k = "contents" THEN 2 ELSE 1)
    BY DEF Piece, Filled
  <1>5. \A a, b \in DOMAIN o : a < b => e[a] < e[b]
    BY DEF Piece, InOrder
  <1>6. /\ DOMAIN O = DOMAIN o
        /\ \A id \in DOMAIN o : IsSig(O[id]) <=> IsSig(o[id])
        /\ \A id \in DOMAIN o \ {sig} : O[id] = o[id]
        /\ O[sig] = [range |-> r, cms |-> c]
    BY FillingIs
  <1> HIDE DEF e, O
  <1>7. /\ at \in 0 .. n - 1 /\ at + 1 \in 1 .. n /\ at + 2 \in 1 .. n
        /\ e[sig] = base + at
        /\ p[at + 1].k = "range" /\ p[at + 1].id = sig
        /\ p[at + 2].k = "contents" /\ p[at + 2].id = sig
    <2>1. PICK a \in 0 .. n - 1 : /\ e[sig] = base + a
                                  /\ Holds(p, a, sig, o[sig])
                                  /\ IsSig(o[sig]) => a + 1 \in 0 .. n - 1
      BY <1>3
    <2>2. at = a /\ a + 1 \in 1 .. n /\ a + 2 \in 1 .. n
      BY <1>2, <2>1
    <2> QED
      BY <2>1, <2>2 DEF Holds
  <1> HIDE DEF at
  <1>8. Framed(q, n, base, O, prev)
    <2>1. n + 1 \in 1 .. n + 2 /\ n + 2 \in 1 .. n + 2
          /\ n + 1 \notin 1 .. n /\ n + 2 \notin 1 .. n
      BY <1>2
    <2>2. q[n + 1] = p[n + 1] /\ q[n + 2] = p[n + 2]
      BY <1>1, <1>7, <2>1
    <2>3. q[n + 1].entries = e
      BY <2>2 DEF e
    <2> QED
      BY <1>2, <1>6, <2>2, <2>3 DEF Framed
  <1>9. q[n + 1].entries = e
    <2>1. q[n + 1] = p[n + 1]
      <3>1. n + 1 \in 1 .. n + 2 /\ n + 1 \notin 1 .. n
        BY <1>2
      <3> QED
        BY <1>1, <1>7, <3>1
    <2> QED
      BY <2>1 DEF e
  <1>10. Found(q, n, base, O)
    <2>1. SUFFICES ASSUME NEW id \in DOMAIN o
                   PROVE  \E a \in 0 .. n - 1 : /\ e[id] = base + a
                                                /\ Holds(q, a, id, O[id])
                                                /\ IsSig(O[id]) => a + 1 \in 0 .. n - 1
      BY <1>6, <1>9 DEF Found
    <2>2. PICK a \in 0 .. n - 1 : /\ e[id] = base + a
                                  /\ Holds(p, a, id, o[id])
                                  /\ IsSig(o[id]) => a + 1 \in 0 .. n - 1
      BY <1>3
    <2>3. CASE id = sig
      <3>1. a = at
        <4>1. e[sig] = base + a
          BY <2>2, <2>3
        <4> QED
          BY <1>2, <1>7, <4>1
      <3>2. Holds(q, a, id, O[id])
        <4>1. IsSig(O[id])
          BY <1>6, <2>3
        <4> QED
          BY <1>1, <1>6, <2>3, <3>1, <4>1 DEF Holds
      <3> QED
        BY <1>6, <2>2, <3>2
    <2>4. CASE id # sig
      <3>1. p[a + 1].id = id /\ (IsSig(o[id]) => p[a + 2].id = id)
        BY <2>2 DEF Holds
      <3>2. /\ a + 1 \in 1 .. n + 2 /\ a + 1 # at + 1 /\ a + 1 # at + 2
            /\ IsSig(o[id]) => a + 2 \in 1 .. n + 2 /\ a + 2 # at + 1 /\ a + 2 # at + 2
        <4>1. a + 1 # at + 1 /\ a + 1 # at + 2
          BY <1>7, <2>4, <3>1
        <4>2. IsSig(o[id]) => a + 2 # at + 1 /\ a + 2 # at + 2
          BY <1>7, <2>4, <3>1
        <4>3. a + 1 \in 1 .. n + 2 /\ a + 2 \in 1 .. n + 2
          BY <1>2, <2>2
        <4> QED
          BY <4>1, <4>2, <4>3
      <3>3. q[a + 1] = p[a + 1] /\ (IsSig(o[id]) => q[a + 2] = p[a + 2])
        BY <1>1, <3>2
      <3>4. Holds(q, a, id, O[id])
        BY <1>6, <2>2, <2>4, <3>3 DEF Holds
      <3> QED
        BY <1>6, <2>2, <3>4
    <2> QED
      BY <2>3, <2>4
  <1>11. Filled(q, n, base, O)
    <2>1. \A i \in 1 .. n : q[i].k = p[i].k /\ q[i].id = p[i].id
      <3>1. \A i \in 1 .. n : i \in 1 .. n + 2
        BY <1>2
      <3> QED
        BY <1>1, <1>7, <3>1
    <2> QED
      BY <1>4, <1>6, <1>9, <2>1 DEF Filled
  <1>12. InOrder(q, n, O)
    BY <1>5, <1>6, <1>9 DEF InOrder
  <1> QED
    BY <1>8, <1>10, <1>11, <1>12 DEF Piece, O

Write(f, b, r, c) == [[f EXCEPT ![b + 1].range = r] EXCEPT ![b + 2].cms = c]

(* w is f but for two cells, the two of a signature.                       *)
Wrote(w, f, b, id, r, c) ==
  /\ IsSeq(w) /\ Len(w) = Len(f)
  /\ w[b + 1] = [k |-> "range", id |-> id, range |-> r]
  /\ w[b + 2] = [k |-> "contents", id |-> id, cms |-> c]
  /\ \A i \in 1 .. Len(f) : i # b + 1 /\ i # b + 2 => w[i] = f[i]

(* Write overwrites two cells.                                             *)
LEMMA WriteIs ==
  ASSUME NEW f, IsSeq(f), NEW b, b + 1 \in 1 .. Len(f), b + 2 \in 1 .. Len(f),
         b + 1 # b + 2, NEW id, NEW r, NEW c,
         f[b + 1] = [k |-> "range", id |-> id, range |-> f[b + 1].range],
         f[b + 2] = [k |-> "contents", id |-> id, cms |-> f[b + 2].cms]
  PROVE  Wrote(Write(f, b, r, c), f, b, id, r, c)
  <1> DEFINE L == Len(f)
             g == [f EXCEPT ![b + 1].range = r]
             w == [g EXCEPT ![b + 2].cms = c]
  <1>1. L \in Nat /\ DOMAIN f = 1 .. L /\ f = [i \in 1 .. L |-> f[i]]
    BY SeqFacts
  <1>2. /\ g = [i \in 1 .. L |-> g[i]]
        /\ g[b + 1] = [k |-> "range", id |-> id, range |-> r]
        /\ \A i \in 1 .. L : i # b + 1 => g[i] = f[i]
    <2>1. g = [f EXCEPT ![b + 1] = [@ EXCEPT !.range = r]]
      OBVIOUS
    <2>2. [f[b + 1] EXCEPT !.range = r] = [k |-> "range", id |-> id, range |-> r]
      <3> DEFINE d == f[b + 1].range
                 u == f[b + 1]
      <3>1. u = [k |-> "range", id |-> id, range |-> d]
        OBVIOUS
      <3> HIDE DEF d, u
      <3>2. [u EXCEPT !.range = r] = [k |-> "range", id |-> id, range |-> r]
        BY <3>1
      <3> QED
        BY <3>2 DEF u
    <2>3. /\ g = [i \in DOMAIN f |-> g[i]]
          /\ g[b + 1] = [f[b + 1] EXCEPT !.range = r]
          /\ \A i \in DOMAIN f : i # b + 1 => g[i] = f[i]
      BY <1>1, <2>1
    <2> HIDE DEF g
    <2> QED
      BY <1>1, <2>2, <2>3
  <1> HIDE DEF g
  <1>3. /\ w = [i \in 1 .. L |-> w[i]]
        /\ w[b + 2] = [k |-> "contents", id |-> id, cms |-> c]
        /\ \A i \in 1 .. L : i # b + 2 => w[i] = g[i]
    <2>1. w = [g EXCEPT ![b + 2] = [@ EXCEPT !.cms = c]] /\ DOMAIN g = 1 .. L
      BY <1>2
    <2>2. g[b + 2] = f[b + 2]
      BY <1>2
    <2>3. [g[b + 2] EXCEPT !.cms = c] = [k |-> "contents", id |-> id, cms |-> c]
      <3> DEFINE d == f[b + 2].cms
                 u == g[b + 2]
      <3>1. u = [k |-> "contents", id |-> id, cms |-> d]
        BY <2>2
      <3> HIDE DEF d, u
      <3>2. [u EXCEPT !.cms = c] = [k |-> "contents", id |-> id, cms |-> c]
        BY <3>1
      <3> QED
        BY <3>2 DEF u
    <2>4. /\ w = [i \in DOMAIN g |-> w[i]]
          /\ w[b + 2] = [g[b + 2] EXCEPT !.cms = c]
          /\ \A i \in DOMAIN g : i # b + 2 => w[i] = g[i]
      BY <2>1
    <2> HIDE DEF w
    <2> QED
      BY <2>1, <2>3, <2>4
  <1>4. w = Write(f, b, r, c)
    BY DEF Write, g
  <1> HIDE DEF w
  <1>5. IsSeq(w) /\ Len(w) = L
    BY <1>1, <1>3, MakeSeq
  <1> QED
    BY <1>2, <1>3, <1>4, <1>5 DEF Wrote

SameTable(q, p, n) == q[n + 1] = p[n + 1]

(* Writing over the two cells of a signature behind a file.                *)
LEMMA Written ==
  ASSUME NEW f, NEW p, NEW n, NEW o, NEW prev, IsSeq(f), ObjMap(o),
         Piece(p, n, Len(f), o, prev),
         NEW sig \in DOMAIN o, IsSig(o[sig]), NEW r, NEW c
  PROVE  \E q : /\ Write(f \o p, p[n + 1].entries[sig], r, c) = f \o q
                /\ Piece(q, n, Len(f), Filling(o, sig, r, c), prev)
                /\ SameTable(q, p, n)
  <1> DEFINE L == Len(f)
             F == f \o p
             b == p[n + 1].entries[sig]
             at == b - L
             w == Write(F, b, r, c)
             q == Write(p, at, r, c)
  <1>1. /\ IsSeq(p) /\ n \in Nat /\ Len(p) = n + 2 /\ L \in Nat
    BY SeqFacts DEF Piece, Framed
  <1>2. PICK a \in 0 .. n - 1 : /\ b = L + a /\ Holds(p, a, sig, o[sig])
                                /\ a + 1 \in 0 .. n - 1
    BY DEF Piece, Found
  <1>3. Behind(F, f, p, n)
    BY AppendedCells
  <1> HIDE DEF b, F, L
  <1>4. /\ at = a /\ at \in Nat /\ b \in Nat
        /\ at + 1 \in 1 .. n + 2 /\ at + 2 \in 1 .. n + 2 /\ at + 1 # at + 2
        /\ b + 1 = L + (at + 1) /\ b + 2 = L + (at + 2) /\ b + 1 # b + 2
    BY <1>1, <1>2
  <1>5. /\ p[at + 1] = [k |-> "range", id |-> sig, range |-> o[sig].range]
        /\ p[at + 2] = [k |-> "contents", id |-> sig, cms |-> o[sig].cms]
    BY <1>2, <1>4 DEF Holds
  <1>6. /\ p[at + 1] = [k |-> "range", id |-> sig, range |-> p[at + 1].range]
        /\ p[at + 2] = [k |-> "contents", id |-> sig, cms |-> p[at + 2].cms]
    BY <1>5
  <1> HIDE DEF at
  <1>7. /\ IsSeq(q) /\ Len(q) = n + 2
        /\ q[at + 1] = [k |-> "range", id |-> sig, range |-> r]
        /\ q[at + 2] = [k |-> "contents", id |-> sig, cms |-> c]
        /\ \A i \in 1 .. n + 2 : i # at + 1 /\ i # at + 2 => q[i] = p[i]
    <2>1. at + 1 \in 1 .. Len(p) /\ at + 2 \in 1 .. Len(p)
      BY <1>1, <1>4
    <2>2. Wrote(q, p, at, sig, r, c)
      BY <1>1, <1>4, <1>6, <2>1, WriteIs
    <2> HIDE DEF q
    <2> QED
      BY <1>1, <2>2 DEF Wrote
  <1> HIDE DEF q
  <1>8. Piece(q, n, L, Filling(o, sig, r, c), prev) /\ SameTable(q, p, n)
    <2>1. n + 1 \in 1 .. n + 2 /\ n + 1 # at + 1 /\ n + 1 # at + 2
      BY <1>1, <1>2, <1>4
    <2>2. q[n + 1] = p[n + 1]
      BY <1>7, <2>1
    <2>3. Piece(q, n, L, Filling(o, sig, r, c), prev)
      BY <1>1, <1>7, FilledPiece DEF at, b, L
    <2> QED
      BY <2>2, <2>3 DEF SameTable
  <1>9. /\ IsSeq(F) /\ Len(F) = L + n + 2
        /\ \A i \in 1 .. L : F[i] = f[i] /\ i \in 1 .. L + n + 2
        /\ \A j \in 1 .. n + 2 : F[L + j] = p[j] /\ L + j \in 1 .. L + n + 2
        /\ \A i \in 1 .. L + n + 2 : i \in 1 .. L \/ \E j \in 1 .. n + 2 : i = L + j
    BY <1>3 DEF Behind, L
  <1>10. /\ IsSeq(w) /\ Len(w) = L + n + 2
         /\ w[b + 1] = [k |-> "range", id |-> sig, range |-> r]
         /\ w[b + 2] = [k |-> "contents", id |-> sig, cms |-> c]
         /\ \A i \in 1 .. L + n + 2 : i # b + 1 /\ i # b + 2 => w[i] = F[i]
    <2>1. F[b + 1] = p[at + 1] /\ F[b + 2] = p[at + 2]
          /\ b + 1 \in 1 .. Len(F) /\ b + 2 \in 1 .. Len(F)
      BY <1>4, <1>9
    <2>2. /\ F[b + 1] = [k |-> "range", id |-> sig, range |-> F[b + 1].range]
          /\ F[b + 2] = [k |-> "contents", id |-> sig, cms |-> F[b + 2].cms]
      BY <1>6, <2>1
    <2>3. Wrote(w, F, b, sig, r, c)
      BY <1>4, <1>9, <2>1, <2>2, WriteIs
    <2> HIDE DEF w
    <2> QED
      BY <1>9, <2>3 DEF Wrote
  <1> HIDE DEF w
  <1> DEFINE Q == f \o q
  <1>11. /\ IsSeq(Q) /\ Len(Q) = L + n + 2
         /\ \A i \in 1 .. L : Q[i] = f[i]
         /\ \A j \in 1 .. n + 2 : Q[L + j] = q[j]
    <2>1. /\ IsSeq(Q) /\ Len(Q) = Len(f) + Len(q)
          /\ \A i \in 1 .. Len(f) : Q[i] = f[i]
          /\ \A j \in 1 .. Len(q) : Q[Len(f) + j] = q[j]
      BY <1>7, Joined
    <2> HIDE DEF Q
    <2> QED
      BY <1>1, <1>7, <2>1 DEF L
  <1> HIDE DEF Q
  <1>12. \A i \in 1 .. L + n + 2 : w[i] = Q[i]
    <2>1. SUFFICES ASSUME NEW i \in 1 .. L + n + 2 PROVE w[i] = Q[i]
      OBVIOUS
    <2>2. CASE i \in 1 .. L
      <3>1. i # b + 1 /\ i # b + 2
        BY <1>1, <1>4, <2>2
      <3> QED
        BY <1>9, <1>10, <1>11, <2>2, <3>1
    <2>3. ASSUME NEW j \in 1 .. n + 2, i = L + j PROVE w[i] = Q[i]
      <3>1. Q[i] = q[j] /\ F[i] = p[j]
        BY <1>9, <1>11, <2>3
      <3>2. CASE j = at + 1
        BY <1>4, <1>7, <1>10, <2>3, <3>1, <3>2
      <3>3. CASE j = at + 2
        BY <1>4, <1>7, <1>10, <2>3, <3>1, <3>3
      <3>4. CASE j # at + 1 /\ j # at + 2
        <4>1. i # b + 1 /\ i # b + 2
          BY <1>1, <1>4, <2>3, <3>4
        <4> QED
          BY <1>7, <1>10, <3>1, <3>4, <4>1
      <3> QED
        BY <3>2, <3>3, <3>4
    <2> QED
      BY <1>9, <2>2, <2>3
  <1>13. w = Q
    BY <1>10, <1>11, <1>12, SameSeq
  <1> QED
    BY <1>8, <1>13 DEF Q, w, b, F, L

(* Where the signature sig of n cells behind f has its two cells.          *)
TwoCells(F, f, n, b, sig, v) ==
  /\ b \in Nat /\ n \in Nat /\ Len(f) <= b /\ b + 2 <= Len(f) + n
  /\ IsSeq(F) /\ Len(F) = Len(f) + n + 2
  /\ F[b + 1] = [k |-> "range", id |-> sig, range |-> v.range]
  /\ F[b + 2] = [k |-> "contents", id |-> sig, cms |-> v.cms]

(* Where the two cells of a signature behind a file stand.                 *)
LEMMA RangeCell ==
  ASSUME NEW f, NEW p, NEW n, NEW o, NEW prev, IsSeq(f),
         Piece(p, n, Len(f), o, prev), NEW sig \in DOMAIN o, IsSig(o[sig])
  PROVE  TwoCells(f \o p, f, n, p[n + 1].entries[sig], sig, o[sig])
  <1> DEFINE L == Len(f)
             F == f \o p
             b == p[n + 1].entries[sig]
  <1>1. L \in Nat /\ n \in Nat
    BY SeqFacts DEF Piece, Framed
  <1>2. PICK a \in 0 .. n - 1 : /\ b = L + a /\ Holds(p, a, sig, o[sig])
                                /\ a + 1 \in 0 .. n - 1
    BY DEF Piece, Found
  <1>3. Behind(F, f, p, n)
    BY AppendedCells
  <1> HIDE DEF b, F
  <1>4. /\ a + 1 \in 1 .. n + 2 /\ a + 2 \in 1 .. n + 2
        /\ b + 1 = L + (a + 1) /\ b + 2 = L + (a + 2)
        /\ b \in Nat /\ L <= b /\ b + 2 <= L + n
    BY <1>1, <1>2
  <1>5. F[b + 1] = p[a + 1] /\ F[b + 2] = p[a + 2]
    BY <1>3, <1>4 DEF Behind
  <1> QED
    BY <1>1, <1>2, <1>3, <1>4, <1>5 DEF Behind, Holds, TwoCells, F, b

(* The cells of the /Contents of a piece are those of its signatures.      *)
LEMMA ContentsAre ==
  ASSUME NEW p, NEW n, NEW o, NEW prev, Piece(p, n, 0, o, prev)
  PROVE  LET e == p[n + 1].entries
         IN  /\ \A i \in 1 .. n + 2 :
                  p[i].k = "contents" => /\ p[i].id \in DOMAIN o /\ IsSig(o[p[i].id])
                                         /\ i = e[p[i].id] + 2
                                         /\ p[i].cms = o[p[i].id].cms
             /\ \A id \in DOMAIN o :
                  IsSig(o[id]) => /\ e[id] \in Nat /\ e[id] + 2 \in 1 .. n
                                  /\ p[e[id] + 1].k = "range"
                                  /\ p[e[id] + 1].range = o[id].range
                                  /\ p[e[id] + 2].k = "contents"
                                  /\ p[e[id] + 2].id = id
                                  /\ p[e[id] + 2].cms = o[id].cms
  <1> DEFINE e == p[n + 1].entries
  <1>1. n \in Nat /\ p[n + 1].k = "xref" /\ p[n + 2].k = "startxref"
    BY DEF Piece, Framed
  <1>2. \A id \in DOMAIN o : \E at \in 0 .. n - 1 : /\ e[id] = 0 + at
                                                    /\ Holds(p, at, id, o[id])
                                                    /\ IsSig(o[id]) => at + 1 \in 0 .. n - 1
    BY DEF Piece, Found
  <1>3. \A i \in 1 .. n :
          /\ p[i].id \in DOMAIN o
          /\ p[i].k # "object" <=> IsSig(o[p[i].id])
          /\ 0 + i = e[p[i].id] + (IF p[i].k = "contents" THEN 2 ELSE 1)
    BY DEF Piece, Filled
  <1> HIDE DEF e
  <1>4. ASSUME NEW id \in DOMAIN o, IsSig(o[id])
        PROVE  /\ e[id] \in Nat /\ e[id] + 2 \in 1 .. n
               /\ p[e[id] + 1] = [k |-> "range", id |-> id, range |-> o[id].range]
               /\ p[e[id] + 2] = [k |-> "contents", id |-> id, cms |-> o[id].cms]
    <2>1. PICK at \in 0 .. n - 1 : /\ e[id] = 0 + at
                                   /\ Holds(p, at, id, o[id])
                                   /\ IsSig(o[id]) => at + 1 \in 0 .. n - 1
      BY <1>2
    <2>2. e[id] = at /\ at + 2 \in 1 .. n
      BY <1>1, <1>4, <2>1
    <2> QED
      BY <1>4, <2>1, <2>2 DEF Holds
  <1>5. ASSUME NEW i \in 1 .. n + 2, p[i].k = "contents"
        PROVE  /\ p[i].id \in DOMAIN o /\ IsSig(o[p[i].id])
               /\ i = e[p[i].id] + 2 /\ p[i].cms = o[p[i].id].cms
    <2>1. i \in 1 .. n
      <3>1. i \in 1 .. n \/ i = n + 1 \/ i = n + 2
        BY <1>1
      <3> QED
        BY <1>1, <1>5, <3>1
    <2>2. p[i].id \in DOMAIN o /\ IsSig(o[p[i].id]) /\ 0 + i = e[p[i].id] + 2
      BY <1>3, <1>5, <2>1
    <2>3. i = e[p[i].id] + 2
      BY <2>1, <2>2
    <2>4. p[e[p[i].id] + 2] = [k |-> "contents", id |-> p[i].id, cms |-> o[p[i].id].cms]
      BY <1>4, <2>2
    <2>5. p[i].cms = o[p[i].id].cms
      <3> DEFINE d == o[p[i].id].cms
                 u == p[i].id
      <3>1. p[i] = [k |-> "contents", id |-> u, cms |-> d]
        BY <2>3, <2>4
      <3> HIDE DEF d, u
      <3>2. p[i].cms = d
        BY <3>1
      <3> QED
        BY <3>2 DEF d
    <2> QED
      BY <2>2, <2>3, <2>5
  <1>6. \A id \in DOMAIN o :
          IsSig(o[id]) => /\ e[id] \in Nat /\ e[id] + 2 \in 1 .. n
                          /\ p[e[id] + 1].k = "range"
                          /\ p[e[id] + 1].range = o[id].range
                          /\ p[e[id] + 2].k = "contents"
                          /\ p[e[id] + 2].id = id
                          /\ p[e[id] + 2].cms = o[id].cms
    <2>1. SUFFICES ASSUME NEW id \in DOMAIN o, IsSig(o[id]), NEW x, NEW y,
                          x = p[e[id] + 1], y = p[e[id] + 2]
                   PROVE  /\ e[id] \in Nat /\ e[id] + 2 \in 1 .. n
                          /\ x.k = "range" /\ x.range = o[id].range
                          /\ y.k = "contents" /\ y.id = id /\ y.cms = o[id].cms
      OBVIOUS
    <2>2. /\ e[id] \in Nat /\ e[id] + 2 \in 1 .. n
          /\ x = [k |-> "range", id |-> id, range |-> o[id].range]
          /\ y = [k |-> "contents", id |-> id, cms |-> o[id].cms]
      BY <1>4, <2>1
    <2> QED
      BY <2>2
  <1> QED
    BY <1>5, <1>6 DEF e

(* Min and Max, by what they choose.                                       *)
LEMMA LeastIs ==
  ASSUME NEW m, NEW I, I = {m}, m \in Nat
  PROVE  Min(I) = m
  <1>1. \A x \in I : (\A y \in I : x =< y) <=> x = m
    OBVIOUS
  <1> QED
    BY <1>1 DEF Min

(* A member that bounds all members is the greatest.                       *)
LEMMA GreatestIs ==
  ASSUME NEW I, I \subseteq Nat, NEW m \in I, \A i \in I : i <= m
  PROVE  Max(I) = m
  <1>1. \A x \in I : (\A y \in I : x >= y) <=> x = m
    OBVIOUS
  <1> QED
    BY <1>1 DEF Max

(* The placeholder is found where SaveTo put it, and its ranges before it. *)
LEMMA PlaceholderFound ==
  ASSUME NEW p, NEW n, NEW o, NEW prev, Piece(p, n, 0, o, prev),
         NEW sig \in DOMAIN o, IsSig(o[sig]), o[sig].cms = Zeros,
         \A id \in DOMAIN o : IsSig(o[id]) /\ o[id].cms = Zeros => id = sig
  PROVE  /\ FindContentsHex(p) = p[n + 1].entries[sig] + 1
         /\ FindByteRange(p, p[n + 1].entries[sig] + 1) = p[n + 1].entries[sig]
  <1> DEFINE e == p[n + 1].entries
             b == e[sig]
             I == {i \in 1 .. Len(p) : p[i].k = "contents" /\ p[i].cms = Zeros}
             t == SubSeq(p, 1, b + 1)
             J == {i \in 1 .. Len(t) : t[i].k = "range"}
  <1>1. n \in Nat /\ Len(p) = n + 2 /\ IsSeq(p)
    BY DEF Piece, Framed
  <1>2. \A i \in 1 .. n + 2 :
          p[i].k = "contents" => /\ p[i].id \in DOMAIN o /\ IsSig(o[p[i].id])
                                 /\ i = e[p[i].id] + 2
                                 /\ p[i].cms = o[p[i].id].cms
    BY ContentsAre
  <1>3. /\ b \in Nat /\ b + 2 \in 1 .. n /\ p[b + 1].k = "range"
        /\ p[b + 2].k = "contents" /\ p[b + 2].cms = Zeros
    BY ContentsAre
  <1> HIDE DEF e
  <1>4. I = {b + 2}
    <2>1. b + 2 \in 1 .. Len(p)
      BY <1>1, <1>3
    <2>2. \A i \in I : i = b + 2
      BY <1>1, <1>2
    <2> QED
      BY <1>3, <2>1, <2>2
  <1>5. FindContentsHex(p) = b + 1
    <2>1. FindContentsHex(p) = (IF I # {} THEN Min(I) ELSE 0) - 1
      BY DEF FindContentsHex, SelectInSeq
    <2>2. Min(I) = b + 2 /\ I # {}
      BY <1>3, <1>4, LeastIs
    <2> HIDE DEF I
    <2> QED
      BY <1>3, <2>1, <2>2
  <1>6. Len(t) = b + 1 /\ \A i \in 1 .. b + 1 : t[i] = p[i]
    <2>1. \A i \in 1 .. b + 1 : p[i] \in Range(p)
      <3>1. DOMAIN p = 1 .. n + 2 /\ \A i \in 1 .. b + 1 : i \in 1 .. n + 2
        BY <1>1, <1>3, SeqFacts
      <3> QED
        BY <3>1 DEF Range
    <2>2. b + 1 \in Int /\ 1 <= b + 1 /\ b + 1 - 1 + 1 = b + 1
      BY <1>3
    <2> HIDE DEF b
    <2>3. /\ Len(t) = IF 1 <= b + 1 THEN b + 1 - 1 + 1 ELSE 0
          /\ \A i \in 1 .. b + 1 - 1 + 1 : t[i] = p[1 + i - 1]
      BY <2>1, <2>2, SubSeqProperties
    <2> QED
      BY <2>2, <2>3
  <1>7. b + 1 \in J /\ J \subseteq Nat /\ \A i \in J : i <= b + 1
    BY <1>3, <1>6
  <1>8. FindByteRange(p, b + 1) = b
    <2>1. FindByteRange(p, b + 1) = (IF J # {} THEN Max(J) ELSE 0) - 1
      BY DEF FindByteRange, SelectLastInSeq
    <2> HIDE DEF J, t
    <2>2. Max(J) = b + 1
      BY <1>7, GreatestIs
    <2> QED
      BY <1>3, <1>7, <2>1, <2>2
  <1> QED
    BY <1>5, <1>8 DEF e

(* In a document of one revision the last signature is the one with the    *)
(* greatest number.                                                        *)
LEMMA LastFound ==
  ASSUME NEW p, NEW n, NEW o, NEW prev, Piece(p, n, 0, o, prev), ObjMap(o),
         NEW sig \in DOMAIN o, IsSig(o[sig]),
         \A id \in DOMAIN o : IsSig(o[id]) => id <= sig
  PROVE  SelectLastInSeq(p, LAMBDA c : c.k = "contents") = p[n + 1].entries[sig] + 2
  <1> DEFINE e == p[n + 1].entries
             b == e[sig]
             I == {i \in 1 .. Len(p) : p[i].k = "contents"}
  <1>1. n \in Nat /\ Len(p) = n + 2
    BY DEF Piece, Framed
  <1>2. \A i \in 1 .. n + 2 :
          p[i].k = "contents" => /\ p[i].id \in DOMAIN o /\ IsSig(o[p[i].id])
                                 /\ i = e[p[i].id] + 2
    BY ContentsAre
  <1>3. /\ b \in Nat /\ b + 2 \in 1 .. n /\ p[b + 2].k = "contents"
        /\ \A id \in DOMAIN o : IsSig(o[id]) => e[id] \in Nat
    BY ContentsAre
  <1>4. \A x, y \in DOMAIN o : x < y => e[x] < e[y]
    BY DEF Piece, InOrder
  <1>5. \A id \in DOMAIN o : id \in Nat
    BY DEF ObjMap
  <1> HIDE DEF e
  <1>6. b + 2 \in I
    BY <1>1, <1>3
  <1>7. \A i \in I : i <= b + 2
    <2>1. SUFFICES ASSUME NEW i \in I PROVE i <= b + 2
      OBVIOUS
    <2>2. PICK id \in DOMAIN o : IsSig(o[id]) /\ i = e[id] + 2
      BY <1>1, <1>2, <2>1
    <2>3. id = sig \/ id < sig
      BY <1>5, <2>2
    <2> QED
      BY <1>3, <1>4, <2>2, <2>3
  <1>8. I \subseteq Nat
    OBVIOUS
  <1>9. SelectLastInSeq(p, LAMBDA c : c.k = "contents") = IF I # {} THEN Max(I) ELSE 0
    BY DEF SelectLastInSeq
  <1> HIDE DEF I, b
  <1>10. Max(I) = b + 2
    BY <1>6, <1>7, <1>8, GreatestIs
  <1> QED
    BY <1>6, <1>9, <1>10 DEF b, e

-----------------------------------------------------------------------------
(* Documents: what LoadMem gives of every file of a behaviour.  The        *)
(* objects of the original are no signatures, and no /Contents still waits *)
(* for its CMS.                                                            *)
Doc(o) ==
  /\ ObjMap(o) /\ {Catalog, Page, TextField} \subseteq DOMAIN o
  /\ \A id \in DOMAIN o : id <= TextField => ~IsSig(o[id])
  /\ \A id \in DOMAIN o : IsSig(o[id]) => o[id].cms # Zeros
  /\ o[Catalog] = [form |-> o[Catalog].form, dss |-> o[Catalog].dss]

(* The store, if there is one, names a signature other than sig.           *)
StoreOK(o, sig) ==
  o[Catalog].dss # 0 =>
    /\ o[Catalog].dss \in DOMAIN o \ {sig} /\ o[Catalog].dss > TextField
    /\ \E id \in DOMAIN o :
         id # sig /\ IsSig(o[id]) /\ o[id].cms = o[o[Catalog].dss].vri.cms

(* What Prepare makes of the objects x of a document whose highest number  *)
(* is top: the lists of x change, and a signature and its field are new.   *)
Prepared(D, x, top) ==
  /\ ObjMap(D) /\ DOMAIN D = DOMAIN x \cup {top + 1, top + 2}
  /\ IsSig(D[top + 1]) /\ D[top + 1].cms = Zeros
  /\ D[top + 2] = [sig |-> top + 1] /\ ~IsSig(D[top + 2])
  /\ \A id \in DOMAIN x : id >= TextField => D[id] = x[id]
  /\ \A id \in DOMAIN x : id <= TextField => ~IsSig(D[id])
  /\ D[Catalog] = [form |-> D[Catalog].form, dss |-> x[Catalog].dss]

(* The objects a signing starts from: those of a document that it repeats. *)
Source(x, top) ==
  /\ ObjMap(x) /\ {Catalog, Page} \subseteq DOMAIN x
  /\ \A id \in DOMAIN x : id <= TextField => ~IsSig(x[id])
  /\ x[Catalog] = [form |-> x[Catalog].form, dss |-> x[Catalog].dss]
  /\ top \in Nat /\ top >= TextField /\ \A id \in DOMAIN x : id <= top

Added(x, top) == Hide(x, NewSignature(top + 1, top + 2))

(* Adding the two objects of a signature prepares a document.              *)
LEMMA AddedIs ==
  ASSUME NEW x, NEW top, Source(x, top)
  PROVE  Prepared(Added(x, top), x, top)
  <1> DEFINE N == NewSignature(top + 1, top + 2)
             D == Added(x, top)
             v == [range |-> <<0, Nowhere, Nowhere, Nowhere>>, cms |-> Zeros]
             w == [sig |-> top + 1]
  <1>1. /\ top \in Nat /\ top >= 6 /\ IsFiniteSet(DOMAIN x) /\ DOMAIN x \subseteq Nat \ {0}
        /\ \A id \in DOMAIN x : id <= top /\ id # top + 1 /\ id # top + 2
    BY DEF Source, ObjMap, TextField
  <1>2. /\ DOMAIN N = {top + 1, top + 2} /\ N[top + 1] = v
    BY DEF NewSignature
  <1>3. N[top + 2] = w
    <2>1. top + 2 # top + 1
      BY <1>1
    <2> QED
      BY <2>1 DEF NewSignature
  <1>4. IsSig(v) /\ ~IsSig(w) /\ v = [range |-> v.range, cms |-> v.cms] /\ v.cms = Zeros
    BY DEF IsSig
  <1> HIDE DEF N, v
  <1>5. /\ D = [id \in DOMAIN x \cup {top + 1, top + 2} |->
                  IF id \in {top + 1, top + 2} THEN N[id] ELSE x[id]]
    BY <1>2 DEF Added, Hide, N
  <1> HIDE DEF D
  <1>6. /\ DOMAIN D = DOMAIN x \cup {top + 1, top + 2}
        /\ D = [id \in DOMAIN D |-> D[id]]
        /\ D[top + 1] = v /\ D[top + 2] = w
        /\ \A id \in DOMAIN x : D[id] = x[id]
    BY <1>1, <1>2, <1>3, <1>5
  <1>7. IsFiniteSet(DOMAIN D) /\ DOMAIN D \subseteq Nat \ {0}
    <2>1. IsFiniteSet(DOMAIN x \cup {top + 1})
      BY <1>1, FS_AddElement
    <2>2. IsFiniteSet((DOMAIN x \cup {top + 1}) \cup {top + 2})
      BY <2>1, FS_AddElement
    <2>3. (DOMAIN x \cup {top + 1}) \cup {top + 2} = DOMAIN D
      BY <1>6
    <2> QED
      BY <1>1, <1>6, <2>2, <2>3
  <1>8. ObjMap(D)
    <2>1. \A id \in DOMAIN D :
            IsSig(D[id]) => D[id] = [range |-> D[id].range, cms |-> D[id].cms]
      <3>1. SUFFICES ASSUME NEW id \in DOMAIN D, IsSig(D[id])
                     PROVE  D[id] = [range |-> D[id].range, cms |-> D[id].cms]
        OBVIOUS
      <3>2. CASE id = top + 1
        BY <1>4, <1>6, <3>2
      <3>3. CASE id = top + 2
        BY <1>4, <1>6, <3>1, <3>3
      <3>4. CASE id \in DOMAIN x
        BY <1>6, <3>1, <3>4 DEF ObjMap, Source
      <3> QED
        BY <1>6, <3>1, <3>2, <3>3, <3>4
    <2> QED
      BY <1>6, <1>7, <2>1 DEF ObjMap
  <1>9. D[Catalog] = x[Catalog] /\ x[Catalog] = [form |-> x[Catalog].form, dss |-> x[Catalog].dss]
    BY <1>6 DEF Source
  <1>10. /\ \A id \in DOMAIN x : id >= TextField => D[id] = x[id]
         /\ \A id \in DOMAIN x : id <= TextField => ~IsSig(D[id])
    BY <1>6 DEF Source
  <1>11. IsSig(D[top + 1]) /\ D[top + 1].cms = Zeros
    BY <1>4, <1>6
  <1>12. D[top + 2] = w /\ ~IsSig(D[top + 2])
    BY <1>4, <1>6
  <1>13. D[Catalog] = [form |-> D[Catalog].form, dss |-> x[Catalog].dss]
    BY <1>9
  <1> QED
    BY <1>6, <1>8, <1>10, <1>11, <1>12, <1>13 DEF Prepared, D

(* So does then changing an object that holds lists.                       *)
LEMMA Relisted ==
  ASSUME NEW x, NEW top, Source(x, top), NEW D, Prepared(D, x, top),
         NEW i \in {Catalog, Page, FormDict, FieldsArray}, NEW v,
         i \in DOMAIN x => ~IsSig(v),
         i = Catalog => v = [form |-> v.form, dss |-> x[Catalog].dss]
  PROVE  Prepared([D EXCEPT ![i] = v], x, top)
  <1> DEFINE E == [D EXCEPT ![i] = v]
  <1>1. /\ D = [id \in DOMAIN D |-> D[id]] /\ IsFiniteSet(DOMAIN D)
        /\ DOMAIN D \subseteq Nat \ {0}
        /\ \A id \in DOMAIN D :
             IsSig(D[id]) => D[id] = [range |-> D[id].range, cms |-> D[id].cms]
    BY DEF Prepared, ObjMap
  <1>2. /\ DOMAIN D = DOMAIN x \cup {top + 1, top + 2} /\ Catalog \in DOMAIN x
        /\ top \in Nat /\ i # top + 1 /\ i # top + 2 /\ i <= TextField
    BY DEF Prepared, Source, Catalog, Page, FormDict, FieldsArray, TextField
  <1>3. /\ E = [id \in DOMAIN D |-> E[id]] /\ DOMAIN E = DOMAIN D
        /\ \A id \in DOMAIN D : id # i => E[id] = D[id]
        /\ i \in DOMAIN D => E[i] = v
    BY <1>1
  <1> HIDE DEF E
  <1>4. i \in DOMAIN D => i \in DOMAIN x
    BY <1>2
  <1>5. ObjMap(E)
    BY <1>1, <1>3, <1>4 DEF ObjMap
  <1>6. E[Catalog] = [form |-> E[Catalog].form, dss |-> x[Catalog].dss]
    <2>1. Catalog \in DOMAIN D
      BY <1>2
    <2>2. CASE i = Catalog
      <3>1. E[Catalog] = v
        BY <1>3, <2>1, <2>2
      <3> QED
        BY <2>2, <3>1
    <2>3. CASE i # Catalog
      <3>1. E[Catalog] = D[Catalog]
        BY <1>3, <2>1, <2>3
      <3> QED
        BY <3>1 DEF Prepared
    <2> QED
      BY <2>2, <2>3
  <1>7. /\ \A id \in DOMAIN x : id >= TextField => E[id] = x[id]
        /\ \A id \in DOMAIN x : id <= TextField => ~IsSig(E[id])
    <2>1. /\ \A id \in DOMAIN x : id >= TextField => D[id] = x[id]
          /\ \A id \in DOMAIN x : id <= TextField => ~IsSig(D[id])
      BY DEF Prepared
    <2>2. \A id \in DOMAIN x : id \in DOMAIN D /\ (id # i \/ id <= TextField)
      BY <1>2
    <2>3. \A id \in DOMAIN x : id >= TextField => id # i
      <3>1. i \in 1 .. 5
        BY DEF Catalog, Page, FormDict, FieldsArray
      <3> QED
        BY <3>1 DEF TextField
    <2> QED
      BY <1>3, <1>4, <2>1, <2>2, <2>3
  <1>8. E[top + 1] = D[top + 1] /\ E[top + 2] = D[top + 2]
    BY <1>2, <1>3
  <1> QED
    <2>1. /\ IsSig(D[top + 1]) /\ D[top + 1].cms = Zeros
          /\ D[top + 2] = [sig |-> top + 1] /\ ~IsSig(D[top + 2])
      BY DEF Prepared
    <2> QED
      BY <1>2, <1>3, <1>5, <1>6, <1>7, <1>8, <2>1 DEF Prepared, E

(* A catalog with another form keeps its other entry and is no             *)
(* signature.                                                              *)
LEMMA FormChanged ==
  ASSUME NEW c, NEW d, c = [form |-> c.form, dss |-> d], NEW y
  PROVE  LET v == [c EXCEPT !.form = y]
         IN  ~IsSig(v) /\ v = [form |-> v.form, dss |-> d] /\ v.form = y
  <1>1. [c EXCEPT !.form = y] = [form |-> y, dss |-> d]
    OBVIOUS
  <1> QED
    BY <1>1 DEF IsSig

(* Prepare adds the objects of a signature and changes only lists.         *)
LEMMA PrepareIs ==
  ASSUME NEW x, NEW top, Source(x, top)
  PROVE  Prepared(Prepare(x, top), x, top)
  <1> DEFINE field == top + 2
             A == Added(x, top)
             kept == IF A[Page].annots.at = "inline" THEN A[Page].annots.ids ELSE << >>
             l == List("inline", Append(kept, field))
             B == [A EXCEPT ![Page].annots = l]
  <1>1. Prepared(A, x, top)
    BY AddedIs
  <1> HIDE DEF A
  <1>2. B = AddToPage(A, field)
    BY DEF AddToPage
  <1> HIDE DEF l
  <1>3. Prepared(B, x, top)
    <2> DEFINE v == [A[Page] EXCEPT !.annots = l]
    <2>1. Page \in DOMAIN x /\ Page <= TextField /\ Page # Catalog
          /\ Page \in {Catalog, Page, FormDict, FieldsArray}
      BY DEF Source, Catalog, Page, TextField
    <2>2. ~IsSig(A[Page])
      BY <1>1, <2>1 DEF Prepared
    <2>3. ~IsSig(v)
      BY <2>2 DEF IsSig
    <2>4. B = [A EXCEPT ![Page] = v]
      OBVIOUS
    <2> HIDE DEF v, B
    <2> QED
      BY <1>1, <2>1, <2>3, <2>4, Relisted
  <1> HIDE DEF B
  <1> DEFINE form == B[Catalog].form
             inDict == form.at = "ref" /\ FormDict \in DOMAIN B
             known == form.at = "inline" \/ inDict
             fields == IF inDict THEN B[FormDict].fields ELSE form.fields
             longer == List("inline", Append(fields.ids, field))
             C == EnsureAcroForm(B, field)
  <1>4. C = IF known /\ fields.at # "ref" THEN
              IF inDict THEN [B EXCEPT ![FormDict].fields = longer]
                        ELSE [B EXCEPT ![Catalog].form.fields = longer]
            ELSE IF known /\ FieldsArray \in DOMAIN B THEN
              [B EXCEPT ![FieldsArray].ids = Append(@, field)]
            ELSE [B EXCEPT ![Catalog].form = Inline(field)]
    BY DEF EnsureAcroForm
  <1>5. C = Prepare(x, top)
    BY <1>2 DEF Prepare, Added, A
  <1>6. B[Catalog] = [form |-> form, dss |-> x[Catalog].dss]
    BY <1>3 DEF Prepared
  <1>7. /\ \A id \in DOMAIN x : id <= TextField => ~IsSig(B[id])
        /\ Catalog <= TextField /\ FormDict <= TextField /\ FieldsArray <= TextField
        /\ Catalog # FormDict /\ Catalog # FieldsArray
    BY <1>3 DEF Prepared, Catalog, FormDict, FieldsArray, TextField
  <1> HIDE DEF C, known, fields, longer, inDict, field
  <1>8. ASSUME NEW d, d = [B EXCEPT ![Catalog].form = Inline(field)]
        PROVE  Prepared(d, x, top)
    <2> DEFINE v == [B[Catalog] EXCEPT !.form = Inline(field)]
    <2>1. d = [B EXCEPT ![Catalog] = v]
      BY <1>8
    <2>2. ~IsSig(v) /\ v = [form |-> v.form, dss |-> x[Catalog].dss]
      BY <1>6, FormChanged
    <2> HIDE DEF v
    <2> QED
      BY <1>3, <2>1, <2>2, Relisted
  <1>9. ASSUME NEW d, d = [B EXCEPT ![Catalog].form.fields = longer]
        PROVE  Prepared(d, x, top)
    <2> DEFINE v == [B[Catalog] EXCEPT !.form = [@ EXCEPT !.fields = longer]]
    <2>1. d = [B EXCEPT ![Catalog] = v]
      BY <1>9
    <2>2. ~IsSig(v) /\ v = [form |-> v.form, dss |-> x[Catalog].dss]
      BY <1>6, FormChanged
    <2> HIDE DEF v
    <2> QED
      BY <1>3, <2>1, <2>2, Relisted
  <1>10. ASSUME NEW d, d = [B EXCEPT ![FormDict].fields = longer]
         PROVE  Prepared(d, x, top)
    <2> DEFINE v == [B[FormDict] EXCEPT !.fields = longer]
    <2>1. d = [B EXCEPT ![FormDict] = v]
      BY <1>10
    <2>2. FormDict \in DOMAIN x => ~IsSig(v)
      BY <1>7 DEF IsSig
    <2> HIDE DEF v
    <2> QED
      BY <1>3, <1>7, <2>1, <2>2, Relisted
  <1>11. ASSUME NEW d, d = [B EXCEPT ![FieldsArray].ids = Append(@, field)]
         PROVE  Prepared(d, x, top)
    <2> DEFINE v == [B[FieldsArray] EXCEPT !.ids = Append(@, field)]
    <2>1. d = [B EXCEPT ![FieldsArray] = v]
      BY <1>11
    <2>2. FieldsArray \in DOMAIN x => ~IsSig(v)
      BY <1>7 DEF IsSig
    <2> HIDE DEF v
    <2> QED
      BY <1>3, <1>7, <2>1, <2>2, Relisted
  <1>12. Prepared(C, x, top)
    BY <1>4, <1>8, <1>9, <1>10, <1>11
  <1> QED
    BY <1>5, <1>12

(* The objects of o that are no lists are in O, with the field of sig.     *)
Fielded(o, O, sig, field) ==
  /\ field \in DOMAIN O /\ O[field] = [sig |-> sig] /\ field \in Nat /\ field > TextField
  /\ \A id \in DOMAIN o : id \in DOMAIN O /\ (id >= TextField => O[id] = o[id])

(* What a signing does to the signatures of o: sig is new.                 *)
SigsKept(o, O, sig) ==
  /\ DOMAIN o \subseteq DOMAIN O /\ sig \in Signatures(O)
  /\ Signatures(O) = Signatures(o) \cup {sig} /\ sig \notin Signatures(o)
  /\ \A id \in Signatures(o) : O[id] = o[id]

IsLast(o, sig) ==
  sig \in DOMAIN o /\ IsSig(o[sig]) /\ \A id \in DOMAIN o : IsSig(o[id]) => id <= sig

(* x is what a signing repeats of the objects o: all of them, or some.     *)
Repeats(x, o) ==
  /\ x = [id \in DOMAIN x |-> x[id]] /\ {Catalog, Page} \subseteq DOMAIN x
  /\ DOMAIN x \subseteq DOMAIN o /\ \A id \in DOMAIN x : x[id] = o[id]

(* What carry_over_structure repeats is from the document.                 *)
LEMMA CarryOverIs ==
  ASSUME NEW o, Doc(o)
  PROVE  Repeats(o, o) /\ Repeats(CarryOver(o), o)
  <1>1. o = [id \in DOMAIN o |-> o[id]] /\ {Catalog, Page} \subseteq DOMAIN o
    BY DEF Doc, ObjMap
  <1> DEFINE kept == {Catalog, Page} \cup
                     (IF o[Catalog].form.at = "ref" THEN {FormDict} ELSE {})
  <1>2. {Catalog, Page} \subseteq kept \cap DOMAIN o
    BY <1>1
  <1>3. CarryOver(o) = [id \in kept \cap DOMAIN o |-> o[id]]
    BY DEF CarryOver
  <1> HIDE DEF kept
  <1> QED
    BY <1>1, <1>2, <1>3 DEF Repeats

(* What is repeated of a document can be prepared.                         *)
LEMMA SourceIs ==
  ASSUME NEW o, Doc(o), NEW x, Repeats(x, o), NEW top \in DOMAIN o,
         \A id \in DOMAIN o : id <= top
  PROVE  Source(x, top)
  <1>1. /\ IsFiniteSet(DOMAIN o) /\ DOMAIN o \subseteq Nat \ {0}
        /\ \A id \in DOMAIN o :
             IsSig(o[id]) => o[id] = [range |-> o[id].range, cms |-> o[id].cms]
        /\ {Catalog, Page, TextField} \subseteq DOMAIN o
        /\ \A id \in DOMAIN o : id <= TextField => ~IsSig(o[id])
        /\ o[Catalog] = [form |-> o[Catalog].form, dss |-> o[Catalog].dss]
    BY DEF Doc, ObjMap
  <1>2. /\ x = [id \in DOMAIN x |-> x[id]] /\ {Catalog, Page} \subseteq DOMAIN x
        /\ DOMAIN x \subseteq DOMAIN o /\ \A id \in DOMAIN x : x[id] = o[id]
    BY DEF Repeats
  <1>3. IsFiniteSet(DOMAIN x)
    BY <1>1, <1>2, FS_Subset
  <1>4. ObjMap(x)
    <2>1. \A id \in DOMAIN x :
            IsSig(x[id]) => x[id] = [range |-> x[id].range, cms |-> x[id].cms]
      BY <1>1, <1>2
    <2> QED
      BY <1>1, <1>2, <1>3, <2>1 DEF ObjMap
  <1>5. x[Catalog] = o[Catalog]
    BY <1>2
  <1>6. top \in Nat /\ TextField <= top /\ TextField \in Nat
    BY <1>1 DEF TextField
  <1>7. \A id \in DOMAIN x : id <= TextField => ~IsSig(x[id])
    BY <1>1, <1>2
  <1>8. top >= TextField
    BY <1>6
  <1> QED
    BY <1>1, <1>2, <1>4, <1>5, <1>6, <1>7, <1>8 DEF Source

(* A signed document, as its readers load it: the objects o, and over them *)
(* what the signing wrote.                                                 *)
LEMMA SignedDoc ==
  ASSUME NEW o, Doc(o), StoreOK(o, 0), NEW x, Repeats(x, o),
         NEW top \in DOMAIN o, \A id \in DOMAIN o : id <= top,
         NEW D, Prepared(D, x, top), NEW r, NEW c, c # Zeros
  PROVE  LET O == Hide(o, Filling(D, top + 1, r, c))
         IN  /\ Doc(O) /\ IsLast(O, top + 1)
             /\ O[top + 1] = [range |-> r, cms |-> c]
             /\ StoreOK(O, top + 1) /\ SigsKept(o, O, top + 1)
             /\ top + 2 \in DOMAIN O /\ \A id \in DOMAIN o : id \in Nat /\ id < top + 2
             /\ Fielded(o, O, top + 1, top + 2)
  <1> DEFINE sig == top + 1
             P == Filling(D, sig, r, c)
             O == Hide(o, P)
  <1>1. /\ o = [id \in DOMAIN o |-> o[id]]
        /\ IsFiniteSet(DOMAIN o) /\ DOMAIN o \subseteq Nat \ {0}
        /\ \A id \in DOMAIN o :
             IsSig(o[id]) => o[id] = [range |-> o[id].range, cms |-> o[id].cms]
        /\ {Catalog, Page, TextField} \subseteq DOMAIN o
        /\ \A id \in DOMAIN o : id <= TextField => ~IsSig(o[id])
        /\ \A id \in DOMAIN o : IsSig(o[id]) => o[id].cms # Zeros
        /\ o[Catalog] = [form |-> o[Catalog].form, dss |-> o[Catalog].dss]
    BY DEF Doc, ObjMap
  <1>2. /\ {Catalog, Page} \subseteq DOMAIN x
        /\ DOMAIN x \subseteq DOMAIN o /\ \A id \in DOMAIN x : x[id] = o[id]
    BY DEF Repeats
  <1>3. /\ ObjMap(D) /\ DOMAIN D = DOMAIN x \cup {sig, top + 2}
        /\ IsSig(D[sig])
        /\ D[top + 2] = [sig |-> sig] /\ ~IsSig(D[top + 2])
        /\ \A id \in DOMAIN x : id >= TextField => D[id] = x[id]
        /\ \A id \in DOMAIN x : id <= TextField => ~IsSig(D[id])
        /\ D[Catalog] = [form |-> D[Catalog].form, dss |-> x[Catalog].dss]
    BY DEF Prepared
  <1>4. /\ ObjMap(P) /\ DOMAIN P = DOMAIN D
        /\ \A id \in DOMAIN D : IsSig(P[id]) <=> IsSig(D[id])
        /\ \A id \in DOMAIN D \ {sig} : P[id] = D[id]
        /\ P[sig] = [range |-> r, cms |-> c]
    BY <1>3, FillingIs
  <1>5. /\ P = [id \in DOMAIN P |-> P[id]] /\ IsFiniteSet(DOMAIN P)
        /\ DOMAIN P \subseteq Nat \ {0}
        /\ \A id \in DOMAIN P :
             IsSig(P[id]) => P[id] = [range |-> P[id].range, cms |-> P[id].cms]
    BY <1>4 DEF ObjMap
  <1> HIDE DEF P
  <1>6. /\ top \in Nat /\ sig = top + 1 /\ top >= 6 /\ TextField = 6 /\ Catalog = 1
        /\ \A id \in DOMAIN o : id <= top /\ id # sig /\ id # top + 2
    BY <1>1 DEF TextField, Catalog
  <1>7. /\ O = [id \in DOMAIN O |-> O[id]] /\ DOMAIN O = DOMAIN o \cup DOMAIN P
        /\ \A id \in DOMAIN P : O[id] = P[id]
        /\ \A id \in DOMAIN O \ DOMAIN P : O[id] = o[id]
    BY DEF Hide
  <1> HIDE DEF O, sig
  <1>8. ObjMap(O)
    <2>1. IsFiniteSet(DOMAIN o \cup DOMAIN P)
      BY <1>1, <1>5, FS_Union
    <2>2. IsFiniteSet(DOMAIN O) /\ DOMAIN O \subseteq Nat \ {0}
      BY <1>1, <1>5, <1>7, <2>1
    <2>3. \A id \in DOMAIN O :
            IsSig(O[id]) => O[id] = [range |-> O[id].range, cms |-> O[id].cms]
      <3>1. SUFFICES ASSUME NEW id \in DOMAIN O, IsSig(O[id])
                     PROVE  O[id] = [range |-> O[id].range, cms |-> O[id].cms]
        OBVIOUS
      <3>2. \/ id \in DOMAIN P /\ O[id] = P[id]
            \/ id \in DOMAIN o /\ O[id] = o[id]
        BY <1>7
      <3> QED
        BY <1>1, <1>5, <3>1, <3>2
    <2> QED
      BY <1>7, <2>2, <2>3 DEF ObjMap
  (* What became of the old objects.                                         *)
  <1>9. \A id \in DOMAIN o : /\ id \in DOMAIN O
                             /\ id >= TextField => O[id] = o[id]
                             /\ id <= TextField => ~IsSig(O[id])
    <2>1. SUFFICES ASSUME NEW id \in DOMAIN o
                   PROVE  /\ id >= TextField => O[id] = o[id]
                          /\ id <= TextField => ~IsSig(O[id])
      BY <1>7
    <2>2. CASE id \in DOMAIN P
      <3>1. id \in DOMAIN x /\ id # sig /\ O[id] = D[id]
        BY <1>3, <1>4, <1>6, <1>7, <2>2
      <3> QED
        BY <1>2, <1>3, <3>1
    <2>3. CASE id \notin DOMAIN P
      BY <1>1, <1>7, <2>3
    <2> QED
      BY <2>2, <2>3
  <1>10. /\ O[sig] = [range |-> r, cms |-> c] /\ sig \in DOMAIN O
         /\ O[top + 2] = D[top + 2]
    <2>1. sig # top + 2
      BY <1>6
    <2> QED
      BY <1>3, <1>4, <1>7, <2>1
  <1>11. IsSig(O[sig]) /\ ~IsSig(O[top + 2]) /\ O[sig].cms = c
    BY <1>3, <1>10 DEF IsSig
  <1>12. \A id \in DOMAIN O : id \in DOMAIN o \/ id = sig \/ id = top + 2
    BY <1>2, <1>3, <1>4, <1>7
  <1>13. O[Catalog] = [form |-> O[Catalog].form, dss |-> o[Catalog].dss]
    <2>1. Catalog \in DOMAIN x /\ Catalog \in DOMAIN D /\ Catalog # sig
      BY <1>1, <1>2, <1>3, <1>6
    <2>2. O[Catalog] = D[Catalog] /\ x[Catalog] = o[Catalog]
      BY <1>2, <1>4, <1>7, <2>1
    <2> QED
      BY <1>3, <2>2
  <1>14. Doc(O)
    <2>1. {Catalog, Page, TextField} \subseteq DOMAIN O
      BY <1>1, <1>7
    <2>2. \A id \in DOMAIN O : id <= TextField => ~IsSig(O[id])
      <3>1. ~(sig <= TextField)
        BY <1>6
      <3> QED
        BY <1>9, <1>11, <1>12, <3>1
    <2>3. \A id \in DOMAIN O : IsSig(O[id]) => O[id].cms # Zeros
      <3>1. SUFFICES ASSUME NEW id \in DOMAIN O, IsSig(O[id]) PROVE O[id].cms # Zeros
        OBVIOUS
      <3>2. CASE id = sig
        BY <1>11, <3>2
      <3>3. CASE id \in DOMAIN o
        <4>1. id >= TextField
          BY <1>1, <1>6, <1>9, <3>1, <3>3
        <4> QED
          BY <1>1, <1>9, <3>1, <3>3, <4>1
      <3> QED
        BY <1>11, <1>12, <3>1, <3>2, <3>3
    <2>4. O[Catalog] = [form |-> O[Catalog].form, dss |-> O[Catalog].dss]
      BY <1>13
    <2> QED
      BY <1>8, <2>1, <2>2, <2>3, <2>4 DEF Doc
  <1>15. IsLast(O, sig)
    <2>1. \A id \in DOMAIN O : IsSig(O[id]) => id <= sig
      <3>1. \A id \in DOMAIN o : id \in Nat /\ id <= sig
        BY <1>1, <1>6
      <3> QED
        BY <1>6, <1>11, <1>12, <3>1
    <2> QED
      BY <1>10, <1>11, <2>1 DEF IsLast
  <1>16. StoreOK(O, sig)
    <2> DEFINE d == o[Catalog].dss
    <2>1. O[Catalog].dss = d
      BY <1>13
    <2>2. SUFFICES ASSUME d # 0
                   PROVE  /\ d \in DOMAIN O \ {sig} /\ d > TextField
                          /\ \E id \in DOMAIN O :
                               id # sig /\ IsSig(O[id]) /\ O[id].cms = O[d].vri.cms
      BY <2>1 DEF StoreOK
    <2>3. /\ d \in DOMAIN o /\ d > TextField
          /\ \E id \in DOMAIN o : id # 0 /\ IsSig(o[id]) /\ o[id].cms = o[d].vri.cms
      BY <2>2 DEF StoreOK
    <2> HIDE DEF d
    <2>4. PICK id \in DOMAIN o : IsSig(o[id]) /\ o[id].cms = o[d].vri.cms
      BY <2>3
    <2>5. id >= TextField /\ d >= TextField
      BY <1>1, <1>6, <2>3, <2>4
    <2>6. /\ O[id] = o[id] /\ O[d] = o[d] /\ id \in DOMAIN O /\ d \in DOMAIN O
          /\ id # sig /\ d # sig
      BY <1>6, <1>9, <2>3, <2>5
    <2> QED
      BY <2>3, <2>4, <2>6
  <1>17. SigsKept(o, O, sig)
    <2>1. \A id \in DOMAIN o : IsSig(o[id]) => id >= TextField
      BY <1>1, <1>6
    <2>2. \A id \in Signatures(o) : id \in Signatures(O) /\ O[id] = o[id]
      BY <1>9, <2>1 DEF Signatures
    <2>3. \A id \in DOMAIN o : IsSig(O[id]) => IsSig(o[id])
      BY <1>1, <1>6, <1>9
    <2>4. \A id \in Signatures(O) : id = sig \/ id \in Signatures(o)
      BY <1>11, <1>12, <2>3 DEF Signatures
    <2>5. sig \in Signatures(O) /\ sig \notin Signatures(o)
      BY <1>6, <1>10, <1>11 DEF Signatures
    <2>6. DOMAIN o \subseteq DOMAIN O
      BY <1>7
    <2> QED
      BY <2>2, <2>4, <2>5, <2>6 DEF SigsKept
  <1>18. top + 2 \in DOMAIN O /\ \A id \in DOMAIN o : id \in Nat /\ id < top + 2
    <2>1. \A id \in DOMAIN o : id \in Nat /\ id < top + 2
      BY <1>1, <1>6
    <2> QED
      BY <1>3, <1>4, <1>7, <2>1
  <1>19. Fielded(o, O, sig, top + 2)
    <2>1. top + 2 \in Nat /\ top + 2 > TextField
      BY <1>6
    <2> QED
      BY <1>3, <1>9, <1>10, <1>18, <2>1 DEF Fielded
  <1> QED
    BY <1>10, <1>14, <1>15, <1>16, <1>17, <1>18, <1>19 DEF O, P, sig

-----------------------------------------------------------------------------
(* What a signature covers.                                                *)
LEMMA EmptyFile == IsSeq(<< >>) /\ Len(<< >>) = 0
  <1>1. << >> \in Seq({})
    OBVIOUS
  <1> QED
    BY <1>1, SeqIs

(* A piece that starts a file is the file.                                 *)
LEMMA FromEmpty ==
  ASSUME NEW p, IsSeq(p)
  PROVE  << >> \o p = p
  BY ConcatEmptySeq DEF IsSeq

(* The ranges written around a /Contents that follows the cell b.          *)
Around(b, length) == <<0, b + 1, b + 2, length - b - 2>>

(* The cells of a part of a file.                                          *)
LEMMA SubSeqIs ==
  ASSUME NEW f, IsSeq(f), NEW m \in Nat \ {0}, NEW n \in Nat, n <= Len(f), m <= n + 1
  PROVE  LET s == SubSeq(f, m, n)
         IN  /\ IsSeq(s) /\ Len(s) = n - m + 1
             /\ \A i \in 1 .. n - m + 1 : s[i] = f[m + i - 1]
  <1> DEFINE s == SubSeq(f, m, n)
  <1>1. \A i \in m .. n : f[i] \in Range(f)
    <2>1. Len(f) \in Nat /\ DOMAIN f = 1 .. Len(f)
      BY SeqFacts
    <2>2. \A i \in m .. n : i \in DOMAIN f
      BY <2>1
    <2> QED
      BY <2>2 DEF Range
  <1>2. /\ s \in Seq(Range(f)) /\ Len(s) = IF m <= n THEN n - m + 1 ELSE 0
        /\ \A i \in 1 .. n - m + 1 : s[i] = f[m + i - 1]
    BY <1>1, SubSeqProperties
  <1>3. IsSeq(s)
    BY <1>2, SeqIs
  <1> QED
    BY <1>2, <1>3

(* What a signature covers: the L cells of its file but its own /Contents, *)
(* which follow the cell b.                                                *)
Spans(r, b, L) == b \in Nat /\ L \in Nat /\ 2 <= b /\ b + 2 <= L /\ r = Around(b, L)

(* What is covered, cell by cell: all but the /Contents.                   *)
LEMMA CoveredIs ==
  ASSUME NEW f, IsSeq(f), NEW r, NEW b, NEW L, Spans(r, b, L), L <= Len(f)
  PROVE  LET d == Covered(f, r)
         IN  /\ IsSeq(d) /\ Len(d) = L - 1
             /\ \A i \in 1 .. b + 1 : d[i] = f[i]
             /\ \A i \in b + 2 .. L - 1 : d[i] = f[i + 1]
  <1> DEFINE hi == b + 1
             lo == b + 3
             s == SubSeq(f, 1, hi)
             t == SubSeq(f, lo, L)
             d == s \o t
  <1>1. b \in Nat /\ L \in Nat /\ 2 <= b /\ b + 2 <= L /\ Len(f) \in Nat
    BY SeqFacts DEF Spans
  <1>2. Covered(f, r) = d
    <2>1. r[1] = 0 /\ r[2] = b + 1 /\ r[3] = b + 2 /\ r[4] = L - b - 2
      BY DEF Spans, Around
    <2>2. /\ r[1] + 1 = 1 /\ r[1] + r[2] = b + 1
          /\ r[3] + 1 = b + 3 /\ r[3] + r[4] = L
      BY <1>1, <2>1
    <2> QED
      BY <2>2 DEF Covered
  <1>3. IsSeq(s) /\ Len(s) = b + 1 /\ \A i \in 1 .. b + 1 : s[i] = f[i]
    <2>1. 1 \in Nat \ {0} /\ hi \in Nat /\ hi <= Len(f) /\ 1 <= hi + 1
      BY <1>1
    <2> HIDE DEF hi
    <2>2. IsSeq(s) /\ Len(s) = hi - 1 + 1 /\ \A i \in 1 .. hi - 1 + 1 : s[i] = f[1 + i - 1]
      BY <2>1, SubSeqIs
    <2> HIDE DEF s
    <2>3. hi - 1 + 1 = b + 1 /\ \A i \in 1 .. b + 1 : 1 + i - 1 = i
      BY <1>1 DEF hi
    <2> QED
      BY <2>2, <2>3
  <1>4. IsSeq(t) /\ Len(t) = L - b - 2 /\ \A i \in 1 .. L - b - 2 : t[i] = f[i + (b + 2)]
    <2>1. lo \in Nat \ {0} /\ L \in Nat /\ L <= Len(f) /\ lo <= L + 1
      BY <1>1
    <2> HIDE DEF lo
    <2>2. /\ IsSeq(t) /\ Len(t) = L - lo + 1
          /\ \A i \in 1 .. L - lo + 1 : t[i] = f[lo + i - 1]
      BY <2>1, SubSeqIs
    <2> HIDE DEF t
    <2>3. L - lo + 1 = L - b - 2 /\ \A i \in 1 .. L - b - 2 : lo + i - 1 = i + (b + 2)
      BY <1>1 DEF lo
    <2> QED
      BY <2>2, <2>3
  <1> HIDE DEF s, t, hi, lo
  <1>5. /\ IsSeq(d) /\ Len(d) = Len(s) + Len(t)
        /\ \A i \in 1 .. Len(s) : d[i] = s[i]
        /\ \A i \in Len(s) + 1 .. Len(s) + Len(t) : d[i] = t[i - Len(s)]
    BY <1>3, <1>4, Joined
  <1> HIDE DEF d
  <1>6. Len(d) = L - 1
    BY <1>1, <1>3, <1>4, <1>5
  <1>7. \A i \in 1 .. b + 1 : d[i] = f[i]
    BY <1>3, <1>5
  <1>8. \A i \in b + 2 .. L - 1 : d[i] = f[i + 1]
    <2>1. SUFFICES ASSUME NEW i \in b + 2 .. L - 1 PROVE d[i] = f[i + 1]
      OBVIOUS
    <2>2. /\ i - (b + 1) \in 1 .. L - b - 2 /\ i - (b + 1) + (b + 2) = i + 1
          /\ i \in Len(s) + 1 .. Len(s) + Len(t)
      BY <1>1, <1>3, <1>4, <2>1
    <2>3. d[i] = t[i - (b + 1)]
      BY <1>3, <1>5, <2>2
    <2> QED
      BY <1>4, <2>2, <2>3
  <1> QED
    BY <1>2, <1>5, <1>6, <1>7, <1>8

(* The cells outside a range, its own /Contents among them, are not        *)
(* covered by it.                                                          *)
LEMMA CoveredSame ==
  ASSUME NEW f, NEW g, IsSeq(f), IsSeq(g), NEW r, NEW b, NEW L, Spans(r, b, L),
         L <= Len(f), L <= Len(g), \A i \in 1 .. L : i # b + 2 => f[i] = g[i]
  PROVE  Covered(f, r) = Covered(g, r)
  <1> DEFINE c == Covered(f, r)
             d == Covered(g, r)
  <1>1. b \in Nat /\ L \in Nat /\ 2 <= b /\ b + 2 <= L
    BY DEF Spans
  <1>2. /\ IsSeq(c) /\ Len(c) = L - 1
        /\ \A i \in 1 .. b + 1 : c[i] = f[i]
        /\ \A i \in b + 2 .. L - 1 : c[i] = f[i + 1]
    BY CoveredIs
  <1>3. /\ IsSeq(d) /\ Len(d) = L - 1
        /\ \A i \in 1 .. b + 1 : d[i] = g[i]
        /\ \A i \in b + 2 .. L - 1 : d[i] = g[i + 1]
    BY CoveredIs
  <1> HIDE DEF c, d
  <1>4. \A i \in 1 .. L - 1 : c[i] = d[i]
    <2>1. SUFFICES ASSUME NEW i \in 1 .. L - 1 PROVE c[i] = d[i]
      OBVIOUS
    <2>2. CASE i \in 1 .. b + 1
      <3>1. i \in 1 .. L /\ i # b + 2
        BY <1>1, <2>2
      <3> QED
        BY <1>2, <1>3, <2>2, <3>1
    <2>3. CASE i \in b + 2 .. L - 1
      <3>1. i + 1 \in 1 .. L /\ i + 1 # b + 2
        BY <1>1, <2>3
      <3> QED
        BY <1>2, <1>3, <2>3, <3>1
    <2> QED
      BY <1>1, <2>1, <2>2, <2>3
  <1> QED
    BY <1>2, <1>3, <1>4, SameSeq DEF c, d

-----------------------------------------------------------------------------
(* The lists of a document: of the annotations of its page, and of the     *)
(* fields of its form.                                                     *)
IsList(l) == /\ l = List(l.at, l.ids) /\ l.at \in Places /\ IsSeq(l.ids)
             /\ l.at = "none" => l.ids = << >>

HasForm(o) == o[Catalog].form.at \in {"inline", "ref"}

PageListed(o) == o[Page] = [annots |-> o[Page].annots] /\ IsList(o[Page].annots)

FormListed(o) ==
  /\ o[Catalog].form = [at |-> o[Catalog].form.at, fields |-> o[Catalog].form.fields]
  /\ IsList(o[Catalog].form.fields)
  /\ HasForm(o) \/ o[Catalog].form.fields = List("none", << >>)
  /\ o[Catalog].form.at = "ref" => /\ FormDict \in DOMAIN o
                                   /\ o[FormDict] = [fields |-> o[FormDict].fields]
                                   /\ IsList(o[FormDict].fields)

ArrayListed(o) ==
  o[FieldsArray] = [ids |-> o[FieldsArray].ids] /\ IsSeq(o[FieldsArray].ids)

Listed(o) == /\ PageListed(o) /\ FormListed(o)
             /\ FieldList(o).at = "ref" => FieldsArray \in DOMAIN o /\ ArrayListed(o)

(* Where Prepare puts a new field into the lists of x.                     *)
Annotated(D, x, field) ==
  D[Page] = [annots |-> List("inline",
               Append(IF x[Page].annots.at = "inline" THEN x[Page].annots.ids ELSE << >>,
                      field))]

InForm(D, x, field) ==
  /\ x[Catalog].form.at = "inline" /\ FieldList(x).at # "ref"
  /\ D[Catalog].form = [at |-> "inline",
                        fields |-> List("inline", Append(FieldList(x).ids, field))]

InDict(D, x, field) ==
  /\ x[Catalog].form.at = "ref" /\ FieldList(x).at # "ref"
  /\ D[Catalog].form = x[Catalog].form
  /\ D[FormDict] = [fields |-> List("inline", Append(FieldList(x).ids, field))]

InArray(D, x, field) ==
  /\ HasForm(x) /\ FieldList(x).at = "ref" /\ FieldsArray \in DOMAIN x
  /\ D[Catalog].form = x[Catalog].form
  /\ x[Catalog].form.at = "ref" => D[FormDict] = x[FormDict]
  /\ D[FieldsArray] = [ids |-> Append(x[FieldsArray].ids, field)]

Alone(D, x, field) ==
  /\ ~HasForm(x) \/ (FieldList(x).at = "ref" /\ FieldsArray \notin DOMAIN x)
  /\ D[Catalog].form = Inline(field)

Enlisted(D, x, field) ==
  /\ Annotated(D, x, field)
  /\ \/ InForm(D, x, field) \/ InDict(D, x, field)
     \/ InArray(D, x, field) \/ Alone(D, x, field)

(* Prepare puts the new field into the annotations and into the form.      *)
LEMMA PrepareLists ==
  ASSUME NEW x, NEW top, Source(x, top), PageListed(x), FormListed(x),
         FieldsArray \in DOMAIN x /\ FieldList(x).at = "ref" => ArrayListed(x)
  PROVE  Enlisted(Prepare(x, top), x, top + 2)
  <1> DEFINE field == top + 2
             A == Added(x, top)
             kept == IF A[Page].annots.at = "inline" THEN A[Page].annots.ids ELSE << >>
             l == List("inline", Append(kept, field))
             B == [A EXCEPT ![Page].annots = l]
             new == {top + 1, top + 2}
  <1>1. /\ Catalog \in DOMAIN x /\ Page \in DOMAIN x
        /\ \A id \in {Catalog, Page, FormDict, FieldsArray} : id \notin new
        /\ \A id \in DOMAIN x : id \notin new
        /\ x[Catalog] = [form |-> x[Catalog].form, dss |-> x[Catalog].dss]
    <2>1. top \in Nat /\ top >= 6 /\ \A id \in DOMAIN x : id <= top /\ id \in Nat
      BY DEF Source, ObjMap, TextField
    <2> QED
      BY <2>1 DEF Source, Catalog, Page, FormDict, FieldsArray
  <1>2. DOMAIN A = DOMAIN x \cup new /\ \A id \in DOMAIN x : A[id] = x[id]
    <2> DEFINE N == NewSignature(top + 1, top + 2)
    <2>1. DOMAIN N = new
      BY DEF NewSignature
    <2>2. A = [id \in DOMAIN x \cup DOMAIN N |-> IF id \in DOMAIN N THEN N[id] ELSE x[id]]
      BY DEF Added, Hide
    <2> HIDE DEF N, new, A
    <2> QED
      BY <1>1, <2>1, <2>2
  <1> HIDE DEF A, new
  <1>3. B = AddToPage(A, field)
    BY DEF AddToPage
  <1>4. l = List("inline", Append(IF x[Page].annots.at = "inline" THEN x[Page].annots.ids
                                                                  ELSE << >>, field))
    BY <1>1, <1>2
  <1> HIDE DEF l
  <1>5. B = [A EXCEPT ![Page] = [annots |-> l]]
    <2> DEFINE u == A[Page]
               a == u.annots
    <2>1. u = [annots |-> a]
      BY <1>1, <1>2 DEF PageListed
    <2>2. B = [A EXCEPT ![Page] = [u EXCEPT !.annots = l]]
      OBVIOUS
    <2> HIDE DEF u, a, B
    <2>3. [u EXCEPT !.annots = l] = [annots |-> l]
      BY <2>1
    <2> QED
      BY <2>2, <2>3
  <1> HIDE DEF B
  <1>6. /\ DOMAIN B = DOMAIN x \cup new /\ B[Page] = [annots |-> l]
        /\ \A id \in DOMAIN x : id # Page => B[id] = x[id]
    BY <1>1, <1>2, <1>5
  <1>7. /\ Catalog # Page /\ FormDict # Page /\ FieldsArray # Page
        /\ Catalog # FormDict /\ Catalog # FieldsArray /\ FormDict # FieldsArray
    BY DEF Catalog, Page, FormDict, FieldsArray
  <1>8. /\ B[Catalog] = x[Catalog]
        /\ FormDict \in DOMAIN B <=> FormDict \in DOMAIN x
        /\ FieldsArray \in DOMAIN B <=> FieldsArray \in DOMAIN x
        /\ FormDict \in DOMAIN x => B[FormDict] = x[FormDict]
        /\ FieldsArray \in DOMAIN x => B[FieldsArray] = x[FieldsArray]
    BY <1>1, <1>6, <1>7
  <1> DEFINE form == x[Catalog].form
             fields == FieldList(x)
             longer == List("inline", Append(fields.ids, field))
             C == EnsureAcroForm(B, field)
  <1>9. C = Prepare(x, top)
    BY <1>3 DEF Prepare, Added, A
  <1>10. /\ C = IF HasForm(x) /\ fields.at # "ref" THEN
                  IF form.at = "ref" THEN [B EXCEPT ![FormDict].fields = longer]
                                     ELSE [B EXCEPT ![Catalog].form.fields = longer]
                ELSE IF HasForm(x) /\ FieldsArray \in DOMAIN x THEN
                  [B EXCEPT ![FieldsArray].ids = Append(@, field)]
                ELSE [B EXCEPT ![Catalog].form = Inline(field)]
    <2> DEFINE y == B[Catalog].form
               inDict == y.at = "ref" /\ FormDict \in DOMAIN B
               known == y.at = "inline" \/ inDict
               list == IF inDict THEN B[FormDict].fields ELSE y.fields
               more == List("inline", Append(list.ids, field))
    <2>1. C = IF known /\ list.at # "ref" THEN
                IF inDict THEN [B EXCEPT ![FormDict].fields = more]
                          ELSE [B EXCEPT ![Catalog].form.fields = more]
              ELSE IF known /\ FieldsArray \in DOMAIN B THEN
                [B EXCEPT ![FieldsArray].ids = Append(@, field)]
              ELSE [B EXCEPT ![Catalog].form = Inline(field)]
      BY DEF EnsureAcroForm
    <2>2. y = form /\ (form.at = "ref" => FormDict \in DOMAIN x)
      BY <1>8 DEF FormListed
    <2>3. inDict <=> form.at = "ref"
      BY <1>8, <2>2
    <2>4. list = fields
      BY <1>8, <2>2, <2>3 DEF FieldList
    <2>5. known <=> HasForm(x)
      BY <2>2, <2>3 DEF HasForm
    <2>6. more = longer
      BY <2>4
    <2> HIDE DEF C, y, inDict, known, list, more, fields, longer, field
    <2> QED
      BY <1>8, <2>1, <2>3, <2>4, <2>5, <2>6
  <1> HIDE DEF C, longer, field
  <1>11. Catalog \in DOMAIN B /\ Page \in DOMAIN B
    BY <1>1, <1>6
  <1>12. ASSUME NEW d, NEW id \in DOMAIN B, id # Page, NEW v, d = [B EXCEPT ![id] = v]
         PROVE  Annotated(d, x, field)
    <2>1. d[Page] = B[Page]
      BY <1>11, <1>12
    <2> QED
      BY <1>4, <1>6, <2>1 DEF Annotated, field
  <1>13. B[Catalog] = [form |-> form, dss |-> x[Catalog].dss]
    BY <1>1, <1>8
  <1>14. CASE form.at = "inline" /\ fields.at # "ref"
    <2> DEFINE w == [B[Catalog].form EXCEPT !.fields = longer]
               v == [B[Catalog] EXCEPT !.form = w]
    <2>1. HasForm(x) /\ form.at # "ref"
      BY <1>14 DEF HasForm
    <2>2. C = [B EXCEPT ![Catalog] = v]
      <3>1. C = [B EXCEPT ![Catalog].form.fields = longer]
        BY <1>10, <1>14, <2>1
      <3> QED
        BY <3>1
    <2>3. w = [at |-> "inline", fields |-> longer]
      <3> DEFINE u == B[Catalog].form
                 f == form.fields
      <3>1. u = [at |-> "inline", fields |-> f]
        BY <1>8, <1>14 DEF FormListed
      <3> HIDE DEF u, f
      <3>2. [u EXCEPT !.fields = longer] = [at |-> "inline", fields |-> longer]
        BY <3>1
      <3> QED
        BY <3>2 DEF u
    <2> HIDE DEF w
    <2>4. v.form = w
      BY <1>13, FormChanged
    <2> HIDE DEF v
    <2>5. C[Catalog] = v /\ Annotated(C, x, field)
      BY <1>7, <1>11, <1>12, <2>2
    <2>6. InForm(C, x, field)
      BY <1>14, <2>3, <2>4, <2>5 DEF InForm, longer
    <2> QED
      BY <1>9, <2>5, <2>6 DEF Enlisted, field
  <1>15. CASE form.at = "ref" /\ fields.at # "ref"
    <2> DEFINE v == [B[FormDict] EXCEPT !.fields = longer]
    <2>1. HasForm(x)
      BY <1>15 DEF HasForm
    <2>2. C = [B EXCEPT ![FormDict] = v]
      BY <1>10, <1>15, <2>1
    <2>3. /\ FormDict \in DOMAIN B /\ B[FormDict] = x[FormDict]
          /\ x[FormDict] = [fields |-> x[FormDict].fields]
      BY <1>8, <1>15 DEF FormListed
    <2>4. v = [fields |-> longer]
      <3> DEFINE u == B[FormDict]
                 f == x[FormDict].fields
      <3>1. u = [fields |-> f]
        BY <2>3
      <3> HIDE DEF u, f
      <3>2. [u EXCEPT !.fields = longer] = [fields |-> longer]
        BY <3>1
      <3> QED
        BY <3>2 DEF u
    <2> HIDE DEF v
    <2>5. C[FormDict] = v /\ C[Catalog] = B[Catalog] /\ Annotated(C, x, field)
      BY <1>7, <1>11, <1>12, <2>2, <2>3
    <2>6. InDict(C, x, field)
      BY <1>8, <1>15, <2>4, <2>5 DEF InDict, longer
    <2> QED
      BY <1>9, <2>5, <2>6 DEF Enlisted, field
  <1>16. CASE HasForm(x) /\ fields.at = "ref" /\ FieldsArray \in DOMAIN x
    <2> DEFINE v == [B[FieldsArray] EXCEPT !.ids = Append(@, field)]
               ids == x[FieldsArray].ids
    <2>1. C = [B EXCEPT ![FieldsArray] = v]
      BY <1>10, <1>16
    <2>2. /\ FieldsArray \in DOMAIN B /\ B[FieldsArray] = x[FieldsArray]
          /\ x[FieldsArray] = [ids |-> ids]
      BY <1>8, <1>16 DEF ArrayListed
    <2>3. v = [ids |-> Append(ids, field)]
      <3> DEFINE u == B[FieldsArray]
      <3>1. u = [ids |-> ids]
        BY <2>2
      <3> HIDE DEF u, ids
      <3>2. [u EXCEPT !.ids = Append(@, field)] = [ids |-> Append(ids, field)]
        BY <3>1
      <3> QED
        BY <3>2 DEF u
    <2> HIDE DEF v
    <2>4. /\ C[FieldsArray] = v /\ Annotated(C, x, field)
          /\ \A id \in DOMAIN B : id # FieldsArray => C[id] = B[id]
      BY <1>7, <1>12, <2>1, <2>2
    <2>5. C[Catalog] = x[Catalog] /\ (form.at = "ref" => C[FormDict] = x[FormDict])
      <3>1. form.at = "ref" => FormDict \in DOMAIN x
        BY DEF FormListed
      <3> QED
        BY <1>7, <1>8, <1>11, <2>4, <3>1
    <2>6. InArray(C, x, field)
      BY <1>16, <2>3, <2>4, <2>5 DEF InArray
    <2> QED
      BY <1>9, <2>4, <2>6 DEF Enlisted, field
  <1>17. CASE ~HasForm(x) \/ (fields.at = "ref" /\ FieldsArray \notin DOMAIN x)
    <2> DEFINE v == [B[Catalog] EXCEPT !.form = Inline(field)]
    <2>1. C = [B EXCEPT ![Catalog] = v]
      BY <1>10, <1>17
    <2>2. v.form = Inline(field)
      BY <1>13, FormChanged
    <2> HIDE DEF v
    <2>3. C[Catalog] = v /\ Annotated(C, x, field)
      BY <1>7, <1>11, <1>12, <2>1
    <2>4. Alone(C, x, field)
      BY <1>17, <2>2, <2>3 DEF Alone
    <2> QED
      BY <1>9, <2>3, <2>4 DEF Enlisted, field
  <1> QED
    BY <1>14, <1>15, <1>16, <1>17 DEF HasForm

(* A list of one.                                                          *)
LEMMA AloneIs ==
  ASSUME NEW x
  PROVE  IsSeq(<<x>>) /\ Len(<<x>>) = 1 /\ <<x>>[1] = x /\ ToSet(<<x>>) = {x}
  <1>1. <<x>> \in Seq({x})
    OBVIOUS
  <1>2. ToSet(<<x>>) = {x}
    BY DEF ToSet
  <1> QED
    BY <1>1, <1>2, SeqIs

(* A list that is appended to keeps its members.                           *)
LEMMA Longer ==
  ASSUME NEW s, IsSeq(s), NEW k
  PROVE  /\ IsSeq(Append(s, k)) /\ Append(s, k)[Len(Append(s, k))] = k
         /\ ToSet(Append(s, k)) = ToSet(s) \cup {k}
  <1> DEFINE S == Range(s) \cup {k}
             t == Append(s, k)
  <1>1. s \in Seq(S) /\ k \in S
    BY SeqMonotonic DEF IsSeq
  <1> HIDE DEF S
  <1>2. /\ t \in Seq(S) /\ Len(t) = Len(s) + 1 /\ DOMAIN t = 1 .. Len(s) + 1
        /\ \A i \in 1 .. Len(s) : t[i] = s[i]
        /\ t[Len(s) + 1] = k
    BY <1>1, AppendProperties
  <1>3. IsSeq(t)
    BY <1>2, SeqIs
  <1>4. Len(s) \in Nat /\ DOMAIN s = 1 .. Len(s)
    BY SeqFacts
  <1> HIDE DEF t
  <1>5. ToSet(t) = ToSet(s) \cup {k}
    <2>1. \A i \in DOMAIN s : i \in DOMAIN t /\ t[i] = s[i]
      BY <1>2, <1>4
    <2>2. Len(s) + 1 \in DOMAIN t
      BY <1>2, <1>4
    <2>3. \A i \in DOMAIN t : i \in DOMAIN s \/ i = Len(s) + 1
      BY <1>2, <1>4
    <2> QED
      BY <1>2, <2>1, <2>2, <2>3 DEF ToSet
  <1> QED
    BY <1>2, <1>3, <1>5 DEF t

(* What a signing does to the fields of o: field is new, and an array that *)
(* is left behind takes those it lists with it.                            *)
Enrolled(o, O, whole, field) ==
  /\ Fields(O) = (IF IsLoose(o) /\ ~whole THEN {} ELSE Fields(o)) \cup {field}
  /\ FieldList(O).at # "none"
  /\ IsLoose(O) <=> IsLoose(o) /\ whole

(* What n keeps of the lists of o.                                         *)
Keeping(o, n, whole) ==
  /\ FieldList(o).at # "ref" \/ whole => Fields(o) \subseteq Fields(n)
  /\ o[Page].annots.at # "ref" => Annots(o) \subseteq Annots(n)

(* The page keeps its annotations if /Annots is direct.                    *)
LEMMA EnlistedPage ==
  ASSUME NEW o, NEW O, NEW field, Listed(o), Annotated(O, o, field)
  PROVE  PageListed(O) /\ (o[Page].annots.at # "ref" => Annots(o) \subseteq Annots(O))
  <1> DEFINE a == o[Page].annots
             ids == IF a.at = "inline" THEN a.ids ELSE << >>
             l == List("inline", Append(ids, field))
  <1>1. IsList(a) /\ O[Page] = [annots |-> l]
    BY DEF Listed, PageListed, Annotated
  <1>2. IsSeq(ids)
    BY <1>1, EmptyFile DEF IsList
  <1>3. IsSeq(Append(ids, field)) /\ ToSet(ids) \subseteq ToSet(Append(ids, field))
    <2>1. IsSeq(Append(ids, field)) /\ ToSet(Append(ids, field)) = ToSet(ids) \cup {field}
      BY <1>2, Longer
    <2> QED
      BY <2>1
  <1>4. O[Page].annots = l /\ l.at = "inline" /\ l.ids = Append(ids, field)
    BY <1>1 DEF List
  <1>5. PageListed(O)
    BY <1>1, <1>3, <1>4 DEF PageListed, IsList, Places
  <1>6. Annots(O) = ToSet(Append(ids, field))
    BY <1>4 DEF Annots
  <1>7. ASSUME a.at # "ref" PROVE Annots(o) \subseteq Annots(O)
    <2>1. Annots(o) = ToSet(a.ids)
      BY <1>7 DEF Annots
    <2>2. CASE a.at = "inline"
      BY <1>3, <1>6, <2>1, <2>2
    <2>3. CASE a.at # "inline"
      <3>1. a.ids = << >>
        BY <1>1, <1>7, <2>3 DEF IsList, Places
      <3> QED
        BY <2>1, <3>1 DEF ToSet
    <2> QED
      BY <2>2, <2>3
  <1> QED
    BY <1>5, <1>7

(* The form keeps its fields if /Fields is found.                          *)
LEMMA EnlistedForm ==
  ASSUME NEW o, NEW O, NEW field, NEW whole \in BOOLEAN, Listed(o),
         FormDict \in DOMAIN o => FormDict \in DOMAIN O,
         FieldsArray \in DOMAIN o => FieldsArray \in DOMAIN O,
         \/ InForm(O, o, field) \/ InDict(O, o, field)
         \/ InArray(O, o, field) /\ whole
         \/ /\ ~HasForm(o) \/ (FieldList(o).at = "ref" /\ ~whole)
            /\ O[Catalog].form = Inline(field)
  PROVE  /\ FormListed(O)
         /\ FieldList(O).at = "ref" => FieldsArray \in DOMAIN O /\ ArrayListed(O)
         /\ Enrolled(o, O, whole, field)
  <1> DEFINE form == o[Catalog].form
             l == FieldList(o)
             m == FieldList(O)
             longer == List("inline", Append(l.ids, field))
  <1>1. FormListed(o) /\ (l.at = "ref" => FieldsArray \in DOMAIN o /\ ArrayListed(o))
    BY DEF Listed
  <1>2. IsList(l) /\ IsSeq(l.ids)
    BY <1>1 DEF FormListed, FieldList, IsList
  <1>3. /\ IsSeq(Append(l.ids, field)) /\ ToSet(Append(l.ids, field)) = ToSet(l.ids) \cup {field}
        /\ longer.at = "inline" /\ longer.ids = Append(l.ids, field)
    BY <1>2, Longer DEF List
  <1>4. IsList(longer)
    BY <1>3 DEF IsList, Places
  <1>5. IsList(List("none", << >>)) /\ List("none", << >>).at = "none"
    BY EmptyFile DEF IsList, List, Places
  <1>6. l.at # "ref" => Fields(o) = ToSet(l.ids)
    BY DEF Fields
  <1>7. m = longer /\ l.at # "ref" => m.at # "ref" /\ Enrolled(o, O, whole, field)
    <2> SUFFICES ASSUME m = longer, l.at # "ref"
                 PROVE  m.at # "ref" /\ Enrolled(o, O, whole, field)
      OBVIOUS
    <2>1. m.at = "inline" /\ Fields(O) = Fields(o) \cup {field}
      BY <1>3, <1>6 DEF Fields
    <2>2. ~IsLoose(o) /\ ~IsLoose(O)
      BY <2>1 DEF IsLoose
    <2> QED
      BY <2>1, <2>2 DEF Enrolled
  <1> HIDE DEF l, m, longer
  <1>8. CASE InForm(O, o, field)
    <2>1. O[Catalog].form = [at |-> "inline", fields |-> longer] /\ l.at # "ref"
      BY <1>8 DEF InForm, l, longer
    <2>2. m = longer
      BY <2>1 DEF m, FieldList
    <2>3. FormListed(O)
      BY <1>4, <2>1 DEF FormListed, HasForm
    <2> QED
      BY <1>7, <2>1, <2>2, <2>3 DEF l, m
  <1>9. CASE InDict(O, o, field)
    <2>1. /\ O[Catalog].form = form /\ form.at = "ref" /\ l.at # "ref"
          /\ O[FormDict] = [fields |-> longer]
      BY <1>9 DEF InDict, l, longer
    <2>2. m = longer
      BY <2>1 DEF m, FieldList
    <2>3. FormListed(O)
      BY <1>1, <1>4, <2>1 DEF FormListed, HasForm
    <2> QED
      BY <1>7, <2>1, <2>2, <2>3 DEF l, m
  <1>10. CASE InArray(O, o, field) /\ whole
    <2> DEFINE ids == o[FieldsArray].ids
    <2>1. /\ O[Catalog].form = form /\ l.at = "ref" /\ FieldsArray \in DOMAIN o
          /\ form.at = "ref" => O[FormDict] = o[FormDict]
          /\ O[FieldsArray] = [ids |-> Append(ids, field)]
      BY <1>10 DEF InArray, l
    <2>2. m = l
      BY <2>1 DEF m, l, FieldList
    <2>3. FormListed(O)
      BY <1>1, <2>1 DEF FormListed, HasForm
    <2>4. IsSeq(Append(ids, field)) /\ ToSet(Append(ids, field)) = ToSet(ids) \cup {field}
      BY <1>1, <2>1, Longer DEF ArrayListed
    <2>5. ArrayListed(O)
      BY <2>1, <2>4 DEF ArrayListed
    <2>6. Fields(o) = ToSet(ids) /\ Fields(O) = ToSet(Append(ids, field))
      BY <2>1, <2>2 DEF Fields, l, m
    <2>7. IsLoose(o) /\ IsLoose(O) /\ FieldList(O).at # "none"
      BY <2>1, <2>2 DEF IsLoose, l, m
    <2>8. Enrolled(o, O, whole, field)
      BY <1>10, <2>4, <2>6, <2>7 DEF Enrolled
    <2> QED
      BY <2>1, <2>3, <2>5, <2>8
  <1>11. CASE /\ ~HasForm(o) \/ (l.at = "ref" /\ ~whole)
              /\ O[Catalog].form = Inline(field)
    <2> DEFINE only == List("inline", <<field>>)
    <2>1. IsList(only) /\ only.at = "inline" /\ only.ids = <<field>>
      <3>1. <<field>> \in Seq({field})
        OBVIOUS
      <3>2. IsSeq(<<field>>)
        BY <3>1, SeqIs
      <3> QED
        BY <3>2 DEF IsList, List, Places
    <2>2. O[Catalog].form = [at |-> "inline", fields |-> only]
      BY <1>11 DEF Inline
    <2> HIDE DEF only
    <2>3. m = only
      BY <2>2 DEF m, FieldList
    <2>4. FormListed(O) /\ m.at # "ref"
      BY <2>1, <2>2, <2>3 DEF FormListed, HasForm
    <2>5. ASSUME l.at # "ref" \/ whole PROVE Fields(o) = {}
      <3>1. ~HasForm(o)
        BY <1>11, <2>5
      <3>2. form.at # "ref" /\ form.fields = List("none", << >>)
        BY <1>1, <3>1 DEF FormListed, HasForm
      <3>3. l = List("none", << >>)
        BY <3>2 DEF l, FieldList
      <3>4. l.at # "ref" /\ l.ids = << >>
        BY <3>3 DEF List
      <3> QED
        BY <1>6, <3>4 DEF ToSet
    <2>6. Fields(O) = {field}
      <3>1. Fields(O) = ToSet(<<field>>)
        BY <2>1, <2>3, <2>4 DEF Fields, m
      <3> QED
        BY <3>1, AloneIs
    <2>7. ~IsLoose(O) /\ FieldList(O).at # "none"
      BY <2>1, <2>3, <2>4 DEF IsLoose, m
    <2>8. IsLoose(o) <=> l.at = "ref"
      BY DEF IsLoose, l
    <2>9. IsLoose(o) => ~whole
      <3>1. SUFFICES ASSUME l.at = "ref", whole PROVE FALSE
        BY <2>8
      <3>2. ~HasForm(o)
        BY <1>11, <3>1
      <3>3. form.at # "ref" /\ form.fields = List("none", << >>)
        BY <1>1, <3>2 DEF FormListed, HasForm
      <3>4. l = List("none", << >>)
        BY <3>3 DEF l, FieldList
      <3> QED
        BY <3>1, <3>4 DEF List
    <2>10. Enrolled(o, O, whole, field)
      <3>1. IsLoose(o) \/ Fields(o) = {}
        BY <2>5, <2>8
      <3> QED
        BY <2>6, <2>7, <2>9, <3>1 DEF Enrolled
    <2> QED
      BY <2>4, <2>10 DEF l, m
  <1> QED
    BY <1>8, <1>9, <1>10, <1>11 DEF l

(* A signed document lists its new signature, and what it listed before.   *)
LEMMA SignedLists ==
  ASSUME NEW o, Doc(o), Listed(o), NEW x, NEW whole \in BOOLEAN,
         Repeats(x, o), x = IF whole THEN o ELSE CarryOver(o),
         NEW top \in DOMAIN o, \A id \in DOMAIN o : id <= top, NEW r, NEW c
  PROVE  LET O == Hide(o, Filling(Prepare(x, top), top + 1, r, c))
         IN  /\ Listed(O) /\ Keeping(o, O, whole) /\ Annotated(O, o, top + 2)
             /\ Enrolled(o, O, whole, top + 2)
  <1> DEFINE D == Prepare(x, top)
             sig == top + 1
             field == top + 2
             P == Filling(D, sig, r, c)
             O == Hide(o, P)
  <1>1. Source(x, top)
    BY SourceIs
  <1>2. Prepared(D, x, top)
    BY <1>1, PrepareIs
  <1>3. /\ x[Catalog] = o[Catalog] /\ x[Page] = o[Page]
        /\ {Catalog, Page} \subseteq DOMAIN x /\ DOMAIN x \subseteq DOMAIN o
        /\ \A id \in DOMAIN x : x[id] = o[id]
    BY DEF Repeats
  <1>4. o[Catalog].form.at = "ref" => FormDict \in DOMAIN x
    <2>1. o[Catalog].form.at = "ref" => FormDict \in DOMAIN o
      BY DEF Listed, FormListed
    <2>2. CASE x = o
      BY <2>1, <2>2
    <2>3. CASE x = CarryOver(o)
      BY <2>1, <2>3 DEF CarryOver
    <2> QED
      BY <2>2, <2>3
  <1>5. ~whole => FieldsArray \notin DOMAIN x
    <2>1. FieldsArray \notin {Catalog, Page} /\ FieldsArray # FormDict
      BY DEF FieldsArray, Catalog, Page, FormDict
    <2> QED
      BY <2>1 DEF CarryOver
  <1>6. FieldList(x) = FieldList(o) /\ (HasForm(x) <=> HasForm(o))
    BY <1>3, <1>4 DEF FieldList, HasForm
  <1>7. PageListed(x) /\ FormListed(x)
    BY <1>3, <1>4, <1>6 DEF Listed, PageListed, FormListed
  <1>8. FieldsArray \in DOMAIN x /\ FieldList(x).at = "ref" => ArrayListed(x)
    BY <1>3, <1>6 DEF Listed, ArrayListed
  <1>9. Enlisted(D, x, field)
    BY <1>1, <1>7, <1>8, PrepareLists
  <1> HIDE DEF D
  <1>10. /\ ObjMap(D) /\ DOMAIN D = DOMAIN x \cup {sig, field} /\ sig \in DOMAIN D
         /\ IsSig(D[sig]) /\ D[Catalog] = [form |-> D[Catalog].form, dss |-> x[Catalog].dss]
    BY <1>2 DEF Prepared
  <1> HIDE DEF sig, field
  <1>11. /\ DOMAIN P = DOMAIN D /\ P[sig] = [range |-> r, cms |-> c]
         /\ \A id \in DOMAIN D \ {sig} : P[id] = D[id]
    BY <1>10, FillingIs
  <1>12. \A id \in {Catalog, Page, FormDict, FieldsArray} : id # sig /\ id # field
    <2>1. top \in Nat /\ top >= 6
      BY <1>1 DEF Source, TextField
    <2> QED
      BY <2>1 DEF Catalog, Page, FormDict, FieldsArray, sig, field
  <1> HIDE DEF P
  <1>13. /\ DOMAIN O = DOMAIN o \cup DOMAIN D
         /\ \A id \in DOMAIN O : O[id] = IF id \in DOMAIN D THEN P[id] ELSE o[id]
    BY <1>11 DEF Hide
  <1> HIDE DEF O
  <1>14. \A id \in {Catalog, Page, FormDict, FieldsArray} :
           /\ id \in DOMAIN x => O[id] = D[id]
           /\ id \in DOMAIN o => id \in DOMAIN O
    BY <1>3, <1>10, <1>11, <1>12, <1>13
  <1>15. O[Catalog] = D[Catalog] /\ O[Page] = D[Page]
    BY <1>3, <1>14
  <1>16. Annotated(O, o, field)
    BY <1>3, <1>9, <1>15 DEF Enlisted, Annotated
  <1>17. \/ InForm(O, o, field) \/ InDict(O, o, field)
         \/ InArray(O, o, field) /\ whole
         \/ /\ ~HasForm(o) \/ (FieldList(o).at = "ref" /\ ~whole)
            /\ O[Catalog].form = Inline(field)
    <2>1. CASE InForm(D, x, field)
      BY <1>3, <1>6, <1>15, <2>1 DEF InForm
    <2>2. CASE InDict(D, x, field)
      BY <1>3, <1>4, <1>6, <1>14, <1>15, <2>2 DEF InDict
    <2>3. CASE InArray(D, x, field)
      <3>1. InArray(O, o, field)
        BY <1>3, <1>4, <1>6, <1>14, <1>15, <2>3 DEF InArray
      <3>2. whole
        BY <1>5, <2>3 DEF InArray
      <3> QED
        BY <3>1, <3>2
    <2>4. CASE Alone(D, x, field)
      <3>1. O[Catalog].form = Inline(field)
        BY <1>15, <2>4 DEF Alone
      <3>2. ~HasForm(o) \/ (FieldList(o).at = "ref" /\ FieldsArray \notin DOMAIN x)
        BY <1>6, <2>4 DEF Alone
      <3>3. FieldList(o).at = "ref" => FieldsArray \in DOMAIN o
        BY DEF Listed
      <3> QED
        BY <3>1, <3>2, <3>3
    <2> QED
      BY <1>9, <2>1, <2>2, <2>3, <2>4 DEF Enlisted
  <1>18. /\ FormListed(O)
         /\ FieldList(O).at = "ref" => FieldsArray \in DOMAIN O /\ ArrayListed(O)
         /\ Enrolled(o, O, whole, field)
    <2>1. /\ FormDict \in DOMAIN o => FormDict \in DOMAIN O
          /\ FieldsArray \in DOMAIN o => FieldsArray \in DOMAIN O
      BY <1>14
    <2> QED
      BY <1>17, <2>1, EnlistedForm
  <1>19. PageListed(O) /\ (o[Page].annots.at # "ref" => Annots(o) \subseteq Annots(O))
    BY <1>16, EnlistedPage
  <1>20. Keeping(o, O, whole)
    <2>1. FieldList(o).at # "ref" \/ whole => Fields(o) \subseteq Fields(O)
      BY <1>18 DEF Enrolled, IsLoose
    <2> QED
      BY <1>19, <2>1 DEF Keeping
  <1> QED
    BY <1>16, <1>18, <1>19, <1>20 DEF Listed, O, P, sig, field, D

(* An operation that changes no list.                                      *)
LEMMA SameLists ==
  ASSUME NEW o, NEW n, Listed(o), DOMAIN o \subseteq DOMAIN n,
         n[Catalog].form = o[Catalog].form,
         \A id \in DOMAIN o \cap {Page, FormDict, FieldsArray} : n[id] = o[id],
         Page \in DOMAIN o
  PROVE  /\ Listed(n) /\ Keeping(o, n, TRUE)
         /\ FieldList(n) = FieldList(o) /\ Fields(n) = Fields(o)
  <1>1. /\ n[Page] = o[Page]
        /\ o[Catalog].form.at = "ref" => FormDict \in DOMAIN o /\ n[FormDict] = o[FormDict]
    BY DEF Listed, FormListed
  <1>2. FieldList(n) = FieldList(o) /\ (HasForm(n) <=> HasForm(o))
    BY <1>1 DEF FieldList, HasForm
  <1>3. FieldList(o).at = "ref" => /\ FieldsArray \in DOMAIN o /\ FieldsArray \in DOMAIN n
                                   /\ n[FieldsArray] = o[FieldsArray] /\ ArrayListed(o)
    BY DEF Listed
  <1>4. PageListed(n) /\ FormListed(n)
    BY <1>1, <1>2 DEF Listed, PageListed, FormListed
  <1>5. Listed(n)
    BY <1>2, <1>3, <1>4 DEF Listed, ArrayListed
  <1>6. Fields(n) = Fields(o)
    BY <1>2, <1>3 DEF Fields
  <1>7. o[Page].annots.at # "ref" => Annots(n) = Annots(o)
    BY <1>1 DEF Annots
  <1> QED
    BY <1>2, <1>5, <1>6, <1>7 DEF Keeping

(* Every listed field is in the document and is no signature, and every    *)
(* document with a signature lists one: the walk over /Fields needs no     *)
(* scan.                                                                   *)
Linked(o) ==
  /\ \A id \in Fields(o) : id \in DOMAIN o /\ id >= TextField /\ ~IsSig(o[id])
  /\ Signatures(o) # {} => Walked(o) # {} /\ FieldList(o).at # "none"

(* What the walk finds is what is validated.                               *)
LEMMA ListedAre ==
  ASSUME NEW o, Listed(o), Linked(o)
  PROVE  SignatureFields(o) = Walked(o)
  <1>1. CASE FieldList(o).at = "none"
    <2>1. IsList(FieldList(o))
      BY DEF Listed, FormListed, FieldList
    <2>2. FieldList(o).ids = << >> /\ FieldList(o).at # "ref"
      BY <1>1, <2>1 DEF IsList
    <2>3. Fields(o) = {}
      BY <2>2 DEF Fields, ToSet
    <2>4. Walked(o) = {}
      BY <2>3 DEF Walked
    <2> QED
      BY <1>1, <2>4 DEF SignatureFields
  <1>2. CASE FieldList(o).at # "none" /\ Walked(o) = {}
    <2>1. Signatures(o) = {}
      BY <1>2 DEF Linked
    <2> QED
      BY <1>2, <2>1 DEF SignatureFields
  <1>3. CASE FieldList(o).at # "none" /\ Walked(o) # {}
    BY <1>3 DEF SignatureFields
  <1> QED
    BY <1>1, <1>2, <1>3

(* The walk finds the new signature, and those it found before unless the  *)
(* array that listed them is left behind.                                  *)
LEMMA LinkedMore ==
  ASSUME NEW o, Linked(o), NEW O, NEW whole \in BOOLEAN, NEW sig \in Nat \ {0}, NEW field,
         Enrolled(o, O, whole, field), Fielded(o, O, sig, field), SigsKept(o, O, sig)
  PROVE  /\ Linked(O)
         /\ Walked(O) = (IF IsLoose(o) /\ ~whole THEN {} ELSE Walked(o)) \cup {sig}
  <1> DEFINE kept == IF IsLoose(o) /\ ~whole THEN {} ELSE Fields(o)
  <1>1. /\ Fields(O) = kept \cup {field} /\ FieldList(O).at # "none"
        /\ kept \subseteq Fields(o)
    BY DEF Enrolled
  <1>2. /\ field \in DOMAIN O /\ O[field] = [sig |-> sig] /\ field >= TextField
        /\ \A id \in DOMAIN o : id \in DOMAIN O /\ (id >= TextField => O[id] = o[id])
    BY DEF Fielded, TextField
  <1>3. O[field].sig = sig /\ ~IsSig(O[field]) /\ sig # 0
    BY <1>2 DEF IsSig
  <1>4. \A id \in kept : id \in DOMAIN O /\ O[id] = o[id] /\ id >= TextField /\ ~IsSig(O[id])
    BY <1>1, <1>2 DEF Linked
  <1>5. Walked(O) = {O[id].sig : id \in Fields(O)} \ {0}
    BY DEF Walked
  <1> HIDE DEF kept
  <1>6. Walked(O) = ({o[id].sig : id \in kept} \ {0}) \cup {sig}
    BY <1>1, <1>3, <1>4, <1>5
  <1>7. Walked(O) = (IF IsLoose(o) /\ ~whole THEN {} ELSE Walked(o)) \cup {sig}
    BY <1>6 DEF kept, Walked
  <1>8. \A id \in Fields(O) : id \in DOMAIN O /\ id >= TextField /\ ~IsSig(O[id])
    BY <1>1, <1>2, <1>3, <1>4
  <1>9. Linked(O)
    BY <1>1, <1>6, <1>8 DEF Linked
  <1> QED
    BY <1>7, <1>9

(* What changes neither fields nor lists changes nothing for the walk.     *)
LEMMA LinkedSame ==
  ASSUME NEW o, Linked(o), NEW O, Fields(O) = Fields(o), FieldList(O) = FieldList(o),
         Signatures(O) = Signatures(o),
         \A id \in Fields(o) : id \in DOMAIN O /\ O[id] = o[id]
  PROVE  Linked(O) /\ Walked(O) = Walked(o) /\ (IsLoose(O) <=> IsLoose(o))
  <1>1. Walked(O) = Walked(o)
    BY DEF Walked
  <1> QED
    BY <1>1 DEF Linked, IsLoose

-----------------------------------------------------------------------------
(* Signatures: what each was made over, and what it covers now.            *)

LEMMA InjectDigest ==
  ASSUME NEW f, IsSeq(f), NEW b, NEW id, NEW serial,
         Spans(Around(b, Len(f)), b, Len(f)),
         f[b + 1] = [k |-> "range", id |-> id, range |-> f[b + 1].range]
  PROVE  LET s == InjectSignature(f, b + 1, b, serial)
         IN  /\ IsSeq(s.signed) /\ Len(s.signed) = Len(f)
             /\ s.digest = Covered(s.signed, Around(b, Len(f)))
             /\ \A i \in 1 .. Len(f) : i # b + 1 /\ i # b + 2 => s.signed[i] = f[i]
  <1> DEFINE L == Len(f)
             r == Around(b, L)
             g == WithRange(f, b + 1, b)
             w == [g EXCEPT ![b + 2].cms = Cms(serial, 0)]
  <1>1. b \in Nat /\ L \in Nat /\ 2 <= b /\ b + 2 <= L
    BY DEF Spans
  <1>2. f = [i \in 1 .. L |-> f[i]] /\ DOMAIN f = 1 .. L /\ b + 1 \in 1 .. L
    BY <1>1, SeqFacts
  <1>3. g = [f EXCEPT ![b + 1].range = r]
    <2>1. L - (b + 1) - 1 = L - b - 2 /\ b + 1 + 1 = b + 2
      BY <1>1
    <2> QED
      BY <2>1 DEF WithRange, Around
  <1>4. /\ g = [i \in 1 .. L |-> g[i]]
        /\ g[b + 1] = [k |-> "range", id |-> id, range |-> r]
        /\ \A i \in 1 .. L : i # b + 1 => g[i] = f[i]
    <2> DEFINE v == [f[b + 1] EXCEPT !.range = r]
    <2>1. g = [f EXCEPT ![b + 1] = v]
      BY <1>3
    <2>2. v = [k |-> "range", id |-> id, range |-> r]
      <3> DEFINE u == f[b + 1]
                 d == u.range
      <3>1. u = [k |-> "range", id |-> id, range |-> d]
        OBVIOUS
      <3> HIDE DEF u, d, r
      <3>2. [u EXCEPT !.range = r] = [k |-> "range", id |-> id, range |-> r]
        BY <3>1
      <3> QED
        BY <3>2 DEF u
    <2> HIDE DEF v, g
    <2> QED
      BY <1>2, <2>1, <2>2
  <1> HIDE DEF g, r, L
  <1>5. IsSeq(g) /\ Len(g) = L
    BY <1>1, <1>4, MakeSeq
  <1>6. /\ w = [i \in 1 .. L |-> w[i]]
        /\ \A i \in 1 .. L : i # b + 2 => w[i] = g[i]
    BY <1>4
  <1>7. IsSeq(w) /\ Len(w) = L
    <2> HIDE DEF w
    <2> QED
      BY <1>1, <1>6, MakeSeq
  <1>8. InjectSignature(f, b + 1, b, serial) =
          [signed |-> w, digest |-> Covered(g, g[b + 1].range)]
    <2>1. b + 1 + 1 = b + 2
      BY <1>1
    <2> QED
      BY <2>1 DEF InjectSignature, g
  <1> HIDE DEF w
  <1>9. Covered(g, r) = Covered(w, r)
    <2>1. \A i \in 1 .. L : i # b + 2 => g[i] = w[i]
      BY <1>6
    <2>2. Spans(r, b, L) /\ L <= Len(g) /\ L <= Len(w)
      BY <1>1, <1>5, <1>7 DEF r, L
    <2> QED
      BY <1>5, <1>7, <2>1, <2>2, CoveredSame
  <1>10. g[b + 1].range = r
    BY <1>4
  <1>11. \A i \in 1 .. L : i # b + 1 /\ i # b + 2 => w[i] = f[i]
    BY <1>4, <1>6
  <1> QED
    BY <1>7, <1>8, <1>9, <1>10, <1>11 DEF L, r

(* The second cell of a document is its page.                              *)
LEMMA PageCellIs ==
  ASSUME NEW p, NEW n, NEW o, NEW prev, Piece(p, n, 0, o, prev), Doc(o)
  PROVE  /\ 2 <= n /\ p[2] = [k |-> "object", id |-> Page, v |-> o[Page]]
         /\ \A id \in DOMAIN o : IsSig(o[id]) => 2 <= p[n + 1].entries[id]
  <1> DEFINE e == p[n + 1].entries
  <1>1. /\ DOMAIN o \subseteq Nat \ {0} /\ {Catalog, Page} \subseteq DOMAIN o
        /\ \A id \in DOMAIN o : id <= TextField => ~IsSig(o[id])
        /\ Catalog = 1 /\ Page = 2 /\ TextField = 6
    BY DEF Doc, ObjMap, Catalog, Page, TextField
  <1>2. /\ \A i \in 1 .. n :
             /\ p[i].id \in DOMAIN o
             /\ p[i].k # "contents" => i = e[p[i].id] + 1
        /\ \A id \in DOMAIN o : /\ e[id] \in 0 .. n - 1 /\ Holds(p, e[id], id, o[id])
                                /\ Begins(p[e[id] + 1], id)
    <2>1. /\ \A i \in 1 .. n :
               /\ p[i].id \in DOMAIN o
               /\ p[i].k # "contents" => i = e[p[i].id] - 0 + 1
          /\ \A id \in DOMAIN o :
               /\ e[id] - 0 \in 0 .. n - 1 /\ e[id] \in Nat /\ Holds(p, e[id] - 0, id, o[id])
               /\ Begins(p[e[id] - 0 + 1], id)
      BY PieceShape
    <2>2. \A id \in DOMAIN o : e[id] - 0 = e[id]
      BY <2>1
    <2>3. \A i \in 1 .. n : e[p[i].id] - 0 = e[p[i].id]
      BY <2>1, <2>2
    <2> QED
      BY <2>1, <2>2, <2>3
  <1>3. \A a, b \in DOMAIN o : a < b => e[a] < e[b]
    BY DEF Piece, InOrder
  <1>4. /\ n \in Nat
        /\ \A i \in 1 .. n : p[i].k # "object" <=> IsSig(o[p[i].id])
    BY DEF Piece, Framed, Filled
  <1> HIDE DEF e
  <1>5. e[Catalog] < e[Page] /\ e[Catalog] \in 0 .. n - 1 /\ e[Page] \in 0 .. n - 1
    BY <1>1, <1>2, <1>3
  <1>6. 2 <= n /\ 1 \in 1 .. n /\ 2 \in 1 .. n
    BY <1>4, <1>5
  <1>7. \A id \in DOMAIN o : id = Catalog \/ id = Page \/ e[id] > e[Page]
    <2>1. \A id \in DOMAIN o : id \in Nat /\ (id = 1 \/ id = 2 \/ 2 < id)
      BY <1>1
    <2> QED
      BY <1>1, <1>2, <1>3, <1>5, <2>1
  (* No cell comes before the Catalog, and none between it and the page.     *)
  <1>8. e[Catalog] = 0
    <2> DEFINE a == p[1].id
    <2>1. a \in DOMAIN o /\ (p[1].k # "contents" => 1 = e[a] + 1)
      BY <1>2, <1>6
    <2>2. p[1].k # "contents"
      <3>1. SUFFICES ASSUME p[1].k = "contents" PROVE FALSE
        OBVIOUS
      <3>2. 1 - 1 \in 1 .. n
        BY <1>6, <3>1, PieceShape
      <3> QED
        BY <3>2
    <2>3. e[a] = 0
      BY <1>2, <2>1, <2>2
    <2> QED
      BY <1>2, <1>5, <1>7, <2>1, <2>3
  <1>9. e[Page] = 1
    <2> DEFINE a == p[2].id
    <2>1. a \in DOMAIN o /\ (p[2].k # "contents" => 2 = e[a] + 1)
      BY <1>2, <1>6
    <2>2. p[2].k # "contents"
      <3>1. SUFFICES ASSUME p[2].k = "contents" PROVE FALSE
        OBVIOUS
      <3>2. 2 - 1 = 1 /\ p[2 - 1].k = "range"
        BY <1>6, <3>1, PieceShape
      <3>3. p[1].k = "range"
        BY <3>2
      <3>4. Holds(p, 0, Catalog, o[Catalog]) /\ ~IsSig(o[Catalog])
        BY <1>1, <1>2, <1>8
      <3>5. p[0 + 1].k = "object" /\ 0 + 1 = 1
        BY <3>4 DEF Holds
      <3> QED
        BY <3>3, <3>5
    <2>3. e[a] = 1
      BY <1>2, <2>1, <2>2
    <2> QED
      BY <1>2, <1>5, <1>7, <1>8, <2>1, <2>3
  <1>10. p[2] = [k |-> "object", id |-> Page, v |-> o[Page]]
    <2>1. Holds(p, 1, Page, o[Page]) /\ ~IsSig(o[Page]) /\ 1 + 1 = 2
      BY <1>1, <1>2, <1>9
    <2> QED
      BY <2>1 DEF Holds
  <1>11. \A id \in DOMAIN o : IsSig(o[id]) => 2 <= e[id]
    <2>1. SUFFICES ASSUME NEW id \in DOMAIN o, IsSig(o[id]) PROVE 2 <= e[id]
      OBVIOUS
    <2>2. id # Catalog /\ id # Page
      BY <1>1, <2>1
    <2> QED
      BY <1>2, <1>7, <1>9, <2>1, <2>2
  <1> QED
    BY <1>6, <1>10, <1>11 DEF e

(* Verifies and Verified, over the digests ds; what is intact, and what is *)
(* reported of it.                                                         *)
VerifiesBy(f, v, ds) ==
  /\ v.cms.serial \in DOMAIN ds /\ v.range[1] = 0 /\ v.range[2] <= v.range[3]
  /\ v.range[3] + v.range[4] <= Len(f) /\ Covered(f, v.range) = ds[v.cms.serial]

VerifiedBy(f, o, ds) == {i \in Signatures(o) : VerifiesBy(f, o[i], ds)}

IntactBy(f, o, ds) == CmsOf(o, VerifiedBy(f, o, ds))

ValidBy(f, o, ds) == CmsOf(o, VerifiedBy(f, o, ds) \cap Walked(o))

(* The signature v of f was made over d: what it covers is d still, or its *)
(* page is another one than that of d.                                     *)
Genuine(f, v, d) ==
  \E b, L : Spans(v.range, b, L) /\ L <= Len(f) /\ Covered(f, v.range) = d

Foreign(f, v, d) == (\E b, L : Spans(v.range, b, L)) /\ d[2] # f[2]

(* A genuine signature verifies.                                           *)
LEMMA GenuineVerifies ==
  ASSUME NEW f, IsSeq(f), NEW ds, NEW v, v.cms.serial \in DOMAIN ds,
         Genuine(f, v, ds[v.cms.serial])
  PROVE  VerifiesBy(f, v, ds)
  <1>1. PICK b, L : /\ Spans(v.range, b, L) /\ L <= Len(f)
                    /\ Covered(f, v.range) = ds[v.cms.serial]
    BY DEF Genuine
  <1> DEFINE r == v.range
  <1>2. /\ b \in Nat /\ L \in Nat /\ b + 2 <= L
        /\ r[1] = 0 /\ r[2] = b + 1 /\ r[3] = b + 2 /\ r[4] = L - b - 2
    BY <1>1 DEF Spans, Around
  <1> HIDE DEF r
  <1>3. r[2] <= r[3] /\ r[3] + r[4] <= Len(f)
    <2>1. r[3] + r[4] = L
      BY <1>2
    <2> QED
      BY <1>1, <1>2, <2>1
  <1> QED
    BY <1>1, <1>2, <1>3 DEF VerifiesBy, r

(* A foreign one does not: the page it was made over is another.           *)
LEMMA ForeignFails ==
  ASSUME NEW f, IsSeq(f), NEW ds, NEW v, Foreign(f, v, ds[v.cms.serial])
  PROVE  ~VerifiesBy(f, v, ds)
  <1>1. PICK b, L : Spans(v.range, b, L)
    BY DEF Foreign
  <1> DEFINE r == v.range
  <1>2. /\ b \in Nat /\ L \in Nat /\ 2 <= b /\ b + 2 <= L /\ Len(f) \in Nat
        /\ r[3] = b + 2 /\ r[4] = L - b - 2
    BY <1>1, SeqFacts DEF Spans, Around
  <1>3. ASSUME r[3] + r[4] <= Len(f) PROVE Covered(f, r)[2] = f[2]
    <2>1. r[3] + r[4] = L /\ 2 \in 1 .. b + 1
      BY <1>2
    <2>2. L <= Len(f)
      BY <1>3, <2>1
    <2> HIDE DEF r
    <2>3. Spans(r, b, L)
      BY <1>1 DEF r
    <2>4. \A i \in 1 .. b + 1 : Covered(f, r)[i] = f[i]
      BY <2>2, <2>3, CoveredIs
    <2> QED
      BY <2>1, <2>4
  <1>4. ds[v.cms.serial][2] # f[2]
    BY DEF Foreign
  <1> QED
    BY <1>3, <1>4 DEF VerifiesBy

(* The cell of a page whose last annotation is k.                          *)
PageWith(s, k) ==
  [k |-> "object", id |-> Page, v |-> [annots |-> List("inline", Append(s, k))]]

(* A page cell tells which annotation is its last.                         *)
LEMMA PageWithIs ==
  ASSUME NEW s, NEW t, IsSeq(s), IsSeq(t), NEW j, NEW k, PageWith(s, j) = PageWith(t, k)
  PROVE  j = k
  <1> DEFINE u == Append(s, j)
             w == Append(t, k)
  <1>1. u[Len(u)] = j /\ w[Len(w)] = k
    BY Longer
  <1>2. PageWith(s, j).v.annots.ids = u /\ PageWith(t, k).v.annots.ids = w
    BY DEF PageWith, List
  <1> QED
    BY <1>1, <1>2

(* A cell that is no page with an annotation beyond the numbers ids.       *)
Dated(cell, ids) ==
  \A s, k : IsSeq(s) /\ cell = PageWith(s, k) => \E id \in ids : k <= id

(* More objects leave a cell dated.                                        *)
LEMMA DatedMore ==
  ASSUME NEW cell, NEW S, NEW T, S \subseteq T, Dated(cell, S)
  PROVE  Dated(cell, T)
  BY DEF Dated

(* A page is dated by the last of its annotations.                         *)
LEMMA DatedPage ==
  ASSUME NEW s, IsSeq(s), NEW k, NEW ids, k \in ids, k \in Nat
  PROVE  Dated(PageWith(s, k), ids)
  <1>1. SUFFICES ASSUME NEW t, NEW j, IsSeq(t), PageWith(s, k) = PageWith(t, j)
                 PROVE  \E id \in ids : j <= id
    BY DEF Dated
  <1>2. j = k /\ k <= k
    BY <1>1, PageWithIs
  <1> QED
    BY <1>2

(* The second cell of every document and of every digest is a page that    *)
(* was before: a new signature makes another one.                          *)
Attested(f, o, ds) ==
  /\ Dated(f[2], DOMAIN o)
  /\ \A id \in Signatures(o) :
       LET n == o[id].cms.serial
       IN  /\ n \in 1 .. Len(ds) /\ Dated(ds[n][2], DOMAIN o)
           /\ Genuine(f, o[id], ds[n]) \/ Foreign(f, o[id], ds[n])

(* So, of those attested, the genuine ones verify and no others.           *)
LEMMA VerdictIs ==
  ASSUME NEW f, IsSeq(f), NEW o, NEW ds, IsSeq(ds), Attested(f, o, ds),
         NEW id \in Signatures(o)
  PROVE  VerifiesBy(f, o[id], ds) <=> Genuine(f, o[id], ds[o[id].cms.serial])
  <1> DEFINE v == o[id]
             n == v.cms.serial
  <1>1. n \in 1 .. Len(ds) /\ (Genuine(f, v, ds[n]) \/ Foreign(f, v, ds[n]))
    BY DEF Attested
  <1>2. n \in DOMAIN ds
    BY <1>1, SeqFacts
  <1> QED
    BY <1>1, <1>2, GenuineVerifies, ForeignFails

(* The only signature of f that still covers what it was made over.        *)
Solo(f, o, sig, ds) ==
  /\ sig \in Signatures(o) /\ Genuine(f, o[sig], ds[o[sig].cms.serial])
  /\ \A id \in Signatures(o) \ {sig} : Foreign(f, o[id], ds[o[id].cms.serial])

(* Then it is the one that verifies.                                       *)
LEMMA SoloValid ==
  ASSUME NEW f, IsSeq(f), NEW o, NEW ds, IsSeq(ds), Attested(f, o, ds),
         NEW sig, Solo(f, o, sig, ds)
  PROVE  VerifiedBy(f, o, ds) = {sig}
  <1>1. sig \in Signatures(o) /\ VerifiesBy(f, o[sig], ds)
    BY VerdictIs DEF Solo
  <1>2. \A id \in Signatures(o) \ {sig} : ~VerifiesBy(f, o[id], ds)
    BY ForeignFails DEF Solo
  <1> QED
    BY <1>1, <1>2 DEF VerifiedBy

(* What Append does, cell by cell.                                         *)
LEMMA AddedLast ==
  ASSUME NEW s, IsSeq(s), NEW d
  PROVE  LET t == Append(s, d)
         IN  /\ IsSeq(t) /\ Len(t) = Len(s) + 1 /\ t[Len(s) + 1] = d
             /\ \A n \in 1 .. Len(s) : t[n] = s[n]
  <1> DEFINE S == Range(s) \cup {d}
             t == Append(s, d)
  <1>1. s \in Seq(S) /\ d \in S
    BY SeqMonotonic DEF IsSeq
  <1> HIDE DEF S
  <1>2. /\ t \in Seq(S) /\ Len(t) = Len(s) + 1 /\ t[Len(s) + 1] = d
        /\ \A n \in 1 .. Len(s) : t[n] = s[n]
    BY <1>1, AppendProperties
  <1> QED
    BY <1>2, SeqIs

(* The digest of a further signature changes no verdict.                   *)
LEMMA FurtherDigest ==
  ASSUME NEW f, IsSeq(f), NEW o, NEW ds, IsSeq(ds), Attested(f, o, ds), NEW d
  PROVE  /\ IsSeq(Append(ds, d)) /\ Append(ds, d)[Len(ds) + 1] = d
         /\ Len(Append(ds, d)) = Len(ds) + 1
         /\ \A n \in 1 .. Len(ds) : Append(ds, d)[n] = ds[n] /\ n \in 1 .. Len(ds) + 1
         /\ Attested(f, o, Append(ds, d))
         /\ VerifiedBy(f, o, Append(ds, d)) = VerifiedBy(f, o, ds)
         /\ \A sig : Solo(f, o, sig, ds) => Solo(f, o, sig, Append(ds, d))
  <1> DEFINE e == Append(ds, d)
  <1>1. Len(ds) \in Nat
    BY SeqFacts
  <1>2. /\ IsSeq(e) /\ Len(e) = Len(ds) + 1 /\ e[Len(ds) + 1] = d
        /\ \A n \in 1 .. Len(ds) : e[n] = ds[n]
    BY AddedLast
  <1>3. \A n \in 1 .. Len(ds) : n \in 1 .. Len(ds) + 1
    BY <1>1
  <1> HIDE DEF e
  <1>4. \A id \in Signatures(o) : LET n == o[id].cms.serial
                              IN  n \in 1 .. Len(ds) /\ n \in 1 .. Len(e) /\ e[n] = ds[n]
    BY <1>2, <1>3 DEF Attested
  <1>5. Attested(f, o, e)
    BY <1>4 DEF Attested
  <1>6. \A id \in Signatures(o) : VerifiesBy(f, o[id], e) <=> VerifiesBy(f, o[id], ds)
    BY <1>2, <1>4, <1>5, VerdictIs
  <1>7. VerifiedBy(f, o, e) = VerifiedBy(f, o, ds)
    BY <1>6 DEF VerifiedBy
  <1>8. \A sig : Solo(f, o, sig, ds) => Solo(f, o, sig, e)
    BY <1>4 DEF Solo
  <1> QED
    BY <1>2, <1>3, <1>5, <1>7, <1>8 DEF e

(* F begins with the cells of f.                                           *)
Extends(F, f) ==
  /\ IsSeq(f) /\ IsSeq(F) /\ 2 <= Len(f) /\ Len(f) <= Len(F)
  /\ \A i \in 1 .. Len(f) : F[i] = f[i]

(* More cells behind a file change no verdict on it.                       *)
LEMMA VerdictKept ==
  ASSUME NEW f, NEW F, Extends(F, f), NEW v, NEW d
  PROVE  /\ F[2] = f[2]
         /\ Genuine(f, v, d) => Genuine(F, v, d)
         /\ Foreign(f, v, d) => Foreign(F, v, d)
  <1>1. /\ IsSeq(f) /\ IsSeq(F) /\ 2 <= Len(f) /\ Len(f) <= Len(F)
        /\ \A i \in 1 .. Len(f) : F[i] = f[i]
        /\ Len(f) \in Nat /\ Len(F) \in Nat
    BY SeqFacts DEF Extends
  <1>2. F[2] = f[2]
    BY <1>1
  <1>3. ASSUME Genuine(f, v, d) PROVE Genuine(F, v, d)
    <2>1. PICK b, L : Spans(v.range, b, L) /\ L <= Len(f) /\ Covered(f, v.range) = d
      BY <1>3 DEF Genuine
    <2>2. L \in Nat /\ L <= Len(F)
      BY <1>1, <2>1 DEF Spans
    <2>3. \A i \in 1 .. L : i # b + 2 => f[i] = F[i]
      BY <1>1, <2>1, <2>2
    <2>4. Covered(f, v.range) = Covered(F, v.range)
      BY <1>1, <2>1, <2>2, <2>3, CoveredSame
    <2> QED
      BY <2>1, <2>2, <2>4 DEF Genuine
  <1> QED
    BY <1>2, <1>3 DEF Foreign

Joins(V, W, sig) == V = W \cup {sig}

(* A signature in a revision of its own joins those that verify.           *)
LEMMA ApprovalIs ==
  ASSUME NEW f, NEW o, NEW ds, IsSeq(ds), Attested(f, o, ds),
         NEW F, NEW O, Extends(F, f), NEW sig, SigsKept(o, O, sig),
         NEW r, NEW c, O[sig] = [range |-> r, cms |-> c], c.serial = Len(ds) + 1,
         NEW b, Spans(r, b, Len(F))
  PROVE  LET e == Append(ds, Covered(F, r))
         IN  /\ Attested(F, O, e)
             /\ Joins(VerifiedBy(F, O, e), VerifiedBy(f, o, ds), sig)
  <1> DEFINE d == Covered(F, r)
             e == Append(ds, d)
             n == Len(ds) + 1
  <1>1. /\ IsSeq(f) /\ IsSeq(F) /\ Len(ds) \in Nat /\ Len(F) \in Nat /\ F[2] = f[2]
    BY SeqFacts, VerdictKept DEF Extends
  <1> HIDE DEF d
  <1>2. /\ IsSeq(e) /\ Len(e) = n /\ e[n] = d
        /\ \A i \in 1 .. Len(ds) : e[i] = ds[i] /\ i \in 1 .. n
        /\ Attested(f, o, e) /\ VerifiedBy(f, o, e) = VerifiedBy(f, o, ds)
    BY <1>1, FurtherDigest
  <1>3. n \in 1 .. n
    BY <1>1
  <1> HIDE DEF e, n
  <1>4. O[sig].range = r /\ O[sig].cms = c /\ c.serial = n
    BY DEF n
  <1>5. Genuine(F, O[sig], d)
    BY <1>1, <1>4 DEF Genuine, d
  <1>6. Dated(F[2], DOMAIN o)
    BY <1>1 DEF Attested
  <1>7. Dated(d[2], DOMAIN o)
    <2>1. 2 \in 1 .. b + 1 /\ Len(F) <= Len(F)
      BY <1>1 DEF Spans
    <2>2. \A i \in 1 .. b + 1 : d[i] = F[i]
      BY <1>1, <2>1, CoveredIs DEF d
    <2> QED
      BY <1>6, <2>1, <2>2
  <1>8. ASSUME NEW id \in Signatures(o)
        PROVE  /\ O[id] = o[id] /\ o[id].cms.serial \in 1 .. n
               /\ Dated(e[o[id].cms.serial][2], DOMAIN o)
               /\ Genuine(f, o[id], e[o[id].cms.serial]) =>
                    Genuine(F, o[id], e[o[id].cms.serial])
               /\ Genuine(F, o[id], e[o[id].cms.serial])
                  \/ Foreign(F, o[id], e[o[id].cms.serial])
    BY <1>2, VerdictKept DEF Attested, SigsKept
  <1>9. Attested(F, O, e)
    <2>1. DOMAIN o \subseteq DOMAIN O /\ Signatures(O) = Signatures(o) \cup {sig}
      BY DEF SigsKept
    <2>2. Dated(F[2], DOMAIN O)
      BY <1>6, <2>1, DatedMore
    <2>3. ASSUME NEW id \in Signatures(o)
          PROVE  LET k == O[id].cms.serial
                 IN  /\ k \in 1 .. n /\ Dated(e[k][2], DOMAIN O)
                     /\ Genuine(F, O[id], e[k]) \/ Foreign(F, O[id], e[k])
      BY <1>8, <2>1, DatedMore
    <2>4. Dated(e[n][2], DOMAIN O) /\ Genuine(F, O[sig], e[n])
      BY <1>2, <1>5, <1>7, <2>1, DatedMore
    <2> QED
      BY <1>2, <1>3, <1>4, <2>1, <2>2, <2>3, <2>4 DEF Attested
  <1>10. \A id \in Signatures(o) : VerifiesBy(F, O[id], e) <=> VerifiesBy(f, o[id], e)
    <2>1. SUFFICES ASSUME NEW id \in Signatures(o)
                   PROVE  VerifiesBy(F, O[id], e) <=> VerifiesBy(f, o[id], e)
      OBVIOUS
    <2> DEFINE k == o[id].cms.serial
    <2>2. id \in Signatures(O) /\ O[id] = o[id]
      BY DEF SigsKept
    <2>3. VerifiesBy(F, o[id], e) <=> Genuine(F, o[id], e[k])
      BY <1>1, <1>2, <1>9, <2>2, VerdictIs
    <2>4. VerifiesBy(f, o[id], e) <=> Genuine(f, o[id], e[k])
      BY <1>1, <1>2, VerdictIs
    <2>5. Foreign(f, o[id], e[k]) => ~VerifiesBy(F, o[id], e)
      BY <1>1, VerdictKept, ForeignFails
    <2>6. Genuine(f, o[id], e[k]) \/ Foreign(f, o[id], e[k])
      BY <1>2 DEF Attested
    <2> QED
      BY <1>8, <2>2, <2>3, <2>4, <2>5, <2>6
  <1>11. VerifiesBy(F, O[sig], e)
    <2>1. sig \in Signatures(O) /\ Genuine(F, O[sig], e[O[sig].cms.serial])
      BY <1>2, <1>4, <1>5 DEF SigsKept
    <2> QED
      BY <1>1, <1>2, <1>9, <2>1, VerdictIs
  <1>12. VerifiedBy(F, O, e) = VerifiedBy(f, o, e) \cup {sig}
    <2>1. Signatures(O) = Signatures(o) \cup {sig}
      BY DEF SigsKept
    <2> QED
      BY <1>10, <1>11, <2>1 DEF VerifiedBy
  <1> QED
    BY <1>2, <1>9, <1>12 DEF Joins, e, d

(* A signature of a document written anew is alone: the page it was made   *)
(* over lists its own widget, which no earlier page does.                  *)
LEMMA RewriteIs ==
  ASSUME NEW f, NEW o, NEW ds, IsSeq(ds), Attested(f, o, ds),
         NEW F, IsSeq(F), NEW O, NEW sig, SigsKept(o, O, sig),
         NEW r, NEW c, O[sig] = [range |-> r, cms |-> c], c.serial = Len(ds) + 1,
         NEW b, Spans(r, b, Len(F)), NEW s, IsSeq(s), NEW k \in Nat,
         F[2] = PageWith(s, k), k \in DOMAIN O, \A id \in DOMAIN o : id \in Nat /\ id < k
  PROVE  LET e == Append(ds, Covered(F, r))
         IN  Attested(F, O, e) /\ Solo(F, O, sig, e)
  <1> DEFINE d == Covered(F, r)
             e == Append(ds, d)
             n == Len(ds) + 1
  <1>1. Len(ds) \in Nat /\ Len(F) \in Nat
    BY SeqFacts
  <1>2. d[2] = F[2]
    <2>1. 2 \in 1 .. b + 1 /\ Len(F) <= Len(F)
      BY <1>1 DEF Spans
    <2>2. \A i \in 1 .. b + 1 : d[i] = F[i]
      BY <2>1, CoveredIs
    <2> QED
      BY <2>1, <2>2
  <1>3. /\ O[sig].range = r /\ O[sig].cms = c /\ c.serial = n
        /\ Genuine(F, O[sig], d)
    BY <1>1 DEF Genuine
  <1> HIDE DEF d
  <1>4. /\ Len(e) = n /\ e[n] = d /\ n \in 1 .. n
        /\ \A i \in 1 .. Len(ds) : e[i] = ds[i] /\ i \in 1 .. n
    <2>1. /\ IsSeq(e) /\ Len(e) = n /\ e[n] = d
          /\ \A i \in 1 .. Len(ds) : e[i] = ds[i]
      BY AddedLast
    <2> HIDE DEF e
    <2> QED
      BY <1>1, <2>1
  <1> HIDE DEF e, n
  <1>5. /\ DOMAIN o \subseteq DOMAIN O /\ sig \in Signatures(O)
        /\ Signatures(O) = Signatures(o) \cup {sig} /\ sig \notin Signatures(o)
        /\ \A id \in Signatures(o) : O[id] = o[id]
    BY DEF SigsKept
  <1>6. Dated(F[2], DOMAIN O)
    BY DatedPage
  <1>7. ASSUME NEW id \in Signatures(o)
        PROVE  LET m == o[id].cms.serial
               IN  /\ O[id] = o[id] /\ m \in 1 .. n /\ Dated(e[m][2], DOMAIN O)
                   /\ Foreign(F, o[id], e[m])
    <2> DEFINE m == o[id].cms.serial
               v == o[id]
    <2>1. /\ m \in 1 .. Len(ds) /\ Dated(ds[m][2], DOMAIN o)
          /\ Genuine(f, v, ds[m]) \/ Foreign(f, v, ds[m])
      BY DEF Attested
    <2>2. \E a, L : Spans(v.range, a, L)
      BY <2>1 DEF Genuine, Foreign
    <2>3. ds[m][2] # F[2]
      <3>1. ~Dated(F[2], DOMAIN o)
        <4>1. SUFFICES ASSUME Dated(F[2], DOMAIN o) PROVE FALSE
          OBVIOUS
        <4>2. \E id2 \in DOMAIN o : k <= id2
          BY <4>1 DEF Dated
        <4> QED
          BY <4>2
      <3> QED
        BY <2>1, <3>1
    <2> HIDE DEF m, v
    <2>4. Foreign(F, v, ds[m])
      BY <2>2, <2>3 DEF Foreign
    <2>5. Dated(ds[m][2], DOMAIN O)
      BY <1>5, <2>1, DatedMore
    <2> QED
      BY <1>4, <1>5, <2>1, <2>4, <2>5 DEF m, v
  <1>8. Attested(F, O, e)
    <2>1. ASSUME NEW id \in Signatures(O)
          PROVE  LET m == O[id].cms.serial
                 IN  /\ m \in 1 .. n /\ Dated(e[m][2], DOMAIN O)
                     /\ Genuine(F, O[id], e[m]) \/ Foreign(F, O[id], e[m])
      <3>1. CASE id = sig
        BY <1>2, <1>3, <1>4, <1>6, <3>1
      <3>2. CASE id \in Signatures(o)
        BY <1>7, <3>2
      <3> QED
        BY <1>5, <3>1, <3>2
    <2> QED
      BY <1>4, <1>6, <2>1 DEF Attested
  <1>9. Solo(F, O, sig, e)
    BY <1>3, <1>4, <1>5, <1>7 DEF Solo
  <1> QED
    BY <1>8, <1>9 DEF e, d

(* A token that is embedded in the last signature changes no verdict.      *)
SameBut(w, g, b) ==
  /\ IsSeq(g) /\ IsSeq(w) /\ Len(w) = Len(g)
  /\ \A i \in 1 .. Len(g) : i # b + 2 => w[i] = g[i]

Restamps(O, o, sig, c) ==
  /\ DOMAIN O = DOMAIN o /\ Signatures(O) = Signatures(o)
  /\ \A id \in DOMAIN o \ {sig} : O[id] = o[id]
  /\ O[sig] = [range |-> o[sig].range, cms |-> c] /\ c.serial = o[sig].cms.serial

(* A time stamp changes no verdict: no signature covers its own /Contents. *)
LEMMA StampKeeps ==
  ASSUME NEW g, NEW w, NEW o, NEW O, NEW ds, IsSeq(ds),
         NEW sig, Attested(g, o, ds), Solo(g, o, sig, ds),
         NEW b, Spans(o[sig].range, b, Len(g)), SameBut(w, g, b),
         NEW c, Restamps(O, o, sig, c)
  PROVE  Attested(w, O, ds) /\ Solo(w, O, sig, ds)
  <1>1. /\ IsSeq(g) /\ IsSeq(w) /\ Len(w) = Len(g)
        /\ \A i \in 1 .. Len(g) : i # b + 2 => w[i] = g[i]
        /\ DOMAIN O = DOMAIN o /\ Signatures(O) = Signatures(o)
        /\ \A id \in DOMAIN o \ {sig} : O[id] = o[id]
        /\ O[sig] = [range |-> o[sig].range, cms |-> c] /\ c.serial = o[sig].cms.serial
    BY DEF SameBut, Restamps
  <1>2. Len(g) \in Nat /\ b \in Nat /\ 2 <= b /\ b + 2 <= Len(g)
    BY <1>1, SeqFacts DEF Spans
  <1>3. w[2] = g[2]
    <2>1. 2 \in 1 .. Len(g) /\ 2 # b + 2
      BY <1>2
    <2> QED
      BY <1>1, <2>1
  <1>4. \A id \in Signatures(o) : id \in DOMAIN o
    BY DEF Signatures
  <1> DEFINE r == o[sig].range
             d == ds[c.serial]
  <1>5. Genuine(w, O[sig], d)
    <2>1. Covered(g, r) = d
      BY <1>1 DEF Solo, Genuine
    <2>2. Len(g) <= Len(g) /\ Len(g) <= Len(w)
      BY <1>1, <1>2
    <2>3. \A i \in 1 .. Len(g) : i # b + 2 => g[i] = w[i]
      BY <1>1
    <2> HIDE DEF r, d
    <2>4. Spans(r, b, Len(g))
      BY DEF r
    <2>5. Covered(w, r) = d
      BY <1>1, <2>1, <2>2, <2>3, <2>4, CoveredSame
    <2>6. O[sig].range = r
      BY <1>1 DEF r
    <2> QED
      BY <2>2, <2>4, <2>5, <2>6 DEF Genuine
  <1>6. sig \in Signatures(o) /\ O[sig].cms = c
    BY <1>1 DEF Solo
  <1>7. \A id \in Signatures(o) \ {sig} : /\ O[id] = o[id]
                                          /\ Foreign(w, O[id], ds[O[id].cms.serial])
    BY <1>1, <1>3, <1>4 DEF Solo, Foreign
  <1>8. Solo(w, O, sig, ds)
    BY <1>1, <1>5, <1>6, <1>7 DEF Solo
  <1>9. \A id \in Signatures(o) : O[id].cms.serial = o[id].cms.serial
    BY <1>1, <1>6, <1>7
  <1>10. \A id \in Signatures(o) : \/ Genuine(w, O[id], ds[O[id].cms.serial])
                                   \/ Foreign(w, O[id], ds[O[id].cms.serial])
    BY <1>5, <1>6, <1>7
  <1>11. Attested(w, O, ds)
    BY <1>1, <1>3, <1>9, <1>10 DEF Attested
  <1> QED
    BY <1>8, <1>11

(* A revision without a signature changes no verdict.                      *)
LEMMA StoreKeeps ==
  ASSUME NEW f, NEW F, Extends(F, f), NEW o, NEW O, NEW ds, IsSeq(ds), Attested(f, o, ds),
         DOMAIN o \subseteq DOMAIN O, Signatures(O) = Signatures(o),
         \A id \in Signatures(o) : O[id] = o[id]
  PROVE  Attested(F, O, ds) /\ VerifiedBy(F, O, ds) = VerifiedBy(f, o, ds)
  <1>1. /\ IsSeq(f) /\ IsSeq(F) /\ F[2] = f[2]
    BY VerdictKept DEF Extends
  <1>2. ASSUME NEW id \in Signatures(o)
        PROVE  LET d == ds[o[id].cms.serial]
               IN  /\ Genuine(f, o[id], d) => Genuine(F, o[id], d)
                   /\ Foreign(f, o[id], d) => Foreign(F, o[id], d)
                   /\ Genuine(f, o[id], d) \/ Foreign(f, o[id], d)
    BY VerdictKept DEF Attested
  <1>3. Attested(F, O, ds)
    <2>1. Dated(F[2], DOMAIN O)
      BY <1>1, DatedMore DEF Attested
    <2>2. ASSUME NEW id \in Signatures(O)
          PROVE  LET n == O[id].cms.serial
                 IN  /\ n \in 1 .. Len(ds) /\ Dated(ds[n][2], DOMAIN O)
                     /\ Genuine(F, O[id], ds[n]) \/ Foreign(F, O[id], ds[n])
      BY <1>2, DatedMore DEF Attested
    <2> QED
      BY <2>1, <2>2 DEF Attested
  <1>4. \A id \in Signatures(o) : VerifiesBy(F, O[id], ds) <=> VerifiesBy(f, o[id], ds)
    <2>1. SUFFICES ASSUME NEW id \in Signatures(o)
                   PROVE  VerifiesBy(F, O[id], ds) <=> VerifiesBy(f, o[id], ds)
      OBVIOUS
    <2> DEFINE d == ds[o[id].cms.serial]
    <2>2. O[id] = o[id] /\ id \in Signatures(O)
      OBVIOUS
    <2>3. VerifiesBy(F, o[id], ds) <=> Genuine(F, o[id], d)
      BY <1>1, <1>3, <2>2, VerdictIs
    <2>4. VerifiesBy(f, o[id], ds) <=> Genuine(f, o[id], d)
      BY <1>1, VerdictIs
    <2>5. Foreign(f, o[id], d) => ~VerifiesBy(F, o[id], ds)
      BY <1>1, <1>2, ForeignFails
    <2> QED
      BY <1>2, <2>2, <2>3, <2>4, <2>5
  <1> QED
    BY <1>3, <1>4 DEF VerifiedBy

(* A document without signatures is attested.                              *)
LEMMA NoSignature ==
  ASSUME NEW f, NEW o, NEW ds, Dated(f[2], DOMAIN o), \A id \in DOMAIN o : ~IsSig(o[id])
  PROVE  /\ Attested(f, o, ds) /\ Signatures(o) = {}
         /\ IntactBy(f, o, ds) = {} /\ ValidBy(f, o, ds) = {}
  <1>1. Signatures(o) = {} /\ VerifiedBy(f, o, ds) = {}
    BY DEF Signatures, VerifiedBy
  <1> QED
    BY <1>1 DEF Attested, IntactBy, ValidBy, CmsOf

-----------------------------------------------------------------------------
(* The operations on files.                                                *)

Sound(f) == Well(f) /\ Doc(LoadMem(f)) /\ StoreOK(LoadMem(f), 0)

(* A document of one revision whose last signature is sig, under c.        *)
SignedBy(f, n, o, sig, c) ==
  /\ Piece(f, n, 0, o, Nowhere) /\ Doc(o) /\ IsLast(o, sig)
  /\ o[sig].cms = c /\ StoreOK(o, sig)

(* It covers the rest of its document, and is the only one that verifies;  *)
(* a field lists it.                                                       *)
Whole(f, n, o, sig, ds) ==
  /\ Listed(o) /\ Linked(o) /\ sig \in Walked(o)
  /\ Attested(f, o, ds) /\ Solo(f, o, sig, ds)
  /\ o[sig].range = Around(f[n + 1].entries[sig], n + 2)

Fresh(f, c, ds) ==
  \E n, o, sig : SignedBy(f, n, o, sig, c) /\ Whole(f, n, o, sig, ds)

(* What the readers of f rely on: its lists, and what was signed.          *)
Told(f, ds) ==
  LET o == LoadMem(f) IN Listed(o) /\ Linked(o) /\ Attested(f, o, ds)

(* What two files show, if it is the same; what f shows of one signature,  *)
(* if it shows no other; and what F shows, if it is a revision of f.       *)
SameShown(F, f, es, ds) ==
  LET O == LoadMem(F)
      o == LoadMem(f)
  IN  /\ IntactBy(F, O, es) = IntactBy(f, o, ds)
      /\ ValidBy(F, O, es) = ValidBy(f, o, ds)
      /\ IsLoose(O) <=> IsLoose(o)

ShowsOnly(f, ds, c) ==
  IntactBy(f, LoadMem(f), ds) = {c} /\ ValidBy(f, LoadMem(f), ds) = {c}

ShowsMore(F, f, es, ds, c) ==
  LET O == LoadMem(F)
      o == LoadMem(f)
  IN  /\ IntactBy(F, O, es) = IntactBy(f, o, ds) \cup {c}
      /\ ValidBy(F, O, es) = (IF IsLoose(o) THEN {} ELSE ValidBy(f, o, ds)) \cup {c}
      /\ ~IsLoose(O)

(* What is shown follows from what verifies and what the walk finds.       *)
LEMMA SameIs ==
  ASSUME NEW F, NEW f, NEW es, NEW ds,
         VerifiedBy(F, LoadMem(F), es) = VerifiedBy(f, LoadMem(f), ds),
         Walked(LoadMem(F)) = Walked(LoadMem(f)),
         IsLoose(LoadMem(F)) <=> IsLoose(LoadMem(f)),
         \A id \in Signatures(LoadMem(f)) : LoadMem(F)[id] = LoadMem(f)[id]
  PROVE  SameShown(F, f, es, ds)
  <1> DEFINE O == LoadMem(F)
             o == LoadMem(f)
             V == VerifiedBy(f, o, ds)
  <1>1. \A id \in V : O[id] = o[id]
    BY DEF VerifiedBy
  <1> HIDE DEF V, O, o
  <1>2. CmsOf(O, V) = CmsOf(o, V) /\ CmsOf(O, V \cap Walked(o)) = CmsOf(o, V \cap Walked(o))
    BY <1>1 DEF CmsOf
  <1> QED
    BY <1>2 DEF SameShown, IntactBy, ValidBy, V, O, o

(* One signature verifies, and the walk finds it.                          *)
LEMMA OnlyIs ==
  ASSUME NEW f, NEW o, o = LoadMem(f), NEW ds, NEW sig, VerifiedBy(f, o, ds) = {sig},
         sig \in Walked(o), NEW c, o[sig].cms = c
  PROVE  ShowsOnly(f, ds, c)
  <1>1. {sig} \cap Walked(o) = {sig} /\ CmsOf(o, {sig}) = {c}
    BY DEF CmsOf
  <1> QED
    BY <1>1 DEF ShowsOnly, IntactBy, ValidBy

(* One more signature verifies, and the walk has lost none unless it has   *)
(* lost the list.                                                          *)
LEMMA MoreIs ==
  ASSUME NEW F, NEW f, NEW es, NEW ds, NEW O, O = LoadMem(F), NEW o, o = LoadMem(f),
         NEW sig, Joins(VerifiedBy(F, O, es), VerifiedBy(f, o, ds), sig),
         Walked(O) = (IF IsLoose(o) THEN {} ELSE Walked(o)) \cup {sig},
         SigsKept(o, O, sig), NEW c, O[sig].cms = c, ~IsLoose(O)
  PROVE  ShowsMore(F, f, es, ds, c)
  <1> DEFINE V == VerifiedBy(f, o, ds)
             W == IF IsLoose(o) THEN {} ELSE Walked(o)
  <1>1. /\ \A id \in V : O[id] = o[id] /\ id # sig
        /\ VerifiedBy(F, O, es) = V \cup {sig} /\ Walked(O) = W \cup {sig}
    BY DEF VerifiedBy, SigsKept, Joins
  <1>2. CmsOf(o, V \cap W) = IF IsLoose(o) THEN {} ELSE ValidBy(f, o, ds)
    <2>1. CASE IsLoose(o)
      BY <2>1 DEF CmsOf
    <2>2. CASE ~IsLoose(o)
      BY <2>2 DEF ValidBy
    <2> QED
      BY <2>1, <2>2
  <1> HIDE DEF V, W
  <1>3. CmsOf(O, V \cup {sig}) = CmsOf(o, V) \cup {c}
    BY <1>1 DEF CmsOf
  <1>4. (V \cup {sig}) \cap (W \cup {sig}) = (V \cap W) \cup {sig}
    OBVIOUS
  <1>5. CmsOf(O, (V \cap W) \cup {sig}) = CmsOf(o, V \cap W) \cup {c}
    BY <1>1 DEF CmsOf
  <1>6. IntactBy(F, O, es) = IntactBy(f, o, ds) \cup {c}
    BY <1>1, <1>3 DEF IntactBy, V
  <1>7. ValidBy(F, O, es) = (IF IsLoose(o) THEN {} ELSE ValidBy(f, o, ds)) \cup {c}
    BY <1>1, <1>2, <1>4, <1>5 DEF ValidBy
  <1> QED
    BY <1>6, <1>7 DEF ShowsMore

(* Injecting a signature is writing two cells.                             *)
LEMMA InjectIs ==
  ASSUME NEW f, NEW b \in Nat, NEW serial, Len(f) \in Nat
  PROVE  InjectSignature(f, b + 1, b, serial).signed =
           Write(f, b, Around(b, Len(f)), Cms(serial, 0))
  <1>1. b + 1 + 1 = b + 2 /\ Len(f) - (b + 1) - 1 = Len(f) - b - 2
    OBVIOUS
  <1> QED
    BY <1>1 DEF InjectSignature, WithRange, Write, Around

(* The highest number of a document.                                       *)
LEMMA TopIs ==
  ASSUME NEW f, Well(f), Doc(LoadMem(f))
  PROVE  /\ TopId(f) \in DOMAIN LoadMem(f)
         /\ \A id \in DOMAIN LoadMem(f) : id <= TopId(f)
  <1> DEFINE S == DOMAIN Entries(f)
  <1>1. DOMAIN LoadMem(f) = S
    BY LoadIs
  <1>2. IsFiniteSet(S) /\ S \subseteq Nat \ {0} /\ S # {}
    BY <1>1 DEF Doc, ObjMap
  <1> HIDE DEF S
  <1>3. Max(S) \in S /\ \A m \in S : Max(S) >= m
    BY <1>2, MaxIs
  <1> QED
    BY <1>1, <1>2, <1>3 DEF TopId, S

(* Pass 1 of a signing, and where pass 2 finds the placeholder.            *)
LEMMA Placeholder ==
  ASSUME NEW f, Sound(f), NEW x, Repeats(x, LoadMem(f)), NEW prev
  PROVE  LET top == TopId(f)
             D == Prepare(x, top)
             p == SaveTo(D, prev)
             n == Cardinality(Slots(D))
             b == p[n + 1].entries[top + 1]
         IN  /\ Prepared(D, x, top) /\ Piece(p, n, 0, D, prev)
             /\ top + 1 \in DOMAIN D /\ b \in Nat
             /\ FindContentsHex(p) = b + 1 /\ FindByteRange(p, b + 1) = b
  <1> DEFINE o == LoadMem(f)
             top == TopId(f)
             D == Prepare(x, top)
             p == SaveTo(D, prev)
             n == Cardinality(Slots(D))
             b == p[n + 1].entries[top + 1]
             sig == top + 1
  <1>1. Doc(o) /\ top \in DOMAIN o /\ \A id \in DOMAIN o : id <= top
    BY TopIs DEF Sound
  <1>2. Source(x, top)
    BY <1>1, SourceIs
  <1>3. Prepared(D, x, top)
    BY <1>2, PrepareIs
  <1> HIDE DEF top, D, o
  <1>4. Piece(p, n, 0, D, prev)
    BY <1>3, SavedPiece DEF Prepared
  <1>5. sig \in DOMAIN D /\ IsSig(D[sig]) /\ D[sig].cms = Zeros
    BY <1>3 DEF Prepared
  <1>6. \A id \in DOMAIN D : IsSig(D[id]) /\ D[id].cms = Zeros => id = sig
    <2>1. /\ DOMAIN D = DOMAIN x \cup {sig, top + 2} /\ ~IsSig(D[top + 2])
          /\ \A id \in DOMAIN x : id >= TextField => D[id] = x[id]
          /\ \A id \in DOMAIN x : id <= TextField => ~IsSig(D[id])
      BY <1>3 DEF Prepared
    <2>2. \A id \in DOMAIN x : id \in DOMAIN o /\ x[id] = o[id] /\ id \in Nat
      BY <1>1 DEF Repeats, Doc, ObjMap, o
    <2>3. \A id \in DOMAIN o : IsSig(o[id]) => o[id].cms # Zeros
      BY <1>1 DEF Doc
    <2>4. \A id \in DOMAIN x : id >= TextField \/ id <= TextField
      BY <2>2 DEF TextField
    <2> HIDE DEF sig
    <2> QED
      BY <2>1, <2>2, <2>3, <2>4
  <1> HIDE DEF p, n, sig
  <1>7. /\ FindContentsHex(p) = p[n + 1].entries[sig] + 1
        /\ FindByteRange(p, p[n + 1].entries[sig] + 1) = p[n + 1].entries[sig]
    BY <1>4, <1>5, <1>6, PlaceholderFound
  <1>8. p[n + 1].entries[sig] \in Nat
    BY <1>4, <1>5, PieceShape
  <1> QED
    BY <1>3, <1>4, <1>5, <1>7, <1>8 DEF top, D, p, n, sig

(* A document of one revision is sound.                                    *)
LEMMA FreshIsSound ==
  ASSUME NEW f, NEW n, NEW o, NEW sig, NEW c, SignedBy(f, n, o, sig, c)
  PROVE  /\ Sound(f) /\ Revisions(f) = 1 /\ LoadMem(f) = o
         /\ \E id \in DOMAIN o : IsSig(o[id]) /\ o[id].cms = c
  <1>1. /\ Piece(f, n, 0, o, Nowhere) /\ Doc(o) /\ IsLast(o, sig)
        /\ o[sig].cms = c /\ StoreOK(o, sig)
    BY DEF SignedBy
  <1>2. Well(f) /\ LoadMem(f) = o /\ Revisions(f) = 1
    BY <1>1, First DEF Doc
  <1>3. StoreOK(o, 0)
    <2>1. \A id \in DOMAIN o : id # 0
      BY <1>1 DEF Doc, ObjMap
    <2> QED
      BY <1>1, <2>1 DEF StoreOK
  <1> QED
    BY <1>1, <1>2, <1>3 DEF Sound, IsLast

(* SignPdf writes the document anew.                                       *)
LEMMA SignPdfIs ==
  ASSUME NEW f, Sound(f), NEW ds, IsSeq(ds), Told(f, ds)
  PROVE  LET s == SignPdf(f, Len(ds) + 1)
         IN  /\ Fresh(s.signed, Cms(Len(ds) + 1, 0), Append(ds, s.digest))
             /\ Keeping(LoadMem(f), LoadMem(s.signed), TRUE)
             /\ IsLoose(LoadMem(s.signed)) <=> IsLoose(LoadMem(f))
  <1> DEFINE serial == Len(ds) + 1
             o == LoadMem(f)
             top == TopId(f)
             D == Prepare(o, top)
             p == SaveTo(D, Nowhere)
             n == Cardinality(Slots(D))
             sig == top + 1
             b == p[n + 1].entries[sig]
             r == Around(b, Len(p))
             c == Cms(serial, 0)
             s == SignPdf(f, serial)
  <1>1. Len(ds) \in Nat /\ serial \in Nat \ {0}
    BY SeqFacts
  <1> HIDE DEF serial
  <1>2. Repeats(o, o)
    BY CarryOverIs DEF Sound
  <1>3. /\ Prepared(D, o, top) /\ Piece(p, n, 0, D, Nowhere)
        /\ sig \in DOMAIN D /\ b \in Nat
        /\ FindContentsHex(p) = b + 1 /\ FindByteRange(p, b + 1) = b
    BY <1>2, Placeholder
  <1>4. IsSeq(p) /\ Len(p) \in Nat
    BY <1>3 DEF Piece, Framed
  <1>5. s = InjectSignature(p, b + 1, b, serial) /\ s.signed = Write(p, b, r, c)
    <2>1. s = InjectSignature(p, b + 1, b, serial)
      <3>1. s = InjectSignature(p, FindContentsHex(p),
                                FindByteRange(p, FindContentsHex(p)), serial)
        BY DEF SignPdf
      <3> HIDE DEF p, b, s
      <3> QED
        BY <1>3, <3>1
    <2> HIDE DEF p, b, s
    <2> QED
      BY <1>3, <1>4, <2>1, InjectIs
  <1>6. ObjMap(D) /\ IsSig(D[sig]) /\ DOMAIN D = DOMAIN o \cup {sig, top + 2}
    BY <1>3 DEF Prepared
  <1>7. c # Zeros /\ c.serial = serial
    BY <1>1 DEF Cms, Zeros
  <1>8. Doc(o) /\ StoreOK(o, 0) /\ top \in DOMAIN o /\ \A id \in DOMAIN o : id <= top
    BY TopIs DEF Sound
  <1> HIDE DEF o, top, D, p, n, c, r, s
  <1> DEFINE none == << >>
  <1>9. IsSeq(none) /\ Piece(p, n, Len(none), D, Nowhere)
    BY <1>3, EmptyFile
  <1>10. Len(none) = 0 /\ none \o p = p
    BY <1>4, EmptyFile, FromEmpty
  <1> HIDE DEF none
  <1>11. PICK q : /\ Write(none \o p, b, r, c) = none \o q
                  /\ Piece(q, n, Len(none), Filling(D, sig, r, c), Nowhere)
                  /\ SameTable(q, p, n)
    <2>1. sig \in DOMAIN D /\ IsSig(D[sig]) /\ ObjMap(D)
      BY <1>3, <1>6
    <2> HIDE DEF sig
    <2> QED
      BY <1>9, <2>1, Written
  <1>12. Piece(q, n, 0, Filling(D, sig, r, c), Nowhere) /\ IsSeq(q) /\ Len(q) = n + 2
    BY <1>10, <1>11 DEF Piece, Framed
  <1>13. s.signed = q
    <2>1. none \o q = q
      BY <1>12, FromEmpty DEF none
    <2> QED
      BY <1>5, <1>10, <1>11, <2>1
  <1> DEFINE P == Filling(D, sig, r, c)
             O == Hide(o, P)
  <1>14. /\ Doc(O) /\ IsLast(O, sig) /\ O[sig] = [range |-> r, cms |-> c]
         /\ StoreOK(O, sig) /\ SigsKept(o, O, sig)
         /\ top + 2 \in DOMAIN O /\ \A id \in DOMAIN o : id \in Nat /\ id < top + 2
         /\ Fielded(o, O, sig, top + 2)
    BY <1>2, <1>3, <1>7, <1>8, SignedDoc
  <1>15. /\ Listed(O) /\ Keeping(o, O, TRUE) /\ Annotated(O, o, top + 2) /\ Listed(o)
         /\ Enrolled(o, O, TRUE, top + 2)
    <2>1. Listed(o)
      BY DEF Told, o
    <2>2. o = IF TRUE THEN o ELSE CarryOver(o)
      OBVIOUS
    <2> QED
      BY <1>2, <1>8, <2>1, <2>2, SignedLists DEF D
  <1>16. Linked(O) /\ sig \in Walked(O) /\ (IsLoose(O) <=> IsLoose(o))
    <2>1. sig \in Nat \ {0}
      BY <1>8 DEF Doc, ObjMap
    <2>2. Linked(o)
      BY DEF Told, o
    <2> DEFINE whole == TRUE
               field == top + 2
    <2>3. /\ whole \in BOOLEAN /\ Enrolled(o, O, whole, field)
          /\ Fielded(o, O, sig, field) /\ SigsKept(o, O, sig)
      BY <1>14, <1>15
    <2> HIDE DEF sig, O, field, whole
    <2>4. Linked(O) /\ Walked(O) = (IF IsLoose(o) /\ ~whole THEN {} ELSE Walked(o)) \cup {sig}
      BY <2>1, <2>2, <2>3, LinkedMore
    <2>5. Linked(O) /\ sig \in Walked(O)
      BY <2>4
    <2>6. IsLoose(O) <=> IsLoose(o)
      BY <1>15 DEF Enrolled
    <2> QED
      BY <2>5, <2>6
  <1>17. O = P
    <2>1. ObjMap(P) /\ DOMAIN P = DOMAIN D
      <3> HIDE DEF sig
      <3>1. sig \in DOMAIN D /\ IsSig(D[sig]) /\ ObjMap(D)
        BY <1>3, <1>6
      <3> QED
        BY <3>1, FillingIs
    <2> HIDE DEF P
    <2>2. P = [id \in DOMAIN P |-> P[id]] /\ DOMAIN o \cup DOMAIN P = DOMAIN P
      BY <1>6, <2>1 DEF ObjMap
    <2> QED
      BY <2>2 DEF Hide
  <1> HIDE DEF O, P
  <1>18. SignedBy(q, n, O, sig, c)
    BY <1>12, <1>14, <1>17 DEF SignedBy, P
  <1>19. /\ 2 <= b /\ b + 2 <= n /\ n \in Nat /\ Len(p) = n + 2
         /\ q[2] = [k |-> "object", id |-> Page, v |-> O[Page]]
         /\ p[b + 1] = [k |-> "range", id |-> sig, range |-> p[b + 1].range]
    <2>1. Piece(q, n, 0, O, Nowhere)
      BY <1>18 DEF SignedBy
    <2>2. /\ sig \in DOMAIN O /\ IsSig(O[sig])
      BY <1>14 DEF IsLast
    <2>3. 2 <= q[n + 1].entries[sig] /\ q[2] = [k |-> "object", id |-> Page, v |-> O[Page]]
      BY <1>14, <2>1, <2>2, PageCellIs
    <2>4. sig \in DOMAIN D /\ IsSig(D[sig])
      BY <1>3, <1>6
    <2> HIDE DEF sig
    <2>5. TwoCells(none \o p, none, n, b, sig, D[sig])
      BY <1>9, <2>4, RangeCell
    <2>6. p[b + 1] = [k |-> "range", id |-> sig, range |-> D[sig].range]
      BY <1>10, <2>5 DEF TwoCells
    <2>7. p[b + 1].range = D[sig].range
      BY <2>6
    <2>8. b + 2 <= n /\ n \in Nat /\ Len(p) = n + 2
      <3> HIDE DEF b
      <3> QED
        BY <1>10, <2>5 DEF TwoCells
    <2>9. 2 <= b
      BY <1>11, <2>3 DEF SameTable
    <2> QED
      BY <2>3, <2>6, <2>7, <2>8, <2>9
  <1>20. b = q[n + 1].entries[sig]
    BY <1>11 DEF SameTable
  <1> HIDE DEF b
  <1>21. Spans(r, b, Len(p)) /\ Len(p) = Len(q) /\ r = Around(b, n + 2)
    <2>1. b + 2 <= n + 2
      BY <1>3, <1>19
    <2> QED
      BY <1>3, <1>12, <1>19, <2>1 DEF Spans, r
  <1>22. s.digest = Covered(q, r)
    <2>1. Spans(Around(b, Len(p)), b, Len(p))
      BY <1>21 DEF r
    <2>2. s.digest = Covered(s.signed, Around(b, Len(p)))
      BY <1>4, <1>5, <1>19, <2>1, InjectDigest
    <2> QED
      BY <1>13, <2>2 DEF r
  <1>23. Attested(q, O, Append(ds, s.digest)) /\ Solo(q, O, sig, Append(ds, s.digest))
    <2> DEFINE ids == IF o[Page].annots.at = "inline" THEN o[Page].annots.ids ELSE << >>
               k == top + 2
    <2>1. Attested(f, o, ds)
      BY DEF Told, o
    <2>2. IsSeq(ids)
      BY <1>15, EmptyFile DEF Listed, PageListed, IsList
    <2>3. q[2] = PageWith(ids, k)
      BY <1>15, <1>19 DEF Annotated, PageWith
    <2>4. k \in Nat /\ k \in DOMAIN O /\ \A id \in DOMAIN o : id \in Nat /\ id < k
      BY <1>8, <1>14
    <2> HIDE DEF k, ids, sig
    <2>5. c.serial = Len(ds) + 1 /\ Spans(r, b, Len(q))
      BY <1>7, <1>21 DEF serial
    <2> QED
      BY <1>12, <1>14, <1>22, <2>1, <2>2, <2>3, <2>4, <2>5, RewriteIs
  <1>24. Whole(q, n, O, sig, Append(ds, s.digest))
    <2>1. O[sig].range = r
      BY <1>14
    <2> QED
      BY <1>15, <1>16, <1>20, <1>21, <1>23, <2>1 DEF Whole
  <1>25. LoadMem(q) = O
    BY <1>18, FreshIsSound
  <1> QED
    BY <1>13, <1>15, <1>16, <1>18, <1>24, <1>25 DEF Fresh, c, s, o, serial

(* SignPdfIncremental appends a revision to the document.                  *)
LEMMA SignPdfIncrementalIs ==
  ASSUME NEW f, Sound(f), NEW ds, IsSeq(ds), Told(f, ds)
  PROVE  LET t == SignPdfIncremental(f, Len(ds) + 1)
             e == Append(ds, t.digest)
         IN  /\ Sound(t.signed) /\ Told(t.signed, e)
             /\ Revisions(f) \in Nat /\ Revisions(t.signed) = Revisions(f) + 1
             /\ ShowsMore(t.signed, f, e, ds, Cms(Len(ds) + 1, 0))
             /\ Keeping(LoadMem(f), LoadMem(t.signed), FALSE)
  <1> DEFINE serial == Len(ds) + 1
             o == LoadMem(f)
             x == CarryOver(o)
             top == TopId(f)
             prev == XRefStart(f)
             D == Prepare(x, top)
             p == SaveTo(D, prev)
             n == Cardinality(Slots(D))
             sig == top + 1
             b0 == p[n + 1].entries[sig]
             L == Len(f)
             P == Rebase(p, L)
             F == f \o P
             b == P[n + 1].entries[sig]
             r == Around(b, Len(F))
             c == Cms(serial, 0)
             t == SignPdfIncremental(f, serial)
             s == t.signed
  <1>1. Len(ds) \in Nat /\ serial \in Nat \ {0}
    BY SeqFacts
  <1> HIDE DEF serial
  <1>2. Well(f) /\ Doc(o) /\ StoreOK(o, 0) /\ IsSeq(f) /\ L \in Nat
    BY SeqFacts DEF Sound, Well, Cellular
  <1>3. Repeats(x, o)
    BY <1>2, CarryOverIs
  <1>4. /\ Prepared(D, x, top) /\ Piece(p, n, 0, D, prev)
        /\ sig \in DOMAIN D /\ b0 \in Nat
        /\ FindContentsHex(p) = b0 + 1 /\ FindByteRange(p, b0 + 1) = b0
    BY <1>3, Placeholder
  <1>5. t = InjectSignature(F, FindContentsHex(p) + L,
                            FindByteRange(p, FindContentsHex(p)) + L, serial)
    BY DEF SignPdfIncremental
  <1> HIDE DEF o, x, top, prev, D, p, n, t
  <1>6. Piece(P, n, L, D, prev) /\ b = L + b0
    <2> HIDE DEF L
    <2>1. /\ Piece(P, n, L, D, prev)
          /\ \A id \in DOMAIN D : P[n + 1].entries[id] = L + p[n + 1].entries[id]
      BY <1>2, <1>4, RebasedPiece
    <2> QED
      BY <1>4, <2>1
  <1> HIDE DEF P
  <1>7. Len(F) \in Nat
    <2>1. Behind(F, f, P, n)
      BY <1>2, <1>6, AppendedCells
    <2> QED
      BY <2>1 DEF Behind
  <1>8. t = InjectSignature(F, b + 1, b, serial) /\ s = Write(F, b, r, c)
    <2> HIDE DEF b0, b, L, F
    <2>1. b \in Nat /\ b0 + 1 + L = b + 1 /\ b0 + L = b
      BY <1>2, <1>4, <1>6
    <2>2. t = InjectSignature(F, b + 1, b, serial)
      BY <1>4, <1>5, <2>1
    <2> QED
      BY <1>7, <2>1, <2>2, InjectIs
  <1>9. ObjMap(D) /\ IsSig(D[sig])
    BY <1>4 DEF Prepared
  <1> HIDE DEF sig, r, c
  <1>10. TwoCells(F, f, n, b, sig, D[sig])
    BY <1>2, <1>4, <1>6, <1>9, RangeCell
  <1>11. PICK q : /\ Write(F, b, r, c) = f \o q
                  /\ Piece(q, n, L, Filling(D, sig, r, c), prev)
    BY <1>2, <1>4, <1>6, <1>9, Written
  <1> DEFINE Q == Filling(D, sig, r, c)
             O == Hide(o, Q)
  <1>12. ObjMap(Q)
    BY <1>4, <1>9, FillingIs
  <1> HIDE DEF Q
  <1>13. /\ Well(f \o q) /\ LoadMem(f \o q) = O
         /\ Revisions(f) \in Nat /\ Revisions(f \o q) = Revisions(f) + 1
    BY <1>2, <1>11, <1>12, Appended DEF Q, o, prev
  <1>14. top \in DOMAIN o /\ \A id \in DOMAIN o : id <= top
    BY <1>2, TopIs DEF o, top
  <1>15. /\ Doc(O) /\ StoreOK(O, sig) /\ SigsKept(o, O, sig)
         /\ O[sig] = [range |-> r, cms |-> c] /\ Fielded(o, O, sig, top + 2)
    <2>1. c # Zeros
      <3>1. c.serial # Zeros.serial
        BY <1>1 DEF c, Cms, Zeros
      <3> QED
        BY <3>1
    <2> QED
      BY <1>2, <1>3, <1>4, <1>14, <2>1, SignedDoc DEF Q, sig
  <1>16. Listed(O) /\ Keeping(o, O, FALSE) /\ Enrolled(o, O, FALSE, top + 2)
    <2>1. Listed(o)
      BY DEF Told, o
    <2>2. x = IF FALSE THEN o ELSE CarryOver(o)
      BY DEF x, o
    <2> QED
      BY <1>2, <1>3, <1>14, <2>1, <2>2, SignedLists DEF D, Q, sig
  <1>17. /\ Linked(O) /\ ~IsLoose(O)
         /\ Walked(O) = (IF IsLoose(o) THEN {} ELSE Walked(o)) \cup {sig}
    <2>1. sig \in Nat \ {0}
      BY <1>2, <1>14 DEF Doc, ObjMap, sig
    <2>2. Linked(o)
      BY DEF Told, o
    <2> DEFINE whole == FALSE
               field == top + 2
    <2>3. /\ whole \in BOOLEAN /\ Enrolled(o, O, whole, field)
          /\ Fielded(o, O, sig, field) /\ SigsKept(o, O, sig)
      BY <1>15, <1>16
    <2> HIDE DEF sig, O, field, whole
    <2>4. Linked(O) /\ Walked(O) = (IF IsLoose(o) /\ ~whole THEN {} ELSE Walked(o)) \cup {sig}
      BY <2>1, <2>2, <2>3, LinkedMore
    <2>5. Linked(O) /\ Walked(O) = (IF IsLoose(o) THEN {} ELSE Walked(o)) \cup {sig}
      BY <2>4 DEF whole
    <2>6. ~IsLoose(O)
      BY <1>16 DEF Enrolled
    <2> QED
      BY <2>5, <2>6
  <1>18. /\ L \in Nat /\ 2 <= L /\ b \in Nat /\ n \in Nat /\ L <= b /\ b + 2 <= L + n
         /\ IsSeq(F) /\ Len(F) = L + n + 2
         /\ F[b + 1] = [k |-> "range", id |-> sig, range |-> F[b + 1].range]
    <2>1. 2 <= L
      <3>1. L - 1 \in 1 .. L
        BY <1>2 DEF Well, Cellular
      <3> QED
        BY <1>2, <3>1
    <2>2. F[b + 1] = [k |-> "range", id |-> sig, range |-> D[sig].range]
      BY <1>10 DEF TwoCells
    <2>3. F[b + 1].range = D[sig].range
      BY <2>2
    <2> QED
      BY <1>2, <1>10, <2>1, <2>2, <2>3 DEF TwoCells
  <1>19. /\ IsSeq(f \o q) /\ Len(f \o q) = L + n + 2
         /\ \A i \in 1 .. L : (f \o q)[i] = f[i]
    <2>1. IsSeq(q) /\ Len(q) = n + 2
      BY <1>11 DEF Piece, Framed
    <2>2. /\ IsSeq(f \o q) /\ Len(f \o q) = Len(f) + Len(q)
          /\ \A i \in 1 .. Len(f) : (f \o q)[i] = f[i]
      BY <1>2, <2>1, Joined
    <2> QED
      BY <1>18, <2>1, <2>2
  <1>20. s = f \o q
    BY <1>8, <1>11
  <1> HIDE DEF F, b, s, O
  <1>21. Spans(r, b, Len(s)) /\ Len(s) = Len(F) /\ r = Around(b, Len(F))
    <2>1. 2 <= b /\ b + 2 <= L + n + 2 /\ L + n + 2 \in Nat
      BY <1>18
    <2> QED
      BY <1>18, <1>19, <1>20, <2>1 DEF Spans, r
  <1>22. t.digest = Covered(s, r)
    <2>1. Spans(Around(b, Len(F)), b, Len(F))
      BY <1>21
    <2>2. IsSeq(F) /\ F[b + 1] = [k |-> "range", id |-> sig, range |-> F[b + 1].range]
      BY <1>18
    <2>3. t.digest = Covered(t.signed, Around(b, Len(F)))
      BY <1>8, <2>1, <2>2, InjectDigest
    <2> QED
      BY <1>21, <2>3 DEF s
  <1>23. Extends(s, f)
    <2>1. L <= L + n + 2
      BY <1>18
    <2> QED
      BY <1>2, <1>18, <1>19, <1>20, <2>1 DEF Extends
  <1>24. /\ Attested(s, O, Append(ds, t.digest))
         /\ Joins(VerifiedBy(s, O, Append(ds, t.digest)), VerifiedBy(f, o, ds), sig)
    <2>1. c.serial = Len(ds) + 1
      BY DEF c, Cms, serial
    <2>2. Attested(f, o, ds)
      BY DEF Told, o
    <2>3. Spans(r, b, Len(s)) /\ O[sig] = [range |-> r, cms |-> c] /\ SigsKept(o, O, sig)
      BY <1>15, <1>21
    <2>4. /\ Attested(s, O, Append(ds, Covered(s, r)))
          /\ Joins(VerifiedBy(s, O, Append(ds, Covered(s, r))), VerifiedBy(f, o, ds), sig)
      BY <1>23, <2>1, <2>2, <2>3, ApprovalIs
    <2> QED
      BY <1>22, <2>4
  <1>25. StoreOK(O, 0)
    <2>1. \A id \in DOMAIN O : id # 0
      BY <1>15 DEF Doc, ObjMap
    <2> QED
      BY <1>15, <2>1 DEF StoreOK
  <1>26. LoadMem(s) = O
    BY <1>13, <1>20
  <1>27. Sound(s) /\ Told(s, Append(ds, t.digest))
    BY <1>13, <1>15, <1>16, <1>17, <1>20, <1>24, <1>25, <1>26 DEF Sound, Told
  <1>28. ShowsMore(s, f, Append(ds, t.digest), ds, c)
    <2>1. O[sig].cms = c /\ o = LoadMem(f)
      BY <1>15 DEF o
    <2> QED
      BY <1>15, <1>17, <1>24, <1>26, <2>1, MoreIs
  <1> QED
    BY <1>13, <1>16, <1>20, <1>26, <1>27, <1>28 DEF s, o, c, t, serial

(* A time stamp goes into the signature that waits for it.                 *)
LEMMA TimestampSignedIs ==
  ASSUME NEW f, NEW ds, IsSeq(ds), NEW serial \in Nat \ {0},
         Fresh(f, Cms(serial, 0), ds), NEW token
  PROVE  LET w == TimestampSigned(f, serial, token)
         IN  /\ Fresh(w, Cms(serial, token), ds)
             /\ Keeping(LoadMem(f), LoadMem(w), TRUE)
             /\ LoadMem(w)[Page] = LoadMem(f)[Page]
             /\ IsLoose(LoadMem(w)) <=> IsLoose(LoadMem(f))
  <1> DEFINE d == Cms(serial, 0)
             c == Cms(serial, token)
             w == TimestampSigned(f, serial, token)
  <1>1. PICK n, o, sig : SignedBy(f, n, o, sig, d) /\ Whole(f, n, o, sig, ds)
    BY DEF Fresh
  <1>2. /\ Piece(f, n, 0, o, Nowhere) /\ Doc(o) /\ ObjMap(o)
        /\ sig \in DOMAIN o /\ IsSig(o[sig]) /\ \A id \in DOMAIN o : IsSig(o[id]) => id <= sig
        /\ StoreOK(o, sig) /\ o[sig].cms = d
    BY <1>1 DEF SignedBy, IsLast, Doc
  <1> DEFINE b == f[n + 1].entries[sig]
             r == o[sig].range
             P == Filling(o, sig, r, c)
  <1>3. SelectLastInSeq(f, LAMBDA k : k.k = "contents") = b + 2
    BY <1>2, LastFound
  <1>4. w = [f EXCEPT ![b + 2].cms = c]
    BY <1>3 DEF TimestampSigned
  <1>5. IsSeq(f) /\ n \in Nat /\ Len(f) = n + 2 /\ f = [i \in 1 .. n + 2 |-> f[i]]
    <2>1. IsSeq(f) /\ n \in Nat /\ Len(f) = n + 2
      BY <1>2 DEF Piece, Framed
    <2> QED
      BY <2>1, SeqFacts
  <1>6. /\ b \in Nat /\ b + 2 \in 1 .. n /\ b + 1 \in 1 .. n
        /\ f[b + 1] = [k |-> "range", id |-> sig, range |-> r]
    <2>1. PICK at \in 0 .. n - 1 : /\ b = 0 + at /\ Holds(f, at, sig, o[sig])
                                   /\ IsSig(o[sig]) => at + 1 \in 0 .. n - 1
      BY <1>2 DEF Piece, Found
    <2>2. b = at /\ at + 1 \in 1 .. n /\ at + 2 \in 1 .. n
      BY <1>2, <1>5, <2>1
    <2> QED
      BY <1>2, <2>1, <2>2 DEF Holds
  <1> HIDE DEF c, d, w, b, P
  <1>7. [f EXCEPT ![b + 1].range = r] = f
    <2>1. [f[b + 1] EXCEPT !.range = r] = f[b + 1]
      <3> DEFINE u == f[b + 1]
      <3>1. u = [k |-> "range", id |-> sig, range |-> r]
        BY <1>6
      <3> HIDE DEF u, r
      <3>2. [u EXCEPT !.range = r] = u
        BY <3>1
      <3> QED
        BY <3>2 DEF u
    <2> DEFINE g == [f EXCEPT ![b + 1] = [@ EXCEPT !.range = r]]
    <2>2. /\ g = [i \in 1 .. n + 2 |-> g[i]]
          /\ g[b + 1] = [f[b + 1] EXCEPT !.range = r]
          /\ \A i \in 1 .. n + 2 : i # b + 1 => g[i] = f[i]
      <3>1. DOMAIN f = 1 .. n + 2 /\ b + 1 \in DOMAIN f
        BY <1>5, <1>6
      <3> QED
        BY <3>1
    <2> HIDE DEF g
    <2>3. \A i \in 1 .. n + 2 : g[i] = f[i]
      BY <2>1, <2>2
    <2>4. g = f
      BY <1>5, <2>2, <2>3
    <2> QED
      BY <2>4 DEF g
  <1>8. w = Write(f, b, r, c)
    BY <1>4, <1>7 DEF Write
  <1>9. \A i \in 1 .. n + 2 : i # b + 2 => w[i] = f[i]
    <2>1. DOMAIN f = 1 .. n + 2
      BY <1>5
    <2> QED
      BY <1>4, <2>1
  <1> HIDE DEF r
  <1> DEFINE none == << >>
  <1>10. IsSeq(none) /\ Piece(f, n, Len(none), o, Nowhere)
    BY <1>2, EmptyFile
  <1>11. Len(none) = 0 /\ none \o f = f
    BY <1>5, EmptyFile, FromEmpty
  <1> HIDE DEF none
  <1>12. PICK q : /\ Write(none \o f, b, r, c) = none \o q
                  /\ Piece(q, n, Len(none), P, Nowhere)
                  /\ SameTable(q, f, n)
    BY <1>2, <1>10, Written DEF b, P
  <1>13. Piece(q, n, 0, P, Nowhere) /\ w = q
    <2>1. Piece(q, n, 0, P, Nowhere) /\ IsSeq(q)
      BY <1>11, <1>12 DEF Piece, Framed
    <2>2. none \o q = q
      BY <2>1, FromEmpty DEF none
    <2> QED
      BY <1>8, <1>11, <1>12, <2>1, <2>2
  <1>14. /\ ObjMap(P) /\ DOMAIN P = DOMAIN o
         /\ \A id \in DOMAIN o : IsSig(P[id]) <=> IsSig(o[id])
         /\ \A id \in DOMAIN o \ {sig} : P[id] = o[id]
         /\ P[sig] = [range |-> r, cms |-> c]
    BY <1>2, FillingIs DEF P
  <1>15. P[sig].cms = c /\ c # Zeros
    <2>1. c.serial # Zeros.serial
      BY DEF c, Cms, Zeros
    <2> QED
      BY <1>14, <2>1
  <1>16. sig > TextField /\ Catalog # sig
    <2>1. ~(sig <= TextField)
      BY <1>2 DEF Doc
    <2> QED
      BY <1>2, <2>1 DEF ObjMap, TextField, Catalog
  <1>17. Doc(P)
    <2>1. \A id \in DOMAIN P : IsSig(P[id]) => P[id].cms # Zeros
      BY <1>2, <1>14, <1>15 DEF Doc
    <2>2. P[Catalog] = o[Catalog]
      BY <1>2, <1>14, <1>16 DEF Doc
    <2> QED
      BY <1>2, <1>14, <2>1, <2>2 DEF Doc
  <1>18. StoreOK(P, sig)
    <2>1. P[Catalog] = o[Catalog]
      BY <1>2, <1>14, <1>16 DEF Doc
    <2> DEFINE k == o[Catalog].dss
    <2>2. SUFFICES ASSUME k # 0
                   PROVE  /\ k \in DOMAIN P \ {sig} /\ k > TextField
                          /\ \E id \in DOMAIN P :
                               id # sig /\ IsSig(P[id]) /\ P[id].cms = P[k].vri.cms
      BY <2>1 DEF StoreOK
    <2>3. /\ k \in DOMAIN o \ {sig} /\ k > TextField
          /\ \E id \in DOMAIN o : id # sig /\ IsSig(o[id]) /\ o[id].cms = o[k].vri.cms
      BY <1>2, <2>2 DEF StoreOK
    <2> QED
      BY <1>14, <2>3
  <1>19. IsLast(P, sig)
    BY <1>2, <1>14 DEF IsLast
  <1>20. SignedBy(q, n, P, sig, c)
    BY <1>13, <1>15, <1>17, <1>18, <1>19 DEF SignedBy
  <1>21. r = Around(b, n + 2) /\ Spans(r, b, Len(f))
    <2>1. r = Around(b, n + 2)
      BY <1>1 DEF Whole, b, r
    <2>2. 2 <= b
      BY <1>2, PageCellIs DEF b
    <2>3. b + 2 <= n + 2 /\ n + 2 \in Nat
      BY <1>5, <1>6
    <2> QED
      BY <1>5, <1>6, <2>1, <2>2, <2>3 DEF Spans
  <1>22. /\ Listed(P) /\ Keeping(o, P, TRUE)
         /\ FieldList(P) = FieldList(o) /\ Fields(P) = Fields(o)
    <2>1. P[Catalog].form = o[Catalog].form
      BY <1>2, <1>14, <1>16 DEF Doc
    <2>2. \A id \in {Page, FormDict, FieldsArray} : id # sig
      <3>1. sig \in Nat
        BY <1>2 DEF ObjMap
      <3> QED
        BY <1>16, <3>1 DEF Page, FormDict, FieldsArray, TextField
    <2>3. \A id \in DOMAIN o \cap {Page, FormDict, FieldsArray} : P[id] = o[id]
      BY <1>14, <2>2
    <2>4. DOMAIN o \subseteq DOMAIN P /\ Page \in DOMAIN o
      BY <1>2, <1>14 DEF Doc
    <2>5. Listed(o)
      BY <1>1 DEF Whole
    <2> QED
      BY <2>1, <2>3, <2>4, <2>5, SameLists
  <1>23. P[Page] = o[Page]
    <2>1. Page \in DOMAIN o /\ Page # sig
      BY <1>2, <1>16 DEF Doc, Page, TextField
    <2> QED
      BY <1>14, <2>1
  <1>24. Attested(q, P, ds) /\ Solo(q, P, sig, ds)
    <2>1. SameBut(q, f, b)
      BY <1>5, <1>9, <1>13 DEF Piece, Framed, SameBut
    <2>2. Restamps(P, o, sig, c)
      <3>1. Signatures(P) = Signatures(o)
        BY <1>14 DEF Signatures
      <3>2. c.serial = o[sig].cms.serial
        BY <1>2 DEF c, d, Cms
      <3> QED
        BY <1>14, <3>1, <3>2 DEF Restamps, r
    <2>3. Attested(f, o, ds) /\ Solo(f, o, sig, ds)
      BY <1>1 DEF Whole
    <2>4. Spans(o[sig].range, b, Len(f))
      BY <1>21 DEF r
    <2> QED
      BY <2>1, <2>2, <2>3, <2>4, StampKeeps
  <1>25. Linked(P) /\ sig \in Walked(P) /\ (IsLoose(P) <=> IsLoose(o))
    <2>1. Linked(o) /\ sig \in Walked(o)
      BY <1>1 DEF Whole
    <2>2. Signatures(P) = Signatures(o)
      BY <1>14 DEF Signatures
    <2>3. \A id \in Fields(o) : id \in DOMAIN P /\ P[id] = o[id]
      BY <1>2, <1>14, <2>1 DEF Linked
    <2> QED
      BY <1>22, <2>1, <2>2, <2>3, LinkedSame
  <1>26. Whole(q, n, P, sig, ds)
    <2>1. P[sig].range = Around(q[n + 1].entries[sig], n + 2)
      BY <1>12, <1>14, <1>21 DEF SameTable, b
    <2> QED
      BY <1>22, <1>24, <1>25, <2>1 DEF Whole
  <1>27. LoadMem(q) = P /\ LoadMem(f) = o
    BY <1>1, <1>20, FreshIsSound
  <1> QED
    BY <1>13, <1>20, <1>22, <1>23, <1>25, <1>26, <1>27 DEF Fresh, w, c

(* A validation store goes into a revision of its own.                     *)
LEMMA EmbedDssIs ==
  ASSUME NEW f, Sound(f), NEW ds, IsSeq(ds), Told(f, ds),
         NEW key, NEW j \in DOMAIN LoadMem(f),
         IsSig(LoadMem(f)[j]), LoadMem(f)[j].cms = key.cms
  PROVE  LET s == EmbedDssIncremental(f, key)
         IN  /\ Sound(s) /\ Told(s, ds)
             /\ Revisions(f) \in Nat /\ Revisions(s) = Revisions(f) + 1
             /\ SameShown(s, f, ds, ds)
             /\ Keeping(LoadMem(f), LoadMem(s), TRUE)
  <1> DEFINE o == LoadMem(f)
             top == TopId(f)
             dss == top + 1
             W == WithStore(o[Catalog], dss, key)
             prev == XRefStart(f)
             p == SaveTo(W, prev)
             n == Cardinality(Slots(W))
             L == Len(f)
             P == Rebase(p, L)
             s == EmbedDssIncremental(f, key)
             O == Hide(o, W)
             cat == [o[Catalog] EXCEPT !.dss = dss]
             store == [vri |-> key]
  <1>1. Well(f) /\ Doc(o) /\ IsSeq(f) /\ L \in Nat
    BY SeqFacts DEF Sound, Well, Cellular
  <1>2. top \in DOMAIN o /\ \A id \in DOMAIN o : id <= top
    BY <1>1, TopIs
  <1>3. s = f \o P
    BY DEF EmbedDssIncremental
  <1>4. j \in DOMAIN o /\ IsSig(o[j]) /\ o[j].cms = key.cms
    OBVIOUS
  <1> HIDE DEF o, top, prev, s
  <1>5. /\ ObjMap(o) /\ o = [id \in DOMAIN o |-> o[id]] /\ IsFiniteSet(DOMAIN o)
        /\ DOMAIN o \subseteq Nat \ {0} /\ {Catalog, Page, TextField} \subseteq DOMAIN o
        /\ \A id \in DOMAIN o : id <= TextField => ~IsSig(o[id])
        /\ \A id \in DOMAIN o : IsSig(o[id]) => o[id].cms # Zeros
        /\ o[Catalog] = [form |-> o[Catalog].form, dss |-> o[Catalog].dss]
        /\ \A id \in DOMAIN o :
             IsSig(o[id]) => o[id] = [range |-> o[id].range, cms |-> o[id].cms]
    BY <1>1 DEF Doc, ObjMap
  <1>6. /\ dss \in Nat /\ dss > TextField /\ dss # 0 /\ dss # Catalog /\ dss \notin DOMAIN o
        /\ Catalog = 1 /\ TextField = 6
    BY <1>2, <1>5 DEF TextField, Catalog
  <1>7. cat = [form |-> o[Catalog].form, dss |-> dss]
    <2> DEFINE u == o[Catalog]
               g == u.form
               h == u.dss
    <2>1. u = [form |-> g, dss |-> h]
      BY <1>5
    <2> HIDE DEF u, g, h
    <2>2. [u EXCEPT !.dss = dss] = [form |-> g, dss |-> dss]
      BY <2>1
    <2> QED
      BY <2>2 DEF u, g
  <1>8. ~IsSig(cat) /\ ~IsSig(store)
    BY <1>7 DEF IsSig
  <1> HIDE DEF cat, dss
  <1>9. /\ DOMAIN W = {Catalog, dss} /\ W = [id \in DOMAIN W |-> W[id]]
        /\ W[Catalog] = cat /\ W[dss] = store
    BY <1>6 DEF WithStore, cat
  <1> HIDE DEF store
  <1> HIDE DEF W
  <1>10. ObjMap(W)
    <2>1. IsFiniteSet({Catalog})
      BY FS_Singleton
    <2>2. IsFiniteSet({Catalog} \cup {dss}) /\ {Catalog} \cup {dss} = DOMAIN W
      BY <1>9, <2>1, FS_AddElement
    <2> QED
      BY <1>6, <1>8, <1>9, <2>2 DEF ObjMap
  <1>11. Piece(P, n, L, W, prev)
    <2>1. Piece(p, n, 0, W, prev)
      BY <1>10, SavedPiece
    <2> HIDE DEF p, n, L
    <2> QED
      BY <1>1, <2>1, RebasedPiece
  <1> HIDE DEF P, n
  <1>12. /\ Well(s) /\ LoadMem(s) = O
         /\ Revisions(f) \in Nat /\ Revisions(s) = Revisions(f) + 1
    BY <1>1, <1>3, <1>10, <1>11, Appended DEF o, prev
  <1>13. /\ O = [id \in DOMAIN O |-> O[id]] /\ DOMAIN O = DOMAIN o \cup {dss}
         /\ O[Catalog] = cat /\ O[dss] = store
         /\ \A id \in DOMAIN o : id # Catalog => O[id] = o[id]
    <2>1. /\ O = [id \in DOMAIN o \cup DOMAIN W |-> IF id \in DOMAIN W THEN W[id] ELSE o[id]]
          /\ DOMAIN o \cup DOMAIN W = DOMAIN o \cup {dss}
      BY <1>5, <1>9 DEF Hide
    <2> HIDE DEF O
    <2> QED
      BY <1>5, <1>6, <1>9, <2>1
  <1> HIDE DEF O
  <1>14. \A id \in DOMAIN O : IsSig(O[id]) => id \in DOMAIN o /\ O[id] = o[id]
    BY <1>8, <1>13
  <1>15. Doc(O)
    <2>1. IsFiniteSet(DOMAIN O) /\ DOMAIN O \subseteq Nat \ {0}
      BY <1>5, <1>6, <1>13, FS_AddElement
    <2>2. ObjMap(O)
      BY <1>5, <1>13, <1>14, <2>1 DEF ObjMap
    <2>3. \A id \in DOMAIN O : id <= TextField => ~IsSig(O[id])
      BY <1>5, <1>14
    <2>4. \A id \in DOMAIN O : IsSig(O[id]) => O[id].cms # Zeros
      BY <1>5, <1>14
    <2>5. O[Catalog] = [form |-> O[Catalog].form, dss |-> O[Catalog].dss]
      BY <1>7, <1>13
    <2> QED
      BY <1>5, <1>13, <2>2, <2>3, <2>4, <2>5 DEF Doc
  <1>16. StoreOK(O, 0)
    <2>1. O[Catalog].dss = dss /\ O[dss].vri = key
      BY <1>7, <1>13 DEF store
    <2>2. j # Catalog /\ j # 0
      BY <1>4, <1>5, <1>6
    <2>3. O[j] = o[j] /\ j \in DOMAIN O
      BY <1>4, <1>13, <2>2
    <2> QED
      BY <1>4, <1>6, <1>13, <2>1, <2>2, <2>3 DEF StoreOK
  <1>17. Extends(s, f)
    <2>1. IsSeq(P) /\ n \in Nat /\ Len(P) = n + 2
      BY <1>11 DEF Piece, Framed
    <2>2. /\ IsSeq(s) /\ Len(s) = L + Len(P)
          /\ \A i \in 1 .. L : s[i] = f[i]
      BY <1>1, <1>3, <2>1, Joined
    <2>3. 2 <= L
      <3>1. L - 1 \in 1 .. L
        BY <1>1 DEF Well, Cellular
      <3> QED
        BY <1>1, <3>1
    <2>4. L <= Len(s)
      BY <1>1, <2>1, <2>2
    <2> QED
      BY <1>1, <2>2, <2>3, <2>4 DEF Extends
  <1>18. Signatures(O) = Signatures(o) /\ \A id \in Signatures(o) : O[id] = o[id]
    <2>1. \A id \in Signatures(o) : id # Catalog /\ id \in DOMAIN o
      BY <1>5, <1>6 DEF Signatures
    <2>2. \A id \in Signatures(o) : O[id] = o[id] /\ id \in Signatures(O)
      BY <1>13, <2>1 DEF Signatures
    <2>3. \A id \in Signatures(O) : id \in Signatures(o)
      BY <1>14 DEF Signatures
    <2> QED
      BY <2>2, <2>3
  <1>19. Attested(s, O, ds) /\ VerifiedBy(s, O, ds) = VerifiedBy(f, o, ds)
    <2>1. Attested(f, o, ds) /\ DOMAIN o \subseteq DOMAIN O
      BY <1>13 DEF Told, o
    <2> QED
      BY <1>17, <1>18, <2>1, StoreKeeps
  <1>20. /\ Listed(O) /\ Keeping(o, O, TRUE)
         /\ FieldList(O) = FieldList(o) /\ Fields(O) = Fields(o)
    <2>1. O[Catalog].form = o[Catalog].form
      BY <1>7, <1>13
    <2>2. \A id \in DOMAIN o \cap {Page, FormDict, FieldsArray} : O[id] = o[id]
      <3>1. Catalog \notin {Page, FormDict, FieldsArray}
        BY DEF Catalog, Page, FormDict, FieldsArray
      <3> QED
        BY <1>13, <3>1
    <2>3. Listed(o) /\ DOMAIN o \subseteq DOMAIN O /\ Page \in DOMAIN o
      BY <1>5, <1>13 DEF Told, o
    <2> QED
      BY <2>1, <2>2, <2>3, SameLists
  <1>21. Linked(O) /\ Walked(O) = Walked(o) /\ (IsLoose(O) <=> IsLoose(o))
    <2>1. Linked(o)
      BY DEF Told, o
    <2>2. \A id \in Fields(o) : id \in DOMAIN O /\ O[id] = o[id]
      <3>1. \A id \in Fields(o) : id \in DOMAIN o /\ id # Catalog
        <4>1. ~(Catalog >= TextField)
          BY <1>6
        <4> QED
          BY <2>1, <4>1 DEF Linked
      <3> QED
        BY <1>13, <3>1
    <2> QED
      BY <1>18, <1>20, <2>1, <2>2, LinkedSame
  <1>22. SameShown(s, f, ds, ds)
    BY <1>12, <1>18, <1>19, <1>21, SameIs DEF o
  <1> QED
    BY <1>12, <1>15, <1>16, <1>19, <1>20, <1>21, <1>22 DEF Sound, Told, s, o

(* Every layout of the original is sound, and nothing verifies in it.      *)
LEMMA OriginalIs ==
  ASSUME NEW form \in Places, NEW list \in Places, NEW annots \in Places
  PROVE  LET f == Original(form, list, annots)
         IN  /\ Sound(f) /\ Revisions(f) = 1 /\ Told(f, << >>)
             /\ IntactBy(f, LoadMem(f), << >>) = {} /\ ValidBy(f, LoadMem(f), << >>) = {}
  <1> DEFINE o == OriginalObjects(form, list, annots)
             n == Cardinality(Slots(o))
             p == SaveTo(o, Nowhere)
  <1>1. /\ o = [id \in DOMAIN o |-> o[id]]
        /\ {Catalog, Page, TextField} \subseteq DOMAIN o /\ DOMAIN o \subseteq 1 .. 6
    BY DEF OriginalObjects, Catalog, Page, FormDict, FieldsArray, AnnotsArray, TextField
  <1>2. /\ \A id \in DOMAIN o : ~IsSig(o[id])
        /\ o[Catalog] = [form |-> o[Catalog].form, dss |-> 0]
    BY DEF OriginalObjects, Catalog, Page, FormDict, FieldsArray, AnnotsArray, TextField, IsSig
  <1> DEFINE in(at, place) == List(at, IF at = place THEN <<TextField>> ELSE << >>)
             kept == IF annots = "inline" THEN <<TextField>> ELSE << >>
  <1>3. ASSUME NEW at \in Places, NEW place \in {"inline", "ref"}
        PROVE  IsList(in(at, place)) /\ in(at, place).at = at
    <2>1. IsSeq(<<TextField>>) /\ IsSeq(<< >>)
      BY EmptyFile, AloneIs
    <2> QED
      BY <1>3, <2>1 DEF IsList, List, Places
  <1>4. o[Page] = [annots |-> in(annots, "inline")]
    BY DEF OriginalObjects, Catalog, Page, FormDict, FieldsArray, AnnotsArray, TextField
  <1>5. /\ o[Catalog].form.at = form
        /\ o[Catalog].form.fields =
             (IF form = "inline" THEN in(list, "inline") ELSE List("none", << >>))
        /\ o[Catalog].form = [at |-> o[Catalog].form.at, fields |-> o[Catalog].form.fields]
    BY DEF OriginalObjects, Catalog, Page, FormDict, FieldsArray, AnnotsArray, TextField
  <1>6. /\ form = "ref" => /\ FormDict \in DOMAIN o
                           /\ o[FormDict] = [fields |-> in(list, "inline")]
        /\ form # "none" /\ list = "ref" => /\ FieldsArray \in DOMAIN o
                                            /\ o[FieldsArray] = [ids |-> <<TextField>>]
    BY DEF OriginalObjects, Catalog, Page, FormDict, FieldsArray, AnnotsArray, TextField
  <1> HIDE DEF o, in
  <1>7. Listed(o)
    <2>1. PageListed(o)
      BY <1>3, <1>4 DEF PageListed
    <2>2. IsList(List("none", << >>)) /\ List("none", << >>).at = "none"
      BY EmptyFile DEF IsList, List, Places
    <2>3. IsList(o[Catalog].form.fields)
      BY <1>3, <1>5, <2>2
    <2>4. FormListed(o)
      BY <1>3, <1>5, <1>6, <2>3 DEF FormListed, HasForm, Places
    <2>5. FieldList(o).at = "ref" => form # "none" /\ list = "ref"
      BY <1>3, <1>5, <1>6, <2>2 DEF FieldList
    <2>6. form # "none" /\ list = "ref" => FieldsArray \in DOMAIN o /\ ArrayListed(o)
      BY <1>6, AloneIs DEF ArrayListed
    <2> QED
      BY <2>1, <2>4, <2>5, <2>6 DEF Listed
  <1>8. ObjMap(o)
    <2>1. IsFiniteSet(1 .. 6)
      <3>1. 1 \in Int /\ 6 \in Int
        OBVIOUS
      <3> QED
        BY <3>1, FS_Interval
    <2>2. IsFiniteSet(DOMAIN o)
      BY <1>1, <2>1, FS_Subset
    <2> QED
      BY <1>1, <1>2, <2>2 DEF ObjMap
  <1>9. Piece(p, n, 0, o, Nowhere)
    BY <1>8, SavedPiece
  <1> HIDE DEF p, n
  <1>10. Well(p) /\ LoadMem(p) = o /\ Revisions(p) = 1
    BY <1>8, <1>9, First
  <1>11. Doc(o) /\ StoreOK(o, 0)
    BY <1>1, <1>2, <1>8 DEF Doc, StoreOK
  <1>12. /\ Attested(p, o, << >>) /\ Signatures(o) = {}
         /\ IntactBy(p, o, << >>) = {} /\ ValidBy(p, o, << >>) = {}
    <2>1. p[2] = [k |-> "object", id |-> Page, v |-> o[Page]]
      BY <1>9, <1>11, PageCellIs
    <2>2. Dated(p[2], DOMAIN o)
      <3>1. SUFFICES ASSUME NEW s, NEW k, IsSeq(s), p[2] = PageWith(s, k)
                     PROVE  TextField \in DOMAIN o /\ k <= TextField
        BY DEF Dated
      <3>2. in(annots, "inline") = List("inline", Append(s, k))
        BY <1>4, <2>1, <3>1 DEF PageWith
      <3>3. Append(s, k) = kept
        BY <3>2 DEF List, in
      <3>4. Append(s, k)[Len(Append(s, k))] = k /\ Len(Append(s, k)) # 0
        <4>1. Len(s) \in Nat
          BY <3>1, SeqFacts
        <4> QED
          BY <3>1, <4>1, AddedLast
      <3>5. kept = <<TextField>>
        BY <3>3, <3>4, EmptyFile
      <3>6. k = TextField
        BY <3>3, <3>4, <3>5, AloneIs
      <3> QED
        BY <1>1, <3>6 DEF TextField
    <2> QED
      BY <1>2, <2>2, NoSignature
  <1>13. Linked(o)
    <2>1. Fields(o) \subseteq {TextField}
      <3>1. \A at \in Places, place \in {"inline", "ref"} :
              ToSet(in(at, place).ids) \subseteq {TextField}
        <4>1. ToSet(<<TextField>>) = {TextField} /\ ToSet(<< >>) = {}
          BY AloneIs DEF ToSet
        <4> QED
          BY <4>1 DEF in, List
      <3>2. ToSet(List("none", << >>).ids) = {}
        BY DEF List, ToSet
      <3>3. \/ FieldList(o) = in(list, "inline") \/ FieldList(o) = List("none", << >>)
        BY <1>5, <1>6 DEF FieldList
      <3>4. FieldList(o).at = "ref" => o[FieldsArray].ids = <<TextField>>
        <4>1. List("none", << >>).at = "none"
          BY DEF List
        <4>2. FieldList(o).at = "ref" => form # "none" /\ list = "ref"
          BY <1>3, <1>5, <1>6, <4>1 DEF FieldList
        <4> QED
          BY <1>6, <4>2
      <3> QED
        BY <3>1, <3>2, <3>3, <3>4, AloneIs DEF Fields
    <2>2. TextField \in DOMAIN o /\ TextField >= TextField /\ ~IsSig(o[TextField])
      BY <1>1, <1>2 DEF TextField
    <2> QED
      BY <1>12, <2>1, <2>2 DEF Linked
  <1> QED
    BY <1>7, <1>10, <1>11, <1>12, <1>13 DEF Sound, Told, Original, p, o

-----------------------------------------------------------------------------
(* The inductive invariant.  The document can be read back to the objects  *)
(* that were saved, whatever was appended to it, and each signature in it  *)
(* covers what it was made over or belongs to an earlier document; a       *)
(* signature that waits for its time stamp is the last of a document of    *)
(* one revision, and the only one there that verifies.                     *)
DigestsInv == IsSeq(digests) /\ Len(digests) <= MaxSignatures

FileInv ==
  Sound(file) /\ Told(file, digests) /\ Revisions(file) \in 1 .. MaxRevisions

PendingInv ==
  \/ pending = NotHeld
  \/ /\ pending = [signed |-> pending.signed, serial |-> pending.serial]
     /\ pending.serial \in 1 .. Len(digests)
     /\ Fresh(pending.signed, Cms(pending.serial, 0), digests)

IInv == DigestsInv /\ FileInv /\ PendingInv

(* A file just written can be worked on like any other.                    *)
LEMMA FreshFacts ==
  ASSUME NEW f, NEW c, NEW ds, IsSeq(ds), Fresh(f, c, ds)
  PROVE  /\ Sound(f) /\ Told(f, ds) /\ Revisions(f) = 1
         /\ ShowsOnly(f, ds, c)
         /\ \E id \in DOMAIN LoadMem(f) : IsSig(LoadMem(f)[id]) /\ LoadMem(f)[id].cms = c
  <1>1. PICK n, o, sig : SignedBy(f, n, o, sig, c) /\ Whole(f, n, o, sig, ds)
    BY DEF Fresh
  <1>2. /\ Sound(f) /\ Revisions(f) = 1 /\ LoadMem(f) = o
        /\ \E id \in DOMAIN o : IsSig(o[id]) /\ o[id].cms = c
    BY <1>1, FreshIsSound
  <1>3. /\ Listed(o) /\ Linked(o) /\ sig \in Walked(o) /\ Attested(f, o, ds)
        /\ Solo(f, o, sig, ds) /\ o[sig].cms = c
    BY <1>1 DEF Whole, SignedBy
  <1>4. IsSeq(f)
    BY <1>2 DEF Sound, Well, Cellular
  <1>5. ShowsOnly(f, ds, c)
    <2>1. VerifiedBy(f, o, ds) = {sig}
      BY <1>3, <1>4, SoloValid
    <2> QED
      BY <1>2, <1>3, <2>1, OnlyIs
  <1> QED
    BY <1>2, <1>3, <1>5 DEF Told

(* What a further signature leaves of the other files.                     *)
LEMMA ToldFurther ==
  ASSUME NEW f, IsSeq(f), NEW ds, IsSeq(ds), Told(f, ds), NEW d
  PROVE  Told(f, Append(ds, d)) /\ SameShown(f, f, Append(ds, d), ds)
  <1>1. /\ Attested(f, LoadMem(f), Append(ds, d))
        /\ VerifiedBy(f, LoadMem(f), Append(ds, d)) = VerifiedBy(f, LoadMem(f), ds)
    BY FurtherDigest DEF Told
  <1>2. SameShown(f, f, Append(ds, d), ds)
    BY <1>1, SameIs
  <1> QED
    BY <1>1, <1>2 DEF Told

(* It stays the one that verifies in its document.                         *)
LEMMA FreshFurther ==
  ASSUME NEW f, NEW c, NEW ds, IsSeq(ds), Fresh(f, c, ds), NEW d
  PROVE  Fresh(f, c, Append(ds, d))
  <1>1. PICK n, o, sig : SignedBy(f, n, o, sig, c) /\ Whole(f, n, o, sig, ds)
    BY DEF Fresh
  <1>2. Sound(f)
    BY <1>1, FreshIsSound
  <1>3. IsSeq(f)
    BY <1>2 DEF Sound, Well, Cellular
  <1>4. Attested(f, o, Append(ds, d)) /\ Solo(f, o, sig, Append(ds, d))
    BY <1>1, <1>3, FurtherDigest DEF Whole
  <1>5. Whole(f, n, o, sig, Append(ds, d))
    BY <1>1, <1>4 DEF Whole
  <1> QED
    BY <1>1, <1>5 DEF Fresh

(* A token makes the waiting signature a stamped one, in the same lists.   *)
LEMMA StampedIs ==
  ASSUME IInv, NEW token, pending # NotHeld
  PROVE  /\ Fresh(Stamped(token), Cms(pending.serial, token), digests)
         /\ Keeping(LoadMem(pending.signed), LoadMem(Stamped(token)), TRUE)
         /\ LoadMem(Stamped(token))[Page] = LoadMem(pending.signed)[Page]
         /\ IsLoose(LoadMem(Stamped(token))) <=> IsLoose(LoadMem(pending.signed))
  <1> DEFINE g == pending.signed
             serial == pending.serial
             w == TimestampSigned(g, serial, token)
  <1>1. serial \in 1 .. Len(digests) /\ Len(digests) \in Nat
    BY SeqFacts DEF IInv, PendingInv, DigestsInv
  <1>2. serial \in Nat \ {0}
    BY <1>1
  <1>3. Fresh(g, Cms(serial, 0), digests) /\ IsSeq(digests)
    BY DEF IInv, PendingInv, DigestsInv
  <1>4. w = Stamped(token)
    BY DEF Stamped
  <1> HIDE DEF g, serial
  <1>5. /\ Fresh(w, Cms(serial, token), digests)
        /\ Keeping(LoadMem(g), LoadMem(w), TRUE)
        /\ LoadMem(w)[Page] = LoadMem(g)[Page]
        /\ IsLoose(LoadMem(w)) <=> IsLoose(LoadMem(g))
    BY <1>2, <1>3, TimestampSignedIs
  <1> QED
    BY <1>4, <1>5 DEF g, serial

(* Two steps that keep the lists keep them together.                       *)
LEMMA KeepingBoth ==
  ASSUME NEW f, NEW g, NEW h, Keeping(f, g, TRUE), Keeping(g, h, TRUE), g[Page] = f[Page]
  PROVE  Keeping(f, h, TRUE)
  BY DEF Keeping

(* The length of an Append.                                                *)
LEMMA AppendIs ==
  ASSUME NEW s, IsSeq(s), NEW x
  PROVE  IsSeq(Append(s, x)) /\ Len(Append(s, x)) = Len(s) + 1 /\ Len(s) \in Nat
  <1> DEFINE S == Range(s) \cup {x}
  <1>1. s \in Seq(S) /\ x \in S
    BY SeqMonotonic DEF IsSeq
  <1> HIDE DEF S
  <1>2. Append(s, x) \in Seq(S) /\ Len(Append(s, x)) = Len(s) + 1 /\ Len(s) \in Nat
    BY <1>1, AppendProperties, LenProperties
  <1> QED
    BY <1>2, SeqIs

(* A signature that waits is not touched by those that are made.           *)
LEMMA PendingFurther ==
  ASSUME PendingInv, IsSeq(digests), NEW d, digests' = Append(digests, d), UNCHANGED pending
  PROVE  PendingInv'
  <1>1. CASE pending = NotHeld
    BY <1>1 DEF PendingInv
  <1>2. CASE pending # NotHeld
    <2>1. /\ pending = [signed |-> pending.signed, serial |-> pending.serial]
          /\ pending.serial \in 1 .. Len(digests)
          /\ Fresh(pending.signed, Cms(pending.serial, 0), digests)
      BY <1>2 DEF PendingInv
    <2>2. Len(digests') = Len(digests) + 1 /\ Len(digests) \in Nat
      BY AppendIs
    <2>3. Fresh(pending.signed, Cms(pending.serial, 0), digests')
      BY <2>1, FreshFurther
    <2>4. pending.serial \in 1 .. Len(digests')
      BY <2>1, <2>2
    <2> QED
      BY <2>1, <2>3, <2>4 DEF PendingInv
  <1> QED
    BY <1>1, <1>2

(* The invariant holds of every original, and of every step from there.    *)
LEMMA InitIInv == Init => IInv
  <1>1. SUFFICES ASSUME Init PROVE IInv
    OBVIOUS
  <1>2. DigestsInv
    BY <1>1, EmptyFile, SigningAssumption DEF Init, DigestsInv
  <1>3. FileInv
    <2>1. PICK l \in Layouts : file = Original(l[1], l[2], l[3])
      BY <1>1 DEF Init
    <2>2. l[1] \in Places /\ l[2] \in Places /\ l[3] \in Places
      BY SigningAssumption
    <2>3. Sound(file) /\ Revisions(file) = 1 /\ Told(file, << >>)
      BY <2>1, <2>2, OriginalIs
    <2>4. digests = << >>
      BY <1>1 DEF Init
    <2> QED
      BY <2>3, <2>4, SigningAssumption DEF FileInv
  <1>4. PendingInv
    BY <1>1 DEF Init, PendingInv
  <1> QED
    BY <1>2, <1>3, <1>4 DEF IInv

(* What the operations do to the variables, whose invariant they keep.      *)
LEMMA SignStep ==
  ASSUME IInv, Sign
  PROVE  /\ IInv' /\ Len(digests') = Len(digests) + 1 /\ UNCHANGED pending
         /\ ShowsOnly(file', digests', Cms(Len(digests) + 1, 0))
         /\ IsLoose(LoadMem(file')) <=> IsLoose(LoadMem(file))
         /\ Keeping(LoadMem(file), LoadMem(file'), TRUE)
  <1> DEFINE s == SignPdf(file, NextSerial)
             e == Append(digests, s.digest)
  <1>1. /\ Len(digests) < MaxSignatures /\ file' = s.signed /\ digests' = e
        /\ UNCHANGED pending
    BY DEF Sign, CanSign
  <1>2. Sound(file) /\ Told(file, digests) /\ IsSeq(digests)
    BY DEF IInv, FileInv, DigestsInv
  <1>3. /\ Fresh(s.signed, Cms(NextSerial, 0), e)
        /\ Keeping(LoadMem(file), LoadMem(s.signed), TRUE)
        /\ IsLoose(LoadMem(s.signed)) <=> IsLoose(LoadMem(file))
    BY <1>2, SignPdfIs DEF NextSerial
  <1>4. IsSeq(e) /\ Len(e) = Len(digests) + 1 /\ Len(digests) \in Nat
    BY <1>2, AppendIs
  <1>5. PendingInv'
    BY <1>1, <1>2, <1>4, PendingFurther DEF IInv
  <1> HIDE DEF s, e
  <1>6. /\ Sound(s.signed) /\ Told(s.signed, e) /\ Revisions(s.signed) = 1
        /\ ShowsOnly(s.signed, e, Cms(NextSerial, 0))
    BY <1>3, <1>4, FreshFacts
  <1>7. DigestsInv'
    BY <1>1, <1>4, SigningAssumption DEF DigestsInv
  <1>8. FileInv'
    BY <1>1, <1>6, SigningAssumption DEF FileInv
  <1> QED
    BY <1>1, <1>3, <1>4, <1>5, <1>6, <1>7, <1>8 DEF IInv, NextSerial

(* Signing a revision keeps the invariant and adds a signature.            *)
LEMMA SignIncrementalStep ==
  ASSUME IInv, SignIncremental
  PROVE  /\ IInv' /\ Len(digests') = Len(digests) + 1 /\ UNCHANGED pending
         /\ ShowsMore(file', file, digests', digests, Cms(Len(digests) + 1, 0))
         /\ Keeping(LoadMem(file), LoadMem(file'), FALSE) /\ Revisions(file') # 1
  <1> DEFINE s == SignPdfIncremental(file, NextSerial)
             e == Append(digests, s.digest)
  <1>1. /\ Len(digests) < MaxSignatures /\ file' = s.signed /\ digests' = e
        /\ UNCHANGED pending /\ Revisions(file) < MaxRevisions
    BY DEF SignIncremental, CanSign
  <1>2. /\ Sound(file) /\ Told(file, digests) /\ IsSeq(digests)
        /\ Revisions(file) \in 1 .. MaxRevisions
    BY DEF IInv, FileInv, DigestsInv
  <1>3. /\ Sound(s.signed) /\ Told(s.signed, e) /\ Revisions(s.signed) = Revisions(file) + 1
        /\ ShowsMore(s.signed, file, e, digests, Cms(Len(digests) + 1, 0))
        /\ Keeping(LoadMem(file), LoadMem(s.signed), FALSE)
    BY <1>2, SignPdfIncrementalIs DEF NextSerial
  <1>4. IsSeq(e) /\ Len(e) = Len(digests) + 1 /\ Len(digests) \in Nat
    BY <1>2, AppendIs
  <1>5. PendingInv'
    BY <1>1, <1>2, <1>4, PendingFurther DEF IInv
  <1> HIDE DEF s, e
  <1>6. DigestsInv'
    BY <1>1, <1>4, SigningAssumption DEF DigestsInv
  <1>7. FileInv' /\ Revisions(file') # 1
    BY <1>1, <1>2, <1>3, SigningAssumption DEF FileInv
  <1> QED
    BY <1>1, <1>3, <1>4, <1>5, <1>6, <1>7 DEF IInv

(* Holding a signature back keeps the invariant, and the file as it is.    *)
LEMMA SignPendingStep ==
  ASSUME IInv, SignPending
  PROVE  /\ IInv' /\ Len(digests') = Len(digests) + 1 /\ UNCHANGED file
         /\ SameShown(file, file, digests', digests)
         /\ pending = NotHeld /\ pending'.serial = Len(digests) + 1
         /\ IsLoose(LoadMem(pending'.signed)) <=> IsLoose(LoadMem(file))
         /\ Keeping(LoadMem(file), LoadMem(pending'.signed), TRUE)
  <1> DEFINE s == SignPdf(file, NextSerial)
             e == Append(digests, s.digest)
  <1>1. /\ Len(digests) < MaxSignatures /\ pending = NotHeld /\ digests' = e
        /\ pending' = [signed |-> s.signed, serial |-> NextSerial] /\ UNCHANGED file
    BY DEF SignPending, CanSign
  <1>2. /\ Sound(file) /\ Told(file, digests) /\ IsSeq(digests)
        /\ Revisions(file) \in 1 .. MaxRevisions
    BY DEF IInv, FileInv, DigestsInv
  <1>3. /\ Fresh(s.signed, Cms(NextSerial, 0), e)
        /\ Keeping(LoadMem(file), LoadMem(s.signed), TRUE)
        /\ IsLoose(LoadMem(s.signed)) <=> IsLoose(LoadMem(file))
    BY <1>2, SignPdfIs DEF NextSerial
  <1>4. IsSeq(e) /\ Len(e) = Len(digests) + 1 /\ Len(digests) \in Nat
    BY <1>2, AppendIs
  <1>5. Told(file, e) /\ SameShown(file, file, e, digests)
    <2>1. IsSeq(file)
      BY <1>2 DEF Sound, Well, Cellular
    <2> QED
      BY <1>2, <2>1, ToldFurther
  <1> HIDE DEF s, e
  <1>6. pending'.signed = s.signed /\ pending'.serial = NextSerial
    BY <1>1
  <1>7. DigestsInv'
    BY <1>1, <1>4, SigningAssumption DEF DigestsInv
  <1>8. FileInv'
    BY <1>1, <1>2, <1>5 DEF FileInv
  <1>9. PendingInv'
    <2>1. NextSerial \in 1 .. Len(e)
      BY <1>4 DEF NextSerial
    <2> QED
      BY <1>1, <1>3, <1>6, <2>1 DEF PendingInv
  <1> QED
    BY <1>1, <1>3, <1>4, <1>5, <1>6, <1>7, <1>8, <1>9 DEF IInv, NextSerial

(* The file is the holder's, or the one that is delivered.                 *)
LEMMA ReleaseStep ==
  ASSUME IInv, NEW token, NEW delivered, Release(token, delivered),
         Sound(delivered), Told(delivered, digests), Revisions(delivered) \in 1 .. MaxRevisions
  PROVE  IInv'
  <1>1. (file' = delivered \/ file' = file) /\ pending' = NotHeld /\ UNCHANGED digests
    BY DEF Release
  <1>2. DigestsInv'
    BY <1>1 DEF IInv, DigestsInv
  <1>3. FileInv'
    <2>1. CASE file' = delivered
      BY <1>1, <2>1 DEF FileInv
    <2>2. CASE file' = file
      BY <1>1, <2>2 DEF IInv, FileInv
    <2> QED
      BY <1>1, <2>1, <2>2
  <1>4. PendingInv'
    BY <1>1 DEF PendingInv
  <1> QED
    BY <1>2, <1>3, <1>4 DEF IInv

(* A file delivered under a token has its signature, now stamped, alone.   *)
Delivers(g, token) ==
  /\ ShowsOnly(g, digests, Cms(pending.serial, token))
  /\ IsLoose(LoadMem(g)) <=> IsLoose(LoadMem(pending.signed))
  /\ Keeping(LoadMem(pending.signed), LoadMem(g), TRUE)

(* Releasing it under a token delivers it alone, and keeps the invariant.  *)
LEMMA TimestampedStep ==
  ASSUME IInv, NEW token, Timestamped(token)
  PROVE  IInv' /\ Delivers(Stamped(token), token)
  <1> DEFINE g == Stamped(token)
             c == Cms(pending.serial, token)
  <1>1. Release(token, g) /\ pending # NotHeld
    BY DEF Timestamped, Release
  <1>2. /\ Fresh(g, c, digests) /\ Keeping(LoadMem(pending.signed), LoadMem(g), TRUE)
        /\ IsLoose(LoadMem(g)) <=> IsLoose(LoadMem(pending.signed))
    BY <1>1, StampedIs
  <1> HIDE DEF g, c
  <1>3. IsSeq(digests) /\ 1 \in 1 .. MaxRevisions
    BY SigningAssumption DEF IInv, DigestsInv
  <1>4. /\ Sound(g) /\ Told(g, digests) /\ Revisions(g) = 1
        /\ ShowsOnly(g, digests, c)
    BY <1>2, <1>3, FreshFacts
  <1>5. IInv'
    BY <1>1, <1>3, <1>4, ReleaseStep
  <1> QED
    BY <1>2, <1>4, <1>5 DEF Delivers, g, c

(* Releasing it with a validation store delivers the same.                 *)
LEMMA LongTermStep ==
  ASSUME IInv, NEW token, LongTerm(token)
  PROVE  IInv' /\ Delivers(LongTermFile(token), token)
  <1> DEFINE g == Stamped(token)
             c == Cms(pending.serial, token)
             h == EmbedDssIncremental(g, Bare(c))
  <1>1. Release(token, h) /\ pending # NotHeld /\ h = LongTermFile(token) /\ Bare(c).cms = c
    BY DEF LongTerm, LongTermFile, Release, Bare
  <1>2. /\ Fresh(g, c, digests) /\ Keeping(LoadMem(pending.signed), LoadMem(g), TRUE)
        /\ LoadMem(g)[Page] = LoadMem(pending.signed)[Page]
        /\ IsLoose(LoadMem(g)) <=> IsLoose(LoadMem(pending.signed))
    BY <1>1, StampedIs
  <1> HIDE DEF g, c
  <1>3. IsSeq(digests) /\ 2 \in 1 .. MaxRevisions
    BY SigningAssumption DEF IInv, DigestsInv
  <1>4. /\ Sound(g) /\ Told(g, digests) /\ Revisions(g) = 1
        /\ ShowsOnly(g, digests, c)
        /\ \E id \in DOMAIN LoadMem(g) : IsSig(LoadMem(g)[id]) /\ LoadMem(g)[id].cms = c
    BY <1>2, <1>3, FreshFacts
  <1>5. /\ Sound(h) /\ Told(h, digests) /\ Revisions(h) = Revisions(g) + 1
        /\ SameShown(h, g, digests, digests)
        /\ Keeping(LoadMem(g), LoadMem(h), TRUE)
    <2>1. PICK id \in DOMAIN LoadMem(g) : IsSig(LoadMem(g)[id]) /\ LoadMem(g)[id].cms = c
      BY <1>4
    <2> QED
      BY <1>1, <1>3, <1>4, <2>1, EmbedDssIs
  <1> HIDE DEF h
  <1>6. Keeping(LoadMem(pending.signed), LoadMem(h), TRUE)
    BY <1>2, <1>5, KeepingBoth
  <1>7. Revisions(h) = 2
    BY <1>4, <1>5
  <1>8. IInv'
    BY <1>1, <1>3, <1>5, <1>7, ReleaseStep
  <1>9. ShowsOnly(h, digests, c) /\ (IsLoose(LoadMem(h)) <=> IsLoose(LoadMem(pending.signed)))
    BY <1>2, <1>4, <1>5 DEF ShowsOnly, SameShown
  <1> QED
    BY <1>1, <1>6, <1>8, <1>9 DEF Delivers, c

(* A validation store keeps the invariant, and what the file shows.        *)
LEMMA EmbedDssStep ==
  ASSUME IInv, EmbedDss
  PROVE  /\ IInv' /\ UNCHANGED <<digests, pending>>
         /\ SameShown(file', file, digests, digests)
         /\ Keeping(LoadMem(file), LoadMem(file'), TRUE)
  <1> DEFINE o == LoadMem(file)
  <1>1. /\ Revisions(file) < MaxRevisions /\ UNCHANGED <<digests, pending>>
        /\ \E id \in Signatures(o) : file' = EmbedDssIncremental(file, AsStored(o[id].cms))
    BY DEF EmbedDss
  <1>2. PICK id \in DOMAIN o : /\ IsSig(o[id])
                               /\ file' = EmbedDssIncremental(file, AsStored(o[id].cms))
    BY <1>1 DEF Signatures
  <1>3. AsStored(o[id].cms).cms = o[id].cms
    BY DEF AsStored
  <1>4. /\ Sound(file) /\ Told(file, digests) /\ IsSeq(digests)
        /\ Revisions(file) \in 1 .. MaxRevisions
    BY DEF IInv, FileInv, DigestsInv
  <1>5. /\ Sound(file') /\ Told(file', digests) /\ Revisions(file') = Revisions(file) + 1
        /\ SameShown(file', file, digests, digests)
        /\ Keeping(o, LoadMem(file'), TRUE)
    BY <1>2, <1>3, <1>4, EmbedDssIs
  <1> HIDE DEF o
  <1>6. FileInv'
    BY <1>1, <1>4, <1>5, SigningAssumption DEF FileInv
  <1>7. DigestsInv' /\ PendingInv'
    BY <1>1 DEF IInv, DigestsInv, PendingInv
  <1> QED
    BY <1>1, <1>5, <1>6, <1>7 DEF IInv, o

(* Every step keeps the invariant.                                         *)
LEMMA NextIInv == IInv /\ [Next]_vars => IInv'
  <1> SUFFICES ASSUME IInv, [Next]_vars PROVE IInv'
    OBVIOUS
  <1>1. CASE UNCHANGED vars
    BY <1>1 DEF vars, IInv, DigestsInv, FileInv, PendingInv
  <1> QED
    BY <1>1, SignStep, SignIncrementalStep, SignPendingStep, TimestampedStep, LongTermStep,
       EmbedDssStep
       DEF Next

(* Every document of the program is sound, and a signature that waits for  *)
(* its time stamp is the last of a document written anew: what sign_pdf,   *)
(* sign_pdf_incremental, timestamp_signed and embed_dss_incremental keep,  *)
(* and each of them relies on when it loads the file again.                *)
THEOREM Invariance == Spec => []IInv
  BY InitIInv, NextIInv, PTL DEF Spec

(* The shape of a sound file, cell by cell.                                *)
LEMMA SoundShape ==
  ASSUME NEW f, Sound(f)
  PROVE  /\ \A i \in DOMAIN f :
              /\ f[i].k \in Kinds
              /\ f[i].k = "startxref" => f[i - 1].k = "xref"
              /\ f[i].k = "range" => f[i + 1].k = "contents"
              /\ f[i].k = "contents" => f[i - 1].k = "range"
         /\ f[Len(f)].k = "startxref"
  <1>1. DOMAIN f = 1 .. Len(f)
    BY SeqFacts DEF Sound, Well, Cellular
  <1> QED
    BY <1>1 DEF Sound, Well, Cellular

(* The shapes of the three variables: a file is revisions, each with its   *)
(* table and startxref behind its objects (writer.rs save_internal), and a *)
(* held signature is one that was made (sign.rs PendingTimestamp).         *)
THEOREM TypeCorrect == Spec => []TypeOK
  <1>1. IInv => TypeOK
    <2> SUFFICES ASSUME IInv PROVE TypeOK
      OBVIOUS
    <2>1. ASSUME NEW f \in {file} \cup (IF pending = NotHeld THEN {} ELSE {pending.signed})
          PROVE  Sound(f) /\ Revisions(f) \in 1 .. MaxRevisions
      <3>1. CASE f = file
        BY <3>1 DEF IInv, FileInv
      <3>2. CASE pending # NotHeld /\ f = pending.signed
        <4>1. Sound(f) /\ Revisions(f) = 1
          BY <3>2, FreshFacts DEF IInv, PendingInv, DigestsInv
        <4> QED
          BY <4>1, SigningAssumption
      <3> QED
        BY <2>1, <3>1, <3>2
    <2>2. ASSUME NEW f \in {file} \cup (IF pending = NotHeld THEN {} ELSE {pending.signed})
          PROVE  /\ Revisions(f) \in 1 .. MaxRevisions
                 /\ \A i \in DOMAIN f :
                      /\ f[i].k \in {"object", "range", "contents", "xref", "startxref"}
                      /\ f[i].k = "startxref" => f[i - 1].k = "xref"
                      /\ f[i].k = "range" => f[i + 1].k = "contents"
                      /\ f[i].k = "contents" => f[i - 1].k = "range"
                 /\ f[Len(f)].k = "startxref"
      BY <2>1, SoundShape DEF Kinds
    <2>3. Len(digests) \in 0 .. MaxSignatures
      BY SeqFacts, SigningAssumption DEF IInv, DigestsInv
    <2>4. pending.serial \in 0 .. Len(digests)
      BY <2>3 DEF IInv, PendingInv, NotHeld
    <2> QED
      BY <2>2, <2>3, <2>4 DEF TypeOK
  <1> QED
    BY <1>1, Invariance, PTL

(* A reader that starts at the last startxref and follows /Prev finds, for *)
(* every object ever written, the newest cell that holds it: what rebase   *)
(* in increment.rs and the /Prev of new_from_prev are for.                 *)
THEOREM NewestFound == Spec => []NewestIsFound
  <1>1. IInv => NewestIsFound
    <2> DEFINE e == Entries(file)
    <2> SUFFICES ASSUME IInv, NEW i \in DOMAIN file, file[i].k \in {"object", "range"}
                 PROVE  /\ file[i].id \in DOMAIN e
                        /\ e[file[i].id] + 1 =
                             SelectLastInSeq(file, LAMBDA c : Begins(c, file[i].id))
      BY DEF NewestIsFound
    <2> DEFINE id == file[i].id
    <2>1. Cellular(file) /\ Reaches(file, e)
      BY DEF IInv, FileInv, Sound, Well
    <2>2. DOMAIN file = 1 .. Len(file) /\ Len(file) \in Nat
      BY <2>1, SeqFacts DEF Cellular
    <2> HIDE DEF e
    <2>3. /\ id \in DOMAIN e /\ e[id] \in 0 .. Len(file) - 1
          /\ Begins(file[e[id] + 1], id)
      BY <2>1, <2>2 DEF Reaches
    <2> DEFINE I == {j \in 1 .. Len(file) : Begins(file[j], id)}
    <2>4. \A j \in I : j <= e[id] + 1
      BY <2>1 DEF Reaches, Begins
    <2>5. e[id] + 1 \in I /\ I \subseteq Nat
      BY <2>2, <2>3
    <2>6. SelectLastInSeq(file, LAMBDA c : Begins(c, file[i].id)) =
            IF I # {} THEN Max(I) ELSE 0
      BY DEF SelectLastInSeq
    <2> HIDE DEF I
    <2>7. Max(I) = e[id] + 1
      BY <2>4, <2>5, GreatestIs
    <2> QED
      BY <2>3, <2>5, <2>6, <2>7
  <1> QED
    BY <1>1, Invariance, PTL

(* The validation data in the file is filed under a CMS that it holds, the *)
(* one after the token was embedded, with the zeros behind it or without,  *)
(* and a later signature or rewrite does not orphan it (sign.rs            *)
(* add_validation_store_for_chain).                                        *)
THEOREM StoreNamed == Spec => []StoreNamesASignature
  <1>1. IInv => StoreNamesASignature
    BY DEF IInv, FileInv, Sound, StoreOK, StoreNamesASignature, Signatures
  <1> QED
    BY <1>1, Invariance, PTL

-----------------------------------------------------------------------------
(* The history of the signatures, and what becomes of the lists.           *)
ShownBy(f, ds) == [intact |-> IntactBy(f, LoadMem(f), ds),
                   valid |-> ValidBy(f, LoadMem(f), ds),
                   loose |-> IsLoose(LoadMem(f))]

(* Shown, over the digests ds: before a step, and after it.                *)
LEMMA ShownIs ==
  /\ Told(file, digests) => Shown(file) = ShownBy(file, digests)
  /\ Told(file', digests') => Shown(file)' = ShownBy(file', digests')
  <1>1. ASSUME Told(file, digests) PROVE Shown(file) = ShownBy(file, digests)
    <2> DEFINE o == LoadMem(file)
    <2>1. Shown(file) = Reported(file, o)
      BY Zenon DEF Shown
    <2>2. Verified(file, o) = VerifiedBy(file, o, digests)
      BY DEF Verified, VerifiedBy, Verifies, VerifiesBy
    <2>3. SignatureFields(o) = Walked(o)
      BY <1>1, ListedAre DEF Told
    <2> HIDE DEF o
    <2>4. Reported(file, o) = [intact |-> IntactBy(file, o, digests),
                               valid |-> ValidBy(file, o, digests),
                               loose |-> IsLoose(o)]
      BY <2>2, <2>3, Zenon DEF Reported, IntactBy, ValidBy
    <2> QED
      BY <2>1, <2>4, Zenon DEF o, ShownBy
  <1>2. ASSUME Told(file', digests') PROVE Shown(file)' = ShownBy(file', digests')
    <2> DEFINE o == LoadMem(file)
    <2>1. Shown(file)' = Reported(file, o)'
      BY Zenon DEF Shown
    <2>2. Verified(file, o)' = VerifiedBy(file', LoadMem(file'), digests')
      BY DEF Verified, VerifiedBy, Verifies, VerifiesBy
    <2>3. SignatureFields(LoadMem(file')) = Walked(LoadMem(file'))
      BY <1>2, ListedAre DEF Told
    <2>4. Reported(file, o)' = [intact |-> IntactBy(file', LoadMem(file'), digests'),
                                valid |-> ValidBy(file', LoadMem(file'), digests'),
                                loose |-> IsLoose(LoadMem(file'))]
      BY <2>2, <2>3, Zenon DEF Reported, IntactBy, ValidBy
    <2> QED
      BY <2>1, <2>4, Zenon DEF ShownBy
  <1> QED
    BY <1>1, <1>2

(* The truth of IsLoose is a value that records hold.                      *)
LEMMA LooseIs ==
  ASSUME NEW x
  PROVE  /\ IsLoose(x) \in BOOLEAN /\ (~IsLoose(x) => IsLoose(x) = FALSE)
         /\ \A y : (IsLoose(x) <=> IsLoose(y)) => IsLoose(x) = IsLoose(y)
  BY Zenon DEF IsLoose

(* What the operations promise, as values of doc.                          *)
LEMMA SameDoc ==
  ASSUME NEW F, NEW f, NEW es, NEW ds, SameShown(F, f, es, ds)
  PROVE  ShownBy(F, es) = ShownBy(f, ds)
  <1>1. IsLoose(LoadMem(F)) = IsLoose(LoadMem(f))
    BY LooseIs, Zenon DEF SameShown
  <1>2. /\ IntactBy(F, LoadMem(F), es) = IntactBy(f, LoadMem(f), ds)
        /\ ValidBy(F, LoadMem(F), es) = ValidBy(f, LoadMem(f), ds)
    BY DEF SameShown
  <1> QED
    BY <1>1, <1>2, Zenon DEF ShownBy

(* A file that shows one signature.                                        *)
LEMMA OnlyDoc ==
  ASSUME NEW F, NEW es, NEW c, ShowsOnly(F, es, c), NEW f, NEW ds,
         IsLoose(LoadMem(F)) <=> IsLoose(LoadMem(f))
  PROVE  ShownBy(F, es) = [intact |-> {c}, valid |-> {c}, loose |-> ShownBy(f, ds).loose]
  <1>1. IsLoose(LoadMem(F)) = IsLoose(LoadMem(f))
    BY LooseIs, Zenon
  <1>2. ShownBy(f, ds).loose = IsLoose(LoadMem(f))
    BY Zenon DEF ShownBy
  <1> QED
    BY <1>1, <1>2, Zenon DEF ShownBy, ShowsOnly

(* A file that shows one signature more.                                   *)
LEMMA MoreDoc ==
  ASSUME NEW F, NEW f, NEW es, NEW ds, NEW c, ShowsMore(F, f, es, ds, c)
  PROVE  LET d == ShownBy(f, ds)
         IN  ShownBy(F, es) = [intact |-> d.intact \cup {c},
                               valid |-> IF d.loose THEN {c} ELSE d.valid \cup {c},
                               loose |-> FALSE]
  <1> DEFINE d == ShownBy(f, ds)
  <1>1. /\ d.intact = IntactBy(f, LoadMem(f), ds) /\ d.valid = ValidBy(f, LoadMem(f), ds)
        /\ d.loose = IsLoose(LoadMem(f))
    BY Zenon DEF ShownBy
  <1> HIDE DEF d
  <1>2. IsLoose(LoadMem(F)) = FALSE
    BY LooseIs, Zenon DEF ShowsMore
  <1>3. IntactBy(F, LoadMem(F), es) = d.intact \cup {c}
    BY <1>1 DEF ShowsMore
  <1>4. ValidBy(F, LoadMem(F), es) = IF d.loose THEN {c} ELSE d.valid \cup {c}
    <2>1. CASE IsLoose(LoadMem(f))
      <3>1. ValidBy(F, LoadMem(F), es) = {} \cup {c} /\ {} \cup {c} = {c}
        BY <2>1 DEF ShowsMore
      <3>2. d.loose
        BY <1>1, <2>1, Zenon
      <3> QED
        BY <3>1, <3>2
    <2>2. CASE ~IsLoose(LoadMem(f))
      <3>1. ValidBy(F, LoadMem(F), es) = d.valid \cup {c}
        BY <1>1, <2>2 DEF ShowsMore
      <3>2. ~d.loose
        BY <1>1, <2>2, Zenon
      <3> QED
        BY <3>1, <3>2
    <2> QED
      BY <2>1, <2>2
  <1> QED
    BY <1>2, <1>3, <1>4, Zenon DEF d, ShownBy

(* Signatures survive as SignedHistory says: a rewrite leaves its own, a   *)
(* revision adds to the intact ones, and to those that validate_signatures *)
(* finds valid unless it loses the list of the fields, a validation store  *)
(* costs none, and a held signature is delivered only under a token that   *)
(* stamps it (sign.rs sign_pdf_incremental, carry_over_structure,          *)
(* timestamp_signed; ltv.rs embed_dss_incremental; lib.rs:181-192).        *)
THEOREM SigningImplementsHistory == Spec => HistorySpec
  <1> DEFINE S == Shown(file)
             n == Len(digests)
             H == IF pending = NotHeld THEN NoneHeld
                  ELSE [serial |-> pending.serial,
                        loose |-> IsLoose(LoadMem(pending.signed))]
  <1>1. Init => History!Init
    <2> SUFFICES ASSUME Init PROVE History!Init
      OBVIOUS
    <2>1. PICK l \in Layouts : file = Original(l[1], l[2], l[3])
      BY DEF Init
    <2>2. l[1] \in Places /\ l[2] \in Places /\ l[3] \in Places
      BY SigningAssumption
    <2>3. digests = << >> /\ n = 0 /\ pending = NotHeld
      BY EmptyFile DEF Init
    <2>4. /\ Told(file, digests) /\ IntactBy(file, LoadMem(file), digests) = {}
          /\ ValidBy(file, LoadMem(file), digests) = {}
      BY <2>1, <2>2, <2>3, OriginalIs
    <2>5. S = [intact |-> {}, valid |-> {}, loose |-> IsLoose(LoadMem(file))]
      BY <2>4, ShownIs, Zenon DEF ShownBy
    <2>6. IsLoose(LoadMem(file)) \in BOOLEAN
      BY LooseIs, Zenon
    <2>7. H = [serial |-> 0, loose |-> FALSE]
      BY <2>3 DEF NoneHeld
    <2> HIDE DEF S, n, H
    <2>8. \E loose \in BOOLEAN : S = [intact |-> {}, valid |-> {}, loose |-> loose]
      BY <2>5, <2>6, Zenon
    <2> QED
      BY <2>3, <2>7, <2>8, Zenon DEF History!Init, History!Showing, History!Holding, S, n, H
  <1>2. IInv /\ [Next]_vars => [History!Next]_(History!vars)
    <2> SUFFICES ASSUME IInv, [Next]_vars PROVE [History!Next]_(History!vars)
      OBVIOUS
    <2>1. S = ShownBy(file, digests) /\ S' = ShownBy(file', digests')
      <3>1. IInv'
        BY NextIInv
      <3> QED
        BY <3>1, ShownIs DEF IInv, FileInv
    <2>2. n \in Nat
      BY SeqFacts DEF IInv, DigestsInv
    <2>3. UNCHANGED pending => H' = H
      OBVIOUS
    <2> HIDE DEF S, H, n
    <2>4. ASSUME Sign PROVE History!Replace
      <3>1. /\ n' = n + 1 /\ UNCHANGED pending
            /\ ShowsOnly(file', digests', Cms(n', 0))
            /\ IsLoose(LoadMem(file')) <=> IsLoose(LoadMem(file))
        BY <2>4, SignStep DEF n
      <3>2. S' = [intact |-> {Cms(n', 0)}, valid |-> {Cms(n', 0)}, loose |-> S.loose]
        <4>1. ShownBy(file', digests') = [intact |-> {Cms(n', 0)}, valid |-> {Cms(n', 0)},
                                          loose |-> ShownBy(file, digests).loose]
          BY <3>1, OnlyDoc
        <4> QED
          BY <2>1, <4>1, Zenon
      <3> QED
        BY <2>3, <3>1, <3>2, Zenon
           DEF History!Replace, History!Plain, History!Only, History!Showing, Cms, S, H, n
    <2>5. ASSUME SignIncremental PROVE History!Approve
      <3>1. /\ n' = n + 1 /\ UNCHANGED pending
            /\ ShowsMore(file', file, digests', digests, Cms(n', 0))
        BY <2>5, SignIncrementalStep DEF n
      <3>2. S' = [intact |-> S.intact \cup {Cms(n', 0)},
                  valid |-> IF S.loose THEN {Cms(n', 0)} ELSE S.valid \cup {Cms(n', 0)},
                  loose |-> FALSE]
        <4> DEFINE d == ShownBy(file, digests)
        <4>1. ShownBy(file', digests') = [intact |-> d.intact \cup {Cms(n', 0)},
                                          valid |-> IF d.loose THEN {Cms(n', 0)}
                                                    ELSE d.valid \cup {Cms(n', 0)},
                                          loose |-> FALSE]
          BY <3>1, MoreDoc
        <4> QED
          BY <2>1, <4>1, Zenon
      <3> QED
        BY <2>3, <3>1, <3>2, Zenon
           DEF History!Approve, History!Plain, History!Showing, Cms, S, H, n
    <2>6. ASSUME SignPending PROVE History!Hold
      <3>1. /\ n' = n + 1 /\ pending = NotHeld /\ pending'.serial = n'
            /\ SameShown(file, file, digests', digests) /\ UNCHANGED file
            /\ IsLoose(LoadMem(pending'.signed)) <=> IsLoose(LoadMem(file))
        BY <2>6, SignPendingStep DEF n
      <3>2. S' = S
        BY <2>1, <3>1, SameDoc
      <3>3. S.loose = IsLoose(LoadMem(file))
        BY <2>1, Zenon DEF ShownBy
      <3>4. IsLoose(LoadMem(pending'.signed)) = S.loose
        BY <3>1, <3>3, LooseIs, Zenon
      <3>5. pending' # NotHeld
        BY <2>2, <3>1 DEF NotHeld
      <3>6. H.serial = 0
        BY <3>1 DEF H, NoneHeld
      <3>7. H' = [serial |-> n', loose |-> S.loose]
        BY <3>1, <3>4, <3>5, Zenon DEF H
      <3> QED
        BY <3>1, <3>2, <3>6, <3>7, Zenon DEF History!Hold, History!Holding, S, H, n
    <2>7. ASSUME NEW token, NEW g, Release(token, g), Delivers(g, token)
          PROVE  History!Release
      <3>1. pending # NotHeld /\ pending' = NotHeld /\ UNCHANGED digests
        BY <2>7 DEF Release
      <3>2. pending.serial # 0
        BY <2>2, <3>1 DEF IInv, PendingInv, n
      <3>3. H = [serial |-> pending.serial, loose |-> IsLoose(LoadMem(pending.signed))]
        BY <3>1, Zenon DEF H
      <3>4. H.serial = pending.serial /\ H.loose = IsLoose(LoadMem(pending.signed))
        BY <3>3, Zenon
      <3>5. H' = [serial |-> 0, loose |-> FALSE] /\ n' = n
        BY <3>1 DEF H, NoneHeld, n
      <3>6. CASE Stamps(token)
        <4> DEFINE c == Cms(pending.serial, pending.serial)
        <4>1. file' = g /\ token = pending.serial
          BY <2>7, <3>6 DEF Release, Stamps
        <4>2. /\ ShowsOnly(file', digests', c)
              /\ IsLoose(LoadMem(file')) <=> IsLoose(LoadMem(pending.signed))
          BY <2>7, <3>1, <4>1 DEF Delivers
        <4>3. S' = [intact |-> {c}, valid |-> {c}, loose |-> H.loose]
          <5>1. S' = [intact |-> {c}, valid |-> {c},
                      loose |-> ShownBy(pending.signed, digests).loose]
            <6>1. ShownBy(file', digests') =
                    [intact |-> {c}, valid |-> {c},
                     loose |-> ShownBy(pending.signed, digests).loose]
              <7>1. digests' = digests
                BY <3>1
              <7> HIDE DEF c
              <7> QED
                BY <4>2, <7>1, OnlyDoc
            <6> QED
              BY <2>1, <6>1, Zenon
          <5>2. ShownBy(pending.signed, digests).loose = H.loose
            BY <3>4, Zenon DEF ShownBy
          <5> QED
            BY <5>1, <5>2, Zenon
        <4>4. c = [serial |-> H.serial, token |-> H.serial]
          BY <3>4 DEF Cms
        <4> HIDE DEF c
        <4> QED
          BY <3>2, <3>4, <3>5, <4>3, <4>4, Zenon
             DEF History!Release, History!Holding, History!Only, History!Showing, S, H, n
      <3>7. CASE ~Stamps(token)
        <4>1. S' = S
          BY <2>1, <2>7, <3>1, <3>7 DEF Release
        <4> QED
          BY <3>2, <3>4, <3>5, <4>1, Zenon DEF History!Release, History!Holding, S, H, n
      <3> QED
        BY <3>6, <3>7
    <2>8. ASSUME NEW token, Timestamped(token) PROVE History!Release
      BY <2>7, <2>8, TimestampedStep DEF Timestamped
    <2>9. ASSUME NEW token, LongTerm(token) PROVE History!Release
      BY <2>7, <2>9, LongTermStep DEF LongTerm
    <2>10. ASSUME EmbedDss PROVE UNCHANGED History!vars
      <3>1. UNCHANGED <<digests, pending>> /\ SameShown(file', file, digests, digests)
        BY <2>10, EmbedDssStep
      <3>2. S' = S
        BY <2>1, <3>1, SameDoc
      <3> QED
        BY <2>3, <3>1, <3>2, Zenon DEF History!vars, S, H
    <2>11. ASSUME UNCHANGED vars PROVE UNCHANGED History!vars
      <3>1. UNCHANGED <<digests, pending>> /\ S' = S
        BY <2>1, <2>11 DEF vars
      <3> QED
        BY <2>3, <3>1, Zenon DEF History!vars, S, H
    <2> QED
      BY <2>4, <2>5, <2>6, <2>8, <2>9, <2>10, <2>11 DEF Next, History!Next
  <1> QED
    BY <1>1, <1>2, Invariance, PTL DEF Spec, HistorySpec, History!Spec

(* What the lemmas on operations say of the lists is Keeps.                *)
LEMMA KeepsIs ==
  ASSUME NEW f, NEW g, NEW whole \in BOOLEAN, Keeping(LoadMem(f), LoadMem(g), whole),
         Revisions(g) = 1 => whole
  PROVE  Keeps(f, g)
  <1> DEFINE o == LoadMem(f)
             n == LoadMem(g)
  <1> HIDE DEF o, n
  <1>1. Keeping(o, n, whole)
    BY DEF o, n
  <1>2. /\ FieldList(o).at # "ref" \/ Revisions(g) = 1 => Fields(o) \subseteq Fields(n)
        /\ o[Page].annots.at # "ref" => Annots(o) \subseteq Annots(n)
    BY <1>1 DEF Keeping
  <1> QED
    BY <1>2 DEF Keeps, o, n

(* A file keeps its own lists.                                             *)
LEMMA KeepsSelf ==
  ASSUME NEW f
  PROVE  Keeps(f, f)
  BY DEF Keeps

(* What every operation keeps of the lists of the file it works on: the    *)
(* fields of the form when /Fields is direct or the file is rewritten, the *)
(* annotations when /Annots is direct (sign.rs ensure_acroform, 379-391).  *)
THEOREM ListsKept == Spec => ListsAreKept
  <1> DEFINE Step ==
        IF pending = NotHeld
          THEN Keeps(file, file') /\ (pending' # NotHeld => Keeps(file, pending'.signed))
          ELSE file' # file /\ pending' = NotHeld => Keeps(pending.signed, file')
  <1>1. IInv /\ [Next]_vars => [Step]_vars
    <2> SUFFICES ASSUME IInv, Next PROVE Step
      OBVIOUS
    <2>1. ASSUME Keeps(file, file'), UNCHANGED pending PROVE Step
      BY <2>1
    <2>2. CASE Sign
      BY <2>1, <2>2, SignStep, KeepsIs
    <2>3. CASE SignIncremental
      BY <2>1, <2>3, SignIncrementalStep, KeepsIs
    <2>4. CASE SignPending
      <3>1. Keeps(file, pending'.signed) /\ file' = file /\ pending = NotHeld
        BY <2>4, SignPendingStep, KeepsIs
      <3> QED
        BY <3>1, KeepsSelf
    <2>5. ASSUME NEW token, NEW g, Release(token, g), Delivers(g, token)
          PROVE  Step
      <3>1. pending # NotHeld /\ (file' = g \/ file' = file)
        BY <2>5 DEF Release
      <3>2. Keeps(pending.signed, g)
        BY <2>5, KeepsIs DEF Delivers
      <3> QED
        BY <3>1, <3>2
    <2>6. CASE EmbedDss
      <3>1. Keeps(file, file') /\ UNCHANGED pending
        BY <2>6, EmbedDssStep, KeepsIs
      <3> QED
        BY <2>1, <3>1
    <2>7. ASSUME NEW token, Timestamped(token) PROVE Step
      BY <2>5, <2>7, TimestampedStep DEF Timestamped
    <2>8. ASSUME NEW token, LongTerm(token) PROVE Step
      BY <2>5, <2>8, LongTermStep DEF LongTerm
    <2> HIDE DEF Step
    <2> QED
      BY <2>2, <2>3, <2>4, <2>6, <2>7, <2>8 DEF Next
  <1> QED
    BY <1>1, Invariance, PTL DEF Spec, ListsAreKept

=============================================================================
