---------------------------- MODULE MCXRefResolve ----------------------------
(* Two threads that read three objects in all of one of five small          *)
(* documents: a plain object X, and two object streams of one object each.  *)
EXTENDS XRefResolve, TLC

X == 1  S == 2  A == 3  T == 4  B == 5
MCIds == {X, S, A, T, B}
Header == 1  AtX == 2  AtS == 3  AtT == 4  AtNewS == 5
MCOffsets == {Header, AtX, AtS, AtT, AtNewS}

Junk == [num |-> X, type |-> "junk", decodes |-> FALSE, packs |-> <<>>]
Plain(num) == [num |-> num, type |-> "plain", decodes |-> FALSE, packs |-> <<>>]
Pack(num, packs) == [num |-> num, type |-> "stream", decodes |-> TRUE, packs |-> packs]

Bodies == (Header :> Junk) @@ (AtX :> Plain(X)) @@ (AtS :> Pack(S, <<A>>))
          @@ (AtT :> Pack(T, <<B>>)) @@ (AtNewS :> Junk)

Scan == (X :> Normal(AtX)) @@ (S :> Normal(AtS)) @@ (A :> Packed(S, 0))
        @@ (T :> Normal(AtT)) @@ (B :> Packed(T, 0))

Honest == [table |-> Scan, scan |-> Scan, body |-> Bodies]

(* The fixture of xref.rs whose table points into the header; here one      *)
(* entry of a plain object and one of an object stream do.                  *)
Broken == [Honest EXCEPT !.table[X] = Normal(Header), !.table[T] = Normal(Header)]

(* Every entry is off by one object.                                        *)
Shifted == [Honest EXCEPT !.table[X] = Normal(AtS), !.table[S] = Normal(AtT),
                          !.table[T] = Normal(AtS)]

(* Each stream says that the other one packs it.                            *)
Cyclic == [Honest EXCEPT !.table[S] = Packed(T, 0), !.table[T] = Packed(S, 0)]

(* One of the streams does not decode.                                      *)
Undecodable == [Broken EXCEPT !.body[AtS].decodes = FALSE, !.scan[A] = Undefined]

(* An update that was cut off before its own table: it holds a later        *)
(* version of S that packs its objects in another order.  The table still   *)
(* leads to the former one, and an unrelated entry of it is broken.         *)
CutOff == [table |-> [Scan EXCEPT ![X] = Normal(Header), ![B] = Packed(S, 1)],
           scan  |-> [Scan EXCEPT ![S] = Normal(AtNewS), ![A] = Packed(S, 1),
                                  ![B] = Packed(S, 0)],
           body  |-> [Bodies EXCEPT ![AtS] = Pack(S, <<A, B>>),
                                    ![AtNewS] = Pack(S, <<B, A>>)]]

MCFiles == {Broken, Shifted, Cyclic, Undecodable, CutOff}
MCCutOffFiles == {CutOff}
==============================================================================
