---------------------------- MODULE SignedHistory ----------------------------
(***************************************************************************)
(* What pdf-sign keeps for the holder of a document, without its bytes:    *)
(* the signatures that verify, the time stamp each carries, those that are *)
(* reported valid, and one signature that waits for its time stamp outside *)
(* the document.                                                           *)
(***************************************************************************)
EXTENDS Naturals

VARIABLES made,  \* how many signatures were ever made
          held,  \* the signature that waits, its serial 0 when none does
          doc    \* what is seen of the document

vars == <<made, held, doc>>

(* A token names the signature it stamps; 0 is no token. *)
Signature == [serial : Nat \ {0}, token : Nat]

(* The intact signatures, those of them that are reported valid, and       *)
(* whether the next revision loses the list they are reported by.          *)
Doc == [intact : SUBSET Signature, valid : SUBSET Signature, loose : BOOLEAN]

Plain(serial) == [serial |-> serial, token |-> 0]

Showing(intact, valid, loose) == [intact |-> intact, valid |-> valid, loose |-> loose]

(* A document of one signature. *)
Only(signature, loose) == Showing({signature}, {signature}, loose)

Holding(serial, loose) == [serial |-> serial, loose |-> loose]

Init == /\ made = 0 /\ held = Holding(0, FALSE)
        /\ \E loose \in BOOLEAN : doc = Showing({}, {}, loose)

(* The document is written anew: no earlier signature survives. *)
Replace == /\ made' = made + 1
           /\ UNCHANGED held
           /\ doc' = Only(Plain(made'), doc.loose)

(* A revision is appended: every earlier signature survives, and is        *)
(* reported as before unless this revision loses the list.                 *)
Approve == /\ made' = made + 1
           /\ UNCHANGED held
           /\ LET new == {Plain(made')} IN
              doc' = Showing(doc.intact \cup new,
                             IF doc.loose THEN new ELSE doc.valid \cup new, FALSE)

Hold == /\ held.serial = 0
        /\ made' = made + 1
        /\ UNCHANGED doc
        /\ held' = Holding(made', doc.loose)

(* The token is refused, or the held signature is delivered with a token   *)
(* that stamps that very signature.                                        *)
Release == /\ held.serial # 0
           /\ UNCHANGED made
           /\ held' = Holding(0, FALSE)
           /\ \/ UNCHANGED doc
              \/ doc' = Only([serial |-> held.serial, token |-> held.serial], held.loose)

Next == Replace \/ Approve \/ Hold \/ Release

Spec == Init /\ [][Next]_vars
=============================================================================
