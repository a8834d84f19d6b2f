------------------------------ MODULE PdfSigning ------------------------------
(***************************************************************************)
(* Signing in pdf-sign (crates/pdf-sign/src/sign.rs, ltv.rs, increment.rs) *)
(* over the loader and the writer of lopdf.                                *)
(*                                                                         *)
(* A file is a sequence of cells, and an offset is an index into it        *)
(* counted from 0.  An object is one cell; a signature dictionary is two,  *)
(* its /ByteRange and its /Contents.  After the objects of a revision come *)
(* its cross-reference table and its startxref.  A digest is the sequence  *)
(* of cells it was taken of, kept in `digests` under the serial number of  *)
(* the signature.                                                          *)
(***************************************************************************)
EXTENDS Integers, Sequences, FiniteSets, SequencesExt, FiniteSetsExt

CONSTANTS Layouts,        \* where the original keeps /AcroForm, its /Fields,
                          \* and the /Annots of its page
          MaxSignatures,  \* bound: signatures made in a behaviour
          MaxRevisions    \* bound: revisions of one file

Places == {"none", "inline", "ref"}

ASSUME SigningAssumption == /\ Layouts \subseteq Places \X Places \X Places
                            /\ MaxSignatures \in Nat
                            /\ MaxRevisions \in Nat \ {0, 1}

VARIABLES file,     \* the document its holder has
          digests,  \* what each signature was made over
          pending   \* the PendingTimestamp value, or NotHeld

vars == <<file, digests, pending>>

(* The objects of the original; new ones are numbered from the highest.    *)
Catalog == 1
Page == 2
FormDict == 3
FieldsArray == 4
AnnotsArray == 5
TextField == 6

Nowhere == -1
NotHeld == [signed |-> << >>, serial |-> 0]

(* The /Contents of a signature: a CMS, or the zeros that wait for one.    *)
Cms(serial, token) == [serial |-> serial, token |-> token]
Zeros == Cms(0, 0)

List(at, ids) == [at |-> at, ids |-> ids]
IsSig(v) == "cms" \in DOMAIN v

-----------------------------------------------------------------------------
(* lopdf: a revision is written with its objects in order of number.       *)

(* The slots of a revision: <<number, part>>, in the order they are        *)
(* written.                                                                *)
Slots(objects) ==
  {s \in (DOMAIN objects) \X {1, 2} : s[2] = 1 \/ IsSig(objects[s[1]])}

Ahead(s, t) == s[1] < t[1] \/ (s[1] = t[1] /\ s[2] < t[2])

Position(slots, s) == Cardinality({t \in slots : Ahead(t, s)})

CellOf(id, part, v) ==
  IF ~IsSig(v) THEN [k |-> "object", id |-> id, v |-> v]
  ELSE IF part = 1 THEN [k |-> "range", id |-> id, range |-> v.range]
  ELSE [k |-> "contents", id |-> id, cms |-> v.cms]

Begins(cell, id) == cell.k \in {"object", "range"} /\ cell.id = id

Body(objects) ==
  LET slots == Slots(objects)
      at == [s \in slots |-> Position(slots, s)]
  IN  [i \in 1 .. Cardinality(slots) |->
         LET s == CHOOSE t \in slots : at[t] = i - 1
         IN  CellOf(s[1], s[2], objects[s[1]])]

SaveTo(objects, prev) ==
  LET slots == Slots(objects) IN
  Body(objects) \o
    << [k |-> "xref", prev |-> prev,
        entries |-> [id \in DOMAIN objects |-> Position(slots, <<id, 1>>)]],
       [k |-> "startxref", at |-> Cardinality(slots)] >>

(* The tables from startxref back along /Prev; a newer entry hides an      *)
(* older one, and an offset that leads to no table is an error.            *)
XRefStart(f) == f[Len(f)].at

Hide(old, new) ==
  [id \in DOMAIN old \cup DOMAIN new |->
     IF id \in DOMAIN new THEN new[id] ELSE old[id]]

Entries(f) ==
  LET from[at \in 0 .. Len(f) - 1] ==
        LET t == f[at + 1] IN
        IF t.k # "xref" THEN << >>
        ELSE IF t.prev = Nowhere THEN t.entries
        ELSE Hide(from[t.prev], t.entries)
  IN  from[XRefStart(f)]

ObjectAt(f, at) ==
  IF f[at + 1].k = "range" THEN [range |-> f[at + 1].range, cms |-> f[at + 2].cms]
                           ELSE f[at + 1].v

LoadMem(f) ==
  LET e == Entries(f) IN
  [id \in {i \in DOMAIN e : Begins(f[e[i] + 1], i)} |-> ObjectAt(f, e[id])]

TopId(f) == Max(DOMAIN Entries(f))

Revisions(f) == Cardinality({i \in DOMAIN f : f[i].k = "startxref"})

-----------------------------------------------------------------------------
(* Pass 1: the placeholder.                                                *)

(* A reference to an array is not an array: it is replaced by a list of    *)
(* the new field alone.                                                    *)
AddToPage(objects, field) ==
  LET a == objects[Page].annots
      kept == IF a.at = "inline" THEN a.ids ELSE << >>
  IN  [objects EXCEPT ![Page].annots = List("inline", Append(kept, field))]

Inline(field) == [at |-> "inline", fields |-> List("inline", <<field>>)]

EnsureAcroForm(objects, field) ==
  LET form == objects[Catalog].form
      inDict == form.at = "ref" /\ FormDict \in DOMAIN objects
      known == form.at = "inline" \/ inDict
      fields == IF inDict THEN objects[FormDict].fields ELSE form.fields
      longer == List("inline", Append(fields.ids, field))
  IN  IF known /\ fields.at # "ref" THEN
        IF inDict THEN [objects EXCEPT ![FormDict].fields = longer]
                  ELSE [objects EXCEPT ![Catalog].form.fields = longer]
      ELSE IF known /\ FieldsArray \in DOMAIN objects THEN
        [objects EXCEPT ![FieldsArray].ids = Append(@, field)]
      ELSE [objects EXCEPT ![Catalog].form = Inline(field)]

(* The dictionary and the widget of a new signature, listed on the page    *)
(* and in the form.                                                        *)
NewSignature(sig, field) ==
  [id \in {sig, field} |->
     IF id = sig THEN [range |-> <<0, Nowhere, Nowhere, Nowhere>>, cms |-> Zeros]
                 ELSE [sig |-> sig]]

Prepare(objects, top) ==
  EnsureAcroForm(AddToPage(Hide(objects, NewSignature(top + 1, top + 2)), top + 2),
                 top + 2)

(* The first string of zeros, and the nearest /ByteRange before it.        *)
FindContentsHex(f) == SelectInSeq(f, LAMBDA c : c.k = "contents" /\ c.cms = Zeros) - 1
FindByteRange(f, contents) ==
  SelectLastInSeq(SubSeq(f, 1, contents), LAMBDA c : c.k = "range") - 1

(* Mutant of CarryOver: the key AcroForm is not followed.                  *)
CarryOverPages(objects) == [id \in {Catalog, Page} |-> objects[id]]

(* carry_over_structure: what a revision repeats of the one before it.     *)
CarryOver(objects) ==
  LET kept == {Catalog, Page} \cup
              (IF objects[Catalog].form.at = "ref" THEN {FormDict} ELSE {})
  IN  [id \in kept \cap DOMAIN objects |-> objects[id]]

(* Mutant of Rebase: the entries of the table are left as they were.       *)
RebaseStart(f, base) ==
  [i \in DOMAIN f |-> IF f[i].k = "startxref" THEN [f[i] EXCEPT !.at = @ + base] ELSE f[i]]

(* increment::rebase: offsets of the new revision count from its own first *)
(* byte until they are shifted; /Prev counts from the first of the file.   *)
Rebase(f, base) ==
  [i \in DOMAIN f |->
     CASE f[i].k = "xref" -> [f[i] EXCEPT !.entries = [id \in DOMAIN @ |-> @[id] + base]]
       [] f[i].k = "startxref" -> [f[i] EXCEPT !.at = @ + base]
       [] OTHER -> f[i]]

-----------------------------------------------------------------------------
(* Pass 2: the ranges are written first, and are part of what is signed.   *)

WithRange(f, contents, range) ==
  [f EXCEPT ![range + 1].range = <<0, contents, contents + 1, Len(f) - contents - 1>>]

Covered(f, r) == SubSeq(f, r[1] + 1, r[1] + r[2]) \o SubSeq(f, r[3] + 1, r[3] + r[4])

(* Mutant of InjectSignature: the digest is taken before the ranges are    *)
(* written.                                                                *)
InjectDigestFirst(f, contents, range, serial) ==
  LET ranged == WithRange(f, contents, range) IN
  [signed |-> [ranged EXCEPT ![contents + 1].cms = Cms(serial, 0)],
   digest |-> Covered(f, ranged[range + 1].range)]

InjectSignature(f, contents, range, serial) ==
  LET ranged == WithRange(f, contents, range) IN
  [signed |-> [ranged EXCEPT ![contents + 1].cms = Cms(serial, 0)],
   digest |-> Covered(ranged, ranged[range + 1].range)]

SignPdf(f, serial) ==
  LET buffer == SaveTo(Prepare(LoadMem(f), TopId(f)), Nowhere)
      contents == FindContentsHex(buffer)
  IN  InjectSignature(buffer, contents, FindByteRange(buffer, contents), serial)

SignPdfIncremental(f, serial) ==
  LET doc == Prepare(CarryOver(LoadMem(f)), TopId(f))
      buffer == SaveTo(doc, XRefStart(f))
      contents == FindContentsHex(buffer)
      range == FindByteRange(buffer, contents)
  IN  InjectSignature(f \o Rebase(buffer, Len(f)),
                      contents + Len(f), range + Len(f), serial)

(* Mutant of TimestampSigned: no check that the CMS fits its placeholder.  *)
TimestampOverflows(f, serial, token) ==
  LET last == SelectLastInSeq(f, LAMBDA c : c.k = "contents")
      widened == [f[last] EXCEPT !.cms = Cms(serial, token)]
  IN  [f EXCEPT ![last] = widened, ![last + 1] = widened]

(* The last /Contents of the file is the one that is widened.              *)
TimestampSigned(f, serial, token) ==
  LET last == SelectLastInSeq(f, LAMBDA c : c.k = "contents") IN
  [f EXCEPT ![last].cms = Cms(serial, token)]

(* compute_vri_key, of the bytes of a CMS alone or of a /Contents, where    *)
(* zeros follow them: it keeps the two apart.                              *)
Bare(cms) == [cms |-> cms, zeros |-> FALSE]
AsStored(cms) == [cms |-> cms, zeros |-> TRUE]

(* The new /DSS hides any earlier one.                                     *)
WithStore(catalog, dss, key) ==
  [id \in {Catalog, dss} |->
     IF id = Catalog THEN [catalog EXCEPT !.dss = dss] ELSE [vri |-> key]]

EmbedDssIncremental(f, key) ==
  LET objects == WithStore(LoadMem(f)[Catalog], TopId(f) + 1, key)
  IN  f \o Rebase(SaveTo(objects, XRefStart(f)), Len(f))

-----------------------------------------------------------------------------
OriginalObjects(form, list, annots) ==
  LET in(at, place) == List(at, IF at = place THEN <<TextField>> ELSE << >>)
      needed == {Catalog, Page, TextField}
                \cup (IF form = "ref" THEN {FormDict} ELSE {})
                \cup (IF form # "none" /\ list = "ref" THEN {FieldsArray} ELSE {})
                \cup (IF annots = "ref" THEN {AnnotsArray} ELSE {})
      held == IF form = "inline" THEN in(list, "inline") ELSE List("none", << >>)
  IN  [id \in needed |->
         CASE id = Catalog -> [form |-> [at |-> form, fields |-> held], dss |-> 0]
           [] id = Page -> [annots |-> in(annots, "inline")]
           [] id = FormDict -> [fields |-> in(list, "inline")]
           [] id \in {FieldsArray, AnnotsArray} -> [ids |-> <<TextField>>]
           [] id = TextField -> [sig |-> 0]]

Original(form, list, annots) == SaveTo(OriginalObjects(form, list, annots), Nowhere)

Init == /\ \E l \in Layouts : file = Original(l[1], l[2], l[3])
        /\ digests = << >>
        /\ pending = NotHeld

Loads(f) == Catalog \in DOMAIN LoadMem(f)

CanSign == Len(digests) < MaxSignatures /\ Loads(file)
NextSerial == Len(digests) + 1

Sign == /\ CanSign
        /\ LET s == SignPdf(file, NextSerial) IN
           /\ file' = s.signed
           /\ digests' = Append(digests, s.digest)
        /\ UNCHANGED pending

SignIncremental == /\ CanSign
                   /\ Revisions(file) < MaxRevisions
                   /\ LET s == SignPdfIncremental(file, NextSerial) IN
                      /\ file' = s.signed
                      /\ digests' = Append(digests, s.digest)
                   /\ UNCHANGED pending

(* sign_pdf_pending_timestamp: the holder may go on working on the file.   *)
SignPending == /\ CanSign
               /\ pending = NotHeld
               /\ LET s == SignPdf(file, NextSerial) IN
                  /\ pending' = [signed |-> s.signed, serial |-> NextSerial]
                  /\ digests' = Append(digests, s.digest)
               /\ UNCHANGED file

(* PendingTimestamp::timestamped and ::long_term take the value and a      *)
(* token from an authority: empty (0), or over some signature.  A refusal  *)
(* leaves nothing but the file the holder had.                             *)
Stamps(token) == token # 0 /\ token = pending.serial

Stamped(token) == TimestampSigned(pending.signed, pending.serial, token)

(* Mutant of LongTermFile: the key is taken before the token is embedded.  *)
LongTermKeyedEarly(token) ==
  EmbedDssIncremental(Stamped(token), Bare(Cms(pending.serial, 0)))

LongTermFile(token) ==
  EmbedDssIncremental(Stamped(token), Bare(Cms(pending.serial, token)))

Release(token, delivered) ==
  /\ pending # NotHeld
  /\ file' = IF Stamps(token) THEN delivered ELSE file
  /\ pending' = NotHeld
  /\ UNCHANGED digests

Timestamped(token) == Release(token, Stamped(token))
LongTerm(token) == Release(token, LongTermFile(token))

(* embed_dss_incremental, called for a signature the file has, under the   *)
(* key of its raw /Contents.                                               *)
Signatures(objects) == {id \in DOMAIN objects : IsSig(objects[id])}

EmbedDss == /\ Revisions(file) < MaxRevisions
            /\ LET o == LoadMem(file) IN
               \E id \in Signatures(o) :
                  file' = EmbedDssIncremental(file, AsStored(o[id].cms))
            /\ UNCHANGED <<digests, pending>>

Next == \/ Sign
        \/ SignIncremental
        \/ SignPending
        \/ \E token \in 0 .. Len(digests) : Timestamped(token) \/ LongTerm(token)
        \/ EmbedDss

Spec == Init /\ [][Next]_vars

-----------------------------------------------------------------------------
(* What the readers of a file see.                                         *)

(* validate_one: the ranges are in the file, begin at its first byte, and  *)
(* hold what was signed.                                                   *)
Verifies(f, v) == /\ v.cms.serial \in DOMAIN digests
                  /\ v.range[1] = 0
                  /\ v.range[2] <= v.range[3]
                  /\ v.range[3] + v.range[4] <= Len(f)
                  /\ Covered(f, v.range) = digests[v.cms.serial]

Verified(f, o) == {id \in Signatures(o) : Verifies(f, o[id])}

FieldList(o) ==
  LET form == o[Catalog].form IN
  IF form.at = "ref" THEN o[FormDict].fields ELSE form.fields

Fields(o) == LET l == FieldList(o) IN
             ToSet(IF l.at = "ref" THEN o[FieldsArray].ids ELSE l.ids)

Annots(o) == LET l == o[Page].annots IN
             ToSet(IF l.at = "ref" THEN o[AnnotsArray].ids ELSE l.ids)

(* signature_fields: the walk over /Fields, and only when that finds       *)
(* nothing, a scan of all objects.                                         *)
Walked(o) == {o[id].sig : id \in Fields(o)} \ {0}

SignatureFields(o) ==
  IF FieldList(o).at = "none" THEN {}
  ELSE IF Walked(o) = {} THEN Signatures(o) ELSE Walked(o)

(* validate_signatures finds valid what verifies of the listed signatures; *)
(* the others may be intact all the same.                                  *)
CmsOf(o, ids) == {o[id].cms : id \in ids}

(* /Fields is an object of its own, which carry_over_structure leaves.     *)
IsLoose(o) == FieldList(o).at = "ref"

Reported(f, o) == [intact |-> CmsOf(o, Verified(f, o)),
                   valid |-> CmsOf(o, Verified(f, o) \cap SignatureFields(o)),
                   loose |-> IsLoose(o)]

(* The file is loaded once, and what is reported of it is read from that.  *)
Shown(f) == CHOOSE r \in {Reported(f, o) : o \in {LoadMem(f)}} : TRUE

NoneHeld == [serial |-> 0, loose |-> FALSE]

-----------------------------------------------------------------------------
(* The shapes of the three variables: a file is revisions, each with its   *)
(* table and startxref behind its objects (writer.rs save_internal), and a *)
(* held signature is one that was made (sign.rs PendingTimestamp).         *)
TypeOK ==
  /\ \A f \in {file} \cup (IF pending = NotHeld THEN {} ELSE {pending.signed}) :
       /\ Revisions(f) \in 1 .. MaxRevisions
       /\ \A i \in DOMAIN f :
            /\ f[i].k \in {"object", "range", "contents", "xref", "startxref"}
            /\ f[i].k = "startxref" => f[i - 1].k = "xref"
            /\ f[i].k = "range" => f[i + 1].k = "contents"
            /\ f[i].k = "contents" => f[i - 1].k = "range"
       /\ f[Len(f)].k = "startxref"
  /\ Len(digests) \in 0 .. MaxSignatures
  /\ pending.serial \in 0 .. Len(digests)

(* A reader that starts at the last startxref and follows /Prev finds, for *)
(* every object ever written, the newest cell that holds it: what rebase   *)
(* in increment.rs and the /Prev of new_from_prev are for.                 *)
NewestIsFound ==
  LET found == Entries(file) IN
  \A i \in DOMAIN file :
     file[i].k \in {"object", "range"} =>
        /\ file[i].id \in DOMAIN found
        /\ found[file[i].id] + 1 = SelectLastInSeq(file, LAMBDA c : Begins(c, file[i].id))

(* Signatures survive as SignedHistory says: a rewrite leaves its own, a   *)
(* revision adds to the intact ones, and to those that validate_signatures *)
(* finds valid unless it loses the list of the fields, a validation store  *)
(* costs none, and a held signature is delivered only under a token that   *)
(* stamps it (sign.rs sign_pdf_incremental, carry_over_structure,          *)
(* timestamp_signed; ltv.rs embed_dss_incremental; lib.rs:181-192).        *)
History == INSTANCE SignedHistory WITH
             doc <- Shown(file),
             made <- Len(digests),
             held <- IF pending = NotHeld THEN NoneHeld
                     ELSE [serial |-> pending.serial,
                           loose |-> IsLoose(LoadMem(pending.signed))]
HistorySpec == History!Spec

(* The validation data in the file is filed under a CMS that it holds, the *)
(* one after the token was embedded, with the zeros behind it or without,  *)
(* and a later signature or rewrite does not orphan it (sign.rs            *)
(* add_validation_store_for_chain).                                        *)
StoreNamesASignature ==
  LET o == LoadMem(file) IN
  o[Catalog].dss # 0 => \E id \in Signatures(o) : o[id].cms = o[o[Catalog].dss].vri.cms

(* "The VRI key is the uppercase hex SHA-1 of the raw /Contents bytes"     *)
(* (ltv.rs:128), whose zeros count (352-360): a reader that hashes what    *)
(* the file holds finds the validation data of the signature.              *)
StoreIsFoundByContents ==
  LET o == LoadMem(file) IN
  o[Catalog].dss # 0 =>
    \E id \in Signatures(o) : o[o[Catalog].dss].vri = AsStored(o[id].cms)

(* What every operation keeps of the lists of the file it works on: the    *)
(* fields of the form when /Fields is direct or the file is rewritten, the *)
(* annotations when /Annots is direct (sign.rs ensure_acroform, 379-391).  *)
Keeps(old, new) ==
  LET o == LoadMem(old)
      n == LoadMem(new)
  IN  /\ FieldList(o).at # "ref" \/ Revisions(new) = 1 => Fields(o) \subseteq Fields(n)
      /\ o[Page].annots.at # "ref" => Annots(o) \subseteq Annots(n)

ListsAreKept ==
  [][IF pending = NotHeld
       THEN Keeps(file, file') /\ (pending' # NotHeld => Keeps(file, pending'.signed))
       ELSE file' # file /\ pending' = NotHeld => Keeps(pending.signed, file')]_vars

(* "Sign a PDF incrementally (append-only, preserves existing signatures)" *)
(* (sign.rs:83): what validate_signatures is shown of a file, it is shown  *)
(* of every longer one.                                                    *)
SignaturesStayListed ==
  [][IsPrefix(file, file') =>
       SignatureFields(LoadMem(file)) \subseteq SignatureFields(LoadMem(file'))]_vars
=============================================================================
