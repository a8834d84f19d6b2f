---------------------------- MODULE EditHistory -----------------------------
(***************************************************************************)
(* An OpenDocument of pdf-desktop (crates/pdf-desktop/src/state.rs,        *)
(* commands.rs): the bytes of a document, the parsed view of them, the     *)
(* stacks of undo and redo, and the file.                                  *)
(*                                                                         *)
(* Every command holds the mutex of the documents from its first line to   *)
(* its last, so it is one action.  A document is one of a few contents;    *)
(* what an edit makes of it, and whether it fails, are choices.  One       *)
(* handle is modelled: a command touches no other.                         *)
(***************************************************************************)
EXTENDS Integers, SequencesExt

CONSTANTS Contents,     \* the bytes a document can have
          Reloadable,   \* those PdfDocument::open accepts: no password
          MaxUndo,      \* MAX_UNDO_STACK
          Nothing,      \* no document behind the handle
          Torn          \* a file that fs::write left half written

ASSUME EditAssumption == /\ Reloadable \subseteq Contents
                         /\ MaxUndo \in Nat \ {0}
                         /\ Nothing \notin Contents
                         /\ Torn \notin Contents

VARIABLES raw,    \* raw_bytes
          doc,    \* the bytes the PdfDocument was parsed from
          saved,  \* saved_bytes
          undo,   \* undo_stack
          redo,   \* redo_stack
          file    \* what stands at path

vars == <<raw, doc, saved, undo, redo, file>>

IsOpen == raw # Nothing

Init == /\ raw = Nothing /\ doc = Nothing /\ saved = Nothing
        /\ undo = <<>> /\ redo = <<>>
        /\ file \in Contents

(* open_document, with a password or without.                              *)
OpenDocument == /\ ~IsOpen
                /\ \E c \in Contents : /\ file \in {c, Torn}
                                       /\ raw' = c /\ doc' = c /\ saved' = c
                /\ undo' = <<>> /\ redo' = <<>>
                /\ UNCHANGED file

CloseDocument == /\ IsOpen
                 /\ raw' = Nothing /\ doc' = Nothing /\ saved' = Nothing
                 /\ undo' = <<>> /\ redo' = <<>>
                 /\ UNCHANGED file

(* The view keeps the bytes it has when the new ones do not open.          *)
Reload == doc' = IF raw' \in Reloadable THEN raw' ELSE doc

(* The oldest snapshot makes room.                                         *)
Capped(stack) == IF Len(stack) > MaxUndo THEN Tail(stack) ELSE stack

(* Mutant of PushUndo: the cap is looked at before the push.               *)
PushUndoCapsFirst ==
  /\ undo' = Append(Capped(undo), raw)
  /\ redo' = <<>>

(* Mutant of PushUndo: what was undone stays to be redone.                 *)
PushUndoKeepsRedo ==
  /\ undo' = Capped(Append(undo, raw))
  /\ UNCHANGED redo

(* push_undo: a new action ends what could be redone.                      *)
PushUndo == /\ undo' = Capped(Append(undo, raw))
            /\ redo' = <<>>

(* add_annotation and delete_annotation.  The snapshot is taken before     *)
(* anything is known to work: an edit that fails keeps it.                 *)
Edit == /\ IsOpen
        /\ PushUndo
        /\ \E c \in Contents : raw' = c
        /\ Reload
        /\ UNCHANGED <<saved, file>>

EditFails == /\ IsOpen
             /\ PushUndo
             /\ UNCHANGED <<raw, doc, saved, file>>

Undo == /\ undo # <<>>
        /\ redo' = Append(redo, raw)
        /\ raw' = Last(undo)
        /\ undo' = Front(undo)
        /\ Reload
        /\ UNCHANGED <<saved, file>>

(* No cap here: what is pushed was popped before.                          *)
Redo == /\ redo # <<>>
        /\ undo' = Append(undo, raw)
        /\ raw' = Last(redo)
        /\ redo' = Front(redo)
        /\ Reload
        /\ UNCHANGED <<saved, file>>

(* fs::write truncates before it writes, so it may leave a torn file; the  *)
(* command returns then, before saved_bytes is set.                        *)
SaveDocument == /\ IsOpen
                /\ \/ file' = raw /\ saved' = raw
                   \/ file' = Torn /\ UNCHANGED saved
                /\ UNCHANGED <<raw, doc, undo, redo>>

(* save_document_as onto the path of the document, as the dialog offers:   *)
(* saved_bytes is not set.  Onto another path it changes nothing here.     *)
SaveDocumentAs == /\ IsOpen
                  /\ file' \in {raw, Torn}
                  /\ UNCHANGED <<raw, doc, saved, undo, redo>>

Next == \/ OpenDocument \/ CloseDocument
        \/ Edit \/ EditFails
        \/ Undo \/ Redo
        \/ SaveDocument \/ SaveDocumentAs

Spec == Init /\ [][Next]_vars

-----------------------------------------------------------------------------
(* Types.  The two stacks together never hold more than MAX_UNDO_STACK     *)
(* snapshots, though only push_undo looks at it (state.rs:38-45,           *)
(* commands.rs:657-688).                                                   *)
TypeOK == /\ raw \in Contents \cup {Nothing}
          /\ doc \in Contents \cup {Nothing}
          /\ saved \in Contents \cup {Nothing}
          /\ undo \in Seq(Contents) /\ redo \in Seq(Contents)
          /\ raw = Nothing => undo = <<>> /\ redo = <<>>
          /\ Len(undo) + Len(redo) <= MaxUndo
          /\ file \in Contents \cup {Torn}

(* The past, the present and the undone future, oldest first.              *)
Versions == Append(undo, raw) \o Reverse(redo)

History == INSTANCE VersionLine
             WITH line <- Versions, cursor <- Len(undo) + 1,
                  shown <- doc, Limit <- MaxUndo

(* Undo and redo walk a line of versions without changing it, an edit      *)
(* drops only what is ahead and what is too old, and the view and the file *)
(* follow (state.rs:30-45, commands.rs:404-700).                           *)
HistorySpec == History!Spec
=============================================================================
