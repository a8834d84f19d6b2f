---------------------------- MODULE VersionLine -----------------------------
(***************************************************************************)
(* What the editor of pdf-desktop promises the user of a document: a line  *)
(* of versions with a cursor on the present one.  Undo and redo move the   *)
(* cursor and change no version; an edit replaces what is ahead of the     *)
(* cursor; only versions more than Limit behind it are forgotten.          *)
(***************************************************************************)
EXTENDS Integers, Sequences

CONSTANTS Contents,     \* what a document can be
          Reloadable,   \* those that open without a password and parse
          Limit,        \* how far back undo reaches
          Nothing,      \* no document is open
          Torn          \* a file that was written in part

VARIABLES line, cursor,
          shown,        \* the version on the screen
          saved,        \* the version the dirty flag compares with
          file          \* what stands in the file

vars == <<line, cursor, shown, saved, file>>

Present == line[cursor]

Init == /\ line = <<Nothing>> /\ cursor = 1
        /\ shown = Nothing /\ saved = Nothing
        /\ file \in Contents

(* The screen follows the present version whenever that can be shown.      *)
Show == shown' = IF Present' \in Reloadable THEN Present' ELSE shown

(* The last n elements of s. *)
Newest(s, n) == IF Len(s) <= n THEN s ELSE SubSeq(s, Len(s) - n + 1, Len(s))

Open == /\ Present = Nothing
        /\ \E c \in Contents : /\ file \in {c, Torn}
                               /\ line' = <<c>> /\ cursor' = 1
                               /\ shown' = c /\ saved' = c
        /\ UNCHANGED file

(* An edit that fails commits the present version a second time.           *)
Commit == /\ Present # Nothing
          /\ \E c \in Contents :
               /\ line' = Newest(Append(SubSeq(line, 1, cursor), c), Limit + 1)
               /\ cursor' = Len(line')
               /\ IF c = Present THEN shown' \in {shown, c} ELSE Show
          /\ UNCHANGED <<saved, file>>

Move(to) == /\ to \in 1 .. Len(line)
            /\ cursor' = to
            /\ UNCHANGED <<line, saved, file>>
            /\ Show

Undo == Move(cursor - 1)
Redo == Move(cursor + 1)

Save == /\ Present # Nothing
        /\ \/ file' = Present /\ saved' = Present
           \/ file' = Torn /\ UNCHANGED saved
        /\ UNCHANGED <<line, cursor, shown>>

(* A copy is written over the file: it counts as no save.                  *)
SaveCopy == /\ Present # Nothing
            /\ file' \in {Present, Torn}
            /\ UNCHANGED <<line, cursor, shown, saved>>

Close == /\ Present # Nothing
         /\ line' = <<Nothing>> /\ cursor' = 1
         /\ shown' = Nothing /\ saved' = Nothing
         /\ UNCHANGED file

Next == Open \/ Commit \/ Undo \/ Redo \/ Save \/ SaveCopy \/ Close

Spec == Init /\ [][Next]_vars
=============================================================================
