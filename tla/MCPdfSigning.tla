---------------------------- MODULE MCPdfSigning -----------------------------
EXTENDS PdfSigning

(* No form; a form in the catalog or an object of its own, and in each the *)
(* three ways to keep /Fields.  The annotations, which no decision about   *)
(* the form reads, take their three places among them.                     *)
MCLayouts == {<<"none", "none", "ref">>,
              <<"inline", "none", "none">>, <<"inline", "inline", "inline">>,
              <<"inline", "ref", "ref">>,
              <<"ref", "none", "inline">>, <<"ref", "inline", "ref">>,
              <<"ref", "ref", "inline">>}
=============================================================================
