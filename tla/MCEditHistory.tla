--------------------------- MODULE MCEditHistory ----------------------------
EXTENDS EditHistory

(* An encrypted document opens with its password and reloads without it.   *)
MCReloadable == Contents \ {"encrypted"}
=============================================================================
