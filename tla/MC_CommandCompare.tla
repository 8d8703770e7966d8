------------------------ MODULE MC_CommandCompare ------------------------
(***************************************************************************)
(* Command texts of up to three characters over a plain character, '$',  *)
(* a single quote and a backslash.                                         *)
(***************************************************************************)
EXTENDS CommandCompare

CONSTANTS cx, cdollar, cquote, cbackslash

MCChars == {cx, cdollar, cquote, cbackslash}
=============================================================================
