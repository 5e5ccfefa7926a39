----------------------------- MODULE MCConsole ------------------------------
(***************************************************************************)
(* A screen of three rows below the title and two columns, one glyph that  *)
(* is not blank, up to five rows of text between two clears.               *)
(***************************************************************************)
EXTENDS Console

MCGlyphs == {"a", BLANK}
MCTitle == [x \in Cols |-> "a"]

=============================================================================
