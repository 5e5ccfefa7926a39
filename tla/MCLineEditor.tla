---------------------------- MODULE MCLineEditor ----------------------------
(***************************************************************************)
(* A console of two rows below the title and six columns, a prompt of one  *)
(* character, lines of up to six: a line can reach the right edge and the  *)
(* buffer's end.  A history of two, three command names of which two share *)
(* a prefix.                                                               *)
(***************************************************************************)
EXTENDS LineEditor

MCGlyphs == {"c", "C", "V", ">", "t", BLANK}
MCTitle == [x \in Cols |-> "t"]
MCPrompt == <<">">>
MCCommands == {<<"C", "V", "V">>, <<"V", "C">>, <<"V", "V", "V">>}
MCUpper == [g \in Glyphs |-> IF g = "c" THEN "C" ELSE g]
MCTyped == {"c", "V"}
MCOutputs == {<< >>, <<NL, "t">>}

=============================================================================
