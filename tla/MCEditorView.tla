----------------------------- MODULE MCEditorView -----------------------------
(* The mention picker alone: "@" after a blank or at the start, and any    *)
(* character of a word in the query.                                       *)
EXTENDS EditorView

MCWidth == 1
MCBounded == TRUE
MCChars == {"word", "blank", "trigger"}
===============================================================================
