---------------------------- MODULE MCUndoHistory ----------------------------
(***************************************************************************)
(* Lines with one content beside the empty line; a buffer loaded with one  *)
(* line and no final end-of-line, or with two lines and one.               *)
(***************************************************************************)
EXTENDS UndoHistory

CONSTANT x

MCLine == {x, EMPTY}
MCFiles == {[lines |-> <<x>>, eol |-> FALSE], [lines |-> <<x, EMPTY>>, eol |-> TRUE]}
=============================================================================
