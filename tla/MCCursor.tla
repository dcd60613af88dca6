------------------------------ MODULE MCCursor ------------------------------
(* The instance of Cursor with two cursors in exhaust mode.                *)
EXTENDS Cursor

NoHistory == {<< >>}
============================================================================
