----------------------------- MODULE MCNoteRing -----------------------------
(***************************************************************************)
(* NoteRing with a ring of eight cells and messages of three, so that the  *)
(* third message wraps round the end of the buffer.                        *)
(***************************************************************************)
EXTENDS NoteRing

\* Two messages fit: the third has to wait for the reader, or is refused.
EightCells == Rounded(6)
ThreeCells == 3
=============================================================================
