----------------------------- MODULE MCDrawings -----------------------------
(* Small documents for Drawings. *)
EXTENDS Drawings

CONSTANTS d1, d2

OneSight == {{1, 2}}
DocSymmetry == Permutations(Docs)

\* What is done together: drawing and undoing on several pages; saving while one
\* draws, and goes to other tabs; the other kinds of marks; undoing after a save.
SmallSessions ==
  {{"pen", "eraser", "undo", "page"}, {"pen", "save", "tabs"},
   {"text", "sign", "highlight", "undo", "clear"}, {"pen", "save", "undo"},
   {"text", "sign", "save", "tabs"}}
=============================================================================
