------------------------------ MODULE MCJournal ------------------------------
\* Four files, two texts, and operations shaped like the program's: a write of a page
\* and its attachment, whose embed writes the page again; a page move with a renamed
\* attachment; a page forgotten with its attachment. A write has no try block, a move has
\* one around its record only.
EXTENDS Journal, TLC

CONSTANTS fa, fb, fc, fd, t1, t2, edit, move, drop

step(op, p, q, t) == [op |-> op, path |-> p, to |-> q, text |-> t]

MCPlan ==
  edit :> <<step("write", fa, fa, t2), step("attach", fb, fb, t1)>> @@
  move :> <<step("move", fb, fc, Absent), step("remove", fa, fa, Absent), step("create", fd, fd, t2)>> @@
  drop :> <<step("delete", fd, fd, Absent), step("trash", fc, fc, Absent)>>

MCGuarded == edit :> 3 @@ move :> 3 @@ drop :> 0

MCDisks == {fa :> t1 @@ fb :> Absent @@ fc :> Absent @@ fd :> Absent}

\* With a file where the move will put its attachment.
MCFullDisks == {fa :> t1 @@ fb :> t1 @@ fc :> t2 @@ fd :> Absent}

MCTwoPages == edit :> <<step("write", fa, fa, t2), step("write", fb, fb, t1)>>

MCOnlyMove == move :> MCPlan[move]

MCNoTry == [c \in Changes |-> 3]

\* The view of the main run: two states that differ only in history nothing asks for
\* are one. That is, of an operation that will not be recorded, its rows; and of a
\* change already disturbed for good, by whom, and what its rows made of its files.
poisoned(c) == disturbed[c] \cap {"editor", "fault", "overlap", "undo", "replaced"} # {}

judged(c) == IF poisoned(c) THEN [past |-> {"editor"}, images |-> <<>>]
             ELSE [past |-> disturbed[c], images |-> images[c]]

MCView ==
  <<disk, trash, writer, status, undo, used, [c \in Changes |->
      CASE writer[c] = "lost"    -> <<>>
        [] writer[c] = "writing" -> <<rows[c], images[c][1], judged(c)>>
        [] OTHER                 -> <<left[c], rows[c], judged(c)>>]>>
=============================================================================
