------------------------------- MODULE Journal -------------------------------
(***************************************************************************)
(* The change journal (core/src/write/journal.ts): operations read their    *)
(* pages, write files one after another and record the change afterwards,   *)
(* or put the files back when a step fails inside their try block; undo     *)
(* checks that every file still has its post-change state, reverses the     *)
(* files in reverse order and marks the change undone, or rolls its         *)
(* reversals back.                                                          *)
(*                                                                          *)
(* A step between two awaits is one action. SQLite transactions are atomic. *)
(* Editors outside the program, failing file operations and crashes of the  *)
(* process are actions of the environment, each with a bound.               *)
(***************************************************************************)
EXTENDS Naturals, Sequences

CONSTANTS
  Paths,      \* files of the knowledge base
  Texts,      \* file contents
  Absent,     \* no file, no text
  Changes,    \* mutating operations, at most one journal change each
  Disks,      \* initial contents of the knowledge base
  Plan,       \* the file steps of each operation: [Changes -> Seq(Step)]
  Guarded,    \* how many of them come before its try block: [Changes -> Nat]
  Undoers,    \* concurrent calls of undo
  Twice,      \* BOOLEAN: two calls may undo one change at the same time
  MaxEdits, MaxFaults, MaxCrashes   \* bounds on the environment

Content == Texts \cup {Absent}

\* "write" replaces or creates a text and keeps what it found there. "create" writes
\* the page a move creates, recorded as if nothing had been there. "remove" deletes the
\* moved page and "delete" puts a forgotten one into the trash; both record the text
\* the operation read when it began. "attach" copies a binary in, "move" renames one,
\* "trash" puts one into the trash. The steps are in the order of their rows, in which
\* a moved page is removed before its new page is written.
Step == [op : {"write", "create", "remove", "delete", "attach", "move", "trash"},
         path : Paths, to : Paths, text : Content]

\* The files a step touches, and those it creates without looking what is there.
StepPaths(s) == {s.path} \cup (IF s.op = "move" THEN {s.to} ELSE {})

Landing(s) == CASE s.op = "move" -> {s.to} [] s.op \in {"attach", "create"} -> {s.path} [] OTHER -> {}

\* How a change can come to be disturbed, other than by another change.
Reasons == {"editor", "crash", "fault", "replaced", "overlap", "undo"}

\* A change has a row, and at most one for a file: a second write of a text by the
\* same operation replaces the "after" of its row (Rewrite). Only files that are
\* created unseen may land on one another.
ASSUME PlanAssumption ==
  /\ Absent \notin Texts \cup Changes /\ Changes \cap Reasons = {}
  /\ Disks \subseteq [Paths -> Content]
  /\ Plan \in [Changes -> Seq(Step)] /\ Guarded \in [Changes -> Nat]
  /\ \A c \in Changes : Plan[c] # <<>> /\ \A i \in DOMAIN Plan[c] :
       /\ Plan[c][i].op \in {"write", "create", "attach"} => Plan[c][i].text \in Texts
       /\ Plan[c][i].op = "move" => Plan[c][i].to # Plan[c][i].path
       /\ \A j \in DOMAIN Plan[c] \ {i} :
            StepPaths(Plan[c][i]) \cap StepPaths(Plan[c][j])
              \subseteq Landing(Plan[c][i]) \cap Landing(Plan[c][j])

VARIABLES
  disk,       \* contents of the knowledge base
  trash,      \* snapshots, per change
  writer,     \* progress of each operation
  rows,       \* its files, in order: the change_files rows once recorded
  left,       \* how many of them the catch block of a failed one has still to put back
  status,     \* changes.status
  undo,       \* the undo calls
  used,       \* edits, faults and crashes so far
  images,     \* the change's files as its operation read them (images[c][1]), and
              \* history: what its first rows have made of them, one row after another
  disturbed   \* history: who else touched a change's files since it began, and how
              \* it came to hold what its rows cannot restore

vars == <<disk, trash, writer, rows, left, status, undo, used, images, disturbed>>

\* change_files; hash is after_hash, computed when the change is recorded.
Row == [kind : {"text", "binary", "move", "trash"}, path : Paths, to : Paths,
        before : Content, after : Content, hash : Content]

PathsOf(c) == UNION {StepPaths(Plan[c][i]) : i \in DOMAIN Plan[c]}

View(c, d) == [p \in PathsOf(c) |-> d[p]]

IdleUndo == [pc |-> "idle", change |-> Absent, i |-> 0, applied |-> <<>>]

Begun(d, ps) == writer[d] # "idle" /\ PathsOf(d) \cap ps # {}

\* A write to the paths ps by who disturbs every other change that has begun;
\* only one on top of a recorded change can be taken off it again.
Disturb(who, ps) ==
  [d \in Changes |-> IF d # who /\ Begun(d, ps)
                     THEN disturbed[d] \cup {who}
                            \cup (IF writer[d] = "recorded" THEN {} ELSE {"overlap"})
                     ELSE disturbed[d]]

\* Reversing a change disturbs those that did not already lie under it.
Uncover(c, ps) ==
  [d \in Changes |-> IF d # c /\ Begun(d, ps) /\ c \notin disturbed[d]
                     THEN disturbed[d] \cup {"undo"} ELSE disturbed[d]]

-----------------------------------------------------------------------------
Init ==
  /\ disk \in Disks
  /\ trash = [c \in Changes |-> [p \in Paths |-> Absent]]
  /\ writer = [c \in Changes |-> "idle"]
  /\ rows = [c \in Changes |-> <<>>]
  /\ left = [c \in Changes |-> 0]
  /\ status = [c \in Changes |-> "none"]
  /\ undo = [u \in Undoers |-> IdleUndo]
  /\ used = [edits |-> 0, faults |-> 0, crashes |-> 0]
  /\ images = [c \in Changes |-> <<>>]
  /\ disturbed = [c \in Changes |-> {}]

\* An operation begins: it reads its pages, awaits before it writes the first file.
Read(c) ==
  /\ writer[c] = "idle"
  /\ \A i \in DOMAIN Plan[c] :
       Plan[c][i].op \in {"remove", "delete"} => disk[Plan[c][i].path] # Absent
  /\ writer' = [writer EXCEPT ![c] = "writing"]
  /\ images' = [images EXCEPT ![c] = <<View(c, disk)>>]
  /\ UNCHANGED <<disk, trash, rows, left, status, undo, used, disturbed>>

\* The files after a step. One whose file is not there fails; to remove a file that
\* is not there is no failure. Neither a rename, nor the copy of an attachment, nor the
\* write of a moved page looks at its destination: it replaces the file that is there.
Possible(s) == s.op \in {"delete", "move", "trash"} => disk[s.path] # Absent

Stepped(s) ==
  CASE s.op \in {"write", "create", "attach"} -> [disk EXCEPT ![s.path] = s.text]
    [] s.op \in {"remove", "delete", "trash"} -> [disk EXCEPT ![s.path] = Absent]
    [] s.op = "move" -> [disk EXCEPT ![s.to] = disk[s.path], ![s.path] = Absent]

Replaces(s) == \E p \in Landing(s) : disk[p] # Absent

\* Its ChangeFile: texts are kept in the row, a trashed binary in the trash.
KindOf(s) ==
  CASE s.op \in {"write", "create", "remove", "delete"} -> "text"
    [] s.op = "attach" -> "binary"
    [] s.op \in {"move", "trash"} -> s.op

RowOf(c, s) ==
  [kind   |-> KindOf(s), path |-> s.path, to |-> s.to,
   before |-> CASE s.op = "write" -> disk[s.path]
                [] s.op \in {"remove", "delete"} -> images[c][1][s.path]
                [] OTHER -> Absent,
   after  |-> IF s.op \in {"write", "create"} THEN s.text ELSE Absent,
   hash   |-> Absent]

NextStep(c) == Plan[c][Len(rows[c]) + 1]

\* The next file step of an operation.
WriteStep(c) ==
  LET s == NextStep(c) IN
  /\ writer[c] = "writing"
  /\ Len(rows[c]) < Len(Plan[c])
  /\ Possible(s)
  /\ disk' = Stepped(s)
  /\ trash' = IF s.op \in {"delete", "trash"} THEN [trash EXCEPT ![c][s.path] = disk[s.path]] ELSE trash
  /\ rows' = [rows EXCEPT ![c] = Append(@, RowOf(c, s))]
  /\ images' = [images EXCEPT ![c] = Append(@, View(c, Stepped(s)))]
  /\ disturbed' = [Disturb(c, StepPaths(s)) EXCEPT ![c] =
                     IF Replaces(s) THEN @ \cup {"replaced"} ELSE @]
  /\ UNCHANGED <<writer, left, status, undo, used>>

\* A page written a second time: the embeds of what has been attached to it since, or
\* the event line of a ledger the change has written already. Its row keeps the text
\* before the first write and gets the one after the last.
Rewrite(c, i, t) ==
  LET p == rows[c][i].path IN
  /\ writer[c] = "writing" /\ Plan[c][i].op = "write"
  /\ disk[p] \notin {Absent, t}
  /\ disk' = [disk EXCEPT ![p] = t]
  /\ rows' = [rows EXCEPT ![c][i].after = t]
  /\ images' = [images EXCEPT ![c] = [k \in DOMAIN images[c] |->
                  IF k > i THEN [images[c][k] EXCEPT ![p] = t] ELSE images[c][k]]]
  /\ disturbed' = Disturb(c, {p})
  /\ UNCHANGED <<trash, writer, left, status, undo, used>>

Faulty == used.faults < MaxFaults /\ used' = [used EXCEPT !.faults = @ + 1]

\* A step, or the record, throws. Before the try block of the operation, or without one,
\* its files stay as they are; else the catch block puts them back.
Fail(c) ==
  /\ writer[c] = "writing"
  /\ \/ Len(rows[c]) < Len(Plan[c]) /\ ~Possible(NextStep(c)) /\ UNCHANGED used
     \/ Faulty
  /\ writer' = [writer EXCEPT ![c] = IF Len(rows[c]) >= Guarded[c] THEN "failed" ELSE "lost"]
  /\ left' = [left EXCEPT ![c] = Len(rows[c])]
  /\ UNCHANGED <<disk, trash, rows, status, undo, images, disturbed>>

\* Wrong, and used by nothing: a moved attachment put back like a created one.
Returned_NoRename(c, i) == [disk EXCEPT ![rows[c][i].path] = rows[c][i].before]

\* The catch block, the last file first: a rename back, out of the trash too, or
\* restoreFile. One that throws leaves the files before it.
Returnable(c, i) ==
  CASE Plan[c][i].op = "move" -> disk[rows[c][i].to] # Absent
    [] Plan[c][i].op \in {"delete", "trash"} -> trash[c][rows[c][i].path] # Absent
    [] OTHER -> TRUE

Returned(c, i) ==
  LET r == rows[c][i] IN
  CASE Plan[c][i].op = "move" -> [disk EXCEPT ![r.path] = disk[r.to], ![r.to] = Absent]
    [] Plan[c][i].op \in {"delete", "trash"} -> [disk EXCEPT ![r.path] = trash[c][r.path]]
    [] OTHER -> [disk EXCEPT ![r.path] = r.before]

RowPaths(r) == {r.path} \cup (IF r.kind = "move" THEN {r.to} ELSE {})

PutBack(c) ==
  LET i == left[c] IN
  /\ writer[c] = "failed" /\ i > 0
  /\ \/ /\ Returnable(c, i)
        /\ disk' = Returned(c, i)
        /\ trash' = IF Plan[c][i].op \in {"delete", "trash"}
                    THEN [trash EXCEPT ![c][rows[c][i].path] = Absent] ELSE trash
        /\ disturbed' = Uncover(c, RowPaths(rows[c][i]))
        /\ left' = [left EXCEPT ![c] = i - 1]
        /\ UNCHANGED <<writer, used>>
     \/ /\ (~Returnable(c, i) /\ UNCHANGED used) \/ Faulty
        /\ writer' = [writer EXCEPT ![c] = "lost"]
        /\ UNCHANGED <<disk, trash, left, disturbed>>
  /\ UNCHANGED <<rows, status, undo, images>>

\* record: one transaction after the writes. after_hash of a moved or attached
\* file is read from disk now.
\* Wrong, and used by nothing: an attachment's bytes are not hashed.
AfterHash_TextOnly(r) == IF r.kind = "move" THEN disk[r.to] ELSE r.after

AfterHash(r) ==
  CASE r.kind = "move" -> disk[r.to]
    [] r.kind = "binary" -> disk[r.path]
    [] OTHER -> r.after

Record(c) ==
  /\ writer[c] = "writing"
  /\ Len(rows[c]) = Len(Plan[c])
  /\ writer' = [writer EXCEPT ![c] = "recorded"]
  /\ status' = [status EXCEPT ![c] = "applied"]
  /\ rows' = [rows EXCEPT ![c] = [i \in DOMAIN @ |-> [@[i] EXCEPT !.hash = AfterHash(rows[c][i])]]]
  /\ UNCHANGED <<disk, trash, left, undo, used, images, disturbed>>

-----------------------------------------------------------------------------
\* undo reads the change and its rows; an undone change is refused.
BeginUndo(u, c) ==
  /\ undo[u].pc = "idle"
  /\ Twice \/ \A v \in Undoers : undo[v].change # c
  /\ status[c] = "applied"
  /\ undo' = [undo EXCEPT ![u] = [IdleUndo EXCEPT !.pc = "preflight", !.change = c,
                                                  !.i = Len(rows[c])]]
  /\ UNCHANGED <<disk, trash, writer, rows, left, status, used, images, disturbed>>

\* Wrong, and used by nothing: the rows in the order they were written.
CurrentRow_Forward(u) ==
  LET rs == rows[undo[u].change] IN rs[Len(rs) + 1 - undo[u].i]

CurrentRow(u) == rows[undo[u].change][undo[u].i]

\* #undoConflicts for one row: the post-change state, and the snapshot.
PostState(c, r) ==
  CASE r.kind = "move"  -> disk[r.path] = Absent /\ disk[r.to] # Absent /\ disk[r.to] = r.hash
    [] r.kind = "trash" -> disk[r.path] = Absent /\ trash[c][r.path] # Absent
    [] OTHER            -> disk[r.path] = r.hash

\* Every row is checked before any file is reversed; a conflict ends the call.
\* (History: to judge a change whose undo was cut short by what others have
\* written over it since is to disturb it.)
Preflight(u) ==
  LET c == undo[u].change
      i == undo[u].i
  IN
  /\ undo[u].pc = "preflight"
  /\ undo' = [undo EXCEPT ![u] =
       IF ~PostState(c, CurrentRow(u)) THEN IdleUndo
       ELSE IF i > 1 THEN [@ EXCEPT !.i = i - 1]
       ELSE [@ EXCEPT !.pc = "reversing", !.i = Len(rows[c])]]
  /\ disturbed' = IF "crash" \in disturbed[c] /\ disturbed[c] # {"crash"}
                  THEN [disturbed EXCEPT ![c] = @ \cup {"undo"}] ELSE disturbed
  /\ UNCHANGED <<disk, trash, writer, rows, left, status, used, images>>

\* The operations of #reverseFile that cannot succeed: a rename or a copy of a
\* missing file, and reading the bytes of a missing binary for the rollback.
Reversible(c, r) ==
  CASE r.kind = "move"   -> disk[r.to] # Absent
    [] r.kind = "trash"  -> trash[c][r.path] # Absent
    [] r.kind = "binary" -> disk[r.path] # Absent
    [] OTHER             -> TRUE

Reversed(c, r) ==
  CASE r.kind = "move"  -> [disk EXCEPT ![r.path] = disk[r.to], ![r.to] = Absent]
    [] r.kind = "trash" -> [disk EXCEPT ![r.path] = trash[c][r.path]]
    [] OTHER            -> [disk EXCEPT ![r.path] = r.before]

\* The catch block: nothing to roll back ends the call.
\* Wrong, and used by nothing: a rollback of nothing; no rollback at all.
Failing_Always(w) == [w EXCEPT !.pc = "rollback"]

Failing_NoRollback(w) == IdleUndo

Failing(w) == IF w.applied = <<>> THEN IdleUndo ELSE [w EXCEPT !.pc = "rollback"]

Reverse(u) ==
  LET w == undo[u]
      c == w.change
      r == CurrentRow(u)
  IN
  /\ w.pc = "reversing"
  /\ IF Reversible(c, r)
     THEN /\ disk' = Reversed(c, r)
          /\ disturbed' = Uncover(c, RowPaths(r))
          /\ undo' = [undo EXCEPT ![u] =
               [w EXCEPT !.applied = Append(w.applied, [row |-> r, bytes |-> disk[r.path]]),
                         !.i = w.i - 1,
                         !.pc = IF w.i > 1 THEN "reversing" ELSE "commit"]]
     ELSE /\ undo' = [undo EXCEPT ![u] = Failing(@)]
          /\ UNCHANGED <<disk, disturbed>>
  /\ UNCHANGED <<trash, writer, rows, left, status, used, images>>

\* The transaction marks the change undone and inserts its 'undo' event, which
\* is unique per change: a second one throws and the reversals are rolled back.
\* (History: an undisturbed change leaves no trace on the changes under it.)
Commit(u) ==
  LET c == undo[u].change IN
  /\ undo[u].pc = "commit"
  /\ IF status[c] = "undone"
     THEN /\ undo' = [undo EXCEPT ![u] = Failing(@)]
          /\ UNCHANGED <<status, disturbed>>
     ELSE /\ undo' = [undo EXCEPT ![u] = IdleUndo]
          /\ status' = [status EXCEPT ![c] = "undone"]
          /\ disturbed' = [d \in Changes |->
               IF disturbed[c] = {} THEN disturbed[d] \ {c} ELSE disturbed[d]]
  /\ UNCHANGED <<disk, trash, writer, rows, left, used, images>>

\* #restorePostChangeState for one reversal, the last applied first; after a
\* failure the next one is tried all the same.
Restored(a) ==
  CASE a.row.kind = "move"   -> [disk EXCEPT ![a.row.to] = disk[a.row.path], ![a.row.path] = Absent]
    [] a.row.kind = "binary" -> [disk EXCEPT ![a.row.path] = a.bytes]
    [] OTHER                 -> [disk EXCEPT ![a.row.path] = a.row.after]

Rollback(u) ==
  LET w == undo[u]
      c == w.change
      n == Len(w.applied)
      a == w.applied[n]
  IN
  /\ w.pc = "rollback"
  /\ undo' = [undo EXCEPT ![u] =
       IF n = 1 THEN IdleUndo ELSE [w EXCEPT !.applied = SubSeq(w.applied, 1, n - 1)]]
  /\ \/ /\ a.row.kind = "move" => disk[a.row.path] # Absent
        /\ disk' = Restored(a)
        /\ disturbed' = Uncover(c, RowPaths(a.row))
        /\ UNCHANGED used
     \/ /\ \/ a.row.kind = "move" /\ disk[a.row.path] = Absent /\ UNCHANGED used
           \/ Faulty
        /\ disturbed' = [disturbed EXCEPT ![c] = @ \cup {"fault"}]
        /\ UNCHANGED disk
  /\ UNCHANGED <<trash, writer, rows, left, status, images>>

\* A reversal, or the transaction, throws.
UndoFault(u) ==
  /\ undo[u].pc \in {"reversing", "commit"}
  /\ Faulty
  /\ undo' = [undo EXCEPT ![u] = Failing(@)]
  /\ UNCHANGED <<disk, trash, writer, rows, left, status, images, disturbed>>

-----------------------------------------------------------------------------
\* Someone edits, creates or deletes a file outside the program.
Edit(p, t) ==
  /\ used.edits < MaxEdits
  /\ t # disk[p]
  /\ disk' = [disk EXCEPT ![p] = t]
  /\ disturbed' = Disturb("editor", {p})
  /\ used' = [used EXCEPT !.edits = @ + 1]
  /\ UNCHANGED <<trash, writer, rows, left, status, undo, images>>

\* Someone empties the trash directory.
LoseTrash(c) ==
  /\ used.edits < MaxEdits
  /\ trash[c] # [p \in Paths |-> Absent]
  /\ trash' = [trash EXCEPT ![c] = [p \in Paths |-> Absent]]
  /\ disturbed' = [disturbed EXCEPT ![c] = @ \cup {"editor"}]
  /\ used' = [used EXCEPT !.edits = @ + 1]
  /\ UNCHANGED <<disk, writer, rows, left, status, undo, images>>

Active(c) == {u \in Undoers : undo[u].change = c /\ undo[u].pc \in {"reversing", "commit", "rollback"}}

\* The process dies: unrecorded operations, their catch blocks and running undos are
\* forgotten.
Crash ==
  /\ used.crashes < MaxCrashes
  /\ used' = [used EXCEPT !.crashes = @ + 1]
  /\ writer' = [c \in Changes |-> IF writer[c] = "writing" \/ left[c] > 0 THEN "lost" ELSE writer[c]]
  /\ undo' = [u \in Undoers |-> IdleUndo]
  /\ disturbed' = [c \in Changes |->
       IF Active(c) # {} THEN disturbed[c] \cup {"crash"} ELSE disturbed[c]]
  /\ UNCHANGED <<disk, trash, rows, left, status, images>>

UndoStep(u) == Preflight(u) \/ Reverse(u) \/ Commit(u) \/ Rollback(u)

Next ==
  \/ \E c \in Changes : Read(c) \/ WriteStep(c) \/ Record(c) \/ Fail(c) \/ PutBack(c) \/ LoseTrash(c)
  \/ \E c \in Changes, t \in Texts : \E i \in DOMAIN rows[c] : Rewrite(c, i, t)
  \/ \E u \in Undoers : (\E c \in Changes : BeginUndo(u, c)) \/ UndoStep(u) \/ UndoFault(u)
  \/ \E p \in Paths, t \in Content : Edit(p, t)
  \/ Crash

Spec == Init /\ [][Next]_vars

-----------------------------------------------------------------------------
Call == [pc : {"idle", "preflight", "reversing", "commit", "rollback"},
         change : Changes \cup {Absent}, i : Nat,
         applied : Seq([row : Row, bytes : Content])]

\* Every call of undo walks its change's rows: a rollback has something to roll
\* back, and the rows still to reverse and those reversed are all of them.
TypeOK ==
  /\ disk \in [Paths -> Content]
  /\ trash \in [Changes -> [Paths -> Content]]
  /\ writer \in [Changes -> {"idle", "writing", "recorded", "failed", "lost"}]
  /\ rows \in [Changes -> Seq(Row)]
  /\ left \in [Changes -> Nat]
  /\ status \in [Changes -> {"none", "applied", "undone"}]
  /\ undo \in [Undoers -> Call]
  /\ disturbed \in [Changes -> SUBSET (Changes \cup Reasons)]
  /\ \A u \in Undoers :
       /\ undo[u].pc = "rollback" => undo[u].applied # <<>>
       /\ undo[u].pc \in {"reversing", "commit"} =>
            Len(undo[u].applied) + undo[u].i = Len(rows[undo[u].change])

\* The journal is "the one table that has to be trustworthy": while nobody else
\* touches a change's files, an applied change is exactly on disk and an undone
\* one exactly reversed, whatever undos failed and were rolled back in between
\* and whatever later changes were undone on top of it.
JournalTellsDisk ==
  \A c \in Changes :
    (status[c] # "none" /\ disturbed[c] = {} /\ Active(c) = {}) =>
      View(c, disk) = images[c][IF status[c] = "applied" THEN Len(images[c]) ELSE 1]

\* A crash in the middle of an undo, or of its rollback, leaves the change's files,
\* together, as the first so many of its rows make them, in the order of the rows: a
\* page may be left with the embed of an attachment that is gone, nothing worse.
CrashLeavesAPrefix ==
  \A c \in Changes :
    (status[c] # "none" /\ disturbed[c] \subseteq {"crash"}) =>
      \E k \in DOMAIN images[c] : View(c, disk) = images[c][k]

\* An operation that fails inside its try block leaves no trace: once its catch block
\* is through, its files are those it read, until someone else writes them.
FailureLeavesNothing ==
  \A c \in Changes :
    (writer[c] = "failed" /\ left[c] = 0 /\ disturbed[c] = {}) => View(c, disk) = images[c][1]

\* An undo is refused only for a cause: the files of a recorded change that
\* nobody disturbed always pass the preflight of its undo.
ConflictHasCause ==
  [][\A u \in Undoers :
       (undo[u].pc = "preflight" /\ undo'[u].pc = "idle" /\ used'.crashes = used.crashes)
         => disturbed[undo[u].change] # {}]_vars

\* "Restore exact bytes from a journalled change" (docs/commands.md:23): undoing
\* a change nobody else disturbed restores what its own steps replaced.
ExactBytesRestored ==
  \A c \in Changes :
    (status[c] = "undone" /\ disturbed[c] \subseteq {"replaced"} /\ Active(c) = {}) =>
      View(c, disk) = images[c][1]
=============================================================================
