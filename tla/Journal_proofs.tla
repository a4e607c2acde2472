----------------------------- MODULE Journal_proofs -----------------------------
(***************************************************************************)
(* The walk of an undo over the rows of its change, and what the journal    *)
(* tells of the files, for every set of files, every plan of operations and *)
(* any number of concurrent undos, edits, faults and crashes.               *)
(*                                                                          *)
(* A change c is followed through its history: images[c] holds its files    *)
(* before it and after each of its steps, its rows tell what each step did, *)
(* and at any time its files stand after one of these steps, but for those  *)
(* over which changes made since lie; the lowest of these found there what  *)
(* c had left, so that undoing them, in whatever order, uncovers it again.  *)
(* What a failed operation has still to put back is told by the same images. *)
(***************************************************************************)
EXTENDS Journal, SequenceTheorems, TLAPS

\* A change is journalled once it is recorded, with rows; an operation at work has the
\* texts it has read; only a failed one has files to put back.
Sound(c) ==
  /\ writer[c] = "writing" => images[c] \in Seq([PathsOf(c) -> Content]) /\ images[c] # <<>>
  /\ writer[c] = "recorded" => rows[c] # <<>>
  /\ left[c] > 0 => writer[c] \in {"failed", "lost"} /\ left[c] <= Len(rows[c])
  /\ status[c] # "none" => writer[c] = "recorded"

\* The calls of undo stand at one of the rows of a recorded change.
Walking ==
  /\ images = [c \in Changes |-> images[c]]
  /\ \A c \in Changes : Sound(c)
  /\ \A u \in Undoers : undo[u].pc # "idle" =>
       /\ undo[u].change \in Changes /\ writer[undo[u].change] = "recorded"
       /\ undo[u].pc = "preflight" => undo[u].i \in 1 .. Len(rows[undo[u].change]) /\ undo[u].applied = <<>>
       /\ undo[u].pc = "reversing" => undo[u].i > 0
       /\ undo[u].pc = "commit" => undo[u].i = 0

WalkInv == TypeOK /\ Walking

LEMMA StepTyped ==
  ASSUME NEW c \in Changes, NEW i \in 1 .. Len(Plan[c])
  PROVE  Plan[c][i] \in Step
BY PlanAssumption

LEMMA DisturbTyped ==
  ASSUME TypeOK, NEW who \in Changes \cup {"editor"}, NEW ps
  PROVE  /\ Disturb(who, ps) \in [Changes -> SUBSET (Changes \cup Reasons)]
         /\ who \in Changes => Uncover(who, ps) \in [Changes -> SUBSET (Changes \cup Reasons)]
<1>1. disturbed \in [Changes -> SUBSET (Changes \cup Reasons)]
  BY DEF TypeOK, Reasons
<1>2. Disturb(who, ps) \in [Changes -> SUBSET (Changes \cup Reasons)]
  BY <1>1 DEF Disturb, Reasons
<1>3. Uncover(who, ps) \in [Changes -> SUBSET (Changes \cup Reasons)]
  BY <1>1, <1>2 DEF Uncover, Reasons
<1> QED BY <1>2, <1>3

\* An operation moves, and the others and the calls of undo do not.
Typed ==
  /\ disk \in [Paths -> Content] /\ trash \in [Changes -> [Paths -> Content]]
  /\ writer \in [Changes -> {"idle", "writing", "recorded", "failed", "lost"}]
  /\ rows \in [Changes -> Seq(Row)] /\ left \in [Changes -> Nat]
  /\ status \in [Changes -> {"none", "applied", "undone"}]
  /\ disturbed \in [Changes -> SUBSET (Changes \cup Reasons)]
  /\ images = [c \in Changes |-> images[c]]

Aside(c) ==
  /\ UNCHANGED undo
  /\ \A d \in Changes \ {c} : /\ writer'[d] = writer[d] /\ rows'[d] = rows[d] /\ left'[d] = left[d]
                              /\ status'[d] = status[d] /\ images'[d] = images[d]

LEMMA AllTyped ==
  ASSUME WalkInv
  PROVE  Typed
BY DEF WalkInv, Walking, TypeOK, Typed, Reasons

LEMMA OperationMoves ==
  ASSUME WalkInv, NEW c \in Changes, writer[c] # "recorded", Aside(c), Typed', Sound(c)'
  PROVE  WalkInv'
<1>1. undo' = undo
  BY DEF Aside
<1>2. \A u \in Undoers : undo[u].pc # "idle" =>
        /\ undo[u].change \in Changes \ {c} /\ writer'[undo[u].change] = "recorded"
        /\ rows'[undo[u].change] = rows[undo[u].change]
  BY DEF WalkInv, Walking, Aside
<1>3. \A d \in Changes : Sound(d)'
  <2> SUFFICES ASSUME NEW d \in Changes \ {c} PROVE Sound(d)'
    OBVIOUS
  <2>1. Sound(d)
    BY DEF WalkInv, Walking
  <2> QED BY <2>1 DEF Sound, Aside
<1>4. TypeOK'
  <2>1. undo' \in [Undoers -> Call]
    BY <1>1 DEF WalkInv, TypeOK
  <2>2. \A u \in Undoers :
          /\ undo'[u].pc = "rollback" => undo'[u].applied # <<>>
          /\ undo'[u].pc \in {"reversing", "commit"} =>
               Len(undo'[u].applied) + undo'[u].i = Len(rows'[undo'[u].change])
    <3> SUFFICES ASSUME NEW u \in Undoers
                 PROVE  /\ undo[u].pc = "rollback" => undo[u].applied # <<>>
                        /\ undo[u].pc \in {"reversing", "commit"} =>
                             Len(undo[u].applied) + undo[u].i = Len(rows'[undo[u].change])
      BY <1>1
    <3>1. undo[u].pc \in {"reversing", "commit"} => rows'[undo[u].change] = rows[undo[u].change]
      BY <1>2
    <3> QED BY <3>1 DEF WalkInv, TypeOK
  <2> QED BY <2>1, <2>2 DEF TypeOK, Typed
<1>5. Walking'
  <2>1. images' = [d \in Changes |-> images'[d]]
    BY DEF Typed
  <2>2. \A u \in Undoers : undo'[u].pc # "idle" =>
          /\ undo'[u].change \in Changes /\ writer'[undo'[u].change] = "recorded"
          /\ undo'[u].pc = "preflight" =>
               undo'[u].i \in 1 .. Len(rows'[undo'[u].change]) /\ undo'[u].applied = <<>>
          /\ undo'[u].pc = "reversing" => undo'[u].i > 0
          /\ undo'[u].pc = "commit" => undo'[u].i = 0
    BY <1>1, <1>2 DEF WalkInv, Walking
  <2> QED BY <1>3, <2>1, <2>2 DEF Walking
<1> QED BY <1>4, <1>5 DEF WalkInv

\* The files of an operation, as it finds them.
LEMMA PathsArePaths ==
  ASSUME NEW c \in Changes
  PROVE  PathsOf(c) \subseteq Paths
<1>1. \A i \in DOMAIN Plan[c] : Plan[c][i] \in Step
  <2>1. Plan[c] \in Seq(Step)
    BY PlanAssumption
  <2> DEFINE P == Plan[c]
  <2> HIDE DEF P
  <2>2. P \in Seq(Step) => \A i \in DOMAIN P : P[i] \in Step
    OBVIOUS
  <2> QED BY <2>1, <2>2 DEF P
<1>2. \A s \in Step : StepPaths(s) \subseteq Paths
  BY DEF Step, StepPaths
<1> QED BY <1>1, <1>2 DEF PathsOf

LEMMA ViewTyped ==
  ASSUME NEW c \in Changes, NEW d \in [Paths -> Content]
  PROVE  View(c, d) \in [PathsOf(c) -> Content]
BY PathsArePaths DEF View

LEMMA ReadKeeps ==
  ASSUME WalkInv, NEW c \in Changes, Read(c)
  PROVE  WalkInv'
<1>1. /\ writer[c] = "idle" /\ writer' = [writer EXCEPT ![c] = "writing"]
      /\ images' = [images EXCEPT ![c] = <<View(c, disk)>>]
      /\ UNCHANGED <<disk, trash, rows, left, status, undo, disturbed>>
  BY DEF Read
<1>2. Typed /\ Sound(c)
  BY AllTyped DEF WalkInv, Walking
<1>3. images'[c] = <<View(c, disk)>>
  BY <1>1, <1>2 DEF Typed
<1>4. images'[c] \in Seq([PathsOf(c) -> Content]) /\ images'[c] # <<>>
  <2> DEFINE v == View(c, disk)
  <2>1. v \in [PathsOf(c) -> Content]
    BY <1>2, ViewTyped DEF Typed
  <2> HIDE DEF v
  <2>2. <<v>> \in Seq([PathsOf(c) -> Content]) /\ <<v>> # <<>>
    BY <2>1
  <2> QED BY <1>3, <2>2 DEF v
<1>5. Aside(c)
  BY <1>1, <1>2 DEF Aside, Typed
<1>6. Typed'
  BY <1>1, <1>2 DEF Typed
<1>7. Sound(c)'
  BY <1>1, <1>2, <1>4 DEF Sound, Typed
<1> QED BY <1>1, <1>5, <1>6, <1>7, OperationMoves

\* An operation takes its next step.
LEMMA WriteStepKeeps ==
  ASSUME WalkInv, NEW c \in Changes, WriteStep(c)
  PROVE  WalkInv'
<1> DEFINE i == Len(rows[c]) + 1
           s == Plan[c][i]
<1>1. /\ writer[c] = "writing" /\ i <= Len(Plan[c]) /\ UNCHANGED <<writer, left, status, undo, used>>
      /\ disk' = Stepped(s)
      /\ trash' = IF s.op \in {"delete", "trash"} THEN [trash EXCEPT ![c][s.path] = disk[s.path]] ELSE trash
      /\ rows' = [rows EXCEPT ![c] = Append(@, RowOf(c, s))]
      /\ images' = [images EXCEPT ![c] = Append(@, View(c, Stepped(s)))]
      /\ disturbed' = [Disturb(c, StepPaths(s)) EXCEPT ![c] =
                         IF Replaces(s) THEN @ \cup {"replaced"} ELSE @]
  <2>1. Len(rows[c]) \in Nat /\ Len(Plan[c]) \in Nat
    BY AllTyped, PlanAssumption DEF Typed
  <2> QED BY <2>1 DEF WriteStep, NextStep
<1>2. /\ disk \in [Paths -> Content] /\ trash \in [Changes -> [Paths -> Content]]
      /\ rows \in [Changes -> Seq(Row)] /\ Plan \in [Changes -> Seq(Step)] /\ Absent \in Content
      /\ Typed /\ Sound(c)
  BY AllTyped, PlanAssumption DEF WalkInv, Walking, Typed, Content
<1>3. s \in Step /\ StepPaths(s) \subseteq PathsOf(c)
  <2>1. Len(rows[c]) \in Nat /\ Len(Plan[c]) \in Nat
    BY <1>2
  <2>2. i \in 1 .. Len(Plan[c])
    BY <1>1, <2>1
  <2>3. i \in DOMAIN Plan[c]
    BY <1>2, <2>2
  <2> QED BY <2>2, <2>3, StepTyped DEF PathsOf
<1> HIDE DEF s
<1>4. RowOf(c, s) \in Row
  <2>1. s.path \in PathsOf(c) /\ s.path \in Paths /\ s.to \in Paths /\ s.text \in Content
    BY <1>3 DEF StepPaths, Step
  <2>2. images[c][1] \in [PathsOf(c) -> Content]
    <3> DEFINE m == images[c]
    <3>1. m \in Seq([PathsOf(c) -> Content]) /\ m # <<>>
      BY <1>1, <1>2 DEF Sound
    <3> HIDE DEF m
    <3>2. m[1] \in [PathsOf(c) -> Content]
      BY <3>1
    <3> QED BY <3>2 DEF m
  <2>3. images[c][1][s.path] \in Content /\ disk[s.path] \in Content
    BY <1>2, <2>1, <2>2
  <2>4. KindOf(s) \in {"text", "binary", "move", "trash"}
    BY <1>3 DEF KindOf, Step
  <2> QED BY <1>2, <1>3, <2>1, <2>3, <2>4 DEF RowOf, Row, Step
<1>5. disk' \in [Paths -> Content] /\ trash' \in [Changes -> [Paths -> Content]]
  <2> DEFINE p == s.path
             q == s.to
             t == s.text
             v == [trash[c] EXCEPT ![p] = disk[p]]
  <2>1. p \in Paths /\ q \in Paths /\ t \in Content /\ disk[p] \in Content
    BY <1>2, <1>3 DEF Step
  <2>2. /\ disk' \in {[disk EXCEPT ![p] = t], [disk EXCEPT ![p] = Absent],
                      [disk EXCEPT ![q] = disk[p], ![p] = Absent]}
        /\ trash' \in {trash, [trash EXCEPT ![c] = v]}
    BY <1>1, <1>3 DEF Stepped, Step
  <2>3. v \in [Paths -> Content]
    BY <1>2, <2>1
  <2> HIDE DEF p, q, t, v
  <2> QED BY <1>2, <2>1, <2>2, <2>3
<1>6. disturbed' \in [Changes -> SUBSET (Changes \cup Reasons)]
  <2> DEFINE D == Disturb(c, StepPaths(s))
  <2>1. D \in [Changes -> SUBSET (Changes \cup Reasons)]
    BY DisturbTyped DEF WalkInv
  <2>2. "replaced" \in Reasons
    BY DEF Reasons
  <2>3. disturbed' \in {D, [D EXCEPT ![c] = @ \cup {"replaced"}]}
    <3>1. CASE Replaces(s)
      BY <1>1, <3>1
    <3>2. CASE ~Replaces(s)
      <4>1. disturbed' = [D EXCEPT ![c] = @]
        BY <1>1, <3>2
      <4> QED BY <2>1, <4>1
    <3> QED BY <3>1, <3>2
  <2> HIDE DEF D
  <2> QED BY <2>1, <2>2, <2>3
<1>7. View(c, Stepped(s)) \in [PathsOf(c) -> Content]
  BY <1>1, <1>5, ViewTyped
<1> HIDE DEF i
<1>8. PICK r \in Row : rows' = [rows EXCEPT ![c] = Append(@, r)]
  BY <1>1, <1>4
<1>9. rows' \in [Changes -> Seq(Row)] /\ \A d \in Changes \ {c} : rows'[d] = rows[d]
  <2>1. Append(rows[c], r) \in Seq(Row)
    BY <1>2, AppendProperties
  <2> QED BY <1>2, <1>8, <2>1
<1>10. /\ images'[c] \in Seq([PathsOf(c) -> Content]) /\ images'[c] # <<>>
       /\ images' = [d \in Changes |-> images'[d]] /\ \A d \in Changes \ {c} : images'[d] = images[d]
  <2> DEFINE m == images[c]
             v == View(c, Stepped(s))
             V == [PathsOf(c) -> Content]
  <2>1. m \in Seq(V) /\ v \in V
    BY <1>1, <1>2, <1>7 DEF Sound
  <2>2. images' = [images EXCEPT ![c] = Append(m, v)]
    BY <1>1
  <2> HIDE DEF m, v, V
  <2>3. Append(m, v) \in Seq(V) /\ Len(Append(m, v)) = Len(m) + 1 /\ Len(m) \in Nat
    BY <2>1, AppendProperties, LenProperties
  <2>4. Append(m, v) # <<>>
    BY <2>3
  <2> QED BY <1>2, <2>2, <2>3, <2>4 DEF Typed, V
<1>11. Aside(c)
  BY <1>1, <1>9, <1>10 DEF Aside
<1>12. Typed'
  BY <1>1, <1>2, <1>5, <1>6, <1>9, <1>10 DEF Typed
<1>13. Sound(c)'
  BY <1>1, <1>2, <1>10 DEF Sound
<1> QED BY <1>1, <1>11, <1>12, <1>13, OperationMoves

\* An operation writes one of its pages again.
LEMMA RewriteKeeps ==
  ASSUME WalkInv, NEW c \in Changes, NEW i \in DOMAIN rows[c], NEW t \in Texts, Rewrite(c, i, t)
  PROVE  WalkInv'
<1> DEFINE p == rows[c][i].path
           rs == rows[c]
           ms == images[c]
           V == [PathsOf(c) -> Content]
<1>1. /\ writer[c] = "writing" /\ disk' = [disk EXCEPT ![p] = t]
      /\ rows' = [rows EXCEPT ![c][i].after = t]
      /\ images' = [images EXCEPT ![c] = [k \in DOMAIN ms |->
                      IF k > i THEN [ms[k] EXCEPT ![p] = t] ELSE ms[k]]]
      /\ disturbed' = Disturb(c, {p})
      /\ UNCHANGED <<trash, writer, left, status, undo>>
  BY DEF Rewrite
<1>2. Typed /\ Sound(c) /\ t \in Content
  BY AllTyped DEF WalkInv, Walking, Content
<1>3. rs \in Seq(Row) /\ ms \in Seq(V) /\ ms # <<>>
  BY <1>1, <1>2 DEF Typed, Sound
<1> HIDE DEF p
<1>4. rows' = [rows EXCEPT ![c] = [rs EXCEPT ![i] = [rs[i] EXCEPT !.after = t]]]
  BY <1>1
<1>5. [rs EXCEPT ![i] = [rs[i] EXCEPT !.after = t]] \in Seq(Row)
  <2>1. i \in 1 .. Len(rs) /\ rs[i] \in Row
    BY <1>3
  <2> DEFINE r == [rs[i] EXCEPT !.after = t]
  <2>2. r \in Row
    BY <1>2, <2>1 DEF Row
  <2> HIDE DEF r, rs
  <2>3. [rs EXCEPT ![i] = r] \in Seq(Row)
    BY <1>3, <2>1, <2>2, ExceptSeq
  <2> QED BY <2>3 DEF r, rs
<1> DEFINE ns == [k \in DOMAIN ms |-> IF k > i THEN [ms[k] EXCEPT ![p] = t] ELSE ms[k]]
<1>6. ns \in Seq(V) /\ ns # <<>>
  <2> HIDE DEF ms
  <2> DEFINE n == Len(ms)
  <2>1. n \in Nat /\ n # 0 /\ DOMAIN ms = 1 .. n /\ \A k \in 1 .. n : ms[k] \in V
    BY <1>3
  <2> HIDE DEF n
  <2>2. \A m \in V : [m EXCEPT ![p] = t] \in V
    BY <1>2
  <2> HIDE DEF V
  <2>3. ns \in [1 .. n -> V]
    BY <2>1, <2>2
  <2> HIDE DEF ns
  <2>4. n \in Nat /\ n # 0
    BY <2>1
  <2>5. ns \in Seq(V)
    BY <2>3, <2>4
  <2>6. DOMAIN ns # {}
    BY <2>3, <2>4
  <2> QED BY <2>5, <2>6
<1> HIDE DEF rs, ms, ns, V
<1>7. /\ images'[c] = ns /\ images' = [d \in Changes |-> images'[d]]
      /\ \A d \in Changes \ {c} : images'[d] = images[d]
  BY <1>1, <1>2 DEF Typed, ns, ms
<1>8. rows' \in [Changes -> Seq(Row)] /\ \A d \in Changes \ {c} : rows'[d] = rows[d]
  BY <1>2, <1>4, <1>5 DEF Typed
<1>9. disk' \in [Paths -> Content]
  BY <1>1, <1>2 DEF Typed
<1>10. disturbed' \in [Changes -> SUBSET (Changes \cup Reasons)]
  BY <1>1, DisturbTyped DEF WalkInv
<1>11. Aside(c)
  BY <1>1, <1>7, <1>8 DEF Aside
<1>12. Typed'
  BY <1>1, <1>2, <1>7, <1>8, <1>9, <1>10 DEF Typed
<1>13. Sound(c)'
  BY <1>1, <1>2, <1>6, <1>7 DEF Sound, V
<1> QED BY <1>1, <1>11, <1>12, <1>13, OperationMoves

\* An operation fails, and puts a file back.
LEMMA FailKeeps ==
  ASSUME WalkInv, NEW c \in Changes, Fail(c)
  PROVE  WalkInv'
<1>1. /\ writer[c] = "writing"
      /\ writer' = [writer EXCEPT ![c] = IF Len(rows[c]) >= Guarded[c] THEN "failed" ELSE "lost"]
      /\ left' = [left EXCEPT ![c] = Len(rows[c])]
      /\ UNCHANGED <<disk, trash, rows, status, undo, images, disturbed>>
  BY DEF Fail
<1>2. Typed /\ Sound(c)
  BY AllTyped DEF WalkInv, Walking
<1>3. Len(rows[c]) \in Nat
  BY <1>2 DEF Typed
<1>4. Aside(c)
  BY <1>1, <1>2 DEF Aside, Typed
<1>5. Typed'
  BY <1>1, <1>2, <1>3 DEF Typed
<1>6. Sound(c)'
  BY <1>1, <1>2 DEF Sound, Typed
<1> QED BY <1>1, <1>4, <1>5, <1>6, OperationMoves

LEMMA PutBackKeeps ==
  ASSUME WalkInv, NEW c \in Changes, PutBack(c)
  PROVE  WalkInv'
<1> DEFINE i == left[c]
           r == rows[c][i]
<1>1. writer[c] = "failed" /\ i > 0 /\ UNCHANGED <<rows, status, undo, images>>
  BY DEF PutBack
<1>2. Typed /\ Sound(c) /\ Absent \in Content
  BY AllTyped DEF WalkInv, Walking, Content
<1>3. CASE writer' = [writer EXCEPT ![c] = "lost"] /\ UNCHANGED <<disk, trash, left, disturbed>>
  <2>1. Aside(c) /\ Typed'
    BY <1>1, <1>2, <1>3 DEF Aside, Typed
  <2>2. Sound(c)'
    BY <1>1, <1>2, <1>3 DEF Sound, Typed
  <2> QED BY <1>1, <2>1, <2>2, OperationMoves
<1>4. CASE /\ disk' = Returned(c, i)
           /\ trash' = IF Plan[c][i].op \in {"delete", "trash"}
                       THEN [trash EXCEPT ![c][rows[c][i].path] = Absent] ELSE trash
           /\ disturbed' = Uncover(c, RowPaths(rows[c][i]))
           /\ left' = [left EXCEPT ![c] = i - 1]
           /\ UNCHANGED writer
  <2>1. r \in Row /\ c \in Changes
    <3> DEFINE rs == rows[c]
    <3>1. rs \in Seq(Row) /\ i \in Nat /\ i > 0 /\ i <= Len(rs)
      BY <1>1, <1>2 DEF Typed, Sound
    <3> HIDE DEF rs
    <3>2. rs[i] \in Row
      BY <3>1
    <3> QED BY <3>2 DEF rs
  <2>2. disk \in [Paths -> Content] /\ trash \in [Changes -> [Paths -> Content]] /\ left[c] \in Nat
    BY <1>2 DEF Typed
  <2>3. disturbed' \in [Changes -> SUBSET (Changes \cup Reasons)]
    BY <1>4, DisturbTyped DEF WalkInv
  <2>4. /\ disk' \in [Paths -> Content]
        /\ trash' \in [Changes -> [Paths -> Content]]
    <3> DEFINE v == [trash[c] EXCEPT ![r.path] = Absent]
    <3>1. r.path \in Paths /\ r.to \in Paths /\ r.before \in Content
      BY <2>1 DEF Row
    <3>2. disk' \in {[disk EXCEPT ![r.path] = disk[r.to], ![r.to] = Absent],
                     [disk EXCEPT ![r.path] = trash[c][r.path]], [disk EXCEPT ![r.path] = r.before]}
      BY <1>4 DEF Returned
    <3>3. trash' \in {trash, [trash EXCEPT ![c] = v]}
      BY <1>4
    <3>4. v \in [Paths -> Content]
      BY <1>2, <2>2
    <3> HIDE DEF v, r
    <3>5. disk' \in [Paths -> Content]
      BY <1>2, <2>2, <3>1, <3>2
    <3>6. trash' \in [Changes -> [Paths -> Content]]
      BY <2>2, <3>3, <3>4
    <3> QED BY <3>5, <3>6
  <2>5. left' = [left EXCEPT ![c] = i - 1] /\ i - 1 \in Nat /\ UNCHANGED writer
    BY <1>1, <1>4, <2>2
  <2>6. Aside(c)
    BY <1>1, <2>5 DEF Aside
  <2>7. Typed'
    BY <1>1, <1>2, <2>3, <2>4, <2>5 DEF Typed
  <2>8. left'[c] = i - 1 /\ left'[c] <= Len(rows[c])
    <3>1. left'[c] = i - 1 /\ i > 0 /\ i \in Nat /\ i <= Len(rows[c]) /\ Len(rows[c]) \in Nat
      BY <1>1, <1>2, <2>5 DEF Typed, Sound
    <3> QED BY <3>1
  <2>9. Sound(c)'
    BY <1>1, <1>2, <2>5, <2>8 DEF Sound, Typed
  <2> QED BY <1>1, <2>6, <2>7, <2>9, OperationMoves
<1> QED BY <1>3, <1>4 DEF PutBack

\* What a call of undo may be: WalkInv says it of every call.
Fits(w) ==
  /\ w \in Call
  /\ w.pc = "rollback" => w.applied # <<>>
  /\ w.pc \in {"reversing", "commit"} => Len(w.applied) + w.i = Len(rows[w.change])
  /\ w.pc # "idle" => w.change \in Changes /\ writer[w.change] = "recorded"
  /\ w.pc = "preflight" => w.i \in 1 .. Len(rows[w.change]) /\ w.applied = <<>>
  /\ w.pc = "reversing" => w.i > 0
  /\ w.pc = "commit" => w.i = 0

LEMMA CallFits ==
  ASSUME WalkInv, NEW u \in Undoers
  PROVE  Fits(undo[u])
BY DEF WalkInv, Walking, TypeOK, Fits

LEMMA IdleFits == Fits(IdleUndo)
BY DEF Fits, IdleUndo, Call

\* Calls of undo move, files with them, and operations do not.
LEMMA UndoMoves ==
  ASSUME WalkInv, UNCHANGED <<writer, rows, left, images>>,
         disk' \in [Paths -> Content], trash' \in [Changes -> [Paths -> Content]],
         status' \in [Changes -> {"none", "applied", "undone"}],
         \A c \in Changes : status'[c] # "none" => status[c] # "none" \/ writer[c] = "recorded",
         disturbed' \in [Changes -> SUBSET (Changes \cup Reasons)],
         undo' \in [Undoers -> Call],
         \A u \in Undoers : undo'[u] = undo[u] \/ Fits(undo'[u])
  PROVE  WalkInv'
<1>1. \A u \in Undoers : Fits(undo'[u])
  BY CallFits
<1>2. TypeOK'
  <2>1. \A u \in Undoers :
          /\ undo'[u].pc = "rollback" => undo'[u].applied # <<>>
          /\ undo'[u].pc \in {"reversing", "commit"} =>
               Len(undo'[u].applied) + undo'[u].i = Len(rows'[undo'[u].change])
    BY <1>1 DEF Fits
  <2> QED BY <2>1 DEF WalkInv, TypeOK, Reasons
<1>3. Walking'
  <2>1. \A u \in Undoers : undo'[u].pc # "idle" =>
          /\ undo'[u].change \in Changes /\ writer'[undo'[u].change] = "recorded"
          /\ undo'[u].pc = "preflight" =>
               undo'[u].i \in 1 .. Len(rows'[undo'[u].change]) /\ undo'[u].applied = <<>>
          /\ undo'[u].pc = "reversing" => undo'[u].i > 0
          /\ undo'[u].pc = "commit" => undo'[u].i = 0
    BY <1>1 DEF Fits
  <2> QED BY <2>1 DEF WalkInv, Walking, Sound
<1> QED BY <1>2, <1>3 DEF WalkInv

LEMMA RecordKeeps ==
  ASSUME WalkInv, NEW c \in Changes, Record(c)
  PROVE  WalkInv'
<1> DEFINE rs == rows[c]
           hashed == [i \in DOMAIN rs |-> [rs[i] EXCEPT !.hash = AfterHash(rs[i])]]
<1>1. /\ writer[c] = "writing" /\ writer' = [writer EXCEPT ![c] = "recorded"]
      /\ status' = [status EXCEPT ![c] = "applied"] /\ rows' = [rows EXCEPT ![c] = hashed]
      /\ UNCHANGED <<disk, trash, left, images, undo, disturbed>>
  BY DEF Record
<1>2. rs \in Seq(Row) /\ rs # <<>> /\ disk \in [Paths -> Content] /\ rows \in [Changes -> Seq(Row)]
  <2>1. Len(rs) = Len(Plan[c]) /\ Plan[c] \in Seq(Step) /\ Plan[c] # <<>>
    BY PlanAssumption DEF Record
  <2>2. Len(Plan[c]) \in Nat /\ Len(Plan[c]) # 0
    BY <2>1
  <2> QED BY <2>1, <2>2 DEF WalkInv, TypeOK
<1>3. \A r \in Row : [r EXCEPT !.hash = AfterHash(r)] \in Row
  BY <1>2 DEF AfterHash, Row
<1> HIDE DEF rs
<1>4. hashed \in Seq(Row) /\ hashed # <<>>
  <2>1. DOMAIN rs = 1 .. Len(rs) /\ Len(rs) \in Nat /\ Len(rs) # 0 /\ \A i \in 1 .. Len(rs) : rs[i] \in Row
    BY <1>2
  <2> DEFINE n == Len(rs)
  <2>2. hashed = [i \in 1 .. n |-> [rs[i] EXCEPT !.hash = AfterHash(rs[i])]]
    BY <2>1
  <2>3. \A i \in 1 .. n : [rs[i] EXCEPT !.hash = AfterHash(rs[i])] \in Row
    BY <1>3, <2>1
  <2> HIDE DEF hashed, n
  <2>4. hashed \in [1 .. n -> Row]
    BY <2>2, <2>3
  <2>5. n \in Nat /\ n # 0
    BY <2>1 DEF n
  <2>6. hashed \in Seq(Row)
    BY <2>4, <2>5
  <2>7. DOMAIN hashed # {}
    BY <2>4, <2>5
  <2> QED BY <2>6, <2>7
<1> HIDE DEF hashed
<1>5. rows' \in [Changes -> Seq(Row)] /\ rows'[c] # <<>> /\ \A d \in Changes \ {c} : rows'[d] = rows[d]
  BY <1>1, <1>2, <1>4
<1>6. /\ writer' \in [Changes -> {"idle", "writing", "recorded", "failed", "lost"}]
      /\ writer'[c] = "recorded" /\ \A d \in Changes \ {c} : writer'[d] = writer[d]
  BY <1>1 DEF WalkInv, TypeOK
<1>7. /\ status' \in [Changes -> {"none", "applied", "undone"}]
      /\ \A d \in Changes \ {c} : status'[d] = status[d]
  BY <1>1 DEF WalkInv, TypeOK
<1>8. Aside(c)
  BY <1>1, <1>5, <1>6, <1>7 DEF Aside
<1>9. Typed'
  BY <1>1, <1>5, <1>6, <1>7, AllTyped DEF Typed
<1>10. Sound(c)'
  BY <1>1, <1>5, <1>6 DEF WalkInv, Walking, Sound
<1> QED BY <1>1, <1>8, <1>9, <1>10, OperationMoves

\* An undo begins, checks a row, reverses one, commits, rolls one back, or fails.
LEMMA BeginUndoKeeps ==
  ASSUME WalkInv, NEW u \in Undoers, NEW c \in Changes, BeginUndo(u, c)
  PROVE  WalkInv'
<1> DEFINE w == [IdleUndo EXCEPT !.pc = "preflight", !.change = c, !.i = Len(rows[c])]
<1>1. undo' = [undo EXCEPT ![u] = w] /\ status[c] = "applied"
      /\ UNCHANGED <<disk, trash, writer, rows, left, images, status, disturbed>>
  BY DEF BeginUndo
<1>2. writer[c] = "recorded" /\ rows[c] # <<>> /\ rows[c] \in Seq(Row)
  BY <1>1 DEF WalkInv, Walking, Sound, TypeOK
<1>3. Len(rows[c]) \in Nat /\ Len(rows[c]) # 0
  BY <1>2
<1>4. Fits(w)
  <2> DEFINE n == Len(rows[c])
  <2>1. n \in Nat /\ n # 0 /\ n \in 1 .. n
    BY <1>3
  <2>2. IdleUndo \in Call /\ IdleUndo.applied = <<>>
    BY IdleFits DEF Fits, IdleUndo
  <2> HIDE DEF n
  <2>3. /\ w \in Call /\ w.pc = "preflight" /\ w.change = c /\ w.i = n /\ w.applied = <<>>
    BY <2>1, <2>2 DEF Call, n
  <2> HIDE DEF w
  <2> QED BY <1>2, <2>1, <2>3 DEF Fits, n
<1> HIDE DEF w
<1>5. undo' \in [Undoers -> Call] /\ \A v \in Undoers : undo'[v] = undo[v] \/ Fits(undo'[v])
  BY <1>1, <1>4 DEF WalkInv, TypeOK, Fits
<1> QED BY <1>1, <1>5, UndoMoves DEF WalkInv, TypeOK, Reasons

LEMMA PreflightKeeps ==
  ASSUME WalkInv, NEW u \in Undoers, Preflight(u)
  PROVE  WalkInv'
<1> DEFINE w == undo[u]
           c == w.change
           v == IF ~PostState(c, CurrentRow(u)) THEN IdleUndo
                ELSE IF w.i > 1 THEN [w EXCEPT !.i = w.i - 1]
                ELSE [w EXCEPT !.pc = "reversing", !.i = Len(rows[c])]
<1>1. /\ w.pc = "preflight" /\ undo' = [undo EXCEPT ![u] = v]
      /\ UNCHANGED <<disk, trash, writer, rows, left, images, status>>
      /\ disturbed' \in {disturbed, [disturbed EXCEPT ![c] = @ \cup {"undo"}]}
  BY DEF Preflight
<1>2. Fits(w)
  BY CallFits
<1>3. c \in Changes /\ rows[c] \in Seq(Row) /\ rows[c] # <<>>
  BY <1>1, <1>2 DEF Fits, WalkInv, Walking, Sound, TypeOK
<1>4. Len(rows[c]) \in Nat /\ Len(rows[c]) # 0
  BY <1>3
<1>5. Fits(v)
  <2>1. Fits([w EXCEPT !.i = w.i - 1]) \/ ~(w.i > 1)
    BY <1>1, <1>2, <1>4 DEF Fits, Call
  <2>2. Fits([w EXCEPT !.pc = "reversing", !.i = Len(rows[c])])
    <3> DEFINE n == Len(rows[c])
               x == [w EXCEPT !.pc = "reversing", !.i = n]
    <3>1. n \in Nat /\ n > 0 /\ Len(<<>>) = 0
      BY <1>4
    <3>2. w.applied = <<>> /\ writer[c] = "recorded" /\ w \in Call
      BY <1>1, <1>2 DEF Fits
    <3> HIDE DEF n
    <3>3. x \in Call /\ x.pc = "reversing" /\ x.change = c /\ x.i = n /\ x.applied = <<>>
      BY <3>1, <3>2 DEF Call
    <3> HIDE DEF x
    <3>4. Fits(x)
      BY <1>3, <3>1, <3>2, <3>3 DEF Fits, n
    <3> QED BY <3>4 DEF x, n
  <2> QED BY <2>1, <2>2, IdleFits
<1> HIDE DEF v
<1>6. undo' \in [Undoers -> Call] /\ \A x \in Undoers : undo'[x] = undo[x] \/ Fits(undo'[x])
  BY <1>1, <1>5 DEF WalkInv, TypeOK, Fits
<1>7. disturbed' \in [Changes -> SUBSET (Changes \cup Reasons)]
  <2>1. disturbed \in [Changes -> SUBSET (Changes \cup Reasons)] /\ "undo" \in Reasons
    BY DEF WalkInv, TypeOK, Reasons
  <2> HIDE DEF c
  <2> QED BY <1>1, <2>1
<1> QED BY <1>1, <1>6, <1>7, UndoMoves DEF WalkInv, TypeOK

LEMMA FailingFits ==
  ASSUME NEW w, Fits(w), w.pc \in {"reversing", "commit"}
  PROVE  Fits(Failing(w))
<1>1. CASE w.applied = <<>>
  BY <1>1, IdleFits DEF Failing
<1>2. CASE w.applied # <<>>
  BY <1>2 DEF Failing, Fits, Call
<1> QED BY <1>1, <1>2

LEMMA ReverseKeeps ==
  ASSUME WalkInv, NEW u \in Undoers, Reverse(u)
  PROVE  WalkInv'
<1> DEFINE w == undo[u]
           c == w.change
           r == CurrentRow(u)
<1>1. w.pc = "reversing" /\ UNCHANGED <<trash, writer, rows, left, images, status>>
  BY DEF Reverse
<1>2. Fits(w)
  BY CallFits
<1>3. /\ c \in Changes /\ rows[c] \in Seq(Row) /\ w.i \in Nat /\ w.i > 0
      /\ w.applied \in Seq([row : Row, bytes : Content]) /\ Len(w.applied) + w.i = Len(rows[c])
  BY <1>1, <1>2 DEF Fits, Call, WalkInv, TypeOK
<1>4. Len(w.applied) \in Nat /\ Len(rows[c]) \in Nat
  BY <1>3
<1>5. w.i \in 1 .. Len(rows[c])
  BY <1>3, <1>4
<1>6. r \in Row
  BY <1>3, <1>5 DEF CurrentRow
<1>7. disk \in [Paths -> Content] /\ trash \in [Changes -> [Paths -> Content]] /\ Absent \in Content
  BY DEF WalkInv, TypeOK, Content
<1>8. CASE Reversible(c, r)
  <2> DEFINE step == [row |-> r, bytes |-> disk[r.path]]
             v == [w EXCEPT !.applied = Append(w.applied, step), !.i = w.i - 1,
                            !.pc = IF w.i > 1 THEN "reversing" ELSE "commit"]
  <2>1. disk' = Reversed(c, r) /\ disturbed' = Uncover(c, RowPaths(r)) /\ undo' = [undo EXCEPT ![u] = v]
    BY <1>8 DEF Reverse
  <2>2. r.path \in Paths /\ r.to \in Paths /\ r.before \in Content
    BY <1>6 DEF Row
  <2> HIDE DEF r
  <2>3. disk' \in [Paths -> Content]
    BY <1>3, <1>7, <2>1, <2>2 DEF Reversed
  <2>4. disturbed' \in [Changes -> SUBSET (Changes \cup Reasons)]
    BY <1>3, <2>1, DisturbTyped DEF WalkInv
  <2>5. step \in [row : Row, bytes : Content]
    BY <1>6, <1>7, <2>2
  <2> HIDE DEF step
  <2>6. /\ Append(w.applied, step) \in Seq([row : Row, bytes : Content])
        /\ Len(Append(w.applied, step)) = Len(w.applied) + 1
    BY <1>3, <2>5, AppendProperties
  <2>7. Fits(v)
    <3> DEFINE more == Append(w.applied, step)
    <3>1. more \in Seq([row : Row, bytes : Content]) /\ Len(more) = Len(w.applied) + 1
      BY <2>6
    <3> HIDE DEF more
    <3>2. /\ v = [w EXCEPT !.applied = more, !.i = w.i - 1,
                           !.pc = IF w.i > 1 THEN "reversing" ELSE "commit"]
      BY DEF more
    <3>3. /\ v.applied = more /\ v.i = w.i - 1 /\ v.change = c
          /\ v.pc = IF w.i > 1 THEN "reversing" ELSE "commit"
      BY <1>2, <3>2 DEF Fits, Call
    <3>4. w.i - 1 \in Nat /\ (w.i > 1 => w.i - 1 > 0) /\ (~(w.i > 1) => w.i - 1 = 0)
      BY <1>3
    <3>5. v \in Call
      BY <1>2, <3>1, <3>2, <3>4 DEF Fits, Call
    <3> HIDE DEF v, w
    <3>6. v.pc \in {"reversing", "commit"} /\ (v.pc = "reversing" => v.i > 0) /\ (v.pc = "commit" => v.i = 0)
      BY <3>3, <3>4
    <3>7. Len(v.applied) + v.i = Len(rows[v.change])
      BY <1>3, <1>4, <3>1, <3>3, <3>4
    <3>8. v.change \in Changes /\ writer[v.change] = "recorded"
      BY <1>1, <1>2, <1>3, <3>3 DEF Fits
    <3> QED BY <3>5, <3>6, <3>7, <3>8 DEF Fits
  <2> HIDE DEF v
  <2>8. undo' \in [Undoers -> Call] /\ \A x \in Undoers : undo'[x] = undo[x] \/ Fits(undo'[x])
    BY <2>1, <2>7 DEF WalkInv, TypeOK, Fits
  <2> QED BY <1>1, <1>7, <2>3, <2>4, <2>8, UndoMoves DEF WalkInv, TypeOK
<1>9. CASE ~Reversible(c, r)
  <2>1. undo' = [undo EXCEPT ![u] = Failing(w)] /\ UNCHANGED <<disk, disturbed>>
    BY <1>9 DEF Reverse
  <2>2. Fits(Failing(w))
    BY <1>1, <1>2, FailingFits
  <2>3. undo' \in [Undoers -> Call] /\ \A x \in Undoers : undo'[x] = undo[x] \/ Fits(undo'[x])
    BY <2>1, <2>2 DEF WalkInv, TypeOK, Fits
  <2> QED BY <1>1, <2>1, <2>3, UndoMoves DEF WalkInv, TypeOK, Reasons
<1> QED BY <1>8, <1>9

LEMMA CommitKeeps ==
  ASSUME WalkInv, NEW u \in Undoers, Commit(u)
  PROVE  WalkInv'
<1> DEFINE w == undo[u]
           c == w.change
<1>1. w.pc = "commit" /\ UNCHANGED <<disk, trash, writer, rows, left, images>>
  BY DEF Commit
<1>2. Fits(w) /\ c \in Changes /\ writer[c] = "recorded"
  BY <1>1, CallFits DEF Fits
<1>3. CASE status[c] = "undone"
  <2>1. undo' = [undo EXCEPT ![u] = Failing(w)] /\ UNCHANGED <<status, disturbed>>
    BY <1>3 DEF Commit
  <2>2. Fits(Failing(w))
    BY <1>1, <1>2, FailingFits
  <2>3. undo' \in [Undoers -> Call] /\ \A x \in Undoers : undo'[x] = undo[x] \/ Fits(undo'[x])
    BY <2>1, <2>2 DEF WalkInv, TypeOK, Fits
  <2> QED BY <1>1, <2>1, <2>3, UndoMoves DEF WalkInv, TypeOK, Reasons
<1>4. CASE status[c] # "undone"
  <2>1. /\ undo' = [undo EXCEPT ![u] = IdleUndo]
        /\ status' = [status EXCEPT ![c] = "undone"]
        /\ disturbed' = [d \in Changes |-> IF disturbed[c] = {} THEN disturbed[d] \ {c} ELSE disturbed[d]]
    BY <1>4 DEF Commit
  <2>2. /\ disturbed \in [Changes -> SUBSET (Changes \cup Reasons)]
        /\ status \in [Changes -> {"none", "applied", "undone"}]
    BY DEF WalkInv, TypeOK, Reasons
  <2> HIDE DEF c
  <2>3. disturbed' \in [Changes -> SUBSET (Changes \cup Reasons)]
    BY <2>1, <2>2
  <2>4. /\ status' \in [Changes -> {"none", "applied", "undone"}]
        /\ \A d \in Changes : status'[d] # "none" => status[d] # "none" \/ writer[d] = "recorded"
    BY <1>2, <2>1, <2>2
  <2>5. undo' \in [Undoers -> Call] /\ \A x \in Undoers : undo'[x] = undo[x] \/ Fits(undo'[x])
    BY <2>1, IdleFits DEF WalkInv, TypeOK, Fits
  <2> QED BY <1>1, <2>3, <2>4, <2>5, UndoMoves DEF WalkInv, TypeOK
<1> QED BY <1>3, <1>4

LEMMA RollbackKeeps ==
  ASSUME WalkInv, NEW u \in Undoers, Rollback(u)
  PROVE  WalkInv'
<1> DEFINE w == undo[u]
           c == w.change
           n == Len(w.applied)
           a == w.applied[n]
           rest == SubSeq(w.applied, 1, n - 1)
           ended == IF n = 1 THEN IdleUndo ELSE [w EXCEPT !.applied = rest]
           Applied == [row : Row, bytes : Content]
<1>1. w.pc = "rollback" /\ UNCHANGED <<trash, writer, rows, left, images, status>>
  BY DEF Rollback
<1>2. Fits(w) /\ c \in Changes
  BY <1>1, CallFits DEF Fits
<1>3. w \in Call /\ w.applied \in Seq(Applied) /\ w.applied # <<>>
  BY <1>1, <1>2 DEF Fits, Call
<1>4. n \in Nat /\ n # 0 /\ a \in Applied
  <2> DEFINE s == w.applied
  <2>1. s \in Seq(Applied) /\ s # <<>>
    BY <1>3
  <2> HIDE DEF s, Applied
  <2>2. Len(s) \in Nat /\ Len(s) # 0 /\ s[Len(s)] \in Applied
    BY <2>1
  <2> QED BY <2>2 DEF s
<1>5. n # 1 => rest \in Seq(Applied) /\ rest # <<>>
  <2> DEFINE s == w.applied
  <2>1. s \in Seq(Applied) /\ Len(s) \in Nat /\ Len(s) # 0
    BY <1>3, <1>4
  <2> HIDE DEF s, Applied
  <2>2. SubSeq(s, 1, Len(s) - 1) \in Seq(Applied) /\ Len(SubSeq(s, 1, Len(s) - 1)) = Len(s) - 1
    <3> DEFINE m == Len(s) - 1
    <3>1. 1 \in Int /\ m \in Int /\ (1 <= m => m - 1 + 1 = m) /\ (~(1 <= m) => m = 0)
      <4> DEFINE l == Len(s)
      <4>1. l \in Nat /\ l # 0
        BY <2>1
      <4> HIDE DEF l
      <4>2. m = l - 1
        BY DEF l
      <4> HIDE DEF m
      <4>3. m \in Nat
        BY <4>1, <4>2
      <4> QED BY <4>3
    <3>2. \A j \in 1 .. m : s[j] \in Applied
      BY <2>1, ElementOfSeq
    <3> HIDE DEF m
    <3>3. SubSeq(s, 1, m) \in Seq(Applied) /\ Len(SubSeq(s, 1, m)) = IF 1 <= m THEN m - 1 + 1 ELSE 0
      BY <3>1, <3>2, SubSeqProperties
    <3>4. SubSeq(s, 1, m) \in Seq(Applied) /\ Len(SubSeq(s, 1, m)) = m
      BY <3>1, <3>3
    <3> QED BY <3>4 DEF m
  <2>3. Len(s) # 1 => SubSeq(s, 1, Len(s) - 1) # <<>>
    <3> DEFINE z == SubSeq(s, 1, Len(s) - 1)
    <3>1. Len(z) = Len(s) - 1 /\ Len(<<>>) = 0
      BY <2>2
    <3> HIDE DEF z
    <3>2. Len(s) # 1 => z # <<>>
      BY <2>1, <3>1
    <3> QED BY <3>2 DEF z
  <2> QED BY <2>2, <2>3 DEF s
<1>6. Fits(ended)
  <2> HIDE DEF n, rest
  <2>1. CASE n = 1
    BY <2>1, IdleFits
  <2>2. CASE n # 1
    <3> DEFINE v == [w EXCEPT !.applied = rest]
    <3>1. v \in Call /\ v.pc = "rollback" /\ v.applied # <<>> /\ v.change = c
      BY <1>1, <1>3, <1>5, <2>2 DEF Call
    <3> HIDE DEF v
    <3>2. Fits(v)
      BY <1>1, <1>2, <3>1 DEF Fits
    <3> QED BY <2>2, <3>2 DEF v
  <2> QED BY <2>1, <2>2
<1>7. undo' = [undo EXCEPT ![u] = ended]
  BY DEF Rollback
<1> HIDE DEF ended
<1>8. undo' \in [Undoers -> Call] /\ \A x \in Undoers : undo'[x] = undo[x] \/ Fits(undo'[x])
  BY <1>6, <1>7 DEF WalkInv, TypeOK, Fits
<1>9. disk \in [Paths -> Content] /\ disturbed \in [Changes -> SUBSET (Changes \cup Reasons)] /\ Absent \in Content
  BY DEF WalkInv, TypeOK, Reasons, Content
<1>10. disk' \in [Paths -> Content]
  <2>1. disk' = disk \/ disk' = Restored(a)
    BY DEF Rollback
  <2> HIDE DEF a
  <2>2. a.row.path \in Paths /\ a.row.to \in Paths /\ a.row.after \in Content /\ a.bytes \in Content
    BY <1>4 DEF Row
  <2> QED BY <1>9, <2>1, <2>2 DEF Restored
<1>11. disturbed' \in [Changes -> SUBSET (Changes \cup Reasons)]
  <2> DEFINE D == Uncover(c, RowPaths(a.row))
  <2>1. disturbed' \in {D, [disturbed EXCEPT ![c] = @ \cup {"fault"}]}
    BY DEF Rollback
  <2>2. D \in [Changes -> SUBSET (Changes \cup Reasons)]
    BY <1>2, DisturbTyped DEF WalkInv
  <2>3. "fault" \in Reasons
    BY DEF Reasons
  <2> HIDE DEF D, c
  <2> QED BY <1>9, <2>1, <2>2, <2>3
<1> QED BY <1>1, <1>8, <1>10, <1>11, UndoMoves DEF WalkInv, TypeOK

LEMMA UndoFaultKeeps ==
  ASSUME WalkInv, NEW u \in Undoers, UndoFault(u)
  PROVE  WalkInv'
<1>1. /\ undo[u].pc \in {"reversing", "commit"} /\ undo' = [undo EXCEPT ![u] = Failing(undo[u])]
      /\ UNCHANGED <<disk, trash, writer, rows, left, images, status, disturbed>>
  BY DEF UndoFault
<1>2. Fits(Failing(undo[u]))
  BY <1>1, CallFits, FailingFits
<1>3. undo' \in [Undoers -> Call] /\ \A x \in Undoers : undo'[x] = undo[x] \/ Fits(undo'[x])
  BY <1>1, <1>2 DEF WalkInv, TypeOK, Fits
<1> QED BY <1>1, <1>3, UndoMoves DEF WalkInv, TypeOK, Reasons

\* The environment: an edit, an emptied trash, a crash.
LEMMA EditKeeps ==
  ASSUME WalkInv, NEW p \in Paths, NEW t \in Content, Edit(p, t)
  PROVE  WalkInv'
<1>1. /\ disk' = [disk EXCEPT ![p] = t] /\ disturbed' = Disturb("editor", {p})
      /\ UNCHANGED <<trash, writer, rows, left, images, status, undo>>
  BY DEF Edit
<1>2. disk' \in [Paths -> Content]
  BY <1>1 DEF WalkInv, TypeOK
<1>3. disturbed' \in [Changes -> SUBSET (Changes \cup Reasons)]
  BY <1>1, DisturbTyped DEF WalkInv
<1> QED BY <1>1, <1>2, <1>3, UndoMoves DEF WalkInv, TypeOK

LEMMA LoseTrashKeeps ==
  ASSUME WalkInv, NEW c \in Changes, LoseTrash(c)
  PROVE  WalkInv'
<1>1. /\ trash' = [trash EXCEPT ![c] = [p \in Paths |-> Absent]]
      /\ disturbed' = [disturbed EXCEPT ![c] = @ \cup {"editor"}]
      /\ UNCHANGED <<disk, writer, rows, left, images, status, undo>>
  BY DEF LoseTrash
<1>2. trash' \in [Changes -> [Paths -> Content]]
  <2> DEFINE e == [p \in Paths |-> Absent]
  <2>1. e \in [Paths -> Content]
    BY DEF Content
  <2>2. trash' = [trash EXCEPT ![c] = e] /\ trash \in [Changes -> [Paths -> Content]]
    BY <1>1 DEF WalkInv, TypeOK
  <2> HIDE DEF e
  <2> QED BY <2>1, <2>2
<1>3. disturbed' \in [Changes -> SUBSET (Changes \cup Reasons)]
  <2>1. disturbed \in [Changes -> SUBSET (Changes \cup Reasons)] /\ "editor" \in Reasons
    BY DEF WalkInv, TypeOK, Reasons
  <2> QED BY <1>1, <2>1
<1> QED BY <1>1, <1>2, <1>3, UndoMoves DEF WalkInv, TypeOK

LEMMA CrashKeeps ==
  ASSUME WalkInv, Crash
  PROVE  WalkInv'
<1>1. /\ writer' = [c \in Changes |-> IF writer[c] = "writing" \/ left[c] > 0 THEN "lost" ELSE writer[c]]
      /\ undo' = [u \in Undoers |-> IdleUndo]
      /\ disturbed' = [c \in Changes |->
           IF Active(c) # {} THEN disturbed[c] \cup {"crash"} ELSE disturbed[c]]
      /\ UNCHANGED <<disk, trash, rows, left, status, images>>
  BY DEF Crash
<1>2. IdleUndo \in Call /\ IdleUndo.pc = "idle"
  BY IdleFits DEF Fits, IdleUndo
<1>3. writer \in [Changes -> {"idle", "writing", "recorded", "failed", "lost"}]
  BY DEF WalkInv, TypeOK
<1>4. disturbed' \in [Changes -> SUBSET (Changes \cup Reasons)]
  <2>1. disturbed \in [Changes -> SUBSET (Changes \cup Reasons)] /\ "crash" \in Reasons
    BY DEF WalkInv, TypeOK, Reasons
  <2> QED BY <1>1, <2>1
<1>5. undo' \in [Undoers -> Call] /\ \A u \in Undoers : undo'[u].pc = "idle"
  BY <1>1, <1>2
<1>6. TypeOK'
  <2>1. writer' \in [Changes -> {"idle", "writing", "recorded", "failed", "lost"}]
    BY <1>1, <1>3
  <2> QED BY <1>1, <1>4, <1>5, <2>1 DEF WalkInv, TypeOK, Reasons
<1>7. Walking'
  <2>1. \A c \in Changes : /\ writer'[c] \in {"writing", "recorded"} => writer[c] = writer'[c]
                           /\ Sound(c) /\ writer[c] = "recorded" => writer'[c] = "recorded"
                           /\ left[c] > 0 => writer'[c] = "lost"
    BY <1>1 DEF Sound
  <2>2. \A c \in Changes : Sound(c)'
    <3> SUFFICES ASSUME NEW c \in Changes PROVE Sound(c)'
      OBVIOUS
    <3>1. Sound(c)
      BY DEF WalkInv, Walking
    <3> QED BY <1>1, <2>1, <3>1 DEF Sound
  <2> QED BY <1>1, <1>5, <2>2 DEF WalkInv, Walking
<1> QED BY <1>6, <1>7 DEF WalkInv

LEMMA InitWalks ==
  ASSUME Init
  PROVE  WalkInv
<1>1. TypeOK
  <2>1. disk \in [Paths -> Content]
    BY PlanAssumption DEF Init
  <2>2. trash \in [Changes -> [Paths -> Content]]
    BY DEF Init, Content
  <2>3. undo \in [Undoers -> Call] /\ \A u \in Undoers : undo[u].pc = "idle"
    BY IdleFits DEF Init, Fits, IdleUndo
  <2>4. rows \in [Changes -> Seq(Row)]
    <3>1. <<>> \in Seq(Row)
      OBVIOUS
    <3> QED BY <3>1 DEF Init
  <2> QED BY <2>1, <2>2, <2>3, <2>4 DEF Init, TypeOK
<1>2. Walking
  BY DEF Init, Walking, Sound, IdleUndo
<1> QED BY <1>1, <1>2 DEF WalkInv

LEMMA StepWalks ==
  ASSUME WalkInv, [Next]_vars
  PROVE  WalkInv'
<1>1. ASSUME NEW c \in Changes,
             Read(c) \/ WriteStep(c) \/ Record(c) \/ Fail(c) \/ PutBack(c) \/ LoseTrash(c)
      PROVE  WalkInv'
  BY <1>1, ReadKeeps, WriteStepKeeps, RecordKeeps, FailKeeps, PutBackKeeps, LoseTrashKeeps
<1>2. ASSUME NEW u \in Undoers, NEW c \in Changes, BeginUndo(u, c) PROVE WalkInv'
  BY <1>2, BeginUndoKeeps
<1>3. ASSUME NEW u \in Undoers, UndoStep(u) \/ UndoFault(u) PROVE WalkInv'
  BY <1>3, PreflightKeeps, ReverseKeeps, CommitKeeps, RollbackKeeps, UndoFaultKeeps DEF UndoStep
<1>4. ASSUME NEW p \in Paths, NEW t \in Content, Edit(p, t) PROVE WalkInv'
  BY <1>4, EditKeeps
<1>5. CASE Crash
  BY <1>5, CrashKeeps
<1>6. ASSUME NEW c \in Changes, NEW t \in Texts, NEW i \in DOMAIN rows[c], Rewrite(c, i, t) PROVE WalkInv'
  BY <1>6, RewriteKeeps
<1>7. CASE UNCHANGED vars
  BY <1>7 DEF vars, WalkInv, TypeOK, Walking, Sound
<1> QED BY <1>1, <1>2, <1>3, <1>4, <1>5, <1>6, <1>7 DEF Next

\* Every call of undo walks the rows of a recorded change: a rollback never has
\* nothing to roll back, and the rows reversed and those still to reverse are
\* together all the rows of the change (journal.ts, undo and its catch block).
THEOREM TypeCorrect == Spec => []TypeOK
<1>1. Init => WalkInv
  BY InitWalks
<1>2. WalkInv /\ [Next]_vars => WalkInv'
  BY StepWalks
<1>3. WalkInv => TypeOK
  BY DEF WalkInv
<1> QED BY <1>1, <1>2, <1>3, PTL DEF Spec

-----------------------------------------------------------------------------
(* What the files of a change hold.                                         *)

\* Nothing but other changes and a cut-short undo of its own disturbs c; nothing but
\* other changes; and those may still be undone.
Clean(c) == disturbed[c] \subseteq Changes \cup {"crash"}

Free(c) == disturbed[c] \subseteq Changes

Removable(c) == \A d \in disturbed[c] \cap Changes :
                  Free(d) /\ status[d] # "undone" /\ writer[d] \in {"writing", "recorded"}

\* The files c has written, and the changes that wrote p after it.
Written(c) == UNION {RowPaths(rows[c][i]) : i \in DOMAIN rows[c]}

Over(c, p) == {d \in disturbed[c] \cap Changes : p \in Written(d)}

Last(c) == Len(rows[c]) + 1

Planned(r, s) == /\ r.kind = KindOf(s) /\ r.path = s.path /\ r.to = s.to
                 /\ s.op = "create" => r.after # Absent

Shape(c) ==
  /\ writer[c] = "idle" => /\ rows[c] = <<>> /\ images[c] = <<>> /\ disturbed[c] = {}
                           /\ trash[c] = [p \in Paths |-> Absent]
  /\ writer[c] # "idle" => images[c] \in Seq([PathsOf(c) -> Content]) /\ Len(images[c]) = Last(c)
  /\ Len(rows[c]) <= Len(Plan[c])
  /\ \A i \in DOMAIN rows[c] : Planned(rows[c][i], Plan[c][i])
  /\ writer[c] = "recorded" => Len(rows[c]) = Len(Plan[c]) /\ status[c] # "none"
  /\ \A d \in disturbed[c] \cap Changes : d # c /\ writer[d] # "idle"
  /\ writer[c] # "recorded" /\ Clean(c) => disturbed[c] = {}

\* A row tells what its step made of the files, from a to b, and what it has made of
\* them still holds when the operation is over.
Effect(r, a, b) ==
  /\ \A p \in DOMAIN a \ RowPaths(r) : a[p] = b[p]
  /\ r.kind = "text" => a[r.path] = r.before /\ b[r.path] = r.after
  /\ r.kind = "binary" => a[r.path] = Absent /\ r.before = Absent /\ b[r.path] # Absent
  /\ r.kind = "trash" => a[r.path] # Absent /\ b[r.path] = Absent /\ r.after = Absent
  /\ r.kind = "move" => /\ r.to # r.path
                        /\ a[r.path] # Absent /\ a[r.to] = Absent
                        /\ b[r.path] = Absent /\ b[r.to] = a[r.path]

Final(r, b) ==
  /\ r.kind \in {"text", "trash"} => b[r.path] = r.after
  /\ r.kind = "binary" => b[r.path] # Absent
  /\ r.kind = "move" => b[r.path] = Absent /\ b[r.to] # Absent

Hashed(r, b) ==
  r.hash = CASE r.kind = "move" -> b[r.to] [] r.kind = "binary" -> b[r.path] [] OTHER -> r.after

Told(c) == Clean(c) => \A i \in DOMAIN rows[c] :
  /\ Effect(rows[c][i], images[c][i], images[c][i + 1])
  /\ Final(rows[c][i], images[c][Last(c)])
  /\ writer[c] \in {"writing", "recorded"} /\ Plan[c][i].op \in {"delete", "trash"}
       => trash[c][rows[c][i].path] = images[c][i][rows[c][i].path]
  /\ writer[c] = "recorded" => Hashed(rows[c][i], images[c][Last(c)])

\* An operation nobody disturbs finds the files as it left them.
Working(c) == writer[c] = "writing" /\ disturbed[c] = {} =>
  /\ View(c, disk) = images[c][Last(c)]
  /\ \A p \in PathsOf(c) \ Written(c) : images[c][1][p] = disk[p]

\* Of two changes of one file one came after the other, and only one did.
Order(c, d) == Clean(c) /\ Clean(d) =>
  /\ c # d /\ Written(c) \cap Written(d) # {} =>
       /\ writer[d] = "writing" /\ writer[c] \in {"writing", "recorded"} => d \in disturbed[c]
       /\ writer[c] = "recorded" /\ writer[d] = "recorded" /\ status[c] # "undone" /\ status[d] # "undone"
            => c \in disturbed[d] \/ d \in disturbed[c]
  /\ ~(c \in disturbed[d] /\ d \in disturbed[c])

Histories ==
  /\ images = [c \in Changes |-> images[c]]
  /\ \A c \in Changes : Shape(c) /\ Told(c) /\ Working(c)
  /\ \A c \in Changes, d \in Changes : Order(c, d)

-----------------------------------------------------------------------------
\* Steps that leave the operations alone but for ending them, disturb changes further,
\* and take a change off the others only when it has been undone.
Calm ==
  /\ UNCHANGED <<rows, images>>
  /\ \A c \in Changes :
       /\ writer'[c] = writer[c] \/ (writer[c] \in {"writing", "failed"} /\ writer'[c] \in {"failed", "lost"})
       /\ disturbed'[c] \cap Changes \subseteq disturbed[c]
       /\ disturbed[c] \ Changes \subseteq disturbed'[c]
       /\ writer[c] = "idle" => disturbed'[c] = {}
       /\ writer[c] # "recorded" /\ disturbed[c] = {} => "crash" \notin disturbed'[c]
       /\ \A d \in (disturbed[c] \cap Changes) \ disturbed'[c] : 
            /\ writer[d] = "recorded" /\ disturbed[d] = {}
            /\ status[d] = "applied" /\ status'[d] = "undone"
       /\ status[c] = "undone" => status'[c] = "undone"
       /\ status[c] # "none" => status'[c] # "none"
       /\ trash'[c] = trash[c] \/ ~Clean(c)' \/ writer[c] = "failed"
       /\ writer[c] = "writing" /\ disturbed'[c] = {} => \A p \in PathsOf(c) : disk'[p] = disk[p]

LEMMA CalmClean ==
  ASSUME Calm, NEW c \in Changes
  PROVE  /\ Clean(c)' => Clean(c)
         /\ Free(c)' => Free(c)
         /\ Removable(c)' => Removable(c)
         /\ Written(c)' = Written(c)
         /\ Last(c)' = Last(c)
<1>1. Clean(c)' => Clean(c)
  BY DEF Calm, Clean
<1>2. Free(c)' => Free(c)
  BY DEF Calm, Free
<1>3. Written(c)' = Written(c) /\ Last(c)' = Last(c)
  BY DEF Calm, Written, Last
<1>4. Removable(c)' => Removable(c)
  <2> SUFFICES ASSUME Removable(c)', NEW d \in disturbed[c] \cap Changes
               PROVE  Free(d) /\ status[d] # "undone" /\ writer[d] \in {"writing", "recorded"}
    BY DEF Removable
  <2>1. CASE d \in disturbed'[c]
    <3>1. Free(d)' /\ status'[d] # "undone" /\ writer'[d] \in {"writing", "recorded"}
      BY <2>1 DEF Removable
    <3>2. Free(d)
      BY <3>1 DEF Calm, Free
    <3> QED BY <3>1, <3>2 DEF Calm
  <2>2. CASE d \notin disturbed'[c]
    BY <2>2 DEF Calm, Free
  <2> QED BY <2>1, <2>2
<1> QED BY <1>1, <1>2, <1>3, <1>4

LEMMA CalmKeeps ==
  ASSUME WalkInv, Histories, Calm
  PROVE  Histories'
<1>1. ASSUME NEW c \in Changes PROVE Shape(c)'
  <2>1. Shape(c)
    BY DEF Histories
  <2>2. writer'[c] # "recorded" /\ Clean(c)' => disturbed'[c] = {}
    <3> SUFFICES ASSUME writer'[c] # "recorded", Clean(c)' PROVE disturbed'[c] = {}
      OBVIOUS
    <3>1. disturbed[c] = {} /\ writer[c] # "recorded"
      BY <2>1, CalmClean DEF Shape, Calm
    <3>2. disturbed'[c] \subseteq {"crash"}
      BY <3>1 DEF Calm, Clean
    <3>3. "crash" \notin disturbed'[c]
      BY <3>1 DEF Calm
    <3> QED BY <3>2, <3>3
  <2>3. writer'[c] = "idle" => trash'[c] = [p \in Paths |-> Absent] /\ disturbed'[c] = {}
    <3> SUFFICES ASSUME writer'[c] = "idle"
                 PROVE  trash'[c] = [p \in Paths |-> Absent] /\ disturbed'[c] = {}
      OBVIOUS
    <3>1. writer[c] = "idle" /\ disturbed'[c] = {}
      BY DEF Calm
    <3>2. Clean(c)'
      BY <3>1 DEF Clean
    <3> QED BY <2>1, <3>1, <3>2 DEF Calm, Shape
  <2>4. writer'[c] = "idle" => writer[c] = "idle"
    BY DEF Calm
  <2>5. writer'[c] # "idle" => writer[c] # "idle"
    BY DEF Calm
  <2>6. rows' = rows /\ images' = images /\ Last(c)' = Last(c)
    BY CalmClean DEF Calm
  <2>7. writer'[c] \in {"writing", "recorded"} => writer'[c] = writer[c]
    BY DEF Calm
  <2>8. status[c] # "none" => status'[c] # "none"
    BY DEF Calm
  <2>9. \A d \in disturbed'[c] \cap Changes : d # c /\ writer'[d] # "idle"
    BY <2>1 DEF Calm, Shape
  <2> QED BY <2>1, <2>2, <2>3, <2>4, <2>5, <2>6, <2>7, <2>8, <2>9 DEF Shape
<1>2. ASSUME NEW c \in Changes PROVE Told(c)'
  <2> SUFFICES ASSUME Clean(c)', NEW i \in DOMAIN rows[c]
               PROVE  /\ Effect(rows[c][i], images[c][i], images[c][i + 1])
                      /\ Final(rows[c][i], images[c][Last(c)])
                      /\ writer'[c] \in {"writing", "recorded"} /\ Plan[c][i].op \in {"delete", "trash"}
                           => trash'[c][rows[c][i].path] = images[c][i][rows[c][i].path]
                      /\ writer'[c] = "recorded" => Hashed(rows[c][i], images[c][Last(c)])
    BY CalmClean DEF Told, Calm
  <2>1. Clean(c) /\ (writer'[c] \in {"writing", "recorded"} => writer[c] = writer'[c] /\ trash'[c] = trash[c])
    BY CalmClean DEF Calm
  <2>2. Told(c)
    BY DEF Histories
  <2> QED BY <2>1, <2>2 DEF Told
<1>3. ASSUME NEW c \in Changes PROVE Working(c)'
  <2> SUFFICES ASSUME writer'[c] = "writing", disturbed'[c] = {}
               PROVE  /\ View(c, disk)' = images[c][Last(c)]
                      /\ \A p \in PathsOf(c) \ Written(c) : images[c][1][p] = disk'[p]
    BY CalmClean DEF Working, Calm
  <2>1. writer[c] = "writing" /\ Clean(c) /\ \A p \in PathsOf(c) : disk'[p] = disk[p]
    <3>1. writer[c] = "writing" /\ \A p \in PathsOf(c) : disk'[p] = disk[p]
      BY DEF Calm
    <3>2. Clean(c)'
      BY DEF Clean
    <3> QED BY <3>1, <3>2, CalmClean
  <2>2. disturbed[c] = {} /\ Working(c)
    BY <2>1 DEF Histories, Shape
  <2>3. View(c, disk)' = View(c, disk)
    BY <2>1 DEF View
  <2> QED BY <2>1, <2>2, <2>3 DEF Working
<1>4. ASSUME NEW c \in Changes, NEW d \in Changes PROVE Order(c, d)'
  BY CalmClean DEF Histories, Order, Calm
<1> QED BY <1>1, <1>2, <1>3, <1>4 DEF Histories, Calm

-----------------------------------------------------------------------------
(* Where a recorded change stands.                                          *)

Reverting == {"reversing", "commit", "rollback"}

\* How far undos may have brought it: a running one says so, and one that looks at the
\* rows knows it of those it has seen; else the status does, unless a crash came between.
Steps(c) ==
  {k \in DOMAIN images[c] :
     /\ \A u \in Undoers : undo[u].change = c =>
          /\ undo[u].pc \in Reverting => k = Last(c) - Len(undo[u].applied)
          /\ undo[u].pc = "preflight" =>
               \A j \in undo[u].i + 1 .. Len(rows[c]) : \A p \in RowPaths(rows[c][j]) :
                  images[c][k][p] = images[c][Last(c)][p]
     /\ "crash" \notin disturbed[c] /\ Active(c) = {}
          => k = IF status[c] = "applied" THEN Last(c) ELSE 1}

\* The lowest of the changes above c in a file found there what c had left.
Lies(c, k) ==
  \A p \in PathsOf(c) : \A d \in Over(c, p) :
     Over(c, p) \ {d} \subseteq disturbed[d] => images[d][1][p] = images[c][k][p]

Holds(c, k) == \A p \in PathsOf(c) : Over(c, p) = {} => disk[p] = images[c][k][p]

Standing(c) ==
  status[c] # "none" /\ Clean(c) /\ Removable(c) => \E k \in Steps(c) : Holds(c, k) /\ Lies(c, k)

\* What a call of undo has reversed, in the order it did.
Reversal(c, a, j) ==
  /\ a.row = rows[c][Last(c) - j]
  /\ Clean(c) /\ Removable(c) /\ a.row.kind = "binary" => a.bytes = images[c][Last(c) - j + 1][a.row.path]

Calls(u) ==
  IF undo[u].pc = "idle" THEN undo[u].change = Absent
  ELSE /\ status[undo[u].change] = "applied"
       /\ Len(undo[u].applied) <= Len(rows[undo[u].change])
       /\ \A j \in 1 .. Len(undo[u].applied) : Reversal(undo[u].change, undo[u].applied[j], j)

Alone == \A u \in Undoers, v \in Undoers :
  undo[u].change = undo[v].change /\ undo[u].change \in Changes => u = v

DiskInv ==
  /\ WalkInv /\ Histories /\ Alone
  /\ \A u \in Undoers : Calls(u)
  /\ \A c \in Changes : Standing(c)

Steady == \A c \in Changes : disturbed'[c] \cap Changes = disturbed[c] \cap Changes

LEMMA LiesKeeps ==
  ASSUME Calm, Steady, NEW c \in Changes, NEW k, Clean(c)', Removable(c)', Lies(c, k)
  PROVE  Lies(c, k)' /\ \A p : Over(c, p)' = Over(c, p)
<1>1. \A p : Over(c, p)' = Over(c, p)
  BY CalmClean DEF Steady, Over
<1>2. ASSUME NEW p \in PathsOf(c), NEW d \in Over(c, p), Over(c, p) \ {d} \subseteq disturbed'[d]
      PROVE  images[d][1][p] = images[c][k][p]
  <2>1. d \in Changes /\ d \in disturbed'[c]
    BY <1>1 DEF Over, Steady
  <2>2. disturbed'[d] \subseteq disturbed[d]
    BY <2>1 DEF Removable, Free, Steady
  <2> QED BY <1>2, <2>2 DEF Lies
<1>3. images' = images
  BY DEF Calm
<1> QED BY <1>1, <1>2, <1>3 DEF Lies

LEMMA StandingKeeps ==
  ASSUME Calm, Steady, NEW c \in Changes, Standing(c),
         status'[c] # "none" => status[c] # "none",
         Clean(c)' /\ Removable(c)' =>
           /\ Steps(c) \subseteq Steps(c)'
           /\ \A p \in PathsOf(c) : Over(c, p) = {} => disk'[p] = disk[p]
  PROVE  Standing(c)'
<1> SUFFICES ASSUME status'[c] # "none", Clean(c)', Removable(c)'
             PROVE  \E k \in Steps(c)' : Holds(c, k)' /\ Lies(c, k)'
  BY DEF Standing
<1>1. PICK k \in Steps(c) : Holds(c, k) /\ Lies(c, k)
  BY CalmClean DEF Standing
<1>2. Lies(c, k)' /\ \A p : Over(c, p)' = Over(c, p)
  BY <1>1, LiesKeeps
<1>3. Holds(c, k)'
  BY <1>1, <1>2 DEF Holds, Calm
<1> QED BY <1>1, <1>2, <1>3

\* A change no call of undo works on.
LEMMA StepsKeep ==
  ASSUME Calm, NEW c \in Changes, status'[c] = status[c],
         "crash" \in disturbed'[c] <=> "crash" \in disturbed[c],
         \A u \in Undoers : undo[u].change = c \/ undo'[u].change = c => undo'[u] = undo[u]
  PROVE  Steps(c)' = Steps(c)
<1>1. Active(c)' = Active(c)
  BY DEF Active
<1>2. rows' = rows /\ images' = images /\ Last(c)' = Last(c)
  BY CalmClean DEF Calm
<1> QED BY <1>1, <1>2 DEF Steps

LEMMA CallsKeep ==
  ASSUME Calm, NEW u \in Undoers, undo'[u] = undo[u], Calls(u), WalkInv,
         undo[u].pc # "idle" => status'[undo[u].change] = status[undo[u].change]
  PROVE  Calls(u)'
<1> SUFFICES ASSUME undo[u].pc # "idle"
             PROVE  Calls(u)'
  BY DEF Calls
<1> DEFINE c == undo[u].change
<1>1. c \in Changes
  BY DEF WalkInv, Walking
<1>2. undo'[u].change = c /\ undo'[u].applied = undo[u].applied /\ rows' = rows
  BY DEF Calm
<1>3. \A a, j : Reversal(c, a, j) => Reversal(c, a, j)'
  BY <1>1, CalmClean DEF Reversal, Calm
<1> QED BY <1>1, <1>2, <1>3 DEF Calls

-----------------------------------------------------------------------------
\* A row names the files of its step.
LEMMA RowsArePlanned ==
  ASSUME WalkInv, NEW c \in Changes, Shape(c), NEW i \in DOMAIN rows[c]
  PROVE  /\ i \in DOMAIN Plan[c] /\ rows[c][i] \in Row /\ Plan[c][i] \in Step
         /\ RowPaths(rows[c][i]) = StepPaths(Plan[c][i])
         /\ RowPaths(rows[c][i]) \subseteq PathsOf(c) /\ RowPaths(rows[c][i]) \subseteq Written(c)
<1>1. rows[c] \in Seq(Row) /\ Plan[c] \in Seq(Step) /\ Len(rows[c]) <= Len(Plan[c])
  BY PlanAssumption DEF WalkInv, TypeOK, Shape
<1>2. i \in DOMAIN Plan[c]
  BY <1>1
<1>3. rows[c][i] \in Row /\ Plan[c][i] \in Step
  BY <1>1, <1>2
<1>4. RowPaths(rows[c][i]) = StepPaths(Plan[c][i])
  <2>1. Planned(rows[c][i], Plan[c][i])
    BY DEF Shape
  <2> QED BY <1>3, <2>1 DEF Planned, RowPaths, StepPaths, KindOf, Step
<1> QED BY <1>2, <1>3, <1>4 DEF PathsOf, Written

LEMMA WrittenPaths ==
  ASSUME WalkInv, NEW c \in Changes, Shape(c)
  PROVE  /\ Written(c) \subseteq PathsOf(c)
         /\ writer[c] = "recorded" => Written(c) = PathsOf(c)
<1>1. Written(c) \subseteq PathsOf(c)
  BY RowsArePlanned DEF Written
<1>2. ASSUME writer[c] = "recorded", NEW p \in PathsOf(c) PROVE p \in Written(c)
  <2>1. PICK i \in DOMAIN Plan[c] : p \in StepPaths(Plan[c][i])
    BY DEF PathsOf
  <2>2. i \in DOMAIN rows[c]
    <3>1. Len(rows[c]) = Len(Plan[c]) /\ rows[c] \in Seq(Row) /\ Plan[c] \in Seq(Step)
      BY <1>2, PlanAssumption DEF WalkInv, TypeOK, Shape
    <3> QED BY <3>1
  <2> QED BY <2>1, <2>2, RowsArePlanned
<1> QED BY <1>1, <1>2

LEMMA Indices ==
  ASSUME WalkInv, Histories, NEW c \in Changes, writer[c] # "idle"
  PROVE  /\ Len(rows[c]) \in Nat /\ DOMAIN rows[c] = 1 .. Len(rows[c])
         /\ Last(c) \in Nat /\ Last(c) = Len(rows[c]) + 1 /\ Last(c) - 1 = Len(rows[c])
         /\ DOMAIN images[c] = 1 .. Last(c)
         /\ \A k \in 1 .. Last(c) : images[c][k] \in [PathsOf(c) -> Content]
<1>1. rows[c] \in Seq(Row) /\ images[c] \in Seq([PathsOf(c) -> Content]) /\ Len(images[c]) = Last(c)
  BY DEF WalkInv, TypeOK, Histories, Shape
<1>2. Len(rows[c]) \in Nat /\ DOMAIN rows[c] = 1 .. Len(rows[c])
  BY <1>1
<1> DEFINE n == Len(rows[c])
<1>3. Last(c) \in Nat /\ Last(c) = n + 1 /\ Last(c) - 1 = n
  <2>1. n \in Nat /\ Last(c) = n + 1
    BY <1>2 DEF Last
  <2> HIDE DEF n
  <2> QED BY <2>1
<1>4. DOMAIN images[c] = 1 .. Last(c) /\ \A k \in 1 .. Last(c) : images[c][k] \in [PathsOf(c) -> Content]
  BY <1>1
<1> QED BY <1>1, <1>2, <1>3, <1>4

\* The snapshot of a binary put into the trash.
LEMMA Snapshots ==
  ASSUME WalkInv, Histories, NEW c \in Changes, writer[c] = "recorded", Clean(c), NEW i \in DOMAIN rows[c],
         rows[c][i].kind = "trash"
  PROVE  trash[c][rows[c][i].path] = images[c][i][rows[c][i].path]
<1>1. Planned(rows[c][i], Plan[c][i]) /\ Told(c) /\ Plan[c][i] \in Step
  BY RowsArePlanned DEF Histories, Shape
<1>2. Plan[c][i].op = "trash"
  BY <1>1 DEF Planned, KindOf, Step
<1> QED BY <1>1, <1>2 DEF Told

\* A row passes the preflight exactly when its files hold what the operation left.
LEMMA PostStates ==
  ASSUME WalkInv, Histories, NEW c \in Changes, writer[c] = "recorded", Clean(c), NEW i \in DOMAIN rows[c]
  PROVE  PostState(c, rows[c][i]) <=>
           \A p \in RowPaths(rows[c][i]) : disk[p] = images[c][Last(c)][p]
<1> DEFINE r == rows[c][i]
           b == images[c][Last(c)]
<1>1. /\ Final(r, b) /\ Hashed(r, b)
      /\ r.kind = "trash" => trash[c][r.path] # Absent /\ r.after = Absent
  <2>1. Told(c)
    BY DEF Histories
  <2>2. /\ Final(r, b) /\ Hashed(r, b) /\ Effect(r, images[c][i], images[c][i + 1])
        /\ r.kind = "trash" => trash[c][r.path] = images[c][i][r.path]
    BY <2>1, Snapshots DEF Told
  <2> QED BY <2>2 DEF Effect
<1>2. r \in Row
  BY RowsArePlanned DEF Histories
<1> HIDE DEF r, b
<1>3. PostState(c, r) <=> \A p \in RowPaths(r) : disk[p] = b[p]
  BY <1>1, <1>2 DEF PostState, RowPaths, Final, Hashed, Row
<1> QED BY <1>3 DEF r, b

-----------------------------------------------------------------------------
\* A write of a change c to files of its own, by one of its undos or its catch block.
LEMMA UncoverIsCalm ==
  ASSUME WalkInv, Histories, NEW c \in Changes, writer[c] \in {"recorded", "failed"}, NEW ps \in SUBSET Written(c),
         disturbed' = Uncover(c, ps), UNCHANGED <<rows, images, writer, status>>,
         \A d \in Changes : writer[d] # "failed" => trash'[d] = trash[d],
         \A p \in Paths \ ps : disk'[p] = disk[p]
  PROVE  /\ Calm /\ Steady
         /\ \A d \in Changes : "crash" \in disturbed'[d] <=> "crash" \in disturbed[d]
         /\ \A d \in Changes \ {c} : writer[d] = "recorded" /\ Clean(d)' =>
              \A p \in PathsOf(d) : Over(d, p) = {} => disk'[p] = disk[p]
         /\ Clean(c)' /\ Removable(c)' => \A p \in ps : Over(c, p) = {}
<1>1. \A d \in Changes : disturbed'[d] = IF d # c /\ Begun(d, ps) /\ c \notin disturbed[d]
                                         THEN disturbed[d] \cup {"undo"} ELSE disturbed[d]
  BY DEF Uncover
<1>2. "undo" \notin Changes /\ "undo" # "crash"
  BY PlanAssumption DEF Reasons
<1>3. Steady
  BY <1>1, <1>2 DEF Steady
<1>4. \A d \in Changes : "crash" \in disturbed'[d] <=> "crash" \in disturbed[d]
  BY <1>1, <1>2
<1>5. ASSUME NEW d \in Changes, d # c, NEW p \in PathsOf(d), disk'[p] # disk[p]
      PROVE  p \in ps /\ (writer[d] # "idle" => Begun(d, ps))
  BY <1>5, PathsArePaths DEF Begun
<1>6. Calm
  <2> SUFFICES ASSUME NEW d \in Changes
      PROVE /\ writer'[d] = writer[d] /\ (trash'[d] = trash[d] \/ writer[d] = "failed")
            /\ disturbed'[d] \cap Changes = disturbed[d] \cap Changes
            /\ disturbed[d] \ Changes \subseteq disturbed'[d]
            /\ writer[d] = "idle" => disturbed'[d] = {}
            /\ writer[d] # "recorded" /\ disturbed[d] = {} => "crash" \notin disturbed'[d]
            /\ writer[d] = "writing" /\ disturbed'[d] = {} => \A p \in PathsOf(d) : disk'[p] = disk[p]
    BY DEF Calm
  <2>1. disturbed'[d] \cap Changes = disturbed[d] \cap Changes /\ disturbed[d] \ Changes \subseteq disturbed'[d]
    BY <1>1, <1>2
  <2>2. writer[d] = "idle" => disturbed'[d] = {}
    <3>1. writer[d] = "idle" => disturbed[d] = {}
      BY DEF Histories, Shape
    <3> QED BY <1>1, <3>1 DEF Begun
  <2>3. writer[d] = "writing" /\ disturbed'[d] = {} => \A p \in PathsOf(d) : disk'[p] = disk[p]
    <3> SUFFICES ASSUME writer[d] = "writing", disturbed'[d] = {}, NEW p \in PathsOf(d), disk'[p] # disk[p]
                 PROVE  FALSE
      OBVIOUS
    <3>1. Begun(d, ps) /\ d # c
      BY <1>5
    <3> QED BY <1>1, <3>1
  <2> QED BY <1>4, <2>1, <2>2, <2>3
<1>7. ASSUME NEW d \in Changes, d # c, writer[d] = "recorded", Clean(d)', NEW p \in PathsOf(d), Over(d, p) = {}
      PROVE  disk'[p] = disk[p]
  <2> SUFFICES ASSUME disk'[p] # disk[p] PROVE FALSE
    OBVIOUS
  <2>1. p \in ps /\ Begun(d, ps)
    BY <1>5, <1>7
  <2>2. "undo" \notin disturbed'[d]
    BY <1>2, <1>7 DEF Clean
  <2>3. c \in disturbed[d]
    BY <1>1, <1>7, <2>1, <2>2
  <2> QED BY <1>7, <2>1, <2>3 DEF Over
<1>8. ASSUME Clean(c)', Removable(c)', NEW p \in ps, NEW d \in Over(c, p)
      PROVE  FALSE
  <2>1. d \in Changes /\ d \in disturbed[c] /\ p \in Written(d)
    BY DEF Over
  <2>2. Shape(c) /\ Shape(d) /\ Order(c, d)
    BY <2>1 DEF Histories
  <2>3. d # c /\ writer[d] # "idle" /\ p \in PathsOf(d)
    BY <2>1, <2>2, WrittenPaths DEF Shape
  <2>4. Free(d)' /\ Clean(d)'
    <3>1. d \in disturbed'[c]
      BY <1>3, <2>1 DEF Steady
    <3> QED BY <1>8, <2>1, <3>1 DEF Removable, Free, Clean
  <2>5. Clean(c) /\ Clean(d)
    BY <1>6, <1>8, <2>1, <2>4, CalmClean
  <2>6. c \notin disturbed[d]
    BY <2>1, <2>2, <2>5 DEF Order
  <2>7. "undo" \in disturbed'[d]
    BY <1>1, <2>1, <2>3, <2>6 DEF Begun
  <2> QED BY <1>2, <2>4, <2>7 DEF Free
<1> QED BY <1>3, <1>4, <1>6, <1>7, <1>8

\* Of the calls of undo at most one is at a change.
LEMMA Only ==
  ASSUME Alone, NEW u \in Undoers, undo[u].change \in Changes
  PROVE  /\ \A v \in Undoers \ {u} : undo[v].change # undo[u].change
         /\ Active(undo[u].change) = IF undo[u].pc \in Reverting THEN {u} ELSE {}
BY DEF Alone, Active, Reverting

\* One call of undo moves on: what else there is to show.
LEMMA OneCall ==
  ASSUME DiskInv, NEW u \in Undoers, NEW w, NEW c \in Changes,
         undo[u].change \in {c, Absent}, \A v \in Undoers \ {u} : undo[v].change # c,
         undo' = [undo EXCEPT ![u] = w], w.change \in {c, Absent}
  PROVE  /\ undo'[u] = w /\ \A v \in Undoers \ {u} : undo'[v] = undo[v] /\ undo[v].change # c
         /\ Absent \notin Changes /\ Alone'
         /\ Active(c)' = IF w.change = c /\ w.pc \in Reverting THEN {u} ELSE {}
<1>1. undo \in [Undoers -> Call] /\ Absent \notin Changes
  BY PlanAssumption DEF DiskInv, WalkInv, TypeOK
<1>2. undo'[u] = w /\ \A v \in Undoers \ {u} : undo'[v] = undo[v] /\ undo[v].change # c
  BY <1>1
<1>3. Alone'
  BY <1>1, <1>2 DEF Alone, DiskInv
<1>4. Active(c)' = IF w.change = c /\ w.pc \in Reverting THEN {u} ELSE {}
  BY <1>2 DEF Active, Reverting
<1> QED BY <1>1, <1>2, <1>3, <1>4

LEMMA OneCallMoves ==
  ASSUME DiskInv, WalkInv', Calm, Steady, NEW u \in Undoers, NEW w, NEW c \in Changes,
         undo[u].change \in {c, Absent}, \A v \in Undoers \ {u} : undo[v].change # c,
         undo' = [undo EXCEPT ![u] = w], w.change \in {c, Absent},
         UNCHANGED <<writer, status>>,
         \A d \in Changes \ {c} : "crash" \in disturbed'[d] <=> "crash" \in disturbed[d],
         \A d \in Changes \ {c} : writer[d] = "recorded" /\ Clean(d)' =>
              \A p \in PathsOf(d) : Over(d, p) = {} => disk'[p] = disk[p],
         Calls(u)', Standing(c)'
  PROVE  DiskInv'
<1>1. Absent \notin Changes /\ Alone'
  BY OneCall
<1>2. undo'[u] = w /\ \A v \in Undoers \ {u} : undo'[v] = undo[v] /\ undo[v].change # c
  BY OneCall
<1>3. Histories'
  BY CalmKeeps DEF DiskInv
<1>5. \A v \in Undoers : Calls(v)'
  BY <1>2, CallsKeep DEF DiskInv
<1>6. ASSUME NEW d \in Changes, d # c PROVE Standing(d)'
  <2>1. Steps(d)' = Steps(d)
    BY <1>1, <1>2, <1>6, StepsKeep
  <2>2. status[d] # "none" => writer[d] = "recorded"
    BY DEF DiskInv, WalkInv, Walking, Sound
  <2>3. CASE status[d] = "none"
    BY <2>3 DEF Standing
  <2>4. CASE status[d] # "none"
    <3>1. Standing(d)
      BY DEF DiskInv
    <3> QED BY <1>6, <2>1, <2>2, <2>4, <3>1, StandingKeeps
  <2> QED BY <2>3, <2>4
<1> QED BY <1>1, <1>3, <1>5, <1>6 DEF DiskInv

\* Where the change of the call may then stand.
LEMMA StepsNow ==
  ASSUME NEW u \in Undoers, NEW c \in Changes, NEW k, k \in DOMAIN images'[c],
         \A v \in Undoers \ {u} : undo'[v].change # c,
         undo'[u].change = c =>
           /\ undo'[u].pc \in Reverting => k = Last(c)' - Len(undo'[u].applied)
           /\ undo'[u].pc = "preflight" =>
                \A j \in undo'[u].i + 1 .. Len(rows'[c]) : \A p \in RowPaths(rows'[c][j]) :
                   images'[c][k][p] = images'[c][Last(c)'][p],
         "crash" \notin disturbed'[c] /\ Active(c)' = {} => k = IF status'[c] = "applied" THEN Last(c)' ELSE 1
  PROVE  k \in Steps(c)'
BY DEF Steps

LEMMA BeginUndoStands ==
  ASSUME ~Twice, DiskInv, WalkInv', NEW u \in Undoers, NEW c \in Changes, BeginUndo(u, c)
  PROVE  DiskInv'
<1>1. PICK w : w = [IdleUndo EXCEPT !.pc = "preflight", !.change = c, !.i = Len(rows[c])]
  OBVIOUS
<1>2. /\ undo[u].pc = "idle" /\ status[c] = "applied" /\ \A v \in Undoers : undo[v].change # c
      /\ undo' = [undo EXCEPT ![u] = w]
      /\ UNCHANGED <<disk, trash, writer, rows, left, status, images, disturbed>>
  BY <1>1 DEF BeginUndo
<1>3. w.pc = "preflight" /\ w.change = c /\ w.i = Len(rows[c]) /\ w.applied = <<>>
  BY <1>1 DEF IdleUndo
<1>4. Calm /\ Steady
  BY <1>2 DEF Calm, Steady, DiskInv, Histories, Shape
<1>5. undo[u].change = Absent
  BY <1>2 DEF DiskInv, Calls
<1>6. /\ undo'[u] = w /\ \A v \in Undoers \ {u} : undo'[v].change # c
      /\ Active(c)' = {}
  <2>1. undo' = [undo EXCEPT ![u] = w] /\ w.change \in {c, Absent} /\ undo[u].change \in {c, Absent}
    BY <1>2, <1>3, <1>5
  <2>2. \A v \in Undoers \ {u} : undo[v].change # c
    BY <1>2
  <2>3. undo'[u] = w
    BY <2>1, <2>2, OneCall
  <2>4. \A v \in Undoers \ {u} : undo'[v] = undo[v] /\ undo[v].change # c
    BY <2>1, <2>2, OneCall
  <2>5. Active(c)' = IF w.change = c /\ w.pc \in Reverting THEN {u} ELSE {}
    BY <2>1, <2>2, OneCall
  <2> QED BY <1>3, <2>3, <2>4, <2>5 DEF Reverting
<1>7. writer[c] = "recorded" /\ rows[c] \in Seq(Row) /\ Len(rows[c]) \in Nat
  <2>1. writer[c] = "recorded"
    BY <1>2 DEF DiskInv, WalkInv, Walking, Sound
  <2>2. rows[c] \in Seq(Row)
    BY DEF DiskInv, WalkInv, TypeOK
  <2> QED BY <2>1, <2>2
<1>8. Calls(u)'
  BY <1>2, <1>3, <1>6, <1>7 DEF Calls
<1>9. Standing(c)'
  <2>1. ASSUME NEW k \in Steps(c) PROVE k \in Steps(c)'
    <3>1. k \in DOMAIN images[c] /\ ("crash" \notin disturbed[c] => k = Last(c))
      BY <1>2 DEF Steps, Active
    <3>2. images' = images /\ rows' = rows /\ Last(c)' = Last(c)
      BY <1>2 DEF Last
    <3>3. w.i + 1 .. Len(rows[c]) = {}
      BY <1>3, <1>7
    <3> QED BY <1>2, <1>3, <1>6, <3>1, <3>2, <3>3, StepsNow DEF Reverting
  <2> QED BY <1>2, <1>4, <2>1, StandingKeeps DEF DiskInv
<1> QED BY <1>2, <1>3, <1>4, <1>5, <1>8, <1>9, OneCallMoves

\* A call of undo that fails with nothing written.
LEMMA FailingStands ==
  ASSUME DiskInv, WalkInv', NEW u \in Undoers, undo[u].pc \in {"reversing", "commit"},
         undo' = [undo EXCEPT ![u] = Failing(undo[u])],
         UNCHANGED <<disk, trash, writer, rows, left, status, images, disturbed>>
  PROVE  DiskInv'
<1>1. PICK c \in Changes : undo[u].change = c
  BY DEF DiskInv, WalkInv, Walking
<1>2. PICK a : a = undo[u].applied
  OBVIOUS
<1>3. PICK w : w = Failing(undo[u])
  OBVIOUS
<1>4. writer[c] = "recorded" /\ status[c] = "applied" /\ Calls(u) /\ a \in Seq([row : Row, bytes : Content])
  BY <1>1, <1>2 DEF DiskInv, WalkInv, Walking, TypeOK, Calls, Call
<1>5. Calm /\ Steady
  BY DEF Calm, Steady, DiskInv, Histories, Shape
<1>6. \A x \in Undoers \ {u} : undo[x].change # c
  BY <1>1, Only DEF DiskInv
<1>7. \/ a = <<>> /\ w.pc = "idle" /\ w.change = Absent
      \/ w.pc = "rollback" /\ w.change = c /\ w.applied = a
  <2>1. undo[u] \in Call
    BY DEF DiskInv, WalkInv, TypeOK
  <2> QED BY <1>1, <1>2, <1>3, <2>1 DEF Failing, IdleUndo, Call
<1>8. /\ undo'[u] = w /\ \A x \in Undoers \ {u} : undo'[x] = undo[x] /\ undo[x].change # c
      /\ Absent \notin Changes
      /\ Active(c)' = IF w.change = c /\ w.pc \in Reverting THEN {u} ELSE {}
  <2>1. undo' = [undo EXCEPT ![u] = w] /\ w.change \in {c, Absent} /\ undo[u].change \in {c, Absent}
    BY <1>1, <1>3, <1>7
  <2>2. undo'[u] = w
    BY <1>6, <2>1, OneCall
  <2>3. \A x \in Undoers \ {u} : undo'[x] = undo[x] /\ undo[x].change # c
    BY <1>6, <2>1, OneCall
  <2>4. Absent \notin Changes
    BY <1>6, <2>1, OneCall
  <2>5. Active(c)' = IF w.change = c /\ w.pc \in Reverting THEN {u} ELSE {}
    BY <1>6, <2>1, OneCall
  <2> QED BY <2>2, <2>3, <2>4, <2>5
<1>9. Calls(u)'
  <2>1. \A x, j : Reversal(c, x, j) => Reversal(c, x, j)'
    BY <1>5, CalmClean DEF Reversal, Calm
  <2> QED BY <1>1, <1>2, <1>4, <1>7, <1>8, <2>1 DEF Calls
<1>10. Standing(c)'
  <2>1. ASSUME NEW k \in Steps(c) PROVE k \in Steps(c)'
    <3>1. k \in DOMAIN images[c] /\ k = Last(c) - Len(a)
      BY <1>1, <1>2 DEF Steps, Reverting
    <3>2. images' = images /\ rows' = rows /\ Last(c)' = Last(c)
      BY DEF Last
    <3>3. a = <<>> => k = Last(c)
      <4>1. Last(c) \in Nat
        BY <1>4, Indices DEF DiskInv
      <4>2. a = <<>> => Len(a) = 0
        OBVIOUS
      <4> QED BY <3>1, <4>1, <4>2
    <3>4. /\ w.change = c => w.pc = "rollback" /\ w.applied = a
          /\ Active(c)' = {} => k = Last(c)
      BY <1>7, <1>8, <3>3 DEF Reverting
    <3> QED BY <1>4, <1>8, <3>1, <3>2, <3>4, StepsNow DEF Reverting
  <2> QED BY <1>4, <1>5, <2>1, StandingKeeps DEF DiskInv
<1> QED BY <1>1, <1>3, <1>5, <1>6, <1>7, <1>9, <1>10, OneCallMoves

-----------------------------------------------------------------------------
\* To mark a change that has begun, and perhaps lose its snapshots.
LEMMA MarkIsCalm ==
  ASSUME WalkInv, Histories, NEW c \in Changes, writer[c] # "idle", NEW x \in Reasons \ {"crash"},
         disturbed' = [disturbed EXCEPT ![c] = @ \cup {x}],
         UNCHANGED <<rows, images, writer, disk, status>>,
         \A d \in Changes \ {c} : trash'[d] = trash[d]
  PROVE  /\ Calm /\ Steady /\ ~Clean(c)'
         /\ \A d \in Changes : "crash" \in disturbed'[d] <=> "crash" \in disturbed[d]
<1>1. /\ \A d \in Changes \ {c} : disturbed'[d] = disturbed[d]
      /\ disturbed'[c] = disturbed[c] \cup {x}
  BY DEF WalkInv, TypeOK
<1>2. x \notin Changes /\ x # "crash"
  BY PlanAssumption
<1>3. Steady /\ ~Clean(c)' /\ \A d \in Changes : "crash" \in disturbed'[d] <=> "crash" \in disturbed[d]
  BY <1>1, <1>2 DEF Steady, Clean
<1>4. Calm
  <2> SUFFICES ASSUME NEW d \in Changes
      PROVE /\ disturbed'[d] \cap Changes = disturbed[d] \cap Changes
            /\ disturbed[d] \ Changes \subseteq disturbed'[d]
            /\ writer[d] = "idle" => disturbed'[d] = {}
            /\ writer[d] # "recorded" /\ disturbed[d] = {} => "crash" \notin disturbed'[d]
            /\ trash'[d] = trash[d] \/ ~Clean(d)'
    BY DEF Calm
  <2>1. writer[d] = "idle" => disturbed[d] = {}
    BY DEF Histories, Shape
  <2> QED BY <1>1, <1>2, <1>3, <2>1 DEF Steady
<1> QED BY <1>3, <1>4

\* A step of the preflight: the row at which the call stands has its post-change state
\* or the call ends.
LEMMA PreflightStands ==
  ASSUME DiskInv, WalkInv', NEW u \in Undoers, Preflight(u)
  PROVE  DiskInv'
<1>1. PICK c \in Changes : undo[u].change = c
  BY DEF DiskInv, WalkInv, Walking, Preflight
<1>2. PICK i : i = undo[u].i
  OBVIOUS
<1>3. PICK w : w = IF ~PostState(c, rows[c][i]) THEN IdleUndo
                   ELSE IF i > 1 THEN [undo[u] EXCEPT !.i = i - 1]
                   ELSE [undo[u] EXCEPT !.pc = "reversing", !.i = Len(rows[c])]
  OBVIOUS
<1>4. /\ undo[u].pc = "preflight" /\ undo' = [undo EXCEPT ![u] = w]
      /\ disturbed' = IF "crash" \in disturbed[c] /\ disturbed[c] # {"crash"}
                      THEN [disturbed EXCEPT ![c] = @ \cup {"undo"}] ELSE disturbed
      /\ UNCHANGED <<disk, trash, writer, rows, status, used, images>>
  BY <1>1, <1>2, <1>3 DEF Preflight, CurrentRow
<1>5. /\ writer[c] = "recorded" /\ status[c] = "applied" /\ i \in 1 .. Len(rows[c]) /\ i \in Nat
      /\ undo[u].applied = <<>> /\ undo[u] \in Call
  BY <1>1, <1>2, <1>4 DEF DiskInv, WalkInv, Walking, TypeOK, Calls, Call
<1>6. \/ /\ w.pc = "idle" /\ w.change = Absent
      \/ /\ PostState(c, rows[c][i]) /\ w.change = c /\ w.applied = <<>>
         /\ \/ w.pc = "preflight" /\ w.i = i - 1
            \/ w.pc = "reversing" /\ i = 1
  BY <1>1, <1>3, <1>4, <1>5 DEF IdleUndo, Call
<1>7. "undo" \notin Changes /\ "undo" # "crash" /\ Absent \notin Changes
  BY PlanAssumption DEF Reasons
<1>8. /\ \A d \in Changes \ {c} : disturbed'[d] = disturbed[d]
      /\ disturbed'[c] = IF "crash" \in disturbed[c] /\ disturbed[c] # {"crash"}
                         THEN disturbed[c] \cup {"undo"} ELSE disturbed[c]
  BY <1>4 DEF DiskInv, WalkInv, TypeOK
<1>9. Calm /\ Steady
  <2>1. CASE disturbed' = disturbed
    BY <1>4, <2>1 DEF Calm, Steady, DiskInv, Histories, Shape
  <2>2. CASE disturbed' = [disturbed EXCEPT ![c] = @ \cup {"undo"}]
    <3>1. "undo" \in Reasons \ {"crash"}
      BY DEF Reasons
    <3> QED BY <1>4, <1>5, <2>2, <3>1, MarkIsCalm DEF DiskInv
  <2> QED BY <1>4, <2>1, <2>2
<1>10. \A x \in Undoers \ {u} : undo[x].change # c
  BY <1>1, Only DEF DiskInv
<1>11. /\ undo'[u] = w /\ \A x \in Undoers \ {u} : undo'[x] = undo[x] /\ undo[x].change # c
       /\ Active(c)' = IF w.change = c /\ w.pc \in Reverting THEN {u} ELSE {}
  <2>1. undo' = [undo EXCEPT ![u] = w] /\ w.change \in {c, Absent} /\ undo[u].change \in {c, Absent}
    BY <1>1, <1>4, <1>6
  <2>2. undo'[u] = w
    BY <1>10, <2>1, OneCall
  <2>3. \A x \in Undoers \ {u} : undo'[x] = undo[x] /\ undo[x].change # c
    BY <1>10, <2>1, OneCall
  <2>4. Active(c)' = IF w.change = c /\ w.pc \in Reverting THEN {u} ELSE {}
    BY <1>10, <2>1, OneCall
  <2> QED BY <2>2, <2>3, <2>4
<1>12. Calls(u)'
  <2>1. Len(<<>>) = 0 /\ Len(rows[c]) \in Nat
    BY <1>5, Indices DEF DiskInv
  <2> QED BY <1>4, <1>5, <1>6, <1>11, <2>1 DEF Calls
<1>13. Standing(c)'
  <2> SUFFICES ASSUME Clean(c)', Removable(c)'
               PROVE  \E k \in Steps(c)' : Holds(c, k)' /\ Lies(c, k)'
    BY DEF Standing
  <2>1. disturbed'[c] = disturbed[c] /\ ("crash" \in disturbed[c] => disturbed[c] = {"crash"})
    BY <1>7, <1>8 DEF Clean
  <2>2. PICK k \in Steps(c) : Holds(c, k) /\ Lies(c, k)
    BY <1>5, <1>9, CalmClean DEF DiskInv, Standing
  <2>3. /\ k \in DOMAIN images[c] /\ ("crash" \notin disturbed[c] => k = Last(c))
        /\ \A j \in i + 1 .. Len(rows[c]) : \A p \in RowPaths(rows[c][j]) :
             images[c][k][p] = images[c][Last(c)][p]
    <3>1. Active(c) = {}
      <4>1. undo[u].pc \notin Reverting
        BY <1>4 DEF Reverting
      <4> QED BY <1>1, <4>1, Only DEF DiskInv
    <3> QED BY <1>1, <1>2, <1>4, <1>5, <3>1 DEF Steps
  <2>4. Lies(c, k)' /\ \A p : Over(c, p)' = Over(c, p)
    BY <1>9, <2>2, LiesKeeps
  <2>5. Holds(c, k)'
    BY <1>4, <2>2, <2>4 DEF Holds
  <2>6. Last(c)' = Last(c) /\ images' = images /\ rows' = rows
    BY <1>4 DEF Last
  <2>7. CASE w.pc = "idle" /\ w.change = Absent
    <3>1. k \in Steps(c)'
      BY <1>4, <1>5, <1>7, <1>11, <2>1, <2>3, <2>6, <2>7, StepsNow
    <3> QED BY <2>4, <2>5, <3>1
  <2>8. ASSUME PostState(c, rows[c][i])
        PROVE  \A j \in i .. Len(rows[c]) : \A p \in RowPaths(rows[c][j]) :
                 images[c][k][p] = images[c][Last(c)][p]
    <3>1. CASE "crash" \notin disturbed[c]
      BY <2>3, <3>1
    <3>2. CASE "crash" \in disturbed[c]
      <4>1. \A p : Over(c, p) = {}
        BY <2>1, <3>2, PlanAssumption DEF Over, Reasons
      <4>2. Clean(c) /\ i \in DOMAIN rows[c]
        BY <1>5, <1>9, CalmClean, Indices DEF DiskInv
      <4>3. \A p \in RowPaths(rows[c][i]) : p \in PathsOf(c) /\ disk[p] = images[c][Last(c)][p]
        BY <1>5, <2>8, <4>2, PostStates, RowsArePlanned DEF DiskInv, Histories
      <4>4. \A p \in RowPaths(rows[c][i]) : images[c][k][p] = images[c][Last(c)][p]
        BY <2>2, <4>1, <4>3 DEF Holds
      <4>5. \A j \in i .. Len(rows[c]) : j = i \/ j \in i + 1 .. Len(rows[c])
        BY <1>5
      <4> QED BY <2>3, <4>4, <4>5
    <3> QED BY <3>1, <3>2
  <2>9. CASE PostState(c, rows[c][i]) /\ w.change = c /\ w.pc = "preflight" /\ w.i = i - 1
    <3>1. w.i + 1 = i
      BY <1>5, <2>9
    <3>2. k \in Steps(c)'
      BY <1>4, <1>5, <1>11, <2>1, <2>3, <2>6, <2>8, <2>9, <3>1, StepsNow DEF Reverting
    <3> QED BY <2>4, <2>5, <3>2
  <2>10. CASE PostState(c, rows[c][i]) /\ w.change = c /\ w.applied = <<>> /\ w.pc = "reversing" /\ i = 1
    <3>1. /\ Last(c) \in DOMAIN images[c] /\ Last(c) = Last(c) - Len(<<>>)
          /\ DOMAIN rows[c] = 1 .. Len(rows[c])
      <4>1. Last(c) \in Nat /\ DOMAIN images[c] = 1 .. Last(c) /\ Last(c) = Len(rows[c]) + 1
            /\ DOMAIN rows[c] = 1 .. Len(rows[c]) /\ Len(rows[c]) \in Nat /\ Len(<<>>) = 0
        BY <1>5, Indices DEF DiskInv
      <4> QED BY <4>1
    <3>2. Last(c) \in Steps(c)'
      BY <1>11, <2>6, <2>10, <3>1, StepsNow DEF Reverting
    <3>3. \A p \in PathsOf(c) : images[c][k][p] = images[c][Last(c)][p]
      <4>1. Written(c) = PathsOf(c)
        BY <1>5, WrittenPaths DEF DiskInv, Histories
      <4> QED BY <2>8, <2>10, <3>1, <4>1 DEF Written
    <3>4. Lies(c, Last(c))' /\ Holds(c, Last(c))'
      BY <2>4, <2>5, <2>6, <3>3 DEF Lies, Holds
    <3>5. Last(c)' = Last(c)
      BY <2>6
    <3> QED BY <3>2, <3>4, <3>5
  <2> QED BY <1>6, <2>7, <2>9, <2>10
<1>14. \A d \in Changes \ {c} : "crash" \in disturbed'[d] <=> "crash" \in disturbed[d]
  BY <1>8
<1>15. w.change \in {c, Absent}
  BY <1>6
<1> QED BY <1>1, <1>4, <1>9, <1>10, <1>12, <1>13, <1>14, <1>15, OneCallMoves

-----------------------------------------------------------------------------
\* To reverse a row takes its files back to what they were before its step, and to
\* restore it brings them forward again; neither touches another file.
LEMMA ReversedBytes ==
  ASSUME WalkInv, NEW c \in Changes, NEW r \in Row, disk' = Reversed(c, r)
  PROVE  /\ \A p \in Paths \ RowPaths(r) : disk'[p] = disk[p]
         /\ \A a, b : (/\ Effect(r, a, b) /\ \A p \in RowPaths(r) : disk[p] = b[p]
                       /\ r.kind = "trash" => trash[c][r.path] = a[r.path])
                      => \A p \in RowPaths(r) : disk'[p] = a[p]
<1>1. disk \in [Paths -> Content] /\ r.path \in Paths /\ r.to \in Paths
      /\ r.kind \in {"text", "binary", "move", "trash"}
  BY DEF WalkInv, TypeOK, Row
<1>2. CASE r.kind = "move"
  BY <1>1, <1>2 DEF Reversed, RowPaths, Effect
<1>3. CASE r.kind = "trash"
  BY <1>1, <1>3 DEF Reversed, RowPaths, Effect
<1>4. CASE r.kind \in {"text", "binary"}
  BY <1>1, <1>4 DEF Reversed, RowPaths, Effect
<1> QED BY <1>1, <1>2, <1>3, <1>4

LEMMA RestoredBytes ==
  ASSUME WalkInv, NEW x, x.row \in Row, disk' = Restored(x)
  PROVE  /\ \A p \in Paths \ RowPaths(x.row) : disk'[p] = disk[p]
         /\ \A a, b : (/\ Effect(x.row, a, b) /\ \A p \in RowPaths(x.row) : disk[p] = a[p]
                       /\ x.row.kind = "binary" => x.bytes = b[x.row.path])
                      => \A p \in RowPaths(x.row) : disk'[p] = b[p]
<1>1. disk \in [Paths -> Content] /\ x.row.path \in Paths /\ x.row.to \in Paths
      /\ x.row.kind \in {"text", "binary", "move", "trash"}
  BY DEF WalkInv, TypeOK, Row
<1>2. CASE x.row.kind = "move"
  BY <1>1, <1>2 DEF Restored, RowPaths, Effect
<1>3. CASE x.row.kind = "binary"
  BY <1>1, <1>3 DEF Restored, RowPaths, Effect
<1>4. CASE x.row.kind \in {"text", "trash"}
  BY <1>1, <1>4 DEF Restored, RowPaths, Effect
<1> QED BY <1>1, <1>2, <1>3, <1>4

\* A change whose files of one row go from what they hold after step k to what they
\* hold after step l, and nobody wrote them since.
LEMMA MovesAlong ==
  ASSUME Calm, Steady, NEW c \in Changes, NEW k, NEW l, NEW ps, Clean(c)', Removable(c)',
         Holds(c, k), Lies(c, k), \A p \in ps : Over(c, p) = {},
         \A p \in PathsOf(c) \ ps : images[c][k][p] = images[c][l][p] /\ disk'[p] = disk[p],
         \A p \in ps : disk'[p] = images[c][l][p]
  PROVE  Holds(c, l)' /\ Lies(c, l)'
<1>1. Lies(c, k)' /\ \A p : Over(c, p)' = Over(c, p)
  BY LiesKeeps
<1>2. images' = images
  BY DEF Calm
<1>3. Holds(c, l)'
  BY <1>1, <1>2 DEF Holds
<1>4. Lies(c, l)'
  BY <1>1, <1>2 DEF Lies
<1> QED BY <1>3, <1>4

LEMMA ReverseStands ==
  ASSUME DiskInv, WalkInv', NEW u \in Undoers, Reverse(u)
  PROVE  DiskInv'
<1>1. PICK c \in Changes : undo[u].change = c
  BY DEF DiskInv, WalkInv, Walking, Reverse
<1>2. PICK i : i = undo[u].i
  OBVIOUS
<1>3. PICK a : a = undo[u].applied
  OBVIOUS
<1>4. PICK n : n = Len(a)
  OBVIOUS
<1>5. PICK r : r = rows[c][i]
  OBVIOUS
<1>6. undo[u].pc = "reversing" /\ UNCHANGED <<trash, writer, rows, status, images>>
  BY DEF Reverse
<1>7. CASE ~Reversible(c, r)
  BY <1>1, <1>2, <1>5, <1>6, <1>7, FailingStands DEF Reverse, CurrentRow
<1>8. CASE Reversible(c, r)
  <2>1. PICK x : x = [row |-> r, bytes |-> disk[r.path]]
    OBVIOUS
  <2>2. PICK v : v = [undo[u] EXCEPT !.applied = Append(undo[u].applied, x), !.i = undo[u].i - 1,
                                     !.pc = IF undo[u].i > 1 THEN "reversing" ELSE "commit"]
    OBVIOUS
  <2>3. disk' = Reversed(c, r) /\ disturbed' = Uncover(c, RowPaths(r)) /\ undo' = [undo EXCEPT ![u] = v]
    BY <1>1, <1>2, <1>5, <1>8, <2>1, <2>2 DEF Reverse, CurrentRow
  <2>4. /\ writer[c] = "recorded" /\ status[c] = "applied" /\ i \in Nat /\ i > 0 /\ n + i = Len(rows[c])
        /\ a \in Seq([row : Row, bytes : Content]) /\ undo[u] \in Call /\ Calls(u)
    BY <1>1, <1>2, <1>3, <1>4, <1>6 DEF DiskInv, WalkInv, Walking, TypeOK, Calls, Call
  <2>5. /\ n \in Nat /\ i \in DOMAIN rows[c] /\ Last(c) - n = i + 1 /\ Last(c) - (n + 1) = i
        /\ i \in DOMAIN images[c] /\ i + 1 \in DOMAIN images[c]
        /\ n + 1 <= Len(rows[c])
    <3>1. n \in Nat
      BY <1>4, <2>4
    <3>2. /\ Len(rows[c]) \in Nat /\ DOMAIN rows[c] = 1 .. Len(rows[c])
          /\ Last(c) = Len(rows[c]) + 1 /\ DOMAIN images[c] = 1 .. Last(c)
      BY <2>4, Indices DEF DiskInv
    <3>3. i \in Nat /\ i > 0 /\ n + i = Len(rows[c])
      BY <2>4
    <3> QED BY <3>1, <3>2, <3>3
  <2>6. /\ v.pc \in {"reversing", "commit"} /\ v.change = c /\ v.applied = Append(a, x)
    BY <1>1, <1>3, <2>2, <2>4 DEF Call
  <2>7. /\ Len(v.applied) = n + 1 /\ v.applied[n + 1] = x /\ \A j \in 1 .. n : v.applied[j] = a[j]
    BY <1>4, <2>4, <2>6, AppendProperties
  <2>8. r \in Row /\ RowPaths(r) \subseteq Written(c) /\ RowPaths(r) \subseteq PathsOf(c) /\ PathsOf(c) \subseteq Paths
    BY <1>5, <2>5, RowsArePlanned, PathsArePaths DEF DiskInv, Histories
  <2>9. \A p \in Paths \ RowPaths(r) : disk'[p] = disk[p]
    BY <2>3, <2>8, ReversedBytes DEF DiskInv
  <2>10. Calm /\ Steady
    BY <1>6, <2>3, <2>4, <2>8, <2>9, UncoverIsCalm DEF DiskInv
  <2>11. \A d \in Changes : "crash" \in disturbed'[d] <=> "crash" \in disturbed[d]
    BY <1>6, <2>3, <2>4, <2>8, <2>9, UncoverIsCalm DEF DiskInv
  <2>12. \A d \in Changes \ {c} : writer[d] = "recorded" /\ Clean(d)' =>
           \A p \in PathsOf(d) : Over(d, p) = {} => disk'[p] = disk[p]
    BY <1>6, <2>3, <2>4, <2>8, <2>9, UncoverIsCalm DEF DiskInv
  <2>13. Clean(c)' /\ Removable(c)' => \A p \in RowPaths(r) : Over(c, p) = {}
    BY <1>6, <2>3, <2>4, <2>8, <2>9, UncoverIsCalm DEF DiskInv
  <2>14. \A z \in Undoers \ {u} : undo[z].change # c
    BY <1>1, Only DEF DiskInv
  <2>15. undo'[u] = v
    BY <1>1, <2>3, <2>6, <2>14, OneCall
  <2>16. \A z \in Undoers \ {u} : undo'[z] = undo[z] /\ undo[z].change # c
    BY <1>1, <2>3, <2>6, <2>14, OneCall
  <2>17. Active(c)' # {}
    <3>1. Active(c)' = IF v.change = c /\ v.pc \in Reverting THEN {u} ELSE {}
      BY <1>1, <2>3, <2>6, <2>14, OneCall
    <3> QED BY <2>6, <3>1 DEF Reverting
  <2>18. ASSUME Clean(c)', Removable(c)'
         PROVE  /\ Holds(c, i + 1) /\ Lies(c, i + 1)
                /\ \A p \in RowPaths(r) : disk[p] = images[c][i + 1][p]
    <3>1. \E k \in Steps(c) : Holds(c, k) /\ Lies(c, k)
      BY <2>4, <2>10, <2>18, CalmClean DEF DiskInv, Standing
    <3>2. \A k \in Steps(c) : k = i + 1
      BY <1>1, <1>3, <1>4, <1>6, <2>5 DEF Steps, Reverting
    <3> QED BY <2>8, <2>13, <2>18, <3>1, <3>2 DEF Holds
  <2>19. Calls(u)'
    <3>1. \A y, j : Reversal(c, y, j) => Reversal(c, y, j)'
      BY <2>10, CalmClean DEF Reversal, Calm
    <3>2. Reversal(c, x, n + 1)'
      <4>1. x.row = rows'[c][Last(c)' - (n + 1)]
        BY <1>5, <1>6, <2>1, <2>5, <2>10, CalmClean
      <4>2. Clean(c)' /\ Removable(c)' /\ r.kind = "binary"
              => x.bytes = images'[c][Last(c)' - (n + 1) + 1][r.path]
        BY <1>6, <2>1, <2>5, <2>10, <2>18, CalmClean DEF RowPaths
      <4>3. x.row = r
        BY <2>1
      <4> QED BY <4>1, <4>2, <4>3 DEF Reversal
    <3>3. \A j \in 1 .. n : Reversal(c, a[j], j)
      BY <1>1, <1>3, <1>4, <1>6, <2>4 DEF Calls
    <3>4. \A j \in 1 .. n + 1 : j = n + 1 \/ j \in 1 .. n
      BY <2>5
    <3>5. \A j \in 1 .. n + 1 : Reversal(c, v.applied[j], j)'
      BY <2>7, <3>1, <3>2, <3>3, <3>4
    <3> QED BY <1>6, <2>4, <2>5, <2>6, <2>7, <2>15, <3>5 DEF Calls
  <2>20. Standing(c)'
    <3> SUFFICES ASSUME Clean(c)', Removable(c)'
                 PROVE  \E k \in Steps(c)' : Holds(c, k)' /\ Lies(c, k)'
      BY DEF Standing
    <3>1. /\ Effect(r, images[c][i], images[c][i + 1])
          /\ r.kind = "trash" => trash[c][r.path] = images[c][i][r.path]
      BY <1>5, <2>4, <2>5, <2>10, CalmClean, Snapshots DEF DiskInv, Histories, Told
    <3>2. \A p \in RowPaths(r) : disk'[p] = images[c][i][p]
      BY <2>3, <2>8, <2>18, <3>1, ReversedBytes DEF DiskInv
    <3>3. \A p \in PathsOf(c) \ RowPaths(r) : images[c][i + 1][p] = images[c][i][p] /\ disk'[p] = disk[p]
      <4>1. DOMAIN images[c][i] = PathsOf(c)
        BY <2>4, <2>5, Indices DEF DiskInv
      <4> QED BY <2>8, <2>9, <3>1, <4>1 DEF Effect
    <3>4. Holds(c, i)' /\ Lies(c, i)'
      BY <2>10, <2>13, <2>18, <3>2, <3>3, MovesAlong
    <3>5. i \in Steps(c)'
      <4>1. i \in DOMAIN images'[c] /\ i = Last(c)' - Len(v.applied)
        BY <1>6, <2>5, <2>7, <2>10, CalmClean
      <4> QED BY <2>6, <2>15, <2>16, <2>17, <4>1, StepsNow
    <3> QED BY <3>4, <3>5
  <2>21. \A d \in Changes \ {c} : "crash" \in disturbed'[d] <=> "crash" \in disturbed[d]
    BY <2>11
  <2> QED BY <1>1, <1>6, <2>3, <2>6, <2>10, <2>12, <2>14, <2>19, <2>20, <2>21, OneCallMoves
<1> QED BY <1>7, <1>8

\* The last of a sequence is taken off.
LEMMA Shorter ==
  ASSUME NEW S, NEW s \in Seq(S), s # <<>>
  PROVE  /\ Len(s) \in Nat /\ Len(s) > 0
         /\ Len(SubSeq(s, 1, Len(s) - 1)) = Len(s) - 1
         /\ \A j \in 1 .. Len(s) - 1 : SubSeq(s, 1, Len(s) - 1)[j] = s[j]
<1> DEFINE n == Len(s)
           m == n - 1
           z == SubSeq(s, 1, m)
<1>1. n \in Nat /\ n > 0
  BY EmptySeq, LenProperties
<1>2. m \in Int /\ m \in Nat /\ 1 \in Int /\ (1 <= m => m - 1 + 1 = m) /\ (~(1 <= m) => m = 0)
      /\ \A j \in 1 .. m : j \in 1 .. n /\ 1 + j - 1 = j
  <2> HIDE DEF n
  <2> QED BY <1>1
<1>3. \A j \in 1 .. m : s[j] \in S
  BY <1>2, ElementOfSeq
<1> HIDE DEF m
<1>4. Len(z) = IF 1 <= m THEN m - 1 + 1 ELSE 0
  BY <1>2, <1>3, SubSeqProperties
<1>5. \A j \in 1 .. m - 1 + 1 : z[j] = s[1 + j - 1]
  BY <1>2, <1>3, SubSeqProperties
<1>6. Len(z) = m /\ \A j \in 1 .. m : z[j] = s[j]
  <2>1. m - 1 + 1 = m
    BY <1>2
  <2> QED BY <1>2, <1>4, <1>5, <2>1
<1> QED BY <1>1, <1>6 DEF m

LEMMA RollbackStands ==
  ASSUME DiskInv, WalkInv', NEW u \in Undoers, Rollback(u)
  PROVE  DiskInv'
<1>1. PICK c \in Changes : undo[u].change = c
  BY DEF DiskInv, WalkInv, Walking, Rollback
<1>2. PICK a : a = undo[u].applied
  OBVIOUS
<1>3. PICK n : n = Len(a)
  OBVIOUS
<1>4. PICK x : x = a[n]
  OBVIOUS
<1>5. PICK v : v = IF n = 1 THEN IdleUndo ELSE [undo[u] EXCEPT !.applied = SubSeq(a, 1, n - 1)]
  OBVIOUS
<1>6. PICK r : r = x.row
  OBVIOUS
<1>7. PICK i : i = Last(c) - n
  OBVIOUS
<1>8. /\ undo[u].pc = "rollback" /\ UNCHANGED <<trash, writer, rows, status, images>>
      /\ undo' = [undo EXCEPT ![u] = v]
  BY <1>2, <1>3, <1>4, <1>5 DEF Rollback
<1>9. /\ writer[c] = "recorded" /\ status[c] = "applied" /\ a \in Seq([row : Row, bytes : Content])
      /\ a # <<>> /\ undo[u] \in Call /\ n <= Len(rows[c]) /\ \A j \in 1 .. n : Reversal(c, a[j], j)
  BY <1>1, <1>2, <1>3, <1>8 DEF DiskInv, WalkInv, Walking, TypeOK, Calls, Call
<1>10. n \in Nat /\ n > 0
  BY <1>3, <1>9, Shorter
<1>11. Len(SubSeq(a, 1, n - 1)) = n - 1
  BY <1>3, <1>9, Shorter
<1>12. \A j \in 1 .. n - 1 : SubSeq(a, 1, n - 1)[j] = a[j]
  BY <1>3, <1>9, Shorter
<1>13. /\ i \in DOMAIN rows[c] /\ i \in DOMAIN images[c] /\ i + 1 \in DOMAIN images[c] /\ i \in Nat
       /\ i + 1 = Last(c) - (n - 1) /\ (n = 1 => i + 1 = Last(c)) /\ n - 1 <= Len(rows[c])
  <2>1. /\ Len(rows[c]) \in Nat /\ DOMAIN rows[c] = 1 .. Len(rows[c])
        /\ Last(c) = Len(rows[c]) + 1 /\ DOMAIN images[c] = 1 .. Last(c)
    BY <1>9, Indices DEF DiskInv
  <2> QED BY <1>7, <1>9, <1>10, <2>1
<1>14. /\ Reversal(c, x, n) /\ r = rows[c][i]
  BY <1>4, <1>6, <1>7, <1>9, <1>10 DEF Reversal
<1>15. r \in Row /\ RowPaths(r) \subseteq Written(c) /\ RowPaths(r) \subseteq PathsOf(c) /\ PathsOf(c) \subseteq Paths
  BY <1>13, <1>14, RowsArePlanned, PathsArePaths DEF DiskInv, Histories
<1>16. \/ n = 1 /\ v.pc = "idle" /\ v.change = Absent
       \/ n # 1 /\ v.pc = "rollback" /\ v.change = c /\ v.applied = SubSeq(a, 1, n - 1)
  BY <1>1, <1>5, <1>8, <1>9 DEF IdleUndo, Call
<1>17. undo' = [undo EXCEPT ![u] = v] /\ v.change \in {c, Absent} /\ undo[u].change \in {c, Absent}
  BY <1>1, <1>8, <1>16
<1>18. \A z \in Undoers \ {u} : undo[z].change # c
  BY <1>1, Only DEF DiskInv
<1>19. undo'[u] = v
  BY <1>17, <1>18, OneCall
<1>20. \A z \in Undoers \ {u} : undo'[z] = undo[z] /\ undo[z].change # c
  BY <1>17, <1>18, OneCall
<1>21. Active(c)' = IF v.change = c /\ v.pc \in Reverting THEN {u} ELSE {}
  BY <1>17, <1>18, OneCall
<1>22. Calm => Calls(u)'
  <2> SUFFICES ASSUME Calm
               PROVE  Calls(u)'
    OBVIOUS
  <2>1. \A y, j : Reversal(c, y, j) => Reversal(c, y, j)'
    BY CalmClean DEF Reversal, Calm
  <2>2. \A j \in 1 .. n - 1 : j \in 1 .. n
    BY <1>10
  <2>3. CASE n = 1
    BY <1>16, <1>19, <2>3 DEF Calls
  <2>4. CASE n # 1
    <3>1. PICK s : s = SubSeq(a, 1, n - 1)
      OBVIOUS
    <3>2. undo'[u].applied = s /\ undo'[u].change = c /\ undo'[u].pc = "rollback"
      BY <1>10, <1>16, <1>19, <2>4, <3>1
    <3>3. Len(s) = n - 1 /\ \A j \in 1 .. n - 1 : Reversal(c, s[j], j)'
      BY <1>9, <1>11, <1>12, <2>1, <2>2, <3>1
    <3> QED BY <1>8, <1>9, <1>13, <3>2, <3>3 DEF Calls
  <2> QED BY <2>3, <2>4
<1>23. CASE disk' = Restored(x) /\ disturbed' = Uncover(c, RowPaths(r))
  <2>1. \A p \in Paths \ RowPaths(r) : disk'[p] = disk[p]
    BY <1>6, <1>15, <1>23, RestoredBytes DEF DiskInv
  <2>2. Calm /\ Steady
    BY <1>8, <1>9, <1>15, <1>23, <2>1, UncoverIsCalm DEF DiskInv
  <2>3. \A d \in Changes : "crash" \in disturbed'[d] <=> "crash" \in disturbed[d]
    BY <1>8, <1>9, <1>15, <1>23, <2>1, UncoverIsCalm DEF DiskInv
  <2>4. \A d \in Changes \ {c} : writer[d] = "recorded" /\ Clean(d)' =>
           \A p \in PathsOf(d) : Over(d, p) = {} => disk'[p] = disk[p]
    BY <1>8, <1>9, <1>15, <1>23, <2>1, UncoverIsCalm DEF DiskInv
  <2>5. Clean(c)' /\ Removable(c)' => \A p \in RowPaths(r) : Over(c, p) = {}
    BY <1>8, <1>9, <1>15, <1>23, <2>1, UncoverIsCalm DEF DiskInv
  <2>6. Standing(c)'
    <3> SUFFICES ASSUME Clean(c)', Removable(c)'
                 PROVE  \E k \in Steps(c)' : Holds(c, k)' /\ Lies(c, k)'
      BY DEF Standing
    <3>1. Clean(c) /\ Removable(c)
      BY <2>2, CalmClean
    <3>2. Holds(c, i) /\ Lies(c, i)
      <4>1. \E k \in Steps(c) : Holds(c, k) /\ Lies(c, k)
        BY <1>9, <3>1 DEF DiskInv, Standing
      <4>2. \A k \in Steps(c) : k = i
        BY <1>1, <1>2, <1>3, <1>7, <1>8 DEF Steps, Reverting
      <4> QED BY <4>1, <4>2
    <3>3. Effect(r, images[c][i], images[c][i + 1])
      BY <1>13, <1>14, <3>1 DEF DiskInv, Histories, Told
    <3>4. r.kind = "binary" => x.bytes = images[c][i + 1][r.path]
      BY <1>6, <1>7, <1>14, <3>1 DEF Reversal
    <3>5. \A p \in RowPaths(r) : disk[p] = images[c][i][p]
      BY <1>15, <2>5, <3>2 DEF Holds
    <3>6. \A p \in RowPaths(r) : disk'[p] = images[c][i + 1][p]
      BY <1>6, <1>15, <1>23, <3>3, <3>4, <3>5, RestoredBytes DEF DiskInv
    <3>7. \A p \in PathsOf(c) \ RowPaths(r) : images[c][i][p] = images[c][i + 1][p] /\ disk'[p] = disk[p]
      <4>1. DOMAIN images[c][i] = PathsOf(c)
        BY <1>9, <1>13, Indices DEF DiskInv
      <4> QED BY <1>15, <2>1, <3>3, <4>1 DEF Effect
    <3>8. Holds(c, i + 1)' /\ Lies(c, i + 1)'
      BY <2>2, <2>5, <3>2, <3>6, <3>7, MovesAlong
    <3>9. i + 1 \in Steps(c)'
      <4>1. i + 1 \in DOMAIN images'[c] /\ Last(c)' = Last(c)
        BY <1>8, <1>13, <2>2, CalmClean
      <4>2. n = 1 \/ Active(c)' # {}
        BY <1>16, <1>21 DEF Reverting
      <4>3. undo'[u].change = c => undo'[u].pc = "rollback" /\ i + 1 = Last(c)' - Len(undo'[u].applied)
        BY <1>11, <1>13, <1>16, <1>19, <4>1, PlanAssumption
      <4> QED BY <1>8, <1>9, <1>13, <1>20, <4>1, <4>2, <4>3, StepsNow
    <3> QED BY <3>8, <3>9
  <2>7. \A d \in Changes \ {c} : "crash" \in disturbed'[d] <=> "crash" \in disturbed[d]
    BY <2>3
  <2> QED BY <1>1, <1>8, <1>17, <1>18, <1>22, <2>2, <2>4, <2>6, <2>7, OneCallMoves
<1>24. CASE disk' = disk /\ disturbed' = [disturbed EXCEPT ![c] = @ \cup {"fault"}]
  <2>1. "fault" \in Reasons \ {"crash"}
    BY DEF Reasons
  <2>2. Calm /\ Steady
    BY <1>8, <1>9, <1>24, <2>1, MarkIsCalm DEF DiskInv
  <2>3. Standing(c)'
    BY <1>8, <1>9, <1>24, <2>1, MarkIsCalm DEF DiskInv, Standing
  <2>4. \A d \in Changes \ {c} : "crash" \in disturbed'[d] <=> "crash" \in disturbed[d]
    BY <1>24 DEF DiskInv, WalkInv, TypeOK
  <2> QED BY <1>1, <1>8, <1>17, <1>18, <1>22, <1>24, <2>2, <2>3, <2>4, OneCallMoves
<1> QED BY <1>1, <1>2, <1>3, <1>4, <1>6, <1>23, <1>24 DEF Rollback

\* The change is marked undone, and off the changes under it if nothing lay over it.
LEMMA CommitStands ==
  ASSUME DiskInv, WalkInv', NEW u \in Undoers, Commit(u)
  PROVE  DiskInv'
<1>1. PICK c \in Changes : undo[u].change = c
  BY DEF DiskInv, WalkInv, Walking, Commit
<1>2. PICK w : w = IdleUndo
  OBVIOUS
<1>3. /\ undo[u].pc = "commit" /\ writer[c] = "recorded" /\ status[c] = "applied"
      /\ undo[u].i = 0 /\ Len(undo[u].applied) + undo[u].i = Len(rows[c])
  BY <1>1 DEF DiskInv, WalkInv, Walking, TypeOK, Calls, Commit
<1>4. /\ undo' = [undo EXCEPT ![u] = w] /\ status' = [status EXCEPT ![c] = "undone"]
      /\ disturbed' = [d \in Changes |-> IF disturbed[c] = {} THEN disturbed[d] \ {c} ELSE disturbed[d]]
      /\ UNCHANGED <<disk, trash, writer, rows, images>>
  BY <1>1, <1>2, <1>3 DEF Commit
<1>5. /\ status'[c] = "undone" /\ \A d \in Changes \ {c} : status'[d] = status[d]
      /\ \A d \in Changes : disturbed'[d] = IF disturbed[c] = {} THEN disturbed[d] \ {c} ELSE disturbed[d]
  BY <1>4 DEF DiskInv, WalkInv, TypeOK
<1>6. w.pc = "idle" /\ w.change = Absent
  BY <1>2 DEF IdleUndo
<1>7. "crash" \notin Changes
  BY PlanAssumption DEF Reasons
<1>8. Calm
  <2> SUFFICES ASSUME NEW d \in Changes
      PROVE /\ disturbed'[d] \cap Changes \subseteq disturbed[d]
            /\ disturbed[d] \ Changes \subseteq disturbed'[d]
            /\ writer[d] = "idle" => disturbed'[d] = {}
            /\ writer[d] # "recorded" /\ disturbed[d] = {} => "crash" \notin disturbed'[d]
            /\ \A e \in (disturbed[d] \cap Changes) \ disturbed'[d] :
                 /\ writer[e] = "recorded" /\ disturbed[e] = {}
                 /\ status[e] = "applied" /\ status'[e] = "undone"
            /\ status[d] = "undone" => status'[d] = "undone"
            /\ status[d] # "none" => status'[d] # "none"
    BY <1>4 DEF Calm
  <2>1. writer[d] = "idle" => disturbed[d] = {}
    BY DEF DiskInv, Histories, Shape
  <2> QED BY <1>3, <1>5, <2>1
<1>9. Histories'
  BY <1>8, CalmKeeps DEF DiskInv
<1>10. \A v \in Undoers \ {u} : undo[v].change # c
  BY <1>1, Only DEF DiskInv
<1>11. undo' = [undo EXCEPT ![u] = w] /\ w.change \in {c, Absent} /\ undo[u].change \in {c, Absent}
  BY <1>1, <1>4, <1>6
<1>12. undo'[u] = w
  BY <1>10, <1>11, OneCall
<1>13. \A v \in Undoers \ {u} : undo'[v] = undo[v] /\ undo[v].change # c
  BY <1>10, <1>11, OneCall
<1>14. Absent \notin Changes /\ Alone'
  BY <1>10, <1>11, OneCall
<1>15. Active(c)' = {}
  <2>1. Active(c)' = IF w.change = c /\ w.pc \in Reverting THEN {u} ELSE {}
    BY <1>10, <1>11, OneCall
  <2> QED BY <1>6, <2>1 DEF Reverting
<1>16. ASSUME NEW v \in Undoers PROVE Calls(v)'
  <2>1. CASE v = u
    BY <1>6, <1>12, <2>1 DEF Calls
  <2>2. CASE v # u
    <3>1. undo[v].pc # "idle" => undo[v].change \in Changes \ {c}
      BY <1>13, <2>2 DEF DiskInv, WalkInv, Walking
    <3> QED BY <1>5, <1>8, <1>13, <2>2, <3>1, CallsKeep DEF DiskInv
  <2> QED BY <2>1, <2>2
<1>17. ASSUME Clean(c), Removable(c)
       PROVE  /\ Holds(c, 1) /\ Lies(c, 1) /\ 1 \in DOMAIN images[c]
  <2>1. PICK k \in Steps(c) : Holds(c, k) /\ Lies(c, k)
    BY <1>3, <1>17 DEF DiskInv, Standing
  <2>2. k = Last(c) - Len(undo[u].applied) /\ k \in DOMAIN images[c]
    BY <1>1, <1>3, <2>1 DEF Steps, Reverting
  <2>3. Len(rows[c]) \in Nat /\ Last(c) = Len(rows[c]) + 1
    BY <1>3, Indices DEF DiskInv
  <2>4. Len(undo[u].applied) \in Nat
    BY DEF DiskInv, WalkInv, TypeOK, Call
  <2>5. k = 1
    BY <1>3, <2>2, <2>3, <2>4
  <2> QED BY <2>1, <2>2, <2>5
<1>18. Standing(c)'
  <2> SUFFICES ASSUME Clean(c)', Removable(c)'
               PROVE  \E k \in Steps(c)' : Holds(c, k)' /\ Lies(c, k)'
    BY DEF Standing
  <2>1. Holds(c, 1) /\ Lies(c, 1) /\ 1 \in DOMAIN images[c]
    BY <1>8, <1>17, CalmClean
  <2>2. disturbed'[c] = disturbed[c]
    BY <1>5 DEF DiskInv, Histories, Shape
  <2>3. \A p : Over(c, p)' = Over(c, p)
    BY <1>8, <2>2, CalmClean DEF Over
  <2>4. Holds(c, 1)'
    BY <1>4, <2>1, <2>3 DEF Holds
  <2>5. \A d \in Changes : disturbed'[d] \subseteq disturbed[d]
    BY <1>5
  <2>6. Lies(c, 1)'
    BY <1>4, <2>1, <2>3, <2>5 DEF Lies, Over
  <2>7. 1 \in Steps(c)'
    BY <1>4, <1>5, <1>6, <1>12, <1>13, <1>14, <2>1, StepsNow
  <2> QED BY <2>4, <2>6, <2>7
<1>19. ASSUME NEW d \in Changes, d # c PROVE Standing(d)'
  <2> SUFFICES ASSUME status'[d] # "none", Clean(d)', Removable(d)'
               PROVE  \E k \in Steps(d)' : Holds(d, k)' /\ Lies(d, k)'
    BY DEF Standing
  <2>1. Clean(d) /\ Removable(d) /\ status[d] # "none"
    BY <1>5, <1>8, <1>19, CalmClean
  <2>2. PICK k \in Steps(d) : Holds(d, k) /\ Lies(d, k)
    BY <2>1 DEF DiskInv, Standing
  <2>3. Steps(d)' = Steps(d)
    <3>1. "crash" \in disturbed'[d] <=> "crash" \in disturbed[d]
      BY <1>5, <1>7
    <3>2. \A v \in Undoers : undo[v].change = d \/ undo'[v].change = d => undo'[v] = undo[v]
      BY <1>1, <1>6, <1>12, <1>13, <1>14, <1>19
    <3> QED BY <1>5, <1>8, <1>19, <3>1, <3>2, StepsKeep
  <2>4. c \notin disturbed'[d]
    BY <1>5 DEF Removable
  <2>5. \A e \in Changes : disturbed'[e] \subseteq disturbed[e]
    BY <1>5
  <2>6. \A p : Over(d, p)' = Over(d, p) \ {c}
    <3>1. disturbed'[d] = disturbed[d] \ {c}
      BY <1>5, <2>4
    <3> QED BY <1>8, <3>1, CalmClean DEF Over
  <2>7. ASSUME NEW p \in PathsOf(d), c \in Over(d, p)
        PROVE  disturbed[c] = {} /\ Clean(c) /\ disk[p] = images[c][1][p]
    <3>1. disturbed[c] = {}
      BY <1>5, <2>4, <2>7 DEF Over
    <3>2. Clean(c) /\ Removable(c) /\ Over(c, p) = {}
      BY <3>1 DEF Clean, Removable, Over
    <3>3. p \in PathsOf(c)
      BY <2>7, WrittenPaths DEF Over, DiskInv, Histories
    <3> QED BY <1>17, <3>1, <3>2, <3>3 DEF Holds
  <2>8. ASSUME NEW p \in PathsOf(d), c \in Over(d, p), NEW e \in Over(d, p), e # c
        PROVE  c \in disturbed[e]
    <3>1. e \in Changes /\ p \in Written(e) \cap Written(c) /\ e \in disturbed[d]
      BY <2>8 DEF Over
    <3>2. Free(e) /\ status[e] # "undone" /\ writer[e] \in {"writing", "recorded"}
      BY <2>1, <3>1 DEF Removable
    <3>3. Clean(e) /\ Clean(c) /\ disturbed[c] = {}
      BY <2>7, <2>8, <3>2 DEF Free, Clean
    <3>4. Order(c, e)
      BY <3>1 DEF DiskInv, Histories
    <3> QED BY <1>3, <2>8, <3>1, <3>2, <3>3, <3>4 DEF Order
  <2>9. Holds(d, k)'
    <3> SUFFICES ASSUME NEW p \in PathsOf(d), Over(d, p)' = {}
                 PROVE  disk[p] = images[d][k][p]
      BY <1>4 DEF Holds
    <3>1. CASE c \in Over(d, p)
      BY <2>2, <2>6, <2>7, <3>1 DEF Lies
    <3>2. CASE c \notin Over(d, p)
      BY <2>2, <2>6, <3>2 DEF Holds
    <3> QED BY <3>1, <3>2
  <2>10. Lies(d, k)'
    <3> SUFFICES ASSUME NEW p \in PathsOf(d), NEW e \in Over(d, p)', Over(d, p)' \ {e} \subseteq disturbed'[e]
                 PROVE  images[e][1][p] = images[d][k][p]
      BY <1>4 DEF Lies
    <3>1. e \in Over(d, p) /\ e # c /\ e \in Changes
      BY <2>6 DEF Over
    <3>2. Over(d, p) \ {e} \subseteq disturbed[e]
      BY <2>5, <2>6, <2>8, <3>1
    <3> QED BY <2>2, <3>1, <3>2 DEF Lies
  <2> QED BY <2>2, <2>3, <2>9, <2>10
<1> QED BY <1>9, <1>14, <1>16, <1>18, <1>19 DEF DiskInv

-----------------------------------------------------------------------------
\* What others do to the files: they mark the changes whose files they touch.
LEMMA OthersStand ==
  ASSUME DiskInv, Calm, Steady, UNCHANGED <<status, undo>>,
         \A d \in Changes : "crash" \in disturbed'[d] <=> "crash" \in disturbed[d],
         \A d \in Changes : status[d] # "none" /\ Clean(d)' =>
              \A p \in PathsOf(d) : Over(d, p) = {} => disk'[p] = disk[p],
         WalkInv'
  PROVE  DiskInv'
<1>1. Histories'
  BY CalmKeeps DEF DiskInv
<1>2. Alone'
  BY DEF DiskInv, Alone
<1>3. \A u \in Undoers : Calls(u)'
  BY CallsKeep DEF DiskInv
<1>4. ASSUME NEW c \in Changes PROVE Standing(c)'
  <2>1. Steps(c)' = Steps(c)
    BY StepsKeep
  <2>2. CASE status[c] = "none"
    BY <2>2 DEF Standing
  <2>3. CASE status[c] # "none"
    <3>1. Standing(c)
      BY DEF DiskInv
    <3> QED BY <2>1, <2>3, <3>1, StandingKeeps
  <2> QED BY <2>2, <2>3
<1> QED BY <1>1, <1>2, <1>3, <1>4 DEF DiskInv

LEMMA EditStands ==
  ASSUME DiskInv, WalkInv', NEW p \in Paths, NEW t \in Content, Edit(p, t)
  PROVE  DiskInv'
<1>1. /\ disk' = [disk EXCEPT ![p] = t] /\ disturbed' = Disturb("editor", {p})
      /\ UNCHANGED <<trash, writer, rows, status, undo, images>>
  BY DEF Edit
<1>2. "editor" \notin Changes /\ "overlap" \notin Changes /\ "crash" \notin {"editor", "overlap"}
  BY PlanAssumption DEF Reasons
<1>3. \A d \in Changes : disturbed'[d] = IF Begun(d, {p})
                                         THEN disturbed[d] \cup {"editor"}
                                                \cup (IF writer[d] = "recorded" THEN {} ELSE {"overlap"})
                                         ELSE disturbed[d]
  BY <1>1, <1>2 DEF Disturb
<1>4. Steady /\ \A d \in Changes : "crash" \in disturbed'[d] <=> "crash" \in disturbed[d]
  BY <1>2, <1>3 DEF Steady
<1>5. ASSUME NEW d \in Changes, writer[d] # "idle", Clean(d)', NEW q \in PathsOf(d)
      PROVE  disk'[q] = disk[q]
  <2>1. ~Begun(d, {p})
    BY <1>2, <1>3, <1>5 DEF Clean
  <2>2. q # p
    BY <1>5, <2>1 DEF Begun
  <2> QED BY <1>1, <2>2, PathsArePaths DEF DiskInv, WalkInv, TypeOK
<1>6. Calm
  <2> SUFFICES ASSUME NEW d \in Changes
      PROVE /\ disturbed[d] \subseteq disturbed'[d]
            /\ writer[d] = "idle" => disturbed'[d] = {}
            /\ writer[d] # "recorded" /\ disturbed[d] = {} => "crash" \notin disturbed'[d]
            /\ writer[d] = "writing" /\ disturbed'[d] = {} => \A q \in PathsOf(d) : disk'[q] = disk[q]
    BY <1>1, <1>4 DEF Calm, Steady
  <2>1. writer[d] = "idle" => disturbed'[d] = {}
    <3>1. writer[d] = "idle" => disturbed[d] = {}
      BY DEF DiskInv, Histories, Shape
    <3> QED BY <1>3, <3>1 DEF Begun
  <2>2. disturbed'[d] = {} => Clean(d)'
    BY DEF Clean
  <2> QED BY <1>3, <1>4, <1>5, <2>1, <2>2
<1>7. \A d \in Changes : status[d] # "none" => writer[d] # "idle"
  BY DEF DiskInv, WalkInv, Walking, Sound
<1>8. \A d \in Changes : status[d] # "none" /\ Clean(d)' => \A q \in PathsOf(d) : disk'[q] = disk[q]
  BY <1>5, <1>7
<1> QED BY <1>1, <1>4, <1>6, <1>8, OthersStand

LEMMA LoseTrashStands ==
  ASSUME DiskInv, WalkInv', NEW c \in Changes, LoseTrash(c)
  PROVE  DiskInv'
<1>1. /\ trash[c] # [p \in Paths |-> Absent]
      /\ trash' = [trash EXCEPT ![c] = [p \in Paths |-> Absent]]
      /\ disturbed' = [disturbed EXCEPT ![c] = @ \cup {"editor"}]
      /\ UNCHANGED <<disk, writer, rows, status, undo, images>>
  BY DEF LoseTrash
<1>2. writer[c] # "idle" /\ "editor" \in Reasons \ {"crash"}
  BY <1>1 DEF DiskInv, Histories, Shape, Reasons
<1>3. \A d \in Changes \ {c} : trash'[d] = trash[d]
  BY <1>1 DEF DiskInv, WalkInv, TypeOK
<1>4. Calm /\ Steady
  BY <1>1, <1>2, <1>3, MarkIsCalm DEF DiskInv
<1>5. \A d \in Changes : "crash" \in disturbed'[d] <=> "crash" \in disturbed[d]
  BY <1>1, <1>2, <1>3, MarkIsCalm DEF DiskInv
<1> QED BY <1>1, <1>4, <1>5, OthersStand

LEMMA StutterStands ==
  ASSUME DiskInv, UNCHANGED vars
  PROVE  DiskInv'
<1>1. UNCHANGED <<disk, trash, writer, rows, status, undo, images, disturbed>>
  BY DEF vars
<1>2. Calm /\ Steady
  BY <1>1 DEF Calm, Steady, DiskInv, Histories, Shape
<1>3. WalkInv'
  BY StepWalks DEF DiskInv
<1> QED BY <1>1, <1>2, <1>3, OthersStand

\* An operation fails, and puts its files back.
LEMMA FailStands ==
  ASSUME DiskInv, WalkInv', NEW c \in Changes, Fail(c)
  PROVE  DiskInv'
<1>1. /\ writer[c] = "writing"
      /\ writer' = [writer EXCEPT ![c] = IF Len(rows[c]) >= Guarded[c] THEN "failed" ELSE "lost"]
      /\ UNCHANGED <<disk, trash, rows, status, undo, images, disturbed>>
  BY DEF Fail
<1>2. \A d \in Changes : writer'[d] = writer[d] \/ (writer[d] = "writing" /\ writer'[d] \in {"failed", "lost"})
  BY <1>1 DEF DiskInv, WalkInv, TypeOK
<1>3. Calm /\ Steady
  BY <1>1, <1>2 DEF Calm, Steady, DiskInv, Histories, Shape
<1> QED BY <1>1, <1>3, OthersStand

LEMMA PutBackIsCalm ==
  ASSUME DiskInv, WalkInv', NEW c \in Changes, writer[c] = "failed", NEW i \in DOMAIN rows[c],
         disk' = Returned(c, i), disturbed' = Uncover(c, RowPaths(rows[c][i])),
         UNCHANGED <<rows, images, writer, status>>, \A d \in Changes \ {c} : trash'[d] = trash[d]
  PROVE  /\ Calm /\ Steady
         /\ \A d \in Changes : "crash" \in disturbed'[d] <=> "crash" \in disturbed[d]
         /\ \A d \in Changes : status[d] # "none" /\ Clean(d)' =>
              \A p \in PathsOf(d) : Over(d, p) = {} => disk'[p] = disk[p]
<1> DEFINE r == rows[c][i]
           ps == RowPaths(r)
<1>1. /\ r \in Row /\ ps \subseteq Written(c) /\ Plan[c][i] \in Step /\ ps = StepPaths(Plan[c][i])
      /\ Planned(r, Plan[c][i])
  BY RowsArePlanned DEF DiskInv, Histories, Shape
<1>2. \A p \in Paths \ ps : disk'[p] = disk[p]
  <2>1. disk \in [Paths -> Content] /\ r.path \in ps /\ (Plan[c][i].op = "move" => r.to \in ps)
    BY <1>1 DEF DiskInv, WalkInv, TypeOK, StepPaths, Planned
  <2>2. disk' \in {[disk EXCEPT ![r.path] = trash[c][r.path]], [disk EXCEPT ![r.path] = r.before]}
        \/ (Plan[c][i].op = "move" /\ disk' = [disk EXCEPT ![r.path] = disk[r.to], ![r.to] = Absent])
    BY DEF Returned
  <2> HIDE DEF r, ps
  <2> QED BY <2>1, <2>2
<1>3. \A d \in Changes : writer[d] # "failed" => trash'[d] = trash[d]
  OBVIOUS
<1>4. Calm /\ Steady
  BY <1>1, <1>2, <1>3, UncoverIsCalm DEF DiskInv
<1>5. \A d \in Changes : "crash" \in disturbed'[d] <=> "crash" \in disturbed[d]
  BY <1>1, <1>2, <1>3, UncoverIsCalm DEF DiskInv
<1>6. \A d \in Changes \ {c} : writer[d] = "recorded" /\ Clean(d)' =>
        \A p \in PathsOf(d) : Over(d, p) = {} => disk'[p] = disk[p]
  BY <1>1, <1>2, <1>3, UncoverIsCalm DEF DiskInv
<1>7. \A d \in Changes : status[d] # "none" => writer[d] = "recorded" /\ d # c
  BY DEF DiskInv, WalkInv, Walking, Sound
<1> QED BY <1>4, <1>5, <1>6, <1>7

LEMMA PutBackStands ==
  ASSUME DiskInv, WalkInv', NEW c \in Changes, PutBack(c)
  PROVE  DiskInv'
<1>1. writer[c] = "failed" /\ left[c] > 0 /\ UNCHANGED <<rows, status, undo, images>>
  BY DEF PutBack
<1>2. CASE writer' = [writer EXCEPT ![c] = "lost"] /\ UNCHANGED <<disk, trash, left, disturbed>>
  <2>1. \A d \in Changes : writer'[d] = writer[d] \/ (writer[d] = "failed" /\ writer'[d] = "lost")
    BY <1>1, <1>2 DEF DiskInv, WalkInv, TypeOK
  <2>2. Calm /\ Steady
    BY <1>1, <1>2, <2>1 DEF Calm, Steady, DiskInv, Histories, Shape
  <2> QED BY <1>1, <1>2, <2>2, OthersStand
<1>3. CASE /\ disk' = Returned(c, left[c])
           /\ trash' = IF Plan[c][left[c]].op \in {"delete", "trash"}
                       THEN [trash EXCEPT ![c][rows[c][left[c]].path] = Absent] ELSE trash
           /\ disturbed' = Uncover(c, RowPaths(rows[c][left[c]]))
           /\ UNCHANGED writer
  <2>1. PICK i : i = left[c]
    OBVIOUS
  <2>2. i \in DOMAIN rows[c]
    <3>1. rows[c] \in Seq(Row) /\ i \in Nat /\ i > 0 /\ i <= Len(rows[c])
      BY <1>1, <2>1 DEF DiskInv, WalkInv, TypeOK, Walking, Sound
    <3> QED BY <3>1
  <2>3. \A d \in Changes \ {c} : trash'[d] = trash[d]
    BY <1>3 DEF DiskInv, WalkInv, TypeOK
  <2>4. Calm /\ Steady
    BY <1>1, <1>3, <2>1, <2>2, <2>3, PutBackIsCalm
  <2>5. \A d \in Changes : "crash" \in disturbed'[d] <=> "crash" \in disturbed[d]
    BY <1>1, <1>3, <2>1, <2>2, <2>3, PutBackIsCalm
  <2>6. \A d \in Changes : status[d] # "none" /\ Clean(d)' =>
          \A p \in PathsOf(d) : Over(d, p) = {} => disk'[p] = disk[p]
    BY <1>1, <1>3, <2>1, <2>2, <2>3, PutBackIsCalm
  <2> QED BY <1>1, <2>4, <2>5, <2>6, OthersStand
<1> QED BY <1>2, <1>3 DEF PutBack

\* The calls of undo are gone, and their changes where these have brought them.
LEMMA CrashStands ==
  ASSUME DiskInv, WalkInv', Crash
  PROVE  DiskInv'
<1>1. /\ writer' = [c \in Changes |-> IF writer[c] = "writing" \/ left[c] > 0 THEN "lost" ELSE writer[c]]
      /\ undo' = [u \in Undoers |-> IdleUndo]
      /\ disturbed' = [c \in Changes |->
           IF Active(c) # {} THEN disturbed[c] \cup {"crash"} ELSE disturbed[c]]
      /\ UNCHANGED <<disk, trash, rows, status, images>>
  BY DEF Crash
<1>2. "crash" \notin Changes /\ Absent \notin Changes
  BY PlanAssumption DEF Reasons
<1>3. \A u \in Undoers : undo'[u].pc = "idle" /\ undo'[u].change = Absent
  BY <1>1 DEF IdleUndo
<1>4. \A c \in Changes : Active(c) # {} => writer[c] = "recorded"
  BY DEF Active, DiskInv, WalkInv, Walking
<1>5. Steady
  BY <1>1, <1>2 DEF Steady
<1>6. Calm
  <2> SUFFICES ASSUME NEW c \in Changes
      PROVE /\ writer'[c] = writer[c] \/ (writer[c] \in {"writing", "failed"} /\ writer'[c] \in {"failed", "lost"})
            /\ disturbed[c] \subseteq disturbed'[c]
            /\ writer[c] = "idle" => disturbed'[c] = {}
            /\ writer[c] # "recorded" /\ disturbed[c] = {} => "crash" \notin disturbed'[c]
    BY <1>1, <1>5 DEF Calm, Steady
  <2>1. writer[c] = "idle" => disturbed[c] = {}
    BY DEF DiskInv, Histories, Shape
  <2>2. left[c] > 0 => writer[c] \in {"failed", "lost"}
    BY DEF DiskInv, WalkInv, Walking, Sound
  <2> QED BY <1>1, <1>4, <2>1, <2>2
<1>7. Histories'
  BY <1>6, CalmKeeps DEF DiskInv
<1>8. Alone' /\ \A u \in Undoers : Calls(u)'
  BY <1>2, <1>3 DEF Alone, Calls
<1>9. ASSUME NEW c \in Changes PROVE Standing(c)'
  <2>1. Steps(c) \subseteq Steps(c)'
    <3> SUFFICES ASSUME NEW k \in Steps(c)
                 PROVE  k \in Steps(c)'
      OBVIOUS
    <3>1. k \in DOMAIN images[c]
      BY DEF Steps
    <3>2. \A u \in Undoers : undo'[u].change # c
      BY <1>2, <1>3
    <3>3. "crash" \notin disturbed'[c] => k = IF status'[c] = "applied" THEN Last(c)' ELSE 1
      <4>1. "crash" \notin disturbed'[c] => Active(c) = {} /\ "crash" \notin disturbed[c]
        BY <1>1
      <4> QED BY <1>1, <1>6, <4>1, CalmClean DEF Steps
    <3> QED BY <1>1, <3>1, <3>2, <3>3 DEF Steps
  <2> QED BY <1>1, <1>5, <1>6, <2>1, StandingKeeps DEF DiskInv
<1> QED BY <1>7, <1>8, <1>9 DEF DiskInv

-----------------------------------------------------------------------------
\* An operation is recorded: its rows get the hashes of what it left on disk.
LEMMA RecordStands ==
  ASSUME DiskInv, WalkInv', NEW c \in Changes, Record(c)
  PROVE  DiskInv'
<1>1. /\ writer[c] = "writing" /\ Len(rows[c]) = Len(Plan[c])
      /\ writer' = [writer EXCEPT ![c] = "recorded"] /\ status' = [status EXCEPT ![c] = "applied"]
      /\ rows' = [rows EXCEPT ![c] = [i \in DOMAIN @ |-> [@[i] EXCEPT !.hash = AfterHash(rows[c][i])]]]
      /\ UNCHANGED <<disk, trash, undo, images, disturbed>>
  BY DEF Record
<1>2. rows \in [Changes -> Seq(Row)]
  BY DEF DiskInv, WalkInv, TypeOK
<1>3. /\ writer'[c] = "recorded" /\ \A d \in Changes \ {c} : writer'[d] = writer[d]
      /\ status'[c] = "applied" /\ \A d \in Changes \ {c} : status'[d] = status[d]
      /\ rows'[c] = [i \in DOMAIN rows[c] |-> [rows[c][i] EXCEPT !.hash = AfterHash(rows[c][i])]]
      /\ \A d \in Changes \ {c} : rows'[d] = rows[d]
  BY <1>1 DEF DiskInv, WalkInv, TypeOK
<1>4. status[c] = "none" /\ \A u \in Undoers : undo[u].change # c
  <2>1. status[c] = "none"
    BY <1>1 DEF DiskInv, WalkInv, Walking, Sound
  <2> QED BY <1>1, <2>1, PlanAssumption DEF DiskInv, WalkInv, Walking, Calls
<1>5. /\ \A i \in DOMAIN rows[c] : rows[c][i] \in Row
      /\ Len(rows'[c]) = Len(rows[c]) /\ Last(c)' = Last(c)
  <2>1. rows[c] \in Seq(Row) /\ rows'[c] \in Seq(Row) /\ DOMAIN rows'[c] = DOMAIN rows[c]
    BY <1>2, <1>3 DEF WalkInv, TypeOK
  <2>2. DOMAIN rows[c] = 1 .. Len(rows[c]) /\ DOMAIN rows'[c] = 1 .. Len(rows'[c])
        /\ Len(rows[c]) \in Nat /\ Len(rows'[c]) \in Nat
    BY <2>1
  <2> QED BY <2>1, <2>2 DEF Last
<1>6. ASSUME NEW i \in DOMAIN rows[c]
      PROVE  /\ rows'[c][i].hash = AfterHash(rows[c][i])
             /\ rows'[c][i].kind = rows[c][i].kind /\ rows'[c][i].path = rows[c][i].path
             /\ rows'[c][i].to = rows[c][i].to /\ rows'[c][i].before = rows[c][i].before
             /\ rows'[c][i].after = rows[c][i].after
             /\ RowPaths(rows'[c][i]) = RowPaths(rows[c][i])
  <2>1. PICK r \in Row : r = rows[c][i]
    BY <1>5, <1>6
  <2>2. rows'[c][i] = [r EXCEPT !.hash = AfterHash(r)]
    BY <1>3, <1>6, <2>1
  <2> QED BY <2>1, <2>2 DEF Row, RowPaths
<1>7. DOMAIN rows'[c] = DOMAIN rows[c]
  BY <1>3
<1>8. \A d \in Changes : Written(d)' = Written(d) /\ Last(d)' = Last(d) /\ \A p : Over(d, p)' = Over(d, p)
  <2>1. \A d \in Changes : Written(d)' = Written(d)
    <3>1. Written(c)' = Written(c)
      <4>1. \A i \in DOMAIN rows[c] : RowPaths(rows[c][i])' = RowPaths(rows[c][i])
        BY <1>6 DEF RowPaths
      <4> QED BY <1>7, <4>1 DEF Written
    <3>2. ASSUME NEW d \in Changes, d # c PROVE Written(d)' = Written(d)
      <4>1. rows'[d] = rows[d]
        BY <1>3, <3>2
      <4> QED BY <4>1 DEF Written, RowPaths
    <3> QED BY <3>1, <3>2
  <2>2. \A d \in Changes : Last(d)' = Last(d)
    BY <1>3, <1>5 DEF Last
  <2>3. \A d \in Changes : \A p : Over(d, p)' = Over(d, p)
    BY <1>1, <2>1 DEF Over
  <2> QED BY <2>1, <2>2, <2>3
<1>9. \A d \in Changes : /\ Clean(d)' = Clean(d) /\ (Removable(d)' => Removable(d))
                         /\ Active(d)' = Active(d)
  <2>1. \A d \in Changes : Clean(d)' = Clean(d) /\ Free(d)' = Free(d) /\ Active(d)' = Active(d)
    BY <1>1 DEF Clean, Free, Active
  <2>2. \A d \in Changes : status'[d] # "undone" /\ writer'[d] \in {"writing", "recorded"}
                            => status[d] # "undone" /\ writer[d] \in {"writing", "recorded"}
    BY <1>1, <1>3, <1>4
  <2> QED BY <1>1, <2>1, <2>2 DEF Removable
<1>10. Clean(c) => /\ disturbed[c] = {}
                   /\ View(c, disk) = images[c][Last(c)]
                   /\ \A p \in PathsOf(c) : disk[p] = images[c][Last(c)][p]
  <2>1. Clean(c) => disturbed[c] = {} /\ View(c, disk) = images[c][Last(c)]
    BY <1>1 DEF DiskInv, Histories, Shape, Working
  <2> QED BY <2>1 DEF View
<1>11. Histories'
  <2>1. ASSUME NEW d \in Changes PROVE Shape(d)'
    <3>1. Shape(d)
      BY DEF DiskInv, Histories
    <3>2. \A e \in Changes : writer'[e] = "idle" <=> writer[e] = "idle"
      BY <1>1, <1>3
    <3>3. \A e \in disturbed'[d] \cap Changes : e # d /\ writer'[e] # "idle"
      BY <1>1, <3>1, <3>2 DEF Shape
    <3>4. CASE d # c
      BY <1>1, <1>3, <1>8, <1>9, <3>1, <3>3, <3>4 DEF Shape
    <3>5. CASE d = c
      <4>1. \A i \in DOMAIN rows'[c] : Planned(rows'[c][i], Plan[c][i])
        BY <1>6, <1>7, <3>1, <3>5 DEF Shape, Planned
      <4> QED BY <1>1, <1>3, <1>5, <3>1, <3>3, <3>5, <4>1 DEF Shape
    <3> QED BY <3>4, <3>5
  <2>2. ASSUME NEW d \in Changes PROVE Told(d)'
    <3>1. Told(d)
      BY DEF DiskInv, Histories
    <3>2. CASE d # c
      BY <1>1, <1>3, <1>8, <1>9, <3>1, <3>2 DEF Told
    <3>3. CASE d = c
      <4> SUFFICES ASSUME Clean(c), NEW i \in DOMAIN rows[c]
                   PROVE  /\ Effect(rows'[c][i], images[c][i], images[c][i + 1])
                          /\ Final(rows'[c][i], images[c][Last(c)])
                          /\ Plan[c][i].op \in {"delete", "trash"} =>
                               trash[c][rows'[c][i].path] = images[c][i][rows'[c][i].path]
                          /\ Hashed(rows'[c][i], images[c][Last(c)])
        BY <1>1, <1>7, <1>8, <1>9, <3>3 DEF Told
      <4>1. /\ Effect(rows[c][i], images[c][i], images[c][i + 1])
            /\ Final(rows[c][i], images[c][Last(c)])
            /\ Plan[c][i].op \in {"delete", "trash"}
                 => trash[c][rows[c][i].path] = images[c][i][rows[c][i].path]
        BY <1>1, <3>1, <3>3 DEF Told
      <4>2. Effect(rows'[c][i], images[c][i], images[c][i + 1])
        BY <1>6, <4>1 DEF Effect
      <4>3. Final(rows'[c][i], images[c][Last(c)])
        BY <1>6, <4>1 DEF Final
      <4>4. Hashed(rows'[c][i], images[c][Last(c)])
        <5>1. RowPaths(rows[c][i]) \subseteq PathsOf(c)
          BY RowsArePlanned DEF DiskInv, Histories
        <5>2. \A p \in RowPaths(rows[c][i]) : disk[p] = images[c][Last(c)][p]
          BY <1>10, <5>1
        <5> QED BY <1>6, <5>2 DEF Hashed, AfterHash, RowPaths
      <4> QED BY <1>6, <4>1, <4>2, <4>3, <4>4
    <3> QED BY <3>2, <3>3
  <2>3. ASSUME NEW d \in Changes PROVE Working(d)'
    <3>1. Working(d)
      BY DEF DiskInv, Histories
    <3> QED BY <1>1, <1>3, <1>8, <3>1 DEF Working, View
  <2>4. ASSUME NEW d \in Changes, NEW e \in Changes PROVE Order(d, e)'
    <3>1. Order(d, e) /\ Order(e, d)
      BY DEF DiskInv, Histories
    <3>2. CASE d # c /\ e # c
      BY <1>1, <1>3, <1>8, <1>9, <3>1, <3>2 DEF Order
    <3>3. CASE d = c
      BY <1>1, <1>3, <1>8, <1>9, <3>1, <3>3 DEF Order
    <3>4. CASE e = c
      BY <1>1, <1>3, <1>8, <1>9, <3>1, <3>4 DEF Order
    <3> QED BY <3>2, <3>3, <3>4
  <2>5. images' = [d \in Changes |-> images'[d]]
    BY <1>1 DEF DiskInv, Histories
  <2> QED BY <2>1, <2>2, <2>3, <2>4, <2>5 DEF Histories
<1>12. ASSUME NEW u \in Undoers PROVE Calls(u)'
  <2>1. Calls(u)
    BY DEF DiskInv
  <2>2. CASE undo[u].pc = "idle"
    BY <1>1, <2>1, <2>2 DEF Calls
  <2>3. CASE undo[u].pc # "idle"
    <3>1. PICK d \in Changes : d = undo[u].change
      BY <2>3 DEF DiskInv, WalkInv, Walking
    <3>2. d # c
      BY <1>4, <3>1
    <3>3. \A y, j : Reversal(d, y, j) => Reversal(d, y, j)'
      BY <1>1, <1>3, <1>8, <1>9, <3>2 DEF Reversal
    <3>4. rows'[d] = rows[d] /\ status'[d] = status[d]
      BY <1>3, <3>2
    <3> QED BY <1>1, <2>1, <2>3, <3>1, <3>3, <3>4 DEF Calls
  <2> QED BY <2>2, <2>3
<1>13. ASSUME NEW d \in Changes PROVE Standing(d)'
  <2> SUFFICES ASSUME status'[d] # "none", Clean(d)', Removable(d)'
               PROVE  \E k \in Steps(d)' : Holds(d, k)' /\ Lies(d, k)'
    BY DEF Standing
  <2>1. CASE d # c
    <3>1. PICK k \in Steps(d) : Holds(d, k) /\ Lies(d, k)
      BY <1>3, <1>9, <2>1 DEF DiskInv, Standing
    <3>2. k \in Steps(d)'
      BY <1>1, <1>3, <1>8, <1>9, <2>1, <3>1 DEF Steps
    <3>3. Holds(d, k)' /\ Lies(d, k)'
      BY <1>1, <1>8, <3>1 DEF Holds, Lies, Over
    <3> QED BY <3>2, <3>3
  <2>2. CASE d = c
    <3>1. disturbed[c] = {} /\ \A p \in PathsOf(c) : disk[p] = images[c][Last(c)][p]
      BY <1>9, <1>10, <2>2
    <3>2. Last(c) \in DOMAIN images[c]
      <4>1. Last(c) \in Nat /\ DOMAIN images[c] = 1 .. Last(c) /\ Last(c) = Len(rows[c]) + 1 /\ Len(rows[c]) \in Nat
        BY <1>1, Indices DEF DiskInv
      <4> QED BY <4>1
    <3>3. Last(c) \in Steps(c)'
      BY <1>1, <1>3, <1>4, <1>8, <3>2 DEF Steps
    <3>4. Holds(c, Last(c))' /\ Lies(c, Last(c))'
      BY <1>1, <1>8, <3>1 DEF Holds, Lies, Over
    <3>5. Last(c)' = Last(c)
      BY <1>8
    <3> QED BY <2>2, <3>3, <3>4, <3>5
  <2> QED BY <2>1, <2>2
<1>14. Alone'
  BY <1>1 DEF DiskInv, Alone
<1> QED BY <1>11, <1>12, <1>13, <1>14 DEF DiskInv


\* An operation begins: it has written nothing, and nobody has disturbed it.
LEMMA ReadStands ==
  ASSUME DiskInv, WalkInv', NEW c \in Changes, Read(c)
  PROVE  DiskInv'
<1>1. /\ writer[c] = "idle" /\ writer' = [writer EXCEPT ![c] = "writing"]
      /\ images' = [images EXCEPT ![c] = <<View(c, disk)>>]
      /\ UNCHANGED <<disk, trash, rows, status, undo, disturbed>>
  BY DEF Read
<1>2. /\ writer'[c] = "writing" /\ images'[c] = <<View(c, disk)>>
      /\ \A d \in Changes \ {c} : writer'[d] = writer[d] /\ images'[d] = images[d]
      /\ images' = [d \in Changes |-> images'[d]]
  BY <1>1 DEF DiskInv, WalkInv, TypeOK, Histories
<1>3. /\ rows[c] = <<>> /\ disturbed[c] = {} /\ Written(c) = {} /\ Last(c) = 1 /\ status[c] = "none"
      /\ \A d \in Changes : c \notin disturbed[d]
  <2>1. rows[c] = <<>> /\ disturbed[c] = {} /\ \A d \in Changes : c \notin disturbed[d]
    BY <1>1 DEF DiskInv, Histories, Shape
  <2>2. DOMAIN <<>> = {} /\ Len(<<>>) = 0
    OBVIOUS
  <2>3. status[c] = "none"
    BY <1>1 DEF DiskInv, WalkInv, Walking, Sound
  <2> QED BY <2>1, <2>2, <2>3 DEF Written, Last
<1>4. \A d \in Changes : /\ Written(d)' = Written(d) /\ Last(d)' = Last(d) /\ Clean(d)' = Clean(d)
                         /\ Free(d)' = Free(d) /\ Active(d)' = Active(d) /\ \A p : Over(d, p)' = Over(d, p)
  BY <1>1 DEF Written, Last, Clean, Free, Active, Over
<1>5. \A d \in Changes : Removable(d)' => Removable(d)
  BY <1>1, <1>2, <1>3, <1>4 DEF Removable
<1>6. View(c, disk) \in [PathsOf(c) -> Content] /\ View(c, disk)' = View(c, disk)
  BY <1>1, ViewTyped DEF DiskInv, WalkInv, TypeOK, View
<1>7. Histories'
  <2>1. ASSUME NEW d \in Changes PROVE Shape(d)'
    <3>1. Shape(d) /\ \A e \in Changes : writer[e] # "idle" => writer'[e] # "idle"
      BY <1>1, <1>2 DEF DiskInv, Histories
    <3>2. CASE d # c
      BY <1>1, <1>2, <1>4, <3>1, <3>2 DEF Shape
    <3>3. CASE d = c
      <4>1. images'[c] \in Seq([PathsOf(c) -> Content]) /\ Len(images'[c]) = Last(c)'
        <5> DEFINE v == View(c, disk)
                   V == [PathsOf(c) -> Content]
        <5>1. v \in V /\ images'[c] = <<v>> /\ Last(c)' = 1
          BY <1>2, <1>3, <1>4, <1>6
        <5> HIDE DEF v, V
        <5>2. <<v>> \in Seq(V) /\ Len(<<v>>) = 1
          BY <5>1
        <5> QED BY <5>1, <5>2 DEF V
      <4> QED BY <1>1, <1>2, <1>3, <1>4, <3>1, <3>3, <4>1 DEF Shape
    <3> QED BY <3>2, <3>3
  <2>2. ASSUME NEW d \in Changes PROVE Told(d)'
    <3>1. Told(d)
      BY DEF DiskInv, Histories
    <3>2. CASE d # c
      BY <1>1, <1>2, <1>4, <3>1, <3>2 DEF Told
    <3>3. CASE d = c
      <4>1. DOMAIN rows'[c] = {}
        BY <1>1, <1>3
      <4> QED BY <3>3, <4>1 DEF Told
    <3> QED BY <3>2, <3>3
  <2>3. ASSUME NEW d \in Changes PROVE Working(d)'
    <3>1. Working(d)
      BY DEF DiskInv, Histories
    <3>2. CASE d # c
      BY <1>1, <1>2, <1>4, <3>1, <3>2 DEF Working, View
    <3>3. CASE d = c
      <4>1. images'[c][1] = View(c, disk) /\ Last(c)' = 1
        BY <1>2, <1>3, <1>4
      <4> QED BY <1>1, <1>6, <3>3, <4>1 DEF Working, View
    <3> QED BY <3>2, <3>3
  <2>4. ASSUME NEW d \in Changes, NEW e \in Changes PROVE Order(d, e)'
    <3>1. Order(d, e) /\ Written(c) = {}
      BY <1>3 DEF DiskInv, Histories
    <3> QED BY <1>1, <1>2, <1>4, <3>1 DEF Order
  <2> QED BY <1>2, <2>1, <2>2, <2>3, <2>4 DEF Histories
<1>8. ASSUME NEW u \in Undoers PROVE Calls(u)'
  <2>1. Calls(u)
    BY DEF DiskInv
  <2>2. CASE undo[u].pc = "idle"
    BY <1>1, <2>1, <2>2 DEF Calls
  <2>3. CASE undo[u].pc # "idle"
    <3>1. PICK d \in Changes : d = undo[u].change
      BY <2>3 DEF DiskInv, WalkInv, Walking
    <3>2. d # c
      <4>1. status[d] = "applied"
        BY <2>1, <2>3, <3>1 DEF Calls
      <4> QED BY <1>3, <4>1
    <3>3. \A y, j : Reversal(d, y, j) => Reversal(d, y, j)'
      BY <1>1, <1>2, <1>4, <1>5, <3>2 DEF Reversal
    <3> QED BY <1>1, <2>1, <2>3, <3>1, <3>3 DEF Calls
  <2> QED BY <2>2, <2>3
<1>9. ASSUME NEW d \in Changes PROVE Standing(d)'
  <2> SUFFICES ASSUME status[d] # "none", Clean(d)', Removable(d)'
               PROVE  \E k \in Steps(d)' : Holds(d, k)' /\ Lies(d, k)'
    BY <1>1 DEF Standing
  <2>1. d # c /\ images'[d] = images[d]
    BY <1>2, <1>3
  <2>2. PICK k \in Steps(d) : Holds(d, k) /\ Lies(d, k)
    BY <1>4, <1>5 DEF DiskInv, Standing
  <2>3. k \in Steps(d)'
    BY <1>1, <1>4, <2>1, <2>2 DEF Steps
  <2>4. \A p : c \notin Over(d, p)
    BY <1>3 DEF Over
  <2>5. Holds(d, k)' /\ Lies(d, k)'
    BY <1>1, <1>2, <1>4, <2>1, <2>2, <2>4 DEF Holds, Lies, Over
  <2> QED BY <2>3, <2>5
<1>10. Alone'
  BY <1>1 DEF DiskInv, Alone
<1> QED BY <1>7, <1>8, <1>9, <1>10 DEF DiskInv

-----------------------------------------------------------------------------
\* An operation c at work writes to the files ps of its own.
Touch(c, ps) ==
  /\ writer[c] = "writing" /\ status[c] = "none" /\ UNCHANGED <<writer, status, undo>>
  /\ ps \subseteq PathsOf(c) /\ \A p \in Paths \ ps : disk'[p] = disk[p]
  /\ Written(c)' = Written(c) \cup ps /\ images'[c][1] = images[c][1]
  /\ images' = [d \in Changes |-> images'[d]]
  /\ disturbed'[c] \in {disturbed[c], disturbed[c] \cup {"replaced"}}
  /\ \A d \in Changes \ {c} :
       /\ rows'[d] = rows[d] /\ images'[d] = images[d] /\ trash'[d] = trash[d]
       /\ disturbed'[d] = IF Begun(d, ps)
                          THEN disturbed[d] \cup {c}
                                 \cup (IF writer[d] = "recorded" THEN {} ELSE {"overlap"})
                          ELSE disturbed[d]

\* Whom it disturbs, and what an operation still undisturbed has found.
LEMMA TouchDisturbs ==
  ASSUME DiskInv, NEW c \in Changes, NEW ps, Touch(c, ps)
  PROVE  /\ Clean(c)' => /\ disturbed'[c] = {} /\ disturbed[c] = {} /\ Clean(c)
                         /\ View(c, disk) = images[c][Last(c)]
                         /\ \A p \in PathsOf(c) \ Written(c) : images[c][1][p] = disk[p]
         /\ \A d \in Changes \ {c} :
              /\ disturbed[d] \subseteq disturbed'[d] /\ disturbed'[d] \cap Changes \subseteq disturbed[d] \cup {c}
              /\ "crash" \in disturbed'[d] <=> "crash" \in disturbed[d]
              /\ c \in disturbed'[d] <=> c \in disturbed[d] \/ Begun(d, ps)
              /\ writer[d] # "recorded" /\ Clean(d)' => ~Begun(d, ps)
              /\ ~Begun(d, ps) => disturbed'[d] = disturbed[d]
         /\ \A d \in Changes : (Clean(d)' => Clean(d)) /\ (Removable(d)' => Removable(d))
<1>1. "overlap" \notin Changes /\ "replaced" \notin Changes /\ "crash" \notin Changes
  BY PlanAssumption DEF Reasons
<1>2. \A d \in Changes : disturbed[d] \subseteq disturbed'[d]
  BY DEF Touch
<1>3. \A d \in Changes : (Clean(d)' => Clean(d)) /\ (Free(d)' => Free(d))
  BY <1>2 DEF Clean, Free
<1>4. \A d \in Changes : Removable(d)' => Removable(d)
  <2>1. writer' = writer /\ status' = status
    BY DEF Touch
  <2> QED BY <1>2, <1>3, <2>1 DEF Removable
<1>5. ASSUME NEW d \in Changes, d # c
      PROVE  /\ disturbed'[d] \cap Changes \subseteq disturbed[d] \cup {c}
             /\ "crash" \in disturbed'[d] <=> "crash" \in disturbed[d]
             /\ c \in disturbed'[d] <=> c \in disturbed[d] \/ Begun(d, ps)
             /\ ~Begun(d, ps) => disturbed'[d] = disturbed[d]
             /\ writer[d] # "recorded" /\ Clean(d)' => ~Begun(d, ps)
  <2>1. disturbed'[d] = IF Begun(d, ps)
                        THEN disturbed[d] \cup {c} \cup (IF writer[d] = "recorded" THEN {} ELSE {"overlap"})
                        ELSE disturbed[d]
    BY <1>5 DEF Touch
  <2>2. writer[d] # "recorded" /\ Begun(d, ps) => ~Clean(d)'
    BY <1>1, <2>1 DEF Clean
  <2> QED BY <1>1, <2>1, <2>2
<1>6. ASSUME Clean(c)'
      PROVE  /\ disturbed'[c] = {} /\ disturbed[c] = {} /\ Clean(c)
             /\ View(c, disk) = images[c][Last(c)]
             /\ \A p \in PathsOf(c) \ Written(c) : images[c][1][p] = disk[p]
  <2>1. disturbed'[c] = disturbed[c]
    <3>1. "replaced" \notin disturbed'[c]
      BY <1>1, <1>6 DEF Clean
    <3> QED BY <3>1 DEF Touch
  <2>2. Shape(c) /\ Working(c) /\ Clean(c) /\ writer[c] = "writing"
    BY <1>3, <1>6 DEF DiskInv, Histories, Touch
  <2>3. disturbed[c] = {}
    BY <2>2 DEF Shape
  <2> QED BY <2>1, <2>2, <2>3 DEF Working
<1> QED BY <1>2, <1>3, <1>4, <1>5, <1>6

LEMMA TouchWrites ==
  ASSUME NEW c \in Changes, NEW ps, Touch(c, ps)
  PROVE  \A d \in Changes \ {c} : Last(d)' = Last(d) /\ Written(d)' = Written(d)
<1> SUFFICES ASSUME NEW d \in Changes, d # c
             PROVE  Last(d)' = Last(d) /\ Written(d)' = Written(d)
  OBVIOUS
<1>1. rows'[d] = rows[d]
  BY DEF Touch
<1> QED BY <1>1 DEF Last, Written, RowPaths

LEMMA TouchOrders ==
  ASSUME DiskInv, WalkInv', NEW c \in Changes, NEW ps, Touch(c, ps), NEW x \in Changes, NEW y \in Changes
  PROVE  Order(x, y)'
<1> SUFFICES ASSUME Clean(x)', Clean(y)'
             PROVE  /\ x # y /\ Written(x)' \cap Written(y)' # {} =>
                         /\ writer'[y] = "writing" /\ writer'[x] \in {"writing", "recorded"} => y \in disturbed'[x]
                         /\ writer'[x] = "recorded" /\ writer'[y] = "recorded" /\ status'[x] # "undone" /\ status'[y] # "undone"
                              => x \in disturbed'[y] \/ y \in disturbed'[x]
                    /\ ~(x \in disturbed'[y] /\ y \in disturbed'[x])
  BY DEF Order
<1>1. Clean(x) /\ Clean(y) /\ Order(x, y) /\ Shape(x) /\ Shape(y)
  BY TouchDisturbs DEF DiskInv, Histories
<1>2. \A d \in Changes \ {c} : Written(d)' = Written(d)
  BY TouchWrites
<1>3. Written(c)' = Written(c) \cup ps
  BY DEF Touch
<1>4. writer[c] = "writing" /\ writer' = writer /\ status' = status
  BY DEF Touch
<1>5. \A d \in Changes \ {c} : /\ disturbed[d] \subseteq disturbed'[d]
                               /\ disturbed'[d] \cap Changes \subseteq disturbed[d] \cup {c}
                               /\ c \in disturbed'[d] <=> c \in disturbed[d] \/ Begun(d, ps)
                               /\ writer[d] # "recorded" /\ Clean(d)' => ~Begun(d, ps)
  BY TouchDisturbs
<1>6. Clean(c)' => disturbed'[c] = {} /\ disturbed[c] = {}
  BY TouchDisturbs
<1>7. \A d \in Changes \ {c} : \A p \in Written(d) \cap ps : writer[d] # "idle" => Begun(d, ps)
  BY WrittenPaths DEF DiskInv, Histories, Begun
<1>8. CASE x # c /\ y # c
  BY <1>1, <1>2, <1>4, <1>5, <1>8 DEF Order
<1>9. CASE x = c /\ y = c
  BY <1>6, <1>9
<1>10. CASE x # c /\ y = c
  <2>1. ~(x \in disturbed'[y] /\ y \in disturbed'[x])
    BY <1>6, <1>10
  <2>2. ASSUME Written(x) \cap (Written(c) \cup ps) # {}, writer[x] \in {"writing", "recorded"}
        PROVE  c \in disturbed'[x]
    <3>1. CASE Written(x) \cap Written(c) # {}
      BY <1>1, <1>4, <1>5, <1>10, <2>2, <3>1 DEF Order
    <3>2. CASE Written(x) \cap ps # {}
      BY <1>5, <1>7, <1>10, <2>2, <3>2
    <3> QED BY <2>2, <3>1, <3>2
  <2> QED BY <1>2, <1>3, <1>4, <1>10, <2>1, <2>2
<1>11. CASE x = c /\ y # c
  <2>1. ~(x \in disturbed'[y] /\ y \in disturbed'[x])
    BY <1>6, <1>11
  <2>2. ASSUME Written(y) \cap (Written(c) \cup ps) # {}, writer[y] = "writing"
        PROVE  y \in disturbed'[c]
    <3>1. Written(y) \cap ps = {}
      BY <1>5, <1>7, <1>11, <2>2
    <3>2. y \in disturbed[c]
      BY <1>1, <1>4, <1>11, <2>2, <3>1 DEF Order
    <3> QED BY <1>6, <1>11, <3>2
  <2> QED BY <1>2, <1>3, <1>4, <1>11, <2>1, <2>2
<1> QED BY <1>8, <1>9, <1>10, <1>11

LEMMA TouchKeeps ==
  ASSUME DiskInv, WalkInv', NEW c \in Changes, NEW ps, Touch(c, ps),
         Shape(c)', Told(c)', Clean(c)' => View(c, disk)' = images'[c][Last(c)']
  PROVE  Histories'
<1>1. \A d \in Changes \ {c} : Last(d)' = Last(d) /\ Written(d)' = Written(d)
  BY TouchWrites
<1>2. Clean(c)' => \A p \in PathsOf(c) \ Written(c) : images[c][1][p] = disk[p]
  BY TouchDisturbs
<1>3. \A d \in Changes \ {c} : /\ disturbed'[d] \cap Changes \subseteq disturbed[d] \cup {c}
                               /\ writer[d] # "recorded" /\ Clean(d)' => ~Begun(d, ps)
                               /\ ~Begun(d, ps) => disturbed'[d] = disturbed[d]
  BY TouchDisturbs
<1>4. \A d \in Changes : Clean(d)' => Clean(d)
  BY TouchDisturbs
<1>5. /\ writer[c] = "writing" /\ writer' = writer /\ status' = status
      /\ \A p \in Paths \ ps : disk'[p] = disk[p]
      /\ Written(c)' = Written(c) \cup ps /\ images'[c][1] = images[c][1]
      /\ images' = [d \in Changes |-> images'[d]]
      /\ \A d \in Changes \ {c} : rows'[d] = rows[d] /\ images'[d] = images[d] /\ trash'[d] = trash[d]
  BY DEF Touch
<1>6. ASSUME NEW d \in Changes PROVE Shape(d)'
  <2> SUFFICES ASSUME d # c PROVE Shape(d)'
    OBVIOUS
  <2>1. Shape(d)
    BY DEF DiskInv, Histories
  <2>2. \A e \in disturbed'[d] \cap Changes : e # d /\ writer'[e] # "idle"
    BY <1>3, <1>5, <2>1 DEF Shape
  <2>3. writer[d] # "recorded" /\ Clean(d)' => disturbed'[d] = {}
    BY <1>3, <1>4, <2>1 DEF Shape
  <2>4. writer[d] = "idle" => disturbed'[d] = {}
    BY <1>3, <2>1 DEF Shape, Begun
  <2> QED BY <1>1, <1>5, <2>1, <2>2, <2>3, <2>4 DEF Shape
<1>7. ASSUME NEW d \in Changes PROVE Told(d)'
  <2> SUFFICES ASSUME d # c PROVE Told(d)'
    OBVIOUS
  <2>1. Told(d)
    BY DEF DiskInv, Histories
  <2> QED BY <1>1, <1>4, <1>5, <2>1 DEF Told
<1>8. ASSUME NEW d \in Changes PROVE Working(d)'
  <2>1. CASE d = c
    <3> SUFFICES ASSUME disturbed'[c] = {}
                 PROVE  /\ View(c, disk)' = images'[c][Last(c)']
                        /\ \A p \in PathsOf(c) \ Written(c)' : images'[c][1][p] = disk'[p]
      BY <2>1 DEF Working
    <3>1. Clean(c)'
      BY DEF Clean
    <3> QED BY <1>2, <1>5, <3>1, PathsArePaths
  <2>2. CASE d # c
    <3> SUFFICES ASSUME writer[d] = "writing", disturbed'[d] = {}
                 PROVE  /\ View(d, disk)' = images[d][Last(d)]
                        /\ \A p \in PathsOf(d) \ Written(d) : images[d][1][p] = disk'[p]
      BY <1>1, <1>5, <2>2 DEF Working
    <3>1. disturbed[d] = {} /\ ~Begun(d, ps)
      <4>1. Clean(d)'
        BY DEF Clean
      <4> QED BY <1>3, <2>2, <4>1
    <3>2. \A p \in PathsOf(d) : disk'[p] = disk[p]
      BY <1>5, <3>1, PathsArePaths DEF Begun
    <3>3. View(d, disk)' = View(d, disk)
      BY <3>2 DEF View
    <3> QED BY <3>1, <3>2, <3>3 DEF DiskInv, Histories, Working
  <2> QED BY <2>1, <2>2
<1>9. \A x \in Changes, y \in Changes : Order(x, y)'
  BY TouchOrders
<1> QED BY <1>5, <1>6, <1>7, <1>8, <1>9 DEF Histories

LEMMA TouchStands ==
  ASSUME DiskInv, WalkInv', NEW c \in Changes, NEW ps, Touch(c, ps), Histories'
  PROVE  DiskInv'
<1>1. \A d \in Changes : (Clean(d)' => Clean(d)) /\ (Removable(d)' => Removable(d))
  BY TouchDisturbs
<1>2. \A d \in Changes \ {c} :
        /\ disturbed[d] \subseteq disturbed'[d] /\ disturbed'[d] \cap Changes \subseteq disturbed[d] \cup {c}
        /\ "crash" \in disturbed'[d] <=> "crash" \in disturbed[d]
        /\ c \in disturbed'[d] <=> c \in disturbed[d] \/ Begun(d, ps)
  BY TouchDisturbs
<1>3. Clean(c)' => /\ disturbed'[c] = {} /\ Clean(c)
                   /\ \A p \in PathsOf(c) \ Written(c) : images[c][1][p] = disk[p]
  BY TouchDisturbs
<1>4. \A d \in Changes \ {c} : Last(d)' = Last(d) /\ Written(d)' = Written(d)
  BY TouchWrites
<1>5. /\ writer[c] = "writing" /\ status[c] = "none" /\ UNCHANGED <<writer, status, undo>>
      /\ \A p \in Paths \ ps : disk'[p] = disk[p]
      /\ Written(c)' = Written(c) \cup ps /\ ps \subseteq PathsOf(c) /\ images'[c][1] = images[c][1]
      /\ \A d \in Changes \ {c} : rows'[d] = rows[d] /\ images'[d] = images[d]
  BY DEF Touch
<1>6. \A d \in Changes : status[d] # "none" => d # c /\ writer[d] = "recorded"
  BY <1>5 DEF DiskInv, WalkInv, Walking, Sound
<1>7. ASSUME NEW u \in Undoers PROVE Calls(u)'
  <2>1. Calls(u)
    BY DEF DiskInv
  <2>2. CASE undo[u].pc = "idle"
    BY <1>5, <2>1, <2>2 DEF Calls
  <2>3. CASE undo[u].pc # "idle"
    <3>1. PICK d \in Changes : d = undo[u].change
      BY <2>3 DEF DiskInv, WalkInv, Walking
    <3>2. d # c
      BY <1>5, <2>3, <3>1 DEF DiskInv, WalkInv, Walking
    <3>3. \A y, j : Reversal(d, y, j) => Reversal(d, y, j)'
      BY <1>1, <1>4, <1>5, <3>2 DEF Reversal
    <3>4. rows'[d] = rows[d]
      BY <1>5, <3>2
    <3> QED BY <1>5, <2>1, <2>3, <3>1, <3>3, <3>4 DEF Calls
  <2> QED BY <2>2, <2>3
<1>8. ASSUME NEW d \in Changes PROVE Standing(d)'
  <2> SUFFICES ASSUME status[d] # "none", Clean(d)', Removable(d)'
               PROVE  \E k \in Steps(d)' : Holds(d, k)' /\ Lies(d, k)'
    BY <1>5 DEF Standing
  <2>1. d # c /\ Clean(d) /\ Removable(d) /\ writer[d] = "recorded"
    BY <1>1, <1>6
  <2>2. PICK k \in Steps(d) : Holds(d, k) /\ Lies(d, k)
    BY <2>1 DEF DiskInv, Standing
  <2>3. k \in Steps(d)'
    <3>1. Active(d)' = Active(d)
      BY <1>5 DEF Active
    <3>2. rows'[d] = rows[d] /\ images'[d] = images[d] /\ Last(d)' = Last(d)
          /\ ("crash" \in disturbed'[d] <=> "crash" \in disturbed[d])
      BY <1>2, <1>4, <1>5, <2>1
    <3> QED BY <1>5, <2>2, <3>1, <3>2 DEF Steps
  <2>4. ASSUME NEW p PROVE Over(d, p) \subseteq Over(d, p)' /\ Over(d, p)' \subseteq Over(d, p) \cup {c}
    <3>1. \A e \in Changes : Written(e) \subseteq Written(e)'
      BY <1>4, <1>5
    <3> QED BY <1>2, <1>4, <2>1, <3>1 DEF Over
  <2>5. \A p \in PathsOf(d) \cap ps : c \in Over(d, p)'
    <3>1. PathsOf(d) \cap ps # {} => c \in disturbed'[d]
      BY <1>2, <2>1 DEF Begun
    <3> QED BY <1>5, <3>1 DEF Over
  <2>6. Holds(d, k)'
    <3> SUFFICES ASSUME NEW p \in PathsOf(d), Over(d, p)' = {}
                 PROVE  disk'[p] = images[d][k][p]
      BY <1>5, <2>1 DEF Holds
    <3>1. Over(d, p) = {} /\ p \notin ps
      BY <2>4, <2>5
    <3>2. disk'[p] = disk[p]
      BY <1>5, <3>1, PathsArePaths
    <3> QED BY <2>2, <3>1, <3>2 DEF Holds
  <2>7. Lies(d, k)'
    <3> SUFFICES ASSUME NEW p \in PathsOf(d), NEW e \in Over(d, p)', Over(d, p)' \ {e} \subseteq disturbed'[e]
                 PROVE  images'[e][1][p] = images[d][k][p]
      BY <1>5, <2>1 DEF Lies
    <3>1. e \in Changes /\ e \in disturbed'[d]
      BY DEF Over
    <3>2. CASE e # c
      <4>1. e \in Over(d, p) /\ e \in disturbed[d] /\ p \in Written(e)
        BY <1>2, <1>4, <2>1, <2>4, <3>1, <3>2 DEF Over
      <4>2. ASSUME c \in Over(d, p)
            PROVE  c \in disturbed[e]
        <5>1. c \in disturbed[d] /\ p \in Written(c)
          BY <4>2 DEF Over
        <5>2. Free(e) /\ Free(c) /\ writer[e] \in {"writing", "recorded"}
          BY <2>1, <3>1, <4>1, <5>1 DEF Removable
        <5>3. Clean(e) /\ Clean(c)
          BY <5>2 DEF Free, Clean
        <5>4. Order(e, c)
          BY <3>1 DEF DiskInv, Histories
        <5> QED BY <1>5, <3>2, <4>1, <5>1, <5>2, <5>3, <5>4 DEF Order
      <4>3. Over(d, p) \ {e} \subseteq disturbed[e]
        <5> SUFFICES ASSUME NEW f \in Over(d, p), f # e, f # c
                     PROVE  f \in disturbed[e]
          BY <4>2
        <5>1. f \in disturbed'[e] /\ f \in Changes
          BY <2>4 DEF Over
        <5> QED BY <1>2, <3>1, <3>2, <5>1
      <4> QED BY <1>5, <2>2, <3>1, <3>2, <4>1, <4>3 DEF Lies
    <3>3. CASE e = c
      <4>1. Clean(c)' /\ disturbed'[c] = {} /\ Clean(c)
        <5>1. Free(c)'
          BY <3>1, <3>3 DEF Removable
        <5>2. Clean(c)'
          BY <5>1 DEF Free, Clean
        <5> QED BY <1>3, <5>2
      <4>2. Over(d, p)' = {c}
        BY <3>3, <4>1
      <4>3. CASE c \in Over(d, p)
        <5>1. Over(d, p) \ {c} = {}
          BY <2>4, <4>2, <4>3
        <5> QED BY <1>5, <2>2, <3>3, <4>3, <5>1 DEF Lies
      <4>4. CASE c \notin Over(d, p)
        <5>1. disk[p] = images[d][k][p]
          <6>1. Over(d, p) = {}
            BY <2>4, <4>2, <4>4
          <6> QED BY <2>2, <6>1 DEF Holds
        <5>2. p \notin Written(c)
          <6> SUFFICES ASSUME p \in Written(c)
                       PROVE  c \in disturbed[d]
            BY <4>4 DEF Over
          <6>1. p \in Written(d)
            BY <2>1, WrittenPaths DEF DiskInv, Histories
          <6>2. Order(d, c)
            BY DEF DiskInv, Histories
          <6> QED BY <1>5, <2>1, <4>1, <6>1, <6>2 DEF Order
        <5>3. p \in PathsOf(c)
          <6>1. p \in ps
            BY <1>5, <4>2, <5>2 DEF Over
          <6> QED BY <1>5, <6>1
        <5> QED BY <1>3, <1>5, <3>3, <4>1, <5>1, <5>2, <5>3
      <4> QED BY <4>3, <4>4
    <3> QED BY <3>2, <3>3
  <2> QED BY <2>3, <2>6, <2>7
<1>9. Alone'
  BY <1>5 DEF DiskInv, Alone
<1> QED BY <1>7, <1>8, <1>9 DEF DiskInv

\* An operation c takes the step s, of which r is the row.
Wrote(c, s, r) ==
  /\ writer[c] = "writing" /\ status[c] = "none"
  /\ Last(c) \in DOMAIN Plan[c] /\ s = Plan[c][Last(c)] /\ s \in Step
  /\ r = RowOf(c, s) /\ r \in Row /\ Planned(r, s) /\ RowPaths(r) = StepPaths(s) /\ RowPaths(r) \subseteq PathsOf(c)
  /\ Possible(s) /\ disk' = Stepped(s)
  /\ trash' = IF s.op \in {"delete", "trash"} THEN [trash EXCEPT ![c][s.path] = disk[s.path]] ELSE trash
  /\ rows'[c] = Append(rows[c], r) /\ images'[c] = Append(images[c], View(c, disk'))
  /\ \A d \in Changes \ {c} : rows'[d] = rows[d] /\ images'[d] = images[d]
  /\ images' = [d \in Changes |-> images'[d]]
  /\ disturbed'[c] = IF Replaces(s) THEN disturbed[c] \cup {"replaced"} ELSE disturbed[c]
  /\ \A d \in Changes \ {c} : disturbed'[d] = IF Begun(d, RowPaths(r))
                                              THEN disturbed[d] \cup {c}
                                                     \cup (IF writer[d] = "recorded" THEN {} ELSE {"overlap"})
                                              ELSE disturbed[d]
  /\ UNCHANGED <<writer, status, undo>>

LEMMA WriteStepWrites ==
  ASSUME DiskInv, WalkInv', NEW c \in Changes, WriteStep(c)
  PROVE  \E s, r : Wrote(c, s, r)
<1>1. PICK s : s = Plan[c][Len(rows[c]) + 1]
  OBVIOUS
<1>2. PICK r : r = RowOf(c, s)
  OBVIOUS
<1>3. PICK D : D = Disturb(c, StepPaths(s))
  OBVIOUS
<1>4. /\ writer[c] = "writing" /\ Len(rows[c]) < Len(Plan[c])
      /\ Possible(s) /\ disk' = Stepped(s)
      /\ trash' = IF s.op \in {"delete", "trash"} THEN [trash EXCEPT ![c][s.path] = disk[s.path]] ELSE trash
      /\ rows' = [rows EXCEPT ![c] = Append(rows[c], r)]
      /\ images' = [images EXCEPT ![c] = Append(images[c], View(c, Stepped(s)))]
      /\ disturbed' = [D EXCEPT ![c] = IF Replaces(s) THEN D[c] \cup {"replaced"} ELSE D[c]]
      /\ UNCHANGED <<writer, status, undo>>
  BY <1>1, <1>2, <1>3 DEF WriteStep, NextStep
<1>5. /\ rows \in [Changes -> Seq(Row)] /\ Plan \in [Changes -> Seq(Step)] /\ disk \in [Paths -> Content]
      /\ images = [d \in Changes |-> images[d]] /\ D = [d \in Changes |-> D[d]]
  BY <1>3, PlanAssumption DEF DiskInv, WalkInv, TypeOK, Histories, Disturb
<1>6. /\ Last(c) = Len(rows[c]) + 1 /\ Last(c) \in DOMAIN Plan[c] /\ s \in Step
  <2>1. rows[c] \in Seq(Row) /\ Plan[c] \in Seq(Step)
    BY <1>5
  <2>2. Len(rows[c]) \in Nat /\ Len(Plan[c]) \in Nat /\ DOMAIN Plan[c] = 1 .. Len(Plan[c])
    BY <2>1
  <2>3. Len(rows[c]) + 1 \in 1 .. Len(Plan[c])
    BY <1>4, <2>2
  <2> QED BY <1>1, <2>1, <2>2, <2>3 DEF Last
<1>7. s = Plan[c][Last(c)]
  BY <1>1, <1>6
<1>8. /\ r.kind = KindOf(s) /\ r.path = s.path /\ r.to = s.to
      /\ r.kind \in {"text", "binary", "move", "trash"}
      /\ (r.kind = "move" <=> s.op = "move")
  BY <1>2, <1>6 DEF RowOf, KindOf, Step
<1>9. rows'[c] = Append(rows[c], r) /\ \A d \in Changes \ {c} : rows'[d] = rows[d]
  BY <1>4, <1>5
<1>10. r \in Row
  <2>1. rows'[c] \in Seq(Row) /\ rows[c] \in Seq(Row)
    BY <1>5 DEF WalkInv, TypeOK
  <2> DEFINE rs == rows[c]
             qs == rows'[c]
  <2>2. rs \in Seq(Row) /\ qs \in Seq(Row) /\ qs = Append(rs, r)
    BY <1>9, <2>1
  <2> HIDE DEF rs, qs
  <2>3. Len(qs) = Len(rs) + 1 /\ Len(rs) \in Nat /\ qs[Len(rs) + 1] = r
    BY <2>2
  <2>4. Len(rs) + 1 \in 1 .. Len(qs)
    BY <2>3
  <2> QED BY <2>2, <2>3, <2>4
<1>11. Planned(r, s) /\ RowPaths(r) = StepPaths(s)
  <2>1. s.op = "create" => s.text \in Texts /\ Absent \notin Texts
    BY <1>6, <1>7, PlanAssumption
  <2>2. s.op = "create" => r.after # Absent
    BY <1>2, <2>1 DEF RowOf
  <2> QED BY <1>8, <2>2 DEF Planned, RowPaths, StepPaths
<1>12. RowPaths(r) \subseteq PathsOf(c)
  BY <1>6, <1>7, <1>11 DEF PathsOf
<1>13. images'[c] = Append(images[c], View(c, disk')) /\ \A d \in Changes \ {c} : images'[d] = images[d]
  BY <1>4, <1>5
<1>14. images' = [d \in Changes |-> images'[d]]
  BY <1>4, <1>5
<1>15. D[c] = disturbed[c] /\ \A d \in Changes \ {c} : D[d] = IF Begun(d, RowPaths(r))
                                              THEN disturbed[d] \cup {c}
                                                     \cup (IF writer[d] = "recorded" THEN {} ELSE {"overlap"})
                                              ELSE disturbed[d]
  BY <1>3, <1>11 DEF Disturb
<1>16. /\ disturbed'[c] = IF Replaces(s) THEN disturbed[c] \cup {"replaced"} ELSE disturbed[c]
       /\ \A d \in Changes \ {c} : disturbed'[d] = D[d]
  BY <1>4, <1>5, <1>15
<1>17. \A d \in Changes \ {c} : disturbed'[d] = IF Begun(d, RowPaths(r))
                                              THEN disturbed[d] \cup {c}
                                                     \cup (IF writer[d] = "recorded" THEN {} ELSE {"overlap"})
                                              ELSE disturbed[d]
  BY <1>15, <1>16
<1>18. status[c] = "none"
  BY <1>4 DEF DiskInv, WalkInv, Walking, Sound
<1>19. UNCHANGED <<writer, status, undo>> /\ writer[c] = "writing" /\ Possible(s) /\ disk' = Stepped(s)
  BY <1>4
<1>20. trash' = IF s.op \in {"delete", "trash"} THEN [trash EXCEPT ![c][s.path] = disk[s.path]] ELSE trash
  BY <1>4
<1>21. Wrote(c, s, r)
  BY <1>2, <1>6, <1>7, <1>9, <1>10, <1>11, <1>12, <1>13, <1>14, <1>16, <1>17, <1>18, <1>19, <1>20, Zenon DEF Wrote
<1> QED BY <1>21

\* Its rows and its images after the step.
LEMMA WroteSays ==
  ASSUME DiskInv, WalkInv', NEW c \in Changes, NEW s, NEW r, Wrote(c, s, r)
  PROVE  /\ Last(c) \in Nat /\ Last(c) > 0 /\ Len(rows[c]) \in Nat /\ Last(c) = Len(rows[c]) + 1
         /\ DOMAIN rows[c] = 1 .. Len(rows[c])
         /\ Len(rows'[c]) = Last(c) /\ Last(c)' = Last(c) + 1 /\ DOMAIN rows'[c] = 1 .. Last(c)
         /\ rows'[c][Last(c)] = r /\ \A j \in DOMAIN rows[c] : rows'[c][j] = rows[c][j]
         /\ images'[c] \in Seq([PathsOf(c) -> Content])
         /\ Len(images'[c]) = Last(c)' /\ images'[c][Last(c)'] = View(c, disk')
         /\ \A j \in 1 .. Last(c) : images'[c][j] = images[c][j]
         /\ Written(c)' = Written(c) \cup RowPaths(r)
<1>1. rows[c] \in Seq(Row) /\ r \in Row
  BY DEF DiskInv, WalkInv, TypeOK, Wrote
<1>2. /\ Len(rows[c]) \in Nat /\ DOMAIN rows[c] = 1 .. Len(rows[c])
      /\ Len(rows'[c]) = Len(rows[c]) + 1 /\ DOMAIN rows'[c] = 1 .. Len(rows[c]) + 1
      /\ rows'[c][Len(rows[c]) + 1] = r /\ \A j \in 1 .. Len(rows[c]) : rows'[c][j] = rows[c][j]
  BY <1>1, AppendProperties, LenProperties DEF Wrote
<1>3. /\ Last(c) \in Nat /\ Last(c) > 0 /\ Last(c) = Len(rows[c]) + 1 /\ Last(c)' = Last(c) + 1
  BY <1>2 DEF Last
<1>4. /\ View(c, disk') \in [PathsOf(c) -> Content]
      /\ images[c] \in Seq([PathsOf(c) -> Content]) /\ Len(images[c]) = Last(c)
  <2>1. disk' \in [Paths -> Content]
    BY DEF WalkInv, TypeOK
  <2>2. Shape(c) /\ writer[c] = "writing"
    BY DEF Wrote, DiskInv, Histories
  <2> QED BY <2>1, <2>2, ViewTyped DEF Shape
<1>5. /\ Len(images'[c]) = Last(c) + 1 /\ images'[c][Last(c) + 1] = View(c, disk')
      /\ images'[c] \in Seq([PathsOf(c) -> Content])
      /\ \A j \in 1 .. Last(c) : images'[c][j] = images[c][j]
  BY <1>4, AppendProperties DEF Wrote
<1>6. Written(c)' = Written(c) \cup RowPaths(r)
  <2> PICK n : n = Len(rows[c]) + 1
    OBVIOUS
  <2>1. ASSUME NEW j \in DOMAIN rows[c] PROVE RowPaths(rows[c][j])' = RowPaths(rows[c][j])
    <3>1. rows'[c][j] = rows[c][j]
      BY <1>2, <2>1
    <3> QED BY <3>1 DEF RowPaths
  <2>2. RowPaths(rows[c][n])' = RowPaths(r)
    <3>1. rows'[c][n] = r
      BY <1>2
    <3> QED BY <3>1 DEF RowPaths
  <2>3. DOMAIN rows'[c] = DOMAIN rows[c] \cup {n}
    BY <1>2
  <2> QED BY <2>1, <2>2, <2>3 DEF Written
<1> QED BY <1>2, <1>3, <1>5, <1>6

LEMMA WroteTouches ==
  ASSUME DiskInv, WalkInv', NEW c \in Changes, NEW s, NEW r, Wrote(c, s, r)
  PROVE  Touch(c, RowPaths(r))
<1>1. Written(c)' = Written(c) \cup RowPaths(r)
  BY WroteSays
<1>2. images'[c][1] = images[c][1]
  <2>1. Last(c) \in Nat /\ Last(c) > 0
    BY WroteSays
  <2>2. \A j \in 1 .. Last(c) : images'[c][j] = images[c][j]
    BY WroteSays
  <2> QED BY <2>1, <2>2
<1>3. \A d \in Changes \ {c} : trash'[d] = trash[d]
  <2>1. trash' = IF s.op \in {"delete", "trash"} THEN [trash EXCEPT ![c][s.path] = disk[s.path]] ELSE trash
    BY DEF Wrote
  <2> QED BY <2>1 DEF DiskInv, WalkInv, TypeOK
<1>4. \A p \in Paths \ RowPaths(r) : disk'[p] = disk[p]
  <2>1. /\ s.path \in Paths /\ s.to \in Paths /\ disk \in [Paths -> Content] /\ disk' = Stepped(s)
        /\ s.op \in {"write", "create", "remove", "delete", "attach", "move", "trash"} /\ RowPaths(r) = StepPaths(s)
    BY DEF Wrote, Step, DiskInv, WalkInv, TypeOK
  <2> QED BY <2>1 DEF Stepped, StepPaths
<1>5. disturbed'[c] \in {disturbed[c], disturbed[c] \cup {"replaced"}}
  BY DEF Wrote
<1> QED BY <1>1, <1>2, <1>3, <1>4, <1>5, Zenon DEF Wrote, Touch

\* The row of the step tells its effect.
LEMMA StepTells ==
  ASSUME DiskInv, WalkInv', NEW c \in Changes, NEW s, NEW r, Wrote(c, s, r), Clean(c)'
  PROVE  /\ Effect(r, View(c, disk), View(c, disk')) /\ Final(r, View(c, disk'))
         /\ s.op \in {"delete", "trash"} => trash'[c][r.path] = View(c, disk)[r.path]
<1>1. /\ s \in Step /\ s = Plan[c][Last(c)] /\ Last(c) \in DOMAIN Plan[c] /\ Possible(s) /\ disk' = Stepped(s)
      /\ r = RowOf(c, s) /\ RowPaths(r) = StepPaths(s) /\ RowPaths(r) \subseteq PathsOf(c)
      /\ trash' = IF s.op \in {"delete", "trash"} THEN [trash EXCEPT ![c][s.path] = disk[s.path]] ELSE trash
  BY DEF Wrote
<1>2. /\ disk \in [Paths -> Content] /\ trash \in [Changes -> [Paths -> Content]] /\ PathsOf(c) \subseteq Paths
  BY PathsArePaths DEF DiskInv, WalkInv, TypeOK
<1>3. ~Replaces(s)
  <2>1. "replaced" \notin disturbed'[c]
    BY PlanAssumption DEF Clean, Reasons
  <2> QED BY <2>1 DEF Wrote
<1>4. /\ s.op \in {"write", "create", "attach"} => s.text # Absent
      /\ s.op = "move" => s.to # s.path
      /\ s.op \in {"write", "create", "remove", "delete", "attach", "move", "trash"}
      /\ s.path \in PathsOf(c) /\ s.path \in Paths
      /\ s.op = "move" => s.to \in PathsOf(c) /\ s.to \in Paths
  BY <1>1, <1>2, PlanAssumption DEF Step, StepPaths
<1>5. s.op \in {"remove", "delete"} => images[c][1][s.path] = disk[s.path]
  <2> SUFFICES ASSUME s.op \in {"remove", "delete"}
               PROVE  images[c][1][s.path] = disk[s.path]
    OBVIOUS
  <2>1. s.path \notin Written(c)
    <3> SUFFICES ASSUME NEW j \in DOMAIN rows[c], s.path \in RowPaths(rows[c][j])
                 PROVE  FALSE
      BY DEF Written
    <3>1. j \in DOMAIN Plan[c] /\ RowPaths(rows[c][j]) = StepPaths(Plan[c][j])
      BY RowsArePlanned DEF DiskInv, Histories
    <3>2. j # Last(c)
      <4>1. DOMAIN rows[c] = 1 .. Len(rows[c]) /\ Len(rows[c]) \in Nat /\ Last(c) = Len(rows[c]) + 1
        BY WroteSays
      <4> QED BY <4>1
    <3>3. StepPaths(s) \cap StepPaths(Plan[c][j]) \subseteq Landing(s)
      BY <1>1, <3>1, <3>2, PlanAssumption
    <3>4. s.path \in StepPaths(s) /\ Landing(s) = {}
      BY DEF StepPaths, Landing
    <3> QED BY <3>1, <3>3, <3>4
  <2>2. Clean(c)' => \A p \in PathsOf(c) \ Written(c) : images[c][1][p] = disk[p]
    BY WroteTouches, TouchDisturbs
  <2> QED BY <1>4, <2>1, <2>2
<1>6. /\ r.kind = KindOf(s) /\ r.path = s.path /\ r.to = s.to
      /\ s.op \in {"write", "remove", "delete"} => r.before = disk[s.path]
      /\ s.op \notin {"write", "remove", "delete"} => r.before = Absent
      /\ r.after = IF s.op \in {"write", "create"} THEN s.text ELSE Absent
  BY <1>1, <1>5 DEF RowOf
<1>7. \A p \in PathsOf(c) : View(c, disk)[p] = disk[p] /\ View(c, disk')[p] = disk'[p]
  BY DEF View
<1>8. \A p \in DOMAIN View(c, disk) \ RowPaths(r) : View(c, disk)[p] = View(c, disk')[p]
  <2>1. \A p \in Paths \ RowPaths(r) : disk'[p] = disk[p]
    BY WroteTouches DEF Touch
  <2>2. DOMAIN View(c, disk) = PathsOf(c)
    BY DEF View
  <2> QED BY <1>2, <1>7, <2>1, <2>2
<1>9. s.op \in {"delete", "trash"} => trash'[c][r.path] = View(c, disk)[r.path]
  BY <1>1, <1>2, <1>4, <1>6, <1>7
<1>10. Effect(r, View(c, disk), View(c, disk')) /\ Final(r, View(c, disk'))
  <2>1. PICK a, b : a = View(c, disk) /\ b = View(c, disk')
    OBVIOUS
  <2>2. /\ \A p \in PathsOf(c) : a[p] = disk[p] /\ b[p] = disk'[p]
        /\ \A p \in DOMAIN a \ RowPaths(r) : a[p] = b[p]
    BY <1>7, <1>8, <2>1
  <2>3. CASE s.op \in {"write", "remove", "delete"}
    <3>1. r.kind = "text" /\ r.before = disk[s.path] /\ disk'[s.path] = r.after
      BY <1>1, <1>2, <1>4, <1>6, <2>3 DEF KindOf, Stepped
    <3>2. Effect(r, a, b) /\ Final(r, b)
      BY <1>4, <1>6, <2>2, <3>1 DEF Effect, Final
    <3> QED BY <2>1, <3>2
  <2>4. CASE s.op \in {"create", "attach"}
    <3>1. disk[s.path] = Absent /\ disk' = [disk EXCEPT ![s.path] = s.text]
      BY <1>1, <1>3, <2>4 DEF Replaces, Landing, Stepped
    <3>2. r.kind \in {"text", "binary"} /\ r.before = Absent /\ (r.kind = "text" => r.after = s.text)
      BY <1>6, <2>4 DEF KindOf
    <3>3. disk'[s.path] = s.text /\ s.text # Absent
      BY <1>2, <1>4, <2>4, <3>1
    <3>4. Effect(r, a, b) /\ Final(r, b)
      BY <1>4, <1>6, <2>2, <3>1, <3>2, <3>3 DEF Effect, Final
    <3> QED BY <2>1, <3>4
  <2>5. CASE s.op = "trash"
    <3>1. r.kind = "trash" /\ r.after = Absent /\ disk[s.path] # Absent /\ disk'[s.path] = Absent
      BY <1>1, <1>2, <1>4, <1>6, <2>5 DEF KindOf, Stepped, Possible
    <3>2. Effect(r, a, b) /\ Final(r, b)
      BY <1>4, <1>6, <2>2, <3>1 DEF Effect, Final
    <3> QED BY <2>1, <3>2
  <2>6. CASE s.op = "move"
    <3>1. disk' = [disk EXCEPT ![s.to] = disk[s.path], ![s.path] = Absent]
      BY <1>1, <2>6 DEF Stepped
    <3>2. disk[s.path] # Absent /\ disk[s.to] = Absent
      BY <1>1, <1>3, <2>6 DEF Possible, Replaces, Landing
    <3>3. disk'[s.path] = Absent /\ disk'[s.to] = disk[s.path]
      BY <1>2, <1>4, <2>6, <3>1
    <3>4. r.kind = "move"
      BY <1>6, <2>6 DEF KindOf
    <3>5. Effect(r, a, b) /\ Final(r, b)
      BY <1>4, <1>6, <2>2, <2>6, <3>2, <3>3, <3>4 DEF Effect, Final
    <3> QED BY <2>1, <3>5
  <2> QED BY <1>4, <2>3, <2>4, <2>5, <2>6
<1> QED BY <1>9, <1>10

\* On the files of the rows before it the step does not land, unless it replaces what
\* is there.
LEMMA WroteTells ==
  ASSUME DiskInv, WalkInv', NEW c \in Changes, NEW s, NEW r, Wrote(c, s, r)
  PROVE  Told(c)'
<1>1. SUFFICES ASSUME Clean(c)', NEW j \in 1 .. Last(c)
               PROVE  /\ Effect(rows'[c][j], images'[c][j], images'[c][j + 1])
                      /\ Final(rows'[c][j], images'[c][Last(c) + 1])
                      /\ Plan[c][j].op \in {"delete", "trash"} =>
                           trash'[c][rows'[c][j].path] = images'[c][j][rows'[c][j].path]
  <2>1. Last(c)' = Last(c) + 1
    BY WroteSays
  <2>2. DOMAIN rows'[c] = 1 .. Last(c)
    BY WroteSays
  <2>3. writer'[c] = "writing"
    BY DEF Wrote
  <2> QED BY <2>1, <2>2, <2>3 DEF Told
<1>2. /\ disturbed[c] = {} /\ Clean(c) /\ View(c, disk) = images[c][Last(c)]
  BY <1>1, WroteTouches, TouchDisturbs
<1>3. /\ Last(c) \in Nat /\ Last(c) > 0 /\ Last(c) = Len(rows[c]) + 1 /\ DOMAIN rows[c] = 1 .. Len(rows[c])
      /\ Len(rows[c]) \in Nat
      /\ rows'[c][Last(c)] = r /\ \A i \in DOMAIN rows[c] : rows'[c][i] = rows[c][i]
      /\ images'[c][Last(c) + 1] = View(c, disk') /\ \A i \in 1 .. Last(c) : images'[c][i] = images[c][i]
  BY WroteSays
<1>4. /\ s \in Step /\ s = Plan[c][Last(c)] /\ Last(c) \in DOMAIN Plan[c]
      /\ RowPaths(r) = StepPaths(s) /\ writer[c] = "writing"
      /\ trash' = IF s.op \in {"delete", "trash"} THEN [trash EXCEPT ![c][s.path] = disk[s.path]] ELSE trash
  BY DEF Wrote
<1>5. ~Replaces(s)
  <2>1. "replaced" \notin disturbed'[c]
    BY <1>1, PlanAssumption DEF Clean, Reasons
  <2> QED BY <2>1 DEF Wrote
<1>6. /\ trash \in [Changes -> [Paths -> Content]] /\ PathsOf(c) \subseteq Paths
  BY PathsArePaths DEF DiskInv, WalkInv, TypeOK
<1>7. CASE j = Last(c)
  BY <1>1, <1>2, <1>3, <1>4, <1>7, StepTells
<1>8. CASE j # Last(c)
  <2>1. j \in DOMAIN rows[c] /\ j + 1 \in 1 .. Last(c)
    BY <1>1, <1>3, <1>8
  <2>2. PICK q : q = rows[c][j]
    OBVIOUS
  <2>3. /\ Effect(q, images[c][j], images[c][j + 1]) /\ Final(q, View(c, disk))
        /\ Plan[c][j].op \in {"delete", "trash"} => trash[c][q.path] = images[c][j][q.path]
    BY <1>2, <1>4, <2>1, <2>2 DEF DiskInv, Histories, Told
  <2>4. /\ j \in DOMAIN Plan[c] /\ q \in Row /\ Plan[c][j] \in Step /\ Planned(q, Plan[c][j])
        /\ RowPaths(q) = StepPaths(Plan[c][j]) /\ RowPaths(q) \subseteq PathsOf(c)
    BY <2>1, <2>2, RowsArePlanned DEF DiskInv, Histories, Shape
  <2>5. RowPaths(q) \cap RowPaths(r) = {}
    <3> SUFFICES ASSUME NEW p \in RowPaths(q) \cap RowPaths(r)
                 PROVE  FALSE
      OBVIOUS
    <3>1. p \in Landing(Plan[c][j]) /\ p \in Landing(s)
      <4>1. StepPaths(Plan[c][j]) \cap StepPaths(s) \subseteq Landing(Plan[c][j]) \cap Landing(s)
        BY <1>4, <1>8, <2>4, PlanAssumption
      <4> QED BY <1>4, <2>4, <4>1
    <3>2. View(c, disk)[p] # Absent
      BY <2>3, <2>4, <3>1 DEF Final, Landing, KindOf, Planned, Step
    <3>3. disk[p] # Absent
      BY <2>4, <3>2 DEF View
    <3> QED BY <1>5, <3>1, <3>3 DEF Replaces
  <2>6. \A p \in RowPaths(q) : View(c, disk)[p] = View(c, disk')[p]
    <3>1. \A p \in RowPaths(q) : p \in PathsOf(c) /\ disk'[p] = disk[p]
      BY <1>6, <2>4, <2>5, WroteTouches DEF Touch
    <3> QED BY <3>1 DEF View
  <2>7. Final(q, View(c, disk'))
    BY <2>3, <2>6 DEF Final, RowPaths
  <2>8. trash'[c][q.path] = trash[c][q.path]
    <3>1. q.path \in RowPaths(q) /\ s.path \in RowPaths(r)
      BY <1>4 DEF RowPaths, StepPaths
    <3>2. q.path # s.path /\ q.path \in Paths
      BY <1>6, <2>4, <2>5, <3>1
    <3> QED BY <1>4, <1>6, <3>2
  <2> QED BY <1>3, <2>1, <2>2, <2>3, <2>7, <2>8
<1> QED BY <1>7, <1>8

LEMMA WriteStepStands ==
  ASSUME DiskInv, WalkInv', NEW c \in Changes, WriteStep(c)
  PROVE  DiskInv'
<1>1. PICK s, r : Wrote(c, s, r)
  BY WriteStepWrites
<1>2. Touch(c, RowPaths(r)) /\ Told(c)'
  BY <1>1, WroteTouches, WroteTells
<1>3. Last(c)' = Last(c) + 1 /\ Len(rows'[c]) = Last(c) /\ Last(c) \in Nat
  BY <1>1, WroteSays
<1>4. images'[c][Last(c)'] = View(c, disk') /\ Len(images'[c]) = Last(c)'
      /\ images'[c] \in Seq([PathsOf(c) -> Content])
  BY <1>1, WroteSays
<1>5. Clean(c)' => disturbed'[c] = {}
  BY <1>2, TouchDisturbs
<1>6. Shape(c) /\ writer' = writer /\ writer[c] = "writing"
  BY <1>2 DEF DiskInv, Histories, Touch
<1>7. Len(rows'[c]) <= Len(Plan[c])
  <2>1. Last(c) \in DOMAIN Plan[c] /\ Plan[c] \in Seq(Step)
    BY <1>1, PlanAssumption DEF Wrote
  <2> QED BY <1>3, <2>1
<1>8. \A i \in DOMAIN rows'[c] : Planned(rows'[c][i], Plan[c][i])
  <2>1. DOMAIN rows'[c] = 1 .. Last(c)
    BY <1>1, WroteSays
  <2>2. rows'[c][Last(c)] = r /\ \A i \in DOMAIN rows[c] : rows'[c][i] = rows[c][i]
    BY <1>1, WroteSays
  <2>3. DOMAIN rows[c] = 1 .. Len(rows[c]) /\ Last(c) = Len(rows[c]) + 1 /\ Len(rows[c]) \in Nat
    BY <1>1, WroteSays
  <2>4. Planned(r, Plan[c][Last(c)])
    BY <1>1 DEF Wrote
  <2>5. \A i \in 1 .. Last(c) : i = Last(c) \/ i \in DOMAIN rows[c]
    BY <2>3
  <2> QED BY <1>6, <2>1, <2>2, <2>4, <2>5 DEF Shape
<1>9. \A e \in disturbed'[c] \cap Changes : e # c /\ writer'[e] # "idle"
  <2>1. disturbed'[c] \cap Changes \subseteq disturbed[c]
    BY <1>2, PlanAssumption DEF Touch, Reasons
  <2> QED BY <1>6, <2>1 DEF Shape
<1>10. Shape(c)'
  BY <1>4, <1>5, <1>6, <1>7, <1>8, <1>9 DEF Shape
<1>11. View(c, disk)' = View(c, disk')
  BY DEF View
<1>12. Histories'
  BY <1>2, <1>4, <1>10, <1>11, TouchKeeps
<1> QED BY <1>2, <1>12, TouchStands

-----------------------------------------------------------------------------
\* An operation c writes its page p again, which is t from then on: its row i says so.
Again(c, i, p, t) ==
  /\ writer[c] = "writing" /\ status[c] = "none"
  /\ i \in DOMAIN rows[c] /\ p = rows[c][i].path /\ p \in PathsOf(c) /\ t \in Texts
  /\ rows[c][i].kind = "text" /\ Plan[c][i].op = "write"
  /\ disk' = [disk EXCEPT ![p] = t]
  /\ rows'[c] = [rows[c] EXCEPT ![i] = [rows[c][i] EXCEPT !.after = t]]
  /\ images'[c] = [k \in DOMAIN images[c] |-> IF k > i THEN [images[c][k] EXCEPT ![p] = t] ELSE images[c][k]]
  /\ \A d \in Changes \ {c} : rows'[d] = rows[d] /\ images'[d] = images[d]
  /\ images' = [d \in Changes |-> images'[d]]
  /\ disturbed' = Disturb(c, {p})
  /\ UNCHANGED <<trash, writer, status, undo>>

LEMMA RewriteWritesAgain ==
  ASSUME DiskInv, NEW c \in Changes, NEW i \in DOMAIN rows[c], NEW t \in Texts, Rewrite(c, i, t)
  PROVE  \E p : Again(c, i, p, t)
<1>1. PICK p : p = rows[c][i].path
  OBVIOUS
<1>2. PICK rs, ms : rs = rows[c] /\ ms = images[c]
  OBVIOUS
<1>3. /\ writer[c] = "writing" /\ Plan[c][i].op = "write" /\ disk' = [disk EXCEPT ![p] = t]
      /\ rows' = [rows EXCEPT ![c] = [rs EXCEPT ![i] = [rs[i] EXCEPT !.after = t]]]
      /\ images' = [images EXCEPT ![c] = [k \in DOMAIN ms |->
                      IF k > i THEN [ms[k] EXCEPT ![p] = t] ELSE ms[k]]]
      /\ disturbed' = Disturb(c, {p})
      /\ UNCHANGED <<trash, writer, status, undo>>
  BY <1>1, <1>2 DEF Rewrite
<1>4. /\ rows \in [Changes -> Seq(Row)] /\ images = [d \in Changes |-> images[d]]
      /\ (status[c] # "none" => writer[c] = "recorded")
  BY DEF DiskInv, WalkInv, Walking, Sound, TypeOK
<1>5. rows[c][i].kind = "text" /\ p \in PathsOf(c)
  <2>1. Planned(rows[c][i], Plan[c][i]) /\ RowPaths(rows[c][i]) \subseteq PathsOf(c)
    BY RowsArePlanned DEF DiskInv, Histories, Shape
  <2> QED BY <1>1, <1>3, <2>1 DEF Planned, KindOf, RowPaths
<1>6. /\ rows'[c] = [rows[c] EXCEPT ![i] = [rows[c][i] EXCEPT !.after = t]]
      /\ \A d \in Changes \ {c} : rows'[d] = rows[d]
  BY <1>2, <1>3, <1>4
<1>7. /\ images'[c] = [k \in DOMAIN images[c] |->
                         IF k > i THEN [images[c][k] EXCEPT ![p] = t] ELSE images[c][k]]
      /\ images' = [d \in Changes |-> images'[d]] /\ \A d \in Changes \ {c} : images'[d] = images[d]
  BY <1>2, <1>3, <1>4
<1>8. Again(c, i, p, t)
  BY <1>1, <1>3, <1>4, <1>5, <1>6, <1>7, Zenon DEF Again
<1> QED BY <1>8

\* No other row is of that page.
LEMMA AgainSays ==
  ASSUME DiskInv, NEW c \in Changes, NEW i, NEW p, NEW t, Again(c, i, p, t)
  PROVE  /\ Len(rows[c]) \in Nat /\ DOMAIN rows[c] = 1 .. Len(rows[c]) /\ Last(c) = Len(rows[c]) + 1
         /\ DOMAIN rows'[c] = DOMAIN rows[c] /\ Last(c)' = Last(c)
         /\ rows'[c][i].kind = "text" /\ rows'[c][i].path = p /\ rows'[c][i].to = rows[c][i].to
         /\ rows'[c][i].before = rows[c][i].before /\ rows'[c][i].after = t
         /\ \A j \in DOMAIN rows[c] \ {i} : rows'[c][j] = rows[c][j] /\ p \notin RowPaths(rows[c][j])
         /\ RowPaths(rows[c][i]) = {p} /\ RowPaths(rows'[c][i]) = {p}
         /\ Written(c)' = Written(c) /\ p \in Written(c)
<1>1. /\ rows[c] \in Seq(Row) /\ i \in DOMAIN rows[c] /\ p = rows[c][i].path
      /\ rows[c][i].kind = "text" /\ Plan[c][i].op = "write"
      /\ rows'[c] = [rows[c] EXCEPT ![i] = [rows[c][i] EXCEPT !.after = t]]
  BY DEF DiskInv, WalkInv, TypeOK, Again
<1>2. Len(rows[c]) \in Nat /\ DOMAIN rows[c] = 1 .. Len(rows[c]) /\ rows[c][i] \in Row
  BY <1>1
<1>3. /\ rows'[c][i] = [rows[c][i] EXCEPT !.after = t]
      /\ \A j \in DOMAIN rows[c] \ {i} : rows'[c][j] = rows[c][j]
      /\ DOMAIN rows'[c] = DOMAIN rows[c] /\ Len(rows'[c]) = Len(rows[c])
  <2>1. PICK r : r = [rows[c][i] EXCEPT !.after = t]
    OBVIOUS
  <2>2. rows'[c] = [rows[c] EXCEPT ![i] = r]
    BY <1>1, <2>1
  <2>3. /\ rows'[c][i] = r /\ \A j \in DOMAIN rows[c] \ {i} : rows'[c][j] = rows[c][j]
        /\ DOMAIN rows'[c] = DOMAIN rows[c] /\ Len(rows'[c]) = Len(rows[c])
    BY <1>1, <2>2
  <2> QED BY <2>1, <2>3
<1>4. /\ RowPaths(rows[c][i]) = {p} /\ RowPaths(rows'[c][i]) = {p}
      /\ rows'[c][i].kind = "text" /\ rows'[c][i].path = p /\ rows'[c][i].to = rows[c][i].to
      /\ rows'[c][i].before = rows[c][i].before /\ rows'[c][i].after = t
  <2>1. /\ rows'[c][i].kind = "text" /\ rows'[c][i].path = p /\ rows'[c][i].to = rows[c][i].to
        /\ rows'[c][i].before = rows[c][i].before /\ rows'[c][i].after = t
    BY <1>1, <1>2, <1>3 DEF Row
  <2> QED BY <1>1, <2>1 DEF RowPaths
<1>5. ASSUME NEW j \in DOMAIN rows[c], j # i
      PROVE  p \notin RowPaths(rows[c][j])
  <2>1. /\ i \in DOMAIN Plan[c] /\ RowPaths(rows[c][i]) = StepPaths(Plan[c][i])
        /\ j \in DOMAIN Plan[c] /\ RowPaths(rows[c][j]) = StepPaths(Plan[c][j])
    BY <1>1, RowsArePlanned DEF DiskInv, Histories
  <2>2. StepPaths(Plan[c][i]) \cap StepPaths(Plan[c][j]) \subseteq Landing(Plan[c][i])
    BY <1>5, <2>1, PlanAssumption
  <2>3. Landing(Plan[c][i]) = {}
    BY <1>1 DEF Landing
  <2> QED BY <1>4, <2>1, <2>2, <2>3
<1>6. Written(c)' = Written(c) /\ p \in Written(c)
  <2>1. \A j \in DOMAIN rows[c] : RowPaths(rows'[c][j]) = RowPaths(rows[c][j])
    BY <1>3, <1>4
  <2>2. \A j \in DOMAIN rows[c] : RowPaths(rows[c][j])' = RowPaths(rows'[c][j])
    BY DEF RowPaths
  <2>3. Written(c)' = UNION {RowPaths(rows'[c][j]) : j \in DOMAIN rows'[c]}
    BY DEF Written, RowPaths
  <2> QED BY <1>1, <1>3, <1>4, <2>1, <2>3 DEF Written
<1>7. Last(c) = Len(rows[c]) + 1 /\ Last(c)' = Last(c)
  BY <1>3 DEF Last
<1> QED BY <1>2, <1>3, <1>4, <1>5, <1>6, <1>7

LEMMA AgainTouches ==
  ASSUME DiskInv, NEW c \in Changes, NEW i, NEW p, NEW t, Again(c, i, p, t)
  PROVE  Touch(c, {p})
<1>1. Written(c)' = Written(c) \cup {p}
  BY AgainSays
<1>2. images'[c][1] = images[c][1]
  <2>1. DOMAIN images[c] = 1 .. Last(c) /\ Last(c) \in Nat /\ Last(c) = Len(rows[c]) + 1
    BY Indices DEF DiskInv, Again
  <2>2. i \in 1 .. Len(rows[c]) /\ Len(rows[c]) \in Nat
    <3>1. DOMAIN rows[c] = 1 .. Len(rows[c]) /\ Len(rows[c]) \in Nat
      BY AgainSays
    <3> QED BY <3>1 DEF Again
  <2>3. 1 \in DOMAIN images[c] /\ ~(1 > i)
    BY <2>1, <2>2
  <2> QED BY <2>3 DEF Again
<1>3. \A q \in Paths \ {p} : disk'[q] = disk[q]
  BY DEF Again, DiskInv, WalkInv, TypeOK
<1>4. disturbed'[c] = disturbed[c]
  BY DEF Again, Disturb
<1>5. \A d \in Changes \ {c} : disturbed'[d] = IF Begun(d, {p})
                                              THEN disturbed[d] \cup {c}
                                                     \cup (IF writer[d] = "recorded" THEN {} ELSE {"overlap"})
                                              ELSE disturbed[d]
  BY DEF Again, Disturb
<1>6. {p} \subseteq PathsOf(c) /\ \A d \in Changes : trash'[d] = trash[d]
  BY DEF Again
<1> QED BY <1>1, <1>2, <1>3, <1>4, <1>5, <1>6, Zenon DEF Again, Touch

\* Its rows tell what their steps have made of the files, the page as it is now.
LEMMA AgainTells ==
  ASSUME DiskInv, NEW c \in Changes, NEW i, NEW p, NEW t, Again(c, i, p, t)
  PROVE  Told(c)' /\ (Clean(c)' => View(c, disk)' = images'[c][Last(c)'])
<1>1. /\ Len(rows[c]) \in Nat /\ DOMAIN rows[c] = 1 .. Len(rows[c]) /\ Last(c) = Len(rows[c]) + 1
      /\ DOMAIN rows'[c] = DOMAIN rows[c] /\ Last(c)' = Last(c)
      /\ rows'[c][i].kind = "text" /\ rows'[c][i].path = p
      /\ rows'[c][i].before = rows[c][i].before /\ rows'[c][i].after = t
      /\ \A j \in DOMAIN rows[c] \ {i} : rows'[c][j] = rows[c][j] /\ p \notin RowPaths(rows[c][j])
      /\ RowPaths(rows[c][i]) = {p} /\ RowPaths(rows'[c][i]) = {p}
  <2>1. Len(rows[c]) \in Nat /\ DOMAIN rows[c] = 1 .. Len(rows[c]) /\ Last(c) = Len(rows[c]) + 1
    BY AgainSays
  <2>2. DOMAIN rows'[c] = DOMAIN rows[c] /\ Last(c)' = Last(c)
    BY AgainSays
  <2>3. /\ rows'[c][i].kind = "text" /\ rows'[c][i].path = p
        /\ rows'[c][i].before = rows[c][i].before /\ rows'[c][i].after = t
    BY AgainSays
  <2>4. \A j \in DOMAIN rows[c] \ {i} : rows'[c][j] = rows[c][j] /\ p \notin RowPaths(rows[c][j])
    BY AgainSays
  <2>5. RowPaths(rows[c][i]) = {p} /\ RowPaths(rows'[c][i]) = {p}
    BY AgainSays
  <2> QED BY <2>1, <2>2, <2>3, <2>4, <2>5
<1>2. /\ DOMAIN images[c] = 1 .. Last(c)
      /\ \A k \in 1 .. Last(c) : images[c][k] \in [PathsOf(c) -> Content]
      /\ writer[c] = "writing" /\ writer' = writer /\ trash' = trash
      /\ i \in DOMAIN rows[c] /\ p = rows[c][i].path /\ p \in PathsOf(c) /\ rows[c][i] \in Row
      /\ rows[c][i].kind = "text" /\ Plan[c][i].op = "write" /\ disk' = [disk EXCEPT ![p] = t]
  BY Indices, RowsArePlanned DEF DiskInv, Histories, Again
<1>3. ASSUME NEW k \in 1 .. Last(c)
      PROVE  /\ k <= i => images'[c][k] = images[c][k]
             /\ k > i => images'[c][k] = [images[c][k] EXCEPT ![p] = t]
  <2>1. images'[c][k] = IF k > i THEN [images[c][k] EXCEPT ![p] = t] ELSE images[c][k]
    BY <1>2 DEF Again
  <2>2. k \in Nat /\ i \in Nat
    BY <1>1, <1>2
  <2> QED BY <2>1, <2>2
<1>4. ASSUME NEW k \in 1 .. Last(c), NEW q \in PathsOf(c), q # p
      PROVE  images'[c][k][q] = images[c][k][q]
  <2>1. k <= i \/ k > i
    BY <1>1, <1>2
  <2> QED BY <1>2, <1>3, <1>4, <2>1
<1>5. \A k \in 1 .. Last(c) : k > i => images'[c][k][p] = t
  BY <1>2, <1>3
<1>6. Clean(c)' => Clean(c) /\ View(c, disk) = images[c][Last(c)]
  <2>1. PICK ps : Touch(c, ps)
    BY AgainTouches
  <2> QED BY <2>1, TouchDisturbs
<1>7. Last(c) \in 1 .. Last(c) /\ Last(c) > i
  BY <1>1, <1>2
<1>8. Told(c)'
  <2> SUFFICES ASSUME Clean(c)', NEW j \in DOMAIN rows[c]
               PROVE  /\ Effect(rows'[c][j], images'[c][j], images'[c][j + 1])
                      /\ Final(rows'[c][j], images'[c][Last(c)])
                      /\ Plan[c][j].op \in {"delete", "trash"} =>
                           trash[c][rows'[c][j].path] = images'[c][j][rows'[c][j].path]
    BY <1>1, <1>2 DEF Told
  <2>1. j \in 1 .. Last(c) /\ j + 1 \in 1 .. Last(c)
    BY <1>1
  <2>2. PICK r, a, b, e : r = rows[c][j] /\ a = images[c][j] /\ b = images[c][j + 1] /\ e = images[c][Last(c)]
    OBVIOUS
  <2>3. PICK aa, bb, ee : aa = images'[c][j] /\ bb = images'[c][j + 1] /\ ee = images'[c][Last(c)]
    OBVIOUS
  <2>4. /\ Effect(r, a, b) /\ Final(r, e)
        /\ Plan[c][j].op \in {"delete", "trash"} => trash[c][r.path] = a[r.path]
    BY <1>2, <1>6, <2>2 DEF DiskInv, Histories, Told
  <2>5. /\ \A q \in PathsOf(c) \ {p} : aa[q] = a[q] /\ bb[q] = b[q] /\ ee[q] = e[q]
        /\ DOMAIN a = PathsOf(c) /\ DOMAIN aa = PathsOf(c)
    <3>1. \A q \in PathsOf(c) \ {p} : aa[q] = a[q]
      BY <1>4, <2>1, <2>2, <2>3
    <3>2. \A q \in PathsOf(c) \ {p} : bb[q] = b[q]
      BY <1>4, <2>1, <2>2, <2>3
    <3>3. \A q \in PathsOf(c) \ {p} : ee[q] = e[q]
      BY <1>4, <1>7, <2>2, <2>3
    <3>4. DOMAIN a = PathsOf(c) /\ (aa = a \/ aa = [a EXCEPT ![p] = t])
      <4>1. j <= i \/ j > i
        BY <1>1, <1>2
      <4> QED BY <1>2, <1>3, <2>1, <2>2, <2>3, <4>1
    <3> QED BY <3>1, <3>2, <3>3, <3>4
  <2>6. CASE j = i
    <3>1. i <= i /\ i + 1 > i
      BY <1>1, <1>2
    <3>2. aa = a /\ bb[p] = t /\ ee[p] = t
      BY <1>3, <1>5, <1>7, <2>1, <2>2, <2>3, <2>6, <3>1
    <3>3. PICK rr : rr = rows'[c][i]
      OBVIOUS
    <3>4. rr.kind = "text" /\ rr.path = p /\ rr.before = r.before /\ rr.after = t
          /\ r.kind = "text" /\ r.path = p /\ RowPaths(r) = {p} /\ RowPaths(rr) = {p}
      BY <1>1, <1>2, <2>2, <2>6, <3>3 DEF Row
    <3>5. Effect(rr, aa, bb) /\ Final(rr, ee)
      BY <2>4, <2>5, <3>2, <3>4 DEF Effect, Final
    <3> QED BY <1>2, <2>3, <2>6, <3>3, <3>5
  <2>7. CASE j # i
    <3>1. rows'[c][j] = r /\ p \notin RowPaths(r) /\ RowPaths(r) \subseteq PathsOf(c)
      BY <1>1, <2>2, <2>7, RowsArePlanned DEF DiskInv, Histories
    <3>2. \A q \in RowPaths(r) : aa[q] = a[q] /\ bb[q] = b[q] /\ ee[q] = e[q]
      BY <2>5, <3>1
    <3>3. r.path \in RowPaths(r) /\ (r.kind = "move" => r.to \in RowPaths(r))
      BY DEF RowPaths
    <3>4. aa[p] = bb[p]
      <4>1. j > i => aa[p] = t /\ bb[p] = t
        <5>1. j > i => j + 1 > i
          BY <1>1, <1>2
        <5> QED BY <1>5, <2>1, <2>3, <5>1
      <4>2. ~(j > i) => aa = a /\ bb = b
        <5>1. ~(j > i) => j <= i /\ j + 1 <= i
          BY <1>1, <1>2, <2>7
        <5> QED BY <1>3, <2>1, <2>2, <2>3, <5>1
      <4>3. a[p] = b[p]
        BY <1>2, <2>4, <2>5, <3>1 DEF Effect
      <4> QED BY <4>1, <4>2, <4>3
    <3>5. Effect(r, aa, bb) /\ Final(r, ee)
      <4>1. \A q \in DOMAIN aa \ RowPaths(r) : aa[q] = bb[q]
        BY <2>4, <2>5, <3>4 DEF Effect
      <4> QED BY <2>4, <3>2, <3>3, <4>1 DEF Effect, Final
    <3> QED BY <2>3, <2>4, <3>1, <3>2, <3>3, <3>5
  <2> QED BY <2>6, <2>7
<1>9. ASSUME Clean(c)' PROVE View(c, disk)' = images'[c][Last(c)']
  <2>1. images'[c][Last(c)] = [images[c][Last(c)] EXCEPT ![p] = t]
    BY <1>3, <1>7
  <2>2. View(c, disk)' = [View(c, disk) EXCEPT ![p] = t]
    <3>1. PathsOf(c) \subseteq Paths /\ disk \in [Paths -> Content]
      BY PathsArePaths DEF DiskInv, WalkInv, TypeOK
    <3>2. \A q \in PathsOf(c) : disk'[q] = IF q = p THEN t ELSE disk[q]
      BY <1>2, <3>1
    <3> QED BY <3>2 DEF View
  <2> QED BY <1>1, <1>6, <1>9, <2>1, <2>2
<1> QED BY <1>8, <1>9

LEMMA RewriteStands ==
  ASSUME DiskInv, WalkInv', NEW c \in Changes, NEW i \in DOMAIN rows[c], NEW t \in Texts, Rewrite(c, i, t)
  PROVE  DiskInv'
<1>1. PICK p : Again(c, i, p, t)
  BY RewriteWritesAgain
<1>2. Touch(c, {p}) /\ Told(c)' /\ (Clean(c)' => View(c, disk)' = images'[c][Last(c)'])
  BY <1>1, AgainTouches, AgainTells
<1>3. Clean(c)' => disturbed'[c] = {}
  BY <1>2, TouchDisturbs
<1>4. /\ Shape(c) /\ writer' = writer /\ writer[c] = "writing"
      /\ disturbed'[c] \cap Changes \subseteq disturbed[c]
  BY <1>2, PlanAssumption DEF DiskInv, Histories, Touch, Reasons
<1>5. /\ DOMAIN rows'[c] = DOMAIN rows[c] /\ Last(c)' = Last(c)
      /\ rows'[c][i].kind = "text" /\ rows'[c][i].path = p /\ rows'[c][i].to = rows[c][i].to
      /\ rows'[c][i].before = rows[c][i].before /\ rows'[c][i].after = t
      /\ \A j \in DOMAIN rows[c] \ {i} : rows'[c][j] = rows[c][j]
  BY <1>1, AgainSays
<1>6. images'[c] \in Seq([PathsOf(c) -> Content]) /\ Len(images'[c]) = Last(c)
  <2>1. images'[c] \in Seq([PathsOf(c) -> Content])
    BY <1>4 DEF WalkInv, Walking, Sound
  <2>2. DOMAIN images'[c] = DOMAIN images[c] /\ DOMAIN images[c] = 1 .. Last(c) /\ Last(c) \in Nat
    BY <1>1, <1>4, Indices DEF DiskInv, Again
  <2> QED BY <2>1, <2>2, LenProperties
<1>7. Len(rows'[c]) = Len(rows[c])
  <2>1. rows[c] \in Seq(Row) /\ rows'[c] \in Seq(Row)
    BY DEF DiskInv, WalkInv, TypeOK
  <2> QED BY <1>5, <2>1, LenProperties
<1>8. \A j \in DOMAIN rows'[c] : Planned(rows'[c][j], Plan[c][j])
  <2>1. \A j \in DOMAIN rows[c] : Planned(rows[c][j], Plan[c][j])
    BY <1>4 DEF Shape
  <2>2. Planned(rows'[c][i], Plan[c][i])
    <3>1. Plan[c][i].op = "write" /\ rows[c][i].kind = "text" /\ p = rows[c][i].path
      BY <1>1 DEF Again
    <3> QED BY <1>5, <2>1, <3>1 DEF Planned
  <2> QED BY <1>5, <2>1, <2>2
<1>9. Shape(c)'
  BY <1>3, <1>4, <1>5, <1>6, <1>7, <1>8 DEF Shape
<1>10. Histories'
  BY <1>2, <1>9, TouchKeeps
<1> QED BY <1>2, <1>10, TouchStands

-----------------------------------------------------------------------------
LEMMA InitStands ==
  ASSUME Init
  PROVE  DiskInv
<1>1. WalkInv
  BY InitWalks
<1>2. /\ trash = [c \in Changes |-> [p \in Paths |-> Absent]] /\ writer = [c \in Changes |-> "idle"]
      /\ rows = [c \in Changes |-> <<>>] /\ status = [c \in Changes |-> "none"]
      /\ undo = [u \in Undoers |-> IdleUndo] /\ images = [c \in Changes |-> <<>>]
      /\ disturbed = [c \in Changes |-> {}]
  BY DEF Init
<1>3. \A u \in Undoers : undo[u].pc = "idle" /\ undo[u].change = Absent
  BY <1>2 DEF IdleUndo
<1>4. Absent \notin Changes
  BY PlanAssumption
<1>5. \A c \in Changes : DOMAIN rows[c] = {} /\ Len(rows[c]) = 0 /\ writer[c] = "idle" /\ disturbed[c] = {}
                         /\ images[c] = <<>> /\ rows[c] = <<>> /\ trash[c] = [p \in Paths |-> Absent]
  BY <1>2
<1>6. \A c \in Changes : Plan[c] \in Seq(Step) /\ Len(Plan[c]) \in Nat
  <2>1. \A c \in Changes : Plan[c] \in Seq(Step)
    BY PlanAssumption
  <2> QED BY <2>1
<1>7. \A c \in Changes : Shape(c) /\ Told(c) /\ Working(c)
  BY <1>5, <1>6 DEF Shape, Told, Working
<1>8. \A c \in Changes, d \in Changes : Order(c, d)
  BY <1>5 DEF Order
<1>9. Histories
  <2>1. images = [c \in Changes |-> images[c]]
    BY <1>2
  <2> QED BY <1>7, <1>8, <2>1 DEF Histories
<1>10. Alone /\ (\A u \in Undoers : Calls(u)) /\ \A c \in Changes : Standing(c)
  BY <1>2, <1>3, <1>4 DEF Alone, Calls, Standing
<1> QED BY <1>1, <1>9, <1>10 DEF DiskInv

LEMMA StepStands ==
  ASSUME ~Twice, DiskInv, [Next]_vars
  PROVE  DiskInv'
<1>1. WalkInv'
  BY StepWalks DEF DiskInv
<1>2. ASSUME NEW c \in Changes, Read(c) \/ WriteStep(c) \/ Record(c) \/ LoseTrash(c) PROVE DiskInv'
  BY <1>1, <1>2, ReadStands, WriteStepStands, RecordStands, LoseTrashStands
<1>3. ASSUME NEW c \in Changes, Fail(c) \/ PutBack(c) PROVE DiskInv'
  BY <1>1, <1>3, FailStands, PutBackStands
<1>4. ASSUME NEW c \in Changes, NEW t \in Texts, NEW i \in DOMAIN rows[c], Rewrite(c, i, t) PROVE DiskInv'
  BY <1>1, <1>4, RewriteStands
<1>5. ASSUME NEW u \in Undoers, NEW c \in Changes, BeginUndo(u, c) PROVE DiskInv'
  BY <1>1, <1>5, BeginUndoStands
<1>6. ASSUME NEW u \in Undoers, UndoStep(u) PROVE DiskInv'
  BY <1>1, <1>6, PreflightStands, ReverseStands, CommitStands, RollbackStands DEF UndoStep
<1>7. ASSUME NEW u \in Undoers, UndoFault(u) PROVE DiskInv'
  BY <1>1, <1>7, FailingStands DEF UndoFault
<1>8. ASSUME NEW p \in Paths, NEW t \in Content, Edit(p, t) PROVE DiskInv'
  BY <1>1, <1>8, EditStands
<1>9. CASE Crash
  BY <1>1, <1>9, CrashStands
<1>10. CASE UNCHANGED vars
  BY <1>10, StutterStands
<1> QED BY <1>2, <1>3, <1>4, <1>5, <1>6, <1>7, <1>8, <1>9, <1>10 DEF Next

LEMMA HeldIsSeen ==
  ASSUME DiskInv, NEW c \in Changes, status[c] # "none", NEW k \in DOMAIN images[c],
         Holds(c, k), \A p : Over(c, p) = {}
  PROVE  View(c, disk) = images[c][k]
<1>1. images[c][k] \in [PathsOf(c) -> Content]
  BY Indices DEF DiskInv, WalkInv, Walking, Sound
<1>2. \A p \in PathsOf(c) : images[c][k][p] = disk[p]
  BY DEF Holds
<1> QED BY <1>1, <1>2 DEF View

\* What the environment has done is counted.
Counted == used \in [edits : Nat, faults : Nat, crashes : Nat]

LEMMA StepCounts ==
  ASSUME Counted, [Next]_vars
  PROVE  Counted'
<1> DEFINE Faults == used' = [used EXCEPT !.faults = @ + 1]
<1>1. ASSUME NEW c \in Changes,
             Read(c) \/ WriteStep(c) \/ Record(c) \/ LoseTrash(c) PROVE Counted'
  BY <1>1 DEF Counted, Read, WriteStep, Record, LoseTrash
<1>2. ASSUME NEW c \in Changes, Fail(c) \/ PutBack(c) PROVE Counted'
  <2>1. used' = used \/ Faults
    BY <1>2 DEF Fail, PutBack, Faulty
  <2> QED BY <2>1 DEF Counted
<1>3. ASSUME NEW c \in Changes, NEW t \in Texts, NEW i \in DOMAIN rows[c], Rewrite(c, i, t) PROVE Counted'
  BY <1>3 DEF Counted, Rewrite
<1>4. ASSUME NEW u \in Undoers, (\E c \in Changes : BeginUndo(u, c)) \/ UndoStep(u) \/ UndoFault(u) PROVE Counted'
  <2>1. (\E c \in Changes : BeginUndo(u, c)) \/ Preflight(u) => used' = used
    BY DEF BeginUndo, Preflight
  <2>2. Reverse(u) \/ Commit(u) => used' = used
    BY DEF Reverse, Commit
  <2>3. Rollback(u) => used' = used \/ Faults
    BY DEF Rollback, Faulty
  <2>4. UndoFault(u) => Faults
    BY DEF UndoFault, Faulty
  <2>5. used' = used \/ Faults
    BY <1>4, <2>1, <2>2, <2>3, <2>4 DEF UndoStep
  <2> QED BY <2>5 DEF Counted
<1>5. ASSUME NEW p \in Paths, NEW t \in Content, Edit(p, t) PROVE Counted'
  BY <1>5 DEF Counted, Edit
<1>6. CASE Crash
  BY <1>6 DEF Counted, Crash
<1>7. CASE UNCHANGED vars
  BY <1>7 DEF Counted, vars
<1> QED BY <1>1, <1>2, <1>3, <1>4, <1>5, <1>6, <1>7 DEF Next

\* The journal is true to the disk (journal.ts, undo): whatever undos failed and were
\* rolled back, and whatever later changes were undone on top of it, a recorded change
\* that nobody else disturbs is exactly on disk when applied and exactly reversed when
\* undone, as long as two calls do not undo one change at the same time.
THEOREM JournalIsTrue ==
  ASSUME ~Twice
  PROVE  Spec => []JournalTellsDisk
<1>1. ASSUME DiskInv PROVE JournalTellsDisk
  <2> SUFFICES ASSUME NEW c \in Changes, status[c] # "none", disturbed[c] = {}, Active(c) = {}
               PROVE  View(c, disk) = images[c][IF status[c] = "applied" THEN Len(images[c]) ELSE 1]
    BY DEF JournalTellsDisk
  <2>1. PICK k \in Steps(c) : Holds(c, k)
    BY <1>1 DEF DiskInv, Standing, Clean, Removable
  <2>2. k \in DOMAIN images[c] /\ k = IF status[c] = "applied" THEN Last(c) ELSE 1
    BY <2>1 DEF Steps
  <2>3. View(c, disk) = images[c][k]
    BY <1>1, <2>1, <2>2, HeldIsSeen DEF Over
  <2>4. Len(images[c]) = Last(c)
    BY <1>1 DEF DiskInv, WalkInv, Walking, Sound, Histories, Shape
  <2> QED BY <2>2, <2>3, <2>4
<1> QED BY <1>1, InitStands, StepStands, PTL DEF Spec

\* A crash in the middle of an undo or of its rollback leaves the change's files
\* together, as the first so many of its rows make them (journal.ts, undo).
THEOREM CrashesLeavePrefixes ==
  ASSUME ~Twice
  PROVE  Spec => []CrashLeavesAPrefix
<1>1. ASSUME DiskInv PROVE CrashLeavesAPrefix
  <2> SUFFICES ASSUME NEW c \in Changes, status[c] # "none", disturbed[c] \subseteq {"crash"}
               PROVE  \E i \in DOMAIN images[c] : View(c, disk) = images[c][i]
    BY DEF CrashLeavesAPrefix
  <2>1. disturbed[c] \cap Changes = {}
    BY PlanAssumption DEF Reasons
  <2>2. PICK k \in Steps(c) : Holds(c, k)
    BY <1>1, <2>1 DEF DiskInv, Standing, Clean, Removable
  <2>3. k \in DOMAIN images[c] /\ View(c, disk) = images[c][k]
    BY <1>1, <2>1, <2>2, HeldIsSeen DEF Over, Steps
  <2> QED BY <2>3
<1> QED BY <1>1, InitStands, StepStands, PTL DEF Spec

\* No step of the preflight finds a conflict in a change nobody disturbed.
LEMMA ConflictCaused ==
  ASSUME DiskInv, Counted, [Next]_vars, NEW u \in Undoers,
         undo[u].pc = "preflight", undo'[u].pc = "idle", used'.crashes = used.crashes
  PROVE  disturbed[undo[u].change] # {}
<1>1. undo' # undo
  OBVIOUS
<1>2. ~Crash
  BY DEF Crash, Counted
<1>3. \A v \in Undoers, c \in Changes : BeginUndo(v, c) => v # u /\ undo'[u] = undo[u]
  BY DEF BeginUndo, DiskInv, WalkInv, TypeOK
<1>4. \A v \in Undoers : Reverse(v) \/ Commit(v) \/ Rollback(v) \/ UndoFault(v) => v # u /\ undo'[u] = undo[u]
  BY DEF Reverse, Commit, Rollback, UndoFault, DiskInv, WalkInv, TypeOK
<1>5. \A v \in Undoers \ {u} : Preflight(v) => undo'[u] = undo[u]
  BY DEF Preflight, DiskInv, WalkInv, TypeOK
<1>6. \A c \in Changes : Read(c) \/ WriteStep(c) \/ Record(c) \/ LoseTrash(c) => undo' = undo
  BY DEF Read, WriteStep, Record, LoseTrash
<1>7. \A c \in Changes : Fail(c) \/ PutBack(c) => undo' = undo
  BY DEF Fail, PutBack
<1>8. \A c \in Changes, t \in Texts : \A i \in DOMAIN rows[c] : Rewrite(c, i, t) => undo' = undo
  BY DEF Rewrite
<1>9. \A p \in Paths, t \in Content : Edit(p, t) => undo' = undo
  BY DEF Edit
<1>10. Preflight(u)
  BY <1>1, <1>2, <1>3, <1>4, <1>5, <1>6, <1>7, <1>8, <1>9 DEF Next, UndoStep, vars
<1>11. PICK c \in Changes : undo[u].change = c
  BY DEF DiskInv, WalkInv, Walking
<1>12. ~PostState(c, CurrentRow(u))
  BY <1>10, <1>11 DEF Preflight, DiskInv, WalkInv, TypeOK, Call
<1> SUFFICES ASSUME disturbed[c] = {}
             PROVE  FALSE
  BY <1>11
<1>13. /\ writer[c] = "recorded" /\ status[c] = "applied" /\ undo[u].i \in 1 .. Len(rows[c])
  BY <1>11 DEF DiskInv, WalkInv, Walking, Calls
<1>14. Active(c) = {}
  <2>1. undo[u].pc \notin Reverting
    BY DEF Reverting
  <2> QED BY <1>11, <2>1, Only DEF DiskInv
<1>15. PICK k \in Steps(c) : Holds(c, k)
  BY <1>13 DEF DiskInv, Standing, Clean, Removable
<1>16. k = Last(c)
  BY <1>13, <1>14, <1>15 DEF Steps
<1>17. PICK i \in DOMAIN rows[c] : i = undo[u].i
  BY <1>13, Indices DEF DiskInv
<1>18. \A p \in RowPaths(rows[c][i]) : disk[p] = images[c][Last(c)][p]
  BY <1>15, <1>16, RowsArePlanned DEF DiskInv, Histories, Holds, Over
<1>19. Clean(c)
  BY DEF Clean
<1>20. PostState(c, rows[c][i])
  BY <1>13, <1>18, <1>19, PostStates DEF DiskInv
<1> QED BY <1>11, <1>12, <1>17, <1>20 DEF CurrentRow

\* An undo is refused only for a cause: the files of a recorded change that nobody
\* disturbed always pass its preflight (journal.ts, #undoConflicts).
THEOREM ConflictsHaveCauses ==
  ASSUME ~Twice
  PROVE  Spec => ConflictHasCause
<1>1. Init => DiskInv /\ Counted
  BY InitStands DEF Init, Counted
<1>2. DiskInv /\ Counted /\ [Next]_vars => DiskInv' /\ Counted'
  BY StepStands, StepCounts
<1>3. ASSUME DiskInv, Counted, [Next]_vars
      PROVE  \A u \in Undoers :
               (undo[u].pc = "preflight" /\ undo'[u].pc = "idle" /\ used'.crashes = used.crashes)
                 => disturbed[undo[u].change] # {}
  BY <1>3, ConflictCaused
<1> QED BY <1>1, <1>2, <1>3, PTL DEF Spec, ConflictHasCause

-----------------------------------------------------------------------------
(* An operation that puts its files back.                                    *)

\* What is left of a failed operation's files is what its first rows have made of
\* them, and the trash holds what these have put there.
Backed(c) == writer[c] = "failed" /\ disturbed[c] = {} =>
  /\ View(c, disk) = images[c][left[c] + 1]
  /\ \A i \in 1 .. left[c] : Plan[c][i].op \in {"delete", "trash"} =>
       trash[c][rows[c][i].path] = images[c][i][rows[c][i].path]

\* A step that leaves a failed operation alone, or disturbs it.
Kept(c) == writer'[c] = "failed" /\ disturbed'[c] = {} =>
  /\ writer[c] = "failed" /\ disturbed[c] = {} /\ left'[c] = left[c]
  /\ rows'[c] = rows[c] /\ images'[c] = images[c] /\ trash'[c] = trash[c]
  /\ \A p \in PathsOf(c) : disk'[p] = disk[p]

LEMMA KeptIsBacked ==
  ASSUME NEW c \in Changes, Backed(c), Kept(c)
  PROVE  Backed(c)'
<1> SUFFICES ASSUME writer'[c] = "failed", disturbed'[c] = {}
             PROVE  /\ View(c, disk)' = images'[c][left'[c] + 1]
                    /\ \A i \in 1 .. left'[c] : Plan[c][i].op \in {"delete", "trash"} =>
                         trash'[c][rows'[c][i].path] = images'[c][i][rows'[c][i].path]
  BY DEF Backed
<1>1. /\ writer[c] = "failed" /\ disturbed[c] = {} /\ left'[c] = left[c]
      /\ rows'[c] = rows[c] /\ images'[c] = images[c] /\ trash'[c] = trash[c]
      /\ \A p \in PathsOf(c) : disk'[p] = disk[p]
  BY DEF Kept
<1>2. View(c, disk)' = View(c, disk)
  BY <1>1 DEF View
<1> QED BY <1>1, <1>2 DEF Backed

\* An operation at work, or an undo, writes a file.
LEMMA TouchLeaves ==
  ASSUME DiskInv, NEW d \in Changes, NEW ps, Touch(d, ps), UNCHANGED left, NEW c \in Changes
  PROVE  Kept(c)
<1> SUFFICES ASSUME writer'[c] = "failed", disturbed'[c] = {}
             PROVE  Kept(c)
  BY DEF Kept
<1>1. writer[c] = "failed" /\ c # d
  BY DEF Touch
<1>2. Clean(c)'
  BY DEF Clean
<1>3. ~Begun(c, ps) /\ disturbed[c] = {}
  BY <1>1, <1>2, TouchDisturbs
<1>4. \A p \in PathsOf(c) : disk'[p] = disk[p]
  BY <1>1, <1>3, PathsArePaths DEF Begun, Touch
<1> QED BY <1>1, <1>3, <1>4 DEF Touch, Kept

LEMMA UncoverLeaves ==
  ASSUME DiskInv, NEW d \in Changes, NEW ps, disturbed' = Uncover(d, ps),
         \A p \in Paths \ ps : disk'[p] = disk[p], UNCHANGED <<writer, rows, images>>,
         NEW c \in Changes \ {d}, left'[c] = left[c], trash'[c] = trash[c]
  PROVE  Kept(c)
<1> SUFFICES ASSUME writer[c] = "failed", disturbed'[c] = {}
             PROVE  disturbed[c] = {} /\ \A p \in PathsOf(c) : disk'[p] = disk[p]
  BY DEF Kept
<1>1. disturbed'[c] = IF Begun(c, ps) /\ d \notin disturbed[c] THEN disturbed[c] \cup {"undo"} ELSE disturbed[c]
  BY DEF Uncover
<1>2. disturbed[c] = {} /\ ~Begun(c, ps)
  BY <1>1
<1> QED BY <1>2, PathsArePaths DEF Begun

LEMMA RowsWriteTheirs ==
  ASSUME DiskInv, NEW r \in Row, NEW p \in Paths, p \notin RowPaths(r)
  PROVE  /\ \A c \in Changes : Reversed(c, r)[p] = disk[p]
         /\ \A a : a.row = r => Restored(a)[p] = disk[p]
<1>1. /\ disk \in [Paths -> Content] /\ r.path # p /\ (r.kind = "move" => r.to # p)
      /\ r.kind \in {"text", "binary", "move", "trash"}
  BY DEF DiskInv, WalkInv, TypeOK, RowPaths, Row
<1> QED BY <1>1 DEF Reversed, Restored

LEMMA ReverseLeaves ==
  ASSUME DiskInv, NEW u \in Undoers, Reverse(u), NEW c \in Changes
  PROVE  Kept(c)
<1>1. PICK d \in Changes : undo[u].change = d
  BY DEF DiskInv, WalkInv, Walking, Reverse
<1>2. PICK r : r = CurrentRow(u)
  OBVIOUS
<1>3. /\ UNCHANGED <<trash, writer, rows, left, images>> /\ writer[d] = "recorded" /\ undo[u].pc = "reversing"
  BY <1>1 DEF Reverse, DiskInv, WalkInv, Walking
<1>4. CASE UNCHANGED <<disk, disturbed>>
  BY <1>3, <1>4 DEF Kept
<1>5. CASE disk' = Reversed(d, r) /\ disturbed' = Uncover(d, RowPaths(r))
  <2>1. r \in Row
    <3>1. undo[u].i \in Nat /\ undo[u].i > 0 /\ rows[d] \in Seq(Row) /\ Len(undo[u].applied) \in Nat
          /\ Len(undo[u].applied) + undo[u].i = Len(rows[d])
      <4>1. undo[u] \in Call /\ Len(undo[u].applied) + undo[u].i = Len(rows[undo[u].change])
        BY <1>3 DEF DiskInv, WalkInv, TypeOK
      <4>2. undo[u].i \in Nat /\ undo[u].applied \in Seq([row : Row, bytes : Content])
        BY <4>1 DEF Call
      <4>3. undo[u].i > 0 /\ rows[d] \in Seq(Row)
        BY <1>3 DEF DiskInv, WalkInv, Walking, TypeOK
      <4>4. Len(undo[u].applied) \in Nat
        BY <4>2, LenProperties
      <4> QED BY <1>1, <4>1, <4>2, <4>3, <4>4
    <3>2. Len(rows[d]) \in Nat
      BY <3>1
    <3>3. undo[u].i \in 1 .. Len(rows[d])
      BY <3>1, <3>2
    <3> QED BY <1>1, <1>2, <3>1, <3>3 DEF CurrentRow
  <2>2. \A p \in Paths \ RowPaths(r) : disk'[p] = disk[p]
    BY <1>5, <2>1, RowsWriteTheirs
  <2>3. CASE c # d
    BY <1>3, <1>5, <2>2, <2>3, UncoverLeaves
  <2>4. CASE c = d
    BY <1>3, <2>4 DEF Kept
  <2> QED BY <2>3, <2>4
<1> QED BY <1>1, <1>2, <1>4, <1>5 DEF Reverse

LEMMA RollbackLeaves ==
  ASSUME DiskInv, NEW u \in Undoers, Rollback(u), NEW c \in Changes
  PROVE  Kept(c)
<1>1. PICK d \in Changes : undo[u].change = d
  BY DEF DiskInv, WalkInv, Walking, Rollback
<1>2. PICK a : a = undo[u].applied[Len(undo[u].applied)]
  OBVIOUS
<1>3. /\ UNCHANGED <<trash, writer, rows, left, images>> /\ writer[d] = "recorded" /\ undo[u].pc = "rollback"
  BY <1>1 DEF Rollback, DiskInv, WalkInv, Walking
<1>4. CASE UNCHANGED disk /\ disturbed' = [disturbed EXCEPT ![d] = @ \cup {"fault"}]
  <2>1. disturbed'[c] = {} => disturbed[c] = {}
    BY <1>4 DEF DiskInv, WalkInv, TypeOK
  <2> QED BY <1>3, <1>4, <2>1 DEF Kept
<1>5. CASE disk' = Restored(a) /\ disturbed' = Uncover(d, RowPaths(a.row))
  <2>1. a.row \in Row
    <3>1. undo[u].applied \in Seq([row : Row, bytes : Content]) /\ undo[u].applied # <<>>
      <4>1. undo[u] \in Call
        BY DEF DiskInv, WalkInv, TypeOK
      <4> QED BY <1>3, <4>1 DEF DiskInv, WalkInv, TypeOK, Call
    <3>2. a \in [row : Row, bytes : Content]
      <4>1. PICK as : as = undo[u].applied
        OBVIOUS
      <4>2. as \in Seq([row : Row, bytes : Content]) /\ Len(as) \in 1 .. Len(as) /\ a = as[Len(as)]
        BY <1>2, <3>1, <4>1, EmptySeq, LenProperties
      <4> QED BY <4>2, ElementOfSeq
    <3> QED BY <3>2
  <2>2. \A p \in Paths \ RowPaths(a.row) : disk'[p] = disk[p]
    BY <1>5, <2>1, RowsWriteTheirs
  <2>3. CASE c # d
    BY <1>3, <1>5, <2>2, <2>3, UncoverLeaves
  <2>4. CASE c = d
    BY <1>3, <2>4 DEF Kept
  <2> QED BY <2>3, <2>4
<1> QED BY <1>1, <1>2, <1>4, <1>5 DEF Rollback

\* A catch block leaves the files of the others alone, and brings its own a row back.
LEMMA PutBackBacks ==
  ASSUME DiskInv, DiskInv', NEW e \in Changes, PutBack(e), NEW c \in Changes, Backed(c)
  PROVE  Backed(c)'
<1>1. /\ writer[e] = "failed" /\ left[e] > 0 /\ UNCHANGED <<rows, images>>
      /\ writer \in [Changes -> {"idle", "writing", "recorded", "failed", "lost"}]
      /\ left \in [Changes -> Nat] /\ trash \in [Changes -> [Paths -> Content]] /\ disk \in [Paths -> Content]
  BY DEF PutBack, DiskInv, WalkInv, TypeOK
<1>2. PICK i : i = left[e]
  OBVIOUS
<1>3. PICK r : r = rows[e][i]
  OBVIOUS
<1>4. CASE writer' = [writer EXCEPT ![e] = "lost"] /\ UNCHANGED <<disk, trash, left, disturbed>>
  <2>1. Kept(c)
    BY <1>1, <1>4 DEF Kept
  <2> QED BY <2>1, KeptIsBacked
<1>5. CASE /\ disk' = Returned(e, i) /\ disturbed' = Uncover(e, RowPaths(r))
           /\ trash' = IF Plan[e][i].op \in {"delete", "trash"}
                       THEN [trash EXCEPT ![e][r.path] = Absent] ELSE trash
           /\ left' = [left EXCEPT ![e] = i - 1] /\ UNCHANGED writer
  <2>1. i \in DOMAIN rows[e] /\ i \in Nat /\ DOMAIN rows[e] = 1 .. Len(rows[e])
    <3>1. rows[e] \in Seq(Row) /\ i \in Nat /\ i > 0 /\ i <= Len(rows[e])
      BY <1>1, <1>2 DEF DiskInv, WalkInv, TypeOK, Walking, Sound
    <3> QED BY <3>1
  <2>2. /\ r \in Row /\ Plan[e][i] \in Step /\ Planned(r, Plan[e][i]) /\ RowPaths(r) = StepPaths(Plan[e][i])
        /\ RowPaths(r) \subseteq PathsOf(e) /\ PathsOf(e) \subseteq Paths /\ i \in DOMAIN Plan[e]
    BY <1>3, <2>1, RowsArePlanned, PathsArePaths DEF DiskInv, Histories, Shape
  <2>3. PICK op : op = Plan[e][i].op
    OBVIOUS
  <2>4. /\ op \in {"write", "create", "remove", "delete", "attach", "move", "trash"}
        /\ r.path \in RowPaths(r) /\ r.path \in Paths /\ (op = "move" => r.to \in RowPaths(r) /\ r.to \in Paths)
        /\ r.kind = (CASE op \in {"write", "create", "remove", "delete"} -> "text"
                       [] op = "attach" -> "binary" [] op \in {"move", "trash"} -> op)
    BY <2>2, <2>3 DEF Step, Planned, StepPaths, KindOf
  <2>5. \A p \in Paths \ RowPaths(r) : disk'[p] = disk[p]
    <3>1. disk' \in {[disk EXCEPT ![r.path] = trash[e][r.path]], [disk EXCEPT ![r.path] = r.before]}
          \/ (op = "move" /\ disk' = [disk EXCEPT ![r.path] = disk[r.to], ![r.to] = Absent])
      BY <1>3, <1>5, <2>3 DEF Returned
    <3> QED BY <1>1, <2>4, <3>1
  <2>6. CASE c # e
    <3>1. left'[c] = left[c] /\ trash'[c] = trash[c]
      BY <1>1, <1>5, <2>6
    <3>2. Kept(c)
      BY <1>1, <1>5, <2>5, <2>6, <3>1, UncoverLeaves
    <3> QED BY <3>2, KeptIsBacked
  <2>7. CASE c = e
    <3> SUFFICES ASSUME disturbed'[e] = {}
                 PROVE  /\ View(e, disk)' = images[e][left'[e] + 1]
                        /\ \A j \in 1 .. left'[e] : Plan[e][j].op \in {"delete", "trash"} =>
                             trash'[e][rows[e][j].path] = images[e][j][rows[e][j].path]
      BY <1>1, <2>7 DEF Backed
    <3>1. disturbed[e] = {}
      BY <1>5 DEF Uncover
    <3>2. left'[e] = i - 1 /\ left'[e] + 1 = i
      BY <1>1, <1>5, <2>1
    <3>3. PICK a, b : a = images[e][i] /\ b = images[e][i + 1]
      OBVIOUS
    <3>4. View(e, disk) = b /\ (op \in {"delete", "trash"} => trash[e][r.path] = a[r.path])
      <4>1. i \in 1 .. left[e]
        BY <1>2, <2>1
      <4> QED BY <1>1, <1>2, <1>3, <2>3, <2>7, <3>1, <3>3, <4>1 DEF Backed
    <3>5. Effect(r, a, b)
      BY <1>3, <2>1, <3>1, <3>3 DEF DiskInv, Histories, Told, Clean
    <3>6. a \in [PathsOf(e) -> Content]
      <4>1. Last(e) \in Nat /\ Last(e) = Len(rows[e]) + 1 /\ Len(rows[e]) \in Nat
        BY <1>1, Indices DEF DiskInv
      <4>2. \A k \in 1 .. Last(e) : images[e][k] \in [PathsOf(e) -> Content]
        BY <1>1, Indices DEF DiskInv
      <4>3. i \in 1 .. Last(e)
        BY <2>1, <4>1
      <4> QED BY <3>3, <4>2, <4>3
    <3>7. \A p \in PathsOf(e) : disk[p] = b[p]
      BY <3>4 DEF View
    <3>8. \A p \in RowPaths(r) : disk'[p] = a[p]
      <4>1. CASE op = "move"
        <5>1. disk' = [disk EXCEPT ![r.path] = disk[r.to], ![r.to] = Absent]
          BY <1>3, <1>5, <2>3, <4>1 DEF Returned
        <5>2. /\ r.kind = "move" /\ r.to # r.path /\ a[r.to] = Absent /\ b[r.to] = a[r.path]
              /\ RowPaths(r) = {r.path, r.to}
          BY <2>4, <3>5, <4>1 DEF Effect, RowPaths
        <5> QED BY <1>1, <2>2, <2>4, <3>7, <4>1, <5>1, <5>2
      <4>2. CASE op \in {"delete", "trash"}
        <5>1. disk' = [disk EXCEPT ![r.path] = trash[e][r.path]]
          BY <1>3, <1>5, <2>3, <4>2 DEF Returned
        <5>2. RowPaths(r) = {r.path}
          BY <2>4, <4>2 DEF RowPaths
        <5> QED BY <1>1, <2>4, <3>4, <4>2, <5>1, <5>2
      <4>3. CASE op \in {"write", "create", "remove", "attach"}
        <5>1. disk' = [disk EXCEPT ![r.path] = r.before]
          BY <1>3, <1>5, <2>3, <4>3 DEF Returned
        <5>2. RowPaths(r) = {r.path} /\ r.kind \in {"text", "binary"}
          BY <2>4, <4>3 DEF RowPaths
        <5>3. a[r.path] = r.before
          BY <3>5, <5>2 DEF Effect
        <5> QED BY <1>1, <2>4, <5>1, <5>2, <5>3
      <4> QED BY <2>4, <4>1, <4>2, <4>3
    <3>9. \A p \in PathsOf(e) : disk'[p] = a[p]
      <4> SUFFICES ASSUME NEW p \in PathsOf(e), p \notin RowPaths(r)
                   PROVE  disk'[p] = a[p]
        BY <3>8
      <4>1. a[p] = b[p]
        BY <3>5, <3>6 DEF Effect
      <4> QED BY <2>2, <2>5, <3>7, <4>1
    <3>10. View(e, disk)' = a
      BY <3>6, <3>9 DEF View
    <3>11. ASSUME NEW j \in 1 .. i - 1, Plan[e][j].op \in {"delete", "trash"}
           PROVE  trash'[e][rows[e][j].path] = images[e][j][rows[e][j].path]
      <4>1. j \in 1 .. left[e] /\ j \in DOMAIN rows[e] /\ j # i
        BY <1>2, <2>1
      <4>2. trash[e][rows[e][j].path] = images[e][j][rows[e][j].path]
        BY <1>1, <2>7, <3>1, <3>11, <4>1 DEF Backed
      <4>3. /\ RowPaths(rows[e][j]) = StepPaths(Plan[e][j]) /\ j \in DOMAIN Plan[e]
            /\ RowPaths(rows[e][j]) \subseteq PathsOf(e)
        BY <4>1, RowsArePlanned DEF DiskInv, Histories
      <4>4. rows[e][j].path \notin RowPaths(r)
        <5>1. StepPaths(Plan[e][j]) \cap StepPaths(Plan[e][i]) \subseteq Landing(Plan[e][j])
          BY <2>2, <4>1, <4>3, PlanAssumption
        <5>2. Landing(Plan[e][j]) = {}
          BY <3>11 DEF Landing
        <5>3. rows[e][j].path \in RowPaths(rows[e][j])
          BY DEF RowPaths
        <5> QED BY <2>2, <4>3, <5>1, <5>2, <5>3
      <4>5. trash'[e][rows[e][j].path] = trash[e][rows[e][j].path]
        BY <1>1, <1>5, <2>4, <4>4
      <4> QED BY <4>2, <4>5
    <3> QED BY <3>2, <3>3, <3>10, <3>11
  <2> QED BY <2>6, <2>7
<1> QED BY <1>2, <1>3, <1>4, <1>5 DEF PutBack

\* An operation that fails finds its files as it left them.
LEMMA FailBacks ==
  ASSUME DiskInv, NEW e \in Changes, Fail(e), NEW c \in Changes, Backed(c)
  PROVE  Backed(c)'
<1>1. /\ writer[e] = "writing"
      /\ writer' = [writer EXCEPT ![e] = IF Len(rows[e]) >= Guarded[e] THEN "failed" ELSE "lost"]
      /\ left' = [left EXCEPT ![e] = Len(rows[e])]
      /\ UNCHANGED <<disk, trash, rows, images, disturbed>>
  BY DEF Fail
<1>2. writer \in [Changes -> {"idle", "writing", "recorded", "failed", "lost"}] /\ left \in [Changes -> Nat]
  BY DEF DiskInv, WalkInv, TypeOK
<1>3. CASE c # e
  <2>1. Kept(c)
    BY <1>1, <1>2, <1>3 DEF Kept
  <2> QED BY <2>1, KeptIsBacked
<1>4. CASE c = e
  <2> SUFFICES ASSUME disturbed[e] = {}
               PROVE  /\ View(e, disk) = images[e][left'[e] + 1]
                      /\ \A i \in 1 .. left'[e] : Plan[e][i].op \in {"delete", "trash"} =>
                           trash[e][rows[e][i].path] = images[e][i][rows[e][i].path]
    <3>1. View(e, disk)' = View(e, disk)
      BY <1>1 DEF View
    <3> QED BY <1>1, <1>4, <3>1 DEF Backed
  <2>1. left'[e] = Len(rows[e]) /\ left'[e] + 1 = Last(e)
    BY <1>1, <1>2 DEF Last
  <2>2. Working(e) /\ Told(e) /\ Clean(e)
    BY DEF DiskInv, Histories, Clean
  <2>3. DOMAIN rows[e] = 1 .. Len(rows[e])
    BY <1>1, Indices DEF DiskInv
  <2> QED BY <1>1, <2>1, <2>2, <2>3 DEF Working, Told
<1> QED BY <1>3, <1>4

\* The undo of a change marks others.
LEMMA CallLeaves ==
  ASSUME DiskInv, NEW u \in Undoers, NEW c \in Changes,
         Preflight(u) \/ Commit(u) \/ UndoFault(u) \/ \E d \in Changes : BeginUndo(u, d)
  PROVE  Kept(c)
<1>1. UNCHANGED <<disk, trash, writer, rows, left, images>>
  BY DEF Preflight, Commit, UndoFault, BeginUndo
<1>2. \A d \in Changes : undo[u].pc # "idle" /\ undo[u].change = d => writer[d] = "recorded"
  BY DEF DiskInv, WalkInv, Walking
<1>3. writer[c] = "failed" /\ disturbed'[c] = {} => disturbed[c] = {}
  <2> SUFFICES ASSUME writer[c] = "failed", disturbed'[c] = {}
               PROVE  disturbed[c] = {}
    OBVIOUS
  <2>1. PICK d : d = undo[u].change
    OBVIOUS
  <2>2. CASE Preflight(u)
    BY <2>2 DEF Preflight, DiskInv, WalkInv, TypeOK
  <2>3. CASE UNCHANGED disturbed
    BY <2>3
  <2>4. CASE disturbed' = [x \in Changes |-> IF disturbed[d] = {} THEN disturbed[x] \ {d} ELSE disturbed[x]]
             /\ d \in Changes
    <3>1. Clean(c)
      BY <2>4 DEF Clean
    <3> QED BY <3>1 DEF DiskInv, Histories, Shape
  <2>5. Commit(u) => d \in Changes
    BY <2>1 DEF Commit, DiskInv, WalkInv, Walking
  <2> QED BY <2>1, <2>2, <2>3, <2>4, <2>5 DEF Commit, UndoFault, BeginUndo
<1> QED BY <1>1, <1>3 DEF Kept

\* The environment leaves it alone, or disturbs it.
LEMMA WorldLeaves ==
  ASSUME DiskInv, NEW c \in Changes
  PROVE  /\ \A p \in Paths, t \in Content : Edit(p, t) => Kept(c)
         /\ \A e \in Changes : Read(e) \/ Record(e) \/ LoseTrash(e) => Kept(c)
         /\ Crash => Kept(c)
<1>1. /\ disk \in [Paths -> Content] /\ trash \in [Changes -> [Paths -> Content]]
      /\ writer \in [Changes -> {"idle", "writing", "recorded", "failed", "lost"}]
      /\ rows \in [Changes -> Seq(Row)] /\ images = [d \in Changes |-> images[d]] /\ left \in [Changes -> Nat]
      /\ disturbed \in [Changes -> SUBSET (Changes \cup Reasons)]
  BY DEF DiskInv, WalkInv, Walking, TypeOK, Reasons
<1>2. ASSUME NEW p \in Paths, NEW t \in Content, Edit(p, t) PROVE Kept(c)
  <2>1. /\ disk' = [disk EXCEPT ![p] = t] /\ disturbed' = Disturb("editor", {p})
        /\ UNCHANGED <<trash, writer, rows, left, images>>
    BY <1>2 DEF Edit
  <2>2. "editor" # c
    BY PlanAssumption DEF Reasons
  <2>3. writer[c] = "failed" /\ disturbed'[c] = {} => disturbed[c] = {} /\ p \notin PathsOf(c)
    BY <2>1, <2>2 DEF Disturb, Begun
  <2> QED BY <1>1, <2>1, <2>3, PathsArePaths DEF Kept
<1>3. ASSUME NEW e \in Changes, Read(e) PROVE Kept(c)
  BY <1>1, <1>3 DEF Kept, Read
<1>4. ASSUME NEW e \in Changes, Record(e) PROVE Kept(c)
  BY <1>1, <1>4 DEF Kept, Record
<1>5. ASSUME NEW e \in Changes, LoseTrash(e) PROVE Kept(c)
  <2>1. PICK v : v = [p \in Paths |-> Absent]
    OBVIOUS
  <2>2. /\ trash' = [trash EXCEPT ![e] = v] /\ disturbed' = [disturbed EXCEPT ![e] = @ \cup {"editor"}]
        /\ UNCHANGED <<disk, writer, rows, left, images>>
    BY <1>5, <2>1 DEF LoseTrash
  <2>3. disturbed'[c] = {} => c # e /\ disturbed[c] = {}
    BY <1>1, <2>2
  <2> QED BY <1>1, <2>2, <2>3 DEF Kept
<1>6. CASE Crash
  BY <1>1, <1>6 DEF Crash, Kept
<1> QED BY <1>2, <1>3, <1>4, <1>5, <1>6

LEMMA StepBacks ==
  ASSUME DiskInv, DiskInv', [Next]_vars, NEW c \in Changes, Backed(c)
  PROVE  Backed(c)'
<1>1. WalkInv'
  BY DEF DiskInv
<1>2. ASSUME NEW e \in Changes, WriteStep(e) PROVE Kept(c)
  <2>1. PICK s, r : Wrote(e, s, r)
    BY <1>1, <1>2, WriteStepWrites
  <2>2. PICK ps : Touch(e, ps)
    BY <1>1, <2>1, WroteTouches
  <2> QED BY <1>2, <2>2, TouchLeaves DEF WriteStep
<1>3. ASSUME NEW e \in Changes, NEW t \in Texts, NEW i \in DOMAIN rows[e], Rewrite(e, i, t) PROVE Kept(c)
  <2>1. PICK p : Again(e, i, p, t)
    BY <1>3, RewriteWritesAgain
  <2>2. PICK ps : Touch(e, ps)
    BY <2>1, AgainTouches
  <2> QED BY <1>3, <2>2, TouchLeaves DEF Rewrite
<1>4. ASSUME NEW e \in Changes, Read(e) \/ Record(e) \/ LoseTrash(e) PROVE Kept(c)
  BY <1>4, WorldLeaves
<1>5. ASSUME NEW u \in Undoers, (\E d \in Changes : BeginUndo(u, d)) \/ UndoStep(u) \/ UndoFault(u) PROVE Kept(c)
  BY <1>5, CallLeaves, ReverseLeaves, RollbackLeaves DEF UndoStep
<1>6. ASSUME NEW p \in Paths, NEW t \in Content, Edit(p, t) PROVE Kept(c)
  BY <1>6, WorldLeaves
<1>7. (Crash => Kept(c)) /\ (UNCHANGED vars => Kept(c))
  BY WorldLeaves DEF vars, Kept
<1>8. ASSUME NEW e \in Changes, Fail(e) \/ PutBack(e) PROVE Backed(c)'
  BY <1>8, FailBacks, PutBackBacks
<1>9. Kept(c) => Backed(c)'
  BY KeptIsBacked
<1> QED BY <1>2, <1>3, <1>4, <1>5, <1>6, <1>7, <1>8, <1>9 DEF Next

\* An operation that fails inside its try block leaves no trace (the catch blocks of
\* move.ts and forget.ts): once these are through, its files are those it read.
THEOREM FailuresLeaveNothing ==
  ASSUME ~Twice
  PROVE  Spec => []FailureLeavesNothing
<1> DEFINE AllBacked == \A c \in Changes : Backed(c)
<1>1. Init => DiskInv /\ AllBacked
  <2>1. Init => \A c \in Changes : writer[c] # "failed"
    BY DEF Init
  <2> QED BY <2>1, InitStands DEF Backed
<1>2. DiskInv /\ AllBacked /\ [Next]_vars => DiskInv' /\ AllBacked'
  BY StepStands, StepBacks
<1>3. AllBacked => FailureLeavesNothing
  BY DEF Backed, FailureLeavesNothing
<1> QED BY <1>1, <1>2, <1>3, PTL DEF Spec
=============================================================================
