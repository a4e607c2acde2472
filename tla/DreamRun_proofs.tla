--------------------------- MODULE DreamRun_proofs ---------------------------
(***************************************************************************)
(* Dream runs over a maintenance plan, for every plan, every number of      *)
(* people and of runs: nothing foreign is overwritten that a call had still *)
(* to look at, a run has one outcome, and a pause stands.                   *)
(***************************************************************************)
EXTENDS DreamRun, FiniteSetTheorems, WellFoundedInduction, SequenceTheorems, TLAPS

\* A set of naturals has a least element: with intervals ordered by inclusion.
LEMMA MinIn ==
  ASSUME NEW S \in SUBSET Nat, S # {}
  PROVE  Min(S) \in S /\ \A y \in S : Min(S) <= y
<1> DEFINE T == {I \in SUBSET Nat : \E x \in S : I = 0 .. x}
<1>1. T # {} /\ T \subseteq FiniteSubsetsOf(Nat)
  <2>1. \A x \in S : 0 .. x \in T /\ 0 .. x \in SUBSET Nat
    OBVIOUS
  <2>2. \A x \in S : IsFiniteSet(0 .. x)
    BY FS_Interval
  <2> QED BY <2>1, <2>2 DEF FiniteSubsetsOf
<1>2. PICK I \in T : \A J \in T : ~(<<J, I>> \in StrictSubsetOrdering(Nat))
  BY <1>1, FS_StrictSubsetOrderingWellFounded, WFMin
<1>3. PICK x \in S : I = 0 .. x
  BY <1>2
<1>4. \A y \in S : x <= y
  <2> SUFFICES ASSUME NEW y \in S, y < x PROVE FALSE
    OBVIOUS
  <2>1. 0 .. y \in T /\ 0 .. y \subseteq 0 .. x /\ x \in 0 .. x /\ x \notin 0 .. y
    OBVIOUS
  <2> QED BY <1>2, <1>3, <2>1 DEF StrictSubsetOrdering
<1> QED BY <1>4 DEF Min

LEMMA MaxIn ==
  ASSUME NEW n \in Nat, NEW S \in SUBSET (1 .. n), S # {}
  PROVE  Max(S) \in S
<1> DEFINE T == {y \in Nat : \E x \in S : y = n - x}
<1>1. T \in SUBSET Nat /\ T # {}
  <2>1. PICK x \in S : TRUE
    OBVIOUS
  <2>2. x \in 1 .. n
    BY <2>1
  <2>3. n - x \in T
    BY <2>1, <2>2
  <2> QED BY <2>3
<1>2. PICK t \in T : \A y \in T : t <= y
  BY <1>1, MinIn
<1>3. \E x \in S : \A y \in S : x >= y
  <2>1. PICK x \in S : t = n - x
    BY <1>2
  <2>2. \A y \in S : x >= y
    <3> TAKE y \in S
    <3>1. x \in 1 .. n /\ y \in 1 .. n
      OBVIOUS
    <3>2. n - y \in T
      BY <3>1
    <3> HIDE DEF T
    <3> QED BY <1>2, <2>1, <3>1, <3>2
  <2> QED BY <2>2
<1> QED BY <1>3 DEF Max

-----------------------------------------------------------------------------
(* A plan and its files *)

Idling == {"idle", "thrown"}

\* The files of an item hold nothing foreign, or foreign bytes came too late.
Safe(i, dk, lt) == PathsOf(i) \subseteq lt \/ \A p \in PathsOf(i) : dk[p] # Foreign

\* A call at work is at an item; while it may write it knows the item's files.
CallOK(cl, dk, lt) ==
  /\ cl.pc \notin Idling => cl.at \in Items
  /\ cl.pc \in Writing => Safe(cl.at, dk, lt)
  /\ cl.pc \in Writing \ {"write"} => cl.left \subseteq DOMAIN Ops[cl.at]
  /\ cl.pc = "write" => cl.k <= Len(Ops[cl.at])

CallsOK == \A c \in Calls : CallOK(call[c], disk, late)

\* A revision in preflight may still be sealed.
DraftsOK == \A a \in {"human", "curator"} :
  draft[a] # NoDraft => draft[a].at \in Items /\ draft[a].row.rev < MaxRevision

PlanInv == TypeOK /\ CallsOK /\ DraftsOK

\* What is foreign and did not come too late stays, and what comes under a call that
\* may write does come too late.
NoneLost ==
  /\ \A d \in Calls : call[d].pc \in Writing => Safe(call[d].at, disk', late')
  /\ \A p \in Paths \ late : disk[p] = Foreign => disk'[p] = Foreign

LEMMA OpsFacts ==
  ASSUME NEW i \in Items
  PROVE  /\ Items = 1 .. Len(Ops) /\ Len(Ops) \in Nat /\ Items \subseteq Nat \ {0}
         /\ DOMAIN Ops[i] = 1 .. Len(Ops[i]) /\ Len(Ops[i]) \in Nat
         /\ DOMAIN Ops[i] \subseteq Nat
         /\ \A k \in DOMAIN Ops[i] :
              /\ Ops[i][k] \in Operation
              /\ Ops[i][k].path \in PathsOf(i)
              /\ Ops[i][k].kind = "move" => Ops[i][k].to \in PathsOf(i)
         /\ PathsOf(i) \subseteq Paths
<1>1. Ops \in Seq(Seq(Operation))
  BY PlanAssumption
<1>2. Items = 1 .. Len(Ops) /\ Len(Ops) \in Nat /\ Ops[i] \in Seq(Operation)
  BY <1>1 DEF Items
<1>3. DOMAIN Ops[i] = 1 .. Len(Ops[i]) /\ Len(Ops[i]) \in Nat /\ \A k \in DOMAIN Ops[i] : Ops[i][k] \in Operation
  BY <1>2
<1>4. \A k \in DOMAIN Ops[i] : /\ Ops[i][k].path \in PathsOf(i)
                               /\ Ops[i][k].kind = "move" => Ops[i][k].to \in PathsOf(i)
  BY DEF PathsOf, Touched
<1>5. PathsOf(i) \subseteq Paths
  BY <1>3 DEF PathsOf, Touched, Operation
<1> QED BY <1>2, <1>3, <1>4, <1>5

LEMMA ContentFacts ==
  ASSUME NEW i \in Items, NEW r \in Revisions
  PROVE  /\ Output(i, r) \in Contents /\ Output(i, r) # Foreign /\ Absent \in Contents /\ Absent # Foreign
         /\ Sealed \in Contents /\ Sealed # Foreign
<1>1. i \in Nat \ {0}
  BY OpsFacts
<1> QED BY <1>1 DEF Output, Contents, Foreign, Absent, Sealed

\* What an operation does, and what puts it back, leaves the files of others alone.
LEMMA OperationKeeps ==
  ASSUME disk \in [Paths -> Contents], NEW i \in Items, NEW k \in DOMAIN Ops[i], NEW r \in Revisions,
         NEW D, D = Performed(i, Ops[i][k], r) \/ D = Restored(Ops[i][k])
  PROVE  D \in [Paths -> Contents] /\ \A p \in Paths \ PathsOf(i) : D[p] = disk[p]
<1> DEFINE op == Ops[i][k]
<1>1. /\ op.path \in Paths /\ op.path \in PathsOf(i)
      /\ op.kind = "move" => op.to \in Paths /\ op.to \in PathsOf(i)
  BY OpsFacts
<1>2. Output(i, r) \in Contents /\ Absent \in Contents /\ Sealed \in Contents
  BY ContentFacts
<1>3. Before(op) \in Contents
  BY <1>2 DEF Before
<1> HIDE DEF op
<1>4. CASE D = Performed(i, op, r)
  BY <1>1, <1>2, <1>4 DEF Performed
<1>5. CASE D = Restored(op)
  BY <1>1, <1>2, <1>3, <1>5 DEF Restored
<1> QED BY <1>4, <1>5 DEF op

LEMMA RedoneKeeps ==
  ASSUME disk \in [Paths -> Contents], NEW i \in Items, NEW ks \in SUBSET DOMAIN Ops[i], NEW r \in Revisions
  PROVE  /\ Redone(i, r, ks) \in [Paths -> Contents]
         /\ \A p \in Paths \ PathsOf(i) : Redone(i, r, ks)[p] = disk[p]
<1>1. Output(i, r) \in Contents /\ Absent \in Contents
  BY ContentFacts
<1>2. \A k \in ks : /\ Ops[i][k].path \in PathsOf(i) /\ Ops[i][k].path \in Paths
                    /\ Ops[i][k].kind = "move" => Ops[i][k].to \in PathsOf(i)
  BY OpsFacts
<1>3. ASSUME NEW p \in Paths, NEW k \in ks, Ops[i][k].kind = "move" /\ Ops[i][k].to = p
      PROVE  Ops[i][CHOOSE l \in ks : Ops[i][l].kind = "move" /\ Ops[i][l].to = p].path \in Paths
  BY <1>2, <1>3
<1> QED BY <1>1, <1>2, <1>3 DEF Redone

\* An item whose operations are all undone or all done holds nothing foreign.
LEMMA KnownFiles ==
  ASSUME disk \in [Paths -> Contents], NEW i \in Items, NEW r \in Revisions, ~Some(i, r, "other")
  PROVE  \A p \in PathsOf(i) : disk[p] # Foreign
<1> SUFFICES ASSUME NEW p \in PathsOf(i) PROVE disk[p] # Foreign
  OBVIOUS
<1>1. PICK k \in DOMAIN Ops[i] : p = Ops[i][k].path \/ (Ops[i][k].kind = "move" /\ p = Ops[i][k].to)
  BY DEF PathsOf, Touched
<1> DEFINE op == Ops[i][k]
<1>2. StateOf(i, op, r) # "other"
  BY <1>1 DEF Some
<1>3. Output(i, r) # Foreign /\ Absent # Foreign /\ Sealed # Foreign /\ Before(op) # Foreign
  BY ContentFacts DEF Before
<1> HIDE DEF op
<1>4. p = op.path \/ (op.kind = "move" /\ p = op.to)
  BY <1>1 DEF op
<1> QED BY <1>2, <1>3, <1>4 DEF StateOf

LEMMA AllKnown ==
  ASSUME NEW i, NEW r, NEW s \in {"before", "after"}, All(i, r, s)
  PROVE  ~Some(i, r, "other")
BY DEF All, Some

-----------------------------------------------------------------------------
(* The calls *)

\* Whatever the files hold now, those of a call that may write count as late.
LEMMA UnseenCovers ==
  ASSUME NEW D, disk' = D, late' = late \cup Unseen(D)
  PROVE  \A d \in Calls : call[d].pc \in Writing => Safe(call[d].at, disk', late')
<1> SUFFICES ASSUME NEW d \in Calls, call[d].pc \in Writing, NEW p \in PathsOf(call[d].at), D[p] = Foreign
             PROVE  PathsOf(call[d].at) \subseteq late'
  BY DEF Safe
<1>1. PathsOf(At(d)) \subseteq Unseen(D)
  BY DEF Unseen, At
<1> QED BY <1>1 DEF At

LEMMA QuietFiles ==
  ASSUME PlanInv, UNCHANGED <<disk, late>>
  PROVE  NoneLost
BY DEF PlanInv, CallsOK, CallOK, NoneLost

\* A call writes the files of its item.
LEMMA PutKeeps ==
  ASSUME PlanInv, NEW c \in Calls, call[c].pc \in Writing, NEW D, NEW ps, Put(c, D, ps),
         \A p \in Paths \ PathsOf(At(c)) : D[p] = disk[p]
  PROVE  NoneLost
<1>1. disk' = D /\ late' = late \cup Unseen(D)
  BY DEF Put
<1>2. Safe(At(c), disk, late)
  BY DEF PlanInv, CallsOK, CallOK, At
<1>3. \A p \in Paths \ late : disk[p] = Foreign => disk'[p] = Foreign
  BY <1>1, <1>2 DEF Safe
<1> QED BY <1>1, <1>3, UnseenCovers DEF NoneLost

\* One call moves on, or another takes its place.
LEMMA CallMoves ==
  ASSUME PlanInv, NEW c \in Calls, NEW cl \in CallType, call' = [call EXCEPT ![c] = cl],
         CallOK(cl, disk', late'), NoneLost
  PROVE  call' \in [Calls -> CallType] /\ CallsOK'
<1>1. call \in [Calls -> CallType]
  BY DEF PlanInv, TypeOK
<1>2. call' \in [Calls -> CallType]
  BY <1>1
<1>3. ASSUME NEW d \in Calls PROVE CallOK(call'[d], disk', late')
  <2>1. CASE d = c
    BY <1>1, <2>1
  <2>2. CASE d # c
    <3>1. call'[d] = call[d] /\ CallOK(call[d], disk, late)
      BY <1>1, <1>3, <2>2 DEF PlanInv, CallsOK
    <3> QED BY <3>1 DEF CallOK, NoneLost
  <2> QED BY <2>1, <2>2
<1> QED BY <1>2, <1>3 DEF CallsOK

LEMMA Typed ==
  ASSUME PlanInv, NEW c \in Calls, call[c].pc \notin Idling
  PROVE  /\ At(c) \in Items /\ Rev(c) \in Revisions /\ call[c] \in CallType
         /\ disk \in [Paths -> Contents] /\ item \in [Items -> Row] /\ plan \in PlanStatus
         /\ call \in [Calls -> CallType]
         /\ changes \in Seq([item : Items, rev : Revisions, undone : BOOLEAN])
<1>1. call \in [Calls -> CallType] /\ At(c) \in Items
  BY DEF PlanInv, TypeOK, CallsOK, CallOK, At
<1>2. Rev(c) \in Revisions
  BY <1>1 DEF Rev, CallType, Row
<1> QED BY <1>1, <1>2 DEF PlanInv, TypeOK

LEMMA EntryPc == \A s : Entry(s) \in {"check", "recover", "resume"}
BY DEF Entry

LEMMA StatusTyped ==
  ASSUME NEW rows
  PROVE  StatusAfterApply(rows) \in PlanStatus /\ StatusAfterDecision(rows) \in PlanStatus
BY DEF StatusAfterApply, StatusAfterDecision, PlanStatus, Terminal

NewRowTyped == NewRow \in Row /\ NoRows \in [Items -> Row]

LEMMA NewRows == NewRowTyped
BY PlanAssumption DEF NewRowTyped, NewRow, NoRows, Row, ItemStatus, VerificationStatus, Revisions

LEMMA EndedTyped ==
  ASSUME PlanInv, NEW c \in Calls, NEW pc \in Idling
  PROVE  Ended(c, pc) \in CallType /\ \A dk, lt : CallOK(Ended(c, pc), dk, lt)
<1>1. call[c].spent \in SUBSET Items
  BY DEF PlanInv, TypeOK, CallType
<1>2. Ended(c, pc) \in CallType /\ Ended(c, pc).pc = pc
  BY <1>1, NewRows DEF NewRowTyped, Ended, Idle, CallType, Idling
<1> QED BY <1>2 DEF CallOK, Idling, Writing

LEMMA ProceedKeeps ==
  ASSUME PlanInv, NEW c \in Calls, call[c].pc \notin Idling, NEW rows \in [Items -> Row],
         Proceed(c, rows), NoneLost
  PROVE  item' \in [Items -> Row] /\ plan' \in PlanStatus /\ call' \in [Calls -> CallType] /\ CallsOK'
<1> DEFINE later == {j \in call[c].only : j > At(c) /\ call[c].seen[j].status \in Open}
<1>1. /\ At(c) \in Items /\ call[c] \in CallType /\ plan \in PlanStatus
  BY Typed
<1>2. item' \in [Items -> Row]
  BY DEF Proceed
<1>3. CASE later = {}
  <2>1. plan' = StatusAfterApply(rows) /\ call' = [call EXCEPT ![c] = Ended(c, "idle")]
    BY <1>3 DEF Proceed
  <2>2. Ended(c, "idle") \in CallType /\ CallOK(Ended(c, "idle"), disk', late')
    BY EndedTyped DEF Idling
  <2> QED BY <1>2, <2>1, <2>2, CallMoves, StatusTyped
<1>4. CASE later # {}
  <2> DEFINE cl == [call[c] EXCEPT
                        !.pc = Entry(call[c].seen[Min(later)].status), !.at = Min(later),
                        !.k = 0, !.left = {}, !.seen[At(c)] = NewRow]
  <2>1. call' = [call EXCEPT ![c] = cl] /\ plan' = plan
    BY <1>4 DEF Proceed
  <2>2. later \subseteq Items /\ Items \subseteq Nat
    BY <1>1, OpsFacts DEF CallType
  <2>3. Min(later) \in Items
    BY <1>4, <2>2, MinIn
  <2> HIDE DEF later
  <2>4. cl \in CallType /\ cl.at = Min(later) /\ cl.pc \in {"check", "recover", "resume"}
    BY <1>1, <2>3, EntryPc, NewRows DEF NewRowTyped, CallType
  <2>5. CallOK(cl, disk', late')
    BY <2>3, <2>4 DEF CallOK, Idling, Writing
  <2> HIDE DEF cl
  <2> QED BY <1>1, <1>2, <2>1, <2>4, <2>5, CallMoves
<1> QED BY <1>3, <1>4

LEMMA ThrowKeeps ==
  ASSUME PlanInv, NEW c \in Calls, call[c].pc \notin Idling, NEW rows \in [Items -> Row],
         Throw(c, rows), NoneLost
  PROVE  item' \in [Items -> Row] /\ plan' \in PlanStatus /\ call' \in [Calls -> CallType] /\ CallsOK'
<1> DEFINE pc == IF c = Dreamer THEN "thrown" ELSE "idle"
<1>1. item' = rows /\ plan' = plan /\ call' = [call EXCEPT ![c] = Ended(c, pc)] /\ pc \in Idling
  BY DEF Throw, Idling
<1>2. Ended(c, pc) \in CallType /\ CallOK(Ended(c, pc), disk', late')
  BY <1>1, EndedTyped
<1> HIDE DEF pc
<1> QED BY <1>1, <1>2, CallMoves DEF PlanInv, TypeOK

LEMMA ContinueKeeps ==
  ASSUME PlanInv, NEW c \in Calls, call[c].pc \notin Idling, NEW rows \in [Items -> Row],
         NEW pc \in {"check", "mend", "resume", "index"}, NEW left \in SUBSET DOMAIN Ops[At(c)],
         Continue(c, pc, rows, left), NoneLost,
         pc = "mend" => Safe(At(c), disk', late')
  PROVE  item' \in [Items -> Row] /\ plan' \in PlanStatus /\ call' \in [Calls -> CallType] /\ CallsOK'
<1> DEFINE cl == [call[c] EXCEPT !.pc = pc, !.left = left,
                    !.seen = [call[c].seen EXCEPT ![At(c)] = rows[At(c)]]]
<1>1. item' = rows /\ plan' = plan /\ call' = [call EXCEPT ![c] = cl]
  BY DEF Continue
<1>2. At(c) \in Items /\ call[c] \in CallType /\ left \subseteq Nat /\ plan \in PlanStatus
  BY Typed, OpsFacts
<1>3. cl \in CallType /\ cl.pc = pc /\ cl.at = At(c) /\ cl.left = left /\ cl.k = call[c].k
  BY <1>2 DEF CallType, At
<1>4. CallOK(cl, disk', late')
  BY <1>2, <1>3 DEF CallOK, Idling, Writing
<1> HIDE DEF cl
<1> QED BY <1>1, <1>2, <1>3, <1>4, CallMoves

Change == [item : Items, rev : Revisions, undone : BOOLEAN]

LEMMA RowsTyped ==
  ASSUME item \in [Items -> Row], NEW i
  PROVE  /\ \A s \in ItemStatus, proof \in VerificationStatus :
              /\ Marked(i, s, proof) \in [Items -> Row]
              /\ [Marked(i, s, proof) EXCEPT ![i].over = TRUE] \in [Items -> Row]
              /\ \A n \in Nat : [Marked(i, s, proof) EXCEPT ![i].change = n] \in [Items -> Row]
         /\ Blocked(i) \in [Items -> Row]
         /\ \A s \in ItemStatus : Decided(i, s) \in [Items -> Row]
<1>1. \A rows \in [Items -> Row], s \in ItemStatus : [rows EXCEPT ![i].status = s] \in [Items -> Row]
  BY DEF Row
<1>2. \A rows \in [Items -> Row], proof \in VerificationStatus :
        [rows EXCEPT ![i].proof = proof] \in [Items -> Row]
  BY DEF Row
<1>3. \A rows \in [Items -> Row], b \in BOOLEAN : [rows EXCEPT ![i].over = b] \in [Items -> Row]
  BY DEF Row
<1>4. \A rows \in [Items -> Row], n \in Nat : [rows EXCEPT ![i].change = n] \in [Items -> Row]
  BY DEF Row
<1>5. \A s \in ItemStatus, proof \in VerificationStatus :
        Marked(i, s, proof) \in [Items -> Row]
  <2> TAKE s \in ItemStatus, proof \in VerificationStatus
  <2> DEFINE rows == [item EXCEPT ![i].status = s]
  <2>1. rows \in [Items -> Row]
    BY <1>1
  <2>2. Marked(i, s, proof) = [rows EXCEPT ![i].proof = proof]
    BY DEF Marked
  <2> HIDE DEF rows
  <2> QED BY <1>2, <2>1, <2>2
<1>6. \A s \in ItemStatus : Decided(i, s) \in [Items -> Row]
  <2> TAKE s \in ItemStatus
  <2> DEFINE rows == [item EXCEPT ![i].status = s]
  <2>1. rows \in [Items -> Row]
    BY <1>1
  <2>2. Decided(i, s) = [rows EXCEPT ![i].over = FALSE]
    BY DEF Decided
  <2> HIDE DEF rows
  <2> QED BY <1>3, <2>1, <2>2
<1>7. Blocked(i) = Decided(i, "blocked") /\ "blocked" \in ItemStatus
  BY DEF Blocked, Decided, ItemStatus
<1> QED BY <1>3, <1>4, <1>5, <1>6, <1>7

LEMMA RecordTyped ==
  ASSUME changes \in Seq(Change), NEW i \in Items, NEW r \in Revisions
  PROVE  Recorded(i, r) \in Seq(Change) /\ Len(changes) + 1 \in Nat
BY DEF Recorded, Change

\* What every step of an apply call preserves, and the calls of others.
ApplyKeeps(c) ==
  /\ PlanInv'
  /\ NoneLost
  /\ \A d \in Calls \ {c} : call'[d] = call[d]
  /\ call[c].pc \notin Idling

\* The call's own record aside, a step that leaves the files alone.
LEMMA StepKeeps ==
  ASSUME PlanInv, NEW c \in Calls, call[c].pc \notin Idling, NoneLost,
         disk' \in [Paths -> Contents], item' \in [Items -> Row], plan' \in PlanStatus,
         call' \in [Calls -> CallType], CallsOK', changes' \in Seq(Change), trouble' \in Nat,
         UNCHANGED <<draft, assent>>, \A d \in Calls \ {c} : call'[d] = call[d]
  PROVE  ApplyKeeps(c)
BY DEF ApplyKeeps, PlanInv, TypeOK, DraftsOK, Change

LEMMA Others ==
  ASSUME PlanInv, NEW c \in Calls, NEW rows,
         \/ Proceed(c, rows) \/ Throw(c, rows)
         \/ \E pc, left : Continue(c, pc, rows, left)
         \/ \E cl : call' = [call EXCEPT ![c] = cl]
  PROVE  \A d \in Calls \ {c} : call'[d] = call[d]
<1>1. call \in [Calls -> CallType]
  BY DEF PlanInv, TypeOK
<1>2. \E cl : call' = [call EXCEPT ![c] = cl]
  BY DEF Proceed, Throw, Continue
<1> QED BY <1>1, <1>2

\* The facts every step starts from.
LEMMA AtWork ==
  ASSUME PlanInv, NEW c \in Calls, call[c].pc \notin Idling
  PROVE  /\ At(c) \in Items /\ Rev(c) \in Revisions /\ call[c] \in CallType /\ disk \in [Paths -> Contents]
         /\ item \in [Items -> Row] /\ changes \in Seq(Change) /\ trouble \in Nat
         /\ Len(Ops[At(c)]) \in Nat /\ DOMAIN Ops[At(c)] = 1 .. Len(Ops[At(c)])
         /\ PathsOf(At(c)) \subseteq Paths
         /\ call[c].pc \in Writing => Safe(At(c), disk, late)
         /\ call[c].pc \in Writing \ {"write"} => call[c].left \subseteq DOMAIN Ops[At(c)]
         /\ call[c].pc = "write" => call[c].k <= Len(Ops[At(c)])
<1>1. At(c) \in Items /\ Rev(c) \in Revisions /\ call[c] \in CallType
  BY Typed
<1>2. CallOK(call[c], disk, late)
  BY DEF PlanInv, CallsOK
<1> QED BY <1>1, <1>2, OpsFacts DEF PlanInv, TypeOK, Change, CallOK, At

LEMMA RecoverKeeps ==
  ASSUME PlanInv, NEW c \in Calls, Recover(c)
  PROVE  ApplyKeeps(c)
<1> DEFINE i == At(c)
           r == Rev(c)
<1>1. call[c].pc = "recover" /\ call[c].pc \notin Idling /\ UNCHANGED <<disk, late, draft, trouble, assent>>
  BY DEF Recover, Idling
<1>2. /\ i \in Items /\ r \in Revisions /\ call[c] \in CallType /\ disk \in [Paths -> Contents]
      /\ item \in [Items -> Row] /\ changes \in Seq(Change) /\ trouble \in Nat
  BY <1>1, Typed DEF Change, PlanInv, TypeOK
<1>3. NoneLost
  BY <1>1, QuietFiles
<1>4. /\ item' \in [Items -> Row] /\ plan' \in PlanStatus /\ call' \in [Calls -> CallType] /\ CallsOK'
      /\ changes' \in Seq(Change) /\ \A d \in Calls \ {c} : call'[d] = call[d]
  <2>1. CASE Continue(c, "check", Marked(i, "approved", "none"), {}) /\ UNCHANGED changes
    <3>1. Marked(i, "approved", "none") \in [Items -> Row]
      BY <1>2, RowsTyped DEF ItemStatus, VerificationStatus
    <3>2. item' \in [Items -> Row] /\ plan' \in PlanStatus /\ call' \in [Calls -> CallType] /\ CallsOK'
      BY <1>1, <1>3, <2>1, <3>1, ContinueKeeps
    <3> QED BY <1>2, <2>1, <3>2, Others
  <2>2. CASE Proceed(c, Marked(i, "verification_failed", "failed")) /\ UNCHANGED changes
    <3>1. Marked(i, "verification_failed", "failed") \in [Items -> Row]
      BY <1>2, RowsTyped DEF ItemStatus, VerificationStatus
    <3> QED BY <1>1, <1>2, <1>3, <2>2, <3>1, ProceedKeeps, Others
  <2>3. CASE /\ ~Some(i, r, "other")
             /\ Continue(c, "mend", item, {k \in DOMAIN Ops[i] : StateOf(i, Ops[i][k], r) = "after"})
             /\ UNCHANGED changes
    <3>1. Safe(At(c), disk', late')
      BY <1>1, <1>2, <2>3, KnownFiles DEF Safe
    <3>2. {k \in DOMAIN Ops[i] : StateOf(i, Ops[i][k], r) = "after"} \in SUBSET DOMAIN Ops[At(c)]
      OBVIOUS
    <3> HIDE DEF r
    <3> QED BY <1>1, <1>2, <1>3, <2>3, <3>1, <3>2, ContinueKeeps, Others
  <2>4. CASE \E n \in Nat : /\ Continue(c, "resume", [Marked(i, "verification_pending", "pending") EXCEPT ![i].change = n], {})
                            /\ changes' \in {changes, Recorded(i, r)}
    <3>1. PICK n \in Nat : /\ Continue(c, "resume", [Marked(i, "verification_pending", "pending") EXCEPT ![i].change = n], {})
                           /\ changes' \in {changes, Recorded(i, r)}
      BY <2>4
    <3>2. [Marked(i, "verification_pending", "pending") EXCEPT ![i].change = n] \in [Items -> Row]
      BY <1>2, RowsTyped DEF ItemStatus, VerificationStatus
    <3>3. changes' \in Seq(Change)
      BY <1>2, <3>1, RecordTyped
    <3> DEFINE rows == [Marked(i, "verification_pending", "pending") EXCEPT ![i].change = n]
    <3>4. rows \in [Items -> Row] /\ Continue(c, "resume", rows, {})
      BY <3>1, <3>2
    <3> HIDE DEF rows
    <3>5. item' \in [Items -> Row] /\ plan' \in PlanStatus /\ call' \in [Calls -> CallType] /\ CallsOK'
      BY <1>1, <1>3, <3>4, ContinueKeeps
    <3> QED BY <3>3, <3>4, <3>5, Others
  <2>5. ASSUME All(i, r, "after"),
               LET known == IF call[c].seen[i].change # 0 THEN {call[c].seen[i].change} ELSE Matching(i, r)
                   rows(n) == [Marked(i, "verification_pending", "pending") EXCEPT ![i].change = n]
               IN IF known # {}
                  THEN Continue(c, "resume", rows(Max(known)), {}) /\ UNCHANGED changes
                  ELSE Continue(c, "resume", rows(Len(changes) + 1), {}) /\ changes' = Recorded(i, r)
        PROVE  \E n \in Nat : /\ Continue(c, "resume", [Marked(i, "verification_pending", "pending") EXCEPT ![i].change = n], {})
                              /\ changes' \in {changes, Recorded(i, r)}
    <3> DEFINE known == IF call[c].seen[i].change # 0 THEN {call[c].seen[i].change} ELSE Matching(i, r)
    <3>1. known # {} => Max(known) \in Nat
      <4>1. CASE call[c].seen[i].change # 0
        <5>1. call[c].seen[i].change \in Nat
          BY <1>2 DEF CallType, Row
        <5>2. call[c].seen[i].change >= call[c].seen[i].change
          BY <5>1
        <5>3. Max({call[c].seen[i].change}) = call[c].seen[i].change
          BY <5>2 DEF Max
        <5> QED BY <4>1, <5>1, <5>3
      <4>2. CASE call[c].seen[i].change = 0
        <5>1. known = Matching(i, r) /\ Matching(i, r) \in SUBSET (1 .. Len(changes)) /\ Len(changes) \in Nat
          BY <1>2, <4>2 DEF Matching
        <5>2. known # {} => Max(known) \in 1 .. Len(changes)
          BY <5>1, MaxIn
        <5> QED BY <5>2
      <4> QED BY <4>1, <4>2
    <3> HIDE DEF i, r
    <3>2. CASE known # {}
      BY <2>5, <3>1, <3>2
    <3>3. CASE known = {}
      <4>1. /\ Continue(c, "resume", [Marked(i, "verification_pending", "pending") EXCEPT ![i].change = Len(changes) + 1], {})
            /\ changes' = Recorded(i, r)
        BY <2>5, <3>3
      <4>2. Len(changes) + 1 \in Nat
        BY <1>2
      <4> QED BY <4>1, <4>2
    <3> QED BY <3>2, <3>3
  <2> QED BY <2>1, <2>2, <2>3, <2>4, <2>5 DEF Recover
<1> QED BY <1>1, <1>2, <1>3, <1>4, StepKeeps

\* An operation is put back.
LEMMA PutBack ==
  ASSUME PlanInv, NEW c \in Calls, call[c].pc \in Writing, NEW k \in DOMAIN Ops[At(c)],
         Put(c, Restored(Ops[At(c)][k]), Touched(Ops[At(c)][k]))
  PROVE  disk' \in [Paths -> Contents] /\ NoneLost
<1>1. call[c].pc \notin Idling /\ 1 \in Revisions
  BY PlanAssumption DEF Writing, Idling, Revisions
<1>2. PICK D, ps : D = Restored(Ops[At(c)][k]) /\ Put(c, D, ps)
  OBVIOUS
<1>3. At(c) \in Items /\ disk \in [Paths -> Contents]
  BY <1>1, AtWork
<1>4. D \in [Paths -> Contents] /\ \A p \in Paths \ PathsOf(At(c)) : D[p] = disk[p]
  BY <1>1, <1>2, <1>3, OperationKeeps
<1>5. NoneLost
  BY <1>2, <1>4, PutKeeps
<1> QED BY <1>2, <1>4, <1>5 DEF Put

LEMMA MendKeeps ==
  ASSUME PlanInv, NEW c \in Calls, Mend(c)
  PROVE  ApplyKeeps(c)
<1> DEFINE i == At(c)
           k == Max(call[c].left)
<1>1. /\ call[c].pc = "mend" /\ call[c].pc \notin Idling /\ call[c].left # {}
      /\ UNCHANGED <<changes, draft, assent>>
  BY DEF Mend, Idling, history
<1>2. /\ i \in Items /\ call[c] \in CallType /\ disk \in [Paths -> Contents]
      /\ item \in [Items -> Row] /\ changes \in Seq(Change) /\ trouble \in Nat
  BY <1>1, Typed DEF Change, PlanInv, TypeOK
<1>3. call[c].pc \in Writing /\ call[c].left \subseteq DOMAIN Ops[i]
  BY <1>1, AtWork DEF Writing
<1>4. k \in DOMAIN Ops[i]
  BY <1>1, <1>2, <1>3, OpsFacts, MaxIn
<1>5. CASE /\ Put(c, Restored(Ops[i][k]), Touched(Ops[i][k]))
           /\ Continue(c, "mend", item, call[c].left \ {k})
           /\ UNCHANGED trouble
  <2>1. disk' \in [Paths -> Contents] /\ NoneLost
    BY <1>2, <1>3, <1>4, <1>5, PutBack
  <2>2. Safe(At(c), disk', late')
    BY <1>3, <2>1 DEF NoneLost, At
  <2>3. call[c].left \ {k} \in SUBSET DOMAIN Ops[At(c)]
    BY <1>3
  <2> HIDE DEF k
  <2>4. item' \in [Items -> Row] /\ plan' \in PlanStatus /\ call' \in [Calls -> CallType] /\ CallsOK'
    BY <1>1, <1>2, <1>5, <2>1, <2>2, <2>3, ContinueKeeps
  <2>5. \A d \in Calls \ {c} : call'[d] = call[d]
    BY <1>5, Others
  <2> QED BY <1>1, <1>2, <1>5, <2>1, <2>4, <2>5, StepKeeps
<1>6. CASE /\ Throw(c, Marked(i, "verification_failed", "failed"))
           /\ NoPut
           /\ trouble' \in Nat
  <2>1. NoneLost /\ Marked(i, "verification_failed", "failed") \in [Items -> Row] /\ UNCHANGED disk
    BY <1>2, <1>6, RowsTyped, QuietFiles DEF NoPut, ItemStatus, VerificationStatus
  <2>2. item' \in [Items -> Row] /\ plan' \in PlanStatus /\ call' \in [Calls -> CallType] /\ CallsOK'
    BY <1>1, <1>2, <1>6, <2>1, ThrowKeeps
  <2>3. \A d \in Calls \ {c} : call'[d] = call[d]
    BY <1>6, Others
  <2> QED BY <1>1, <1>2, <1>6, <2>1, <2>2, <2>3, StepKeeps
<1> QED BY <1>2, <1>5, <1>6 DEF Mend, Fault

\* The item is done with, and no file changes.
LEMMA LeaveKeeps ==
  ASSUME PlanInv, NEW c \in Calls, call[c].pc \notin Idling, NEW rows \in [Items -> Row],
         Proceed(c, rows) \/ Throw(c, rows),
         UNCHANGED <<disk, late, draft, assent>>, changes' \in Seq(Change), trouble' \in Nat
  PROVE  ApplyKeeps(c)
<1>1. NoneLost
  BY QuietFiles
<1>2. item' \in [Items -> Row] /\ plan' \in PlanStatus /\ call' \in [Calls -> CallType] /\ CallsOK'
  BY <1>1, ProceedKeeps, ThrowKeeps
<1>3. \A d \in Calls \ {c} : call'[d] = call[d]
  BY Others
<1>4. disk' \in [Paths -> Contents]
  BY DEF PlanInv, TypeOK
<1> QED BY <1>1, <1>2, <1>3, <1>4, StepKeeps

\* The call goes on with its item, writing known files or none.
LEMMA MoveKeeps ==
  ASSUME PlanInv, NEW c \in Calls, call[c].pc \notin Idling, NEW cl \in CallType,
         call' = [call EXCEPT ![c] = cl], CallOK(cl, disk', late'), NoneLost,
         disk' \in [Paths -> Contents], item' \in [Items -> Row], UNCHANGED <<plan, draft, assent>>,
         changes' \in Seq(Change), trouble' \in Nat
  PROVE  ApplyKeeps(c)
<1>1. call' \in [Calls -> CallType] /\ CallsOK'
  BY CallMoves
<1>2. \A d \in Calls \ {c} : call'[d] = call[d]
  BY DEF PlanInv, TypeOK
<1>3. plan' \in PlanStatus
  BY DEF PlanInv, TypeOK
<1> QED BY <1>1, <1>2, <1>3, StepKeeps

LEMMA MendedKeeps ==
  ASSUME PlanInv, NEW c \in Calls, Mended(c)
  PROVE  ApplyKeeps(c)
<1>1. /\ call[c].pc = "mend" /\ call[c].pc \notin Idling
      /\ UNCHANGED <<disk, late, changes, draft, trouble, assent>>
      /\ Continue(c, "check", Marked(At(c), "approved", "none"), {})
  BY DEF Mended, Idling, history
<1>2. Marked(At(c), "approved", "none") \in [Items -> Row] /\ NoneLost
  BY <1>1, AtWork, RowsTyped, QuietFiles DEF ItemStatus, VerificationStatus
<1>3. item' \in [Items -> Row] /\ plan' \in PlanStatus /\ call' \in [Calls -> CallType] /\ CallsOK'
  BY <1>1, <1>2, ContinueKeeps
<1>4. \A d \in Calls \ {c} : call'[d] = call[d]
  BY <1>1, Others
<1>5. disk' \in [Paths -> Contents] /\ changes' \in Seq(Change) /\ trouble' \in Nat
  BY <1>1, AtWork
<1> QED BY <1>1, <1>2, <1>3, <1>4, <1>5, StepKeeps

LEMMA CheckKeeps ==
  ASSUME PlanInv, NEW c \in Calls, Check(c)
  PROVE  ApplyKeeps(c)
<1> DEFINE i == At(c)
<1>1. /\ call[c].pc = "check" /\ call[c].pc \notin Idling
      /\ UNCHANGED <<disk, late, changes, draft, assent>>
  BY DEF Check, Idling
<1>2. changes' \in Seq(Change) /\ disk' \in [Paths -> Contents] /\ item \in [Items -> Row] /\ NoneLost
  BY <1>1, AtWork, QuietFiles
<1>3. trouble' \in Nat
  BY <1>1, AtWork DEF Check, Fault
<1>4. /\ Marked(i, "stale", "failed") \in [Items -> Row] /\ Blocked(i) \in [Items -> Row]
      /\ [Marked(i, "proposed", "none") EXCEPT ![i].over = TRUE] \in [Items -> Row]
      /\ Marked(i, "applying", "none") \in [Items -> Row]
  BY <1>2, RowsTyped DEF ItemStatus, VerificationStatus
<1>5. CASE \E rows \in [Items -> Row] : Proceed(c, rows)
  BY <1>1, <1>2, <1>3, <1>5, LeaveKeeps
<1>6. CASE /\ All(i, Rev(c), "before")
           /\ item' = Marked(i, "applying", "none")
           /\ call' = [call EXCEPT ![c].pc = "write", ![c].k = 0, ![c].spent = call[c].spent \cup {i}]
           /\ UNCHANGED <<plan, trouble>>
  <2> DEFINE cl == [call[c] EXCEPT !.pc = "write", !.k = 0, !.spent = call[c].spent \cup {i}]
  <2>1. call' = [call EXCEPT ![c] = cl]
    BY <1>6, Typed, <1>1
  <2>a. i \in Items /\ call[c] \in CallType /\ Rev(c) \in Revisions /\ Len(Ops[i]) \in Nat
    BY <1>1, AtWork
  <2>b. call[c].spent \cup {i} \in SUBSET Items
    BY <2>a DEF CallType
  <2>2. cl \in CallType /\ cl.pc = "write" /\ cl.at = i /\ cl.k = 0
    <3> HIDE DEF i
    <3> QED BY <2>a, <2>b DEF CallType, At, i
  <2> HIDE DEF cl
  <2>3. Safe(i, disk', late')
    <3>1. ~Some(i, Rev(c), "other")
      BY <1>6, AllKnown
    <3>2. \A p \in PathsOf(i) : disk[p] # Foreign
      BY <1>1, <2>a, <3>1, KnownFiles, AtWork
    <3> QED BY <1>1, <3>2 DEF Safe
  <2>4. CallOK(cl, disk', late')
    BY <2>a, <2>2, <2>3 DEF CallOK, Idling, Writing
  <2> QED BY <1>1, <1>2, <1>3, <1>4, <1>6, <2>1, <2>2, <2>4, MoveKeeps
<1> QED BY <1>4, <1>5, <1>6 DEF Check

\* A call that may write stays with its item and the files it knows.
LEMMA StaysKnown ==
  ASSUME PlanInv, NEW c \in Calls, call[c].pc \in Writing, NoneLost, NEW cl \in CallType,
         cl.at = At(c), cl.pc \notin Idling,
         cl.pc = "write" => cl.k <= Len(Ops[At(c)]),
         cl.pc \in Writing \ {"write"} => cl.left \subseteq DOMAIN Ops[At(c)]
  PROVE  CallOK(cl, disk', late')
<1>1. call[c].pc \notin Idling
  BY DEF Writing, Idling
<1>2. At(c) \in Items /\ Safe(At(c), disk', late')
  BY <1>1, AtWork DEF NoneLost, At
<1> QED BY <1>2 DEF CallOK

LEMMA WriteKeeps ==
  ASSUME PlanInv, NEW c \in Calls, Write(c)
  PROVE  ApplyKeeps(c)
<1> DEFINE i == At(c)
           k == call[c].k + 1
<1>1. /\ call[c].pc = "write" /\ call[c].pc \notin Idling /\ call[c].pc \in Writing
      /\ k \in DOMAIN Ops[i] /\ UNCHANGED <<plan, item, changes, draft, assent>>
  BY DEF Write, Idling, Writing, history
<1>2. /\ i \in Items /\ Rev(c) \in Revisions /\ call[c] \in CallType /\ disk \in [Paths -> Contents]
      /\ item \in [Items -> Row] /\ changes \in Seq(Change) /\ trouble \in Nat
      /\ Len(Ops[i]) \in Nat /\ DOMAIN Ops[i] = 1 .. Len(Ops[i])
      /\ call[c].k <= Len(Ops[i])
  BY <1>1, AtWork
<1>3. call[c].k \in Nat
  BY <1>2 DEF CallType
<1>4. CASE /\ Put(c, Performed(i, Ops[i][k], Rev(c)), Touched(Ops[i][k]))
           /\ call' = [call EXCEPT ![c].k = k]
           /\ UNCHANGED trouble
  <2> DEFINE cl == [call[c] EXCEPT !.k = k]
  <2>1. disk' \in [Paths -> Contents] /\ NoneLost
    <3> HIDE DEF k
    <3>1. PICK D, ps : D = Performed(i, Ops[i][k], Rev(c)) /\ Put(c, D, ps)
      BY <1>4
    <3>2. D \in [Paths -> Contents] /\ \A p \in Paths \ PathsOf(i) : D[p] = disk[p]
      BY <1>1, <1>2, <3>1, OperationKeeps
    <3>3. NoneLost
      BY <1>1, <3>1, <3>2, PutKeeps
    <3> QED BY <3>1, <3>2, <3>3 DEF Put
  <2>2. cl \in CallType /\ cl.pc = "write" /\ cl.at = i /\ cl.k = k
    BY <1>1, <1>2, <1>3 DEF CallType, At
  <2>3. call' = [call EXCEPT ![c] = cl]
    BY <1>4
  <2>4. k <= Len(Ops[i])
    BY <1>1, <1>2
  <2> HIDE DEF cl, k, i
  <2>5. CallOK(cl, disk', late')
    BY <1>1, <2>1, <2>2, <2>4, StaysKnown DEF i, Idling
  <2> QED BY <1>1, <1>2, <1>4, <2>1, <2>2, <2>3, <2>5, MoveKeeps
<1>5. CASE /\ call' = [call EXCEPT ![c].pc = "restore", ![c].left = 1 .. call[c].k]
           /\ NoPut /\ trouble' \in Nat
  <2> DEFINE cl == [call[c] EXCEPT !.pc = "restore", !.left = 1 .. call[c].k]
  <2>1. NoneLost /\ UNCHANGED disk
    BY <1>5, QuietFiles DEF NoPut
  <2>a. 1 .. call[c].k \in SUBSET Nat /\ 1 .. call[c].k \subseteq DOMAIN Ops[i]
    BY <1>1, <1>2, <1>3
  <2>2. cl \in CallType /\ cl.pc = "restore" /\ cl.at = i /\ cl.left \subseteq DOMAIN Ops[i]
    BY <1>2, <2>a DEF CallType, At
  <2>3. call' = [call EXCEPT ![c] = cl]
    BY <1>5, <1>2, Typed, <1>1
  <2> HIDE DEF cl, k, i
  <2>5. CallOK(cl, disk', late')
    BY <1>1, <2>1, <2>2, StaysKnown DEF i, Idling
  <2> QED BY <1>1, <1>2, <1>5, <2>1, <2>2, <2>3, <2>5, MoveKeeps
<1>6. trouble' \in Nat
  BY <1>2 DEF Write, Fault
<1> QED BY <1>4, <1>5, <1>6 DEF Write

LEMMA RecordKeeps ==
  ASSUME PlanInv, NEW c \in Calls, Record(c)
  PROVE  ApplyKeeps(c)
<1> DEFINE i == At(c)
           n == Len(changes) + 1
<1>1. /\ call[c].pc = "write" /\ call[c].pc \notin Idling /\ call[c].pc \in Writing
      /\ UNCHANGED <<disk, late, plan, draft, assent>>
  BY DEF Record, Idling, Writing, history
<1>2. /\ i \in Items /\ Rev(c) \in Revisions /\ call[c] \in CallType /\ disk' \in [Paths -> Contents]
      /\ item \in [Items -> Row] /\ changes \in Seq(Change) /\ trouble \in Nat
      /\ DOMAIN Ops[i] \subseteq Nat
  BY <1>1, AtWork, OpsFacts
<1>3. NoneLost /\ trouble' \in Nat
  BY <1>1, <1>2, QuietFiles DEF Record, Fault
<1>4. CASE /\ changes' = Recorded(i, Rev(c))
           /\ item' = [item EXCEPT ![i].change = n]
           /\ call' = [call EXCEPT ![c].pc = "index", ![c].seen[i].change = n]
  <2>1. n \in Nat /\ changes' \in Seq(Change)
    BY <1>2, <1>4, RecordTyped
  <2> HIDE DEF n
  <2>2. item' \in [Items -> Row]
    BY <1>2, <1>4, <2>1 DEF Row
  <2> DEFINE seen == [call[c].seen EXCEPT ![i].change = n]
             cl == [call[c] EXCEPT !.pc = "index", !.seen = seen]
  <2>3. seen \in [Items -> Row]
    <3>1. call[c].seen \in [Items -> Row]
      BY <1>2 DEF CallType
    <3> QED BY <2>1, <3>1 DEF Row
  <2>4. call' = [call EXCEPT ![c] = cl]
    BY <1>4, <1>2, Typed, <1>1
  <2> HIDE DEF seen
  <2>5. cl \in CallType /\ cl.pc = "index" /\ cl.at = i
    BY <1>2, <2>3 DEF CallType, At
  <2> HIDE DEF cl, i
  <2>6. CallOK(cl, disk', late')
    BY <1>1, <1>3, <2>5, StaysKnown DEF i, Idling, Writing
  <2> QED BY <1>1, <1>2, <1>3, <2>1, <2>2, <2>4, <2>5, <2>6, MoveKeeps
<1>5. CASE /\ call' = [call EXCEPT ![c].pc = "restore", ![c].left = DOMAIN Ops[i]]
           /\ UNCHANGED <<changes, item>>
  <2> DEFINE cl == [call[c] EXCEPT !.pc = "restore", !.left = DOMAIN Ops[i]]
  <2>1. cl \in CallType /\ cl.pc = "restore" /\ cl.at = i /\ cl.left = DOMAIN Ops[i]
    BY <1>1, <1>2 DEF CallType, At
  <2>2. call' = [call EXCEPT ![c] = cl]
    BY <1>5, <1>2, Typed, <1>1
  <2> HIDE DEF cl, i
  <2>3. CallOK(cl, disk', late')
    BY <1>1, <1>3, <2>1, StaysKnown DEF i, Idling
  <2> QED BY <1>1, <1>2, <1>3, <1>5, <2>1, <2>2, <2>3, MoveKeeps
<1> QED BY <1>4, <1>5 DEF Record

\* One operation is put back.
LEMMA PutBackKeeps ==
  ASSUME PlanInv, NEW c \in Calls, call[c].pc \in {"restore", "undo"}, call[c].left # {},
         Put(c, Restored(Ops[At(c)][Max(call[c].left)]), Touched(Ops[At(c)][Max(call[c].left)])),
         call' = [call EXCEPT ![c].left = call[c].left \ {Max(call[c].left)}],
         UNCHANGED <<plan, item, trouble, changes, draft, assent>>
  PROVE  ApplyKeeps(c)
<1> DEFINE i == At(c)
           k == Max(call[c].left)
           cl == [call[c] EXCEPT !.left = call[c].left \ {k}]
<1>1. call[c].pc \notin Idling /\ call[c].pc \in Writing /\ call[c].pc \in Writing \ {"write"}
  BY DEF Idling, Writing
<1>2. /\ i \in Items /\ Rev(c) \in Revisions /\ call[c] \in CallType /\ disk \in [Paths -> Contents]
      /\ item \in [Items -> Row] /\ changes \in Seq(Change) /\ trouble \in Nat
      /\ Len(Ops[i]) \in Nat /\ DOMAIN Ops[i] = 1 .. Len(Ops[i])
      /\ call[c].left \subseteq DOMAIN Ops[i]
  BY <1>1, AtWork
<1>3. k \in DOMAIN Ops[i]
  BY <1>2, MaxIn
<1>4. call' = [call EXCEPT ![c] = cl]
  BY <1>2, Typed, <1>1
<1>5. disk' \in [Paths -> Contents] /\ NoneLost
  BY <1>1, <1>3, PutBack
<1> HIDE DEF k
<1>6. cl \in CallType /\ cl.pc = call[c].pc /\ cl.at = i /\ cl.left \subseteq DOMAIN Ops[i]
  BY <1>2 DEF CallType, At
<1> HIDE DEF cl, i
<1>7. CallOK(cl, disk', late')
  BY <1>1, <1>5, <1>6, StaysKnown DEF i, Idling
<1> QED BY <1>1, <1>2, <1>4, <1>5, <1>6, <1>7, MoveKeeps

LEMMA RestoreKeeps ==
  ASSUME PlanInv, NEW c \in Calls, Restore(c)
  PROVE  ApplyKeeps(c)
<1>1. /\ call[c].pc = "restore" /\ call[c].pc \notin Idling /\ call[c].left # {}
      /\ UNCHANGED <<changes, draft, assent>>
  BY DEF Restore, Idling, history
<1>2. item \in [Items -> Row] /\ changes' \in Seq(Change) /\ trouble \in Nat
  BY <1>1, AtWork
<1>3. CASE /\ Put(c, Restored(Ops[At(c)][Max(call[c].left)]), Touched(Ops[At(c)][Max(call[c].left)]))
           /\ call' = [call EXCEPT ![c].left = call[c].left \ {Max(call[c].left)}]
           /\ UNCHANGED <<plan, item, trouble>>
  BY <1>1, <1>3, PutBackKeeps
<1>4. CASE /\ trouble' \in Nat
           /\ Throw(c, Marked(At(c), "verification_failed", "failed"))
           /\ NoPut
  <2>1. Marked(At(c), "verification_failed", "failed") \in [Items -> Row]
    BY <1>2, RowsTyped DEF ItemStatus, VerificationStatus
  <2>2. UNCHANGED <<disk, late>>
    BY <1>4 DEF NoPut
  <2> QED BY <1>1, <1>2, <1>4, <2>1, <2>2, LeaveKeeps
<1>5. trouble' \in Nat
  BY <1>2 DEF Restore, Fault
<1> QED BY <1>3, <1>4, <1>5 DEF Restore

LEMMA GiveUpKeeps ==
  ASSUME PlanInv, NEW c \in Calls, GiveUp(c)
  PROVE  ApplyKeeps(c)
<1>1. /\ call[c].pc = "restore" /\ call[c].pc \notin Idling /\ Proceed(c, Blocked(At(c)))
      /\ UNCHANGED <<disk, late, changes, draft, trouble, assent>>
  BY DEF GiveUp, Idling, history
<1>2. Blocked(At(c)) \in [Items -> Row] /\ changes' \in Seq(Change) /\ trouble' \in Nat
  BY <1>1, AtWork, RowsTyped
<1> QED BY <1>1, <1>2, LeaveKeeps

LEMMA ResumeKeeps ==
  ASSUME PlanInv, NEW c \in Calls, Resume(c)
  PROVE  ApplyKeeps(c)
<1>1. /\ call[c].pc = "resume" /\ call[c].pc \notin Idling
      /\ UNCHANGED <<disk, late, changes, draft, trouble, assent>>
  BY DEF Resume, Idling
<1>2. /\ item \in [Items -> Row] /\ changes' \in Seq(Change) /\ trouble' \in Nat
      /\ disk' \in [Paths -> Contents] /\ NoneLost
  BY <1>1, AtWork, QuietFiles
<1>3. CASE Continue(c, "index", item, {})
  <2>1. item' \in [Items -> Row] /\ plan' \in PlanStatus /\ call' \in [Calls -> CallType] /\ CallsOK'
    BY <1>1, <1>2, <1>3, ContinueKeeps
  <2>2. \A d \in Calls \ {c} : call'[d] = call[d]
    BY <1>3, Others
  <2> QED BY <1>1, <1>2, <2>1, <2>2, StepKeeps
<1>4. CASE Proceed(c, Marked(At(c), "verification_failed", "failed"))
  <2>1. Marked(At(c), "verification_failed", "failed") \in [Items -> Row]
    BY <1>2, RowsTyped DEF ItemStatus, VerificationStatus
  <2> QED BY <1>1, <1>2, <1>4, <2>1, LeaveKeeps
<1> QED BY <1>3, <1>4 DEF Resume

LEMMA IndexKeeps ==
  ASSUME PlanInv, NEW c \in Calls, Index(c)
  PROVE  ApplyKeeps(c)
<1>1. /\ call[c].pc = "index" /\ call[c].pc \notin Idling
      /\ UNCHANGED <<disk, late, changes, draft, assent>>
  BY DEF Index, Idling, history
<1>2. /\ At(c) \in Items /\ call[c] \in CallType /\ item \in [Items -> Row] /\ changes' \in Seq(Change)
      /\ disk' \in [Paths -> Contents] /\ NoneLost /\ trouble \in Nat
  BY <1>1, AtWork, QuietFiles
<1>3. trouble' \in Nat
  BY <1>2 DEF Index, Fault
<1>4. CASE call' = [call EXCEPT ![c].pc = "verify"] /\ UNCHANGED <<plan, item, trouble>>
  <2> DEFINE cl == [call[c] EXCEPT !.pc = "verify"]
  <2>1. cl \in CallType /\ cl.pc = "verify" /\ cl.at = At(c)
    BY <1>2 DEF CallType, At
  <2>2. call' = [call EXCEPT ![c] = cl]
    BY <1>4
  <2>3. CallOK(cl, disk', late')
    BY <1>2, <2>1 DEF CallOK, Idling, Writing
  <2> HIDE DEF cl
  <2> QED BY <1>1, <1>2, <1>3, <1>4, <2>1, <2>2, <2>3, MoveKeeps
<1>5. CASE Proceed(c, Marked(At(c), "verification_pending", "pending"))
  <2>1. Marked(At(c), "verification_pending", "pending") \in [Items -> Row]
    BY <1>2, RowsTyped DEF ItemStatus, VerificationStatus
  <2> QED BY <1>1, <1>2, <1>3, <1>5, <2>1, LeaveKeeps
<1> QED BY <1>4, <1>5 DEF Index

LEMMA VerifyKeeps ==
  ASSUME PlanInv, NEW c \in Calls, Verify(c)
  PROVE  ApplyKeeps(c)
<1> DEFINE i == At(c)
<1>1. /\ call[c].pc = "verify" /\ call[c].pc \notin Idling
      /\ UNCHANGED <<disk, late, changes, draft, assent>>
  BY DEF Verify, Idling, history
<1>2. /\ i \in Items /\ Rev(c) \in Revisions /\ call[c] \in CallType /\ item \in [Items -> Row]
      /\ changes' \in Seq(Change) /\ disk \in [Paths -> Contents] /\ disk' \in [Paths -> Contents]
      /\ NoneLost /\ trouble \in Nat /\ DOMAIN Ops[i] \subseteq Nat
  BY <1>1, AtWork, OpsFacts, QuietFiles
<1>3. trouble' \in Nat
  BY <1>2 DEF Verify, Fault
<1>4. CASE \E s \in ItemStatus, proof \in VerificationStatus : Proceed(c, Marked(i, s, proof))
  <2>1. PICK s \in ItemStatus, proof \in VerificationStatus : Proceed(c, Marked(i, s, proof))
    BY <1>4
  <2>2. Marked(i, s, proof) \in [Items -> Row]
    BY <1>2, RowsTyped
  <2> QED BY <1>1, <1>2, <1>3, <2>1, <2>2, LeaveKeeps
<1>5. CASE /\ All(i, Rev(c), "after")
           /\ call' = [call EXCEPT ![c].pc = "undo", ![c].left = DOMAIN Ops[i]]
           /\ UNCHANGED <<plan, item>>
  <2> DEFINE cl == [call[c] EXCEPT !.pc = "undo", !.left = DOMAIN Ops[i]]
  <2>1. cl \in CallType /\ cl.pc = "undo" /\ cl.at = i /\ cl.left = DOMAIN Ops[i]
    BY <1>2 DEF CallType, At
  <2>2. call' = [call EXCEPT ![c] = cl]
    BY <1>5, <1>2, Typed, <1>1
  <2>3. ~Some(i, Rev(c), "other")
    BY <1>5, AllKnown
  <2>4. \A p \in PathsOf(i) : disk[p] # Foreign
    BY <1>2, <2>3, KnownFiles
  <2> HIDE DEF cl
  <2>5. CallOK(cl, disk', late')
    BY <1>1, <1>2, <2>1, <2>4 DEF CallOK, Idling, Writing, Safe
  <2> QED BY <1>1, <1>2, <1>3, <1>5, <2>1, <2>2, <2>5, MoveKeeps
<1>6. "applied" \in ItemStatus /\ "verification_failed" \in ItemStatus
      /\ "passed" \in VerificationStatus /\ "failed" \in VerificationStatus
  BY DEF ItemStatus, VerificationStatus
<1> QED BY <1>4, <1>5, <1>6 DEF Verify

LEMMA UndoKeeps ==
  ASSUME PlanInv, NEW c \in Calls, Undo(c)
  PROVE  ApplyKeeps(c)
<1> DEFINE i == At(c)
<1>1. /\ call[c].pc = "undo" /\ call[c].pc \notin Idling /\ call[c].left # {}
      /\ UNCHANGED <<changes, draft, assent>>
  BY DEF Undo, Idling, history
<1>2. /\ i \in Items /\ Rev(c) \in Revisions /\ disk \in [Paths -> Contents] /\ item \in [Items -> Row]
      /\ changes' \in Seq(Change) /\ trouble \in Nat /\ call[c].pc \in Writing
  BY <1>1, AtWork DEF Writing
<1>3. trouble' \in Nat
  BY <1>2 DEF Undo, Fault
<1>4. CASE /\ Put(c, Restored(Ops[i][Max(call[c].left)]), Touched(Ops[i][Max(call[c].left)]))
           /\ call' = [call EXCEPT ![c].left = call[c].left \ {Max(call[c].left)}]
           /\ UNCHANGED <<plan, item, trouble>>
  BY <1>1, <1>4, PutBackKeeps
<1>5. CASE /\ \E ps : Put(c, Redone(i, Rev(c), DOMAIN Ops[i] \ call[c].left), ps)
           /\ Proceed(c, Marked(i, "verification_failed", "failed"))
  <2>1. disk' \in [Paths -> Contents] /\ NoneLost
    <3> DEFINE ks == DOMAIN Ops[i] \ call[c].left
               r == Rev(c)
    <3>1. ks \in SUBSET DOMAIN Ops[i] /\ r \in Revisions /\ i \in Items
      BY <1>2
    <3>2. PICK D, ps : D = Redone(i, r, ks) /\ Put(c, D, ps)
      BY <1>5
    <3> HIDE DEF ks, r
    <3>3. D \in [Paths -> Contents] /\ \A p \in Paths \ PathsOf(i) : D[p] = disk[p]
      BY <1>2, <3>1, <3>2, RedoneKeeps
    <3>4. NoneLost
      BY <1>2, <3>2, <3>3, PutKeeps
    <3> QED BY <3>2, <3>3, <3>4 DEF Put
  <2>2. Marked(i, "verification_failed", "failed") \in [Items -> Row]
    BY <1>2, RowsTyped DEF ItemStatus, VerificationStatus
  <2> DEFINE rows == Marked(i, "verification_failed", "failed")
  <2>3. rows \in [Items -> Row] /\ Proceed(c, rows)
    BY <1>5, <2>2
  <2> HIDE DEF rows
  <2>4. item' \in [Items -> Row] /\ plan' \in PlanStatus /\ call' \in [Calls -> CallType] /\ CallsOK'
    BY <1>1, <2>1, <2>3, ProceedKeeps
  <2>5. \A d \in Calls \ {c} : call'[d] = call[d]
    BY <2>3, Others
  <2> QED BY <1>1, <1>2, <1>3, <2>1, <2>4, <2>5, StepKeeps
<1> QED BY <1>4, <1>5 DEF Undo

LEMMA UndoneKeeps ==
  ASSUME PlanInv, NEW c \in Calls, Undone(c)
  PROVE  ApplyKeeps(c)
<1>1. /\ call[c].pc = "undo" /\ call[c].pc \notin Idling
      /\ UNCHANGED <<disk, late, plan, item, draft, trouble, assent>>
      /\ changes' = [changes EXCEPT ![call[c].seen[At(c)].change].undone = TRUE]
      /\ call' = [call EXCEPT ![c].pc = "reindex"]
  BY DEF Undone, Idling, history
<1>2. /\ At(c) \in Items /\ call[c] \in CallType /\ item' \in [Items -> Row] /\ changes \in Seq(Change)
      /\ disk' \in [Paths -> Contents] /\ NoneLost /\ trouble' \in Nat
  BY <1>1, AtWork, QuietFiles
<1>3. changes' \in Seq(Change)
  <2> DEFINE n == call[c].seen[At(c)].change
  <2>1. changes' = [changes EXCEPT ![n].undone = TRUE]
    BY <1>1
  <2> HIDE DEF n
  <2>2. CASE n \in 1 .. Len(changes)
    <3> DEFINE e == [changes[n] EXCEPT !.undone = TRUE]
    <3>1. changes[n] \in Change
      BY <1>2, <2>2
    <3>2. e \in Change
      BY <3>1 DEF Change
    <3>3. changes' = [changes EXCEPT ![n] = e]
      BY <2>1
    <3> HIDE DEF e
    <3> QED BY <1>2, <2>2, <3>2, <3>3, ExceptSeq
  <2>3. CASE n \notin 1 .. Len(changes)
    <3>1. DOMAIN changes = 1 .. Len(changes) /\ changes = [m \in DOMAIN changes |-> changes[m]]
      BY <1>2
    <3>2. changes' = changes
      BY <2>1, <2>3, <3>1
    <3> QED BY <1>2, <3>2
  <2> QED BY <2>2, <2>3
<1> DEFINE cl == [call[c] EXCEPT !.pc = "reindex"]
<1>5. cl \in CallType /\ cl.pc = "reindex" /\ cl.at = At(c)
  BY <1>2 DEF CallType, At
<1>6. call' = [call EXCEPT ![c] = cl]
  BY <1>1
<1>7. CallOK(cl, disk', late')
  BY <1>2, <1>5 DEF CallOK, Idling, Writing
<1> HIDE DEF cl
<1> QED BY <1>1, <1>2, <1>3, <1>5, <1>6, <1>7, MoveKeeps

LEMMA ReindexKeeps ==
  ASSUME PlanInv, NEW c \in Calls, Reindex(c)
  PROVE  ApplyKeeps(c)
<1>1. /\ call[c].pc = "reindex" /\ call[c].pc \notin Idling
      /\ UNCHANGED <<disk, late, changes, draft, assent>>
  BY DEF Reindex, Idling, history
<1>2. PICK proof \in {"rolled_back", "failed"} : Proceed(c, Marked(At(c), "verification_failed", proof))
  <2>1. CASE Proceed(c, Marked(At(c), "verification_failed", "rolled_back"))
    BY <2>1
  <2>2. CASE Proceed(c, Marked(At(c), "verification_failed", "failed"))
    BY <2>2
  <2> QED BY <2>1, <2>2 DEF Reindex
<1>3. Marked(At(c), "verification_failed", proof) \in [Items -> Row]
  <2>1. item \in [Items -> Row] /\ "verification_failed" \in ItemStatus /\ proof \in VerificationStatus
    BY <1>1, AtWork DEF ItemStatus, VerificationStatus
  <2> QED BY <2>1, RowsTyped
<1>4. changes' \in Seq(Change) /\ trouble' \in Nat
  BY <1>1, AtWork DEF Reindex, Fault
<1> QED BY <1>1, <1>2, <1>3, <1>4, LeaveKeeps

LEMMA ApplyStepKeeps ==
  ASSUME PlanInv, NEW c \in Calls, ApplyStep(c)
  PROVE  ApplyKeeps(c)
BY RecoverKeeps, MendKeeps, MendedKeeps, CheckKeeps, WriteKeeps, RecordKeeps, RestoreKeeps, GiveUpKeeps,
   ResumeKeeps, IndexKeeps, VerifyKeeps, UndoKeeps, UndoneKeeps, ReindexKeeps DEF ApplyStep

-----------------------------------------------------------------------------
(* The other operations on the plan *)

Actors == {"human", "curator"}

ForeignStays == \A p \in Paths \ late : disk[p] = Foreign => disk'[p] = Foreign

\* A step that touches neither the files nor the calls.
LEMMA RowsKeep ==
  ASSUME PlanInv, UNCHANGED <<disk, call, late>>, plan' \in PlanStatus, item' \in [Items -> Row],
         changes' = changes, draft' \in [Actors -> [at : Items \cup {0}, row : Row]], DraftsOK',
         trouble' \in Nat, assent' \in [Items -> 0 .. MaxRevision]
  PROVE  PlanInv' /\ ForeignStays
<1>1. CallsOK'
  BY DEF PlanInv, CallsOK, CallOK
<1> QED BY <1>1 DEF PlanInv, TypeOK, Actors, ForeignStays

LEMMA DecideKeeps ==
  ASSUME PlanInv, NEW i \in Items, NEW s \in {"approved", "rejected"}, NEW a, Decide(i, s, a)
  PROVE  PlanInv' /\ ForeignStays /\ UNCHANGED call
<1>1. UNCHANGED <<disk, changes, call, draft, trouble, late>>
  BY DEF Decide
<1>2. item' \in [Items -> Row] /\ plan' \in PlanStatus
  <2>1. item \in [Items -> Row] /\ s \in ItemStatus
    BY DEF PlanInv, TypeOK, ItemStatus
  <2>2. item' = Decided(i, s) /\ plan' = StatusAfterDecision(Decided(i, s))
    BY DEF Decide, Redecide
  <2> QED BY <2>1, <2>2, RowsTyped, StatusTyped
<1>3. assent' \in [Items -> 0 .. MaxRevision]
  <2>1. item[i].rev \in 0 .. MaxRevision /\ 0 \in 0 .. MaxRevision /\ assent \in [Items -> 0 .. MaxRevision]
    BY PlanAssumption DEF PlanInv, TypeOK, Row, Revisions
  <2>2. CASE s = "approved" /\ (a = "human" \/ i \in AutoItems)
    <3>1. assent' = [assent EXCEPT ![i] = item[i].rev]
      BY <2>2 DEF Decide
    <3> QED BY <2>1, <3>1
  <2>3. CASE ~(s = "approved" /\ (a = "human" \/ i \in AutoItems))
    <3>1. assent' = [assent EXCEPT ![i] = 0]
      BY <2>3 DEF Decide
    <3> QED BY <2>1, <3>1
  <2> QED BY <2>2, <2>3
<1>4. DraftsOK' /\ draft' \in [Actors -> [at : Items \cup {0}, row : Row]] /\ trouble' \in Nat
  BY <1>1 DEF PlanInv, DraftsOK, TypeOK, Actors
<1> QED BY <1>1, <1>2, <1>3, <1>4, RowsKeep

\* A revision goes into preflight, or no longer is.
LEMMA DraftKeeps ==
  ASSUME PlanInv, NEW a \in Actors, NEW i \in Items \cup {0}, NEW row \in Row,
         row.rev < MaxRevision, i \in Items,
         draft' = [draft EXCEPT ![a] = [at |-> i, row |-> row]],
         UNCHANGED <<disk, plan, item, changes, call, trouble, assent, late>>
  PROVE  PlanInv' /\ ForeignStays
<1>1. draft \in [Actors -> [at : Items \cup {0}, row : Row]]
  BY DEF PlanInv, TypeOK, Actors
<1>2. draft' \in [Actors -> [at : Items \cup {0}, row : Row]]
  BY <1>1
<1>3. DraftsOK'
  <2> SUFFICES ASSUME NEW b \in Actors, draft'[b] # NoDraft
               PROVE  draft'[b].at \in Items /\ draft'[b].row.rev < MaxRevision
    BY DEF DraftsOK, Actors
  <2>1. CASE b = a
    BY <1>1, <2>1
  <2>2. CASE b # a
    BY <1>1, <2>2 DEF PlanInv, DraftsOK, Actors
  <2> QED BY <2>1, <2>2
<1> QED BY <1>2, <1>3, RowsKeep DEF PlanInv, TypeOK

LEMMA StartRevisionKeeps ==
  ASSUME PlanInv, NEW i \in Items, StartRevision(i)
  PROVE  PlanInv' /\ ForeignStays
<1>1. item[i] \in Row /\ "human" \in Actors /\ item[i].rev < MaxRevision
  BY DEF PlanInv, TypeOK, Actors, StartRevision
<1> QED BY <1>1, DraftKeeps DEF StartRevision, history

LEMMA DropDraft ==
  ASSUME PlanInv, NEW a \in Actors, draft' = [draft EXCEPT ![a] = NoDraft]
  PROVE  draft' \in [Actors -> [at : Items \cup {0}, row : Row]] /\ DraftsOK'
<1>1. draft \in [Actors -> [at : Items \cup {0}, row : Row]]
  BY DEF PlanInv, TypeOK, Actors
<1>2. NoDraft \in [at : Items \cup {0}, row : Row]
  BY NewRows DEF NoDraft, NewRowTyped
<1>3. DraftsOK'
  <2> SUFFICES ASSUME NEW b \in Actors, draft'[b] # NoDraft
               PROVE  draft'[b].at \in Items /\ draft'[b].row.rev < MaxRevision
    BY DEF DraftsOK, Actors
  <2>1. b # a /\ draft'[b] = draft[b]
    BY <1>1
  <2> QED BY <2>1 DEF PlanInv, DraftsOK, Actors
<1> QED BY <1>1, <1>2, <1>3

LEMMA SealKeeps ==
  ASSUME PlanInv, NEW a \in Actors, draft[a] # NoDraft, ~SealRefused(a),
         Redecide(Revised(draft[a].at)), assent' = [assent EXCEPT ![draft[a].at] = 0],
         draft' = [draft EXCEPT ![a] = NoDraft], UNCHANGED <<disk, changes, call, trouble, late>>
  PROVE  PlanInv' /\ ForeignStays
<1> DEFINE i == draft[a].at
<1>1. i \in Items /\ draft[a].row.rev < MaxRevision /\ item \in [Items -> Row]
      /\ assent \in [Items -> 0 .. MaxRevision]
      /\ assent' = [assent EXCEPT ![i] = 0]
  BY DEF PlanInv, DraftsOK, Actors, TypeOK
<1>2. item[i].rev < MaxRevision
  BY <1>1 DEF SealRefused
<1>b. item' = Revised(i) /\ plan' = StatusAfterDecision(Revised(i))
  BY DEF Redecide
<1> HIDE DEF i
<1>3. Revised(i) \in [Items -> Row]
  <2>1. item[i].rev + 1 \in Revisions
    BY <1>1, <1>2, PlanAssumption DEF Row, Revisions
  <2>2. [NewRow EXCEPT !.rev = item[i].rev + 1] \in Row
    BY <2>1, NewRows DEF NewRowTyped, Row
  <2> QED BY <1>1, <2>2 DEF Revised
<1>4. item' \in [Items -> Row] /\ plan' \in PlanStatus
  BY <1>b, <1>3, StatusTyped
<1>5. assent' \in [Items -> 0 .. MaxRevision]
  <2>1. 0 \in 0 .. MaxRevision
    BY PlanAssumption
  <2> QED BY <1>1, <2>1
<1>6. draft' \in [Actors -> [at : Items \cup {0}, row : Row]] /\ DraftsOK'
  BY DropDraft
<1> QED BY <1>4, <1>5, <1>6, RowsKeep DEF PlanInv, TypeOK

LEMMA HumanSealKeeps ==
  ASSUME PlanInv, Seal
  PROVE  PlanInv' /\ ForeignStays
<1>1. "human" \in Actors /\ draft["human"] # NoDraft /\ draft' = [draft EXCEPT !["human"] = NoDraft]
      /\ UNCHANGED <<disk, changes, call, trouble, late>>
  BY DEF Seal, Actors
<1>2. CASE SealRefused("human")
  <2>1. UNCHANGED <<item, plan, assent>>
    BY <1>2 DEF Seal
  <2>2. draft' \in [Actors -> [at : Items \cup {0}, row : Row]] /\ DraftsOK'
    BY <1>1, DropDraft
  <2> QED BY <1>1, <2>1, <2>2, RowsKeep DEF PlanInv, TypeOK
<1>3. CASE ~SealRefused("human")
  <2>1. Redecide(Revised(draft["human"].at)) /\ assent' = [assent EXCEPT ![draft["human"].at] = 0]
    BY <1>3 DEF Seal
  <2> QED BY <1>1, <1>3, <2>1, SealKeeps
<1> QED BY <1>2, <1>3

LEMMA SupersedeKeeps ==
  ASSUME PlanInv, NEW busy, Supersede(busy)
  PROVE  PlanInv' /\ ForeignStays
<1>1. plan' = "superseded" /\ UNCHANGED <<disk, item, changes, call, draft, trouble, assent, late>>
  BY DEF Supersede
<1>2. plan' \in PlanStatus /\ DraftsOK'
  BY <1>1 DEF PlanStatus, Terminal, PlanInv, DraftsOK
<1> QED BY <1>1, <1>2, RowsKeep DEF PlanInv, TypeOK, Actors

LEMMA BeginKeeps ==
  ASSUME PlanInv, NEW c \in Calls, NEW only \in SUBSET Items, Begin(c, only),
         UNCHANGED <<disk, item, changes, draft, trouble, assent, late>>
  PROVE  PlanInv' /\ ForeignStays
<1> DEFINE open == {j \in only : item[j].status \in Open}
           i == Min(open)
           cl == [pc |-> Entry(item[i].status), at |-> i, k |-> 0, left |-> {}, only |-> only,
                  seen |-> [j \in Items |-> IF j \in only THEN item[j] ELSE NewRow], spent |-> call[c].spent]
<1>1. plan' = "applying" /\ call' = [call EXCEPT ![c] = cl] /\ open # {}
  BY DEF Begin, Applicable
<1>2. i \in Items
  <2>1. open \subseteq Items /\ Items \subseteq Nat
    BY OpsFacts
  <2> HIDE DEF open
  <2> QED BY <1>1, <2>1, MinIn
<1>3. cl \in CallType
  <2>1. [j \in Items |-> IF j \in only THEN item[j] ELSE NewRow] \in [Items -> Row]
    BY NewRows DEF NewRowTyped, PlanInv, TypeOK
  <2>2. call[c].spent \in SUBSET Items
    BY DEF PlanInv, TypeOK, CallType
  <2> HIDE DEF i
  <2> QED BY <1>2, <2>1, <2>2, EntryPc DEF CallType
<1>4. CallOK(cl, disk', late')
  <2>1. cl.pc \in {"check", "recover", "resume"} /\ cl.at \in Items
    BY <1>2, EntryPc
  <2> HIDE DEF cl
  <2> QED BY <2>1 DEF CallOK, Idling, Writing
<1> HIDE DEF cl
<1>5. call' \in [Calls -> CallType] /\ CallsOK'
  BY <1>1, <1>3, <1>4, CallMoves, QuietFiles
<1>6. DraftsOK' /\ plan' \in PlanStatus
  BY <1>1 DEF PlanInv, DraftsOK, PlanStatus
<1> QED BY <1>5, <1>6 DEF PlanInv, TypeOK, ForeignStays

LEMMA EditKeeps ==
  ASSUME PlanInv, NEW p \in Paths, Edit(p)
  PROVE  PlanInv' /\ ForeignStays
<1>1. /\ disk' = [disk EXCEPT ![p] = Foreign] /\ trouble' = trouble + 1
      /\ late' = late \cup Unseen(disk') /\ UNCHANGED <<plan, item, changes, call, draft, assent>>
  BY DEF Edit
<1>2. disk' \in [Paths -> Contents] /\ trouble' \in Nat /\ ForeignStays
  BY <1>1 DEF PlanInv, TypeOK, Contents, ForeignStays
<1>3. CallsOK'
  <2> SUFFICES ASSUME NEW c \in Calls PROVE CallOK(call[c], disk', late')
    BY <1>1 DEF CallsOK
  <2>1. CallOK(call[c], disk, late)
    BY DEF PlanInv, CallsOK
  <2>2. PICK D : D = disk'
    OBVIOUS
  <2>3. call[c].pc \in Writing => Safe(call[c].at, disk', late')
    BY <1>1, <2>2, UnseenCovers
  <2> QED BY <2>1, <2>3 DEF CallOK
<1>4. DraftsOK'
  BY <1>1 DEF PlanInv, DraftsOK
<1> QED BY <1>1, <1>2, <1>3, <1>4 DEF PlanInv, TypeOK

LEMMA DiedKeeps ==
  ASSUME PlanInv, Died
  PROVE  PlanInv' /\ ForeignStays
<1>1. /\ trouble' = trouble + 1 /\ call' = [c \in Calls |-> Idle]
      /\ draft' = [a \in DOMAIN draft |-> NoDraft] /\ UNCHANGED <<disk, plan, item, assent>>
  BY DEF Died
<1>2. changes' \in Seq(Change)
  <2>1. CASE UNCHANGED changes
    BY <2>1 DEF PlanInv, TypeOK, Change
  <2>2. CASE \E c \in Calls : call[c].pc \in {"write", "recover"} /\ changes' = Recorded(At(c), Rev(c))
    <3>1. PICK c \in Calls : call[c].pc \in {"write", "recover"} /\ changes' = Recorded(At(c), Rev(c))
      BY <2>2
    <3>2. call[c].pc \notin Idling
      BY <3>1 DEF Idling
    <3>3. At(c) \in Items /\ Rev(c) \in Revisions /\ changes \in Seq(Change)
      BY <3>2, AtWork
    <3> QED BY <3>1, <3>3, RecordTyped
  <2> QED BY <2>1, <2>2 DEF Died
<1>3. Idle \in CallType /\ \A dk, lt : CallOK(Idle, dk, lt)
  BY NewRows DEF NewRowTyped, Idle, CallType, CallOK, Idling, Writing
<1>4. call' \in [Calls -> CallType] /\ CallsOK'
  BY <1>1, <1>3 DEF CallsOK
<1>5. DraftsOK' /\ draft' \in [Actors -> [at : Items \cup {0}, row : Row]]
  <2>1. NoDraft \in [at : Items \cup {0}, row : Row]
    BY NewRows DEF NoDraft, NewRowTyped
  <2>2. DOMAIN draft = Actors
    BY DEF PlanInv, TypeOK, Actors
  <2> QED BY <1>1, <2>1, <2>2 DEF DraftsOK, Actors
<1> QED BY <1>1, <1>2, <1>4, <1>5 DEF PlanInv, TypeOK, Change, Actors, ForeignStays

\* No step on the plan overwrites foreign bytes, and only an apply call's own
\* steps, or the person who makes it, move the call.
LEMMA PlanNextKeeps ==
  ASSUME PlanInv, NEW busy, PlanNext(busy)
  PROVE  /\ PlanInv' /\ ForeignStays
         /\ call[Dreamer].pc \in Idling => call'[Dreamer] = call[Dreamer]
<1> DEFINE Good == /\ PlanInv' /\ ForeignStays
                   /\ call[Dreamer].pc \in Idling => call'[Dreamer] = call[Dreamer]
<1>1. ASSUME NEW i \in Items, StartRevision(i) PROVE Good
  BY <1>1, StartRevisionKeeps DEF StartRevision
<1>2. ASSUME NEW i \in Items, NEW s \in {"approved", "rejected"}, Decide(i, s, "human") PROVE Good
  BY <1>2, DecideKeeps
<1>3. ASSUME Seal PROVE Good
  BY <1>3, HumanSealKeeps DEF Seal
<1>4. ASSUME Supersede(busy) PROVE Good
  BY <1>4, SupersedeKeeps DEF Supersede
<1>5. ASSUME NEW c \in People, Apply(c) PROVE Good
  <2>1. c \in Calls /\ c # Dreamer /\ Dreamer \in Calls /\ Items \in SUBSET Items
    BY PlanAssumption DEF Calls
  <2>2. Begin(c, Items) /\ UNCHANGED <<disk, item, changes, draft, trouble, assent, late>>
    BY <1>5 DEF Apply, history
  <2>3. PlanInv' /\ ForeignStays
    BY <2>1, <2>2, BeginKeeps
  <2>4. \E cl : call' = [call EXCEPT ![c] = cl]
    BY <2>2 DEF Begin
  <2>5. call'[Dreamer] = call[Dreamer]
    BY <2>1, <2>4, Others
  <2> QED BY <2>3, <2>5
<1>6. ASSUME NEW c \in Calls, ApplyStep(c) PROVE Good
  <2>1. ApplyKeeps(c)
    BY <1>6, ApplyStepKeeps
  <2>2. PlanInv' /\ ForeignStays
    BY <2>1 DEF ApplyKeeps, NoneLost, ForeignStays
  <2>3. ASSUME call[Dreamer].pc \in Idling PROVE call'[Dreamer] = call[Dreamer]
    BY <2>1, <2>3 DEF ApplyKeeps, Calls
  <2> QED BY <2>2, <2>3
<1>7. ASSUME NEW p \in Paths, Edit(p) PROVE Good
  BY <1>7, EditKeeps DEF Edit
<1> QED BY <1>1, <1>2, <1>3, <1>4, <1>5, <1>6, <1>7 DEF PlanNext

-----------------------------------------------------------------------------
(* Runs *)

RunsTyped ==
  /\ runs \in [Runs -> {"new", "running", "completed", "failed"}]
  /\ owned \subseteq Runs
  /\ dream \in DreamType
  /\ recovery \in [profile : BOOLEAN, streak : Nat, paused : BOOLEAN]
  /\ counted \subseteq Items

\* The process owns its run in progress and no other, the dream's call belongs
\* to it, and while automatic maintenance is paused no run gets as far as applying.
OneRun ==
  /\ dream.pc # "none" => dream.run \in Runs /\ runs[dream.run] = "running" /\ owned = {dream.run}
  /\ dream.pc = "none" => owned = {} /\ call[Dreamer] = Idle
  /\ dream.pc = "curating" => dream.todo # {}
  /\ dream.pc # "applying" => call[Dreamer].pc \in Idling
  /\ recovery.profile => dream.pc \in {"none", "recorded"}

RunInv == PlanInv /\ RunsTyped /\ OneRun

OutcomesStand == \A d \in Runs : runs[d] \in {"completed", "failed"} => runs'[d] = runs[d]

\* What every step promises.
Promised == RunInv' /\ ForeignStays /\ OutcomesStand

LEMMA NoDreamTyped == NoDream \in DreamType /\ NoDream.pc = "none"
BY DEF NoDream, DreamType

LEMMA IdleCall == Idle.pc \in Idling /\ Idle \in CallType /\ \A dk, lt : CallOK(Idle, dk, lt)
BY NewRows DEF NewRowTyped, Idle, CallType, CallOK, Idling, Writing

\* The plan changes under the runs.
LEMMA PlanMoves ==
  ASSUME RunInv, PlanInv', ForeignStays, UNCHANGED dreamVars,
         call[Dreamer].pc \in Idling => call'[Dreamer] = call[Dreamer]
  PROVE  Promised
<1>1. UNCHANGED <<runs, owned, dream, recovery, counted>>
  BY DEF dreamVars
<1>2. OneRun'
  BY <1>1, IdleCall DEF RunInv, OneRun
<1>3. RunsTyped' /\ OutcomesStand
  BY <1>1 DEF RunInv, RunsTyped, OutcomesStand
<1> QED BY <1>2, <1>3 DEF RunInv, Promised

\* The run in progress goes on.
LEMMA DreamMoves ==
  ASSUME RunInv, PlanInv', ForeignStays, dream.pc \notin {"none", "recorded"}, dream' \in DreamType,
         dream'.pc # "none", dream'.run = dream.run, dream'.pc = "curating" => dream'.todo # {},
         dream'.pc # "applying" => call'[Dreamer].pc \in Idling,
         UNCHANGED <<runs, owned, recovery, counted>>
  PROVE  Promised
BY DEF RunInv, RunsTyped, OneRun, OutcomesStand, Promised

\* Files and calls stay as they are.
LEMMA RowsMove ==
  ASSUME RunInv, UNCHANGED <<disk, call, changes, late>>, plan' \in PlanStatus, item' \in [Items -> Row],
         draft' \in [Actors -> [at : Items \cup {0}, row : Row]], DraftsOK', trouble' \in Nat,
         UNCHANGED assent
  PROVE  PlanInv' /\ ForeignStays
BY RowsKeep DEF RunInv, PlanInv, TypeOK

LEMMA SameDrafts ==
  ASSUME RunInv, UNCHANGED draft
  PROVE  draft' \in [Actors -> [at : Items \cup {0}, row : Row]] /\ DraftsOK'
BY DEF RunInv, PlanInv, TypeOK, DraftsOK, Actors

LEMMA DeferredTyped ==
  ASSUME NEW rows \in [Items -> Row]
  PROVE  Deferred(rows) \in [Items -> Row]
<1>1. \A row \in Row : [row EXCEPT !.status = "blocked", !.over = FALSE] \in Row
  BY DEF Row, ItemStatus
<1> QED BY <1>1 DEF Deferred

LEMMA CurateMoves ==
  ASSUME RunInv, NEW rows \in [Items -> Row], NEW settled \in PlanStatus, Curate(rows, settled)
  PROVE  /\ item' \in [Items -> Row] /\ plan' \in PlanStatus
         /\ dream' \in DreamType /\ dream'.pc # "none" /\ dream'.run = dream.run
         /\ dream'.pc = "curating" => dream'.todo # {}
<1> DEFINE status == IF Conflicting(rows) # {} THEN StatusAfterDecision(Deferred(rows)) ELSE settled
           asked == Proposed(item')
<1>1. dream \in DreamType /\ asked \in SUBSET Items /\ "deciding" \in PlanStatus
  BY PlanAssumption DEF RunInv, RunsTyped, Proposed, PlanStatus
<1>2. status \in PlanStatus
  BY StatusTyped
<1>3. item' = Deferred(rows) /\ item' \in [Items -> Row]
  BY DeferredTyped DEF Curate
<1>4. IF asked # {}
      THEN plan' = "deciding" /\ dream' = [dream EXCEPT !.pc = "curating", !.todo = asked, !.touched = FALSE]
      ELSE plan' = status /\ dream' = [dream EXCEPT !.pc = "applying", !.todo = Items, !.touched = FALSE]
  BY DEF Curate
<1> HIDE DEF status, asked
<1>5. CASE asked # {}
  <2>1. /\ plan' = "deciding"
        /\ dream' = [dream EXCEPT !.pc = "curating", !.todo = asked, !.touched = FALSE]
    BY <1>4, <1>5
  <2> QED BY <1>1, <1>3, <1>5, <2>1 DEF DreamType
<1>6. CASE asked = {}
  <2>1. plan' = status /\ dream' = [dream EXCEPT !.pc = "applying", !.todo = Items, !.touched = FALSE]
    BY <1>4, <1>6
  <2> QED BY <1>1, <1>2, <1>3, <2>1 DEF DreamType
<1> QED BY <1>5, <1>6

LEMMA PlanStays ==
  ASSUME PlanInv, UNCHANGED planVars
  PROVE  PlanInv' /\ ForeignStays /\ UNCHANGED <<call, trouble>>
<1>1. UNCHANGED <<disk, plan, item, changes, call, draft, trouble, assent, late>>
  BY DEF planVars, history
<1>2. DraftsOK'
  BY <1>1 DEF PlanInv, DraftsOK
<1> QED BY <1>1, <1>2, RowsKeep DEF PlanInv, TypeOK, Actors

LEMMA BeginRunMoves ==
  ASSUME RunInv, NEW d \in Runs, BeginRun(d)
  PROVE  Promised
<1>1. runs[d] = "new" /\ UNCHANGED <<planVars, recovery, counted>>
  BY DEF BeginRun
<1>2. PlanInv' /\ ForeignStays /\ UNCHANGED <<call, trouble>>
  BY <1>1, PlanStays DEF RunInv
<1>3. /\ Recovered(owned) \in [Runs -> {"new", "running", "completed", "failed"}]
      /\ \A e \in Runs : runs[e] \in {"completed", "failed"} => Recovered(owned)[e] = runs[e]
      /\ \A e \in owned : Recovered(owned)[e] = runs[e]
  BY DEF RunInv, RunsTyped, Recovered
<1>4. CASE \E e \in owned : runs[e] = "running"
  <2>1. runs' = Recovered(owned) /\ UNCHANGED <<owned, dream>>
    BY <1>4 DEF BeginRun
  <2> QED BY <1>1, <1>2, <1>3, <2>1 DEF RunInv, RunsTyped, OneRun, OutcomesStand, Promised
<1>5. ASSUME ~\E e \in owned : runs[e] = "running" PROVE dream.pc = "none" /\ owned = {}
  BY <1>5 DEF RunInv, OneRun
<1>6. CASE (~\E e \in owned : runs[e] = "running") /\ Unavailable
  <2>1. runs' = [Recovered(owned) EXCEPT ![d] = "failed"] /\ UNCHANGED <<owned, dream>>
    BY <1>6 DEF BeginRun
  <2> QED BY <1>1, <1>2, <1>3, <1>5, <1>6, <2>1
          DEF RunInv, RunsTyped, OneRun, OutcomesStand, Promised
<1>7. CASE (~\E e \in owned : runs[e] = "running") /\ ~Unavailable
  <2>1. /\ runs' = [Recovered(owned) EXCEPT ![d] = "running"] /\ owned' = owned \cup {d}
        /\ dream' = [NoDream EXCEPT !.pc = "planning", !.run = d, !.off = recovery.paused,
                                    !.base = [i \in Items |-> item[i].change]]
    BY <1>7 DEF BeginRun
  <2>2. [i \in Items |-> item[i].change] \in [Items -> Nat] /\ recovery.paused \in BOOLEAN
    BY DEF RunInv, PlanInv, TypeOK, RunsTyped, Row
  <2>3. dream' \in DreamType /\ dream'.pc = "planning" /\ dream'.run = d
    BY <2>1, <2>2 DEF NoDream, DreamType
  <2>4. RunsTyped'
    BY <1>1, <1>3, <2>1, <2>3 DEF RunInv, RunsTyped
  <2>5. OneRun'
    BY <1>1, <1>2, <1>3, <1>5, <1>7, <2>1, <2>3, IdleCall DEF RunInv, RunsTyped, OneRun, Unavailable
  <2>6. OutcomesStand
    BY <1>1, <1>3, <2>1, <2>3 DEF OutcomesStand, RunInv, RunsTyped
  <2> QED BY <1>2, <2>4, <2>5, <2>6 DEF RunInv, Promised
<1> QED BY <1>4, <1>6, <1>7

LEMMA ReopenMoves ==
  ASSUME RunInv, Reopen
  PROVE  Promised
<1>1. runs' = Recovered(owned) /\ UNCHANGED <<planVars, owned, dream, recovery, counted>>
  BY DEF Reopen
<1>2. PlanInv' /\ ForeignStays /\ UNCHANGED <<call, trouble>>
  BY <1>1, PlanStays DEF RunInv
<1>3. /\ Recovered(owned) \in [Runs -> {"new", "running", "completed", "failed"}]
      /\ \A e \in Runs : runs[e] \in {"completed", "failed"} => Recovered(owned)[e] = runs[e]
      /\ \A e \in owned : Recovered(owned)[e] = runs[e]
  BY DEF RunInv, RunsTyped, Recovered
<1> QED BY <1>1, <1>2, <1>3 DEF RunInv, RunsTyped, OneRun, OutcomesStand, Promised

LEMMA PlanDreamMoves ==
  ASSUME RunInv, Plan
  PROVE  Promised
<1>1. /\ dream.pc = "planning" /\ plan' = Finalized
      /\ UNCHANGED <<disk, item, changes, call, draft, trouble, assent, late>>
      /\ UNCHANGED <<runs, owned, recovery, counted>>
  BY DEF Plan
<1>2. plan' \in PlanStatus
  BY <1>1 DEF Finalized, PlanStatus, Terminal, RunInv, PlanInv, TypeOK
<1>3. PlanInv' /\ ForeignStays
  BY <1>1, <1>2, SameDrafts, RowsMove DEF RunInv, PlanInv, TypeOK
<1>4. Proposed(item) \in SUBSET Items /\ dream \in DreamType
  BY PlanAssumption DEF Proposed, RunInv, RunsTyped
<1>5. dream' \in {[dream EXCEPT !.pc = "ending"],
                  [dream EXCEPT !.pc = "settling", !.reported = TRUE, !.todo = Proposed(item)]}
  BY DEF Plan
<1>6. /\ dream' \in DreamType /\ dream'.pc \in {"ending", "settling"} /\ dream'.run = dream.run
  BY <1>4, <1>5 DEF DreamType
<1>7. call'[Dreamer].pc \in Idling
  BY <1>1 DEF RunInv, OneRun
<1> QED BY <1>1, <1>3, <1>6, <1>7, DreamMoves

LEMMA SettleMoves ==
  ASSUME RunInv, Settle
  PROVE  Promised
<1>1. /\ dream.pc = "settling" /\ dream.todo # {}
      /\ UNCHANGED <<disk, changes, call, draft, assent, late>> /\ UNCHANGED <<runs, owned, recovery, counted>>
  BY DEF Settle
<1> DEFINE i == Min(dream.todo)
           ready == All(i, item[i].rev, "before")
<1>2. PICK deferred \in BOOLEAN, rows \in {item, Blocked(i), Marked(i, "stale", "failed")} :
        /\ trouble' \in {trouble, trouble + 1}
        /\ IF dream.todo = {i}
           THEN Curate(rows, IF deferred \/ dream.touched THEN StatusAfterDecision(rows) ELSE plan)
           ELSE /\ dream' = [dream EXCEPT !.todo = dream.todo \ {i}, !.touched = deferred \/ dream.touched]
                /\ item' = rows
                /\ UNCHANGED plan
  BY DEF Settle, Fault
<1>3. dream \in DreamType /\ plan \in PlanStatus /\ item \in [Items -> Row] /\ trouble \in Nat
  BY DEF RunInv, RunsTyped, PlanInv, TypeOK
<1>4. rows \in [Items -> Row] /\ trouble' \in Nat
  <2>1. Blocked(i) \in [Items -> Row] /\ Marked(i, "stale", "failed") \in [Items -> Row]
    BY <1>3, RowsTyped DEF ItemStatus, VerificationStatus
  <2> QED BY <1>2, <1>3, <2>1
<1>5. /\ item' \in [Items -> Row] /\ plan' \in PlanStatus
      /\ dream' \in DreamType /\ dream'.pc # "none" /\ dream'.run = dream.run
      /\ dream'.pc = "curating" => dream'.todo # {}
  <2>1. CASE dream.todo = {i}
    <3> DEFINE o == IF deferred \/ dream.touched THEN StatusAfterDecision(rows) ELSE plan
    <3>1. Curate(rows, o)
      BY <1>2, <2>1
    <3>2. o \in PlanStatus
      BY <1>3, StatusTyped
    <3> HIDE DEF o
    <3> QED BY <1>4, <3>1, <3>2, CurateMoves
  <2>2. CASE dream.todo # {i}
    <3>1. /\ dream' = [dream EXCEPT !.todo = dream.todo \ {i}, !.touched = deferred \/ dream.touched]
          /\ item' = rows /\ UNCHANGED plan
      BY <1>2, <2>2
    <3>2. dream.todo \ {i} \in SUBSET Items /\ (deferred \/ dream.touched) \in BOOLEAN
      BY <1>3 DEF DreamType
    <3> HIDE DEF i
    <3> QED BY <1>1, <1>3, <1>4, <3>1, <3>2 DEF DreamType
  <2> QED BY <2>1, <2>2
<1>6. PlanInv' /\ ForeignStays
  BY <1>1, <1>4, <1>5, SameDrafts, RowsMove
<1>7. call'[Dreamer].pc \in Idling
  BY <1>1 DEF RunInv, OneRun
<1> QED BY <1>1, <1>5, <1>6, <1>7, DreamMoves

LEMMA SettleNothingMoves ==
  ASSUME RunInv, SettleNothing
  PROVE  Promised
<1>1. /\ dream.pc = "settling" /\ Curate(item, plan)
      /\ UNCHANGED <<disk, changes, call, draft, trouble, assent, late>>
      /\ UNCHANGED <<runs, owned, recovery, counted>>
  BY DEF SettleNothing
<1>2. plan \in PlanStatus /\ item \in [Items -> Row] /\ trouble' \in Nat
  BY <1>1 DEF RunInv, PlanInv, TypeOK
<1>3. /\ item' \in [Items -> Row] /\ plan' \in PlanStatus
      /\ dream' \in DreamType /\ dream'.pc # "none" /\ dream'.run = dream.run
      /\ dream'.pc = "curating" => dream'.todo # {}
  BY <1>1, <1>2, CurateMoves
<1>4. PlanInv' /\ ForeignStays
  BY <1>1, <1>2, <1>3, SameDrafts, RowsMove
<1>5. call'[Dreamer].pc \in Idling
  BY <1>1 DEF RunInv, OneRun
<1> QED BY <1>1, <1>3, <1>4, <1>5, DreamMoves

\* The item before the curator.
LEMMA CuratedItem ==
  ASSUME RunInv, dream.pc = "curating"
  PROVE  Curated \in Items /\ Curated \in dream.todo
<1>1. dream.todo # {} /\ dream.todo \subseteq Items /\ Items \in SUBSET Nat
  BY OpsFacts DEF RunInv, OneRun, RunsTyped, DreamType
<1> QED BY <1>1, MinIn DEF Curated

LEMMA CuratorDoneMoves ==
  ASSUME RunInv, dream.pc = "curating", CuratorDone
  PROVE  /\ dream' \in DreamType /\ dream'.pc # "none" /\ dream'.run = dream.run
         /\ dream'.pc = "curating" => dream'.todo # {}
<1>1. dream \in DreamType
  BY DEF RunInv, RunsTyped
<1>2. CASE dream.todo = {Curated}
  <2>1. dream' = [dream EXCEPT !.pc = "applying", !.todo = Items]
    BY <1>2 DEF CuratorDone
  <2> QED BY <1>1, <2>1 DEF DreamType
<1>3. CASE dream.todo # {Curated}
  <2>1. dream' = [dream EXCEPT !.todo = dream.todo \ {Curated}]
    BY <1>3 DEF CuratorDone
  <2>2. dream.todo \ {Curated} # {} /\ dream.todo \ {Curated} \in SUBSET Items
    BY <1>1, <1>3, CuratedItem DEF DreamType
  <2> QED BY <1>1, <2>1, <2>2 DEF DreamType
<1> QED BY <1>2, <1>3

LEMMA CuratorDecidesMoves ==
  ASSUME RunInv, NEW s \in {"approved", "rejected"}, CuratorDecides(s)
  PROVE  Promised
<1>1. /\ dream.pc = "curating" /\ Decide(Curated, s, "curator") /\ CuratorDone
      /\ UNCHANGED <<runs, owned, recovery, counted>>
  BY DEF CuratorDecides, AskingCurator
<1>2. PlanInv' /\ ForeignStays /\ UNCHANGED call
  BY <1>1, CuratedItem, DecideKeeps DEF RunInv
<1>3. call'[Dreamer].pc \in Idling
  BY <1>1, <1>2 DEF RunInv, OneRun
<1> QED BY <1>1, <1>2, <1>3, CuratorDoneMoves, DreamMoves

LEMMA CuratorBlocksMoves ==
  ASSUME RunInv, CuratorBlocks
  PROVE  Promised
<1>1. /\ dream.pc = "curating" /\ CuratorDone /\ item' = Blocked(Curated)
      /\ plan' = (IF dream.todo = {Curated} THEN StatusAfterDecision(item') ELSE plan)
      /\ draft' = [draft EXCEPT !["curator"] = NoDraft] /\ "curator" \in Actors
      /\ UNCHANGED <<disk, changes, call, trouble, assent, late>>
      /\ UNCHANGED <<runs, owned, recovery, counted>>
  BY DEF CuratorBlocks, Actors
<1>2. item' \in [Items -> Row] /\ plan' \in PlanStatus /\ trouble' \in Nat
  BY <1>1, RowsTyped, StatusTyped DEF RunInv, PlanInv, TypeOK
<1>3. draft' \in [Actors -> [at : Items \cup {0}, row : Row]] /\ DraftsOK'
  BY <1>1, DropDraft DEF RunInv
<1>4. PlanInv' /\ ForeignStays
  BY <1>1, <1>2, <1>3, RowsMove
<1>5. call'[Dreamer].pc \in Idling
  BY <1>1 DEF RunInv, OneRun
<1> QED BY <1>1, <1>4, <1>5, CuratorDoneMoves, DreamMoves

LEMMA CuratorRevisesMoves ==
  ASSUME RunInv, CuratorRevises
  PROVE  Promised
<1>1. /\ dream.pc = "curating" /\ item[Curated].rev < MaxRevision
      /\ draft' = [draft EXCEPT !["curator"] = [at |-> Curated, row |-> item[Curated]]]
      /\ UNCHANGED <<disk, plan, item, changes, call, trouble, assent, late>> /\ UNCHANGED dreamVars
  BY DEF CuratorRevises, AskingCurator, history
<1>2. Curated \in Items /\ item[Curated] \in Row /\ "curator" \in Actors
  BY <1>1, CuratedItem DEF RunInv, PlanInv, TypeOK, Actors
<1>3. PlanInv' /\ ForeignStays
  BY <1>1, <1>2, DraftKeeps DEF RunInv
<1> QED BY <1>1, <1>3, PlanMoves

LEMMA CuratorSealsMoves ==
  ASSUME RunInv, CuratorSeals
  PROVE  Promised
<1>1. PlanInv' /\ ForeignStays
  BY SealKeeps DEF CuratorSeals, RunInv, Actors
<1> QED BY <1>1, PlanMoves DEF CuratorSeals

LEMMA ApplyNextMoves ==
  ASSUME RunInv, ApplyNext
  PROVE  Promised
<1> DEFINE open == {i \in dream.todo : item[i].status \in Open}
<1>1. /\ dream.pc = "applying" /\ UNCHANGED <<disk, item, changes, draft, trouble, assent, late>>
      /\ call[Dreamer].pc = "idle"
      /\ UNCHANGED <<runs, owned, recovery, counted>>
  BY DEF ApplyNext, history
<1>2. dream \in DreamType
  BY DEF RunInv, RunsTyped
<1>3. CASE open = {}
  <2>1. dream' = [dream EXCEPT !.pc = "ending"] /\ UNCHANGED <<plan, call>>
    BY <1>3 DEF ApplyNext
  <2>2. PlanInv' /\ ForeignStays
    BY <1>1, <2>1, SameDrafts, RowsMove DEF RunInv, PlanInv, TypeOK
  <2>3. dream' \in DreamType /\ dream'.pc = "ending" /\ dream'.run = dream.run
    BY <1>2, <2>1 DEF DreamType
  <2>4. call'[Dreamer].pc \in Idling
    BY <1>1, <2>1 DEF Idling
  <2> QED BY <1>1, <2>2, <2>3, <2>4, DreamMoves
<1>4. CASE open # {}
  <2>1. /\ Begin(Dreamer, {Min(open)})
        /\ dream' = [dream EXCEPT !.todo = {i \in dream.todo : i > Min(open)}]
    BY <1>4 DEF ApplyNext
  <2>2. open \in SUBSET Nat /\ open \subseteq Items
    BY <1>2, OpsFacts DEF DreamType
  <2>3. {Min(open)} \in SUBSET Items /\ Dreamer \in Calls
    <3> HIDE DEF open
    <3> QED BY <1>4, <2>2, MinIn DEF Calls
  <2>4. PlanInv' /\ ForeignStays
    BY <1>1, <2>1, <2>3, BeginKeeps DEF RunInv
  <2>5. {i \in dream.todo : i > Min(open)} \in SUBSET Items
    BY <1>2 DEF DreamType
  <2> HIDE DEF open
  <2>6. dream' \in DreamType /\ dream'.pc = "applying" /\ dream'.run = dream.run
    BY <1>1, <1>2, <2>1, <2>5 DEF DreamType
  <2> QED BY <1>1, <2>4, <2>6, DreamMoves
<1> QED BY <1>3, <1>4

\* What a run leaves for the next one.
LEMMA RecoveryTyped ==
  ASSUME RunInv, NEW unproven \in BOOLEAN, RecordRecovery(unproven)
  PROVE  /\ counted' \subseteq Items
         /\ recovery' \in [profile : BOOLEAN, streak : Nat, paused : BOOLEAN]
<1> DEFINE n == recovery.streak + Cardinality(Rollbacks)
<1>1. Outcomes \subseteq Items /\ counted \subseteq Items
      /\ recovery \in [profile : BOOLEAN, streak : Nat, paused : BOOLEAN]
  BY DEF RunInv, RunsTyped, Outcomes
<1>2. counted' = counted \cup Outcomes
  BY DEF RecordRecovery
<1>3. n \in Nat
  <2>1. IsFiniteSet(Items)
    <3>1. Len(Ops) \in Nat /\ Items = 1 .. Len(Ops)
      BY PlanAssumption DEF Items
    <3> QED BY <3>1, FS_Interval
  <2>2. IsFiniteSet(Rollbacks)
    BY <1>1, <2>1, FS_Subset DEF Rollbacks
  <2>3. Cardinality(Rollbacks) \in Nat
    BY <2>2, FS_CardinalityType
  <2> QED BY <1>1, <2>3
<1> DEFINE s == IF Rollbacks # {} THEN n
                ELSE IF Successes # {} /\ ~recovery.paused THEN 0 ELSE recovery.streak
           p == recovery.profile \/ unproven \/ Uncertain # {}
           q == recovery.paused \/ (Rollbacks # {} /\ n >= PauseThreshold)
<1>4. recovery' = [profile |-> p, streak |-> s, paused |-> q]
  BY DEF RecordRecovery
<1>5. s \in Nat /\ p \in BOOLEAN /\ q \in BOOLEAN
  BY <1>1, <1>3
<1> HIDE DEF s, p, q
<1> QED BY <1>1, <1>2, <1>4, <1>5

\* The outcomes are recorded, or the run is over without it.
Recording == (\E unproven \in BOOLEAN : RecordRecovery(unproven)) \/ UNCHANGED <<recovery, counted>>

LEMMA RecordingTyped ==
  ASSUME RunInv, Recording
  PROVE  counted' \subseteq Items /\ recovery' \in [profile : BOOLEAN, streak : Nat, paused : BOOLEAN]
BY RecoveryTyped DEF Recording, RunInv, RunsTyped

LEMMA VerifyRunMoves ==
  ASSUME RunInv, VerifyRun
  PROVE  Promised
<1>1. /\ dream.pc = "ending" /\ dream' = [dream EXCEPT !.pc = "verified", !.unproven = Unproven]
      /\ UNCHANGED <<planVars, runs, owned, recovery, counted>>
  BY DEF VerifyRun
<1>2. Unproven \in BOOLEAN /\ dream \in DreamType
  BY DEF Unproven, RunInv, RunsTyped, DreamType
<1>3. dream' \in DreamType /\ dream'.pc = "verified" /\ dream'.run = dream.run
  BY <1>1, <1>2 DEF DreamType
<1>4. PlanInv' /\ ForeignStays /\ UNCHANGED call
  BY <1>1, PlanStays DEF RunInv
<1>5. call'[Dreamer].pc \in Idling
  BY <1>1, <1>4 DEF RunInv, OneRun
<1> QED BY <1>1, <1>3, <1>4, <1>5, DreamMoves

LEMMA RecordOutcomesMoves ==
  ASSUME RunInv, RecordOutcomes
  PROVE  Promised
<1>1. /\ dream.pc = "verified" /\ RecordRecovery(dream.unproven)
      /\ dream' = [dream EXCEPT !.pc = "recorded"] /\ UNCHANGED <<planVars, runs, owned>>
  BY DEF RecordOutcomes
<1>2. dream \in DreamType
  BY DEF RunInv, RunsTyped
<1>3. dream' \in DreamType /\ dream'.pc = "recorded" /\ dream'.run = dream.run
  BY <1>1, <1>2 DEF DreamType
<1>4. Recording
  BY <1>1, <1>2 DEF Recording, DreamType
<1>5. PlanInv' /\ ForeignStays /\ UNCHANGED call
  BY <1>1, PlanStays DEF RunInv
<1>6. RunsTyped'
  BY <1>1, <1>3, <1>4, RecordingTyped DEF RunInv, RunsTyped
<1>7. OneRun'
  BY <1>1, <1>3, <1>5 DEF RunInv, OneRun
<1>8. OutcomesStand
  BY <1>1 DEF OutcomesStand
<1> QED BY <1>5, <1>6, <1>7, <1>8 DEF RunInv, Promised

\* The end of a run, whose row may keep its status.
LEMMA OverMoves ==
  ASSUME RunInv, dream.pc # "none", Recording,
         NEW status \in {"completed", "failed"}, NEW rows \in {runs, Finished(status)}, Over(rows),
         UNCHANGED <<disk, plan, item, changes, assent, late>>, trouble' \in Nat,
         draft' \in [Actors -> [at : Items \cup {0}, row : Row]], DraftsOK'
  PROVE  Promised
<1>1. /\ runs' = rows /\ owned' = owned \ {dream.run} /\ dream' = NoDream
      /\ call' = [call EXCEPT ![Dreamer] = Idle]
  BY DEF Over
<1>2. dream.run \in Runs /\ runs[dream.run] = "running" /\ owned = {dream.run}
  BY DEF RunInv, OneRun
<1>3. Dreamer \in Calls /\ call \in [Calls -> CallType]
  BY DEF Calls, RunInv, PlanInv, TypeOK
<1>4. call' \in [Calls -> CallType] /\ CallsOK'
  <2>1. CallOK(Idle, disk', late') /\ Idle \in CallType
    BY IdleCall
  <2> QED BY <1>1, <1>3, <2>1, CallMoves, QuietFiles DEF RunInv
<1>5. PlanInv' /\ ForeignStays
  BY <1>4 DEF RunInv, PlanInv, TypeOK, ForeignStays, Actors
<1>6. RunsTyped'
  BY <1>1, <1>2, RecordingTyped, NoDreamTyped DEF RunInv, RunsTyped, Finished
<1>7. OneRun'
  BY <1>1, <1>2, <1>3, NoDreamTyped, IdleCall DEF OneRun
<1>8. OutcomesStand
  BY <1>1, <1>2 DEF OutcomesStand, RunInv, RunsTyped, Finished
<1> QED BY <1>5, <1>6, <1>7, <1>8 DEF RunInv, Promised

LEMMA CompleteMoves ==
  ASSUME RunInv, Complete
  PROVE  Promised
<1>1. /\ dream.pc = "recorded" /\ Over(Finished("completed")) /\ UNCHANGED <<recovery, counted>>
      /\ UNCHANGED <<disk, plan, item, changes, draft, trouble, assent, late>>
  BY DEF Complete, history
<1>2. draft' \in [Actors -> [at : Items \cup {0}, row : Row]] /\ DraftsOK'
  BY <1>1, SameDrafts
<1>3. Recording /\ trouble' \in Nat
  BY <1>1 DEF Recording, RunInv, PlanInv, TypeOK
<1>4. PICK rows \in {runs, Finished("completed")} : Over(rows)
  BY <1>1
<1> QED BY <1>1, <1>2, <1>3, <1>4, OverMoves

LEMMA FailMoves ==
  ASSUME RunInv, Fail
  PROVE  Promised
<1>1. /\ dream.pc # "none" /\ draft' = [draft EXCEPT !["curator"] = NoDraft] /\ "curator" \in Actors
      /\ UNCHANGED <<disk, plan, item, changes, assent, late>>
  BY DEF Fail, history, Actors
<1>2. draft' \in [Actors -> [at : Items \cup {0}, row : Row]] /\ DraftsOK'
  BY <1>1, DropDraft DEF RunInv
<1>3. PICK rows \in {runs, Finished("failed")} : Over(rows)
  BY DEF Fail
<1>4. trouble \in Nat /\ dream.unproven \in BOOLEAN
  BY DEF RunInv, PlanInv, TypeOK, RunsTyped, DreamType
<1>5. Recording /\ trouble' \in Nat
  BY <1>4 DEF Fail, Recording, Fault
<1> QED BY <1>1, <1>2, <1>3, <1>5, OverMoves

\* A person resumes what was paused.
LEMMA ResumeMoves ==
  ASSUME RunInv, ResumeProfile \/ ResumeTransform
  PROVE  Promised
<1>1. /\ UNCHANGED <<planVars, runs, owned, dream, counted>>
      /\ \/ recovery' = [recovery EXCEPT !.profile = FALSE]
         \/ recovery' = [recovery EXCEPT !.streak = 0, !.paused = FALSE]
  BY DEF ResumeProfile, ResumeTransform
<1>2. PlanInv' /\ ForeignStays /\ UNCHANGED <<call, trouble>>
  BY <1>1, PlanStays DEF RunInv
<1>3. /\ recovery' \in [profile : BOOLEAN, streak : Nat, paused : BOOLEAN]
      /\ recovery'.profile => recovery.profile
  <2>1. recovery \in [profile : BOOLEAN, streak : Nat, paused : BOOLEAN]
    BY DEF RunInv, RunsTyped
  <2>2. CASE recovery' = [recovery EXCEPT !.profile = FALSE]
    BY <2>1, <2>2
  <2>3. CASE recovery' = [recovery EXCEPT !.streak = 0, !.paused = FALSE]
    BY <2>1, <2>3
  <2> QED BY <1>1, <2>2, <2>3
<1> QED BY <1>1, <1>2, <1>3 DEF RunInv, RunsTyped, OneRun, OutcomesStand, Promised

LEMMA CrashMoves ==
  ASSUME RunInv, Crash
  PROVE  Promised
<1>1. /\ Died /\ owned' = {} /\ runs' = Recovered({}) /\ dream' = NoDream
      /\ UNCHANGED <<recovery, counted>>
  BY DEF Crash
<1>2. PlanInv' /\ ForeignStays
  BY <1>1, DiedKeeps DEF RunInv
<1>3. /\ Recovered({}) \in [Runs -> {"new", "running", "completed", "failed"}]
      /\ \A e \in Runs : runs[e] \in {"completed", "failed"} => Recovered({})[e] = runs[e]
  BY DEF RunInv, RunsTyped, Recovered
<1>4. call'[Dreamer] = Idle
  BY <1>1 DEF Died, Calls
<1>5. RunsTyped' /\ OneRun'
  BY <1>1, <1>3, <1>4, NoDreamTyped, IdleCall DEF RunInv, RunsTyped, OneRun
<1>6. OutcomesStand
  BY <1>1, <1>3, <1>4 DEF OutcomesStand
<1> QED BY <1>2, <1>5, <1>6 DEF RunInv, Promised

LEMMA NextMoves ==
  ASSUME RunInv, [Next]_vars
  PROVE  Promised
<1>1. CASE PlanNext(Busy) /\ UNCHANGED dreamVars
  BY <1>1, PlanNextKeeps, PlanMoves DEF RunInv
<1>2. CASE DreamStep
  BY <1>2, BeginRunMoves, ReopenMoves, PlanDreamMoves, SettleMoves, SettleNothingMoves, CuratorDecidesMoves,
     CuratorBlocksMoves, CuratorRevisesMoves, CuratorSealsMoves, ApplyNextMoves, VerifyRunMoves,
     RecordOutcomesMoves, CompleteMoves, FailMoves
     DEF DreamStep
<1>3. CASE ResumeProfile \/ ResumeTransform
  BY <1>3, ResumeMoves
<1>4. CASE Crash
  BY <1>4, CrashMoves
<1>5. CASE UNCHANGED vars
  <2>1. UNCHANGED planVars /\ UNCHANGED dreamVars
    BY <1>5 DEF vars
  <2>2. PlanInv' /\ ForeignStays /\ UNCHANGED <<call, trouble>>
    BY <2>1, PlanStays DEF RunInv
  <2> QED BY <2>1, <2>2, PlanMoves
<1> QED BY <1>1, <1>2, <1>3, <1>4, <1>5 DEF Next

LEMMA InitRuns == DreamInit => RunInv
<1> SUFFICES ASSUME DreamInit PROVE RunInv
  OBVIOUS
<1>1. /\ item = NoRows /\ plan = StatusAfterDecision(NoRows) /\ changes = <<>>
      /\ call = [c \in Calls |-> Idle] /\ draft = [a \in {"human", "curator"} |-> NoDraft]
      /\ trouble = 0 /\ assent = [i \in Items |-> 0]
  BY DEF DreamInit, Init
<1>2. disk \in [Paths -> Contents]
  <2>1. Absent \in Contents /\ Sealed \in Contents
    BY DEF Contents
  <2> QED BY <2>1 DEF DreamInit, Init
<1>3. TypeOK
  <2>1. changes \in Seq([item : Items, rev : Revisions, undone : BOOLEAN])
    BY <1>1
  <2>2. assent \in [Items -> 0 .. MaxRevision]
    BY <1>1, PlanAssumption
  <2>3. NoDraft \in [at : Items \cup {0}, row : Row]
    BY NewRows DEF NoDraft, NewRowTyped
  <2> QED BY <1>1, <1>2, <2>1, <2>2, <2>3, NewRows, StatusTyped, IdleCall DEF TypeOK, NewRowTyped
<1>4. CallsOK /\ DraftsOK
  BY <1>1, IdleCall DEF CallsOK, DraftsOK
<1>5. RunsTyped
  BY NoDreamTyped, DreamAssumption DEF DreamInit, RunsTyped
<1>6. OneRun
  BY <1>1, NoDreamTyped, IdleCall DEF DreamInit, OneRun, Calls
<1> QED BY <1>3, <1>4, <1>5, <1>6 DEF RunInv, PlanInv

LEMMA RunInvariant == DreamSpec => []RunInv
<1>1. RunInv /\ [Next]_vars => RunInv'
  BY NextMoves DEF Promised
<1> QED BY <1>1, InitRuns, PTL DEF DreamSpec

-----------------------------------------------------------------------------
(* The theorems *)

\* The rows of the plan and of the runs, the files and the calls keep their types.
THEOREM Typing == DreamSpec => []DreamTypeOK
<1>1. RunInv => DreamTypeOK
  BY DEF RunInv, PlanInv, RunsTyped, DreamTypeOK
<1> QED BY <1>1, RunInvariant, PTL

\* Bytes no plan knows survive every apply, every recovery of what a crash left and
\* every rollback, whoever reaches into the plan meanwhile and whichever items share
\* the file, but for those an editor saves between a call's last look and its writes.
THEOREM ForeignFilesAreKept == DreamSpec => ForeignKept
<1>1. RunInv /\ [Next]_vars => [\A p \in Paths \ late : disk[p] = Foreign => disk'[p] = Foreign]_planVars
  BY NextMoves DEF Promised, ForeignStays
<1> QED BY <1>1, RunInvariant, PTL DEF DreamSpec, ForeignKept

\* A run has one outcome: no other invocation, handle or restart takes a live run for
\* abandoned, and an ended one does not end again.
THEOREM RunsEndOnce == DreamSpec => RunOutcomeOnce
<1>1. RunInv /\ [Next]_vars =>
        [\A d \in Runs : runs[d] \in {"completed", "failed"} => runs'[d] = runs[d]]_vars
  BY NextMoves DEF Promised, OutcomesStand
<1> QED BY <1>1, RunInvariant, PTL DEF DreamSpec, RunOutcomeOnce

\* A pause stands: while it does no run has an apply call.
THEOREM PauseStands == DreamSpec => []NoWriteWhilePaused
<1>1. RunInv => NoWriteWhilePaused
  BY DEF RunInv, OneRun, NoWriteWhilePaused, Idling
<1> QED BY <1>1, RunInvariant, PTL
=============================================================================
