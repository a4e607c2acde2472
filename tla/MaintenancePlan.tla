--------------------------- MODULE MaintenancePlan ---------------------------
(***************************************************************************)
(* One sealed maintenance plan (core/src/maintenance/plans.ts): people and  *)
(* a curator decide and revise its items, an apply call writes the files of *)
(* each approved item, journals them, re-indexes and verifies, and an apply *)
(* after a crash recovers the item that was interrupted.                    *)
(*                                                                          *)
(* A step between two awaits is one action; a read that only the next step  *)
(* of the same call uses is taken together with it. Nothing serialises the  *)
(* operations of a plan: decisions, revisions and a retirement land between *)
(* the awaits of an apply, which goes by what it read when it began. The    *)
(* history variables say who reached into what, because the promises of the *)
(* code hold only for what nobody reached into.                             *)
(***************************************************************************)
EXTENDS Integers, Sequences, FiniteSets, FiniteSetsExt

CONSTANTS
  Paths,
  Ops,                 \* file operations of each item: a sequence of sequences
  AutoItems,           \* items whose policy is "auto"; the others are for review
  People,              \* apply calls of people
  Dreamer,             \* the apply call of a dream run
  MaxItems, MaxFiles,  \* limits of a maintenance budget
  MaxRevision,         \* bound on revisions
  MaxTrouble           \* bound on edits, faults and crashes together

Calls == People \cup {Dreamer}
Items == DOMAIN Ops

Revisions == 1 .. MaxRevision

\* A file's content: none, the sealed input, bytes no plan knows, or the output of
\* an item's revision.
Absent == <<0, 0>>
Sealed == <<0, 1>>
Foreign == <<0, 2>>
Output(i, r) == <<i, r>>

Contents == {Absent, Sealed, Foreign} \cup (Items \X Revisions)

Operation == [kind : {"replace", "create", "delete", "move"}, path : Paths, to : Paths]

Touched(op) == {op.path} \cup (IF op.kind = "move" THEN {op.to} ELSE {})
Needs(op)   == IF op.kind = "create" THEN {} ELSE {op.path}
PathsOf(i) == UNION {Touched(Ops[i][k]) : k \in DOMAIN Ops[i]}

\* supportedOperations refuses an item without an operation, and one that names a path
\* twice. Items of one plan may well share files; they are sealed against one snapshot
\* of them, so what one finds there another does not find missing.
ASSUME PlanAssumption ==
  /\ Ops \in Seq(Seq(Operation))
  /\ \A i \in Items :
       /\ Ops[i] # <<>>
       /\ \A k \in DOMAIN Ops[i] : Ops[i][k].kind = "move" => Ops[i][k].path # Ops[i][k].to
       /\ \A k, l \in DOMAIN Ops[i] : k # l => Touched(Ops[i][k]) \cap Touched(Ops[i][l]) = {}
  /\ AutoItems \subseteq Items
  /\ Dreamer \notin People
  /\ MaxRevision \in Nat \ {0}
  /\ \A i, j \in Items : \A k \in DOMAIN Ops[i], l \in DOMAIN Ops[j] :
       Needs(Ops[i][k]) \cap (Touched(Ops[j][l]) \ Needs(Ops[j][l])) = {}

VARIABLES
  disk,     \* [Paths -> Contents]
  plan,     \* maintenance_plans.status
  item,     \* the maintenance_items rows
  changes,  \* the plan's journal changes, in order
  call,     \* the apply calls in progress
  draft,    \* revisions being preflighted, by actor
  trouble,  \* edits, faults and crashes so far
  assent,   \* history: the revision of each item whose approval stands, or 0
  blame,    \* history: items somebody else reached into
  late,     \* history: files of items that foreign bytes got into after a call's last look
  torn,     \* history: items whose rollback a crash cut short, before its row was written
  slips     \* history: how the plan's status came to be wrong

history == <<assent, blame, late, torn, slips>>

planVars == <<disk, plan, item, changes, call, draft, trouble, history>>

ItemStatus == {"proposed", "approved", "rejected", "blocked", "stale", "applying",
               "applied", "verification_pending", "verification_failed"}

Decidable == {"proposed", "approved", "rejected", "blocked"}
Open      == {"approved", "applying", "verification_pending"}
Recovery  == {"applying", "verification_pending"}

Terminal   == {"completed", "failed", "superseded"}
PlanStatus == {"deciding", "awaiting_review", "approved", "applying", "partially_completed"}
              \cup Terminal

VerificationStatus == {"none", "pending", "passed", "failed", "rolled_back"}

\* over: status_code is budget_exhausted; proof: verification.status.
Row == [status : ItemStatus, over : BOOLEAN, rev : Revisions, change : Nat, proof : VerificationStatus]

NewRow == [status |-> "proposed", over |-> FALSE, rev |-> 1, change |-> 0, proof |-> "none"]

NoRows == [i \in Items |-> NewRow]

\* at, k: the item and how many of its operations are written; left: operations
\* still to be put back; seen: the rows the call read when it began; spent: the
\* items its budget holds.
Idle == [pc |-> "idle", at |-> 0, k |-> 0, left |-> {}, only |-> {}, seen |-> NoRows, spent |-> {}]

NoDraft == [at |-> 0, row |-> NewRow]

-----------------------------------------------------------------------------
(* Operations and their states on disk *)

Before(op) == IF op.kind = "create" THEN Absent ELSE Sealed

\* A delete that does not compare the file's hash.
StateOf_DeleteByName(i, op, r) ==
  CASE op.kind = "delete" -> IF disk[op.path] = Absent THEN "after" ELSE "before"
    [] OTHER -> IF disk[op.path] = Output(i, r) THEN "after"
                ELSE IF disk[op.path] = Before(op) THEN "before" ELSE "other"

\* operationState, for the output of revision r of item i.
StateOf(i, op, r) ==
  CASE op.kind = "move" ->
         IF disk[op.path] = Sealed /\ disk[op.to] = Absent THEN "before"
         ELSE IF disk[op.path] = Absent /\ disk[op.to] = Sealed THEN "after" ELSE "other"
    [] op.kind = "delete" ->
         IF disk[op.path] = Absent THEN "after"
         ELSE IF disk[op.path] = Sealed THEN "before" ELSE "other"
    [] OTHER ->
         IF disk[op.path] = Output(i, r) THEN "after"
         ELSE IF disk[op.path] = Before(op) THEN "before" ELSE "other"

All(i, r, s)  == \A k \in DOMAIN Ops[i] : StateOf(i, Ops[i][k], r) = s
Some(i, r, s) == \E k \in DOMAIN Ops[i] : StateOf(i, Ops[i][k], r) = s

\* rm and rename need their source; a rename replaces its destination.
Possible(op) == op.kind \in {"delete", "move"} => disk[op.path] # Absent

Performed(i, op, r) ==
  CASE op.kind = "move"   -> [disk EXCEPT ![op.to] = disk[op.path], ![op.path] = Absent]
    [] op.kind = "delete" -> [disk EXCEPT ![op.path] = Absent]
    [] OTHER              -> [disk EXCEPT ![op.path] = Output(i, r)]

\* restoreOperation: the before-state is written whatever the file holds now.
Restorable(op) == op.kind = "move" => disk[op.to] # Absent

Restored_LeavesCreatedFile(op) ==
  IF op.kind = "create" THEN disk
  ELSE IF op.kind = "move" THEN [disk EXCEPT ![op.path] = disk[op.to], ![op.to] = Absent]
  ELSE [disk EXCEPT ![op.path] = Before(op)]

Restored(op) ==
  IF op.kind = "move" THEN [disk EXCEPT ![op.path] = disk[op.to], ![op.to] = Absent]
  ELSE [disk EXCEPT ![op.path] = Before(op)]

\* The post-change files of the operations ks of item i put back after a failed undo.
Redone(i, r, ks) ==
  [p \in Paths |->
     IF \E k \in ks : Ops[i][k].kind \in {"replace", "create"} /\ Ops[i][k].path = p THEN Output(i, r)
     ELSE IF \E k \in ks : Ops[i][k].kind \in {"delete", "move"} /\ Ops[i][k].path = p THEN Absent
     ELSE IF \E k \in ks : Ops[i][k].kind = "move" /\ Ops[i][k].to = p
     THEN disk[Ops[i][CHOOSE k \in ks : Ops[i][k].kind = "move" /\ Ops[i][k].to = p].path]
     ELSE disk[p]]

-----------------------------------------------------------------------------
(* Status of the plan *)

\* refreshDecisionStatus, after a decision, a revision or a deferral.
StatusAfterDecision(rows) ==
  LET has(ss) == \E i \in Items : rows[i].status \in ss
  IN IF \E i \in AutoItems : rows[i].status = "proposed" THEN "deciding"
     ELSE IF has({"proposed"}) THEN "awaiting_review"
     ELSE IF has({"approved"}) THEN "approved"
     ELSE IF has({"blocked", "stale", "verification_failed"}) THEN "failed"
     ELSE "completed"

\* A verification still pending is not looked for.
StatusAfterApply_ForgetsPending(rows) ==
  LET has(ss) == \E i \in Items : rows[i].status \in ss
  IN IF has({"approved", "applying"}) THEN "approved"
     ELSE IF has({"proposed"}) THEN "awaiting_review" ELSE "failed"

\* maintenancePlanStatusAfterApply.
StatusAfterApply(rows) ==
  LET has(ss) == \E i \in Items : rows[i].status \in ss
  IN IF has({"verification_pending"}) THEN "partially_completed"
     ELSE IF has({"approved", "applying"}) THEN "approved"
     ELSE IF \E i \in Items : rows[i].over THEN "partially_completed"
     ELSE IF \E i \in AutoItems : rows[i].status = "proposed" THEN "deciding"
     ELSE IF has({"proposed"}) THEN "awaiting_review"
     ELSE IF ~has(ItemStatus \ {"applied", "rejected"}) THEN "completed"
     ELSE "failed"

\* finalizeRetryableMaintenancePlans.
Finalized ==
  IF plan \in Terminal THEN plan
  ELSE IF \A i \in Items : item[i].status \in {"applied", "rejected"} THEN "completed"
  ELSE IF \A i \in Items : item[i].status \notin Open \cup {"proposed"} THEN "failed"
  ELSE plan

Live == {c \in Calls : call[c].pc \notin {"idle", "thrown"}}

HiddenBy(status, rows) ==
  IF status \in Terminal /\ (Live # {} \/ \E i \in Items : rows[i].status \in Recovery)
  THEN slips \cup {"hidden"} ELSE slips

\* A decision, a revision or a deferral rewrites rows and then the plan's status;
\* nothing there looks for work an interrupted apply has left.
Redecide(rows) ==
  /\ item' = rows
  /\ plan' = StatusAfterDecision(rows)
  /\ slips' = HiddenBy(plan', rows)

Init ==
  /\ disk = [p \in Paths |->
       IF \E i \in Items : \E k \in DOMAIN Ops[i] : p \in Touched(Ops[i][k]) \ Needs(Ops[i][k])
       THEN Absent ELSE Sealed]
  /\ item = NoRows
  /\ plan = StatusAfterDecision(NoRows)
  /\ changes = <<>>
  /\ call = [c \in Calls |-> Idle]
  /\ draft = [a \in {"human", "curator"} |-> NoDraft]
  /\ trouble = 0
  /\ assent = [i \in Items |-> 0]
  /\ blame = {}
  /\ late = {}
  /\ torn = {}
  /\ slips = {}

-----------------------------------------------------------------------------
(* Decisions, revisions, retirement *)

CanDecide_WhenRetired(i) == item[i].status \in Decidable

\* decideMaintenanceItem, for either actor.
CanDecide(i) == plan # "superseded" /\ item[i].status \in Decidable

Decided(i, status) == [item EXCEPT ![i].status = status, ![i].over = FALSE]

\* A person may approve any item, the curator those whose policy is "auto".
Decide(i, status, actor) ==
  /\ CanDecide(i)
  /\ Redecide(Decided(i, status))
  /\ assent' = [assent EXCEPT ![i] =
       IF status = "approved" /\ (actor = "human" \/ i \in AutoItems) THEN item[i].rev ELSE 0]
  /\ UNCHANGED <<disk, changes, call, draft, trouble, blame, late, torn>>

\* revisableMaintenanceHead, and the row sealMaintenanceRevision read.
Revisable(i) ==
  /\ plan \notin {"applying", "completed", "partially_completed", "superseded"}
  /\ item[i].status \in Decidable
  /\ \E k \in DOMAIN Ops[i] : Ops[i][k].kind \in {"replace", "create"}

StartRevision(i) ==
  /\ draft["human"] = NoDraft
  /\ item[i].rev < MaxRevision
  /\ Revisable(i)
  /\ draft' = [draft EXCEPT !["human"] = [at |-> i, row |-> item[i]]]
  /\ UNCHANGED <<disk, plan, item, changes, call, trouble, history>>

\* sealMaintenanceRevision after its preflight: refused when the inputs are no
\* longer the sealed ones or another revision came first; the status is not read
\* again.
SealRefused(a) == LET i == draft[a].at IN
  ~All(i, draft[a].row.rev, "before") \/ item[i].rev # draft[a].row.rev

Revised_KeepsDecision(i) ==
  [item EXCEPT ![i] = [NewRow EXCEPT !.rev = item[i].rev + 1, !.status = item[i].status]]

Revised(i) == [item EXCEPT ![i] = [NewRow EXCEPT !.rev = item[i].rev + 1]]

\* An item somebody reached into meanwhile.
Late(a) == LET i == draft[a].at IN
  IF item[i].status \notin Decidable THEN blame \cup {i} ELSE blame

Seal ==
  /\ draft["human"] # NoDraft
  /\ IF SealRefused("human") THEN UNCHANGED <<item, plan, slips, blame, assent>>
     ELSE /\ Redecide(Revised(draft["human"].at))
          /\ blame' = Late("human")
          /\ assent' = [assent EXCEPT ![draft["human"].at] = 0]
  /\ draft' = [draft EXCEPT !["human"] = NoDraft]
  /\ UNCHANGED <<disk, changes, call, trouble, late, torn>>

\* supersedeMaintenancePlan.
\* busy: an apply, a revision or a dream run is at work on the plan.
Supersede(busy) ==
  /\ plan \in {"awaiting_review", "approved"}
  /\ \A i \in Items : item[i].status \notin Recovery \cup {"applied", "verification_failed"}
  /\ plan' = "superseded"
  /\ slips' = IF busy THEN slips \cup {"retired"} ELSE slips
  /\ UNCHANGED <<disk, item, changes, call, draft, trouble, assent, blame, late, torn>>

-----------------------------------------------------------------------------
(* Apply *)

\* assertMaintenancePlanApplicable; the same condition makes a keyed apply resumable.
Applicable(only) ==
  /\ plan \in {"awaiting_review", "approved", "applying", "partially_completed"}
  /\ \E i \in only : item[i].status \in Open

Entry(status) ==
  CASE status = "approved" -> "check"
    [] status = "applying" -> "recover"
    [] OTHER -> "resume"

\* applyMaintenancePlanOnce reads the whole plan and goes by what it read.
Begin(c, only) ==
  LET i == Min({j \in only : item[j].status \in Open}) IN
  /\ call[c].pc = "idle"
  /\ Applicable(only)
  /\ plan' = "applying"
  /\ call' = [call EXCEPT ![c] = [pc |-> Entry(item[i].status), at |-> i, k |-> 0, left |-> {},
                                  only |-> only, seen |-> [j \in Items |-> IF j \in only THEN item[j] ELSE NewRow], spent |-> call[c].spent]]

Apply(c) ==
  /\ Begin(c, Items)
  /\ UNCHANGED <<disk, item, changes, draft, trouble, history>>

At(c) == call[c].at
Rev(c) == call[c].seen[At(c)].rev

\* updateItemStatus.
Marked(i, status, proof) == [item EXCEPT ![i].status = status, ![i].proof = proof]

\* blockItem: the decision is withdrawn too.
Blocked(i) == [item EXCEPT ![i].status = "blocked", ![i].over = FALSE]

\* What is left of the call when it is over: the dream's next one shares its budget.
Ended(c, pc) == [Idle EXCEPT !.pc = pc, !.spent = IF c = Dreamer THEN call[c].spent ELSE {}]

\* The loop goes on to the next item that was open when the call began, or ends
\* with refreshApplyStatus.
Proceed(c, rows) ==
  LET later == {j \in call[c].only : j > At(c) /\ call[c].seen[j].status \in Open} IN
  /\ item' = rows
  /\ IF later = {}
     THEN /\ plan' = StatusAfterApply(rows)
          /\ call' = [call EXCEPT ![c] = Ended(c, "idle")]
     ELSE /\ call' = [call EXCEPT ![c] = [call[c] EXCEPT
                        !.pc = Entry(call[c].seen[Min(later)].status), !.at = Min(later),
                        !.k = 0, !.left = {}, !.seen[At(c)] = NewRow]]
          /\ UNCHANGED plan

\* The error leaves the plan as it is. A person's call is over; the dream's is
\* reported to its run.
Throw(c, rows) ==
  /\ item' = rows
  /\ call' = [call EXCEPT ![c] = Ended(c, IF c = Dreamer THEN "thrown" ELSE "idle")]
  /\ UNCHANGED plan

\* The call goes on with the same item at pc, for the row it now holds.
Continue(c, pc, rows, left) ==
  /\ item' = rows
  /\ call' = [call EXCEPT ![c] = [call[c] EXCEPT !.pc = pc, !.left = left,
                !.seen = [call[c].seen EXCEPT ![At(c)] = rows[At(c)]]]]
  /\ UNCHANGED plan

\* The row the call works from is no longer the item's, or another call has it.
Overlapped(c) ==
  \/ item[At(c)] # call[c].seen[At(c)]
  \/ \E d \in Live \ {c} : At(d) = At(c)

Enter(c) == blame' =
  IF Overlapped(c) THEN blame \cup {At(c)} ELSE blame

Fault == trouble < MaxTrouble /\ trouble' = trouble + 1

\* Where a call may write without looking at the files of its item again.
Writing == {"mend", "write", "restore", "undo"}

\* The files of items that hold foreign bytes in D, seen by no look of a call that
\* may yet write them.
Unseen(D) == UNION {PathsOf(At(c)) :
  c \in {d \in Calls : call[d].pc \in Writing /\ \E p \in PathsOf(At(d)) : D[p] = Foreign}}

\* A call has written the files ps: it has reached into the items that share them.
Put(c, D, ps) ==
  /\ disk' = D
  /\ late' = late \cup Unseen(D)
  /\ blame' = blame \cup {j \in Items \ {At(c)} : PathsOf(j) \cap ps # {}}

NoPut == UNCHANGED <<disk, late, blame>>

\* journal.record and setItemChange are two statements.
Recorded(i, r) == Append(changes, [item |-> i, rev |-> r, undone |-> FALSE])

Matching_Never(i, r) == {}

\* findMatchingJournalChange.
Matching(i, r) == {n \in DOMAIN changes : changes[n].item = i /\ changes[n].rev = r /\ ~changes[n].undone}

\* recoverInterruptedApply.
Recover(c) == LET i == At(c)  r == Rev(c) IN
  /\ call[c].pc = "recover"
  /\ Enter(c)
  /\ \/ /\ All(i, r, "before")
        /\ Continue(c, "check", Marked(i, "approved", "none"), {})
        /\ UNCHANGED changes
     \/ /\ Some(i, r, "other")
        /\ Proceed(c, Marked(i, "verification_failed", "failed"))
        /\ UNCHANGED changes
     \/ /\ ~Some(i, r, "other") /\ Some(i, r, "before") /\ Some(i, r, "after")
        /\ Continue(c, "mend", item, {k \in DOMAIN Ops[i] : StateOf(i, Ops[i][k], r) = "after"})
        /\ UNCHANGED changes
     \/ /\ All(i, r, "after")
        /\ LET known == IF call[c].seen[i].change # 0 THEN {call[c].seen[i].change} ELSE Matching(i, r)
               rows(n) == [Marked(i, "verification_pending", "pending") EXCEPT ![i].change = n]
           IN IF known # {}
              THEN Continue(c, "resume", rows(Max(known)), {}) /\ UNCHANGED changes
              ELSE Continue(c, "resume", rows(Len(changes) + 1), {}) /\ changes' = Recorded(i, r)
  /\ UNCHANGED <<disk, draft, trouble, assent, late, torn, slips>>

\* One operation of a partly written item is put back, the last one first.
Mend(c) == LET i == At(c)  k == Max(call[c].left) IN
  /\ call[c].pc = "mend"
  /\ call[c].left # {}
  /\ \/ /\ Restorable(Ops[i][k])
        /\ Put(c, Restored(Ops[i][k]), Touched(Ops[i][k]))
        /\ Continue(c, "mend", item, call[c].left \ {k})
        /\ UNCHANGED trouble
     \/ /\ IF Restorable(Ops[i][k]) THEN Fault ELSE UNCHANGED trouble
        /\ Throw(c, Marked(i, "verification_failed", "failed"))
        /\ NoPut
  /\ UNCHANGED <<changes, draft, assent, torn, slips>>

Mended(c) ==
  /\ call[c].pc = "mend"
  /\ call[c].left = {}
  /\ Continue(c, "check", Marked(At(c), "approved", "none"), {})
  /\ UNCHANGED <<disk, changes, draft, trouble, history>>

\* reserveMaintenanceBudget: the whole item or nothing.
Affordable(spent, i) ==
  /\ Cardinality(spent \cup {i}) <= MaxItems
  /\ Cardinality(UNION {PathsOf(j) : j \in spent \cup {i}}) <= MaxFiles

\* preflightItem and the budget before the first write.
Check(c) == LET i == At(c) IN
  /\ call[c].pc = "check"
  /\ Enter(c)
  /\ \/ /\ ~All(i, Rev(c), "before")
        /\ Proceed(c, Marked(i, "stale", "failed"))
        /\ UNCHANGED trouble
     \/ /\ Fault   \* a destination, an identity or a rule changed since planning
        /\ Proceed(c, Blocked(i))
     \/ /\ All(i, Rev(c), "before")
        /\ ~Affordable(call[c].spent, i)
        /\ Proceed(c, [Marked(i, "proposed", "none") EXCEPT ![i].over = TRUE])
        /\ UNCHANGED trouble
     \/ /\ All(i, Rev(c), "before")
        /\ Affordable(call[c].spent, i)
        /\ item' = Marked(i, "applying", "none")
        /\ call' = [call EXCEPT ![c].pc = "write", ![c].k = 0, ![c].spent = call[c].spent \cup {i}]
        /\ UNCHANGED <<plan, trouble>>
  /\ UNCHANGED <<disk, changes, draft, assent, late, torn, slips>>

\* The next operation, or its failure, after which those written are put back.
Write(c) == LET i == At(c)  k == call[c].k + 1 IN
  /\ call[c].pc = "write"
  /\ k \in DOMAIN Ops[i]
  /\ \/ /\ Possible(Ops[i][k])
        /\ Put(c, Performed(i, Ops[i][k], Rev(c)), Touched(Ops[i][k]))
        /\ call' = [call EXCEPT ![c].k = k]
        /\ UNCHANGED trouble
     \/ /\ IF Possible(Ops[i][k]) THEN Fault ELSE UNCHANGED trouble
        /\ call' = [call EXCEPT ![c].pc = "restore", ![c].left = 1 .. call[c].k]
        /\ NoPut
  /\ UNCHANGED <<plan, item, changes, draft, assent, torn, slips>>

Record(c) == LET i == At(c)  n == Len(changes) + 1 IN
  /\ call[c].pc = "write"
  /\ call[c].k = Len(Ops[i])
  /\ \/ /\ changes' = Recorded(i, Rev(c))
        /\ item' = [item EXCEPT ![i].change = n]
        /\ call' = [call EXCEPT ![c].pc = "index", ![c].seen[i].change = n]
        /\ UNCHANGED trouble
     \/ /\ Fault
        /\ call' = [call EXCEPT ![c].pc = "restore", ![c].left = DOMAIN Ops[i]]
        /\ UNCHANGED <<changes, item>>
  /\ UNCHANGED <<disk, plan, draft, history>>

\* restoreOperations after a write or a record that failed.
Restore(c) == LET i == At(c)  k == Max(call[c].left) IN
  /\ call[c].pc = "restore"
  /\ call[c].left # {}
  /\ \/ /\ Restorable(Ops[i][k])
        /\ Put(c, Restored(Ops[i][k]), Touched(Ops[i][k]))
        /\ call' = [call EXCEPT ![c].left = call[c].left \ {k}]
        /\ UNCHANGED <<plan, item, trouble>>
     \/ /\ IF Restorable(Ops[i][k]) THEN Fault ELSE UNCHANGED trouble
        /\ Throw(c, Marked(i, "verification_failed", "failed"))
        /\ NoPut
  /\ UNCHANGED <<changes, draft, assent, torn, slips>>

GiveUp(c) ==
  /\ call[c].pc = "restore"
  /\ call[c].left = {}
  /\ Proceed(c, Blocked(At(c)))
  /\ UNCHANGED <<disk, changes, draft, trouble, history>>

\* resumeVerification of an item whose index pass failed or was interrupted.
Resume(c) == LET i == At(c) IN
  /\ call[c].pc = "resume"
  /\ Enter(c)
  /\ IF All(i, Rev(c), "after") THEN Continue(c, "index", item, {})
     ELSE Proceed(c, Marked(i, "verification_failed", "failed"))
  /\ UNCHANGED <<disk, changes, draft, trouble, assent, late, torn, slips>>

\* indexMaintenanceItem.
Index(c) ==
  /\ call[c].pc = "index"
  /\ \/ /\ call' = [call EXCEPT ![c].pc = "verify"]
        /\ UNCHANGED <<plan, item, trouble>>
     \/ /\ Fault
        /\ Proceed(c, Marked(At(c), "verification_pending", "pending"))
  /\ UNCHANGED <<disk, changes, draft, history>>

\* finishVerification: exact bytes on disk and in the index, or the change is undone.
Verify(c) == LET i == At(c)  n == call[c].seen[i].change IN
  /\ call[c].pc = "verify"
  /\ \/ /\ All(i, Rev(c), "after")
        /\ Proceed(c, Marked(i, "applied", "passed"))
        /\ UNCHANGED trouble
     \/ /\ IF All(i, Rev(c), "after") THEN Fault ELSE UNCHANGED trouble
        /\ IF n # 0 /\ ~changes[n].undone /\ All(i, Rev(c), "after")
           THEN /\ call' = [call EXCEPT ![c].pc = "undo", ![c].left = DOMAIN Ops[i]]
                /\ UNCHANGED <<plan, item>>
           ELSE Proceed(c, Marked(i, "verification_failed", "failed"))
  /\ UNCHANGED <<disk, changes, draft, history>>

\* journal.undo; a reversal that fails puts the post-change files back.
Undo(c) == LET i == At(c)  k == Max(call[c].left) IN
  /\ call[c].pc = "undo"
  /\ call[c].left # {}
  /\ \/ /\ Restorable(Ops[i][k])
        /\ Put(c, Restored(Ops[i][k]), Touched(Ops[i][k]))
        /\ call' = [call EXCEPT ![c].left = call[c].left \ {k}]
        /\ UNCHANGED <<plan, item, trouble>>
     \/ /\ IF Restorable(Ops[i][k]) THEN Fault ELSE UNCHANGED trouble
        /\ LET ks == DOMAIN Ops[i] \ call[c].left IN
           Put(c, Redone(i, Rev(c), ks), UNION {Touched(Ops[i][l]) : l \in ks})
        /\ Proceed(c, Marked(i, "verification_failed", "failed"))
  /\ UNCHANGED <<changes, draft, assent, torn, slips>>

Undone(c) ==
  /\ call[c].pc = "undo"
  /\ call[c].left = {}
  /\ changes' = [changes EXCEPT ![call[c].seen[At(c)].change].undone = TRUE]
  /\ call' = [call EXCEPT ![c].pc = "reindex"]
  /\ UNCHANGED <<disk, plan, item, draft, trouble, history>>

Reindex(c) ==
  /\ call[c].pc = "reindex"
  /\ \/ /\ Proceed(c, Marked(At(c), "verification_failed", "rolled_back"))
        /\ UNCHANGED trouble
     \/ /\ Fault
        /\ Proceed(c, Marked(At(c), "verification_failed", "failed"))
  /\ UNCHANGED <<disk, changes, draft, history>>

-----------------------------------------------------------------------------
(* Environment *)

\* An editor saves a file that holds nothing foreign yet, at any time.
Edit(p) ==
  /\ trouble < MaxTrouble
  /\ disk[p] # Foreign
  /\ disk' = [disk EXCEPT ![p] = Foreign]
  /\ trouble' = trouble + 1
  /\ blame' = blame \cup {i \in Items : p \in PathsOf(i)}
  /\ late' = late \cup Unseen(disk')
  /\ UNCHANGED <<plan, item, changes, call, draft, assent, torn, slips>>

\* The process dies, perhaps between recording a change and writing its id down. A
\* rollback it cuts short leaves the files, or the row, between two changes.
Died ==
  /\ trouble < MaxTrouble
  /\ trouble' = trouble + 1
  /\ call' = [c \in Calls |-> Idle]
  /\ draft' = [a \in DOMAIN draft |-> NoDraft]
  /\ \/ UNCHANGED <<changes, blame>>
     \/ \E c \in Calls : /\ call[c].pc = "write" /\ call[c].k = Len(Ops[At(c)])
                         /\ changes' = Recorded(At(c), Rev(c))
                         /\ UNCHANGED blame
     \/ \E c \in Calls : /\ call[c].pc = "recover" /\ All(At(c), Rev(c), "after")
                         /\ call[c].seen[At(c)].change = 0 /\ Matching(At(c), Rev(c)) = {}
                         /\ changes' = Recorded(At(c), Rev(c))
                         /\ Enter(c)
  /\ torn' = torn \cup {At(c) : c \in {d \in Calls : call[d].pc \in {"undo", "reindex"}}}
  /\ UNCHANGED <<disk, plan, item, assent, late, slips>>

ApplyStep(c) ==
  \/ Recover(c) \/ Mend(c) \/ Mended(c) \/ Check(c) \/ Write(c) \/ Record(c) \/ Restore(c)
  \/ GiveUp(c) \/ Resume(c) \/ Index(c) \/ Verify(c) \/ Undo(c) \/ Undone(c) \/ Reindex(c)

Working == Live # {} \/ \E a \in DOMAIN draft : draft[a] # NoDraft

PlanNext(busy) ==
  \/ \E i \in Items : StartRevision(i) \/ \E s \in {"approved", "rejected"} : Decide(i, s, "human")
  \/ Seal \/ Supersede(busy)
  \/ \E c \in People : Apply(c)
  \/ \E c \in Calls : ApplyStep(c)
  \/ \E p \in Paths : Edit(p)

Spec == Init /\ [][PlanNext(Working) \/ Died]_planVars

-----------------------------------------------------------------------------
CallType == [
  pc : {"idle", "thrown", "check", "recover", "mend", "write", "restore", "resume",
        "index", "verify", "undo", "reindex"},
  at : Items \cup {0}, k : Nat, left : SUBSET Nat, only : SUBSET Items,
  seen : [Items -> Row], spent : SUBSET Items]

\* The types of the rows, the files and the calls.
TypeOK ==
  /\ disk \in [Paths -> Contents]
  /\ plan \in PlanStatus
  /\ item \in [Items -> Row]
  /\ changes \in Seq([item : Items, rev : Revisions, undone : BOOLEAN])
  /\ call \in [Calls -> CallType]
  /\ draft \in [{"human", "curator"} -> [at : Items \cup {0}, row : Row]]
  /\ trouble \in Nat
  /\ assent \in [Items -> 0 .. MaxRevision]

\* An item is all or nothing. Nobody else having reached into it, no editor and no
\* item that shares a file with it, and no call working on it, its status tells what
\* its files hold: the sealed inputs when it is undecided, refused, deferred or rolled
\* back, the revision's outputs when it is applied, and these with a journal change
\* that stands when it is applied or waits for verification and no crash cut a rollback
\* of it short. It holds through failing writes, failing restores and crashes at any
\* await.
OutcomeTellsDisk == \A i \in Items \ blame : (\A c \in Live : At(c) # i) =>
  LET row == item[i] IN
  /\ (row.status \in Decidable \cup {"stale"} \/ row.proof = "rolled_back") => All(i, row.rev, "before")
  /\ row.status = "applied" => All(i, row.rev, "after")
  /\ row.status \in {"applied", "verification_pending"} /\ i \notin torn =>
       /\ All(i, row.rev, "after")
       /\ row.change # 0
       /\ changes[row.change] = [item |-> i, rev |-> row.rev, undone |-> FALSE]

\* Bytes no plan knows are never overwritten, by an apply, by a recovery of what
\* a crash left, by a rollback or through another item that shares the file, unless
\* they came after the last look that the call at work takes at its item's files.
ForeignKept == [][\A p \in Paths \ late : disk[p] = Foreign => disk'[p] = Foreign]_planVars

\* An item has at most one applied change in the journal, and its row names it: a
\* recovery finds the change a crash kept from being written down.
OneChange == \A n \in DOMAIN changes :
  LET i == changes[n].item IN
  ~changes[n].undone /\ i \notin blame \cup torn => item[i].change = n \/ item[i].status = "applying"

\* What an apply writes is the revision that a person has approved, or for an
\* automatic item the curator, and that nobody has rejected since: a decision never
\* carries over to a later revision.
OnlyApproved == \A c \in Calls : call[c].pc = "write" =>
  assent[At(c)] = Rev(c) \/ At(c) \in blame

\* A plan that is over has no item left half-way, which no later apply or dream
\* would look for, unless its status was written over work in progress.
NothingStranded ==
  plan \in Terminal /\ slips = {} => \A i \in Items \ blame : item[i].status \notin Recovery

\* A retired plan stays retired and writes nothing, when nobody was at work on it
\* as it was retired.
RetiredIsFinal ==
  [][plan = "superseded" /\ slips = {} =>
       plan' = "superseded" /\ \A p \in Paths : disk'[p] \in {disk[p], Foreign}]_planVars
=============================================================================
