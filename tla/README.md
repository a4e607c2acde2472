# akno in TLA+

akno keeps a personal knowledge base: Markdown pages and attachments in a directory, an
SQLite index derived from them, a journal that makes every change undoable, and a
background "dream" that plans and applies maintenance. This directory holds TLA+ models
of the parts whose correctness depends on orders of events, the TLC runs that check them
on small instances, and proofs, checked by TLAPS, of what holds for every value of the
constants. Paths below are relative to `src/packages` (`core` is `core/src`).

* [1 Inventory](#1-inventory) – the system's parts and what makes each correct
* [2 Modules](#2-modules) – how each module's state and actions correspond to the code
* [3 Runs](#3-runs) – what each run asks, its bounds, what it shows
* [4 Disagreements](#4-disagreements-between-the-code-and-what-it-says) – runs that end in a counterexample
* [5 Fairness](#5-fairness)
* [6 Proofs](#6-proofs)
* [7 What is abstracted and what is left out](#7-what-is-abstracted-and-what-is-left-out)
* [8 Not modelled](#8-not-modelled)

`PROJECT.json` is the index: components, runs, the source lines behind every definition,
the hazards and the properties that cover them, and for each property a wrong variant of
some definition under which it fails. Those variants are called
`<Definition>_<WhatGoesWrong>`, stand in front of the definition they vary, and are used by
no action.

## 1 Inventory

| part | state it keeps | operations | what is hard | what makes it correct |
|---|---|---|---|---|
| **index revision lane** `core/index/revision-barrier.ts` | a queue of passes, the running pass, a held barrier, its reservation | `run`, `runForeground`, `invalidateForForeground`, `acquirePlannerBarrier`, `release` | foreground writes arrive at any moment of a planner's phase; release drains a queue that keeps growing | a planner reads one revision or is told it did not; foreground work never waits for a planner; nothing is stuck or lost |
| **change journal and undo** `core/write/journal.ts`, `core/ops/move.ts`, `forget.ts`, `write.ts`, `undo.ts` | `changes`, `change_files`, the files, the trash | read pages, write files, `record`, or put the files back; `undo` = preflight, reverse, commit, or roll back | files and table are not one transaction: faults, crashes, outside edits, undos in any order; texts read long before they are written back | the journal's status agrees with the files; a failed operation leaves no trace; an undo is refused only for a cause |
| **replay-safe mutations** `core/write/mutation-receipts.ts` | `mutation_receipts`, the in-process active set | `executeReplaySafeMutation`, `beginMutation`, recovery on open | retries race the first call; crashes between any two steps; a second handle's recovery races live calls | a key is applied at most once; a success stands for a recorded change |
| **write lock** `core/store/db.ts`, `core/open.ts` | a lock file holding a pid | acquire with a handover wait, release | stale files, reused pids, two handles of one process | one process writes |
| **atomic file writes** `core/write/atomic.ts` | page, sibling temporary file, storage | `writeFileAtomic`, `restoreFile` | power failure, failing calls, leftover temporary files | readers see whole texts; a call is one replacement |
| **watcher and deferred derivation** `core/watch/watcher.ts`, `core/index/defer.ts` | pending paths, timers, a running pass | schedule, flush, sweep, stop | debounce against a running pass; a failing pass | every change is eventually indexed |
| **page operations** `core/ops/write.ts`, `remember.ts`, `forget.ts`, `folder.ts` | pages | read, edit, write, record, index | read–edit–write across awaits | no edit is lost silently |
| **gate and proposals** `core/write/gate.ts`, `core/open.ts` | held writes | propose, approve, reject | two answers to one proposal | a proposal is applied at most once and never after a rejection |
| **maintenance plans** `core/maintenance/plans.ts`, `recovery.ts` | plans and items with statuses | plan, approve, apply (keyed), resume, pause | crash in the middle of an item; stale evidence | an item is applied once and to what was approved |
| **dream runs** `core/maintenance/dream.ts`, `runs.ts`, `budget.ts` | run rows, a budget | start, phases, finish, recover | another handle recovers a run that lives | one outcome per run |
| **curation** `core/maintenance/curate.ts` | – | model-driven text transformation | – | its writes go through plans |
| **indexer** `core/index/indexer.ts`, `page-quarantine.ts` | derived tables | index pass, quarantine | files change while a pass reads them | the index converges on the files |
| **retention** `core/ops/retain.ts`, `core/write/retain*.ts` | retain receipts | stage, write, receipt | partial failure of a batch | a receipt stands for what was written |
| **ingest and inbox** `core/ops/ingest.ts`, `core/ingest/` | inbox files | file an arrival | failure half way | filed once or left |
| **model client** `core/models/` | – | one call with attempts and fallback | deadlines | attempts are bounded |
| **timeline** `core/timeline/` | – | pure functions of dates | boundaries | agree with a reference |
| **store and migrations** `core/store/` | schema | migrate | – | transactions are atomic |
| **service and protocol** `cli/src/serve/`, `client/` | sessions | requests, concurrently | no request waits for another | framing; no serialisation is promised |
| **dream scheduling** `cli/src/commands/dream-*.ts` | schedule state | run, skip, catch up | clock and downtime | a due dream runs once |
| **recall and answers** `core/ops/recall.ts`, `answer.ts` | – | read-only | – | – |
| **configuration** `core/config/`, `core/doctor.ts` | – | load, report | – | – |

How they interact. The CLI, the service and the desktop shell open the knowledge base
(`open.ts`), which takes the **write lock** and recovers unfinished **receipts**. Every
operation of the service runs on one JavaScript thread, interleaved with the others at each
`await`; nothing serialises operations. A mutating operation may run under a **receipt**,
writes its files through **atomic writes**, records a change in the **journal** (which
commits the receipt in the same transaction), and has the touched paths indexed as a
foreground pass of the **lane**. The **watcher** and the **deferred derivation** send ordinary passes to the lane. A
**dream** holds the lane's barrier while its planners read, releases it, and then applies
a **maintenance plan** through the same page operations. **Undo** reverses files, marks the
change undone and repairs the index.

## 2 Modules

An action is the code between two awaits (JavaScript runs to completion in between), or one
system call where processes interleave. A SQLite transaction is one step.

### IndexRevision — `core/index/revision-barrier.ts`

`lane` is the coordinator's private fields: `queue` (`#queue`), `running` (`#running` and
whose work it is), `held` (`#barrierHeld`), `reserved` (`#barrierReserved`), `active`
(`ActiveBarrierState`, with the planner whose `acquire` it resolved). `kind` and `done`
describe the works, `pc` and `snapshot` the planner of `maintenance/dream.ts`; `owed` is
history. `Drain` is `#drain`, written without recursion: `LaneInv` says that at most one
marker (barrier or checkpoint) waits, so draining past a checkpoint takes one more step at
most. `Run`, `RunForeground`, `InvalidateForForeground`, `Acquire` and `Release` are the
methods with the drain each ends with; `FinishWork` is the settling of a pass;
`CaptureSnapshot` and `BeginApply` are the continuations of the two promises the dream
awaits. A foreground request before a queued barrier, under an acquired barrier, under a
releasing one and in a free lane are the four cases of `Foregrounded`.

### Journal — `core/write/journal.ts`, `core/ops/move.ts`, `forget.ts`, `write.ts`, `undo.ts`

`disk` and `trash` are the files, `rows` the `change_files`, `status` the `changes` row,
`writer` where an operation is, `undo` each running call of undo. `Read` is the beginning of
an operation, which reads its pages (`images[c][1]`) awaits before it writes; anyone may write
them in between. `WriteStep` performs the next file step of its plan: `Stepped` are the files
after it, `RowOf` its `ChangeFile`. A "write" keeps in its row the text it finds at that
moment. A "remove" (the page of a move) and a "delete" (of a forget, into the trash) keep the
text the operation *read* (`move.ts:102`, `forget.ts:237`). A "create" (the new page of a move,
`move.ts:130`) keeps nothing, whatever was there; neither that, nor the rename, nor the copy
of an attachment looks at what is at its destination (`Landing`, `Replaces`). Steps come in the
order of the rows, in which a moved page is removed before its new page is written; the code
writes the new page first. `Rewrite` is a second write of a page the operation has written
already, the embeds of what it has attached since (`write.ts:252`) or the next line of an event
ledger: the row keeps its first text before and gets the last text after.

`Record` is the transaction that follows, which reads `after_hash` of moved and attached files
*then*. `Fail` is a step, or the record, that throws. Before the operation's try block
(`Guarded`), or without one, its files stay as they are, under no change at all ("lost");
inside, `PutBack` is the catch block (`move.ts:143`, `forget.ts:96`, `192`, `273`), a file at a
time, the last one first; it may throw itself. `BeginUndo`, `Preflight`, `Reverse`, `Commit`,
`Rollback` are the parts of `undo` between its awaits, `UndoFault` a throwing reversal or
transaction. `Edit`, `LoseTrash` and `Crash` are the environment. `Twice` says whether two calls
may undo one change at once, which nothing in the code prevents: the properties are stated
without it, and `journal_undo_twice` shows what it does.

`images` and `disturbed` are history: the change's files as it read them and as its first rows
make them, and who else has touched them since it *read*. They are what the properties are
stated with: a property speaks of a change while nobody else touched its files
(`disturbed[c] = {}`), and undoing a later change of the same files takes that change off the
list again. The other `Reasons` stay: an editor, a crash in the undo, a failing rollback, a file
`replaced` by a landing, an operation that wrote while this one had not finished (`overlap`), or
put its files back after a failure, or an `undo` of a change it did not lie under (`undo`).

`PlanAssumption` is what the operations provide: an operation has at least one row, and at most
one for a file, unless two of its steps land there unseen (two identical documents of one write
have one content-addressed name). A move whose attachment's new name is the old name of another
one is thereby excluded.

### MutationReceipts — `core/write/mutation-receipts.ts`

`receipts` is the table, `active` the module's live set, `calls` the running calls of
`executeReplaySafeMutation`. `Start` reads or reserves the row; `Precondition` is an
outcome that releases the key; `Begin` is `beginMutation`, `Write` the first changed file,
`Record` the journal transaction with its receipt update, `Complete` the end with
`assertJournalCommit`, and `Fail` a throw at any await. `Open` is
`recoverInterruptedMutationReceipts`, enabled at any time, because a process may open the
same knowledge base again while calls run. `Crash` forgets calls and live set, never rows.
`effects`, `journal` and `undone` are history.

### WriteLock — `core/store/db.ts`, `core/open.ts`

`lock` is the pid in the lock file, `alive` the living pids, `handle` the state of each open.
`Open`, `Pass`/`GiveUp`, `Take` and `Name` are acquire: read and judge (`Refused`: a live owner
that is another process), empty the file, write the pid; each of the two writes may fail, and
the knowledge base is then read-only. The wait for a handover is the repetition of the look, up
to a deadline that may pass at any time. `Throw` is an open that fails after it took the lock.
`Close` and `Unlink` are release: compare the pid, unlink, while other processes may be polling,
as a restart makes them. `Die` and `Launch` are the environment: pids come back. Two handles of
one process are never inside at once, the code being synchronous; the system calls of different
processes interleave freely, and a process may have any number of handles. What gives way then
is recorded: `blame` says of each handle whether it judged the file while another was about to
write it, or the other way round ("race"), and whether another handle of its process took or
removed the file under it ("shared"); whoever loses the lock to a handle that was itself caught
inherits its blame. The properties exempt these handles and nobody else.

### AtomicReplace and AtomicWrite — `core/write/atomic.ts`

`AtomicReplace` is the promise: a call replaces a page in one step, returns the text that
step replaced, and a power failure brings back texts the page has had. `AtomicWrite` is
the code, one action per system call (`Read`, `OpenTemp`, `WriteChunk`, `Sync`, `Rename`;
`Remove` for `restoreFile` to no file; `Fail` anywhere), over a file system with inodes,
directory entries and a storage that lags behind (`WriteBack`, `FlushEntry`,
`PowerFailure`). A text is `Chunks` chunks, each naming its text; `Seen` is a whole text
or `Hole`. The refinement mapping is `Atomic`.

### MaintenancePlan — `core/maintenance/plans.ts`

One sealed plan. `plan` and `item` are the rows of `maintenance_plans` and
`maintenance_items`, `disk` the files of its items, `changes` its journal changes, `call`
the running `applyMaintenancePlanOnce` calls: where each stands (`pc`, `at`, `k`), what is
still to put back (`left`) and the rows it read when it began (`seen`), which is all it goes
by. `draft` are revisions in their preflight. A file holds nothing, the sealed input, the
output of a revision, or `Foreign` bytes no plan knows; `StateOf` is `operationState`.
`Decide`, `StartRevision`/`Seal` and `Supersede` are what people (and, for decisions and
revisions, the curator) do. `Begin` enters the loop; an item is then at `Recover`
(`recoverInterruptedApply`, with `Mend`/`Mended` for a half-written one), `Check` (preflight
and budget), `Write`, `Record`, `Restore`/`GiveUp`, `Resume`, `Index`, `Verify`, `Undo`,
`Undone`, `Reindex`; `Proceed` goes on to the next item or ends with the status of
`maintenancePlanStatusAfterApply`, `Throw` leaves the plan as it is. `Edit`, `Fault` and
`Died` are the environment. Nothing serialises the operations of a plan, so decisions,
revisions and a retirement land between the awaits of an apply; five history variables say
so: `assent`, the revision whose approval stands; `blame`, items somebody else reached into
(an editor, a second call, a revision or a curator's block over a later decision, another item
of the plan that wrote a file of theirs); `late`, files of an item that foreign bytes got into
after a call's last look at it and before its last write (`Writing`, `Unseen`); `torn`, items
whose rollback, the undo or the re-index after it, a crash cut short before the row was written;
`slips`, how the plan's status came to be wrong.

Items of a plan may share files: the observe planner makes an item of every stale observation of
a page, and sealing does not look at that. `Put`, the write of a call, blames the other
items of the files it writes. `PlanAssumption` is what `supportedOperations` and the sealing
provide: no item without an operation or with a path twice, and all items sealed against one
snapshot of the files, so that what one item finds there another does not create.

### DreamRun — `core/maintenance/dream.ts`, `runs.ts`, `recovery.ts`

Extends `MaintenancePlan` with the dream's apply call as one of its calls. `runs` are the
receipts' statuses, `owned` the module's `ownedRunIds`, `dream` the run of this process,
`recovery` the streak and the two pauses, `counted` the items with `recovery_recorded_at`.
`BeginRun` recovers abandoned runs, refuses beside a live one and fails under a pause;
`Plan` finalises and takes up the plan, `Settle` is `deferStaleMaintenanceItems`, the
`Curator…` actions are the steps of `decideMaintenancePlanWithCurator` between its model
calls, before which `Curate` blocks the later of two items in conflict (`Conflicting`,
`Deferred`: `findMaintenanceDependencyConflicts` and `blockMaintenanceDependencies`, among the
files of the items). `ApplyNext` applies one item under the shared budget. `VerifyRun`
(`verifyDreamRun`, with `Superseded` for `supersededAppliedPaths`), `RecordOutcomes`
(`recordMaintenanceRecovery`) and `Complete` (`completeDreamRun`, after the awaited log) are
three steps, between which a person's apply may change what they look at. `Fail` ends a run that
throws anywhere, the log included, and records the outcomes, perhaps a second time; it may
fail itself and leave them unrecorded, as the code swallows. `Reopen` is another handle of the process, `Crash` the
end of the process with the reopening after it.

### Reconcile — `core/watch/watcher.ts`, `core/index/defer.ts`, `core/index/indexer.ts`

`disk` is a body and a modification time per file, `row` the `files` row (time, hash) with
the body of the page row, `events` what the system has not delivered yet. `pending`, `dirty`
and `timer` are the watcher's fields; `pass` has its running pass of the indexer and that of the
derivations: `Scan` takes the stats and picks what to hash, `Hash` reads a file, `Sort` touches
the unchanged and removes the vanished, `Read` reads again and writes the row with the *first*
stat and hash. A file that cannot be hashed or read, an evicted placeholder among them, is
warned of (`Warned`), keeps its row, and the pass succeeds. `lane` is the order of passes in the
revision lane; the first one runs. `Notice`,
`NoticeSomething`, `Debounce`, `Sweep`, `Verify` and `ReconcileNow` are the callers of
`Flush`; `Done` and `Failed` its end. `queue` and `drain` are the deferred
derivation, each batch a pass of its own that trusts no modification time, where `drain = "over"` is the moment between the end of the loop and the
`finally` that clears the promise; `closing` is `close`. `known`, `owed` and `quiet` are
history: changes that were reported and that no pass threw on or warned of, derivations asked
for and not tried, and saves that kept the time.

## 3 Runs

| run | instance | question and answer |
|---|---|---|
| `revision` | 3 works, 2 planners | A planner on an unbroken barrier reads the revision it captured (`FixedRevision`, `RevisionMatches`); foreground passes never wait behind it (`ForegroundNotHeld`); the fields are consistent (`LaneConsistent`), the reservation never leaks (`ReservedByOne`), the lane never idles with runnable work (`NeverIdle`), a planner that applies has let everything queued during its plan finish (`OwedDone`), and no pass requested after the release starts before the checkpoint (`DrainIsExact`). Foreground passes and releases complete even if a planner never releases (`ForegroundCompletes`, `ReleaseResolves`); background passes and acquisitions complete if planners release (`OrdinaryCompletes`, `AcquireResolves`). |
| `journal` | a page write with an attachment and a second write for its embed, a move with a renamed attachment, a page forgotten with its attachment, over four files; one undo call at a time; one edit, one fault, one crash | The status agrees with the files (`JournalTellsDisk`), through failing undos, their rollbacks and undos out of order; a crash during an undo leaves the files as the first so many rows of the change make them (`CrashLeavesAPrefix`); an operation that fails in its try block leaves no trace (`FailureLeavesNothing`); an undo is refused only if somebody touched the files (`ConflictHasCause`). |
| `receipts` | 2 keys, 2 requests, 2 calls, 2 crashes, retries and second handles without bound | A key changes files at most once (`AtMostOnce`); one live call per key (`OneLiveCall`); after files changed only a refusing receipt, or that very call, remains (`FailsClosed`); every success is of the same request and journalled (`SuccessIsJournalled`). |
| `write_lock` | 4 handles in 3 processes, two of them in one | One writer (`OneWriter`), and the lock file names it (`WriterIsNamed`), over every initial lock file and set of living pids, under every interleaving of the system calls; handles that a race or a second handle of their process caught are exempt. |
| `atomic_write` | two files; one existing file replaced twice and removed, another created; two chunks | No page is half-written or empty by accident (`NeverHalfWritten`); the code implements `AtomicReplace` (`ImplementsReplace`), while no two calls work on one file. |
| `maintenance` | an automatic item that replaces one page by a new one (creates the one, deletes the other), a review item that moves the same page; a person's apply call and two dream runs; two revisions; a budget of one item; a pause at the first rollback; two edits, faults or crashes together | An item is all or nothing, and its status tells which, unless somebody reached into it (`OutcomeTellsDisk`), through failing writes, restores and undos, crashes at every await and the recovery after them; its journal change is found again and never made twice (`OneChange`); foreign bytes are never overwritten unless they came after the last look (`ForeignKept`); what is written is the revision that was approved (`OnlyApproved`); a plan that is over has nothing half-way (`NothingStranded`) and a retired one stays so (`RetiredIsFinal`). A run ends once (`RunOutcomeOnce`), the streak that leads to a pause counts an item that was rolled back once, and none whose change was not reversed (`PausesAreEarned`), and nothing is applied under a pause (`NoWriteWhilePaused`). |
| `reconcile` | two files, two bodies, one file this process also writes; two saves, deletions, writes, failing passes or failing files together | A row with the file's time has the file's body (`FastPathSound`); a reported change is in a pass to come or one that has not looked too early, until a pass throws on it or warns of it, and the watcher is awake to it (`ReportedIsHeld`); the index ends up with the body of every file, whatever events are dropped, passes fail and files are warned of (`IndexCatchesUp`); close ends, with every derivation tried that was asked for (`CloseDerives`). |

`TypeOK` is checked where it says more than types: in `Journal` the rows still to reverse
and those reversed are all the rows, in `MutationReceipts` a receipt has a change exactly
when the journal recorded one.

**Why the bounds are enough.** In the lane a case needs a pass running or queued on one side
of a marker, one queued on the other and one arriving (three works), and a second planner to
be rejected or to follow the first. The journal needs one
operation of each shape that is reversed differently (text, binary, move, trash; a row with the
text found, the text read, and none), a page written twice, an operation with a try block and one
without, and files they share, so that undos meet changes above and below; one edit, one fault and one crash
can each fall at every point, and together in every order, and a second of the same kind
finds the change disturbed already. `MCView` takes two states for one that differ only in
history no property reads any more. For receipts two calls are the race, a second key shows
that calls do not disturb each other's rows, a second request is the conflict, two crashes
are a crash during the retry after a crash. Four handles in three processes give the lock
two handles of one owner, its successor under the same pid, and two contenders, which is who can
race, share and take over at once. Two chunks give "nothing", "half" and
"all" of a text, and four calls a leftover temporary file below another write and a
removal between. The plan has an item of two operations, so that it can be half written and
half restored, with a creation and a deletion, and one with a move, of the page the first one
deletes, so that each can find the other's bytes; between them one of each policy, so that curator and people both decide, and the budget of one item defers the second.
Two revisions are a decision and its withdrawal, two runs a pause and what comes after it.
Two troubles are a crash after a fault, an edit before a crash, a crash in the recovery from
a crash. `Apart` keeps the instance small: people apply and revise one at a time and between
dream runs, while they decide and retire at any time; the theorems about `DreamSpec` have no
such restriction, and no bound on troubles: what takes three of them is named in section 4.
Two files give `Reconcile` a change before and one during a pass, and two
inputs a save under a failing pass, a warning about a file that is then saved, or two saves
around the three looks at a file: with a new index they suffice for a row whose stale body stays
(section 4), which the properties exempt by name. Every safety
property is moreover proved for every size (section 6): the journal's for any number of undo
calls, edits, faults and crashes, where the run has one call at a time.

Liveness is checked without symmetry. `maintenance` uses symmetry of its two runs, which no
action tells apart, and has no liveness property.

`CHECK_DEADLOCK FALSE` stands where the instance may come to rest: all works done and no
planner left, all operations recorded and undone, a plan over with no run left, a knowledge
base closed. The other runs check deadlock: a process
may always start or die, a handle always open, power always fail.

## 4 Disagreements between the code and what it says

Each of these runs checks one property and ends in a counterexample.

* `journal_undo_twice`: two undo calls of one change at once, no fault and no crash. Both
  see "applied" before they await; the second one's transaction fails on the unique event
  and its catch block writes the post-change files back under a change that is undone. The
  second call *is* refused; it is its rollback that does the harm.
* `journal_move_over_file`: a move renames an attachment over a file at its destination.
  The change holds no copy of that file, so undo does not restore the exact bytes.
* `receipts_undo`: a keyed write is undone and then retried; the retry is answered as a
  success. `ops/undo.ts` says of the retain receipts, which it deletes, why this should not
  happen; the mutation receipts stay.
* `write_lock_shared`: a process opens the knowledge base twice, which the code provides
  for; one of its handles empties or removes the lock file (in opening, or in closing) while the
  other writes, and another process, with no race, becomes a second writer.
* `atomic_write_shared_temp`: two calls on one page share a temporary name; one empties it
  between the sync and the rename of the other.

More are visible in the models without a run of their own. The properties are stated for
what is left when they are taken away, by a constant or a history variable.

*Of the core.* `WriteLock`
reaches two writers in one more way (`blame` "race"): both processes judge the file before either
has written it, as it is not created exclusively. `AtomicWrite` with `Overlap = TRUE` also returns a stale
`before`. In `Journal`, a file written by another operation between the preflight of an
undo and its reversal is written over; the properties say nothing of that change because
it is disturbed, and `docs/memory-lifecycle.md:299` concedes the race for outside editors.

*Of the journal.* A move and a forget journal the text they read when they began
(`move.ts:102`, `forget.ts:237`), and remove whatever is there when they come to it: an edit in
between is lost, and undo brings back the older text (`disturbed` by the editor). The new page
of a move is recorded as created whatever was there (`move.ts:130`; `replaced`). A crash in the
undo of a page that was written again for its embed may leave the page with the embed of an
attachment that is gone, in which state the files never were while it was written:
`CrashLeavesAPrefix` therefore speaks of the rows, and not of the steps. What throws before an
operation's try block, or in an operation without one, leaves files that are in no change.
Attaching a document a page already has copies the file over itself and
journals it as created: undoing the second write deletes the attachment of the first. Two
identical documents in one write give two created rows of one file: the undo reverses one,
cannot read the bytes for the other, and puts everything back, so that such a change can never
be undone. Both are a landing on a file that is there (`replaced`).

*Of maintenance plans.*
* `refreshDecisionStatus` (`plans.ts:6198`) looks for no item that is applying or waits for
  verification: a decision on one item makes the plan completed or failed while another is
  half-way (`slips`).
* A decision during an apply puts the plan back to `approved`, where retiring it is legal;
  the apply goes on and writes its own status over `superseded` (`slips`).
* An apply goes by the rows it read when it began: an item rejected or revised meanwhile is
  applied all the same, and a second apply without a key takes the first one's `applying`
  for a crash and "recovers" it (`blame`).
* A revision is sealed over an item that was decided or applied during its preflight; the
  curator's block, and the deferral of stale items, overwrite a decision a person made during
  their awaits (`blame`).
* Writes, restores and undos follow their last look at the files by several awaits; an edit
  in between is overwritten (`late`).
* Stale observations of one page become several items of one plan (`dream.ts:1905`), and
  neither `createObservationPlan` nor `persistMaintenancePlan` looks at their paths. A dream
  blocks all but one of those in conflict; an apply by a person writes the first and leaves the
  others approved, stale or blocked over files that are not in their sealed state (`blame`).
* A run may end without the pause `docs/dream-cycle.md:484` speaks of: an item can fail its
  verification, in a person's apply, after `dream.ts:584` has recorded the outcomes; and the
  catch block swallows a failing `recordMaintenanceRecovery` (`dream.ts:643`). No property says
  that a run pauses whatever it cannot vouch for.
* A crash in the middle of an automatic rollback leaves a journal change that is applied,
  with files that are half back; the recovery finds bytes it does not know and keeps them
  (`torn`).
* A crash after that rollback's `journal.undo` has committed, but before the item's row is
  written, leaves the item `applying` with the id of the undone change. Its files are as they
  were, so the recovery approves it again; it is written again; and if a second crash comes
  before `journal.record`, the recovery takes the id in the row for the change of these bytes
  (`plans.ts:3273` asks only whether there is one, not whether it is undone). The item goes on
  to be verified and applied under an undone change: what it wrote is in no change and cannot
  be undone, although the row says "will verify its exact journalled bytes"
  (`plans.ts:3288`) and `docs/index.md:41` that mutations are journalled and undoable. It
  takes a failing verification and two crashes (`torn`; found while proving `OneChange`,
  beyond the bound of the run).
* An outcome whose run died before it was counted is counted by the next run that reports
  the plan; if the plan is over none does, although `docs/dream-cycle.md:484` has every
  verification failure pause. An item revised after its outcome was counted is never counted
  again.

*Of watcher and indexer.*
* The row of a page holds the hash of one read and the body of a second. A save between the
  two that is then reverted leaves a row whose hash is the file's and whose body is not;
  "a hash that matches what we recorded means mtime lied — nothing to do" (`indexer.ts:401`),
  so every later sweep only touches it, and the body stays stale for ever. `FastPathSound` and
  `IndexCatchesUp` exempt such rows.
* A file that fails in a pass, or that a sync client has evicted, is only warned of; the
  change that was reported is dropped with it and waits for the next sweep that sees the file
  (`ReportedIsHeld` says "nor warned of").
* The hash sweep, "the correctness path" (`watcher.ts:81`), leaves only the dirty flag when
  it finds a pass running, so the pass it asks for trusts modification times; `reconcileNow`
  then returns before anything was reconciled.
* `close` waits for the derivations and not for the watcher's pass, whose end may arm the
  timer again.

## 5 Fairness

**The lane.** `Fairness` is weak fairness of `FinishWork` (an index
pass settles, with a value or an error: it is a bounded amount of work over a finite set of
files), and of `CaptureSnapshot` and `BeginApply` (the continuation of a resolved promise
runs). Nothing is assumed of callers: works and planners may never come. Nothing is
assumed of the planner either, whose phase waits for a model: `ForegroundCompletes` and
`ReleaseResolves` hold although it may never call release. What does depend on it says so:
`PlannersRelease`, weak fairness of `Release`, is the antecedent of `OrdinaryCompletes` and
`AcquireResolves`; the dream bounds its phase and releases on every path, errors included.

**Watcher and derivation.** `FairSpec` of `Reconcile` has weak fairness of `Debounce` and
`Sweep` (timers of the event loop fire; a sweep interval of 0 turns the sweep, and with it
`IndexCatchesUp`, off), of `PassNext`, `Done` and `Derived` (a pass that does not throw goes
on to its end), of the microtasks `Drained`, `FlushDerived` and `Closed`, and of the failing
of passes after the store is closed. Nothing is assumed of events, which may all be dropped, of the hash
sweep, of saves, of passes that throw, or of anyone closing.

The other modules state safety only, their components waiting for nothing but an
operation's own awaits, or for people and models.

## 6 Proofs

Each theorem is of the form `Spec => []P` or `Spec => [][A]_vars`, except `WriteIsAtomic`,
which is a refinement. Each rests on an inductive invariant, shown to hold initially and to
be preserved by every action, one proof step per action. TLC agrees with the invariants on
the instances above.

* **`IndexRevision_proofs`**, for any works and planners: `TypeCorrect`,
  `LaneAlwaysConsistent`, `PlannerReadsFixedRevision`, `RevisionCheckNeverFails`,
  `ForegroundPasses`, `OwedPassesFinish`, `ReservationIsOnePlanners`, `LaneNeverIdles`,
  `ReleaseDrainsExactly`.
  `IInv == TypeOK /\ LaneConsistent /\ PlannerInv /\ RevisionMatches`. `FixedRevision`
  alone is not inductive: that no pass starts under a held barrier depends on which markers
  wait in the queue, and that a planner's barrier stays its own on how `pc` follows
  `active`. Lemmas establish how appending, splicing and draining treat the markers of a
  queue; the four shapes of a request then reduce to them. The next four theorems add `QInv`:
  whose the held barrier is, what may stand behind a marker in the queue, and where the
  passes owed to a releasing planner are; the last one `Exact`: that planner's checkpoint is in
  the queue, and nothing but works owed to it in front. From `NobodyAssumption` only.
* **`MutationReceipts_proofs`**, for any keys, requests, calls and number of crashes:
  `TypeCorrect`, `AppliedAtMostOnce`, `CallsAreAlone`, `SuccessesAreJournalled`,
  `IncompleteFailsClosed`, `CompletedStays`.
  `IInv == TypeOK /\ OneLiveCall /\ CallFits /\ RowFits /\ DownIsQuiet /\ SuccessIsJournalled`:
  at-most-once needs to know which states a row may have beside a call at each point
  (`CallFits`) and beside no call (`RowFits`); a dead process has no calls (`DownIsQuiet`).
* **`WriteLock_proofs`**, for any handles and pids, with any number of handles in a process and
  every interleaving of processes: `WriterIsUnique`, `WriterStaysNamed`, from `LockAssumption`
  only. `IInv == TypeOK /\ OneThread /\ Unrivalled /\ Judged /\ OwnerIsNamed`: a process has
  one handle inside (`OneThread`); who is about to write the file and was not caught is alone in
  that (`Unrivalled`); beside an owner that was not caught only its own process is (`Judged`);
  and that owner is named in the file, also while it closes. So blame falls on every handle the
  lock may fail, and the exemption in `OneWriter` is as small as the code allows.
* **`AtomicWrite_proofs`**, for any files, calls and number of chunks:
  `NoPageIsHalfWritten` and `WriteIsAtomic`, from `~Overlap`.
  `IInv == TypeOK /\ OneCall /\ Named /\ Opened /\ Pages`: one call per file, an inode is
  named by one page or one temporary name, what an opened one holds follows the call's
  chunk, and an inode a page names, now or in storage, is whole *in storage* too. That last
  part is what a power failure needs, and what the sync before the rename provides.
  The refinement adds `Returned`: what a call at work has read is still the page's text.

* **`Journal_proofs`**, for any files, plans of operations, undo calls and number of edits,
  faults and crashes, from `PlanAssumption`: `TypeCorrect`, and from `~Twice` too
  `JournalIsTrue`, `CrashesLeavePrefixes`, `ConflictsHaveCauses` and `FailuresLeaveNothing`.
  Without `~Twice` the first, second and third of these do not hold: `journal_undo_twice` is the
  counterexample to the first, the same run with one fault to the second, and the same run to
  the third.
  `WalkInv == TypeOK /\ Walking`: that the rows reversed and those still to reverse are all
  rows of the change survives a step of the operation only because the calls of undo stand
  at recorded changes (`Walking`), whose rows no longer grow.
  `DiskInv` says what the files are, in three layers. `Histories`: a row tells what its step
  made of the files, and what it made of them still holds when the operation is over
  (`Told`, with `Effect`, `Final`, `Hashed`); an operation nobody disturbs finds its files as it
  left them, and those it has not written as it read them, which is why a row may hold a text
  that was read early (`Working`); of two changes of one file one came after the other
  (`Order`). `Calls`: what a call of undo has reversed are the last rows, with the bytes that
  were there (`Reversal`), and no two calls are at one change (`Alone`). `Standing`: a recorded
  change stands after some of its rows (`Steps`), and every file holds that, unless changes made
  since lie over it (`Holds`), of which the lowest found there what the change had left
  (`Lies`). The last part is what makes undoing in any order work: taking the topmost change
  off a file uncovers what the next one down had left. It speaks of the changes that can still
  be taken off (`Removable`), and of a change cut short by a crash, for which `Steps` has more
  than one member, so that `JournalTellsDisk` and `CrashLeavesAPrefix` are two readings of it.
  A step and a second write of a page are both a `Touch` of the operation's own files; the
  second one replaces a file in every image after its row (`Again`). `FailuresLeaveNothing`
  adds `Backed`: what a catch block has still to put back is what the first rows have made of
  the files.
* **`DreamRun_proofs`**, for any paths, items, people, runs, budgets, thresholds and number of
  revisions, edits, faults and crashes, from `PlanAssumption` and `DreamAssumption`: `Typing`,
  `ForeignFilesAreKept`, `RunsEndOnce`, `PauseStands`.
  `RunInv == PlanInv /\ RunsTyped /\ OneRun`, where `PlanInv` is `TypeOK`, `CallsOK` (where a
  call stands fits what it has left to do and what it saw) and `DraftsOK`, and `OneRun` ties
  the run of the process to its receipt, its ownership and its apply call. Foreign bytes survive because
  a call that may write (`Writing`) has looked at all files of its item, and whatever foreign
  bytes have got into them since has made them `late` (`Safe`, a part of `CallsOK`): what it writes
  to otherwise holds what the plan knows. That other items share the files does not matter.
* **`Maintenance_proofs`**, on top of `DreamRun_proofs` and from the same assumptions:
  `WritesAreApproved`, `RetirementStands`, `OutcomesTell`, `ChangesAreNamed`,
  `NothingIsStranded`, `PausesEarned`. The first five claim nothing of an item or a plan somebody
  reached into, between the awaits of an apply or through a file it shares, which the history
  variables `blame` and `slips` record.
  The first adds `Assent` to `RunInv`: an approval
  that stands is of the item's present revision, a call about to write stands at the row it
  read, two calls inside one item have both reached into it, and the curator is asked about
  automatic items only. Each part is needed: without the third, an item marked `applying`
  could be another call's. The second adds `Retired`: nobody is at work on a retired plan and
  a run that comes finds it over. `OutcomesTell` and `ChangesAreNamed` rest on `Account`, which
  follows an item's files operation by operation: while a call is inside an item, exactly the
  operations it has `Done` are written, and the row and the journal are as that point of the
  code has them (`Works`); an item no call is inside of has a row that tells which of its
  operations are written and which change keeps them (`Rests`), where a crash between the
  record and the row's update leaves a change that the recovery will find (`Found`). `Owns`
  says a row never names another item's change, `Waits` that the dream's call works only while
  the run applies. Items may share files: a call leaves the files of every other item alone
  that it does not blame (`Apart`). `NothingIsStranded` adds `Closed`: a plan that is over has no item an apply
  would still go for. `PausesEarned` adds `Reverses`, a row that says "rolled back" is of an item
  with a change the journal has reversed, and `Earned`, the streak is bounded by those of them
  that were counted (`Given`), each once, since a counted outcome is not an outcome any more.
* **`Reconcile_proofs`**, for any files, bodies and number of inputs: `Typing`,
  `StatIsTrusted`, `ReportsAreHeld`, `CloseLeavesNothing` (the safety half of `CloseDerives`:
  when close has ended nothing is owed). Three
  invariants. `FastInv`: modification times are not repeated (`Times`), and a hash read in a pass
  is of the body the file had at that stat, or the file has moved on since (`HashOfStat`).
  `HeldInv`: a change that was taken by the watcher's pass is looked at by it or in the row
  (`Progress`), a derivation that has seen an older file has the watcher's pass behind it
  (`Behind`), and the watcher is awake. `Turn`, that only the pass at the head of the lane looks
  at files, is why the two kinds of passes do not write over each other's rows. `Owing`: where the
  paths owed a derivation are. From `ReconcileAssumption`.

**Only model-checked:** liveness, that is `ForegroundCompletes`, `ReleaseResolves`,
`OrdinaryCompletes` and `AcquireResolves` of the lane, `IndexCatchesUp` and `CloseDerives` of
watcher and derivation. Every invariant and every action property of a passing run is a theorem.
**Only proved:** `CompletedIsFinal`, that a completed receipt never changes, stands beside its
theorem `CompletedStays`.
**Out of the prover's reach:**
liveness under fairness and ENABLED; induction over data, hence what a recursive
definition computes for every input; RECURSIVE operators, which no module here has.

## 7 What is abstracted and what is left out

* Texts, requests, results and names are model values: equal ones hash alike.
* In `Journal` a file step is one action although it is several awaits, and the reads of an
  operation are one, at its beginning; the steps of a move come in the order of its rows.
  `WriteIsAtomic` is the licence for the steps that write a file, while no two calls work
  on that file; where they do, `atomic_write_shared_temp` is what happens.
* Processes die in `Journal`, `MutationReceipts` and `WriteLock`; *power* fails in
  `AtomicWrite` only. The database runs with `synchronous = NORMAL`, so a power failure
  may take back the last commits, a receipt's boundary among them, while files survive.
  No module says anything of that.
* In `AtomicWrite` reading a page is one step, `rename` is atomic in the directory, and
  storage keeps or loses whole chunks and whole entries.
* `Journal` has a bound on edits, faults and crashes (`MaxEdits`, `MaxFaults`,
  `MaxCrashes`), `MutationReceipts` on crashes (`MaxCrashes`), `MaintenancePlan` on all three
  together (`MaxTrouble`) and on revisions (`MaxRevision`), `Reconcile` on saves, writes and
  failures of passes and files (`MaxInputs`); nothing else is bounded but
  the sets of constants. A work, a change or a writer happens once per run; calls, handles
  and undo calls come again.
* In `MaintenancePlan` the preflight's findings other than a changed input (identities, rules,
  evidence, prompts) are a fault; indexing and verification are a step each; `journal.undo` is
  one step per operation, without its own preflight, whose condition `Verify` has just
  established (an edit in between is `late`). Conflicts between items are those of the files they
  touch; dependencies by reference, the order the apply schedule takes from them, two files of one
  item that exchange contents, and the receipts of keyed actions are not modelled. `DreamRun` has one plan; the planning that seals it is not modelled, and a
  second wave of planning would be a second run.
* In `Reconcile` renames followed by their hash, quarantine, rule changes, ignored
  names and the inbox are left out; sizes are part of the modification time, and a save that
  keeps both is `SaveQuietly`.
* The listing queries of the journal, and what undo does in the index after its commit,
  are not modelled, nor is `recordOwnWrite`.

## 8 Not modelled

What is left has no module for a reason, and the components are `not_modelled` in
`PROJECT.json`.

* **Page operations, gate and proposals.** Their file steps and change records are the steps
  of `Journal`. What remains is a read, an edit of the text and a write, or a status read and
  a row update, with an await and no check between them; two at once lose an edit or answer a
  proposal twice (the hazards at `ops/write.ts:131` and `open.ts:597`). The only properties
  worth stating are those, and they fail by reading the code.
* **Curation, retention, ingest.** A model or the text decides what they do; what they write
  goes through plans, receipts and the journal, which are modelled.
* **Model client, dream scheduling, inbox.** One caller, one deadline, one state file: no
  concurrent step to disturb them.
* **Timeline, recall, answers, configuration, migrations, parsing.** Pure computations over
  dates, text, SQL and ranking; a definition in TLA+ would be a second implementation, with
  nothing to check it against.
* **Power failure across files and database.** `AtomicWrite` has the one, `MutationReceipts`
  and `Journal` the death of the process; the code promises nothing about both together.
* **Recovery of a plan's receipts of keyed actions, dependencies between items, pruning**
  (`plans.ts`), and the retry wave of a dream. They order or repeat the operations that are
  modelled; the plan module lets those happen in any order.

What could be taken further: an abstract plan whose items are applied at most once, an abstract
lane, and the refinements to them; two plans of one dream.
