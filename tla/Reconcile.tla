------------------------------- MODULE Reconcile -------------------------------
(***************************************************************************)
(* How the index follows the files: the watcher (core/src/watch/watcher.ts) *)
(* turns file events, sweeps and hash sweeps into passes of the indexer,    *)
(* the derivations a write has left for later (core/src/index/defer.ts) run *)
(* as passes of their own, and close waits for the latter only. A pass of   *)
(* either kind (runPass in core/src/index/indexer.ts) takes stats, then     *)
(* hashes, then reads; a file may be saved between any two of the three,    *)
(* and a file that cannot be hashed or read is warned of and left as it is. *)
(***************************************************************************)
EXTENDS Integers, Sequences, FiniteSets

CONSTANTS
  Paths,
  Bodies,        \* what a file may hold
  Original,      \* what each file holds at first
  Written,       \* files whose derivation writes leave for later
  None,          \* no file, no row, no hash
  MaxInputs      \* bound on saves, failures and writes, together

ASSUME ReconcileAssumption ==
  /\ None \notin Bodies
  /\ Original \in Bodies
  /\ Written \subseteq Paths
  /\ MaxInputs \in Nat

VARIABLES
  disk,      \* body and mtime of each file
  row,       \* the files row (mtime, sha) and the body of the page row
  events,    \* native events not delivered yet
  pending, dirty, timer,  \* of the watcher; timer: the debounce timer is armed
  pass,      \* the pass of the watcher and that of the derivations
  lane,      \* passes in the order they were asked for; the first one runs
  queue,     \* paths waiting for derivation
  drain,     \* none, busy, or over with its finally still to run
  owed,      \* history: paths whose derivation was asked for before the store was
             \* closed and not tried
  closing,   \* no, flushing, closed
  known,     \* history: paths whose last change was reported and neither thrown nor
             \* warned away by a pass
  quiet,     \* history: paths whose last save kept the mtime
  count      \* inputs so far

watch == <<pending, dirty, timer>>
defer == <<queue, drain, owed, closing>>
vars == <<disk, row, events, watch, pass, lane, defer, known, quiet, count>>

NoFile == [body |-> None, mtime |-> 0]
NoRow  == [body |-> None, sha |-> None, mtime |-> 0]

Who == {"watcher", "derive"}

\* found: mtimes the scan saw; sha: hashes read; todo: files left in this phase.
NoPass == [pc |-> "idle", verify |-> FALSE, scope |-> {}, todo |-> {},
           found |-> [p \in Paths |-> 0], sha |-> [p \in Paths |-> None]]

\* The index is up to date, or new.
Init ==
  /\ disk = [p \in Paths |-> [body |-> Original, mtime |-> 1]]
  /\ \/ row = [p \in Paths |-> [body |-> Original, sha |-> Original, mtime |-> 1]]
     \/ row = [p \in Paths |-> NoRow]
  /\ events = {}
  /\ pending = {} /\ dirty = FALSE /\ timer = FALSE
  /\ pass = [w \in Who |-> NoPass]
  /\ lane = <<>>
  /\ queue = {} /\ drain = "none" /\ owed = {} /\ closing = "no"
  /\ known = {} /\ quiet = {}
  /\ count = 0

-----------------------------------------------------------------------------
(* Files, and the events about them *)

Input == count < MaxInputs /\ count' = count + 1

Changed(p, file) ==
  /\ Input
  /\ disk' = [disk EXCEPT ![p] = file]
  /\ known' = known \ {p}
  /\ events' = events \cup {p}
  /\ UNCHANGED <<row, watch, pass, lane, defer>>

Save(p, b) ==
  /\ Changed(p, [body |-> b, mtime |-> 2 + count])
  /\ quiet' = quiet \ {p}

Delete(p) ==
  /\ disk[p] # NoFile
  /\ Changed(p, NoFile)
  /\ quiet' = quiet \ {p}

\* A sync client or a restored backup keeps the mtime.
SaveQuietly(p, b) ==
  /\ disk[p] # NoFile
  /\ Changed(p, [disk[p] EXCEPT !.body = b])
  /\ quiet' = quiet \cup {p}

Schedule == timer' = TRUE

Watching == closing # "closed"

\* The watcher's callback.
Notice(p) ==
  /\ Watching
  /\ p \in events
  /\ events' = events \ {p}
  /\ pending' = pending \cup {p}
  /\ Schedule
  /\ known' = known \cup {p}
  /\ UNCHANGED <<disk, row, dirty, pass, lane, defer, quiet, count>>

\* Events coalesced into one without a name.
NoticeSomething ==
  /\ Watching
  /\ events # {}
  /\ events' = {}
  /\ dirty' = TRUE
  /\ Schedule
  /\ known' = known \cup events
  /\ UNCHANGED <<disk, row, pending, pass, lane, defer, quiet, count>>

\* After a sleep or a large sync.
Drop(p) ==
  /\ p \in events
  /\ events' = events \ {p}
  /\ UNCHANGED <<disk, row, watch, pass, lane, defer, known, quiet, count>>

-----------------------------------------------------------------------------
(* The watcher *)

Running == pass["watcher"].pc # "idle"

Waiting(paths, verify) ==
  [NoPass EXCEPT !.pc = "waiting", !.verify = verify, !.scope = paths]

\* flush, entered with the flag dirty at whole.
Flush(whole, verify) ==
  IF Running
  THEN dirty' = TRUE /\ UNCHANGED <<pending, pass, lane>>
  ELSE IF pending = {} /\ ~whole /\ ~verify
  THEN dirty' = whole /\ UNCHANGED <<pending, pass, lane>>
  ELSE /\ pass' = [pass EXCEPT !["watcher"] =
                      Waiting(IF whole \/ verify THEN Paths ELSE pending, verify)]
       /\ lane' = Append(lane, "watcher")
       /\ pending' = {}
       /\ dirty' = FALSE

FlushStep == UNCHANGED <<disk, row, events, defer, known, quiet, count>>

Debounce ==
  /\ timer
  /\ timer' = FALSE
  /\ Flush(dirty, FALSE)
  /\ FlushStep

Sweep_OnlyPending == Watching /\ Flush(dirty, FALSE) /\ UNCHANGED timer /\ FlushStep

\* The periodic stat sweep.
Sweep == Watching /\ Flush(TRUE, FALSE) /\ UNCHANGED timer /\ FlushStep

\* The hourly hash sweep.
Verify == Watching /\ Flush(dirty, TRUE) /\ UNCHANGED timer /\ FlushStep

\* The host has woken up.
ReconcileNow == Watching /\ Flush(TRUE, TRUE) /\ UNCHANGED timer /\ FlushStep

-----------------------------------------------------------------------------
(* One pass: runPass of the indexer *)

Runs(w) == lane # <<>> /\ Head(lane) = w /\ closing # "closed"

PassStep == UNCHANGED <<disk, events, watch, lane, defer, quiet>>

\* scanTree, and the stat fast path, which a derivation does not take
\* (reindexUnchanged).
Scan(w) ==
  /\ Runs(w)
  /\ pass[w].pc = "waiting"
  /\ pass' = [pass EXCEPT ![w] = [pass[w] EXCEPT
       !.pc = "hash", !.verify = FALSE,
       !.found = [p \in Paths |-> IF p \in pass[w].scope THEN disk[p].mtime ELSE 0],
       !.todo = {p \in pass[w].scope : /\ disk[p] # NoFile
                                       /\ \/ w = "derive" \/ pass[w].verify
                                          \/ row[p].mtime # disk[p].mtime}]]
  /\ UNCHANGED <<row, known, count>>
  /\ PassStep

\* A file is done with in this phase.
Less(w, p) == [pass[w] EXCEPT !.todo = pass[w].todo \ {p}]

\* A file fails: the pass goes on without it and succeeds.
Warned(w, p) ==
  /\ Input
  /\ known' = IF w = "watcher" THEN known \ ({p} \ pending) ELSE known

Hash(w, p) ==
  /\ Runs(w)
  /\ pass[w].pc = "hash"
  /\ p \in pass[w].todo
  /\ \/ /\ pass' = [pass EXCEPT ![w] =
             [Less(w, p) EXCEPT !.sha = [pass[w].sha EXCEPT ![p] = disk[p].body]]]
        /\ UNCHANGED <<known, count>>
     \/ pass' = [pass EXCEPT ![w] = Less(w, p)] /\ Warned(w, p)
  /\ UNCHANGED row
  /\ PassStep

\* The hash is the recorded one: only the stat was wrong.
Same(w, p) == w = "watcher" /\ pass[w].sha[p] = row[p].sha

\* The unchanged are touched, those of the scope that the scan did not see are
\* removed (reconcileDeletions), the others are to be read.
Sort(w) ==
  LET needed == {p \in pass[w].scope : pass[w].sha[p] # None /\ ~Same(w, p)} IN
  /\ Runs(w)
  /\ pass[w].pc = "hash"
  /\ pass[w].todo = {}
  /\ row' = [p \in Paths |->
       IF p \in pass[w].scope /\ pass[w].found[p] = 0 THEN NoRow
       ELSE IF pass[w].sha[p] # None /\ Same(w, p)
            THEN [row[p] EXCEPT !.mtime = pass[w].found[p]] ELSE row[p]]
  /\ pass' = [pass EXCEPT ![w] = [pass[w] EXCEPT !.pc = "read", !.todo = needed,
       !.sha = [p \in Paths |-> IF p \in needed THEN pass[w].sha[p] ELSE None]]]
  /\ UNCHANGED <<known, count>>
  /\ PassStep

\* The body is the hashed one and the stat is taken after it was read.
Indexed_StatAfterRead(w, p) ==
  [body |-> pass[w].sha[p], sha |-> pass[w].sha[p], mtime |-> disk[p].mtime]

\* indexPage reads the file again; recordFile writes the stat and the hash from before.
Indexed(w, p) == [body |-> disk[p].body, sha |-> pass[w].sha[p], mtime |-> pass[w].found[p]]

\* A file that is gone cannot be read; nor can one that throws or that a sync client
\* has evicted.
Read(w, p) ==
  /\ Runs(w)
  /\ pass[w].pc = "read"
  /\ p \in pass[w].todo
  /\ \/ /\ row' = IF disk[p] = NoFile THEN row ELSE [row EXCEPT ![p] = Indexed(w, p)]
        /\ UNCHANGED <<known, count>>
     \/ row' = row /\ Warned(w, p)
  /\ pass' = [pass EXCEPT ![w] = Less(w, p)]
  /\ PassStep

Over(w) == pass[w].pc = "read" /\ pass[w].todo = {}

\* A pass may throw, and does once the store is closed.
Throws(w) ==
  /\ lane # <<>> /\ Head(lane) = w
  /\ \/ closing = "closed" /\ UNCHANGED count
     \/ /\ closing # "closed" /\ Input

-----------------------------------------------------------------------------
(* The end of a watcher's pass *)

Finally_Forgets == UNCHANGED dirty /\ pending' = {} /\ UNCHANGED timer

\* What came during the pass gets a pass of its own.
Finally == UNCHANGED <<dirty, pending>> /\ timer' = (timer \/ dirty \/ pending # {})

Leave == pass' = [pass EXCEPT !["watcher"] = NoPass] /\ lane' = Tail(lane)

Done ==
  /\ Runs("watcher")
  /\ Over("watcher")
  /\ Leave
  /\ Finally
  /\ UNCHANGED <<disk, row, events, defer, known, quiet, count>>

\* The paths of the pass are not put back.
Failed ==
  /\ Throws("watcher")
  /\ Leave
  /\ Finally
  /\ known' = known \ (pass["watcher"].scope \ pending)
  /\ UNCHANGED <<disk, row, events, defer, quiet>>

-----------------------------------------------------------------------------
(* Deferred derivation *)

\* drain takes all that is queued.
Batch(paths) ==
  /\ pass' = [pass EXCEPT !["derive"] = Waiting(paths, FALSE)]
  /\ lane' = Append(lane, "derive")
  /\ queue' = {}
  /\ drain' = "busy"

\* schedule; drain starts at once unless one is running, or only about to end.
Queue(p) ==
  /\ Input
  /\ owed' = IF closing = "closed" THEN owed ELSE owed \cup {p}
  /\ IF drain = "none" THEN Batch(queue \cup {p})
     ELSE queue' = queue \cup {p} /\ UNCHANGED <<pass, drain, lane>>
  /\ UNCHANGED <<disk, row, events, watch, closing, known, quiet>>

\* The loop of drain: another batch, or its end. A batch that threw is not put back.
Loop ==
  /\ owed' = owed \ (pass["derive"].scope \ queue)
  /\ queue' = {}
  /\ IF queue = {}
     THEN /\ pass' = [pass EXCEPT !["derive"] = NoPass]
          /\ lane' = Tail(lane)
          /\ drain' = "over"
     ELSE /\ pass' = [pass EXCEPT !["derive"] = Waiting(queue, FALSE)]
          /\ lane' = Append(Tail(lane), "derive")
          /\ UNCHANGED drain
  /\ UNCHANGED <<disk, row, events, watch, closing, known, quiet>>

Derived == Runs("derive") /\ Over("derive") /\ Loop /\ UNCHANGED count

Underived == Throws("derive") /\ Loop

\* The finally of schedule, a microtask after the loop has ended.
Drained ==
  /\ drain = "over"
  /\ drain' = "none"
  /\ UNCHANGED <<disk, row, events, watch, pass, lane, queue, owed, closing, known, quiet, count>>

Close ==
  /\ closing = "no"
  /\ closing' = "flushing"
  /\ UNCHANGED <<disk, row, events, watch, pass, lane, queue, drain, owed, known, quiet, count>>

\* The condition of flush's loop.
More_WhileRunning == FALSE

More == queue # {}

FlushDerived ==
  /\ closing = "flushing"
  /\ drain = "none"
  /\ More
  /\ Batch(queue)
  /\ UNCHANGED <<disk, row, events, watch, owed, closing, known, quiet, count>>

\* flush returns; the watcher's timers are cleared, its pass goes on.
Closed ==
  /\ closing = "flushing"
  /\ drain = "none"
  /\ ~More
  /\ closing' = "closed"
  /\ timer' = FALSE
  /\ UNCHANGED <<disk, row, events, pending, dirty, pass, lane, queue, drain, owed, known, quiet, count>>

-----------------------------------------------------------------------------
PassNext == \E w \in Who : Scan(w) \/ Sort(w) \/ \E p \in Paths : Hash(w, p) \/ Read(w, p)

Environment ==
  \/ \E p \in Paths : Delete(p) \/ Drop(p) \/ \E b \in Bodies : Save(p, b) \/ SaveQuietly(p, b)
  \/ \E p \in Written : Queue(p)
  \/ Failed \/ Underived \/ Verify \/ ReconcileNow \/ Close

System ==
  \/ \E p \in Paths : Notice(p)
  \/ NoticeSomething \/ Debounce \/ Sweep
  \/ PassNext \/ Done \/ Derived \/ Drained \/ FlushDerived \/ Closed

Next == Environment \/ System

Spec == Init /\ [][Next]_vars

\* Timers fire, a pass goes on, and the microtasks of drain and flush run.
FairSpec ==
  /\ Spec
  /\ WF_vars(Debounce) /\ WF_vars(Sweep)
  /\ WF_vars(PassNext) /\ WF_vars(Done) /\ WF_vars(Derived)
  /\ WF_vars(Drained) /\ WF_vars(FlushDerived) /\ WF_vars(Closed)
  /\ WF_vars(closing = "closed" /\ (Failed \/ Underived))

-----------------------------------------------------------------------------
\* The stat fast path is sound: a row with the file's mtime has the file's body,
\* however saves fall between the stat, the hash and the read, unless the save
\* kept the mtime or the row's hash is of another body than the one indexed.
FastPathSound == \A p \in Paths \ quiet :
  row[p].mtime = disk[p].mtime /\ row[p].sha = row[p].body => row[p].body = disk[p].body

\* A reported change that shows in the file's time, and that no pass threw on or
\* warned of, is in a pass still to come, or in the one that runs and has not looked
\* at the file too early, and the watcher is awake to it. That holds although the
\* derivations write the same rows in passes of their own.
ReportedIsHeld == closing # "closed" =>
  /\ \A p \in known : row[p].mtime # disk[p].mtime =>
       \/ p \in pending \/ dirty
       \/ /\ p \in pass["watcher"].scope
          /\ pass["watcher"].pc = "waiting" \/ pass["watcher"].found[p] = disk[p].mtime
  /\ pending # {} \/ dirty => timer \/ Running

\* Whatever events were dropped, passes failed and files warned of, the index ends up
\* with the body of every file, unless its last save kept the mtime, or its row's hash
\* is of another body than the one indexed: such a row is taken for up to date when
\* the file returns to the hashed body, and its stale body stays.
IndexCatchesUp == <>[](closing = "closed" \/ \A p \in Paths \ quiet :
  /\ row[p].mtime = disk[p].mtime
  /\ row[p].body = disk[p].body \/ row[p].sha # row[p].body)

\* Close ends, with every derivation tried that was asked for before it.
CloseDerives == closing = "flushing" ~> closing = "closed" /\ owed = {}
=============================================================================
