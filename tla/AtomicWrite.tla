------------------------------ MODULE AtomicWrite ------------------------------
(***************************************************************************)
(* writeFileAtomic and restoreFile (core/src/write/atomic.ts) over a file   *)
(* system: read the text before, write a sibling temporary file, sync it,   *)
(* rename it over the target. One action per system call.                   *)
(*                                                                          *)
(* A text is written in chunks, each chunk naming the text it comes from.   *)
(* Storage lags behind: the file system writes data and directory entries   *)
(* back when it likes, sync forces the data of one file, and a power        *)
(* failure leaves what storage holds.                                       *)
(***************************************************************************)
EXTENDS Naturals

CONSTANTS
  Paths, Texts, Absent, Writers, Target, Text, First,
  Hole,        \* bytes not written
  Chunks,      \* chunks of a text
  Overlap      \* environment: whether two calls may work on one file at once

ASSUME FileAssumption ==
  /\ Absent \notin Texts /\ Hole \notin Texts /\ Absent # Hole
  /\ Target \in [Writers -> Paths]
  /\ Text \in [Writers -> Texts \cup {Absent}]
  /\ First \in [Paths -> Texts \cup {Absent}]
  /\ Chunks \in Nat \ {0}
  /\ Paths \cap Writers = {} /\ Absent \notin Paths \cup Writers
  /\ Overlap \in BOOLEAN

VARIABLES
  entry,       \* the directory: the inode named by each page and by its temp name
  data,        \* the contents of each inode
  stored,      \* what storage holds: [entry, data]
  call,        \* the calls: pc, chunk to write, inode open, text before
  finished     \* history: the calls that had their effect

vars == <<entry, data, stored, call, finished>>

\* An inode is named for what created it: the initial state or a call.
Inodes == Paths \cup Writers

File == [1 .. Chunks -> Texts \cup {Hole}]

Whole(t) == [k \in 1 .. Chunks |-> t]

\* What a reader of an inode sees: a whole text, or a Hole for anything less.
Seen(i) ==
  IF i = Absent THEN Absent
  ELSE IF \A k \in 1 .. Chunks : data[i][k] = data[i][1] THEN data[i][1] ELSE Hole

Working == {"read", "writing", "syncing", "renaming"}

Free(w) ==
  Overlap \/ \A v \in Writers : Target[v] = Target[w] => call[v].pc \notin Working

Init ==
  /\ entry = [p \in Paths |-> [page |-> IF First[p] = Absent THEN Absent ELSE p,
                               temp |-> Absent]]
  /\ data = [i \in Inodes |->
       IF i \in Paths /\ First[i] # Absent THEN Whole(First[i]) ELSE Whole(Hole)]
  /\ stored = [entry |-> entry, data |-> data]
  /\ call = [w \in Writers |-> [pc |-> "idle", k |-> 1, inode |-> Absent, before |-> Absent]]
  /\ finished = {}

\* The bytes before the write, or none if there is no file.
\* Wrong, and used by nothing: any failure to read is taken for a missing file.
Before_Swallows(w) == Absent

Before(w) == Seen(entry[Target[w]].page)

Read(w) ==
  /\ call[w].pc = "idle" /\ Text[w] # Absent
  /\ Free(w)
  /\ call' = [call EXCEPT ![w] = [@ EXCEPT !.pc = "read", !.before = Before(w)]]
  /\ UNCHANGED <<entry, data, stored, finished>>

\* open(temp, 'w'): creates the file, or empties the one that is there.
OpenTemp(w) ==
  LET p == Target[w]
      i == IF entry[p].temp = Absent THEN w ELSE entry[p].temp
  IN
  /\ call[w].pc = "read"
  /\ entry' = [entry EXCEPT ![p] = [@ EXCEPT !.temp = i]]
  /\ data' = [data EXCEPT ![i] = Whole(Hole)]
  /\ call' = [call EXCEPT ![w] = [@ EXCEPT !.pc = "writing", !.k = 1, !.inode = i]]
  /\ UNCHANGED <<stored, finished>>

WriteChunk(w) ==
  LET k == call[w].k IN
  /\ call[w].pc = "writing"
  /\ data' = [data EXCEPT ![call[w].inode] = [@ EXCEPT ![k] = Text[w]]]
  /\ call' = [call EXCEPT ![w] =
       IF k < Chunks THEN [@ EXCEPT !.k = k + 1] ELSE [@ EXCEPT !.pc = "syncing"]]
  /\ UNCHANGED <<entry, stored, finished>>

\* Wrong, and used by nothing: the file is closed without a sync.
Synced_Never(w) == stored

Synced(w) == LET i == call[w].inode IN
  [stored EXCEPT !.data = [@ EXCEPT ![i] = data[i]]]

Sync(w) ==
  /\ call[w].pc = "syncing"
  /\ stored' = Synced(w)
  /\ call' = [call EXCEPT ![w] = [@ EXCEPT !.pc = "renaming"]]
  /\ UNCHANGED <<entry, data, finished>>

\* The temp name, whatever it names by now, replaces the page; a call whose
\* temp name is gone fails.
Rename(w) ==
  LET p == Target[w] IN
  /\ call[w].pc = "renaming"
  /\ entry[p].temp # Absent
  /\ entry' = [entry EXCEPT ![p] = [page |-> entry[p].temp, temp |-> Absent]]
  /\ call' = [call EXCEPT ![w] = [@ EXCEPT !.pc = "done"]]
  /\ finished' = finished \cup {w}
  /\ UNCHANGED <<data, stored>>

\* restoreFile to no file.
Remove(w) ==
  LET p == Target[w] IN
  /\ call[w].pc = "idle" /\ Text[w] = Absent
  /\ Free(w)
  /\ entry' = [entry EXCEPT ![p] = [@ EXCEPT !.page = Absent]]
  /\ call' = [call EXCEPT ![w] = [@ EXCEPT !.pc = "done", !.before = Seen(entry[p].page)]]
  /\ finished' = finished \cup {w}
  /\ UNCHANGED <<data, stored>>

\* A system call fails: the file is closed, the error goes to the caller, and
\* the temporary file stays.
Fail(w) ==
  /\ call[w].pc \in Working
  /\ call' = [call EXCEPT ![w] = [@ EXCEPT !.pc = "failed"]]
  /\ UNCHANGED <<entry, data, stored, finished>>

-----------------------------------------------------------------------------
\* The file system: a chunk, or a directory entry, reaches storage.
WriteBack(i, k) ==
  /\ stored' = [stored EXCEPT !.data =
                  [@ EXCEPT ![i] = [stored.data[i] EXCEPT ![k] = data[i][k]]]]
  /\ UNCHANGED <<entry, data, call, finished>>

FlushEntry(p) ==
  /\ stored' = [stored EXCEPT !.entry = [@ EXCEPT ![p] = entry[p]]]
  /\ UNCHANGED <<entry, data, call, finished>>

\* Power fails: storage is what is left, and running calls are gone.
PowerFailure ==
  /\ entry' = stored.entry
  /\ data' = stored.data
  /\ call' = [w \in Writers |->
       IF call[w].pc \in Working THEN [call[w] EXCEPT !.pc = "failed"] ELSE call[w]]
  /\ UNCHANGED <<stored, finished>>

CallStep(w) ==
  Read(w) \/ OpenTemp(w) \/ WriteChunk(w) \/ Sync(w) \/ Rename(w) \/ Remove(w) \/ Fail(w)

Next ==
  \/ \E w \in Writers : CallStep(w)
  \/ \E i \in Inodes, k \in 1 .. Chunks : WriteBack(i, k)
  \/ \E p \in Paths : FlushEntry(p)
  \/ PowerFailure

Spec == Init /\ [][Next]_vars

-----------------------------------------------------------------------------
Calls == [pc : {"idle", "done", "failed"} \cup Working, k : 1 .. Chunks,
          inode : Inodes \cup {Absent}, before : Texts \cup {Absent, Hole}]

Directory == [Paths -> [page : Inodes \cup {Absent}, temp : Inodes \cup {Absent}]]

TypeOK ==
  /\ entry \in Directory
  /\ data \in [Inodes -> File]
  /\ stored \in [entry : Directory, data : [Inodes -> File]]
  /\ call \in [Writers -> Calls]
  /\ finished \subseteq Writers

\* "A reader ... never sees a half-written page" (atomic.ts:14), nor does a power
\* failure leave a correctly named empty file (atomic.ts:55): every page is
\* whole, through leftover temporary files, failing calls and power failures.
NeverHalfWritten == \A p \in Paths : Seen(entry[p].page) # Hole

\* The pages as the callers of writeFileAtomic see them.
Atomic == INSTANCE AtomicReplace WITH
  page   <- [p \in Paths |-> Seen(entry[p].page)],
  before <- [w \in Writers |-> IF w \in finished THEN call[w].before ELSE Absent]

\* A call replaces its file in one step by its own text, `before` is the text
\* that step replaced, and power failures bring back earlier texts only.
ImplementsReplace == Atomic!Spec
=============================================================================
