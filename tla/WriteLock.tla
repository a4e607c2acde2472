------------------------------ MODULE WriteLock ------------------------------
(***************************************************************************)
(* The write handle of a knowledge base (core/src/store/db.ts): a lock file *)
(* holding the pid of its owner, read, judged and then written by whoever   *)
(* opens the knowledge base for writing, and removed on close.              *)
(*                                                                          *)
(* A process is its pid; a process that dies may be followed by another of  *)
(* the same pid. acquire and release block their process's only thread, so  *)
(* two handles of one process never interleave inside them; the system      *)
(* calls of different processes do, and the file is created with no regard  *)
(* to who else is about to create it. The history `blame` says which        *)
(* handles were caught by that, or by a second handle of their process, so  *)
(* that everything else can be promised without restriction.                *)
(***************************************************************************)
CONSTANTS
  Handles,     \* opens of the knowledge base for writing
  Pids,
  Nobody,      \* an empty, missing or unreadable lock file
  ProcessOf    \* the process each handle is opened in: [Handles -> Pids]

ASSUME LockAssumption == Nobody \notin Pids /\ ProcessOf \in [Handles -> Pids]

VARIABLES
  lock, alive, handle,
  blame        \* history: what each handle was caught by since it was opened

vars == <<lock, alive, handle, blame>>

\* After the judgement, before the pid is in the file.
Taking == {"taking", "naming"}

\* "looking", Taking: inside acquire, on either side of the judgement;
\* "leaving": inside release, after the pid was compared.
Inside == {"looking", "leaving"} \cup Taking

Busy(p) == \E h \in Handles : ProcessOf[h] = p /\ handle[h] \in Inside

Runs(h) == ProcessOf[h] \in alive

Init ==
  /\ lock \in Pids \cup {Nobody}
  /\ alive \in SUBSET Pids
  /\ handle = [h \in Handles |-> "closed"]
  /\ blame = [h \in Handles |-> {}]

Open(h) ==
  /\ Runs(h)
  /\ handle[h] = "closed"
  /\ ~Busy(ProcessOf[h])
  /\ handle' = [handle EXCEPT ![h] = "looking"]
  /\ blame' = [blame EXCEPT ![h] = {}]
  /\ UNCHANGED <<lock, alive>>

\* A live owner other than this process refuses it.
\* Wrong, and used by nothing: the owner's pid is not looked up.
Refused_Never(h) == FALSE

Refused(h) == lock \notin {Nobody, ProcessOf[h]} /\ lock \in alive

\* Others that have judged the file and not yet written it.
Rivals(h) == {g \in Handles \ {h} : handle[g] \in Taking}

\* The lock is judged free, stale or this process's own. Who judges while another
\* is about to write is in a race with it.
Pass(h) ==
  /\ Runs(h)
  /\ handle[h] = "looking"
  /\ ~Refused(h)
  /\ handle' = [handle EXCEPT ![h] = "taking"]
  /\ blame' = [g \in Handles |->
       IF g \in Rivals(h) \/ (g = h /\ Rivals(h) # {}) THEN blame[g] \cup {"race"} ELSE blame[g]]
  /\ UNCHANGED <<lock, alive>>

\* The deadline passes under a live owner: the knowledge base opens read-only.
\* Before the deadline the handle sleeps and looks again.
GiveUp(h) ==
  /\ Runs(h)
  /\ handle[h] = "looking"
  /\ Refused(h)
  /\ handle' = [handle EXCEPT ![h] = "readonly"]
  /\ UNCHANGED <<lock, alive, blame>>

\* Those the lock file names lose it to h: to another handle of their own process,
\* or to one that was itself caught.
Robbed(h) ==
  blame' = [g \in Handles |->
    IF g = h \/ handle[g] = "closed" \/ ProcessOf[g] # lock THEN blame[g]
    ELSE blame[g] \cup blame[h] \cup (IF ProcessOf[g] = ProcessOf[h] THEN {"shared"} ELSE {})]

\* The file is opened, which empties it, or cannot be.
Take(h) ==
  /\ Runs(h)
  /\ handle[h] = "taking"
  /\ \/ lock' = Nobody /\ handle' = [handle EXCEPT ![h] = "naming"] /\ Robbed(h)
     \/ handle' = [handle EXCEPT ![h] = "readonly"] /\ UNCHANGED <<lock, blame>>
  /\ UNCHANGED alive

\* The pid is written, or cannot be, which leaves the file as it is.
Name(h) ==
  /\ Runs(h)
  /\ handle[h] = "naming"
  /\ \/ lock' = ProcessOf[h] /\ handle' = [handle EXCEPT ![h] = "writer"] /\ Robbed(h)
     \/ handle' = [handle EXCEPT ![h] = "readonly"] /\ UNCHANGED <<lock, blame>>
  /\ UNCHANGED alive

\* The open throws after the lock was taken, as a failed migration makes it: no
\* handle is returned and the lock file stays.
Throw(h) ==
  /\ Runs(h)
  /\ handle[h] = "writer"
  /\ handle' = [handle EXCEPT ![h] = "closed"]
  /\ UNCHANGED <<lock, alive, blame>>

\* close: the store first, then the lock file, if it still holds this pid. Other
\* processes may be polling meanwhile, as a restart makes them.
Removes(h) == lock = ProcessOf[h]

Close(h) ==
  /\ Runs(h)
  /\ handle[h] \in {"writer", "readonly"}
  /\ ~Busy(ProcessOf[h])
  /\ handle' = [handle EXCEPT ![h] =
       IF handle[h] = "writer" /\ Removes(h) THEN "leaving" ELSE "closed"]
  /\ UNCHANGED <<lock, alive, blame>>

\* Wrong, and used by nothing: the lock goes before the store is closed.
Unlink_BeforeClose(h) ==
  /\ Runs(h)
  /\ handle[h] = "writer"
  /\ lock' = Nobody
  /\ Robbed(h)
  /\ UNCHANGED <<handle, alive>>

Unlink(h) ==
  /\ Runs(h)
  /\ handle[h] = "leaving"
  /\ lock' = Nobody
  /\ handle' = [handle EXCEPT ![h] = "closed"]
  /\ Robbed(h)
  /\ UNCHANGED alive

\* A process dies where it is and leaves its lock file; another process, of
\* this program or not, is started under a free pid.
Die(p) ==
  /\ p \in alive
  /\ alive' = alive \ {p}
  /\ handle' = [h \in Handles |-> IF ProcessOf[h] = p THEN "closed" ELSE handle[h]]
  /\ UNCHANGED <<lock, blame>>

Launch(p) ==
  /\ p \notin alive
  /\ alive' = alive \cup {p}
  /\ UNCHANGED <<lock, handle, blame>>

Next ==
  \/ \E h \in Handles : Open(h) \/ Pass(h) \/ GiveUp(h) \/ Take(h) \/ Name(h)
                          \/ Throw(h) \/ Close(h) \/ Unlink(h)
  \/ \E p \in Pids : Die(p) \/ Launch(p)

Spec == Init /\ [][Next]_vars

-----------------------------------------------------------------------------
TypeOK ==
  /\ lock \in Pids \cup {Nobody}
  /\ alive \subseteq Pids
  /\ handle \in [Handles -> {"closed", "writer", "readonly"} \cup Inside]
  /\ blame \in [Handles -> SUBSET {"race", "shared"}]
  /\ \A h \in Handles : handle[h] # "closed" => Runs(h)

\* Two processes write only after the two ways the lock is known to give way, and
\* then one of the writers was caught by one of them: it judged the file while
\* another was about to write it, or another handle of its process took or removed
\* the file. Crashes, stale files, reused pids, failed writes of the file and the
\* handover of a restart never do it.
OneWriter ==
  \A h, g \in Handles :
    (handle[h] = "writer" /\ handle[g] = "writer" /\ blame[h] = {} /\ blame[g] = {})
      => ProcessOf[h] = ProcessOf[g]

\* A writer caught by neither is named by the lock file, so that a process that
\* looks there finds it: no close, takeover or failed open of another process
\* removes its pid.
WriterIsNamed ==
  \A h \in Handles : (handle[h] = "writer" /\ blame[h] = {}) => lock = ProcessOf[h]

\* "Exactly one process may hold the write handle", as long as no two processes
\* race for it.
OneWriterWithoutRace ==
  \A h, g \in Handles :
    (handle[h] = "writer" /\ handle[g] = "writer" /\ "race" \notin blame[h] \cup blame[g])
      => ProcessOf[h] = ProcessOf[g]
=============================================================================
