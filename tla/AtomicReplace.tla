----------------------------- MODULE AtomicReplace -----------------------------
(***************************************************************************)
(* What writeFileAtomic (core/src/write/atomic.ts) promises its callers: a  *)
(* page is replaced in one step, the text returned as `before` is the one   *)
(* that was replaced, and after a power failure every page holds, whole,    *)
(* one of the texts it has had.                                             *)
(***************************************************************************)
CONSTANTS
  Paths, Texts,
  Absent,      \* no file
  Writers,     \* calls that replace a file, or remove it
  Target,      \* the file of each call: [Writers -> Paths]
  Text,        \* its text, or Absent to remove the file
  First        \* the initial pages

VARIABLES
  page,        \* [Paths -> Texts \cup {Absent}]
  before,      \* what each finished call returned as the text before the write
  finished     \* the calls that had their effect

Init ==
  /\ page = First
  /\ before = [w \in Writers |-> Absent]
  /\ finished = {}

Replace(w) ==
  /\ w \notin finished
  /\ page' = [page EXCEPT ![Target[w]] = Text[w]]
  /\ before' = [before EXCEPT ![w] = page[Target[w]]]
  /\ finished' = finished \cup {w}

\* The texts a file has had, since the directory is not forced to storage.
Held(p) == {First[p]} \cup {Text[w] : w \in {v \in finished : Target[v] = p}}

PowerFailure ==
  /\ page' \in {f \in [Paths -> Texts \cup {Absent}] : \A p \in Paths : f[p] \in Held(p)}
  /\ UNCHANGED <<before, finished>>

Next == PowerFailure \/ \E w \in Writers : Replace(w)

Spec == Init /\ [][Next]_<<page, before, finished>>
=============================================================================
