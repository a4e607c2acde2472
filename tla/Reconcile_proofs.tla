---------------------------- MODULE Reconcile_proofs ----------------------------
(***************************************************************************)
(* The index and the files, for any number of files, contents and inputs:   *)
(* the stat fast path is sound, a reported change is not lost, and close    *)
(* leaves no derivation untried.                                            *)
(***************************************************************************)
EXTENDS Reconcile, TLAPS

File == [body : Bodies \cup {None}, mtime : Nat]
FileRow == [body : Bodies \cup {None}, sha : Bodies \cup {None}, mtime : Nat]
Pass == [pc : {"idle", "waiting", "hash", "read"}, verify : BOOLEAN, scope : SUBSET Paths,
         todo : SUBSET Paths, found : [Paths -> Nat], sha : [Paths -> Bodies \cup {None}]]

Looks(w) == pass[w].pc \in {"hash", "read"}

Types ==
  /\ disk \in [Paths -> File]
  /\ row \in [Paths -> FileRow]
  /\ pass \in [Who -> Pass]
  /\ count \in Nat
  /\ events \subseteq Paths /\ pending \subseteq Paths /\ known \subseteq Paths /\ quiet \subseteq Paths
  /\ dirty \in BOOLEAN /\ timer \in BOOLEAN
  /\ queue \subseteq Paths

\* Every mtime is of a save that has happened, and 0 stands for no file.
Times == \A p \in Paths :
  /\ disk[p].mtime <= count + 1 /\ row[p].mtime <= count + 1
  /\ \A w \in Who : pass[w].found[p] <= count + 1
  /\ disk[p].mtime = 0 <=> disk[p] = NoFile
  /\ disk[p].body = None <=> disk[p] = NoFile
  /\ row[p].mtime = 0 => row[p].body = None

\* What a pass looks at was there when it took the stats.
Looking == \A w \in Who : \A p \in Paths :
  /\ p \in pass[w].todo => p \in pass[w].scope /\ pass[w].found[p] # 0 /\ Looks(w)
  /\ pass[w].sha[p] # None => p \in pass[w].scope /\ pass[w].found[p] # 0 /\ Looks(w)

\* A hash is of the file whose stat the pass took, if the file still has that stat.
HashOfStat == \A w \in Who : \A p \in Paths \ quiet :
  pass[w].sha[p] # None /\ pass[w].found[p] = disk[p].mtime => pass[w].sha[p] = disk[p].body

\* A change the watcher knows of and has put into the pass that runs.
Taken(p) == p \in known /\ p \notin pending /\ ~dirty

\* The running pass has taken the stat of what it was started for, and has got it
\* into the row when it is done with it.
Progress == \A p \in Paths : Taken(p) =>
  /\ row[p].mtime # disk[p].mtime => p \in pass["watcher"].scope /\ Running
  /\ p \in pass["watcher"].scope /\ Looks("watcher") => pass["watcher"].found[p] = disk[p].mtime
  /\ p \in pass["watcher"].scope \ pass["watcher"].todo /\ pass["watcher"].pc = "hash" =>
       \/ row[p].mtime = disk[p].mtime
       \/ pass["watcher"].sha[p] # None
       \/ pass["watcher"].found[p] = 0
  /\ p \in pass["watcher"].scope \ pass["watcher"].todo /\ pass["watcher"].pc = "read" =>
       row[p].mtime = disk[p].mtime

\* A derivation that took the stat of an older file has the watcher's pass behind it.
Behind == \A p \in Paths : Taken(p) =>
  (p \in pass["derive"].scope /\ Looks("derive") =>
     \/ pass["derive"].found[p] = disk[p].mtime
     \/ p \in pass["watcher"].scope /\ pass["watcher"].pc = "waiting")

\* Only the pass at the head of the lane looks at files.
Turn == \A w \in Who : Looks(w) => lane # <<>> /\ Head(lane) = w

Awake == closing # "closed" /\ (pending # {} \/ dirty) => timer \/ Running

FastInv == Types /\ Times /\ Looking /\ HashOfStat /\ FastPathSound
HeldInv == Progress /\ Behind /\ Awake

-----------------------------------------------------------------------------
(* The stat fast path *)

LEMMA NoFileTyped ==
  /\ NoFile \in File /\ NoRow \in FileRow /\ NoPass \in Pass /\ None \notin Bodies /\ Original \in Bodies
  /\ "watcher" \in Who /\ "derive" \in Who
BY ReconcileAssumption DEF NoFile, NoRow, NoPass, File, FileRow, Pass, Who

\* A pass record that looks at nothing.
Blank(r) == /\ r \in Pass /\ r.pc \in {"idle", "waiting"} /\ r.todo = {}
            /\ \A p \in Paths : r.found[p] = 0 /\ r.sha[p] = None

LEMMA WaitingTyped ==
  ASSUME NEW paths \in SUBSET Paths, NEW verify \in BOOLEAN
  PROVE  /\ Blank(Waiting(paths, verify))
         /\ Waiting(paths, verify).pc = "waiting" /\ Waiting(paths, verify).scope = paths
BY ReconcileAssumption DEF Waiting, NoPass, Pass, Blank

\* Only the rest of the watcher and the derivations move: no pass, or one that is
\* asked for or over.
LEMMA QuietStep ==
  ASSUME FastInv, UNCHANGED <<disk, row, quiet>>, count' \in {count, count + 1},
         events' \subseteq Paths, pending' \subseteq Paths, known' \subseteq Paths,
         dirty' \in BOOLEAN, timer' \in BOOLEAN, queue' \subseteq Paths,
         \/ pass' = pass
         \/ \E w \in Who : \E r : Blank(r) /\ pass' = [pass EXCEPT ![w] = r]
  PROVE  FastInv'
<1>1. pass' \in [Who -> Pass] /\ \A w \in Who : pass'[w] = pass[w] \/ Blank(pass'[w])
  BY DEF FastInv, Types, Blank
<1>2. Types'
  BY <1>1 DEF FastInv, Types
<1>3. count \in Nat /\ row \in [Paths -> FileRow] /\ disk \in [Paths -> File]
      /\ \A w \in Who : pass[w].found \in [Paths -> Nat]
  BY DEF FastInv, Types, Pass
<1>4. Times'
  <2> SUFFICES ASSUME NEW p \in Paths
               PROVE  /\ disk[p].mtime <= count' + 1 /\ row[p].mtime <= count' + 1
                      /\ \A w \in Who : pass'[w].found[p] <= count' + 1
    BY DEF FastInv, Times
  <2>1. disk[p].mtime \in Nat /\ row[p].mtime \in Nat /\ disk[p].mtime <= count + 1 /\ row[p].mtime <= count + 1
    BY <1>3 DEF File, FileRow, FastInv, Times
  <2>2. ASSUME NEW w \in Who PROVE pass'[w].found[p] <= count' + 1
    <3>1. pass[w].found[p] \in Nat /\ pass[w].found[p] <= count + 1
      BY <1>3 DEF FastInv, Times
    <3> QED BY <1>1, <1>3, <3>1 DEF Blank
  <2> QED BY <1>3, <2>1, <2>2
<1>5. Looking'
  BY <1>1 DEF FastInv, Looking, Looks, Blank
<1>6. HashOfStat' /\ FastPathSound'
  BY <1>1 DEF FastInv, HashOfStat, FastPathSound, Blank
<1> QED BY <1>2, <1>4, <1>5, <1>6 DEF FastInv

\* A file is saved, quietly or not, or deleted.
LEMMA ChangedStep ==
  ASSUME FastInv, NEW p \in Paths, NEW file \in File, Changed(p, file), quiet' \subseteq Paths,
         \A q \in Paths \ {p} : q \in quiet' <=> q \in quiet,
         \/ file = NoFile
         \/ file.body # None /\ file.mtime = 2 + count
         \/ file.body # None /\ file.mtime = disk[p].mtime /\ disk[p] # NoFile /\ p \in quiet'
  PROVE  FastInv'
<1>1. /\ count' = count + 1 /\ disk' = [disk EXCEPT ![p] = file] /\ known' = known \ {p}
      /\ events' = events \cup {p}
      /\ UNCHANGED <<row, pending, dirty, timer, pass, queue>>
  BY DEF Changed, Input, watch, defer
<1>2. Types'
  BY <1>1 DEF FastInv, Types
<1>3. /\ \A q \in Paths \ {p} : disk'[q] = disk[q]
      /\ disk'[p] = file
  BY <1>1 DEF FastInv, Types
<1>4. /\ disk \in [Paths -> File] /\ row \in [Paths -> FileRow] /\ count \in Nat
      /\ \A w \in Who : pass[w].found \in [Paths -> Nat]
  BY DEF FastInv, Types, Pass
<1>5. Times'
  <2> SUFFICES ASSUME NEW q \in Paths
               PROVE  /\ disk'[q].mtime <= count' + 1 /\ row[q].mtime <= count' + 1
                      /\ \A w \in Who : pass[w].found[q] <= count' + 1
                      /\ disk'[q].mtime = 0 <=> disk'[q] = NoFile
                      /\ disk'[q].body = None <=> disk'[q] = NoFile
                      /\ row[q].mtime = 0 => row[q].body = None
    BY <1>1 DEF Times
  <2>1. /\ disk[q].mtime <= count + 1 /\ row[q].mtime <= count + 1
        /\ \A w \in Who : pass[w].found[q] <= count + 1
        /\ disk[q].mtime = 0 <=> disk[q] = NoFile
        /\ disk[q].body = None <=> disk[q] = NoFile
        /\ row[q].mtime = 0 => row[q].body = None
    BY DEF FastInv, Times
  <2>2. disk[q].mtime \in Nat /\ row[q].mtime \in Nat /\ \A w \in Who : pass[w].found[q] \in Nat
    BY <1>4 DEF File, FileRow
  <2>3. CASE q # p
    BY <1>1, <1>3, <1>4, <2>1, <2>2, <2>3
  <2>4. CASE q = p
    <3>1. NoFile.body = None /\ NoFile.mtime = 0
      BY DEF NoFile
    <3> QED BY <1>1, <1>3, <1>4, <2>1, <2>2, <2>4, <3>1
  <2> QED BY <2>3, <2>4
<1>6. Looking'
  BY <1>1 DEF FastInv, Looking, Looks
<1>7. /\ \A w \in Who : p \notin quiet' /\ pass[w].sha[p] # None => pass[w].found[p] # file.mtime
      /\ p \notin quiet' /\ row[p].mtime = file.mtime => row[p].body = file.body
  <2>1. /\ row[p].mtime <= count + 1
        /\ row[p].mtime = 0 => row[p].body = None
        /\ row[p].mtime \in Nat
        /\ \A w \in Who : /\ pass[w].found[p] <= count + 1 /\ pass[w].found[p] \in Nat
                          /\ pass[w].sha[p] # None => pass[w].found[p] # 0
    BY <1>4 DEF FastInv, Times, Looking, FileRow
  <2>2. NoFile.body = None /\ NoFile.mtime = 0
    BY DEF NoFile
  <2> QED BY <1>4, <2>1, <2>2
<1>8. HashOfStat'
  BY <1>1, <1>3, <1>7 DEF FastInv, HashOfStat
<1>9. FastPathSound'
  BY <1>1, <1>3, <1>7 DEF FastInv, FastPathSound
<1> QED BY <1>2, <1>5, <1>6, <1>8, <1>9 DEF FastInv

LEMMA FlushMoves ==
  ASSUME FastInv, NEW whole \in BOOLEAN, NEW verify \in BOOLEAN, Flush(whole, verify)
  PROVE  /\ \/ pass' = pass
            \/ \E w \in Who : \E r : Blank(r) /\ pass' = [pass EXCEPT ![w] = r]
         /\ pending' \subseteq Paths /\ dirty' \in BOOLEAN
<1>1. pass \in [Who -> Pass] /\ pending \subseteq Paths
  BY DEF FastInv, Types
<1>2. CASE Running \/ (pending = {} /\ ~whole /\ ~verify)
  BY <1>1, <1>2 DEF Flush
<1>3. CASE ~(Running \/ (pending = {} /\ ~whole /\ ~verify))
  <2> DEFINE paths == IF whole \/ verify THEN Paths ELSE pending
  <2>1. /\ pass' = [pass EXCEPT !["watcher"] = Waiting(paths, verify)]
        /\ pending' = {} /\ dirty' = FALSE
    BY <1>3 DEF Flush
  <2>2. paths \in SUBSET Paths
    BY <1>1
  <2> HIDE DEF paths
  <2>3. Blank(Waiting(paths, verify))
    BY <2>2, WaitingTyped
  <2> QED BY <2>1, <2>3, NoFileTyped
<1> QED BY <1>2, <1>3

LEMMA FlushKeeps ==
  ASSUME FastInv, NEW whole \in BOOLEAN, NEW verify \in BOOLEAN, Flush(whole, verify),
         FlushStep, timer' \in BOOLEAN
  PROVE  FastInv'
<1>1. UNCHANGED <<disk, row, events, queue, known, quiet, count>>
  BY DEF FlushStep, defer
<1>2. /\ \/ pass' = pass
         \/ \E w \in Who : \E r : Blank(r) /\ pass' = [pass EXCEPT ![w] = r]
      /\ pending' \subseteq Paths /\ dirty' \in BOOLEAN
  BY FlushMoves
<1>3. events' \subseteq Paths /\ known' \subseteq Paths /\ queue' \subseteq Paths
  BY <1>1 DEF FastInv, Types
<1> QED BY <1>1, <1>2, <1>3, QuietStep

\* A step of a pass.
LEMMA PassFacts ==
  ASSUME PassStep
  PROVE  UNCHANGED <<disk, events, pending, dirty, timer, lane, queue, drain, owed, closing, quiet>>
BY DEF PassStep, watch, defer

\* What a step of a pass must leave of its record and the rows.
LEMMA WorkKeeps ==
  ASSUME FastInv, NEW w \in Who, NEW r \in Pass, pass' = [pass EXCEPT ![w] = r],
         UNCHANGED <<disk, events, pending, dirty, timer, queue, quiet>>,
         count' \in {count, count + 1}, known' \subseteq known,
         row' \in [Paths -> FileRow],
         \A p \in Paths : /\ row'[p].mtime <= count' + 1
                          /\ row'[p].mtime = 0 => row'[p].body = None
                          /\ r.found[p] <= count' + 1
                          /\ p \in r.todo \/ r.sha[p] # None =>
                               p \in r.scope /\ r.found[p] # 0 /\ r.pc \in {"hash", "read"},
         \A p \in Paths \ quiet :
           /\ r.sha[p] # None /\ r.found[p] = disk[p].mtime => r.sha[p] = disk[p].body
           /\ row'[p].mtime = disk[p].mtime /\ row'[p].sha = row'[p].body => row'[p].body = disk[p].body
  PROVE  FastInv'
<1>1. pass \in [Who -> Pass] /\ count \in Nat /\ disk \in [Paths -> File]
  BY DEF FastInv, Types
<1>2. /\ pass'[w] = r /\ pass' \in [Who -> Pass]
      /\ \A v \in Who \ {w} : pass'[v] = pass[v]
  BY <1>1
<1>3. Types'
  BY <1>2 DEF FastInv, Types
<1>4. Times'
  <2> SUFFICES ASSUME NEW p \in Paths
               PROVE  /\ disk[p].mtime <= count' + 1
                      /\ \A v \in Who : pass'[v].found[p] <= count' + 1
    BY DEF FastInv, Times
  <2>1. disk[p].mtime \in Nat /\ disk[p].mtime <= count + 1
    BY <1>1 DEF File, FastInv, Times
  <2>2. ASSUME NEW v \in Who \ {w} PROVE pass'[v].found[p] <= count' + 1
    <3>1. pass[v].found[p] \in Nat /\ pass[v].found[p] <= count + 1
      BY <1>1 DEF Pass, FastInv, Times
    <3> QED BY <1>1, <1>2, <3>1
  <2> QED BY <1>1, <1>2, <2>1, <2>2
<1>5. Looking'
  BY <1>2 DEF FastInv, Looking, Looks
<1>6. HashOfStat' /\ FastPathSound'
  BY <1>2 DEF FastInv, HashOfStat, FastPathSound
<1> QED BY <1>3, <1>4, <1>5, <1>6 DEF FastInv

\* What the invariant says of the rows and records, one fact per name.
LEMMA FastFacts ==
  ASSUME FastInv
  PROVE  /\ disk \in [Paths -> File] /\ row \in [Paths -> FileRow] /\ count \in Nat
         /\ known \subseteq Paths
         /\ \A w \in Who : /\ pass[w] \in Pass /\ pass[w].found \in [Paths -> Nat]
                           /\ pass[w].sha \in [Paths -> Bodies \cup {None}]
                           /\ pass[w].todo \subseteq Paths /\ pass[w].scope \subseteq Paths
         /\ \A p \in Paths : /\ disk[p].mtime \in Nat /\ row[p].mtime \in Nat
                             /\ disk[p].mtime <= count + 1 /\ row[p].mtime <= count + 1
                             /\ row[p].mtime = 0 => row[p].body = None
                             /\ disk[p].mtime = 0 <=> disk[p] = NoFile
                             /\ disk[p].body = None <=> disk[p] = NoFile
         /\ \A w \in Who : \A p \in Paths : pass[w].found[p] <= count + 1
<1>1. /\ disk \in [Paths -> File] /\ row \in [Paths -> FileRow] /\ count \in Nat /\ pass \in [Who -> Pass]
      /\ known \subseteq Paths
  BY DEF FastInv, Types
<1>2. \A w \in Who : /\ pass[w] \in Pass /\ pass[w].found \in [Paths -> Nat]
                     /\ pass[w].sha \in [Paths -> Bodies \cup {None}]
                     /\ pass[w].todo \subseteq Paths /\ pass[w].scope \subseteq Paths
  BY <1>1 DEF Pass
<1>3. \A p \in Paths : disk[p].mtime \in Nat /\ row[p].mtime \in Nat
  BY <1>1 DEF File, FileRow
<1> QED BY <1>1, <1>2, <1>3 DEF FastInv, Times

LEMMA ScanKeeps ==
  ASSUME FastInv, NEW w \in Who, Scan(w)
  PROVE  FastInv'
<1> DEFINE found == [p \in Paths |-> IF p \in pass[w].scope THEN disk[p].mtime ELSE 0]
           todo == {p \in pass[w].scope : /\ disk[p] # NoFile
                                          /\ \/ w = "derive" \/ pass[w].verify
                                             \/ row[p].mtime # disk[p].mtime}
           r == [pass[w] EXCEPT !.pc = "hash", !.verify = FALSE, !.found = found, !.todo = todo]
<1>1. /\ pass[w].pc = "waiting" /\ row' = row /\ known' = known /\ count' = count
      /\ pass' = [pass EXCEPT ![w] = r]
      /\ UNCHANGED <<disk, events, pending, dirty, timer, queue, quiet>>
  BY PassFacts DEF Scan
<1>2. /\ disk \in [Paths -> File] /\ pass[w] \in Pass /\ row \in [Paths -> FileRow]
      /\ \A p \in Paths : disk[p].mtime \in Nat
      /\ pass[w].scope \subseteq Paths
  BY FastFacts
<1>3. found \in [Paths -> Nat] /\ todo \in SUBSET Paths
  BY <1>2
<1>4. \A p \in Paths : found[p] = (IF p \in pass[w].scope THEN disk[p].mtime ELSE 0)
  OBVIOUS
<1>5. \A p \in todo : p \in Paths /\ p \in pass[w].scope /\ disk[p] # NoFile
  BY <1>2
<1> HIDE DEF found, todo
<1>6. /\ r \in Pass /\ r.pc = "hash" /\ r.found = found /\ r.todo = todo
      /\ r.sha = pass[w].sha /\ r.scope = pass[w].scope
  BY <1>2, <1>3 DEF Pass
<1> HIDE DEF r
<1>7. \A p \in Paths : pass[w].sha[p] = None
  BY <1>1 DEF FastInv, Looking, Looks
<1>8. \A p \in Paths : /\ row'[p].mtime <= count' + 1
                       /\ row'[p].mtime = 0 => row'[p].body = None
                       /\ r.found[p] <= count' + 1
  BY <1>1, <1>4, <1>6, FastFacts
<1>9. \A p \in Paths : p \in r.todo \/ r.sha[p] # None =>
        p \in r.scope /\ r.found[p] # 0 /\ r.pc \in {"hash", "read"}
  BY <1>4, <1>5, <1>6, <1>7, FastFacts
<1>10. \A p \in Paths \ quiet :
        /\ r.sha[p] # None /\ r.found[p] = disk[p].mtime => r.sha[p] = disk[p].body
        /\ row'[p].mtime = disk[p].mtime /\ row'[p].sha = row'[p].body => row'[p].body = disk[p].body
  BY <1>1, <1>6, <1>7 DEF FastInv, FastPathSound
<1> QED BY <1>1, <1>2, <1>6, <1>8, <1>9, <1>10, WorkKeeps

\* What a step on one file of a phase leaves of the record.
LEMMA LessToDo ==
  ASSUME NEW w \in Who, pass[w] \in Pass, NEW p \in Paths
  PROVE  /\ Less(w, p) \in Pass
         /\ Less(w, p).pc = pass[w].pc /\ Less(w, p).found = pass[w].found
         /\ Less(w, p).todo = pass[w].todo \ {p} /\ Less(w, p).sha = pass[w].sha
         /\ Less(w, p).scope = pass[w].scope
BY DEF Less, Pass

LEMMA HashKeeps ==
  ASSUME FastInv, NEW w \in Who, NEW p \in Paths, Hash(w, p)
  PROVE  FastInv'
<1> DEFINE sha == [pass[w].sha EXCEPT ![p] = disk[p].body]
           f == Less(w, p)
           r == [f EXCEPT !.sha = sha]
<1>1. /\ pass[w].pc = "hash" /\ p \in pass[w].todo /\ row' = row
      /\ pass' = [pass EXCEPT ![w] = r] \/ pass' = [pass EXCEPT ![w] = f]
      /\ known' \subseteq known /\ count' \in {count, count + 1}
      /\ UNCHANGED <<disk, events, pending, dirty, timer, queue, quiet>>
  <2>1. pass' = [pass EXCEPT ![w] = r] \/ pass' = [pass EXCEPT ![w] = f]
    BY DEF Hash
  <2>2. known' \subseteq known /\ count' \in {count, count + 1}
    BY DEF Hash, Warned, Input
  <2> QED BY <2>1, <2>2, PassFacts DEF Hash
<1>2. disk[p].body \in Bodies \cup {None} /\ pass[w] \in Pass /\ row \in [Paths -> FileRow]
  BY FastFacts DEF File
<1>3. /\ sha \in [Paths -> Bodies \cup {None}]
      /\ \A q \in Paths : sha[q] = IF q = p THEN disk[p].body ELSE pass[w].sha[q]
  BY <1>2 DEF Pass
<1>a. /\ f \in Pass
      /\ f.pc = pass[w].pc /\ f.found = pass[w].found /\ f.todo = pass[w].todo \ {p}
      /\ f.sha = pass[w].sha /\ f.scope = pass[w].scope
  BY <1>2, LessToDo
<1> HIDE DEF sha, f
<1>4. /\ r \in Pass
      /\ r.pc = pass[w].pc /\ r.found = pass[w].found /\ r.todo = pass[w].todo \ {p}
      /\ r.sha = sha /\ r.scope = pass[w].scope
  BY <1>3, <1>a DEF Pass
<1> HIDE DEF r
<1>5. \A q \in Paths : /\ row'[q].mtime <= count' + 1
                       /\ row'[q].mtime = 0 => row'[q].body = None
                       /\ pass[w].found[q] <= count' + 1
  BY <1>1, FastFacts
<1>6. \A q \in Paths : q \in pass[w].todo \/ pass[w].sha[q] # None =>
        q \in pass[w].scope /\ pass[w].found[q] # 0
  BY DEF FastInv, Looking
<1>7. \A q \in Paths \ quiet :
        /\ pass[w].sha[q] # None /\ pass[w].found[q] = disk[q].mtime => pass[w].sha[q] = disk[q].body
        /\ row'[q].mtime = disk[q].mtime /\ row'[q].sha = row'[q].body => row'[q].body = disk[q].body
  BY <1>1 DEF FastInv, HashOfStat, FastPathSound
<1>8. CASE pass' = [pass EXCEPT ![w] = r]
  <2>1. \A q \in Paths : q \in r.todo \/ r.sha[q] # None =>
          q \in r.scope /\ r.found[q] # 0 /\ r.pc \in {"hash", "read"}
    BY <1>1, <1>3, <1>4, <1>6
  <2>2. \A q \in Paths \ quiet :
          r.sha[q] # None /\ r.found[q] = disk[q].mtime => r.sha[q] = disk[q].body
    BY <1>3, <1>4, <1>7
  <2>3. row' \in [Paths -> FileRow] /\ \A q \in Paths : r.found[q] <= count' + 1
    BY <1>1, <1>2, <1>4, <1>5
  <2> QED BY <1>1, <1>4, <1>5, <1>7, <1>8, <2>1, <2>2, <2>3, WorkKeeps
<1>9. CASE pass' = [pass EXCEPT ![w] = f]
  <2>1. \A q \in Paths : q \in f.todo \/ f.sha[q] # None =>
          q \in f.scope /\ f.found[q] # 0 /\ f.pc \in {"hash", "read"}
    BY <1>1, <1>a, <1>6
  <2>2. \A q \in Paths \ quiet :
          f.sha[q] # None /\ f.found[q] = disk[q].mtime => f.sha[q] = disk[q].body
    BY <1>a, <1>7
  <2>3. row' \in [Paths -> FileRow] /\ \A q \in Paths : f.found[q] <= count' + 1
    BY <1>1, <1>2, <1>a, <1>5
  <2> QED BY <1>1, <1>a, <1>5, <1>7, <1>9, <2>1, <2>2, <2>3, WorkKeeps
<1> QED BY <1>1, <1>8, <1>9

\* What Sort makes of the rows and the record.
LEMMA SortMoves ==
  ASSUME FastInv, NEW w \in Who, Sort(w)
  PROVE  /\ row' \in [Paths -> FileRow]
         /\ \A p \in Paths :
              \/ /\ row'[p] = row[p]
                 /\ ~(p \in pass[w].scope /\ pass[w].found[p] = 0)
                 /\ pass[w].sha[p] = None \/ ~Same(w, p)
              \/ row'[p] = NoRow /\ p \in pass[w].scope /\ pass[w].found[p] = 0
              \/ /\ pass[w].sha[p] # None /\ pass[w].sha[p] = row[p].sha
                 /\ row'[p].mtime = pass[w].found[p]
                 /\ row'[p].sha = row[p].sha /\ row'[p].body = row[p].body
         /\ \E r \in Pass :
              /\ pass' = [pass EXCEPT ![w] = r]
              /\ r.pc = "read" /\ r.found = pass[w].found /\ r.scope = pass[w].scope
              /\ r.todo = {p \in pass[w].scope : pass[w].sha[p] # None /\ ~Same(w, p)}
              /\ \A p \in Paths : r.sha[p] = IF p \in r.todo THEN pass[w].sha[p] ELSE None
<1> DEFINE needed == {p \in pass[w].scope : pass[w].sha[p] # None /\ ~Same(w, p)}
           sha == [p \in Paths |-> IF p \in needed THEN pass[w].sha[p] ELSE None]
           rows == [p \in Paths |->
             IF p \in pass[w].scope /\ pass[w].found[p] = 0 THEN NoRow
             ELSE IF pass[w].sha[p] # None /\ Same(w, p)
                  THEN [row[p] EXCEPT !.mtime = pass[w].found[p]] ELSE row[p]]
           r == [pass[w] EXCEPT !.pc = "read", !.todo = needed, !.sha = sha]
<1>1. row' = rows /\ pass' = [pass EXCEPT ![w] = r]
  BY DEF Sort
<1>2. /\ row \in [Paths -> FileRow] /\ pass[w] \in Pass /\ pass[w].found \in [Paths -> Nat]
      /\ pass[w].sha \in [Paths -> Bodies \cup {None}] /\ pass[w].scope \subseteq Paths
  BY FastFacts
<1>3. rows \in [Paths -> FileRow]
  BY <1>2, NoFileTyped DEF FileRow
<1>4. \A p \in Paths :
        \/ /\ rows[p] = row[p]
           /\ ~(p \in pass[w].scope /\ pass[w].found[p] = 0)
           /\ pass[w].sha[p] = None \/ ~Same(w, p)
        \/ rows[p] = NoRow /\ p \in pass[w].scope /\ pass[w].found[p] = 0
        \/ /\ pass[w].sha[p] # None /\ pass[w].sha[p] = row[p].sha
           /\ rows[p].mtime = pass[w].found[p]
           /\ rows[p].sha = row[p].sha /\ rows[p].body = row[p].body
  BY <1>2 DEF Same, FileRow
<1>5. sha \in [Paths -> Bodies \cup {None}] /\ needed \in SUBSET Paths
  BY <1>2
<1>6. \A p \in Paths : sha[p] = IF p \in needed THEN pass[w].sha[p] ELSE None
  OBVIOUS
<1> HIDE DEF rows, sha
<1>7. /\ r \in Pass /\ r.pc = "read" /\ r.found = pass[w].found /\ r.scope = pass[w].scope
      /\ r.todo = needed /\ r.sha = sha
  BY <1>2, <1>5 DEF Pass
<1>8. row' \in [Paths -> FileRow] /\ row' = rows
  BY <1>1, <1>3
<1>9. r.todo = needed /\ \A p \in Paths : r.sha[p] = IF p \in r.todo THEN pass[w].sha[p] ELSE None
  BY <1>6, <1>7
<1> HIDE DEF r
<1>10. \E x \in Pass :
        /\ pass' = [pass EXCEPT ![w] = x]
        /\ x.pc = "read" /\ x.found = pass[w].found /\ x.scope = pass[w].scope
        /\ x.todo = needed
        /\ \A p \in Paths : x.sha[p] = IF p \in x.todo THEN pass[w].sha[p] ELSE None
  BY <1>1, <1>7, <1>9
<1> QED BY <1>4, <1>8, <1>10

LEMMA SortKeeps ==
  ASSUME FastInv, NEW w \in Who, Sort(w)
  PROVE  FastInv'
<1>1. /\ pass[w].pc = "hash" /\ known' = known /\ count' = count
      /\ UNCHANGED <<disk, events, pending, dirty, timer, queue, quiet>>
  BY PassFacts DEF Sort
<1>2. PICK r \in Pass :
        /\ pass' = [pass EXCEPT ![w] = r]
        /\ r.pc = "read" /\ r.found = pass[w].found /\ r.scope = pass[w].scope
        /\ r.todo = {p \in pass[w].scope : pass[w].sha[p] # None /\ ~Same(w, p)}
        /\ \A p \in Paths : r.sha[p] = IF p \in r.todo THEN pass[w].sha[p] ELSE None
  BY SortMoves
<1>3. row' \in [Paths -> FileRow]
  BY SortMoves
<1>4. \A p \in Paths :
        \/ row'[p] = row[p]
        \/ row'[p] = NoRow
        \/ /\ pass[w].sha[p] # None /\ pass[w].sha[p] = row[p].sha
           /\ row'[p].mtime = pass[w].found[p]
           /\ row'[p].sha = row[p].sha /\ row'[p].body = row[p].body
  BY SortMoves
<1>5. \A p \in Paths : pass[w].sha[p] # None => p \in pass[w].scope /\ pass[w].found[p] # 0
  BY DEF FastInv, Looking
<1>6. NoRow.body = None /\ NoRow.mtime = 0 /\ NoFile.body = None
  BY DEF NoRow, NoFile
<1>7. \A p \in Paths : /\ row'[p].mtime <= count' + 1
                       /\ row'[p].mtime = 0 => row'[p].body = None
                       /\ r.found[p] <= count' + 1
  BY <1>1, <1>2, <1>4, <1>5, <1>6, FastFacts
<1>8. \A p \in Paths : p \in r.todo \/ r.sha[p] # None =>
        p \in r.scope /\ r.found[p] # 0 /\ r.pc \in {"hash", "read"}
  BY <1>2, <1>5
<1>9. \A p \in Paths \ quiet :
        r.sha[p] # None /\ r.found[p] = disk[p].mtime => r.sha[p] = disk[p].body
  BY <1>2 DEF FastInv, HashOfStat
<1>10. \A p \in Paths \ quiet :
        row'[p].mtime = disk[p].mtime /\ row'[p].sha = row'[p].body => row'[p].body = disk[p].body
  <2> SUFFICES ASSUME NEW p \in Paths \ quiet, row'[p].mtime = disk[p].mtime, row'[p].sha = row'[p].body
               PROVE  row'[p].body = disk[p].body
    OBVIOUS
  <2>1. CASE row'[p] = row[p]
    BY <2>1 DEF FastInv, FastPathSound
  <2>2. CASE row'[p] = NoRow
    BY <2>2, <1>6, FastFacts
  <2>3. CASE /\ pass[w].sha[p] # None /\ pass[w].sha[p] = row[p].sha
             /\ row'[p].mtime = pass[w].found[p]
             /\ row'[p].sha = row[p].sha /\ row'[p].body = row[p].body
    BY <2>3 DEF FastInv, HashOfStat
  <2> QED BY <1>4, <2>1, <2>2, <2>3
<1> QED BY <1>1, <1>2, <1>3, <1>7, <1>8, <1>9, <1>10, WorkKeeps

\* What Read makes of the rows and the record.
LEMMA ReadMoves ==
  ASSUME FastInv, NEW w \in Who, NEW p \in Paths, Read(w, p)
  PROVE  /\ row' \in [Paths -> FileRow]
         /\ \A q \in Paths : \/ row'[q] = row[q]
                             \/ /\ q = p /\ row'[q].mtime = pass[w].found[p] /\ row'[q].body = disk[p].body
                                /\ disk[p] # NoFile
         /\ row'[p].mtime = pass[w].found[p] \/ disk[p] = NoFile \/ known' = known \ ({p} \ pending) \/ w # "watcher"
         /\ pass[w].pc = "read" /\ p \in pass[w].todo
         /\ known' \subseteq known /\ count' \in {count, count + 1}
         /\ \E r \in Pass :
              /\ pass' = [pass EXCEPT ![w] = r]
              /\ r.pc = "read" /\ r.found = pass[w].found /\ r.scope = pass[w].scope
              /\ r.todo = pass[w].todo \ {p} /\ r.sha = pass[w].sha
<1> DEFINE r == Less(w, p)
<1>1. /\ pass[w].pc = "read" /\ p \in pass[w].todo /\ pass' = [pass EXCEPT ![w] = r]
      /\ \/ row' = (IF disk[p] = NoFile THEN row ELSE [row EXCEPT ![p] = Indexed(w, p)]) /\ UNCHANGED <<known, count>>
         \/ row' = row /\ Warned(w, p)
  BY DEF Read
<1>2. /\ disk \in [Paths -> File] /\ row \in [Paths -> FileRow] /\ pass[w] \in Pass
      /\ pass[w].found \in [Paths -> Nat] /\ pass[w].sha \in [Paths -> Bodies \cup {None}]
  BY FastFacts
<1>3. Indexed(w, p) \in FileRow /\ Indexed(w, p).body = disk[p].body /\ Indexed(w, p).mtime = pass[w].found[p]
  BY <1>2 DEF Indexed, File, FileRow
<1>4. /\ r \in Pass /\ r.pc = "read" /\ r.found = pass[w].found /\ r.scope = pass[w].scope
      /\ r.todo = pass[w].todo \ {p} /\ r.sha = pass[w].sha
  BY <1>1, <1>2, LessToDo
<1> HIDE DEF r
<1>5. CASE row' = (IF disk[p] = NoFile THEN row ELSE [row EXCEPT ![p] = Indexed(w, p)]) /\ UNCHANGED <<known, count>>
  <2>1. CASE disk[p] = NoFile
    BY <1>1, <1>2, <1>4, <1>5, <2>1
  <2>2. CASE disk[p] # NoFile
    <3>1. /\ row' = [row EXCEPT ![p] = Indexed(w, p)]
      BY <1>5, <2>2
    <3>2. row' \in [Paths -> FileRow] /\ row'[p] = Indexed(w, p) /\ \A q \in Paths \ {p} : row'[q] = row[q]
      BY <1>2, <1>3, <3>1
    <3> QED BY <1>1, <1>3, <1>4, <1>5, <2>2, <3>2
  <2> QED BY <2>1, <2>2
<1>6. CASE row' = row /\ Warned(w, p)
  <2>1. /\ known' = (IF w = "watcher" THEN known \ ({p} \ pending) ELSE known)
        /\ count' = count + 1
    BY <1>6 DEF Warned, Input
  <2> QED BY <1>1, <1>2, <1>4, <1>6, <2>1
<1> QED BY <1>1, <1>5, <1>6

LEMMA ReadKeeps ==
  ASSUME FastInv, NEW w \in Who, NEW p \in Paths, Read(w, p)
  PROVE  FastInv'
<1>1. UNCHANGED <<disk, events, pending, dirty, timer, queue, quiet>>
  BY PassFacts DEF Read
<1>2. PICK r \in Pass :
        /\ pass' = [pass EXCEPT ![w] = r]
        /\ r.pc = "read" /\ r.found = pass[w].found /\ r.scope = pass[w].scope
        /\ r.todo = pass[w].todo \ {p} /\ r.sha = pass[w].sha
  BY ReadMoves
<1>3. /\ row' \in [Paths -> FileRow] /\ pass[w].pc = "read" /\ p \in pass[w].todo
      /\ known' \subseteq known /\ count' \in {count, count + 1}
  BY ReadMoves
<1>4. \A q \in Paths : \/ row'[q] = row[q]
                       \/ q = p /\ row'[q].mtime = pass[w].found[p] /\ row'[q].body = disk[p].body
  BY ReadMoves
<1>5. \A q \in Paths : q \in pass[w].todo \/ pass[w].sha[q] # None =>
        q \in pass[w].scope /\ pass[w].found[q] # 0
  BY DEF FastInv, Looking
<1>6. \A q \in Paths : /\ row'[q].mtime <= count' + 1
                       /\ row'[q].mtime = 0 => row'[q].body = None
                       /\ r.found[q] <= count' + 1
  BY <1>2, <1>3, <1>4, <1>5, FastFacts
<1>7. \A q \in Paths : q \in r.todo \/ r.sha[q] # None =>
        q \in r.scope /\ r.found[q] # 0 /\ r.pc \in {"hash", "read"}
  BY <1>2, <1>5
<1>8. \A q \in Paths \ quiet :
        /\ r.sha[q] # None /\ r.found[q] = disk[q].mtime => r.sha[q] = disk[q].body
        /\ row'[q].mtime = disk[q].mtime /\ row'[q].sha = row'[q].body => row'[q].body = disk[q].body
  BY <1>2, <1>4 DEF FastInv, HashOfStat, FastPathSound
<1> QED BY <1>1, <1>2, <1>3, <1>6, <1>7, <1>8, WorkKeeps

LEMMA NoPassBlank == Blank(NoPass) /\ NoPass.scope = {}
BY NoFileTyped DEF NoPass, Blank

\* The watcher's pass is over.
LEMMA LeaveKeeps ==
  ASSUME FastInv, Leave, UNCHANGED <<disk, row, events, queue, quiet, pending, dirty>>,
         known' \subseteq known, timer' \in BOOLEAN, count' \in {count, count + 1}
  PROVE  FastInv'
<1>1. \E w \in Who : \E r : Blank(r) /\ pass' = [pass EXCEPT ![w] = r]
  BY NoPassBlank, NoFileTyped DEF Leave
<1> QED BY <1>1, QuietStep DEF FastInv, Types

\* A batch is asked for, or the loop of drain is over.
LEMMA DeriveMoves ==
  ASSUME FastInv, \/ \E paths \in SUBSET Paths : Batch(paths)
                  \/ Loop
  PROVE  /\ \E w \in Who : \E r : Blank(r) /\ pass' = [pass EXCEPT ![w] = r]
         /\ queue' \subseteq Paths /\ pass'["watcher"] = pass["watcher"]
         /\ ~Looks("derive")'
<1>1. pass \in [Who -> Pass] /\ queue \subseteq Paths
  BY DEF FastInv, Types
<1>2. ASSUME NEW paths \in SUBSET Paths, Batch(paths)
      PROVE  /\ \E w \in Who : \E r : Blank(r) /\ pass' = [pass EXCEPT ![w] = r]
             /\ queue' \subseteq Paths /\ pass'["watcher"] = pass["watcher"]
             /\ ~Looks("derive")'
  <2>1. pass' = [pass EXCEPT !["derive"] = Waiting(paths, FALSE)] /\ queue' = {}
    BY <1>2 DEF Batch
  <2>2. Blank(Waiting(paths, FALSE))
    BY WaitingTyped
  <2>3. pass'["watcher"] = pass["watcher"] /\ pass'["derive"] = Waiting(paths, FALSE)
    BY <1>1, <2>1, NoFileTyped
  <2>4. ~Looks("derive")'
    BY <2>2, <2>3 DEF Looks, Blank
  <2> QED BY <2>1, <2>2, <2>3, <2>4, NoFileTyped
<1>3. ASSUME Loop
      PROVE  /\ \E w \in Who : \E r : Blank(r) /\ pass' = [pass EXCEPT ![w] = r]
             /\ queue' \subseteq Paths /\ pass'["watcher"] = pass["watcher"]
             /\ ~Looks("derive")'
  <2>0. Blank(Waiting(queue, FALSE))
    BY <1>1, WaitingTyped
  <2>1. PICK r : /\ r = NoPass \/ r = Waiting(queue, FALSE)
                 /\ pass' = [pass EXCEPT !["derive"] = r] /\ queue' = {}
    BY <1>3 DEF Loop
  <2>2. Blank(r)
    BY <2>0, <2>1, NoPassBlank
  <2>3. pass'["watcher"] = pass["watcher"] /\ pass'["derive"] = r
    BY <1>1, <2>1, NoFileTyped
  <2>4. ~Looks("derive")'
    BY <2>2, <2>3 DEF Looks, Blank
  <2> QED BY <2>1, <2>2, <2>3, <2>4, NoFileTyped
<1> QED BY <1>2, <1>3

-----------------------------------------------------------------------------
(* Reported changes *)

\* Only the derivations' pass is asked for or ends, and no change is newly taken.
LEMMA HeldQuiet ==
  ASSUME HeldInv, UNCHANGED <<disk, row>>, pass'["watcher"] = pass["watcher"], Awake',
         pass' = pass \/ ~Looks("derive")',
         \A p \in Paths : p \in known' /\ p \notin pending' /\ ~dirty' => Taken(p)
  PROVE  HeldInv'
<1>1. Progress'
  BY DEF HeldInv, Progress, Taken, Running, Looks
<1>2. Behind'
  BY DEF HeldInv, Behind, Taken, Looks
<1> QED BY <1>1, <1>2 DEF HeldInv

LEMMA ChangedHeld ==
  ASSUME FastInv, HeldInv, NEW p \in Paths, NEW file, Changed(p, file)
  PROVE  HeldInv'
<1>1. /\ disk' = [disk EXCEPT ![p] = file] /\ known' = known \ {p}
      /\ UNCHANGED <<row, pending, dirty, timer, pass, closing>>
  BY DEF Changed, watch, defer
<1>2. \A q \in Paths \ {p} : disk'[q] = disk[q]
  BY <1>1 DEF FastInv, Types
<1>3. Progress'
  BY <1>1, <1>2 DEF HeldInv, Progress, Taken, Running, Looks
<1>4. Behind'
  BY <1>1, <1>2 DEF HeldInv, Behind, Taken, Looks
<1> QED BY <1>1, <1>3, <1>4 DEF HeldInv, Awake, Running

\* A pass begins with all that was taken, or one runs and everything is dirty.
LEMMA FlushHeld ==
  ASSUME FastInv, HeldInv, NEW whole \in BOOLEAN, NEW verify \in BOOLEAN, Flush(whole, verify),
         dirty => whole \/ verify, FlushStep
  PROVE  HeldInv'
<1>1. UNCHANGED <<disk, row, known, closing>>
  BY DEF FlushStep, defer
<1>2. CASE Running
  <2>1. dirty' = TRUE /\ UNCHANGED <<pending, pass>>
    BY <1>2 DEF Flush
  <2> QED BY <1>1, <1>2, <2>1 DEF HeldInv, Progress, Behind, Taken, Running, Awake
<1>3. CASE ~Running /\ pending = {} /\ ~whole /\ ~verify
  <2>1. dirty' = whole /\ ~dirty' /\ ~dirty /\ UNCHANGED <<pending, pass>>
    BY <1>3 DEF Flush
  <2>2. Awake'
    BY <1>3, <2>1 DEF Awake
  <2> QED BY <1>1, <2>1, <2>2, HeldQuiet DEF Taken
<1>4. CASE ~Running /\ ~(pending = {} /\ ~whole /\ ~verify)
  <2> DEFINE paths == IF whole \/ verify THEN Paths ELSE pending
  <2>1. /\ pass' = [pass EXCEPT !["watcher"] = Waiting(paths, verify)]
        /\ pending' = {} /\ dirty' = FALSE
    BY <1>4 DEF Flush
  <2>2. paths \in SUBSET Paths
    BY DEF FastInv, Types
  <2>3. \A q \in Paths : q \in known /\ ~Taken(q) => q \in paths
    BY DEF Taken
  <2>4. whole \/ verify \/ paths = pending
    OBVIOUS
  <2>5. \A q \in Paths : Taken(q) => row[q].mtime = disk[q].mtime
    BY <1>4 DEF HeldInv, Progress
  <2> HIDE DEF paths
  <2>6. Waiting(paths, verify).pc = "waiting" /\ Waiting(paths, verify).scope = paths
    BY <2>2, WaitingTyped
  <2>7. /\ pass'["watcher"] = Waiting(paths, verify) /\ pass'["derive"] = pass["derive"]
    BY <2>1, NoFileTyped DEF FastInv, Types
  <2>8. \A q \in Paths : Taken(q) => (q \in pass["derive"].scope /\ Looks("derive") =>
                                         pass["derive"].found[q] = disk[q].mtime)
    BY <1>4 DEF HeldInv, Behind, Running
  <2>9. Progress'
    BY <1>1, <2>1, <2>3, <2>5, <2>6, <2>7 DEF Progress, Taken, Running, Looks
  <2>10. Behind'
    BY <1>1, <2>1, <2>3, <2>6, <2>7, <2>8 DEF Behind, Taken, Looks
  <2>11. Awake'
    BY <2>1 DEF Awake
  <2> QED BY <2>9, <2>10, <2>11 DEF HeldInv
<1> QED BY <1>2, <1>3, <1>4

\* While one pass runs, the other does not look at files.
LEMMA OtherWaits ==
  ASSUME Turn, NEW w \in Who, Head(lane) = w
  PROVE  \A v \in Who \ {w} : ~Looks(v)
BY DEF Turn

\* What a step of the watcher's pass leaves: nobody takes for done what the pass
\* looked at too early.
Carries(r) ==
  /\ r.pc \in {"hash", "read"} /\ r.scope = pass["watcher"].scope
  /\ \A p \in Paths : p \in known' /\ Taken(p) =>
       /\ row'[p].mtime # disk[p].mtime => p \in r.scope
       /\ p \in r.scope => r.found[p] = disk[p].mtime
       /\ p \in r.scope \ r.todo /\ r.pc = "hash" =>
            row'[p].mtime = disk[p].mtime \/ r.sha[p] # None \/ r.found[p] = 0
       /\ p \in r.scope \ r.todo /\ r.pc = "read" => row'[p].mtime = disk[p].mtime

LEMMA WatcherHeld ==
  ASSUME NEW r, FastInv, HeldInv, Turn, Head(lane) = "watcher", Running,
         pass' = [pass EXCEPT !["watcher"] = r],
         UNCHANGED <<disk, pending, dirty, timer, closing>>, known' \subseteq known, Carries(r)
  PROVE  HeldInv'
<1>1. pass'["watcher"] = r /\ pass'["derive"] = pass["derive"]
  BY NoFileTyped DEF FastInv, Types
<1>2. \A p \in Paths : Taken(p)' => p \in known' /\ Taken(p)
  BY DEF Taken
<1>3. Running'
  BY <1>1 DEF Running, Carries
<1>4. Progress'
  BY <1>1, <1>2, <1>3 DEF Progress, Looks, Carries
<1>5. ~Looks("derive")'
  BY <1>1, OtherWaits, NoFileTyped DEF Looks
<1>6. Behind'
  BY <1>5 DEF Behind
<1>7. Awake'
  BY <1>3 DEF Awake
<1> QED BY <1>4, <1>6, <1>7 DEF HeldInv

\* A step of the derivations' pass: it writes the stats it took, and those that are
\* old have the watcher's pass behind them.
LEMMA DeriveHeld ==
  ASSUME NEW r, FastInv, HeldInv, Turn, Head(lane) = "derive",
         pass' = [pass EXCEPT !["derive"] = r],
         UNCHANGED <<disk, pending, dirty, timer, closing, known>>,
         r.scope = pass["derive"].scope,
         \A p \in Paths :
           /\ \/ row'[p].mtime = row[p].mtime
              \/ /\ p \in pass["derive"].scope /\ Looks("derive")
                 /\ row'[p].mtime = pass["derive"].found[p]
           /\ p \in r.scope => \/ r.found[p] = disk[p].mtime
                               \/ r.found = pass["derive"].found /\ Looks("derive")
  PROVE  HeldInv'
<1>1. pass'["derive"] = r /\ pass'["watcher"] = pass["watcher"]
  BY NoFileTyped DEF FastInv, Types
<1>2. \A p \in Paths : Taken(p)' <=> Taken(p)
  BY DEF Taken
<1>3. pass["watcher"].pc \notin {"hash", "read"}
  BY OtherWaits, NoFileTyped DEF Looks
<1>4. \A p \in Paths : Taken(p) =>
        \/ row'[p].mtime = row[p].mtime
        \/ row'[p].mtime = disk[p].mtime
        \/ p \in pass["watcher"].scope /\ pass["watcher"].pc = "waiting"
  BY DEF HeldInv, Behind
<1>5. Progress'
  BY <1>1, <1>2, <1>3, <1>4 DEF HeldInv, Progress, Running, Looks
<1>6. \A p \in Paths : Taken(p) /\ p \in r.scope =>
        \/ r.found[p] = disk[p].mtime
        \/ p \in pass["watcher"].scope /\ pass["watcher"].pc = "waiting"
  BY DEF HeldInv, Behind
<1>7. Behind'
  BY <1>1, <1>2, <1>6 DEF Behind
<1> QED BY <1>1, <1>5, <1>7 DEF HeldInv, Awake, Running

LEMMA ScanHeld ==
  ASSUME FastInv, HeldInv, Turn, NEW w \in Who, Scan(w)
  PROVE  HeldInv'
<1> DEFINE found == [p \in Paths |-> IF p \in pass[w].scope THEN disk[p].mtime ELSE 0]
           todo == {p \in pass[w].scope : /\ disk[p] # NoFile
                                          /\ \/ w = "derive" \/ pass[w].verify
                                             \/ row[p].mtime # disk[p].mtime}
           r == [pass[w] EXCEPT !.pc = "hash", !.verify = FALSE, !.found = found, !.todo = todo]
<1>1. /\ pass[w].pc = "waiting" /\ row' = row /\ known' = known /\ Head(lane) = w
      /\ pass' = [pass EXCEPT ![w] = r]
      /\ UNCHANGED <<disk, pending, dirty, timer, closing>>
  BY PassFacts DEF Scan, Runs
<1>2. \A p \in Paths : /\ p \in pass[w].scope => found[p] = disk[p].mtime
                       /\ p \in pass[w].scope \ todo => disk[p] = NoFile \/ row[p].mtime = disk[p].mtime
  OBVIOUS
<1>3. pass[w] \in Pass
  BY FastFacts
<1> HIDE DEF found, todo
<1>4. /\ r.pc = "hash" /\ r.found = found /\ r.todo = todo /\ r.scope = pass[w].scope
  BY <1>3 DEF Pass
<1> HIDE DEF r
<1>5. NoFile.mtime = 0
  BY DEF NoFile
<1>6. CASE w = "watcher"
  <2>1. Running
    BY <1>1, <1>6 DEF Running
  <2>2. \A p \in Paths : Taken(p) => (row[p].mtime # disk[p].mtime => p \in r.scope)
    BY <1>4, <1>6 DEF HeldInv, Progress
  <2>3. \A p \in Paths : p \in r.scope => r.found[p] = disk[p].mtime
    BY <1>2, <1>4
  <2>4. \A p \in Paths : p \in r.scope \ r.todo => row[p].mtime = disk[p].mtime \/ r.found[p] = 0
    BY <1>2, <1>4, <1>5
  <2>5. Carries(r)
    BY <1>1, <1>4, <1>6, <2>2, <2>3, <2>4 DEF Carries
  <2>6. pass' = [pass EXCEPT !["watcher"] = r] /\ known' \subseteq known
    BY <1>1, <1>6
  <2> QED BY <1>1, <1>6, <2>1, <2>5, <2>6, WatcherHeld
<1>7. CASE w = "derive"
  BY <1>1, <1>2, <1>4, <1>7, DeriveHeld
<1> QED BY <1>6, <1>7 DEF Who

LEMMA HashHeld ==
  ASSUME FastInv, HeldInv, Turn, NEW w \in Who, NEW p \in Paths, Hash(w, p)
  PROVE  HeldInv'
<1> DEFINE sha == [pass[w].sha EXCEPT ![p] = disk[p].body]
           f == Less(w, p)
           r == [f EXCEPT !.sha = sha]
<1>1. /\ pass[w].pc = "hash" /\ p \in pass[w].todo /\ row' = row /\ Head(lane) = w
      /\ \/ pass' = [pass EXCEPT ![w] = r] /\ known' = known
         \/ pass' = [pass EXCEPT ![w] = f] /\ known' = IF w = "watcher" THEN known \ ({p} \ pending) ELSE known
      /\ UNCHANGED <<disk, pending, dirty, timer, closing>>
  BY PassFacts DEF Hash, Runs, Warned
<1>2. \A q \in Paths : sha[q] = IF q = p THEN disk[p].body ELSE pass[w].sha[q]
  BY FastFacts
<1>3. /\ f \in Pass
      /\ f.pc = pass[w].pc /\ f.found = pass[w].found /\ f.todo = pass[w].todo \ {p}
      /\ f.sha = pass[w].sha /\ f.scope = pass[w].scope
  BY LessToDo, FastFacts
<1> HIDE DEF sha, f
<1>4. /\ r.pc = pass[w].pc /\ r.found = pass[w].found /\ r.todo = pass[w].todo \ {p}
      /\ r.sha = sha /\ r.scope = pass[w].scope
  BY <1>3 DEF Pass
<1> HIDE DEF r
<1>5. /\ pass[w].found[p] # 0 /\ p \in pass[w].scope
  BY <1>1 DEF FastInv, Looking
<1>6. disk[p].body = None => disk[p].mtime = 0
  BY FastFacts
<1>7. PICK s : /\ pass' = [pass EXCEPT ![w] = s]
               /\ s.pc = pass[w].pc /\ s.found = pass[w].found /\ s.todo = pass[w].todo \ {p}
               /\ s.scope = pass[w].scope
               /\ \A q \in Paths \ {p} : s.sha[q] = pass[w].sha[q]
               /\ w = "watcher" => s.sha[p] = disk[p].body \/ p \notin known' \/ p \in pending
  BY <1>1, <1>2, <1>3, <1>4
<1>8. CASE w = "watcher"
  <2>1. Running /\ Looks("watcher") /\ known' \subseteq known
    BY <1>1, <1>8 DEF Running, Looks
  <2>2. \A q \in Paths : Taken(q) =>
          /\ row[q].mtime # disk[q].mtime => q \in pass[w].scope
          /\ q \in pass[w].scope => pass[w].found[q] = disk[q].mtime
          /\ q \in pass[w].scope \ pass[w].todo =>
               row[q].mtime = disk[q].mtime \/ pass[w].sha[q] # None \/ pass[w].found[q] = 0
    BY <1>1, <1>8, <2>1 DEF HeldInv, Progress
  <2>3. p \in known' /\ Taken(p) => s.sha[p] # None
    BY <1>5, <1>6, <1>7, <1>8, <2>2 DEF Taken
  <2>4. \A q \in Paths : q \in known' /\ Taken(q) =>
          /\ row'[q].mtime # disk[q].mtime => q \in s.scope
          /\ q \in s.scope => s.found[q] = disk[q].mtime
          /\ q \in s.scope \ s.todo =>
               row'[q].mtime = disk[q].mtime \/ s.sha[q] # None \/ s.found[q] = 0
    BY <1>1, <1>7, <2>2, <2>3
  <2>5. s.pc = "hash" /\ s.scope = pass["watcher"].scope /\ pass' = [pass EXCEPT !["watcher"] = s]
    BY <1>1, <1>7, <1>8
  <2>6. Carries(s)
    BY <2>4, <2>5 DEF Carries
  <2> QED BY <1>1, <1>8, <2>1, <2>5, <2>6, WatcherHeld
<1>9. CASE w = "derive"
  <2>1. Looks("derive") /\ known' = known
    BY <1>1, <1>9 DEF Looks, Who
  <2>2. s.scope = pass["derive"].scope /\ s.found = pass["derive"].found /\ pass' = [pass EXCEPT !["derive"] = s]
    BY <1>7, <1>9
  <2> QED BY <1>1, <1>9, <2>1, <2>2, DeriveHeld
<1> QED BY <1>8, <1>9 DEF Who

LEMMA SortHeld ==
  ASSUME FastInv, HeldInv, Turn, NEW w \in Who, Sort(w)
  PROVE  HeldInv'
<1>1. /\ pass[w].pc = "hash" /\ pass[w].todo = {} /\ known' = known /\ Head(lane) = w
      /\ UNCHANGED <<disk, pending, dirty, timer, closing>>
  BY PassFacts DEF Sort, Runs
<1>2. PICK r \in Pass :
        /\ pass' = [pass EXCEPT ![w] = r]
        /\ r.pc = "read" /\ r.found = pass[w].found /\ r.scope = pass[w].scope
        /\ r.todo = {p \in pass[w].scope : pass[w].sha[p] # None /\ ~Same(w, p)}
        /\ \A p \in Paths : r.sha[p] = IF p \in r.todo THEN pass[w].sha[p] ELSE None
  BY SortMoves
<1>3. \A p \in Paths :
        \/ /\ row'[p] = row[p]
           /\ ~(p \in pass[w].scope /\ pass[w].found[p] = 0)
           /\ pass[w].sha[p] = None \/ ~Same(w, p)
        \/ row'[p] = NoRow /\ p \in pass[w].scope /\ pass[w].found[p] = 0
        \/ /\ pass[w].sha[p] # None
           /\ row'[p].mtime = pass[w].found[p]
  BY SortMoves
<1>4. \A p \in Paths : pass[w].sha[p] # None => p \in pass[w].scope
  BY DEF FastInv, Looking
<1>5. NoRow.mtime = 0
  BY DEF NoRow
<1>6. Looks(w)
  BY <1>1 DEF Looks
<1>7. CASE w = "watcher"
  <2>1. Running
    BY <1>1, <1>7 DEF Running
  <2>2. \A p \in Paths : Taken(p) =>
          /\ row[p].mtime # disk[p].mtime => p \in pass[w].scope
          /\ p \in pass[w].scope => pass[w].found[p] = disk[p].mtime
          /\ p \in pass[w].scope =>
               row[p].mtime = disk[p].mtime \/ pass[w].sha[p] # None \/ pass[w].found[p] = 0
    BY <1>1, <1>6, <1>7 DEF HeldInv, Progress
  <2>3. \A p \in Paths : Taken(p) =>
          /\ row'[p].mtime # disk[p].mtime => p \in r.scope
          /\ p \in r.scope => r.found[p] = disk[p].mtime
          /\ p \in r.scope \ r.todo => row'[p].mtime = disk[p].mtime
    <3> SUFFICES ASSUME NEW p \in Paths, Taken(p)
                 PROVE  /\ row'[p].mtime # disk[p].mtime => p \in r.scope
                        /\ p \in r.scope \ r.todo => row'[p].mtime = disk[p].mtime
      BY <1>2, <2>2
    <3>1. CASE row'[p] = row[p] /\ ~(p \in pass[w].scope /\ pass[w].found[p] = 0)
               /\ (pass[w].sha[p] = None \/ ~Same(w, p))
      BY <1>2, <2>2, <3>1
    <3>2. CASE row'[p] = NoRow /\ p \in pass[w].scope /\ pass[w].found[p] = 0
      BY <1>2, <1>5, <2>2, <3>2
    <3>3. CASE pass[w].sha[p] # None /\ row'[p].mtime = pass[w].found[p]
      BY <1>2, <1>4, <2>2, <3>3
    <3> QED BY <1>3, <3>1, <3>2, <3>3
  <2>4. r.scope = pass["watcher"].scope /\ pass' = [pass EXCEPT !["watcher"] = r]
    BY <1>2, <1>7
  <2>5. Carries(r)
    BY <1>2, <2>3, <2>4 DEF Carries
  <2>6. known' \subseteq known
    BY <1>1
  <2> QED BY <1>1, <1>7, <2>1, <2>4, <2>5, <2>6, WatcherHeld
<1>8. CASE w = "derive"
  <2>1. \A p \in Paths : \/ row'[p].mtime = row[p].mtime
                         \/ p \in pass["derive"].scope /\ row'[p].mtime = pass["derive"].found[p]
    BY <1>3, <1>4, <1>5, <1>8
  <2>2. r.scope = pass["derive"].scope /\ r.found = pass["derive"].found /\ pass' = [pass EXCEPT !["derive"] = r]
    BY <1>2, <1>8
  <2> QED BY <1>1, <1>6, <1>8, <2>1, <2>2, DeriveHeld
<1> QED BY <1>7, <1>8 DEF Who

LEMMA ReadHeld ==
  ASSUME FastInv, HeldInv, Turn, NEW w \in Who, NEW p \in Paths, Read(w, p)
  PROVE  HeldInv'
<1>1. /\ Head(lane) = w /\ UNCHANGED <<disk, pending, dirty, timer, closing>>
      /\ w = "watcher" \/ known' = known
  BY PassFacts DEF Read, Runs, Warned
<1>2. PICK r \in Pass :
        /\ pass' = [pass EXCEPT ![w] = r]
        /\ r.pc = "read" /\ r.found = pass[w].found /\ r.scope = pass[w].scope
        /\ r.todo = pass[w].todo \ {p} /\ r.sha = pass[w].sha
  BY ReadMoves
<1>3. /\ pass[w].pc = "read" /\ p \in pass[w].todo /\ known' \subseteq known
      /\ \A q \in Paths : row'[q] = row[q] \/ (q = p /\ row'[q].mtime = pass[w].found[p])
      /\ row'[p].mtime = pass[w].found[p] \/ disk[p] = NoFile \/ known' = known \ ({p} \ pending) \/ w # "watcher"
  BY ReadMoves
<1>4. /\ pass[w].found[p] # 0 /\ p \in pass[w].scope
  BY <1>3 DEF FastInv, Looking
<1>5. disk[p] = NoFile => disk[p].mtime = 0
  BY FastFacts
<1>6. Looks(w)
  BY <1>3 DEF Looks
<1>7. CASE w = "watcher"
  <2>1. Running
    BY <1>3, <1>7 DEF Running
  <2>2. \A q \in Paths : Taken(q) =>
          /\ row[q].mtime # disk[q].mtime => q \in pass[w].scope
          /\ q \in pass[w].scope => pass[w].found[q] = disk[q].mtime
          /\ q \in pass[w].scope \ pass[w].todo => row[q].mtime = disk[q].mtime
    BY <1>3, <1>6, <1>7 DEF HeldInv, Progress
  <2>3. p \in known' /\ Taken(p) => row'[p].mtime = disk[p].mtime
    BY <1>3, <1>4, <1>5, <1>7, <2>2 DEF Taken
  <2>4. \A q \in Paths : q \in known' /\ Taken(q) =>
          /\ row'[q].mtime # disk[q].mtime => q \in r.scope
          /\ q \in r.scope => r.found[q] = disk[q].mtime
          /\ q \in r.scope \ r.todo => row'[q].mtime = disk[q].mtime
    BY <1>2, <1>3, <2>2, <2>3
  <2>5. r.scope = pass["watcher"].scope /\ pass' = [pass EXCEPT !["watcher"] = r]
    BY <1>2, <1>7
  <2>6. Carries(r)
    BY <1>2, <2>4, <2>5 DEF Carries
  <2> QED BY <1>1, <1>3, <1>7, <2>1, <2>5, <2>6, WatcherHeld
<1>8. CASE w = "derive"
  <2>1. \A q \in Paths : \/ row'[q].mtime = row[q].mtime
                         \/ q \in pass["derive"].scope /\ row'[q].mtime = pass["derive"].found[q]
    BY <1>3, <1>4, <1>8
  <2>2. r.scope = pass["derive"].scope /\ r.found = pass["derive"].found /\ pass' = [pass EXCEPT !["derive"] = r]
    BY <1>2, <1>8
  <2>3. known' = known
    BY <1>1, <1>8
  <2> QED BY <1>1, <1>6, <1>8, <2>1, <2>2, <2>3, DeriveHeld
<1> QED BY <1>7, <1>8 DEF Who

\* The watcher's pass is over, well or not: what it held is in the rows, or given up.
LEMMA LeaveHeld ==
  ASSUME FastInv, HeldInv, Turn, Head(lane) = "watcher", Leave, Finally,
         UNCHANGED <<disk, row, closing>>, known' \subseteq known,
         \A p \in Paths : p \in known' /\ Taken(p) => row[p].mtime = disk[p].mtime
  PROVE  HeldInv'
<1>1. pass'["watcher"] = NoPass /\ pass'["derive"] = pass["derive"]
  BY NoFileTyped DEF FastInv, Types, Leave
<1>2. NoPass.scope = {} /\ NoPass.pc = "idle"
  BY DEF NoPass
<1>3. ~Looks("derive")'
  BY <1>1, OtherWaits, NoFileTyped DEF Looks
<1>4. pending' = pending /\ dirty' = dirty /\ timer' = (timer \/ dirty \/ pending # {})
  BY DEF Finally
<1>5. Progress'
  BY <1>1, <1>2, <1>4 DEF Progress, Taken
<1>6. Behind'
  BY <1>3 DEF Behind
<1>7. Awake'
  BY <1>4 DEF Awake
<1> QED BY <1>5, <1>6, <1>7 DEF HeldInv

LEMMA DoneHeld ==
  ASSUME FastInv, HeldInv, Turn, Done
  PROVE  HeldInv'
<1>1. /\ pass["watcher"].pc = "read" /\ pass["watcher"].todo = {} /\ Leave /\ Finally /\ Head(lane) = "watcher"
      /\ UNCHANGED <<disk, row, closing, known>>
  BY DEF Done, Over, Runs, defer
<1>2. \A p \in Paths : Taken(p) => row[p].mtime = disk[p].mtime
  BY <1>1 DEF HeldInv, Progress
<1> QED BY <1>1, <1>2, LeaveHeld

LEMMA FailedHeld ==
  ASSUME FastInv, HeldInv, Turn, Failed
  PROVE  HeldInv'
<1>1. /\ Leave /\ Finally /\ Head(lane) = "watcher"
      /\ UNCHANGED <<disk, row, closing>> /\ known' = known \ (pass["watcher"].scope \ pending)
  BY DEF Failed, Throws, defer
<1>2. \A p \in Paths : p \in known' /\ Taken(p) => row[p].mtime = disk[p].mtime
  BY <1>1 DEF HeldInv, Progress, Taken
<1> QED BY <1>1, <1>2, LeaveHeld

-----------------------------------------------------------------------------
(* Derivations *)

\* The lane holds one pass of derivations while the loop of drain is at work, and
\* none else.
Lanes == Seq({"watcher", "derive"})

Single(passes, busy) ==
  /\ \A m, n \in 1 .. Len(passes) : passes[m] = "derive" /\ passes[n] = "derive" => m = n
  /\ ~busy => \A m \in 1 .. Len(passes) : passes[m] # "derive"

\* A derivation asked for is queued or runs, and the loop ends with neither.
Owing ==
  /\ owed \subseteq queue \cup pass["derive"].scope
  /\ drain # "busy" => pass["derive"].scope = {}
  /\ closing = "closed" => owed = {}
  /\ lane \in Lanes /\ Single(lane, drain = "busy")

\* The safety half of CloseDerives.
ClosedOwesNothing == closing = "closed" => owed = {}

LEMMA SingleAppend ==
  ASSUME NEW passes \in Lanes, NEW busy \in BOOLEAN, Single(passes, busy)
  PROVE  /\ Append(passes, "watcher") \in Lanes /\ Single(Append(passes, "watcher"), busy)
         /\ ~busy => Append(passes, "derive") \in Lanes /\ Single(Append(passes, "derive"), TRUE)
<1> DEFINE w == Append(passes, "watcher")
           d == Append(passes, "derive")
<1>1. /\ w \in Lanes /\ d \in Lanes /\ Len(passes) \in Nat
      /\ Len(w) = Len(passes) + 1 /\ Len(d) = Len(passes) + 1
      /\ w[Len(passes) + 1] = "watcher" /\ d[Len(passes) + 1] = "derive"
      /\ \A m \in 1 .. Len(passes) : w[m] = passes[m] /\ d[m] = passes[m]
  BY DEF Lanes
<1> HIDE DEF w, d
<1>2. \A k : k = Len(passes) + 1 => \A m \in 1 .. k : m \in 1 .. Len(passes) \/ m = k
  BY <1>1
<1>3. Single(w, busy)
  BY <1>1, <1>2 DEF Single
<1>4. ~busy => Single(d, TRUE)
  BY <1>1, <1>2 DEF Single
<1> QED BY <1>1, <1>3, <1>4 DEF w, d

LEMMA SingleTail ==
  ASSUME NEW passes \in Lanes, NEW busy \in BOOLEAN, Single(passes, busy), passes # <<>>
  PROVE  /\ Tail(passes) \in Lanes /\ Single(Tail(passes), busy)
         /\ Head(passes) = "derive" => busy /\ Single(Tail(passes), FALSE)
<1>1. /\ Tail(passes) \in Lanes /\ Len(passes) \in Nat \ {0} /\ Len(Tail(passes)) = Len(passes) - 1
      /\ Head(passes) = passes[1]
      /\ \A m \in 1 .. Len(Tail(passes)) : Tail(passes)[m] = passes[m + 1]
  BY DEF Lanes
<1>2. \A m \in 1 .. Len(Tail(passes)) : m + 1 \in 1 .. Len(passes) /\ m + 1 # 1 /\ 1 \in 1 .. Len(passes)
  BY <1>1
<1>3. Single(Tail(passes), busy)
  BY <1>1, <1>2 DEF Single
<1>4. Head(passes) = "derive" => busy
  BY <1>1 DEF Single
<1>5. Head(passes) = "derive" => Single(Tail(passes), FALSE)
  BY <1>1, <1>2 DEF Single
<1> QED BY <1>1, <1>3, <1>4, <1>5

\* Which scope the derivations' pass has after a batch or the loop.
LEMMA ScopeMoves ==
  ASSUME FastInv
  PROVE  /\ \A paths \in SUBSET Paths : Batch(paths) => pass'["derive"].scope = paths
         /\ Loop => pass'["derive"].scope = queue
         /\ Leave => pass'["derive"] = pass["derive"]
<1>1. pass \in [Who -> Pass] /\ queue \in SUBSET Paths
  BY DEF FastInv, Types
<1>2. ASSUME NEW paths \in SUBSET Paths, Batch(paths) PROVE pass'["derive"].scope = paths
  <2>1. Waiting(paths, FALSE).scope = paths
    BY WaitingTyped
  <2>2. pass'["derive"] = Waiting(paths, FALSE)
    BY <1>1, <1>2, NoFileTyped DEF Batch
  <2> QED BY <2>1, <2>2
<1>3. ASSUME Loop PROVE pass'["derive"].scope = queue
  <2>1. Waiting(queue, FALSE).scope = queue
    BY <1>1, WaitingTyped
  <2>2. CASE queue = {}
    <3>1. pass'["derive"] = NoPass
      BY <1>1, <1>3, <2>2, NoFileTyped DEF Loop
    <3> QED BY <2>2, <3>1, NoPassBlank
  <2>3. CASE queue # {}
    <3>1. pass'["derive"] = Waiting(queue, FALSE)
      BY <1>1, <1>3, <2>3, NoFileTyped DEF Loop
    <3> QED BY <2>1, <3>1
  <2> QED BY <2>2, <2>3
<1>4. Leave => pass'["derive"] = pass["derive"]
  BY <1>1, NoFileTyped DEF Leave
<1> QED BY <1>2, <1>3, <1>4

\* A step of a pass keeps its scope, and leaves the other pass alone.
LEMMA ScopeKept ==
  ASSUME FastInv, NEW w \in Who, Scan(w) \/ Sort(w) \/ \E p \in Paths : Hash(w, p) \/ Read(w, p)
  PROVE  /\ \A v \in Who : pass'[v].scope = pass[v].scope
         /\ \A v \in Who \ {w} : pass'[v] = pass[v]
         /\ lane # <<>> /\ Head(lane) = w /\ UNCHANGED <<lane, queue, drain, owed, closing>>
<1>1. pass \in [Who -> Pass]
  BY DEF FastInv, Types
<1>2. lane # <<>> /\ Head(lane) = w /\ UNCHANGED <<lane, queue, drain, owed, closing>>
  BY PassFacts DEF Scan, Sort, Hash, Read, Runs
<1>3. \E r : r.scope = pass[w].scope /\ pass' = [pass EXCEPT ![w] = r]
  <2>1. CASE Scan(w)
    <3>1. PICK found, todo : pass' = [pass EXCEPT ![w] = [pass[w] EXCEPT
             !.pc = "hash", !.verify = FALSE, !.found = found, !.todo = todo]]
      BY <2>1 DEF Scan
    <3>2. [pass[w] EXCEPT !.pc = "hash", !.verify = FALSE, !.found = found, !.todo = todo].scope = pass[w].scope
      BY <1>1 DEF Pass
    <3> QED BY <3>1, <3>2
  <2>2. CASE Sort(w)
    BY <2>2, SortMoves
  <2>3. ASSUME NEW p \in Paths, Hash(w, p)
        PROVE \E r : r.scope = pass[w].scope /\ pass' = [pass EXCEPT ![w] = r]
    <3>1. /\ Less(w, p) \in Pass /\ Less(w, p).scope = pass[w].scope
      BY <1>1, LessToDo
    <3>2. \A sha : [Less(w, p) EXCEPT !.sha = sha].scope = pass[w].scope
      BY <3>1 DEF Pass
    <3> QED BY <2>3, <3>1, <3>2 DEF Hash
  <2>4. ASSUME NEW p \in Paths, Read(w, p)
        PROVE \E r : r.scope = pass[w].scope /\ pass' = [pass EXCEPT ![w] = r]
    BY <2>4, ReadMoves
  <2> QED BY <2>1, <2>2, <2>3, <2>4
<1> QED BY <1>1, <1>2, <1>3

LEMMA OwingStep ==
  ASSUME FastInv, Owing, [Next]_vars
  PROVE  Owing'
<1> DEFINE busy == drain = "busy"
           Kept == UNCHANGED <<queue, drain, owed, closing>> /\ pass'["derive"].scope = pass["derive"].scope
<1>1. lane \in Lanes /\ busy \in BOOLEAN /\ Single(lane, busy)
  BY DEF Owing
<1>2. CASE Kept /\ lane' \in {lane, Append(lane, "watcher")}
  <2>1. lane' \in Lanes /\ Single(lane', busy)
    BY <1>1, <1>2, SingleAppend
  <2> QED BY <1>2, <2>1 DEF Owing
<1>3. CASE Kept /\ lane # <<>> /\ lane' = Tail(lane)
  <2>1. lane' \in Lanes /\ Single(lane', busy)
    BY <1>1, <1>3, SingleTail
  <2> QED BY <1>3, <2>1 DEF Owing
<1>4. ASSUME NEW paths \in SUBSET Paths, paths = queue \/ \E p : paths = queue \cup {p} /\ owed' \subseteq owed \cup {p},
             owed' = owed \/ \E p : paths = queue \cup {p} /\ owed' \subseteq owed \cup {p},
             drain # "busy", closing = "closed" => owed' = owed, closing' = closing, Batch(paths)
      PROVE  Owing'
  <2>1. /\ lane' = Append(lane, "derive") /\ queue' = {} /\ drain' = "busy"
    BY <1>4 DEF Batch
  <2>2. pass'["derive"].scope = paths
    BY <1>4, ScopeMoves
  <2>3. lane' \in Lanes /\ Single(lane', TRUE)
    BY <1>1, <1>4, <2>1, SingleAppend
  <2>4. owed' \subseteq pass'["derive"].scope
    BY <1>4, <2>2 DEF Owing
  <2>5. closing' = "closed" => owed' = {}
    BY <1>4 DEF Owing
  <2> QED BY <2>1, <2>3, <2>4, <2>5 DEF Owing
<1>5. ASSUME NEW p \in Written, Queue(p) PROVE Owing'
  <2>1. /\ owed' = (IF closing = "closed" THEN owed ELSE owed \cup {p}) /\ closing' = closing
        /\ queue \cup {p} \in SUBSET Paths
    BY <1>5, ReconcileAssumption DEF Queue, FastInv, Types
  <2>2. CASE drain = "none"
    <3>1. Batch(queue \cup {p})
      BY <1>5, <2>2 DEF Queue
    <3> QED BY <1>4, <2>1, <2>2, <3>1
  <2>3. CASE drain # "none"
    <3>1. queue' = queue \cup {p} /\ UNCHANGED <<pass, drain, lane>>
      BY <1>5, <2>3 DEF Queue
    <3> QED BY <2>1, <3>1 DEF Owing
  <2> QED BY <2>2, <2>3
<1>6. CASE Derived \/ Underived
  <2>1. Loop /\ closing' = closing /\ lane # <<>> /\ Head(lane) = "derive"
    BY <1>6 DEF Derived, Underived, Runs, Throws, Loop
  <2>2. busy /\ Tail(lane) \in Lanes /\ Single(Tail(lane), FALSE)
    BY <1>1, <2>1, SingleTail
  <2>3. Append(Tail(lane), "derive") \in Lanes /\ Single(Append(Tail(lane), "derive"), TRUE)
    BY <2>2, SingleAppend
  <2>4. owed' = owed \ (pass["derive"].scope \ queue) /\ queue' = {}
    BY <2>1 DEF Loop
  <2>5. pass'["derive"].scope = queue
    BY <2>1, ScopeMoves
  <2>6. owed' \subseteq pass'["derive"].scope /\ (closing' = "closed" => owed' = {})
    BY <2>1, <2>4, <2>5 DEF Owing
  <2>7. CASE queue = {}
    <3>1. lane' = Tail(lane) /\ drain' = "over"
      BY <2>1, <2>7 DEF Loop
    <3> QED BY <2>2, <2>5, <2>6, <2>7, <3>1 DEF Owing
  <2>8. CASE queue # {}
    <3>1. lane' = Append(Tail(lane), "derive") /\ drain' = drain
      BY <2>1, <2>8 DEF Loop
    <3> QED BY <2>2, <2>3, <2>6, <3>1 DEF Owing
  <2> QED BY <2>7, <2>8
<1>7. CASE Drained
  BY <1>7 DEF Drained, Owing, Single
<1>8. CASE Close
  BY <1>8 DEF Close, Owing
<1>9. CASE FlushDerived
  <2>1. closing # "closed" /\ drain = "none" /\ Batch(queue) /\ UNCHANGED <<owed, closing>>
        /\ queue \in SUBSET Paths
    BY <1>9 DEF FlushDerived, FastInv, Types
  <2> QED BY <1>4, <2>1
<1>10. CASE Closed
  BY <1>10 DEF Closed, More, Owing
<1>11. ASSUME NEW whole, NEW verify, Flush(whole, verify), FlushStep PROVE Owing'
  <2>1. UNCHANGED <<queue, drain, owed, closing>> /\ lane' \in {lane, Append(lane, "watcher")}
    BY <1>11 DEF Flush, FlushStep, defer
  <2>2. pass'["derive"] = pass["derive"]
    BY <1>11, NoFileTyped DEF Flush, FastInv, Types
  <2> QED BY <1>2, <2>1, <2>2
<1>12. CASE Debounce \/ Sweep \/ Verify \/ ReconcileNow
  BY <1>11, <1>12 DEF Debounce, Sweep, Verify, ReconcileNow
<1>13. CASE Done \/ Failed
  <2>1. lane # <<>> /\ Leave /\ UNCHANGED <<queue, drain, owed, closing>>
    BY <1>13 DEF Done, Failed, Runs, Throws, defer
  <2>2. pass'["derive"] = pass["derive"]
    BY <2>1, ScopeMoves
  <2> QED BY <1>3, <2>1, <2>2 DEF Leave
<1>14. CASE UNCHANGED <<pass, lane, defer>>
  BY <1>2, <1>14 DEF defer
<1>15. CASE PassNext
  BY <1>2, <1>15, ScopeKept, NoFileTyped DEF PassNext
<1>16. CASE Environment
  BY <1>5, <1>6, <1>8, <1>12, <1>13, <1>14, <1>16 DEF Environment, Save, Delete, SaveQuietly, Changed, Drop
<1>17. CASE System
  BY <1>6, <1>7, <1>9, <1>10, <1>12, <1>13, <1>14, <1>15, <1>17 DEF System, Notice, NoticeSomething
<1> QED BY <1>14, <1>16, <1>17 DEF Next, vars

LEMMA BlankMoves ==
  ASSUME FastInv, pass' = pass \/ \E w \in Who : \E r : Blank(r) /\ pass' = [pass EXCEPT ![w] = r]
  PROVE  \A u \in Who : Looks(u)' => Looks(u)
<1>1. pass \in [Who -> Pass]
  BY DEF FastInv, Types
<1> QED BY <1>1 DEF Looks, Blank

\* A pass joins the lane at its end, and leaves it when it no longer looks.
LEMMA TurnStep ==
  ASSUME FastInv, Owing, Turn, [Next]_vars
  PROVE  Turn'
<1>1. lane \in Seq(Who) /\ queue \in SUBSET Paths /\ dirty \in BOOLEAN
  BY DEF Owing, Lanes, FastInv, Types, Who
<1>2. ASSUME \A u \in Who : Looks(u)' => Looks(u), NEW v, v \in Who, lane' = Append(lane, v)
      PROVE  Turn'
  <2>1. lane # <<>> => lane' # <<>> /\ Head(lane') = Head(lane)
    BY <1>1, <1>2
  <2> QED BY <1>2, <2>1 DEF Turn
<1>3. CASE UNCHANGED <<pass, lane>>
  BY <1>3 DEF Turn, Looks
<1>4. ASSUME NEW whole \in BOOLEAN, NEW verify \in BOOLEAN, Flush(whole, verify) PROVE Turn'
  <2>1. \A u \in Who : Looks(u)' => Looks(u)
    BY <1>4, FlushMoves, BlankMoves
  <2>2. lane' = Append(lane, "watcher") \/ UNCHANGED <<pass, lane>>
    BY <1>4 DEF Flush
  <2> QED BY <1>2, <1>3, <2>1, <2>2, NoFileTyped
<1>5. CASE Debounce \/ Sweep \/ Verify \/ ReconcileNow
  BY <1>1, <1>4, <1>5 DEF Debounce, Sweep, Verify, ReconcileNow
<1>6. ASSUME NEW paths \in SUBSET Paths, Batch(paths) PROVE Turn'
  <2>1. \A u \in Who : Looks(u)' => Looks(u)
    BY <1>6, DeriveMoves, BlankMoves
  <2> QED BY <1>2, <1>6, <2>1, NoFileTyped DEF Batch
<1>7. CASE FlushDerived
  BY <1>1, <1>6, <1>7 DEF FlushDerived
<1>8. ASSUME NEW p \in Written, Queue(p) PROVE Turn'
  <2>1. queue \cup {p} \in SUBSET Paths
    BY <1>1, ReconcileAssumption
  <2> QED BY <1>3, <1>6, <1>8, <2>1 DEF Queue
<1>9. CASE Derived \/ Underived
  <2>1. Head(lane) = "derive" /\ Loop
    BY <1>9 DEF Derived, Underived, Runs, Throws
  <2>2. \A u \in Who : Looks(u)' => Looks(u)
    BY <2>1, DeriveMoves, BlankMoves
  <2>3. ~Looks("derive")'
    BY <2>1, DeriveMoves
  <2>4. \A u \in Who : ~Looks(u)'
    BY <2>1, <2>2, <2>3, OtherWaits, NoFileTyped
  <2> QED BY <2>4 DEF Turn
<1>10. CASE Done \/ Failed
  <2>1. Head(lane) = "watcher" /\ pass' = [pass EXCEPT !["watcher"] = NoPass]
    BY <1>10 DEF Done, Failed, Runs, Throws, Leave
  <2>2. \A u \in Who : Looks(u)' => Looks(u)
    BY <2>1, BlankMoves, NoPassBlank, NoFileTyped
  <2>3. ~Looks("watcher")'
    BY <2>1, NoFileTyped DEF Looks, FastInv, Types, NoPass
  <2>4. \A u \in Who : ~Looks(u)'
    BY <2>1, <2>2, <2>3, OtherWaits, NoFileTyped
  <2> QED BY <2>4 DEF Turn
<1>11. CASE PassNext
  <2>1. PICK w \in Who : Scan(w) \/ Sort(w) \/ \E p \in Paths : Hash(w, p) \/ Read(w, p)
    BY <1>11 DEF PassNext
  <2>2. /\ \A v \in Who \ {w} : pass'[v] = pass[v]
        /\ lane # <<>> /\ Head(lane) = w /\ lane' = lane
    BY <2>1, ScopeKept
  <2> QED BY <2>2, OtherWaits DEF Turn, Looks
<1>12. CASE Environment
  BY <1>3, <1>5, <1>8, <1>9, <1>10, <1>12 DEF Environment, Save, Delete, SaveQuietly, Changed, Drop, Close
<1>13. CASE System
  BY <1>3, <1>5, <1>7, <1>9, <1>10, <1>11, <1>13 DEF System, Notice, NoticeSomething, Drained, Closed
<1> QED BY <1>3, <1>12, <1>13 DEF Next, vars

-----------------------------------------------------------------------------
(* The theorems *)

\* Derivations are asked for, or over.
LEMMA DerivesKeeps ==
  ASSUME FastInv, HeldInv, \/ \E paths \in SUBSET Paths : Batch(paths)
                           \/ Loop,
         UNCHANGED <<disk, row, events, pending, dirty, timer, closing, known, quiet>>,
         count' \in {count, count + 1}
  PROVE  FastInv' /\ HeldInv'
<1>1. /\ \E w \in Who : \E r : Blank(r) /\ pass' = [pass EXCEPT ![w] = r]
      /\ queue' \subseteq Paths
  BY DeriveMoves
<1>2. pass'["watcher"] = pass["watcher"] /\ ~Looks("derive")'
  BY DeriveMoves
<1>3. FastInv'
  BY <1>1, QuietStep DEF FastInv, Types
<1>4. Awake'
  BY <1>2 DEF HeldInv, Awake, Running
<1> QED BY <1>2, <1>3, <1>4, HeldQuiet DEF Taken

LEMMA EnvironmentKeeps ==
  ASSUME FastInv, HeldInv, Turn, Environment
  PROVE  FastInv' /\ HeldInv'
<1>1. ASSUME NEW p \in Paths, Delete(p) PROVE FastInv' /\ HeldInv'
  <2>1. Changed(p, NoFile) /\ quiet' = quiet \ {p} /\ quiet \subseteq Paths
    BY <1>1 DEF Delete, FastInv, Types
  <2> QED BY <2>1, NoFileTyped, ChangedStep, ChangedHeld
<1>2. ASSUME NEW p \in Paths, NEW b \in Bodies, Save(p, b) PROVE FastInv' /\ HeldInv'
  <2> DEFINE file == [body |-> b, mtime |-> 2 + count]
  <2>1. Changed(p, file) /\ quiet' = quiet \ {p} /\ quiet \subseteq Paths
    BY <1>2 DEF Save, FastInv, Types
  <2>2. file \in File /\ file.body # None /\ file.mtime = 2 + count
    BY NoFileTyped DEF File, FastInv, Types
  <2> HIDE DEF file
  <2> QED BY <2>1, <2>2, ChangedStep, ChangedHeld
<1>3. ASSUME NEW p \in Paths, NEW b \in Bodies, SaveQuietly(p, b) PROVE FastInv' /\ HeldInv'
  <2> DEFINE file == [disk[p] EXCEPT !.body = b]
  <2>1. Changed(p, file) /\ quiet' = quiet \cup {p} /\ quiet \subseteq Paths /\ disk[p] # NoFile
    BY <1>3 DEF SaveQuietly, FastInv, Types
  <2>2. disk[p] \in File
    BY DEF FastInv, Types
  <2>3. file \in File /\ file.body # None /\ file.mtime = disk[p].mtime
    BY <2>2, NoFileTyped DEF File
  <2> HIDE DEF file
  <2> QED BY <2>1, <2>3, ChangedStep, ChangedHeld
<1>4. ASSUME NEW p \in Paths, Drop(p) PROVE FastInv' /\ HeldInv'
  <2>1. /\ events' \subseteq events
        /\ UNCHANGED <<disk, row, pending, dirty, timer, pass, queue, closing, known, quiet, count>>
    BY <1>4 DEF Drop, watch, defer
  <2>2. FastInv'
    BY <2>1, QuietStep DEF FastInv, Types
  <2> QED BY <2>1, <2>2, HeldQuiet DEF HeldInv, Awake, Taken, Running
<1>5. ASSUME NEW p \in Written, Queue(p) PROVE FastInv' /\ HeldInv'
  <2>1. /\ count' = count + 1
        /\ UNCHANGED <<disk, row, events, pending, dirty, timer, closing, known, quiet>>
    BY <1>5 DEF Queue, Input, watch
  <2>2. queue \cup {p} \in SUBSET Paths
    BY ReconcileAssumption DEF FastInv, Types
  <2>3. CASE Batch(queue \cup {p})
    BY <2>1, <2>2, <2>3, DerivesKeeps
  <2>4. CASE queue' = queue \cup {p} /\ pass' = pass
    <3>1. FastInv'
      BY <2>1, <2>2, <2>4, QuietStep DEF FastInv, Types
    <3> QED BY <2>1, <2>4, <3>1, HeldQuiet DEF HeldInv, Awake, Taken, Running
  <2> QED BY <1>5, <2>3, <2>4 DEF Queue
<1>6. ASSUME Failed PROVE FastInv' /\ HeldInv'
  <2>1. /\ Leave /\ known' = known \ (pass["watcher"].scope \ pending)
        /\ timer' = (timer \/ dirty \/ pending # {}) /\ count' \in {count, count + 1}
        /\ UNCHANGED <<disk, row, events, queue, quiet, pending, dirty>>
    BY <1>6 DEF Failed, Finally, Throws, Input, defer
  <2>2. FastInv'
    BY <2>1, LeaveKeeps DEF FastInv, Types
  <2> QED BY <1>6, <2>2, FailedHeld
<1>7. ASSUME Underived PROVE FastInv' /\ HeldInv'
  <2>1. /\ count' \in {count, count + 1} /\ Loop
        /\ UNCHANGED <<disk, row, events, pending, dirty, timer, closing, known, quiet>>
    BY <1>7 DEF Underived, Throws, Input, Loop, watch
  <2> QED BY <2>1, DerivesKeeps
<1>8. ASSUME Verify \/ ReconcileNow PROVE FastInv' /\ HeldInv'
  <2>1. dirty \in BOOLEAN /\ timer \in BOOLEAN /\ FlushStep /\ timer' = timer
    BY <1>8 DEF Verify, ReconcileNow, FastInv, Types
  <2> QED BY <1>8, <2>1, FlushKeeps, FlushHeld DEF Verify, ReconcileNow
<1>9. ASSUME Close PROVE FastInv' /\ HeldInv'
  <2>1. /\ closing' = "flushing" /\ closing = "no"
        /\ UNCHANGED <<disk, row, events, pending, dirty, timer, pass, queue, known, quiet, count>>
    BY <1>9 DEF Close, watch
  <2>2. FastInv'
    BY <2>1, QuietStep DEF FastInv, Types
  <2> QED BY <2>1, <2>2, HeldQuiet DEF HeldInv, Awake, Taken, Running
<1> QED BY <1>1, <1>2, <1>3, <1>4, <1>5, <1>6, <1>7, <1>8, <1>9 DEF Environment

LEMMA SystemKeeps ==
  ASSUME FastInv, HeldInv, Turn, System
  PROVE  FastInv' /\ HeldInv'
<1>1. ASSUME NEW p \in Paths, Notice(p) PROVE FastInv' /\ HeldInv'
  <2>1. /\ events' \subseteq events /\ pending' = pending \cup {p} /\ timer' = TRUE /\ known' = known \cup {p}
        /\ UNCHANGED <<disk, row, dirty, pass, queue, closing, quiet, count>>
    BY <1>1 DEF Notice, Schedule, defer
  <2>2. FastInv'
    BY <2>1, QuietStep DEF FastInv, Types
  <2> QED BY <2>1, <2>2, HeldQuiet DEF HeldInv, Awake, Taken, Running
<1>2. ASSUME NoticeSomething PROVE FastInv' /\ HeldInv'
  <2>1. /\ events' = {} /\ dirty' = TRUE /\ timer' = TRUE /\ known' = known \cup events
        /\ UNCHANGED <<disk, row, pending, pass, queue, closing, quiet, count>>
    BY <1>2 DEF NoticeSomething, Schedule, defer
  <2>2. FastInv'
    BY <2>1, QuietStep DEF FastInv, Types
  <2> QED BY <2>1, <2>2, HeldQuiet DEF HeldInv, Awake, Taken, Running
<1>3. ASSUME Debounce \/ Sweep PROVE FastInv' /\ HeldInv'
  <2>1. dirty \in BOOLEAN /\ timer \in BOOLEAN /\ FlushStep /\ timer' \in BOOLEAN
    BY <1>3 DEF Debounce, Sweep, FastInv, Types
  <2> QED BY <1>3, <2>1, FlushKeeps, FlushHeld DEF Debounce, Sweep
<1>4. ASSUME PassNext PROVE FastInv' /\ HeldInv'
  BY <1>4, ScanKeeps, ScanHeld, SortKeeps, SortHeld, HashKeeps, HashHeld, ReadKeeps, ReadHeld DEF PassNext
<1>5. ASSUME Done PROVE FastInv' /\ HeldInv'
  <2>1. /\ Leave /\ known' = known /\ count' = count /\ timer' = (timer \/ dirty \/ pending # {})
        /\ UNCHANGED <<disk, row, events, queue, quiet, pending, dirty>>
    BY <1>5 DEF Done, Finally, defer
  <2>2. FastInv'
    BY <2>1, LeaveKeeps DEF FastInv, Types
  <2> QED BY <1>5, <2>2, DoneHeld
<1>6. ASSUME Derived PROVE FastInv' /\ HeldInv'
  <2>1. /\ count' = count /\ Loop
        /\ UNCHANGED <<disk, row, events, pending, dirty, timer, closing, known, quiet>>
    BY <1>6 DEF Derived, Loop, watch
  <2> QED BY <2>1, DerivesKeeps
<1>7. ASSUME Drained PROVE FastInv' /\ HeldInv'
  <2>1. UNCHANGED <<disk, row, events, pending, dirty, timer, pass, queue, closing, known, quiet, count>>
    BY <1>7 DEF Drained, watch
  <2>2. FastInv'
    BY <2>1, QuietStep DEF FastInv, Types
  <2> QED BY <2>1, <2>2, HeldQuiet DEF HeldInv, Awake, Taken, Running
<1>9. ASSUME FlushDerived PROVE FastInv' /\ HeldInv'
  <2>1. /\ Batch(queue) /\ queue \in SUBSET Paths
        /\ UNCHANGED <<disk, row, events, pending, dirty, timer, closing, known, quiet, count>>
    BY <1>9 DEF FlushDerived, watch, FastInv, Types
  <2> QED BY <2>1, DerivesKeeps
<1>8. ASSUME Closed PROVE FastInv' /\ HeldInv'
  <2>1. /\ closing' = "closed" /\ timer' = FALSE
        /\ UNCHANGED <<disk, row, events, pending, dirty, pass, queue, known, quiet, count>>
    BY <1>8 DEF Closed
  <2>2. FastInv'
    BY <2>1, QuietStep DEF FastInv, Types
  <2> QED BY <2>1, <2>2, HeldQuiet DEF HeldInv, Awake, Taken, Running
<1> QED BY <1>1, <1>2, <1>3, <1>4, <1>5, <1>6, <1>7, <1>8, <1>9 DEF System

LEMMA InitFiles == Init => FastInv /\ HeldInv /\ Owing /\ Turn
<1> SUFFICES ASSUME Init PROVE FastInv /\ HeldInv /\ Owing /\ Turn
  OBVIOUS
<1>1. Types
  <2>1. row \in [Paths -> FileRow]
    BY NoFileTyped DEF Init, FileRow
  <2>2. disk \in [Paths -> File]
    BY NoFileTyped DEF Init, File
  <2> QED BY <2>1, <2>2, NoFileTyped DEF Init, Types
<1>2. \A p \in Paths : /\ disk[p].mtime = 1 /\ disk[p].body = Original
                       /\ \/ row[p].mtime = 1 /\ row[p].body = Original
                          \/ row[p].mtime = 0 /\ row[p].body = None
  BY DEF Init, NoRow
<1>3. NoFile.mtime = 0 /\ NoFile.body = None
  BY DEF NoFile
<1>4. /\ pass["watcher"] = NoPass /\ pass["derive"] = NoPass /\ Blank(NoPass) /\ NoPass.scope = {}
      /\ \A w \in Who : pass[w] = NoPass
  BY NoFileTyped, NoPassBlank DEF Init
<1>5. Times
  BY <1>2, <1>3, <1>4, NoFileTyped DEF Init, Times, Blank
<1>6. Looking /\ HashOfStat
  BY <1>4 DEF Looking, HashOfStat, Blank
<1>7. FastPathSound
  BY <1>2 DEF FastPathSound
<1>8. HeldInv
  BY DEF Init, HeldInv, Progress, Behind, Taken, Awake
<1>9. Owing
  BY <1>4 DEF Init, Owing, Lanes, Single
<1>10. Turn
  BY <1>4 DEF Turn, Looks, Blank
<1> QED BY <1>1, <1>5, <1>6, <1>7, <1>8, <1>9, <1>10 DEF FastInv

LEMMA StepKeeps ==
  ASSUME FastInv, HeldInv, Turn, [Next]_vars
  PROVE  FastInv' /\ HeldInv'
<1>1. CASE UNCHANGED vars
  <2>1. UNCHANGED <<disk, row, events, pending, dirty, timer, pass, queue, closing, known, quiet, count>>
    BY <1>1 DEF vars, watch, defer
  <2>2. FastInv'
    BY <2>1, QuietStep DEF FastInv, Types
  <2> QED BY <2>1, <2>2, HeldQuiet DEF HeldInv, Awake, Taken, Running
<1> QED BY <1>1, EnvironmentKeeps, SystemKeeps DEF Next

LEMMA Reconciles == Spec => [](FastInv /\ HeldInv /\ Owing /\ Turn)
<1>1. FastInv /\ HeldInv /\ Owing /\ Turn /\ [Next]_vars => (FastInv /\ HeldInv /\ Owing /\ Turn)'
  BY StepKeeps, OwingStep, TurnStep
<1> QED BY <1>1, InitFiles, PTL DEF Spec

\* Files, rows, the watcher and its pass keep their types.
THEOREM Typing == Spec => []Types
<1>1. FastInv => Types
  BY DEF FastInv
<1> QED BY <1>1, Reconciles, PTL

\* A row whose stat is the file's holds the file's body, in whatever order saves,
\* scans, hashes and reads fall.
THEOREM StatIsTrusted == Spec => []FastPathSound
<1>1. FastInv => FastPathSound
  BY DEF FastInv
<1> QED BY <1>1, Reconciles, PTL

\* A change the watcher was told of, and that no pass threw on or warned of, reaches
\* the index or is still to be looked at, with a timer armed or a pass at work.
THEOREM ReportsAreHeld == Spec => []ReportedIsHeld
<1>1. FastInv /\ HeldInv => ReportedIsHeld
  <2> SUFFICES ASSUME FastInv, HeldInv PROVE ReportedIsHeld
    OBVIOUS
  <2>1. \A p \in known : p \in Paths /\ pass["watcher"].pc \in {"idle", "waiting", "hash", "read"}
    BY NoFileTyped, FastFacts DEF Pass
  <2> QED BY <2>1 DEF HeldInv, Progress, Taken, Awake, Running, Looks, ReportedIsHeld
<1> QED BY <1>1, Reconciles, PTL

\* Once closed, every derivation that was asked for has been tried.
THEOREM CloseLeavesNothing == Spec => []ClosedOwesNothing
<1>1. Owing => ClosedOwesNothing
  BY DEF Owing, ClosedOwesNothing
<1> QED BY <1>1, Reconciles, PTL
=============================================================================
