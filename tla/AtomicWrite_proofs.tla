-------------------------- MODULE AtomicWrite_proofs --------------------------
(***************************************************************************)
(* writeFileAtomic keeps its promise for any number of files, calls and     *)
(* chunks, through failing calls and power failures, while no two calls     *)
(* work on one file at once.                                                *)
(*                                                                          *)
(* The invariant: an inode belongs to one file; the inode a call writes is  *)
(* the file's temp name and never a page, in the directory or in storage;   *)
(* and every inode that is a page in either has its text in both.           *)
(***************************************************************************)
EXTENDS AtomicWrite, TLAPS

FileOf(i) == IF i \in Paths THEN i ELSE Target[i]

Settled(i) == \E t \in Texts : data[i] = Whole(t) /\ stored.data[i] = Whole(t)

OneCall ==
  \A v, w \in Writers :
    (Target[v] = Target[w] /\ call[v].pc \in Working /\ call[w].pc \in Working) => v = w

\* Which inode may be named by what.
Named ==
  \A p \in Paths : \A i \in Inodes :
    /\ i \in {entry[p].page, entry[p].temp, stored.entry[p].page, stored.entry[p].temp}
         => FileOf(i) = p /\ (i \in Writers => call[i].pc \notin {"idle", "read"})
    /\ i = entry[p].temp => i \notin {entry[p].page, stored.entry[p].page}
    /\ i = stored.entry[p].temp => i # stored.entry[p].page

\* How far a call has come with the inode it opened.
Progress(w) ==
  /\ call[w].pc \in Working => Text[w] \in Texts
  /\ call[w].pc \in Working \ {"read"} =>
       call[w].inode \in Inodes /\ call[w].inode = entry[Target[w]].temp
  /\ call[w].pc = "writing" => \A j \in 1 .. call[w].k - 1 : data[call[w].inode][j] = Text[w]
  /\ call[w].pc \in {"syncing", "renaming"} => data[call[w].inode] = Whole(Text[w])
  /\ call[w].pc = "renaming" => stored.data[call[w].inode] = Whole(Text[w])

Opened == \A w \in Writers : Progress(w)

Pages ==
  \A p \in Paths :
    /\ entry[p].page # Absent => Settled(entry[p].page)
    /\ stored.entry[p].page # Absent => Settled(stored.entry[p].page)

IInv == TypeOK /\ OneCall /\ Named /\ Opened /\ Pages

LEMMA WholeText ==
  ASSUME NEW t \in Texts \cup {Hole}
  PROVE  Whole(t) \in File /\ (\A k \in 1 .. Chunks : Whole(t)[k] = t) /\ 1 \in 1 .. Chunks
BY FileAssumption DEF Whole, File

\* The initial pages are whole, in the directory and in storage.
LEMMA InitHolds == Init => IInv
<1> SUFFICES ASSUME Init PROVE IInv
  OBVIOUS
<1> USE FileAssumption
<1>1. \A i \in Inodes : data[i] \in File
  BY WholeText DEF Init, Inodes
<1>2. TypeOK
  <2>1. entry \in Directory
    BY DEF Init, Directory, Inodes
  <2>2. data \in [Inodes -> File]
    BY <1>1 DEF Init
  <2>3. stored \in [entry : Directory, data : [Inodes -> File]]
    BY <2>1, <2>2 DEF Init
  <2>4. call \in [Writers -> Calls]
    BY DEF Init, Calls
  <2> QED BY <2>1, <2>2, <2>3, <2>4 DEF TypeOK, Init
<1>3. \A w \in Writers : call[w].pc = "idle"
  BY DEF Init
<1>4. \A p \in Paths : /\ entry[p].temp = Absent /\ stored.entry[p].temp = Absent
                       /\ entry[p].page \in {Absent, p} /\ stored.entry[p].page = entry[p].page
                       /\ entry[p].page = p => First[p] \in Texts
  BY DEF Init
<1>5. \A p \in Paths : entry[p].page # Absent => Settled(entry[p].page)
  <2> SUFFICES ASSUME NEW p \in Paths, entry[p].page # Absent PROVE Settled(entry[p].page)
    OBVIOUS
  <2>1. entry[p].page = p /\ First[p] \in Texts
    BY <1>4
  <2>2. data[p] = Whole(First[p]) /\ stored.data[p] = Whole(First[p])
    BY <2>1 DEF Init, Inodes
  <2> QED BY <2>1, <2>2 DEF Settled
<1>6. Pages
  BY <1>4, <1>5 DEF Pages
<1>7. Named
  BY <1>4 DEF Named, FileOf, Inodes
<1> QED BY <1>2, <1>3, <1>6, <1>7 DEF IInv, OneCall, Opened, Progress, Working

\* A call that starts has its file to itself.
LEMMA ReadKeeps ==
  ASSUME ~Overlap, IInv, NEW w \in Writers, Read(w)
  PROVE  IInv'
<1> USE FileAssumption
<1>1. /\ entry' = entry /\ data' = data /\ stored' = stored
      /\ \A v \in Writers \ {w} : call'[v] = call[v]
      /\ call[w].pc = "idle" /\ call'[w].pc = "read" /\ Text[w] \in Texts
  BY DEF Read, IInv, TypeOK, Calls
<1>2. Before(w) \in Texts \cup {Absent, Hole}
  <2>1. \A i \in Inodes : data[i][1] \in Texts \cup {Hole}
    BY WholeText DEF IInv, TypeOK, File
  <2>2. entry[Target[w]].page \in Inodes \cup {Absent}
    BY DEF IInv, TypeOK, Directory
  <2> QED BY <2>1, <2>2 DEF Before, Seen
<1>3. call[w] \in Calls
  BY DEF IInv, TypeOK
<1>4. [call[w] EXCEPT !.pc = "read", !.before = Before(w)] \in Calls
  BY <1>2, <1>3 DEF Calls, Working
<1>5. TypeOK'
  BY <1>1, <1>4 DEF Read, IInv, TypeOK
<1>6. OneCall'
  BY <1>1 DEF IInv, OneCall, Read, Free
<1>7. Named'
  BY <1>1 DEF IInv, Named
<1>8. Opened'
  <2> SUFFICES ASSUME NEW v \in Writers PROVE Progress(v)'
    BY DEF Opened
  <2> QED BY <1>1 DEF IInv, Opened, Progress, Working
<1>9. Pages'
  BY <1>1 DEF IInv, Pages, Settled
<1> QED BY <1>5, <1>6, <1>7, <1>8, <1>9 DEF IInv

\* The temp file is fresh or left over; either way no page names it.
LEMMA OpenTempKeeps ==
  ASSUME ~Overlap, IInv, NEW w \in Writers, OpenTemp(w)
  PROVE  IInv'
<1> USE FileAssumption
<1> DEFINE p == Target[w]
           i == IF entry[p].temp = Absent THEN w ELSE entry[p].temp
<1>0. p \in Paths /\ i \in Inodes /\ w \in Inodes
  BY DEF IInv, TypeOK, Directory, Inodes
<1>1. /\ stored' = stored
      /\ \A v \in Writers \ {w} : call'[v] = call[v]
      /\ call[w].pc = "read" /\ call'[w] = [call[w] EXCEPT !.pc = "writing", !.k = 1, !.inode = i]
      /\ call'[w].pc = "writing" /\ call'[w].inode = i /\ call'[w].k = 1
  BY DEF OpenTemp, IInv, TypeOK, Calls
<1>2. /\ \A q \in Paths \ {p} : entry'[q] = entry[q]
      /\ entry'[p].page = entry[p].page /\ entry'[p].temp = i
      /\ entry' \in Directory
  <2>1. entry' = [entry EXCEPT ![p] = [entry[p] EXCEPT !.temp = i]]
    BY DEF OpenTemp
  <2>2. entry[p] \in [page : Inodes \cup {Absent}, temp : Inodes \cup {Absent}]
    BY <1>0 DEF IInv, TypeOK, Directory
  <2> QED BY <1>0, <2>1, <2>2 DEF IInv, TypeOK, Directory
<1>3. /\ \A j \in Inodes \ {i} : data'[j] = data[j]
      /\ data'[i] = Whole(Hole)
      /\ data' \in [Inodes -> File]
  BY <1>0, WholeText DEF OpenTemp, IInv, TypeOK
<1>4. FileOf(i) = p /\ (\A q \in Paths : i \notin {entry[q].page, stored.entry[q].page})
  <2>1. CASE entry[p].temp = Absent
    BY <1>0, <1>1, <2>1 DEF IInv, Named, FileOf
  <2>2. CASE entry[p].temp # Absent
    BY <1>0, <2>2 DEF IInv, Named
  <2> QED BY <2>1, <2>2
<1>5. TypeOK'
  <2>1. 1 \in 1 .. Chunks
    OBVIOUS
  <2>2. call[w] \in Calls
    BY DEF IInv, TypeOK
  <2>3. call'[w] \in Calls
    BY <1>0, <1>1, <2>1, <2>2 DEF Calls, Working
  <2> QED BY <1>1, <1>2, <1>3, <2>3 DEF OpenTemp, IInv, TypeOK
<1>6. OneCall'
  BY <1>1 DEF IInv, OneCall, Working
<1>7. Named'
  <2> SUFFICES ASSUME NEW q \in Paths, NEW j \in Inodes
               PROVE  /\ j \in {entry'[q].page, entry'[q].temp, stored'.entry[q].page, stored'.entry[q].temp}
                          => FileOf(j) = q /\ (j \in Writers => call'[j].pc \notin {"idle", "read"})
                      /\ j = entry'[q].temp => j \notin {entry'[q].page, stored'.entry[q].page}
                      /\ j = stored'.entry[q].temp => j # stored'.entry[q].page
    BY DEF Named, FileOf
  <2>1. \A v \in Writers : call'[v].pc \in {"idle", "read"} => call[v].pc \in {"idle", "read"} /\ v # w
    BY <1>1
  <2>2. j = i \/ j \in {entry[q].page, entry[q].temp, stored.entry[q].page, stored.entry[q].temp}
          \/ j \notin {entry'[q].page, entry'[q].temp, stored'.entry[q].page, stored'.entry[q].temp}
    BY <1>1, <1>2
  <2>3. i \in Writers => call'[i].pc \notin {"idle", "read"}
    BY <1>0, <1>1, <2>1 DEF IInv, Named
  <2>4. q # p => i \notin {entry[q].page, entry[q].temp, stored.entry[q].page, stored.entry[q].temp}
    BY <1>0, <1>4 DEF IInv, Named
  <2> QED BY <1>0, <1>1, <1>2, <1>4, <2>1, <2>2, <2>3, <2>4 DEF IInv, Named
<1>8. Opened'
  <2> SUFFICES ASSUME NEW v \in Writers PROVE Progress(v)'
    BY DEF Opened
  <2>1. CASE v = w
    <3>1. Text[w] \in Texts
      BY <1>1 DEF IInv, Opened, Progress, Working
    <3>2. 1 .. 1 - 1 = {}
      OBVIOUS
    <3>3. call'[w].inode = entry'[Target[w]].temp
      BY <1>1, <1>2
    <3> QED BY <1>0, <1>1, <2>1, <3>1, <3>2, <3>3 DEF Progress, Working
  <2>2. CASE v # w
    <3>1. call[v].pc \in Working \ {"read"} => Target[v] # p /\ call[v].inode # i
      <4>1. call[v].pc \in Working => Target[v] # p
        BY <1>1, <2>2 DEF IInv, OneCall, Working
      <4>2. ASSUME call[v].pc \in Working \ {"read"} PROVE FileOf(call[v].inode) = Target[v]
        BY <4>2 DEF IInv, Opened, Progress, Named
      <4> QED BY <1>4, <4>1, <4>2
    <3> QED BY <1>1, <1>2, <1>3, <2>2, <3>1 DEF IInv, Opened, Progress, Working
  <2> QED BY <2>1, <2>2
<1>9. Pages'
  BY <1>0, <1>1, <1>2, <1>3, <1>4 DEF IInv, Pages, Settled, TypeOK, Directory
<1> QED BY <1>5, <1>6, <1>7, <1>8, <1>9 DEF IInv

\* Only the inode of this call, which is no page, changes.
LEMMA WriteChunkKeeps ==
  ASSUME ~Overlap, IInv, NEW w \in Writers, WriteChunk(w)
  PROVE  IInv'
<1> USE FileAssumption
<1> DEFINE i == call[w].inode
           k == call[w].k
<1>1. /\ entry' = entry /\ stored' = stored
      /\ \A v \in Writers \ {w} : call'[v] = call[v]
      /\ call[w].pc = "writing" /\ call'[w].inode = i /\ k \in 1 .. Chunks
      /\ call'[w] \in Calls
      /\ \/ k < Chunks /\ call'[w].pc = "writing" /\ call'[w].k = k + 1
         \/ k = Chunks /\ call'[w].pc = "syncing"
  <2>1. call[w] \in Calls
    BY DEF IInv, TypeOK
  <2>2. /\ entry' = entry /\ stored' = stored /\ call[w].pc = "writing"
        /\ \A v \in Writers \ {w} : call'[v] = call[v]
        /\ call'[w] = IF k < Chunks THEN [call[w] EXCEPT !.k = k + 1]
                                   ELSE [call[w] EXCEPT !.pc = "syncing"]
    BY DEF WriteChunk, IInv, TypeOK
  <2>3. k \in 1 .. Chunks /\ (k < Chunks => k + 1 \in 1 .. Chunks) /\ (~(k < Chunks) => k = Chunks)
    BY <2>1 DEF Calls
  <2> QED BY <2>1, <2>2, <2>3 DEF Calls, Working
<1>2. Text[w] \in Texts /\ i \in Inodes /\ i = entry[Target[w]].temp /\ Target[w] \in Paths
  BY <1>1 DEF IInv, Opened, Progress, Working
<1>3. data[i] \in File
  BY <1>2 DEF IInv, TypeOK
<1>4. /\ \A j \in Inodes \ {i} : data'[j] = data[j]
      /\ data'[i] = [data[i] EXCEPT ![k] = Text[w]]
      /\ data'[i] \in File /\ data' \in [Inodes -> File]
  <2>1. [data[i] EXCEPT ![k] = Text[w]] \in File
    BY <1>1, <1>2, <1>3 DEF File
  <2> QED BY <1>2, <2>1 DEF WriteChunk, IInv, TypeOK
<1>5. TypeOK'
  BY <1>1, <1>4 DEF WriteChunk, IInv, TypeOK
<1>6. OneCall'
  BY <1>1 DEF IInv, OneCall, Working
<1>7. Named'
  BY <1>1 DEF IInv, Named
<1>8. Opened'
  <2> SUFFICES ASSUME NEW v \in Writers PROVE Progress(v)'
    BY DEF Opened
  <2>1. CASE v = w
    <3>1. \A j \in 1 .. k : data'[i][j] = Text[w]
      <4>1. \A j \in 1 .. k - 1 : data[i][j] = Text[w]
        BY <1>1 DEF IInv, Opened, Progress
      <4>2. \A j \in 1 .. k : j \in 1 .. Chunks /\ (j = k \/ j \in 1 .. k - 1)
        BY <1>1
      <4> QED BY <1>1, <1>3, <1>4, <4>1, <4>2 DEF File
    <3>2. CASE k < Chunks /\ call'[w].pc = "writing" /\ call'[w].k = k + 1
      <4>1. call'[w].k - 1 = k
        BY <1>1, <3>2
      <4> QED BY <1>1, <1>2, <2>1, <3>1, <3>2, <4>1 DEF Progress, Working
    <3>3. CASE k = Chunks /\ call'[w].pc = "syncing"
      <4>1. data'[i] = Whole(Text[w])
        BY <1>4, <3>1, <3>3 DEF File, Whole
      <4> QED BY <1>1, <1>2, <2>1, <3>3, <4>1 DEF Progress, Working
    <3> QED BY <1>1, <3>2, <3>3
  <2>2. CASE v # w
    <3>1. call[v].pc \in Working \ {"read"} => call[v].inode # i
      BY <1>1, <1>2, <2>2 DEF IInv, OneCall, Opened, Progress, Named, Working
    <3> QED BY <1>1, <1>4, <2>2, <3>1 DEF IInv, Opened, Progress, Working
  <2> QED BY <2>1, <2>2
<1>9. Pages'
  <2>1. \A q \in Paths : i \notin {entry[q].page, stored.entry[q].page}
    BY <1>2 DEF IInv, Named
  <2> QED BY <1>1, <1>4, <2>1 DEF IInv, Pages, Settled, TypeOK, Directory
<1> QED BY <1>5, <1>6, <1>7, <1>8, <1>9 DEF IInv

LEMMA SyncKeeps ==
  ASSUME ~Overlap, IInv, NEW w \in Writers, Sync(w)
  PROVE  IInv'
<1> USE FileAssumption
<1> DEFINE i == call[w].inode
<1>1. /\ entry' = entry /\ data' = data
      /\ \A v \in Writers \ {w} : call'[v] = call[v]
      /\ call[w].pc = "syncing" /\ call'[w].inode = i /\ call'[w].pc = "renaming"
      /\ call'[w] \in Calls
  BY DEF Sync, IInv, TypeOK, Calls, Working
<1>2. Text[w] \in Texts /\ i \in Inodes /\ i = entry[Target[w]].temp /\ Target[w] \in Paths
      /\ data[i] = Whole(Text[w])
  BY <1>1 DEF IInv, Opened, Progress, Working
<1>3. /\ stored'.entry = stored.entry
      /\ \A j \in Inodes \ {i} : stored'.data[j] = stored.data[j]
      /\ stored'.data[i] = data[i]
      /\ stored' \in [entry : Directory, data : [Inodes -> File]]
  <2>1. stored' = [stored EXCEPT !.data = [stored.data EXCEPT ![i] = data[i]]]
    BY DEF Sync, Synced
  <2>2. stored \in [entry : Directory, data : [Inodes -> File]] /\ data[i] \in File
    BY <1>2 DEF IInv, TypeOK
  <2> QED BY <1>2, <2>1, <2>2
<1>5. TypeOK'
  BY <1>1, <1>3 DEF Sync, IInv, TypeOK
<1>6. OneCall'
  BY <1>1 DEF IInv, OneCall, Working
<1>7. Named'
  BY <1>1, <1>3 DEF IInv, Named
<1>8. Opened'
  <2> SUFFICES ASSUME NEW v \in Writers PROVE Progress(v)'
    BY DEF Opened
  <2>1. CASE v = w
    BY <1>1, <1>2, <1>3, <2>1 DEF Progress, Working
  <2>2. CASE v # w
    <3>1. call[v].pc \in Working \ {"read"} => call[v].inode # i
      BY <1>1, <1>2, <2>2 DEF IInv, OneCall, Opened, Progress, Named, Working
    <3> QED BY <1>1, <1>3, <2>2, <3>1 DEF IInv, Opened, Progress, Working
  <2> QED BY <2>1, <2>2
<1>9. Pages'
  <2>1. \A q \in Paths : i \notin {entry[q].page, stored.entry[q].page}
    BY <1>2 DEF IInv, Named
  <2> QED BY <1>1, <1>3, <2>1 DEF IInv, Pages, Settled, TypeOK, Directory
<1> QED BY <1>5, <1>6, <1>7, <1>8, <1>9 DEF IInv

\* The synced inode becomes the page.
LEMMA RenameKeeps ==
  ASSUME ~Overlap, IInv, NEW w \in Writers, Rename(w)
  PROVE  IInv'
<1> USE FileAssumption
<1> DEFINE p == Target[w]
           i == call[w].inode
<1>1. /\ data' = data /\ stored' = stored
      /\ \A v \in Writers \ {w} : call'[v] = call[v]
      /\ call[w].pc = "renaming" /\ call'[w].pc = "done"
      /\ call'[w] \in Calls
  BY DEF Rename, IInv, TypeOK, Calls, Working
<1>2. p \in Paths /\ Text[w] \in Texts /\ i \in Inodes /\ i = entry[p].temp
      /\ data[i] = Whole(Text[w]) /\ stored.data[i] = Whole(Text[w])
  BY <1>1 DEF IInv, Opened, Progress, Working
<1>3. /\ \A q \in Paths \ {p} : entry'[q] = entry[q]
      /\ entry'[p].page = i /\ entry'[p].temp = Absent
      /\ entry' \in Directory
  BY <1>2 DEF Rename, IInv, TypeOK, Directory
<1>5. TypeOK'
  BY <1>1, <1>3 DEF Rename, IInv, TypeOK
<1>6. OneCall'
  BY <1>1 DEF IInv, OneCall, Working
<1>7. Named'
  BY <1>1, <1>2, <1>3 DEF IInv, Named, FileOf, Inodes
<1>8. Opened'
  <2> SUFFICES ASSUME NEW v \in Writers PROVE Progress(v)'
    BY DEF Opened
  <2>1. CASE v = w
    BY <1>1, <2>1 DEF Progress, Working
  <2>2. CASE v # w
    <3>1. call[v].pc \in Working => Target[v] # p
      BY <1>1, <2>2 DEF IInv, OneCall, Working
    <3>2. Target[v] \in Paths
      OBVIOUS
    <3> QED BY <1>1, <1>3, <2>2, <3>1, <3>2 DEF IInv, Opened, Progress, Working
  <2> QED BY <2>1, <2>2
<1>9. Pages'
  BY <1>1, <1>2, <1>3 DEF IInv, Pages, Settled
<1> QED BY <1>5, <1>6, <1>7, <1>8, <1>9 DEF IInv

LEMMA RemoveKeeps ==
  ASSUME ~Overlap, IInv, NEW w \in Writers, Remove(w)
  PROVE  IInv'
<1> USE FileAssumption
<1> DEFINE p == Target[w]
<1>1. /\ data' = data /\ stored' = stored
      /\ \A v \in Writers \ {w} : call'[v] = call[v]
      /\ call[w].pc = "idle" /\ call'[w].pc = "done" /\ p \in Paths
  BY DEF Remove, IInv, TypeOK, Calls
<1>2. call'[w] \in Calls
  <2>1. Seen(entry[p].page) \in Texts \cup {Absent, Hole}
    <3>1. \A i \in Inodes : data[i][1] \in Texts \cup {Hole}
      BY WholeText DEF IInv, TypeOK, File
    <3>2. entry[p].page \in Inodes \cup {Absent}
      BY <1>1 DEF IInv, TypeOK, Directory
    <3> QED BY <3>1, <3>2 DEF Seen
  <2>2. call[w] \in Calls /\ call'[w] = [call[w] EXCEPT !.pc = "done", !.before = Seen(entry[p].page)]
    BY DEF Remove, IInv, TypeOK
  <2> QED BY <2>1, <2>2 DEF Calls
<1>3. /\ \A q \in Paths \ {p} : entry'[q] = entry[q]
      /\ entry'[p].page = Absent /\ entry'[p].temp = entry[p].temp
      /\ entry' \in Directory
  <2>1. entry' = [entry EXCEPT ![p] = [entry[p] EXCEPT !.page = Absent]]
    BY DEF Remove
  <2>2. entry[p] \in [page : Inodes \cup {Absent}, temp : Inodes \cup {Absent}]
    BY <1>1 DEF IInv, TypeOK, Directory
  <2> QED BY <1>1, <2>1, <2>2 DEF IInv, TypeOK, Directory
<1>5. TypeOK'
  BY <1>1, <1>2, <1>3 DEF Remove, IInv, TypeOK
<1>6. OneCall'
  BY <1>1 DEF IInv, OneCall, Working
<1>7. Named'
  BY <1>1, <1>3 DEF IInv, Named, FileOf, Inodes
<1>8. Opened'
  <2> SUFFICES ASSUME NEW v \in Writers PROVE Progress(v)'
    BY DEF Opened
  <2>1. entry'[Target[v]].temp = entry[Target[v]].temp
    BY <1>3
  <2> QED BY <1>1, <2>1 DEF IInv, Opened, Progress, Working
<1>9. Pages'
  BY <1>1, <1>3 DEF IInv, Pages, Settled
<1> QED BY <1>5, <1>6, <1>7, <1>8, <1>9 DEF IInv

LEMMA FailKeeps ==
  ASSUME IInv, NEW w \in Writers, Fail(w)
  PROVE  IInv'
<1>1. /\ entry' = entry /\ data' = data /\ stored' = stored
      /\ \A v \in Writers \ {w} : call'[v] = call[v]
      /\ call[w].pc \in Working /\ call'[w].pc = "failed"
      /\ call'[w] \in Calls
  BY DEF Fail, IInv, TypeOK, Calls
<1>2. TypeOK'
  BY <1>1 DEF Fail, IInv, TypeOK
<1>3. OneCall'
  BY <1>1 DEF IInv, OneCall, Working
<1>4. Named'
  BY <1>1 DEF IInv, Named
<1>5. Opened'
  <2> SUFFICES ASSUME NEW v \in Writers PROVE Progress(v)'
    BY DEF Opened
  <2> QED BY <1>1 DEF IInv, Opened, Progress, Working
<1>6. Pages'
  BY <1>1 DEF IInv, Pages, Settled
<1> QED BY <1>2, <1>3, <1>4, <1>5, <1>6 DEF IInv

\* What is written back of a page, or of a synced file, is there already.
LEMMA WriteBackKeeps ==
  ASSUME IInv, NEW i \in Inodes, NEW k \in 1 .. Chunks, WriteBack(i, k)
  PROVE  IInv'
<1> USE FileAssumption
<1>1. /\ entry' = entry /\ data' = data /\ call' = call
      /\ stored'.entry = stored.entry
      /\ \A j \in Inodes \ {i} : stored'.data[j] = stored.data[j]
      /\ stored'.data[i] = [stored.data[i] EXCEPT ![k] = data[i][k]]
      /\ stored' \in [entry : Directory, data : [Inodes -> File]]
  <2>1. stored' = [stored EXCEPT !.data =
                     [stored.data EXCEPT ![i] = [stored.data[i] EXCEPT ![k] = data[i][k]]]]
    BY DEF WriteBack
  <2>2. stored \in [entry : Directory, data : [Inodes -> File]] /\ stored.data[i] \in File /\ data[i] \in File
    BY DEF IInv, TypeOK
  <2>3. [stored.data[i] EXCEPT ![k] = data[i][k]] \in File
    BY <2>2 DEF File
  <2> QED BY <2>1, <2>2, <2>3 DEF WriteBack
<1>2. stored.data[i] = data[i] => stored'.data[i] = data[i]
  <2>1. data[i] \in File
    BY DEF IInv, TypeOK
  <2> QED BY <1>1, <2>1 DEF File
<1>3. TypeOK'
  BY <1>1 DEF WriteBack, IInv, TypeOK
<1>4. OneCall'
  BY <1>1 DEF IInv, OneCall
<1>5. Named'
  BY <1>1 DEF IInv, Named
<1>6. Opened'
  <2> SUFFICES ASSUME NEW v \in Writers PROVE Progress(v)'
    BY DEF Opened
  <2>1. call[v].pc = "renaming" => call[v].inode \in Inodes
    BY DEF IInv, Opened, Progress, Working
  <2>2. \A j \in Inodes : stored.data[j] = data[j] => stored'.data[j] = data[j]
    BY <1>1, <1>2
  <2>3. Progress(v)
    BY DEF IInv, Opened
  <2>4. call[v].pc = "renaming" => stored'.data[call[v].inode] = Whole(Text[v])
    BY <2>1, <2>2, <2>3 DEF Progress
  <2> QED BY <1>1, <2>3, <2>4 DEF Progress
<1>7. Pages'
  <2>1. ASSUME NEW j \in Inodes, Settled(j) PROVE Settled(j)'
    <3>1. PICK t \in Texts : data[j] = Whole(t) /\ stored.data[j] = Whole(t)
      BY <2>1 DEF Settled
    <3>2. stored'.data[j] = Whole(t) /\ data'[j] = Whole(t)
      BY <1>1, <1>2, <3>1
    <3>3. Whole(t)' = Whole(t)
      BY DEF Whole
    <3> QED BY <3>2, <3>3 DEF Settled
  <2>2. \A q \in Paths : entry[q].page \in Inodes \cup {Absent} /\ stored.entry[q].page \in Inodes \cup {Absent}
    BY DEF IInv, TypeOK, Directory
  <2> QED BY <1>1, <2>1, <2>2 DEF IInv, Pages
<1> QED BY <1>3, <1>4, <1>5, <1>6, <1>7 DEF IInv

LEMMA FlushEntryKeeps ==
  ASSUME IInv, NEW p \in Paths, FlushEntry(p)
  PROVE  IInv'
<1>1. /\ entry' = entry /\ data' = data /\ call' = call
      /\ stored'.data = stored.data
      /\ \A q \in Paths \ {p} : stored'.entry[q] = stored.entry[q]
      /\ stored'.entry[p] = entry[p]
      /\ stored' \in [entry : Directory, data : [Inodes -> File]]
  <2>1. stored' = [stored EXCEPT !.entry = [stored.entry EXCEPT ![p] = entry[p]]]
    BY DEF FlushEntry
  <2>2. stored \in [entry : Directory, data : [Inodes -> File]] /\ entry \in Directory
    BY DEF IInv, TypeOK
  <2>3. [stored.entry EXCEPT ![p] = entry[p]] \in Directory
    BY <2>2 DEF Directory
  <2> QED BY <2>1, <2>2, <2>3 DEF FlushEntry, Directory
<1>2. TypeOK'
  BY <1>1 DEF FlushEntry, IInv, TypeOK
<1>3. OneCall' /\ Opened'
  BY <1>1 DEF IInv, OneCall, Opened, Progress
<1>4. Named'
  BY <1>1 DEF IInv, Named
<1>5. Pages'
  BY <1>1 DEF IInv, Pages, Settled
<1> QED BY <1>2, <1>3, <1>4, <1>5 DEF IInv

\* The stored pages are settled; the stored temp names are nobody's.
LEMMA PowerFailureKeeps ==
  ASSUME IInv, PowerFailure
  PROVE  IInv'
<1>1. /\ entry' = stored.entry /\ data' = stored.data /\ stored' = stored
      /\ \A v \in Writers : call'[v].pc \notin Working
                          /\ (call'[v].pc \in {"idle", "read"} => call[v].pc \in {"idle", "read"})
      /\ call' \in [Writers -> Calls]
  BY DEF PowerFailure, IInv, TypeOK, Calls, Working
<1>2. TypeOK'
  BY <1>1 DEF PowerFailure, IInv, TypeOK
<1>3. OneCall'
  BY <1>1 DEF OneCall
<1>4. Opened'
  BY <1>1 DEF Opened, Progress, Working
<1>5. Named'
  BY <1>1 DEF IInv, Named
<1>6. Pages'
  BY <1>1 DEF IInv, Pages, Settled
<1> QED BY <1>2, <1>3, <1>4, <1>5, <1>6 DEF IInv

LEMMA StepKeeps ==
  ASSUME ~Overlap, IInv, [Next]_vars
  PROVE  IInv'
<1>1. ASSUME NEW w \in Writers, CallStep(w) PROVE IInv'
  BY <1>1, ReadKeeps, OpenTempKeeps, WriteChunkKeeps, SyncKeeps, RenameKeeps, RemoveKeeps,
     FailKeeps DEF CallStep
<1>2. ASSUME NEW i \in Inodes, NEW k \in 1 .. Chunks, WriteBack(i, k) PROVE IInv'
  BY <1>2, WriteBackKeeps
<1>3. ASSUME NEW p \in Paths, FlushEntry(p) PROVE IInv'
  BY <1>3, FlushEntryKeeps
<1>4. CASE UNCHANGED vars
  BY <1>4 DEF vars, IInv, TypeOK, OneCall, Named, Opened, Progress, Pages, Settled
<1> QED BY <1>1, <1>2, <1>3, <1>4, PowerFailureKeeps DEF Next

LEMMA InvariantHolds ==
  ASSUME ~Overlap
  PROVE  Spec => []IInv
BY InitHolds, StepKeeps, PTL DEF Spec

\* A settled page is seen whole.
LEMMA SeenWhole ==
  ASSUME NEW i \in Inodes, NEW t \in Texts, data[i] = Whole(t)
  PROVE  Seen(i) = t
BY WholeText, FileAssumption DEF Seen, Inodes

\* No reader, before or after a power failure, finds a page half-written.
THEOREM NoPageIsHalfWritten ==
  ASSUME ~Overlap
  PROVE  Spec => []NeverHalfWritten
<1>1. ASSUME IInv, NEW p \in Paths PROVE Seen(entry[p].page) # Hole
  <2>1. CASE entry[p].page = Absent
    BY <2>1, FileAssumption DEF Seen
  <2>2. CASE entry[p].page # Absent
    <3>1. entry[p].page \in Inodes
      BY <1>1, <2>2 DEF IInv, TypeOK, Directory
    <3>2. PICK t \in Texts : data[entry[p].page] = Whole(t)
      BY <1>1, <2>2 DEF IInv, Pages, Settled
    <3> QED BY <3>1, <3>2, SeenWhole, FileAssumption
  <2> QED BY <2>1, <2>2
<1>2. IInv => NeverHalfWritten
  BY <1>1 DEF NeverHalfWritten
<1> QED BY <1>2, InvariantHolds, PTL

-----------------------------------------------------------------------------
\* What the refinement needs beside the invariant: the text a running call has
\* read is still the page's, and every page, in the directory or in storage, is
\* a text its file has had.
Returned ==
  /\ \A w \in Writers : /\ call[w].pc \in Working => call[w].before = Seen(entry[Target[w]].page)
                        /\ w \in finished => call[w].pc = "done"
  /\ \A p \in Paths : {Seen(entry[p].page), Seen(stored.entry[p].page)} \subseteq Atomic!Held(p)

PageMap == [p \in Paths |-> Seen(entry[p].page)]

BeforeMap == [w \in Writers |-> IF w \in finished THEN call[w].before ELSE Absent]

LEMMA PageTexts ==
  ASSUME IInv, NEW p \in Paths
  PROVE  /\ Seen(entry[p].page) \in Texts \cup {Absent}
         /\ Seen(stored.entry[p].page) \in Texts \cup {Absent}
         /\ entry[p].page \in Inodes \cup {Absent}
         /\ stored.entry[p].page \in Inodes \cup {Absent}
<1>1. \A i \in Inodes \cup {Absent} : (i # Absent => Settled(i)) => Seen(i) \in Texts \cup {Absent}
  BY SeenWhole DEF Settled, Seen
<1> QED BY <1>1 DEF IInv, TypeOK, Directory, Pages

\* A step that leaves every page and its data alone is a stutter above.
LEMMA QuietStep ==
  ASSUME Returned,
         \A q \in Paths :
            /\ entry'[q].page = entry[q].page
            /\ (entry[q].page = Absent \/ data'[entry[q].page] = data[entry[q].page])
            /\ \/ stored'.entry[q].page = entry[q].page
               \/ /\ stored'.entry[q].page = stored.entry[q].page
                  /\ \/ stored.entry[q].page = Absent
                     \/ data'[stored.entry[q].page] = data[stored.entry[q].page],
         finished' = finished,
         \A w \in Writers :
            /\ w \in finished => call'[w] = call[w]
            /\ call'[w].pc \in Working =>
                 \/ call[w].pc \in Working /\ call'[w].before = call[w].before
                 \/ call'[w].before = Seen(entry[Target[w]].page)
  PROVE  Returned' /\ UNCHANGED <<PageMap, BeforeMap, finished>>
<1> USE FileAssumption
<1>1. \A q \in Paths : Seen(entry[q].page)' = Seen(entry[q].page)
  <2> SUFFICES ASSUME NEW q \in Paths PROVE Seen(entry[q].page)' = Seen(entry[q].page)
    OBVIOUS
  <2>1. entry'[q].page = entry[q].page
    OBVIOUS
  <2>2. CASE entry[q].page = Absent
    BY <2>1, <2>2 DEF Seen
  <2>3. CASE entry[q].page # Absent
    <3>1. data'[entry'[q].page] = data[entry[q].page]
      BY <2>1, <2>3
    <3> QED BY <2>1, <2>3, <3>1 DEF Seen
  <2> QED BY <2>2, <2>3
<1>2. \A q \in Paths : Seen(stored.entry[q].page)' \in {Seen(entry[q].page), Seen(stored.entry[q].page)}
  BY DEF Seen
<1>3. \A q \in Paths : Atomic!Held(q)' = Atomic!Held(q)
  BY DEF Atomic!Held
<1>4. Returned'
  <2>1. \A w \in Writers : call'[w].pc \in Working => call'[w].before = Seen(entry[Target[w]].page)'
    BY <1>1 DEF Returned
  <2>2. \A w \in Writers : w \in finished' => call'[w].pc = "done"
    BY DEF Returned
  <2>3. \A q \in Paths : {Seen(entry[q].page)', Seen(stored.entry[q].page)'} \subseteq Atomic!Held(q)'
    BY <1>1, <1>2, <1>3 DEF Returned
  <2> QED BY <2>1, <2>2, <2>3 DEF Returned
<1>5. PageMap' = PageMap
  BY <1>1 DEF PageMap
<1>6. BeforeMap' = BeforeMap
  BY DEF BeforeMap
<1> QED BY <1>4, <1>5, <1>6

\* The steps of a call before its rename, the file system's, and a failure.
LEMMA QuietSteps ==
  ASSUME ~Overlap, IInv, Returned,
         \/ \E w \in Writers : Read(w) \/ OpenTemp(w) \/ WriteChunk(w) \/ Sync(w) \/ Fail(w)
         \/ \E i \in Inodes, k \in 1 .. Chunks : WriteBack(i, k)
         \/ \E p \in Paths : FlushEntry(p)
         \/ UNCHANGED vars
  PROVE  Returned' /\ UNCHANGED <<PageMap, BeforeMap, finished>>
<1> USE FileAssumption
<1>1. ASSUME NEW w \in Writers, Read(w) PROVE Returned' /\ UNCHANGED <<PageMap, BeforeMap, finished>>
  <2>1. /\ entry' = entry /\ data' = data /\ stored' = stored /\ finished' = finished
        /\ \A v \in Writers \ {w} : call'[v] = call[v]
        /\ call[w].pc = "idle" /\ call'[w].before = Seen(entry[Target[w]].page)
    BY <1>1 DEF Read, Before, IInv, TypeOK, Calls
  <2>2. w \notin finished
    BY <2>1 DEF Returned
  <2> QED BY <2>1, <2>2, QuietStep
<1>2. ASSUME NEW w \in Writers, OpenTemp(w) PROVE Returned' /\ UNCHANGED <<PageMap, BeforeMap, finished>>
  <2> DEFINE p == Target[w]
             i == IF entry[p].temp = Absent THEN w ELSE entry[p].temp
  <2>1. /\ stored' = stored /\ finished' = finished
        /\ \A v \in Writers \ {w} : call'[v] = call[v]
        /\ call[w].pc = "read" /\ call'[w].before = call[w].before
    BY <1>2 DEF OpenTemp, IInv, TypeOK, Calls
  <2>2. p \in Paths /\ i \in Inodes /\ w \in Inodes
    BY DEF IInv, TypeOK, Directory, Inodes
  <2>3. \A q \in Paths : entry'[q].page = entry[q].page
    <3>1. entry' = [entry EXCEPT ![p] = [entry[p] EXCEPT !.temp = i]]
      BY <1>2 DEF OpenTemp
    <3> QED BY <2>2, <3>1 DEF IInv, TypeOK, Directory
  <2>4. \A j \in Inodes \ {i} : data'[j] = data[j]
    BY <1>2, <2>2 DEF OpenTemp, IInv, TypeOK
  <2>5. \A q \in Paths : i \notin {entry[q].page, stored.entry[q].page}
    <3>1. CASE entry[p].temp = Absent
      BY <2>1, <2>2, <3>1 DEF IInv, Named, FileOf
    <3>2. CASE entry[p].temp # Absent
      BY <2>2, <3>2 DEF IInv, Named
    <3> QED BY <3>1, <3>2
  <2>6. w \notin finished /\ call[w].pc \in Working
    BY <2>1 DEF Returned, Working
  <2>7. \A q \in Paths : /\ entry[q].page = Absent \/ data'[entry[q].page] = data[entry[q].page]
                       /\ \/ stored.entry[q].page = Absent
                          \/ data'[stored.entry[q].page] = data[stored.entry[q].page]
    BY <2>4, <2>5, PageTexts
  <2> QED BY <2>1, <2>3, <2>6, <2>7, QuietStep
<1>3. ASSUME NEW w \in Writers, WriteChunk(w) PROVE Returned' /\ UNCHANGED <<PageMap, BeforeMap, finished>>
  <2>1. /\ stored' = stored /\ finished' = finished /\ entry' = entry
        /\ \A v \in Writers \ {w} : call'[v] = call[v]
        /\ call[w].pc = "writing" /\ call'[w].before = call[w].before
    BY <1>3 DEF WriteChunk, IInv, TypeOK, Calls
  <2>2. call[w].inode \in Inodes /\ call[w].inode = entry[Target[w]].temp /\ Target[w] \in Paths
    BY <2>1 DEF IInv, Opened, Progress, Working
  <2>3. \A j \in Inodes \ {call[w].inode} : data'[j] = data[j]
    BY <1>3, <2>2 DEF WriteChunk, IInv, TypeOK
  <2>4. \A q \in Paths : call[w].inode \notin {entry[q].page, stored.entry[q].page}
    BY <2>2 DEF IInv, Named
  <2>5. w \notin finished /\ call[w].pc \in Working
    BY <2>1 DEF Returned, Working
  <2>6. \A q \in Paths : /\ entry[q].page = Absent \/ data'[entry[q].page] = data[entry[q].page]
                       /\ \/ stored.entry[q].page = Absent
                          \/ data'[stored.entry[q].page] = data[stored.entry[q].page]
    BY <2>3, <2>4, PageTexts
  <2> QED BY <2>1, <2>5, <2>6, QuietStep
<1>4. ASSUME NEW w \in Writers, Sync(w) \/ Fail(w)
      PROVE  Returned' /\ UNCHANGED <<PageMap, BeforeMap, finished>>
  <2>1. /\ entry' = entry /\ data' = data /\ stored'.entry = stored.entry /\ finished' = finished
        /\ \A v \in Writers \ {w} : call'[v] = call[v]
        /\ call[w].pc \in Working /\ call'[w].before = call[w].before
    BY <1>4 DEF Sync, Synced, Fail, IInv, TypeOK, Calls, Working
  <2>2. w \notin finished
    BY <2>1 DEF Returned, Working
  <2> QED BY <2>1, <2>2, QuietStep
<1>5. ASSUME NEW i \in Inodes, NEW k \in 1 .. Chunks, WriteBack(i, k)
      PROVE  Returned' /\ UNCHANGED <<PageMap, BeforeMap, finished>>
  <2>1. entry' = entry /\ data' = data /\ stored'.entry = stored.entry /\ finished' = finished /\ call' = call
    BY <1>5 DEF WriteBack, IInv, TypeOK
  <2> QED BY <2>1, QuietStep
<1>6. ASSUME NEW p \in Paths, FlushEntry(p) PROVE Returned' /\ UNCHANGED <<PageMap, BeforeMap, finished>>
  <2>1. /\ entry' = entry /\ data' = data /\ finished' = finished /\ call' = call
        /\ \A q \in Paths : stored'.entry[q] = IF q = p THEN entry[p] ELSE stored.entry[q]
    BY <1>6 DEF FlushEntry, IInv, TypeOK, Directory
  <2> QED BY <2>1, QuietStep
<1>7. ASSUME UNCHANGED vars PROVE Returned' /\ UNCHANGED <<PageMap, BeforeMap, finished>>
  BY <1>7, QuietStep DEF vars
<1> QED BY <1>1, <1>2, <1>3, <1>4, <1>5, <1>6, <1>7

\* Rename and Remove replace the page above, by the text of the call.
LEMMA ReplaceStep ==
  ASSUME ~Overlap, IInv, Returned, NEW w \in Writers, Rename(w) \/ Remove(w)
  PROVE  Returned' /\ Atomic!Replace(w)
<1> USE FileAssumption
<1> DEFINE p == Target[w]
<1>1. /\ data' = data /\ stored' = stored /\ finished' = finished \cup {w} /\ p \in Paths
      /\ \A v \in Writers \ {w} : call'[v] = call[v]
      /\ call[w].pc \in {"idle", "renaming"} /\ call'[w].pc = "done"
  <2>1. p \in Paths
    OBVIOUS
  <2>2. call \in [Writers -> Calls]
    BY DEF IInv, TypeOK
  <2>3. CASE Rename(w)
    BY <2>1, <2>2, <2>3 DEF Rename, Calls
  <2>4. CASE Remove(w)
    BY <2>1, <2>2, <2>4 DEF Remove, Calls
  <2> QED BY <2>3, <2>4
<1>2. w \notin finished
  BY <1>1 DEF Returned
<1>3. call'[w].before = Seen(entry[p].page)
  <2>1. CASE Rename(w)
    BY <2>1 DEF Rename, IInv, TypeOK, Calls, Returned, Working
  <2>2. CASE Remove(w)
    BY <2>2 DEF Remove, IInv, TypeOK, Calls
  <2> QED BY <2>1, <2>2
<1>4. /\ \A q \in Paths \ {p} : entry'[q] = entry[q]
      /\ Seen(entry[p].page)' = Text[w]
  <2>1. CASE Rename(w)
    <3>1. call[w].inode \in Inodes /\ call[w].inode = entry[p].temp /\ Text[w] \in Texts
          /\ data[call[w].inode] = Whole(Text[w])
      BY <2>1 DEF Rename, IInv, Opened, Progress, Working
    <3>2. Seen(call[w].inode) = Text[w]
      BY <3>1, SeenWhole
    <3>3. entry'[p].page = call[w].inode /\ (\A q \in Paths \ {p} : entry'[q] = entry[q])
      BY <1>1, <2>1, <3>1 DEF Rename, IInv, TypeOK, Directory
    <3> QED BY <1>1, <3>2, <3>3 DEF Seen
  <2>2. CASE Remove(w)
    <3>1. entry' = [entry EXCEPT ![p] = [entry[p] EXCEPT !.page = Absent]] /\ Text[w] = Absent
      BY <2>2 DEF Remove
    <3>2. entry'[p].page = Absent /\ (\A q \in Paths \ {p} : entry'[q] = entry[q])
      BY <1>1, <3>1 DEF IInv, TypeOK, Directory
    <3> QED BY <3>1, <3>2 DEF Seen
  <2> QED BY <2>1, <2>2
<1>5. \A q \in Paths \ {p} : Seen(entry[q].page)' = Seen(entry[q].page)
  BY <1>1, <1>4 DEF Seen
<1>6. \A q \in Paths : Seen(stored.entry[q].page)' = Seen(stored.entry[q].page)
  BY <1>1 DEF Seen
<1>7. \A q \in Paths : Atomic!Held(q) \subseteq Atomic!Held(q)'
  BY <1>1 DEF Atomic!Held
<1>8. Text[w] \in Atomic!Held(p)'
  BY <1>1 DEF Atomic!Held
<1>9. Returned'
  <2>1. \A q \in Paths : {Seen(entry[q].page)', Seen(stored.entry[q].page)'} \subseteq Atomic!Held(q)'
    BY <1>4, <1>5, <1>6, <1>7, <1>8 DEF Returned
  <2>2. \A v \in Writers : v \in finished' => call'[v].pc = "done"
    BY <1>1 DEF Returned
  <2>3. ASSUME NEW v \in Writers, call'[v].pc \in Working
        PROVE  call'[v].before = Seen(entry[Target[v]].page)'
    <3>1. v # w /\ call'[v] = call[v] /\ Target[v] \in Paths
      BY <1>1, <2>3 DEF Working
    <3>2. Target[v] # p
      <4>1. CASE Rename(w)
        BY <2>3, <3>1, <4>1 DEF Rename, IInv, OneCall, Working
      <4>2. CASE Remove(w)
        BY <2>3, <3>1, <4>2 DEF Remove, Free
      <4> QED BY <4>1, <4>2
    <3> QED BY <1>5, <2>3, <3>1, <3>2 DEF Returned
  <2> QED BY <2>1, <2>2, <2>3 DEF Returned
<1>10. PageMap' = [PageMap EXCEPT ![p] = Text[w]]
  BY <1>1, <1>4, <1>5 DEF PageMap
<1>11. BeforeMap' = [BeforeMap EXCEPT ![w] = PageMap[p]]
  BY <1>1, <1>2, <1>3 DEF BeforeMap, PageMap
<1> QED BY <1>1, <1>2, <1>9, <1>10, <1>11 DEF Atomic!Replace, PageMap, BeforeMap

LEMMA FailureStep ==
  ASSUME IInv, Returned, PowerFailure
  PROVE  Returned' /\ Atomic!PowerFailure
<1> USE FileAssumption
<1>1. /\ entry' = stored.entry /\ data' = stored.data /\ stored' = stored /\ finished' = finished
      /\ \A v \in Writers : call'[v].pc \notin Working /\ (call[v].pc = "done" => call'[v] = call[v])
  BY DEF PowerFailure, IInv, TypeOK, Calls, Working
<1>2. ASSUME NEW q \in Paths
      PROVE  /\ Seen(entry[q].page)' = Seen(stored.entry[q].page)
             /\ Seen(stored.entry[q].page)' = Seen(stored.entry[q].page)
  <2>1. stored.entry[q].page = Absent \/ stored.data[stored.entry[q].page] = data[stored.entry[q].page]
    BY DEF IInv, Pages, Settled
  <2> QED BY <1>1, <2>1 DEF Seen
<1>3. \A q \in Paths : Atomic!Held(q)' = Atomic!Held(q)
  BY <1>1 DEF Atomic!Held
<1>4. Returned'
  BY <1>1, <1>2, <1>3 DEF Returned
<1>5. BeforeMap' = BeforeMap
  BY <1>1 DEF BeforeMap, Returned
<1>6. PageMap' \in {f \in [Paths -> Texts \cup {Absent}] : \A q \in Paths : f[q] \in Atomic!Held(q)}
  BY <1>2, PageTexts DEF PageMap, Returned
<1> QED BY <1>1, <1>4, <1>5, <1>6 DEF Atomic!PowerFailure, PageMap, BeforeMap

\* writeFileAtomic implements the atomic replacement of a page.
THEOREM WriteIsAtomic ==
  ASSUME ~Overlap
  PROVE  Spec => ImplementsReplace
<1> USE FileAssumption
<1>1. Init => Returned /\ Atomic!Init
  <2> SUFFICES ASSUME Init PROVE Returned /\ Atomic!Init
    OBVIOUS
  <2>1. \A q \in Paths : Seen(entry[q].page) = First[q] /\ stored.entry[q].page = entry[q].page
    <3> SUFFICES ASSUME NEW q \in Paths
                 PROVE Seen(entry[q].page) = First[q] /\ stored.entry[q].page = entry[q].page
      OBVIOUS
    <3>1. CASE First[q] = Absent
      BY <3>1 DEF Init, Seen
    <3>2. CASE First[q] # Absent
      <4>1. entry[q].page = q /\ data[q] = Whole(First[q]) /\ First[q] \in Texts /\ q \in Inodes
        BY <3>2 DEF Init, Inodes
      <4> QED BY <4>1, SeenWhole DEF Init
    <3> QED BY <3>1, <3>2
  <2>2. Returned
    BY <2>1 DEF Init, Returned, Working, Atomic!Held
  <2> QED BY <2>1, <2>2 DEF Init, Atomic!Init
<1>2. ASSUME IInv, Returned, [Next]_vars
      PROVE  Returned' /\ [Atomic!Next]_<<PageMap, BeforeMap, finished>>
  <2>1. ASSUME NEW w \in Writers, Rename(w) \/ Remove(w) PROVE Returned' /\ Atomic!Next
    BY <1>2, <2>1, ReplaceStep DEF Atomic!Next
  <2>2. ASSUME PowerFailure PROVE Returned' /\ Atomic!Next
    BY <1>2, <2>2, FailureStep DEF Atomic!Next
  <2> QED BY <1>2, <2>1, <2>2, QuietSteps DEF Next, CallStep
<1> QED BY <1>1, <1>2, InvariantHolds, PTL
        DEF Spec, ImplementsReplace, Atomic!Spec, PageMap, BeforeMap
=============================================================================
