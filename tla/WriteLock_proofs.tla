--------------------------- MODULE WriteLock_proofs ---------------------------
(***************************************************************************)
(* The write handle is exclusive for every number of processes and handles, *)
(* through every interleaving of them, crashes, stale locks, reused pids,   *)
(* failed writes of the lock file and handovers, but for the handles that   *)
(* raced for the lock or shared it with another handle of their process.    *)
(***************************************************************************)
EXTENDS WriteLock, TLAPS

Owners == {"writer", "leaving"}

\* acquire and release block the thread of their process.
OneThread ==
  \A h, g \in Handles :
    (handle[h] \in Inside /\ handle[g] \in Inside /\ ProcessOf[h] = ProcessOf[g]) => h = g

\* Who is about to write the file and was not caught is alone in that,
Unrivalled ==
  \A h, g \in Handles :
    (handle[h] \in Taking /\ handle[g] \in Taking /\ blame[h] = {}) => h = g

\* and beside an owner that was not caught only its own process is about to.
Judged ==
  \A h, g \in Handles :
    (handle[h] \in Taking /\ handle[g] \in Owners /\ blame[g] = {}) => ProcessOf[h] = ProcessOf[g]

\* An owner that was not caught is named, also while it closes.
OwnerIsNamed ==
  \A h \in Handles : (handle[h] \in Owners /\ blame[h] = {}) => lock = ProcessOf[h]

IInv == TypeOK /\ OneThread /\ Unrivalled /\ Judged /\ OwnerIsNamed

HandleAction(h) ==
  Open(h) \/ Pass(h) \/ GiveUp(h) \/ Take(h) \/ Name(h) \/ Throw(h) \/ Close(h) \/ Unlink(h)

\* What a step of one handle leaves alone.
LEMMA HandleFrame ==
  ASSUME IInv, NEW h \in Handles, HandleAction(h)
  PROVE  /\ TypeOK' /\ OneThread' /\ alive' = alive
         /\ \A g \in Handles \ {h} : handle'[g] = handle[g] /\ blame[g] \subseteq blame'[g]
<1> USE LockAssumption DEF HandleAction
<1>1. /\ \A g \in Handles \ {h} : handle'[g] = handle[g]
      /\ handle' \in [Handles -> {"closed", "writer", "readonly"} \cup Inside]
      /\ alive' = alive /\ Runs(h)
      /\ \A g \in Handles : Runs(g)' = Runs(g)
  BY DEF IInv, TypeOK, Open, Pass, GiveUp, Take, Name, Throw, Close, Unlink, Inside, Taking, Runs
<1>2. ASSUME NEW b, b = blame' PROVE b \in [Handles -> SUBSET {"race", "shared"}]
  BY <1>2 DEF IInv, TypeOK, Open, Pass, GiveUp, Take, Name, Throw, Close, Unlink, Robbed
<1>3. \A g \in Handles \ {h} : blame[g] \subseteq blame'[g]
  BY DEF IInv, TypeOK, Open, Pass, GiveUp, Take, Name, Throw, Close, Unlink, Robbed
<1>4. lock' \in Pids \cup {Nobody}
  BY DEF IInv, TypeOK, Open, Pass, GiveUp, Take, Name, Throw, Close, Unlink
<1>5. TypeOK'
  BY <1>1, <1>2, <1>4 DEF IInv, TypeOK
<1>6. handle'[h] \in Inside => handle[h] \in Inside \/ ~Busy(ProcessOf[h])
  BY DEF IInv, TypeOK, Open, Pass, GiveUp, Take, Name, Throw, Close, Unlink, Inside, Taking
<1>7. OneThread'
  BY <1>1, <1>6 DEF IInv, OneThread, Busy
<1> QED BY <1>1, <1>3, <1>5, <1>7

\* A handle that empties, writes or removes the lock file catches every owner the
\* file named, or that owner is of its own process and thereby caught.
LEMMA RobbedOwners ==
  ASSUME IInv, NEW h \in Handles, Robbed(h), handle[h] \in Taking \/ handle[h] = "leaving",
         NEW g \in Handles \ {h}, handle[g] \in Owners
  PROVE  blame'[g] # {}
<1>1. CASE blame[g] # {}
  BY <1>1 DEF Robbed
<1>2. CASE blame[g] = {}
  <2>1. lock = ProcessOf[g] /\ handle[g] # "closed"
    BY <1>2 DEF IInv, OwnerIsNamed, Owners
  <2>2. CASE blame[h] # {}
    BY <2>1, <2>2 DEF Robbed
  <2>3. CASE blame[h] = {}
    <3>1. ProcessOf[g] = ProcessOf[h]
      BY <1>2, <2>1, <2>3 DEF IInv, Judged, OwnerIsNamed, Owners
    <3> QED BY <2>1, <3>1 DEF Robbed
  <2> QED BY <2>2, <2>3
<1> QED BY <1>1, <1>2

LEMMA HandleStep ==
  ASSUME IInv, NEW h \in Handles, HandleAction(h)
  PROVE  IInv'
<1> USE LockAssumption
<1>1. /\ TypeOK' /\ OneThread' /\ alive' = alive
      /\ \A g \in Handles \ {h} : handle'[g] = handle[g] /\ blame[g] \subseteq blame'[g]
  BY HandleFrame
<1>2. CASE Open(h) \/ GiveUp(h) \/ Throw(h) \/ Close(h)
  <2>1. /\ lock' = lock /\ handle'[h] \notin Taking
        /\ handle'[h] \in Owners => handle[h] \in Owners /\ blame'[h] = blame[h]
    BY <1>2 DEF Open, GiveUp, Throw, Close, IInv, TypeOK, Taking, Owners
  <2> QED BY <1>1, <2>1 DEF IInv, Unrivalled, Judged, OwnerIsNamed
<1>3. CASE Pass(h)
  <2>1. lock' = lock /\ handle'[h] = "taking"
    BY <1>3 DEF Pass, IInv, TypeOK
  <2>2. \A g \in Handles \ {h} : handle[g] \in Taking => blame'[g] # {} /\ blame'[h] # {}
    BY <1>3 DEF Pass, Rivals
  <2>3. \A g \in Handles : handle[g] \in Owners /\ blame[g] = {} => ProcessOf[g] = ProcessOf[h]
    BY <1>3 DEF Pass, Refused, IInv, TypeOK, OwnerIsNamed, Owners, Runs
  <2>4. Unrivalled'
    BY <1>1, <2>1, <2>2 DEF IInv, Unrivalled, Taking
  <2>5. Judged' /\ OwnerIsNamed'
    BY <1>1, <2>1, <2>3 DEF IInv, Judged, OwnerIsNamed, Owners
  <2> QED BY <1>1, <2>4, <2>5 DEF IInv
<1>4. CASE (Take(h) \/ Name(h)) /\ handle'[h] = "readonly"
  <2>1. lock' = lock
    BY <1>4 DEF Take, Name, IInv, TypeOK
  <2> QED BY <1>1, <1>4, <2>1 DEF IInv, Unrivalled, Judged, OwnerIsNamed, Taking, Owners
<1>5. CASE ((Take(h) \/ Name(h)) /\ handle'[h] # "readonly") \/ Unlink(h)
  <2>1. /\ Robbed(h)
        /\ \/ handle[h] \in Taking /\ handle'[h] = "naming"
           \/ handle[h] \in Taking /\ handle'[h] = "writer" /\ lock' = ProcessOf[h]
           \/ handle[h] = "leaving" /\ handle'[h] = "closed"
    BY <1>5 DEF Take, Name, Unlink, IInv, TypeOK, Taking
  <2>2. blame'[h] = blame[h]
    BY <2>1 DEF Robbed
  <2>3. \A g \in Handles \ {h} : handle'[g] \in Owners => blame'[g] # {}
    BY <1>1, <2>1, RobbedOwners
  <2>4. Unrivalled'
    BY <1>1, <2>1, <2>2 DEF IInv, Unrivalled, Taking
  <2>5. Judged'
    BY <1>1, <2>1, <2>2, <2>3 DEF IInv, Judged, Unrivalled, Taking, Owners
  <2>6. OwnerIsNamed'
    BY <1>1, <2>1, <2>3 DEF OwnerIsNamed, Owners
  <2> QED BY <1>1, <2>4, <2>5, <2>6 DEF IInv
<1>6. \/ Open(h) \/ GiveUp(h) \/ Throw(h) \/ Close(h)
      \/ Pass(h)
      \/ Take(h) \/ Name(h)
      \/ Unlink(h)
  BY DEF HandleAction
<1> QED BY <1>2, <1>3, <1>4, <1>5, <1>6

\* A process that dies takes its handles with it; a launch changes none.
LEMMA ProcessStep ==
  ASSUME IInv, NEW p \in Pids, Die(p) \/ Launch(p)
  PROVE  IInv'
<1>1. /\ lock' = lock /\ blame' = blame
      /\ \A h \in Handles : handle'[h] = handle[h] \/ handle'[h] = "closed"
      /\ handle' \in [Handles -> {"closed", "writer", "readonly"} \cup Inside]
  BY DEF Die, Launch, IInv, TypeOK
<1>2. \A h \in Handles : handle'[h] # "closed" => ProcessOf[h] \in alive'
  BY DEF Die, Launch, IInv, TypeOK, Runs
<1>3. TypeOK'
  BY <1>1, <1>2 DEF Die, Launch, IInv, TypeOK, Runs
<1>4. OneThread' /\ Unrivalled'
  BY <1>1 DEF IInv, OneThread, Unrivalled, Inside, Taking
<1>5. Judged' /\ OwnerIsNamed'
  BY <1>1 DEF IInv, Judged, OwnerIsNamed, Taking, Owners
<1> QED BY <1>3, <1>4, <1>5 DEF IInv

LEMMA InvariantHolds == Spec => []IInv
<1>1. Init => IInv
  BY LockAssumption DEF Init, IInv, TypeOK, OneThread, Unrivalled, Judged, OwnerIsNamed,
     Inside, Taking, Owners, Runs
<1>2. IInv /\ [Next]_vars => IInv'
  <2>1. ASSUME IInv, NEW h \in Handles, HandleAction(h) PROVE IInv'
    BY <2>1, HandleStep
  <2>2. ASSUME IInv, NEW p \in Pids, Die(p) \/ Launch(p) PROVE IInv'
    BY <2>2, ProcessStep
  <2>3. ASSUME IInv, UNCHANGED vars PROVE IInv'
    BY <2>3 DEF vars, IInv, TypeOK, OneThread, Unrivalled, Judged, OwnerIsNamed, Runs
  <2> QED BY <2>1, <2>2, <2>3 DEF Next, HandleAction
<1> QED BY <1>1, <1>2, PTL DEF Spec

\* At most one process writes, but for handles that raced for the lock or shared it.
THEOREM WriterIsUnique == Spec => []OneWriter
<1>1. IInv => OneWriter
  BY DEF IInv, OwnerIsNamed, Owners, OneWriter
<1> QED BY <1>1, InvariantHolds, PTL

\* The lock file names such a writer for as long as it writes, through the closes,
\* takeovers and failures of every other process.
THEOREM WriterStaysNamed == Spec => []WriterIsNamed
<1>1. IInv => WriterIsNamed
  BY DEF IInv, OwnerIsNamed, Owners, WriterIsNamed
<1> QED BY <1>1, InvariantHolds, PTL
=============================================================================
