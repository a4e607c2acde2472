-------------------------- MODULE Maintenance_proofs --------------------------
(***************************************************************************)
(* Maintenance plans, for every plan, any number of people deciding,       *)
(* revising and applying at once, and any number of runs and crashes: what *)
(* an apply writes has been approved, a plan retired while nobody was at   *)
(* work on it writes nothing any more, an item's row tells what its files  *)
(* and the journal hold, a plan that is over leaves nothing half-way, and  *)
(* a pause counts only what was rolled back.                               *)
(***************************************************************************)
EXTENDS DreamRun_proofs

\* Where a call is after it has looked whether the item is its own.
Inside == {"mend", "write", "restore", "index", "verify", "undo", "reindex"}

\* An approval that stands is of the item's revision.
Assented == \A i \in Items \ blame :
  item[i].status \in {"approved", "applying"} => assent[i] = item[i].rev

\* Where a call stands fits the row it has read, and the row of the item it writes.
Stands(c) ==
  /\ call[c].pc = "check" => call[c].seen[At(c)].status = "approved"
  /\ call[c].pc = "recover" => call[c].seen[At(c)].status = "applying"
  /\ call[c].pc = "resume" => call[c].seen[At(c)].status = "verification_pending"
  /\ call[c].pc \in {"mend", "write"} /\ At(c) \notin blame =>
       item[At(c)].status = "applying" /\ item[At(c)].rev = Rev(c)

\* Two calls inside one item have reached into it.
Alone == \A c, d \in Calls :
  c # d /\ call[c].pc \in Inside /\ call[d].pc \in Inside /\ At(c) = At(d) => At(c) \in blame

CuratesAuto == dream.pc = "curating" => dream.todo \subseteq AutoItems

Assent == Assented /\ (\A c \in Calls : Stands(c)) /\ Alone /\ CuratesAuto

\* What the step of an apply call does to its item, and leaves to the others.
Touch(c) ==
  /\ \A j \in Items \ {At(c)} : item'[j] = item[j]
  /\ \A d \in Calls \ {c} : call'[d] = call[d]
  /\ blame \subseteq blame' /\ assent' = assent
  /\ At(c) \notin blame' =>
       /\ item'[At(c)].status \in {"approved", "applying"} => assent[At(c)] = item'[At(c)].rev
       /\ call[c].pc \notin Inside => \A d \in Live \ {c} : At(d) # At(c)
  /\ call'[c].pc \in Inside => call'[c].at = At(c)
  /\ Stands(c)'

LEMMA InsideLives ==
  ASSUME NEW d \in Calls, call[d].pc \in Inside
  PROVE  d \in Live
BY DEF Inside, Live

LEMMA TouchAssents ==
  ASSUME Assent, PlanInv, NEW c \in Calls, Touch(c), UNCHANGED dream
  PROVE  Assent'
<1> DEFINE i == At(c)
<1>1. Assented'
  <2> SUFFICES ASSUME NEW j \in Items \ blame', item'[j].status \in {"approved", "applying"}
               PROVE  assent'[j] = item'[j].rev
    BY DEF Assented
  <2>1. CASE j = i
    BY <2>1 DEF Touch
  <2>2. CASE j # i
    BY <2>2 DEF Touch, Assent, Assented
  <2> QED BY <2>1, <2>2
\* Another call inside the item is there with blame.
<1>2. ASSUME NEW d \in Calls \ {c}, call[d].pc \in Inside, At(d) = i
      PROVE  i \in blame' /\ (call[c].pc \in Inside => i \in blame)
  BY <1>2, InsideLives DEF Touch, Assent, Alone
<1>3. ASSUME NEW d \in Calls PROVE Stands(d)'
  <2>1. CASE d = c
    BY <2>1 DEF Touch
  <2>2. CASE d # c
    <3>1. call'[d] = call[d] /\ At(d)' = At(d) /\ Rev(d)' = Rev(d) /\ Stands(d)
      BY <2>2 DEF Touch, Assent, At, Rev
    <3>2. ASSUME call[d].pc \in {"mend", "write"}, At(d) \notin blame'
          PROVE  item'[At(d)].status = "applying" /\ item'[At(d)].rev = Rev(d)
      <4>1. At(d) # i
        BY <1>2, <2>2, <3>2 DEF Inside
      <4>2. At(d) \notin blame
        BY <3>2 DEF Touch
      <4>3. item[At(d)].status = "applying" /\ item[At(d)].rev = Rev(d)
        BY <3>1, <3>2, <4>2 DEF Stands
      <4>4. At(d) \in Items
        BY <3>2, AtWork DEF Idling
      <4>5. item'[At(d)] = item[At(d)]
        BY <4>1, <4>4 DEF Touch
      <4> QED BY <4>3, <4>5
    <3> QED BY <3>1, <3>2 DEF Stands
  <2> QED BY <2>1, <2>2
<1>4. Alone'
  <2> SUFFICES ASSUME NEW d \in Calls, NEW e \in Calls, d # e, call'[d].pc \in Inside, call'[e].pc \in Inside,
                      call'[d].at = call'[e].at
               PROVE  call'[d].at \in blame'
    BY DEF Alone, At
  <2>1. CASE d # c /\ e # c
    BY <2>1 DEF Touch, Assent, Alone, At
  <2>2. CASE d = c
    <3>1. call'[e] = call[e] /\ call'[c].at = i
      BY <2>2 DEF Touch
    <3>2. e \in Calls \ {c} /\ call[e].pc \in Inside /\ At(e) = i
      BY <2>2, <3>1 DEF At
    <3> QED BY <1>2, <2>2, <3>1, <3>2
  <2>3. CASE e = c
    <3>1. call'[d] = call[d] /\ call'[c].at = i
      BY <2>3 DEF Touch
    <3>2. d \in Calls \ {c} /\ call[d].pc \in Inside /\ At(d) = i
      BY <2>3, <3>1 DEF At
    <3> QED BY <1>2, <2>3, <3>1, <3>2
  <2> QED BY <2>1, <2>2, <2>3
<1>5. CuratesAuto'
  BY DEF Assent, CuratesAuto
<1> QED BY <1>1, <1>3, <1>4, <1>5 DEF Assent

\* Steps that rewrite rows nobody is writing, and calls that end or begin.
LEMMA RowsAssent ==
  ASSUME Assent, PlanInv, blame \subseteq blame',
         \A c \in Calls : call'[c] = call[c] \/ (call'[c].pc \notin Inside /\ Stands(c)'),
         \A i \in Items \ blame' :
           \/ item'[i] = item[i] /\ assent'[i] = assent[i]
           \/ /\ item[i].status # "applying"
              /\ item'[i].status \in {"approved", "applying"} => assent'[i] = item'[i].rev,
         CuratesAuto'
  PROVE  Assent'
<1>1. Assented'
  BY DEF Assent, Assented
<1>2. ASSUME NEW c \in Calls PROVE Stands(c)'
  <2>1. CASE Stands(c)'
    BY <2>1
  <2>2. CASE call'[c] = call[c]
    <3>1. At(c)' = At(c) /\ Rev(c)' = Rev(c) /\ Stands(c)
      BY <2>2 DEF At, Rev, Assent
    <3>2. ASSUME call[c].pc \in {"mend", "write"}, At(c) \notin blame'
          PROVE  item'[At(c)].status = "applying" /\ item'[At(c)].rev = Rev(c)
      <4>1. At(c) \in Items
        BY <3>2, AtWork DEF Idling
      <4>2. item[At(c)].status = "applying" /\ item[At(c)].rev = Rev(c)
        BY <3>1, <3>2 DEF Stands
      <4> QED BY <3>2, <4>1, <4>2
    <3> QED BY <2>2, <3>1, <3>2 DEF Stands
  <2> QED BY <2>1, <2>2
<1>3. Alone'
  <2> SUFFICES ASSUME NEW d \in Calls, NEW e \in Calls, d # e, call'[d].pc \in Inside, call'[e].pc \in Inside,
                      call'[d].at = call'[e].at
               PROVE  call'[d].at \in blame'
    BY DEF Alone, At
  <2>1. call'[d] = call[d] /\ call'[e] = call[e]
    OBVIOUS
  <2> QED BY <2>1 DEF Assent, Alone, At
<1> QED BY <1>1, <1>2, <1>3 DEF Assent

-----------------------------------------------------------------------------
(* The steps of an apply call *)

\* The rows an apply writes.
LEMMA RowFacts ==
  ASSUME item \in [Items -> Row], NEW i \in Items, NEW s, NEW proof
  PROVE  /\ Marked(i, s, proof)[i].status = s /\ Marked(i, s, proof)[i].rev = item[i].rev
         /\ \A j \in Items \ {i} : Marked(i, s, proof)[j] = item[j]
         /\ Blocked(i)[i].status = "blocked" /\ \A j \in Items \ {i} : Blocked(i)[j] = item[j]
<1> DEFINE a == [item EXCEPT ![i].status = s]
           b == [item EXCEPT ![i].status = "blocked"]
<1>1. /\ DOMAIN a = Items /\ a[i].status = s /\ a[i].rev = item[i].rev /\ DOMAIN a[i] = DOMAIN item[i]
      /\ \A j \in Items \ {i} : a[j] = item[j]
  BY DEF Row
<1>2. DOMAIN b = Items /\ b[i].status = "blocked" /\ \A j \in Items \ {i} : b[j] = item[j]
  BY DEF Row
<1>3. Marked(i, s, proof) = [a EXCEPT ![i].proof = proof] /\ Blocked(i) = [b EXCEPT ![i].over = FALSE]
  BY DEF Marked, Blocked
<1> HIDE DEF a, b
<1> QED BY <1>1, <1>2, <1>3

\* The other calls are where they were; what a step does not do to the history.
Quiet(c) ==
  /\ blame \subseteq blame' /\ assent' = assent
  /\ call[c].pc \notin Inside /\ At(c) \notin blame' => \A d \in Live \ {c} : At(d) # At(c)

\* The call is done with its item.
LEMMA LeaveTouches ==
  ASSUME PlanInv, NEW c \in Calls, call[c].pc \notin Idling, NEW rows, Proceed(c, rows) \/ Throw(c, rows),
         \A j \in Items \ {At(c)} : rows[j] = item[j],
         rows[At(c)].status \notin {"approved", "applying"}, Quiet(c)
  PROVE  Touch(c)
<1> DEFINE later == {j \in call[c].only : j > At(c) /\ call[c].seen[j].status \in Open}
<1>1. item' = rows /\ \A d \in Calls \ {c} : call'[d] = call[d]
  BY Others DEF Proceed, Throw
<1>2. call \in [Calls -> CallType] /\ call[c] \in CallType /\ At(c) \in Items
  BY Typed
<1>3. call'[c].pc \notin Inside /\ Stands(c)'
  <2>1. CASE \E pc \in Idling : call' = [call EXCEPT ![c] = Ended(c, pc)]
    <3>1. PICK pc \in Idling : call' = [call EXCEPT ![c] = Ended(c, pc)]
      BY <2>1
    <3>2. call'[c].pc \in Idling
      BY <1>2, <3>1 DEF Ended, Idle
    <3> QED BY <3>2 DEF Stands, Inside, Idling
  <2>2. CASE later # {} /\ Proceed(c, rows)
    <3> DEFINE m == Min(later)
               pc == Entry(call[c].seen[m].status)
               cl == [call[c] EXCEPT !.pc = pc, !.at = m, !.k = 0, !.left = {}, !.seen[At(c)] = NewRow]
    <3>1. call' = [call EXCEPT ![c] = cl]
      BY <2>2 DEF Proceed
    <3>2. later \subseteq Items /\ Items \subseteq Nat
      BY <1>2, OpsFacts DEF CallType
    <3>3. m \in later /\ m \in Nat /\ At(c) \in Nat
      BY <1>2, <2>2, <3>2, MinIn
    <3> HIDE DEF m
    <3>4. m # At(c) /\ m \in Items
      BY <3>2, <3>3
    <3>o. call[c].seen[m].status \in Open
      BY <3>3
    <3> HIDE DEF later
    <3>5. cl.pc = pc /\ cl.at = m /\ cl.seen[m] = call[c].seen[m]
      <4>1. call[c].seen \in [Items -> Row]
        BY <1>2 DEF CallType
      <4> HIDE DEF pc
      <4> QED BY <1>2, <3>4, <4>1 DEF CallType
    <3>6. /\ pc \in {"check", "recover", "resume"}
          /\ pc = "check" => call[c].seen[m].status = "approved"
          /\ pc = "recover" => call[c].seen[m].status = "applying"
          /\ pc = "resume" => call[c].seen[m].status = "verification_pending"
      BY <3>o DEF Entry, Open
    <3>7. call'[c] = cl
      BY <1>2, <3>1
    <3> HIDE DEF cl, pc
    <3> QED BY <3>5, <3>6, <3>7 DEF Stands, Inside, At
  <2>3. later = {} /\ Proceed(c, rows) => \E pc \in Idling : call' = [call EXCEPT ![c] = Ended(c, pc)]
    BY DEF Proceed, Idling
  <2>4. Throw(c, rows) => \E pc \in Idling : call' = [call EXCEPT ![c] = Ended(c, pc)]
    BY DEF Throw, Idling
  <2> QED BY <2>1, <2>2, <2>3, <2>4
<1> QED BY <1>1, <1>3 DEF Touch, Quiet

\* The call goes on with its item, which it has read again.
LEMMA ContinueTouches ==
  ASSUME PlanInv, NEW c \in Calls, call[c].pc \notin Idling, NEW rows, NEW left,
         NEW pc \in {"check", "mend", "resume", "index"}, Continue(c, pc, rows, left),
         \A j \in Items \ {At(c)} : rows[j] = item[j], Quiet(c),
         pc = "check" => rows[At(c)].status = "approved",
         pc = "resume" => rows[At(c)].status = "verification_pending",
         pc = "mend" /\ At(c) \notin blame' => rows[At(c)].status = "applying",
         At(c) \notin blame' /\ rows[At(c)].status \in {"approved", "applying"} =>
           assent[At(c)] = rows[At(c)].rev
  PROVE  Touch(c)
<1> DEFINE seen == [call[c].seen EXCEPT ![At(c)] = rows[At(c)]]
           cl == [call[c] EXCEPT !.pc = pc, !.left = left, !.seen = seen]
<1>1. item' = rows /\ call' = [call EXCEPT ![c] = cl] /\ \A d \in Calls \ {c} : call'[d] = call[d]
  BY Others DEF Continue
<1>2. call \in [Calls -> CallType] /\ call[c] \in CallType /\ At(c) \in Items /\ call[c].seen \in [Items -> Row]
  BY Typed DEF CallType
<1>3. seen[At(c)] = rows[At(c)]
  BY <1>2
<1> HIDE DEF seen
<1>4. call'[c].pc = pc /\ call'[c].at = At(c) /\ call'[c].seen = seen
  BY <1>1, <1>2 DEF CallType, At
<1> HIDE DEF cl
<1>5. Stands(c)'
  BY <1>1, <1>3, <1>4 DEF Stands, At, Rev
<1> QED BY <1>1, <1>4, <1>5 DEF Touch, Quiet

\* The call goes on inside its item, whose row keeps its status and revision.
LEMMA MoveTouches ==
  ASSUME Assent, PlanInv, NEW c \in Calls, call[c].pc \in Inside, NEW cl, call' = [call EXCEPT ![c] = cl],
         cl.at = At(c), cl.pc \in Inside \ {"mend"},
         cl.pc = "write" => call[c].pc = "write" /\ cl.seen = call[c].seen,
         \A j \in Items \ {At(c)} : item'[j] = item[j],
         item'[At(c)].status = item[At(c)].status, item'[At(c)].rev = item[At(c)].rev,
         blame \subseteq blame', assent' = assent
  PROVE  Touch(c)
<1>1. call \in [Calls -> CallType] /\ At(c) \in Items /\ \A d \in Calls \ {c} : call'[d] = call[d]
  BY Typed, Others DEF Inside, Idling
<1>2. call'[c] = cl
  BY <1>1
<1>3. Stands(c)'
  BY <1>1, <1>2 DEF Assent, Stands, At, Rev, Inside
<1>4. At(c) \notin blame /\ item[At(c)].status \in {"approved", "applying"} => assent[At(c)] = item[At(c)].rev
  BY <1>1 DEF Assent, Assented
<1> QED BY <1>1, <1>2, <1>3, <1>4 DEF Touch

\* A call that enters its item without blame has read the row it finds, alone.
LEMMA EnterQuiet ==
  ASSUME NEW c \in Calls, Enter(c), assent' = assent
  PROVE  Quiet(c) /\ (At(c) \notin blame' => At(c) \notin blame /\ item[At(c)] = call[c].seen[At(c)])
BY DEF Enter, Overlapped, Quiet

LEMMA InsideQuiet ==
  ASSUME NEW c \in Calls, call[c].pc \in Inside, blame \subseteq blame', assent' = assent
  PROVE  Quiet(c)
BY DEF Quiet

LEMMA RecoverTouches ==
  ASSUME Assent, PlanInv, NEW c \in Calls, Recover(c)
  PROVE  Touch(c)
<1> DEFINE i == At(c)
           r == Rev(c)
<1>1. call[c].pc = "recover" /\ call[c].pc \notin Idling /\ Enter(c) /\ assent' = assent
  BY DEF Recover, Idling
<1>2. i \in Items /\ item \in [Items -> Row]
  BY <1>1, AtWork
<1>3. Quiet(c) /\ (i \notin blame' => i \notin blame /\ item[i] = call[c].seen[i])
  BY <1>1, EnterQuiet
<1>4. i \notin blame' => item[i].status = "applying" /\ assent[i] = item[i].rev
  BY <1>1, <1>2, <1>3 DEF Assent, Assented, Stands
<1>5. CASE Continue(c, "check", Marked(i, "approved", "none"), {})
  BY <1>1, <1>2, <1>3, <1>4, <1>5, RowFacts, ContinueTouches
<1>6. CASE Proceed(c, Marked(i, "verification_failed", "failed"))
  BY <1>1, <1>2, <1>3, <1>6, RowFacts, LeaveTouches
<1>7. CASE \E left : Continue(c, "mend", item, left)
  BY <1>1, <1>2, <1>3, <1>4, <1>7, ContinueTouches
<1>8. CASE \E n : Continue(c, "resume", [Marked(i, "verification_pending", "pending") EXCEPT ![i].change = n], {})
  <2>1. PICK n : Continue(c, "resume", [Marked(i, "verification_pending", "pending") EXCEPT ![i].change = n], {})
    BY <1>8
  <2> DEFINE marked == Marked(i, "verification_pending", "pending")
             rows == [marked EXCEPT ![i].change = n]
  <2>2. marked[i].status = "verification_pending" /\ \A j \in Items \ {i} : marked[j] = item[j]
    BY <1>2, RowFacts
  <2>3. DOMAIN marked = Items
    BY <1>2 DEF Marked
  <2>d. i \in DOMAIN marked /\ DOMAIN marked[i] = DOMAIN item[i] /\ "status" \in DOMAIN item[i]
    BY <1>2, <2>3 DEF Marked, Row
  <2>4. Continue(c, "resume", rows, {})
    BY <2>1
  <2> HIDE DEF marked
  <2>5. rows[i].status = "verification_pending" /\ \A j \in Items \ {i} : rows[j] = item[j]
    BY <1>2, <2>2, <2>3, <2>d
  <2> HIDE DEF rows
  <2> QED BY <1>1, <1>3, <2>4, <2>5, ContinueTouches
<1>9. ASSUME LET known == IF call[c].seen[i].change # 0 THEN {call[c].seen[i].change} ELSE Matching(i, r)
                 rows(n) == [Marked(i, "verification_pending", "pending") EXCEPT ![i].change = n]
             IN IF known # {}
                THEN Continue(c, "resume", rows(Max(known)), {}) /\ UNCHANGED changes
                ELSE Continue(c, "resume", rows(Len(changes) + 1), {}) /\ changes' = Recorded(i, r)
      PROVE  \E n : Continue(c, "resume", [Marked(i, "verification_pending", "pending") EXCEPT ![i].change = n], {})
  <2> DEFINE known == IF call[c].seen[i].change # 0 THEN {call[c].seen[i].change} ELSE Matching(i, r)
  <2> HIDE DEF i, r
  <2>1. CASE known # {}
    BY <1>9, <2>1
  <2>2. CASE known = {}
    BY <1>9, <2>2
  <2> QED BY <2>1, <2>2
<1> QED BY <1>5, <1>6, <1>7, <1>8, <1>9 DEF Recover

LEMMA MendTouches ==
  ASSUME Assent, PlanInv, NEW c \in Calls, Mend(c) \/ Mended(c)
  PROVE  Touch(c)
<1> DEFINE i == At(c)
<1>1. call[c].pc = "mend" /\ call[c].pc \notin Idling /\ Quiet(c) /\ blame \subseteq blame'
  BY InsideQuiet DEF Mend, Mended, Put, NoPut, Idling, Inside, history
<1>2. i \in Items /\ item \in [Items -> Row]
  BY <1>1, AtWork
<1>3. i \notin blame' => item[i].status = "applying" /\ assent[i] = item[i].rev
  BY <1>1, <1>2 DEF Assent, Assented, Stands
<1>4. CASE \E left : Continue(c, "mend", item, left)
  BY <1>1, <1>2, <1>3, <1>4, ContinueTouches
<1>5. CASE Throw(c, Marked(i, "verification_failed", "failed"))
  BY <1>1, <1>2, <1>5, RowFacts, LeaveTouches
<1>6. CASE Continue(c, "check", Marked(i, "approved", "none"), {})
  BY <1>1, <1>2, <1>3, <1>6, RowFacts, ContinueTouches
<1> QED BY <1>4, <1>5, <1>6 DEF Mend, Mended

LEMMA CheckTouches ==
  ASSUME Assent, PlanInv, NEW c \in Calls, Check(c)
  PROVE  Touch(c)
<1> DEFINE i == At(c)
<1>1. call[c].pc = "check" /\ call[c].pc \notin Idling /\ Enter(c) /\ assent' = assent
  BY DEF Check, Idling
<1>2. i \in Items /\ item \in [Items -> Row] /\ call \in [Calls -> CallType] /\ call[c] \in CallType
  BY <1>1, Typed
<1>3. Quiet(c) /\ (i \notin blame' => i \notin blame /\ item[i] = call[c].seen[i])
  BY <1>1, EnterQuiet
<1>4. i \notin blame' => item[i].status = "approved" /\ assent[i] = item[i].rev /\ item[i].rev = Rev(c)
  BY <1>1, <1>2, <1>3 DEF Assent, Assented, Stands, Rev
<1>5. CASE Proceed(c, Marked(i, "stale", "failed")) \/ Proceed(c, Blocked(i))
  BY <1>1, <1>2, <1>3, <1>5, RowFacts, LeaveTouches
<1>6. CASE Proceed(c, [Marked(i, "proposed", "none") EXCEPT ![i].over = TRUE])
  <2> DEFINE marked == Marked(i, "proposed", "none")
             rows == [marked EXCEPT ![i].over = TRUE]
  <2>1. marked[i].status = "proposed" /\ \A j \in Items \ {i} : marked[j] = item[j]
    BY <1>2, RowFacts
  <2>2. i \in DOMAIN marked /\ DOMAIN marked = Items /\ "status" \in DOMAIN marked[i]
    BY <1>2 DEF Marked, Row
  <2>3. Proceed(c, rows)
    BY <1>6
  <2> HIDE DEF marked
  <2>4. rows[i].status = "proposed" /\ \A j \in Items \ {i} : rows[j] = item[j]
    BY <2>1, <2>2
  <2> HIDE DEF rows
  <2> QED BY <1>1, <1>3, <2>3, <2>4, LeaveTouches
<1>7. CASE /\ item' = Marked(i, "applying", "none")
           /\ call' = [call EXCEPT ![c].pc = "write", ![c].k = 0, ![c].spent = call[c].spent \cup {i}]
  <2>1. /\ item'[i].status = "applying" /\ item'[i].rev = item[i].rev
        /\ \A j \in Items \ {i} : item'[j] = item[j]
    BY <1>2, <1>7, RowFacts
  <2>2. \A d \in Calls \ {c} : call'[d] = call[d]
    BY <1>2, <1>7
  <2>3. call'[c].pc = "write" /\ call'[c].at = i /\ call'[c].seen = call[c].seen
    BY <1>2, <1>7 DEF CallType, At
  <2>4. Stands(c)'
    BY <1>4, <2>1, <2>3 DEF Stands, At, Rev
  <2> QED BY <1>3, <1>4, <2>1, <2>2, <2>3, <2>4 DEF Touch, Quiet
<1> QED BY <1>5, <1>6, <1>7 DEF Check

\* Only the place of the call inside its item changes.
LEMMA InsideTouches ==
  ASSUME Assent, PlanInv, NEW c \in Calls, call[c].pc \in Inside, UNCHANGED <<item, assent>>,
         blame \subseteq blame', NEW pc \in {"restore", "index", "verify", "undo", "reindex"}, NEW left,
         \/ call' = [call EXCEPT ![c].pc = pc]
         \/ call' = [call EXCEPT ![c].pc = pc, ![c].left = left]
         \/ call' = [call EXCEPT ![c].left = left] /\ call[c].pc = pc
  PROVE  Touch(c)
<1>1. call \in [Calls -> CallType] /\ call[c] \in CallType
  BY Typed DEF Inside, Idling
<1>2. \A d \in Calls \ {c} : call'[d] = call[d]
  BY <1>1
<1>3. call' = [call EXCEPT ![c] = call'[c]] /\ call'[c].pc = pc /\ call'[c].at = At(c)
  BY <1>1 DEF CallType, At
<1>4. pc \in Inside \ {"mend"} /\ pc # "write"
  BY DEF Inside
<1>5. Stands(c)'
  BY <1>3, <1>4 DEF Stands
<1>6. At(c) \in Items
  BY Typed DEF Inside, Idling
<1>7. At(c) \notin blame /\ item[At(c)].status \in {"approved", "applying"} => assent[At(c)] = item[At(c)].rev
  BY <1>6 DEF Assent, Assented
<1> QED BY <1>2, <1>3, <1>4, <1>5, <1>7 DEF Touch

LEMMA WriteTouches ==
  ASSUME Assent, PlanInv, NEW c \in Calls, Write(c)
  PROVE  Touch(c)
<1>1. call[c].pc = "write" /\ call[c].pc \in Inside /\ UNCHANGED <<item, assent>> /\ blame \subseteq blame'
  BY DEF Write, Put, NoPut, Inside
<1>2. call \in [Calls -> CallType] /\ call[c] \in CallType
  BY <1>1, Typed DEF Idling
<1>3. CASE call' = [call EXCEPT ![c].k = call[c].k + 1]
  <2> DEFINE cl == [call[c] EXCEPT !.k = call[c].k + 1]
  <2>1. call' = [call EXCEPT ![c] = cl]
    BY <1>3
  <2>2. cl.pc = "write" /\ cl.at = At(c) /\ cl.seen = call[c].seen
    BY <1>1, <1>2 DEF CallType, At
  <2> HIDE DEF cl
  <2> QED BY <1>1, <2>1, <2>2, MoveTouches DEF Inside
<1>4. CASE call' = [call EXCEPT ![c].pc = "restore", ![c].left = 1 .. call[c].k]
  BY <1>1, <1>4, InsideTouches
<1> QED BY <1>3, <1>4 DEF Write

LEMMA RecordTouches ==
  ASSUME Assent, PlanInv, NEW c \in Calls, Record(c)
  PROVE  Touch(c)
<1> DEFINE i == At(c)
           n == Len(changes) + 1
<1>1. call[c].pc = "write" /\ call[c].pc \in Inside /\ call[c].pc \notin Idling /\ UNCHANGED <<blame, assent>>
  BY DEF Record, Inside, Idling, history
<1>2. call \in [Calls -> CallType] /\ call[c] \in CallType /\ i \in Items /\ item \in [Items -> Row]
  BY <1>1, Typed
<1>3. CASE /\ item' = [item EXCEPT ![i].change = n]
           /\ call' = [call EXCEPT ![c].pc = "index", ![c].seen[i].change = n]
  <2>1. /\ item'[i].status = item[i].status /\ item'[i].rev = item[i].rev
        /\ \A j \in Items \ {i} : item'[j] = item[j]
    BY <1>2, <1>3 DEF Row
  <2> DEFINE seen == [call[c].seen EXCEPT ![i].change = n]
             cl == [call[c] EXCEPT !.pc = "index", !.seen = seen]
  <2>2. call' = [call EXCEPT ![c] = cl]
    BY <1>2, <1>3
  <2> HIDE DEF seen
  <2>3. cl.pc = "index" /\ cl.at = At(c)
    BY <1>2 DEF CallType, At
  <2> HIDE DEF cl
  <2> QED BY <1>1, <2>1, <2>2, <2>3, MoveTouches DEF Inside
<1>4. CASE /\ call' = [call EXCEPT ![c].pc = "restore", ![c].left = DOMAIN Ops[i]]
           /\ UNCHANGED item
  BY <1>1, <1>4, InsideTouches
<1> QED BY <1>3, <1>4 DEF Record

\* A step that either stays inside the item or is done with it.
LEMMA EndTouches ==
  ASSUME Assent, PlanInv, NEW c \in Calls, call[c].pc \in Inside, blame \subseteq blame', assent' = assent,
         NEW s \in ItemStatus \ {"approved", "applying"}, NEW proof,
         LET rows == Marked(At(c), s, proof) IN
           \/ Proceed(c, rows) \/ Throw(c, rows) \/ Proceed(c, Blocked(At(c)))
  PROVE  Touch(c)
<1>1. call[c].pc \notin Idling /\ Quiet(c)
  BY InsideQuiet DEF Inside, Idling
<1>2. At(c) \in Items /\ item \in [Items -> Row]
  BY <1>1, AtWork
<1>3. CASE Proceed(c, Marked(At(c), s, proof)) \/ Throw(c, Marked(At(c), s, proof))
  BY <1>1, <1>2, <1>3, RowFacts, LeaveTouches
<1>4. CASE Proceed(c, Blocked(At(c)))
  BY <1>1, <1>2, <1>4, RowFacts, LeaveTouches
<1> QED BY <1>3, <1>4

LEMMA RestoreTouches ==
  ASSUME Assent, PlanInv, NEW c \in Calls, Restore(c) \/ GiveUp(c)
  PROVE  Touch(c)
<1>1. call[c].pc = "restore" /\ call[c].pc \in Inside /\ blame \subseteq blame' /\ assent' = assent
  BY DEF Restore, GiveUp, Put, NoPut, Inside, history
<1>2. CASE UNCHANGED item /\ \E left : call' = [call EXCEPT ![c].left = left]
  BY <1>1, <1>2, InsideTouches
<1>3. CASE Throw(c, Marked(At(c), "verification_failed", "failed")) \/ Proceed(c, Blocked(At(c)))
  BY <1>1, <1>3, EndTouches DEF ItemStatus
<1> QED BY <1>2, <1>3 DEF Restore, GiveUp

LEMMA ResumeTouches ==
  ASSUME Assent, PlanInv, NEW c \in Calls, Resume(c)
  PROVE  Touch(c)
<1> DEFINE i == At(c)
<1>1. call[c].pc = "resume" /\ call[c].pc \notin Idling /\ Enter(c) /\ assent' = assent
  BY DEF Resume, Idling
<1>2. i \in Items /\ item \in [Items -> Row]
  BY <1>1, AtWork
<1>3. Quiet(c) /\ (i \notin blame' => i \notin blame)
  BY <1>1, EnterQuiet
<1>4. i \notin blame' /\ item[i].status \in {"approved", "applying"} => assent[i] = item[i].rev
  BY <1>2, <1>3 DEF Assent, Assented
<1>5. CASE Continue(c, "index", item, {})
  BY <1>1, <1>2, <1>3, <1>4, <1>5, ContinueTouches
<1>6. CASE Proceed(c, Marked(i, "verification_failed", "failed"))
  BY <1>1, <1>2, <1>3, <1>6, RowFacts, LeaveTouches
<1> QED BY <1>5, <1>6 DEF Resume

LEMMA VerifyTouches ==
  ASSUME Assent, PlanInv, NEW c \in Calls, Index(c) \/ Verify(c)
  PROVE  Touch(c)
<1>1. call[c].pc \in {"index", "verify"} /\ call[c].pc \in Inside /\ UNCHANGED <<blame, assent>>
  BY DEF Index, Verify, Inside, history
<1>2. CASE call' = [call EXCEPT ![c].pc = "verify"] /\ UNCHANGED item
  BY <1>1, <1>2, InsideTouches
<1>3. CASE call' = [call EXCEPT ![c].pc = "undo", ![c].left = DOMAIN Ops[At(c)]] /\ UNCHANGED item
  BY <1>1, <1>3, InsideTouches
<1>4. CASE \/ Proceed(c, Marked(At(c), "verification_pending", "pending"))
           \/ Proceed(c, Marked(At(c), "applied", "passed"))
           \/ Proceed(c, Marked(At(c), "verification_failed", "failed"))
  BY <1>1, <1>4, EndTouches DEF ItemStatus
<1> QED BY <1>2, <1>3, <1>4 DEF Index, Verify

LEMMA UndoTouches ==
  ASSUME Assent, PlanInv, NEW c \in Calls, Undo(c) \/ Undone(c) \/ Reindex(c)
  PROVE  Touch(c)
<1>1. call[c].pc \in {"undo", "reindex"} /\ call[c].pc \in Inside /\ blame \subseteq blame' /\ assent' = assent
  BY DEF Undo, Undone, Reindex, Put, NoPut, Inside, history
<1>2. CASE UNCHANGED item /\ \E left : call' = [call EXCEPT ![c].left = left]
  BY <1>1, <1>2, InsideTouches
<1>3. CASE UNCHANGED item /\ call' = [call EXCEPT ![c].pc = "reindex"]
  BY <1>1, <1>3, InsideTouches
<1>4. CASE \/ Proceed(c, Marked(At(c), "verification_failed", "failed"))
           \/ Proceed(c, Marked(At(c), "verification_failed", "rolled_back"))
  BY <1>1, <1>4, EndTouches DEF ItemStatus
<1> QED BY <1>2, <1>3, <1>4 DEF Undo, Undone, Reindex

LEMMA ApplyStepAssents ==
  ASSUME Assent, PlanInv, NEW c \in Calls, ApplyStep(c), UNCHANGED dream
  PROVE  Assent'
<1>1. Touch(c)
  BY RecoverTouches, MendTouches, CheckTouches, WriteTouches, RecordTouches, RestoreTouches,
     ResumeTouches, VerifyTouches, UndoTouches DEF ApplyStep
<1> QED BY <1>1, TouchAssents

-----------------------------------------------------------------------------
(* Everything else *)

\* Calls begin; rows are decided, revised, blocked or left alone.
LEMMA BeginAssents ==
  ASSUME Assent, PlanInv, NEW c \in Calls, NEW only \in SUBSET Items, Begin(c, only),
         UNCHANGED <<item, blame, assent>>, CuratesAuto'
  PROVE  Assent'
<1> DEFINE open == {j \in only : item[j].status \in Open}
           m == Min(open)
           seen == [j \in Items |-> IF j \in only THEN item[j] ELSE NewRow]
           cl == [pc |-> Entry(item[m].status), at |-> m, k |-> 0, left |-> {}, only |-> only,
                  seen |-> seen, spent |-> call[c].spent]
<1>1. call' = [call EXCEPT ![c] = cl] /\ open # {} /\ call \in [Calls -> CallType]
  BY DEF Begin, Applicable, PlanInv, TypeOK
<1>2. m \in only /\ m \in Items
  <2>1. open \subseteq Items /\ Items \subseteq Nat
    BY OpsFacts
  <2>2. m \in open
    <3> HIDE DEF open
    <3> QED BY <1>1, <2>1, MinIn
  <2> QED BY <2>2
<1>o. item[m].status \in Open
  <2>1. open \subseteq Items /\ Items \subseteq Nat
    BY OpsFacts
  <2>2. m \in open
    <3> HIDE DEF open
    <3> QED BY <1>1, <2>1, MinIn
  <2> QED BY <2>2
<1> HIDE DEF m, open
<1>3. seen[m] = item[m]
  BY <1>2
<1> HIDE DEF seen
<1>4. call'[c] = cl /\ \A d \in Calls \ {c} : call'[d] = call[d]
  BY <1>1
<1>5. call'[c].pc \notin Inside /\ Stands(c)'
  BY <1>3, <1>4, <1>o DEF Stands, Inside, At, Entry, Open
<1> HIDE DEF cl
<1> QED BY <1>4, <1>5, RowsAssent

LEMMA DecideAssents ==
  ASSUME Assent, PlanInv, NEW i \in Items, NEW s \in {"approved", "rejected"}, NEW a, Decide(i, s, a),
         a = "human" \/ i \in AutoItems, CuratesAuto'
  PROVE  Assent'
<1>1. /\ item[i].status \in Decidable /\ item' = Decided(i, s) /\ UNCHANGED <<call, blame>>
      /\ assent' = [assent EXCEPT ![i] =
           IF s = "approved" /\ (a = "human" \/ i \in AutoItems) THEN item[i].rev ELSE 0]
  BY DEF Decide, CanDecide, Redecide
<1>2. item \in [Items -> Row] /\ assent \in [Items -> 0 .. MaxRevision]
  BY DEF PlanInv, TypeOK
<1>3. item'[i].status = s /\ item'[i].rev = item[i].rev /\ \A j \in Items \ {i} : item'[j] = item[j]
  <2> DEFINE b == [item EXCEPT ![i].status = s]
  <2>1. /\ DOMAIN b = Items /\ b[i].status = s /\ b[i].rev = item[i].rev /\ DOMAIN b[i] = DOMAIN item[i]
        /\ \A j \in Items \ {i} : b[j] = item[j]
    BY <1>2 DEF Row
  <2>2. item' = [b EXCEPT ![i].over = FALSE]
    BY <1>1 DEF Decided
  <2> HIDE DEF b
  <2> QED BY <2>1, <2>2
<1>4. item[i].status # "applying"
  BY <1>1 DEF Decidable
<1>5. /\ s = "approved" => assent'[i] = item[i].rev
      /\ \A j \in Items \ {i} : assent'[j] = assent[j]
  BY <1>1, <1>2
<1> QED BY <1>1, <1>3, <1>4, <1>5, RowsAssent

LEMMA SealAssents ==
  ASSUME Assent, PlanInv, NEW a \in Actors, draft[a] # NoDraft, Redecide(Revised(draft[a].at)), blame' = Late(a),
         assent' = [assent EXCEPT ![draft[a].at] = 0], UNCHANGED call, CuratesAuto'
  PROVE  Assent'
<1> DEFINE i == draft[a].at
<1>1. i \in Items /\ item \in [Items -> Row] /\ assent \in [Items -> 0 .. MaxRevision]
  BY DEF PlanInv, DraftsOK, TypeOK, Actors
<1>2. item' = [item EXCEPT ![i] = [NewRow EXCEPT !.rev = item[i].rev + 1]] /\ assent' = [assent EXCEPT ![i] = 0]
  BY DEF Redecide, Revised
<1>3. blame \subseteq blame' /\ (i \notin blame' => item[i].status \in Decidable)
  BY DEF Late
<1> HIDE DEF i
<1>4. item'[i].status = "proposed" /\ \A j \in Items \ {i} : item'[j] = item[j] /\ assent'[j] = assent[j]
  BY <1>1, <1>2 DEF NewRow
<1>5. i \notin blame' => item[i].status # "applying"
  BY <1>3 DEF Decidable
<1> QED BY <1>3, <1>4, <1>5, RowsAssent

\* A row that is blocked or found stale, and was decided.
Dropped(i, old, new) ==
  /\ old.status \in Decidable /\ new.status \in {"blocked", "stale"}
  /\ new.status = "stale" => ~All(i, old.rev, "before")
  /\ new.rev = old.rev /\ new.change = old.change
  /\ new.status = "blocked" => new.proof = old.proof

\* A step that drops rows, and says where it dropped one that was not decided.
Drops ==
  /\ item' \in [Items -> Row] /\ blame \subseteq blame'
  /\ \A j \in Items : item'[j].change = item[j].change /\ item'[j].proof \in {item[j].proof, "failed"}
  /\ \A j \in Items \ blame' : item'[j] = item[j] \/ Dropped(j, item[j], item'[j])

\* A run finds an item blocked, or stale.
Rewritten(i, rows) ==
  /\ \/ rows = Blocked(i)
     \/ rows = Marked(i, "stale", "failed") /\ ~All(i, item[i].rev, "before")
  /\ blame' = Crossed(i)

LEMMA CrossDrops ==
  ASSUME PlanInv, NEW i \in Items, NEW rows, Rewritten(i, rows)
  PROVE  /\ rows \in [Items -> Row] /\ rows[i].status \in {"blocked", "stale"} /\ blame \subseteq blame'
         /\ rows[i].change = item[i].change /\ rows[i].proof \in {item[i].proof, "failed"}
         /\ (i \notin blame' => Dropped(i, item[i], rows[i]))
         /\ \A j \in Items \ {i} : rows[j] = item[j]
<1>1. item \in [Items -> Row]
  BY DEF PlanInv, TypeOK
<1>2. Blocked(i) \in [Items -> Row] /\ Marked(i, "stale", "failed") \in [Items -> Row]
  BY <1>1, RowsTyped DEF ItemStatus, VerificationStatus
<1>3. blame \subseteq blame' /\ (i \notin blame' => item[i].status \in Decidable)
  BY DEF Rewritten, Crossed
<1>4. CASE rows = Blocked(i)
  <2> DEFINE row == [item[i] EXCEPT !.status = "blocked", !.over = FALSE]
  <2>1. rows[i] = row /\ \A j \in Items \ {i} : rows[j] = item[j]
    BY <1>1, <1>4 DEF Blocked, Row
  <2>2. row.status = "blocked" /\ row.rev = item[i].rev /\ row.change = item[i].change /\ row.proof = item[i].proof
    BY <1>1 DEF Row
  <2> HIDE DEF row
  <2> QED BY <1>2, <1>3, <1>4, <2>1, <2>2 DEF Dropped
<1>5. CASE rows = Marked(i, "stale", "failed") /\ ~All(i, item[i].rev, "before")
  <2> DEFINE row == [item[i] EXCEPT !.status = "stale", !.proof = "failed"]
  <2>1. rows[i] = row /\ \A j \in Items \ {i} : rows[j] = item[j]
    BY <1>1, <1>5 DEF Marked, Row
  <2>2. row.status = "stale" /\ row.rev = item[i].rev /\ row.change = item[i].change /\ row.proof = "failed"
    BY <1>1 DEF Row
  <2> HIDE DEF row
  <2> QED BY <1>2, <1>3, <1>5, <2>1, <2>2 DEF Dropped
<1> QED BY <1>4, <1>5 DEF Rewritten

\* Items in conflict are among the pending ones.
LEMMA DeferredDrops ==
  ASSUME NEW rows \in [Items -> Row], NEW i \in Items
  PROVE  \/ Deferred(rows)[i] = rows[i]
         \/ /\ rows[i].status \in {"proposed", "approved"} /\ Dropped(i, rows[i], Deferred(rows)[i])
            /\ Deferred(rows)[i].proof = rows[i].proof
<1>1. CASE i \notin Conflicting(rows)
  BY <1>1 DEF Deferred
<1>2. CASE i \in Conflicting(rows)
  <2> DEFINE row == [rows[i] EXCEPT !.status = "blocked", !.over = FALSE]
  <2>1. Deferred(rows)[i] = row
    BY <1>2 DEF Deferred
  <2>2. row.status = "blocked" /\ row.rev = rows[i].rev /\ row.change = rows[i].change /\ row.proof = rows[i].proof
    BY DEF Row
  <2>3. rows[i].status \in {"proposed", "approved"}
    BY <1>2 DEF Conflicting, Pending, Proposed
  <2> HIDE DEF row
  <2> QED BY <2>1, <2>2, <2>3 DEF Dropped, Decidable
<1> QED BY <1>1, <1>2

LEMMA SettleDrops ==
  ASSUME RunInv, Settle \/ SettleNothing
  PROVE  Drops
<1>1. item \in [Items -> Row] /\ dream \in DreamType
  BY DEF RunInv, RunsTyped, PlanInv, TypeOK
<1>2. PICK rows :
        /\ item' \in {rows, Deferred(rows)} /\ rows \in [Items -> Row] /\ blame \subseteq blame'
        /\ \A j \in Items : rows[j].change = item[j].change /\ rows[j].proof \in {item[j].proof, "failed"}
        /\ \A j \in Items : rows[j] # item[j] => rows[j].status \in {"blocked", "stale"}
        /\ \A j \in Items \ blame' : rows[j] = item[j] \/ Dropped(j, item[j], rows[j])
  <2>1. CASE SettleNothing
    BY <1>1, <2>1 DEF SettleNothing, Curate
  <2>2. CASE Settle
    <3> DEFINE i == Min(dream.todo)
    <3>1. i \in Items
      <4>1. dream.todo # {} /\ dream.todo \subseteq Items /\ Items \subseteq Nat
        BY <1>1, <2>2, OpsFacts DEF DreamType, Settle
      <4> QED BY <4>1, MinIn
    <3>2. PICK rows :
            /\ item' \in {rows, Deferred(rows)}
            /\ \/ rows = item /\ blame' = blame
               \/ Rewritten(i, rows)
      <4>1. PICK deferred \in BOOLEAN, rows \in {item, Blocked(i), Marked(i, "stale", "failed")} :
              /\ IF deferred
                 THEN rows = IF All(i, item[i].rev, "before") THEN Blocked(i) ELSE Marked(i, "stale", "failed")
                 ELSE rows = item
              /\ blame' = IF deferred THEN Crossed(i) ELSE blame
              /\ item' = rows \/ \E settled : Curate(rows, settled)
        BY <2>2 DEF Settle
      <4>2. (\E settled : Curate(rows, settled)) => item' = Deferred(rows)
        BY DEF Curate
      <4>3. CASE ~deferred
        BY <4>1, <4>2, <4>3
      <4>4. CASE deferred
        BY <4>1, <4>2, <4>4 DEF Rewritten
      <4> QED BY <4>3, <4>4
    <3> HIDE DEF i
    <3>3. CASE rows = item /\ blame' = blame
      BY <1>1, <3>2, <3>3
    <3>4. CASE Rewritten(i, rows)
      <4>1. /\ rows \in [Items -> Row] /\ rows[i].status \in {"blocked", "stale"} /\ blame \subseteq blame'
            /\ rows[i].change = item[i].change /\ rows[i].proof \in {item[i].proof, "failed"}
            /\ (i \notin blame' => Dropped(i, item[i], rows[i]))
            /\ \A j \in Items \ {i} : rows[j] = item[j]
        BY <3>1, <3>4, CrossDrops DEF RunInv
      <4> QED BY <3>2, <4>1
    <3> QED BY <3>2, <3>3, <3>4
  <2> QED BY <2>1, <2>2
<1>3. item' \in [Items -> Row]
  BY <1>2, DeferredTyped
<1>4. ASSUME NEW j \in Items \ blame' PROVE item'[j] = item[j] \/ Dropped(j, item[j], item'[j])
  <2>1. CASE item'[j] = rows[j]
    BY <1>2, <2>1
  <2>2. CASE rows[j].status \in {"proposed", "approved"} /\ Dropped(j, rows[j], item'[j])
    BY <1>2, <2>2
  <2>3. item'[j] = rows[j] \/ (rows[j].status \in {"proposed", "approved"} /\ Dropped(j, rows[j], item'[j]))
    BY <1>2, DeferredDrops
  <2> QED BY <2>1, <2>2, <2>3
<1>5. ASSUME NEW j \in Items PROVE item'[j].change = item[j].change /\ item'[j].proof \in {item[j].proof, "failed"}
  <2>1. item'[j] = rows[j] \/ (item'[j].change = rows[j].change /\ item'[j].proof = rows[j].proof)
    BY <1>2, DeferredDrops DEF Dropped
  <2> QED BY <1>2, <2>1
<1> QED BY <1>2, <1>3, <1>4, <1>5 DEF Drops

\* The curator has nothing to go by and blocks the item before it.
LEMMA CuratorDrops ==
  ASSUME RunInv, CuratorBlocks
  PROVE  Drops
<1>1. dream.pc = "curating" /\ item' = Blocked(Curated) /\ blame' = Crossed(Curated)
  BY DEF CuratorBlocks
<1>2. Curated \in Items
  BY <1>1, CuratedItem
<1>3. /\ item' \in [Items -> Row] /\ blame \subseteq blame'
      /\ item'[Curated].change = item[Curated].change /\ item'[Curated].proof \in {item[Curated].proof, "failed"}
      /\ Curated \notin blame' => Dropped(Curated, item[Curated], item'[Curated])
      /\ \A j \in Items \ {Curated} : item'[j] = item[j]
  BY <1>1, <1>2, CrossDrops DEF RunInv, Rewritten
<1> QED BY <1>2, <1>3 DEF Drops

LEMMA DropAssents ==
  ASSUME Assent, PlanInv, Drops, UNCHANGED <<call, assent>>, CuratesAuto'
  PROVE  Assent'
<1>1. \A i \in Items \ blame' :
        \/ item'[i] = item[i] /\ assent'[i] = assent[i]
        \/ /\ item[i].status # "applying"
           /\ item'[i].status \in {"approved", "applying"} => assent'[i] = item'[i].rev
  BY DEF Drops, Dropped, Decidable
<1> QED BY <1>1, RowsAssent DEF Drops

\* No row changes and no call goes on.
LEMMA StillAssents ==
  ASSUME Assent, PlanInv, UNCHANGED <<item, assent>>, blame \subseteq blame', CuratesAuto',
         \A c \in Calls : call'[c] = call[c] \/ call'[c].pc \in Idling
  PROVE  Assent'
<1>1. \A c \in Calls : call'[c] = call[c] \/ (call'[c].pc \notin Inside /\ Stands(c)')
  BY DEF Stands, Inside, Idling
<1> QED BY <1>1, RowsAssent

LEMMA PlanNextAssents ==
  ASSUME Assent, PlanInv, NEW busy, PlanNext(busy), UNCHANGED dream
  PROVE  Assent'
<1>1. CuratesAuto'
  BY DEF Assent, CuratesAuto
<1>2. ASSUME NEW i \in Items, StartRevision(i) PROVE Assent'
  BY <1>1, <1>2, StillAssents DEF StartRevision, history
<1>3. ASSUME NEW i \in Items, NEW s \in {"approved", "rejected"}, Decide(i, s, "human") PROVE Assent'
  BY <1>1, <1>3, DecideAssents
<1>4. ASSUME Seal PROVE Assent'
  <2>1. CASE SealRefused("human")
    BY <1>1, <1>4, <2>1, StillAssents DEF Seal
  <2>2. CASE ~SealRefused("human")
    BY <1>1, <1>4, <2>2, SealAssents DEF Seal, Actors
  <2> QED BY <2>1, <2>2
<1>5. ASSUME Supersede(busy) PROVE Assent'
  BY <1>1, <1>5, StillAssents DEF Supersede
<1>6. ASSUME NEW c \in People, Apply(c) PROVE Assent'
  BY <1>1, <1>6, BeginAssents DEF Apply, Calls, history
<1>7. ASSUME NEW c \in Calls, ApplyStep(c) PROVE Assent'
  BY <1>7, ApplyStepAssents
<1>8. ASSUME NEW p \in Paths, Edit(p) PROVE Assent'
  BY <1>1, <1>8, StillAssents DEF Edit
<1> QED BY <1>2, <1>3, <1>4, <1>5, <1>6, <1>7, <1>8 DEF PlanNext

\* What a run lists for its curator are automatic items.
LEMMA CurateLists ==
  ASSUME NEW rows, NEW settled, Curate(rows, settled), dream \in DreamType
  PROVE  CuratesAuto'
<1> DEFINE asked == Proposed(item')
<1>1. asked \subseteq AutoItems
  BY DEF Proposed
<1>2. \/ dream' = [dream EXCEPT !.pc = "curating", !.todo = asked, !.touched = FALSE]
      \/ dream' = [dream EXCEPT !.pc = "applying", !.todo = Items, !.touched = FALSE]
  BY DEF Curate
<1> HIDE DEF asked
<1>3. dream'.pc = "curating" => dream'.todo = asked
  BY <1>2 DEF DreamType
<1> QED BY <1>1, <1>3 DEF CuratesAuto

LEMMA SettleAssents ==
  ASSUME Assent, RunInv, Settle \/ SettleNothing
  PROVE  Assent'
<1>1. dream \in DreamType /\ dream.pc = "settling" /\ UNCHANGED <<call, assent>>
  BY DEF RunInv, RunsTyped, Settle, SettleNothing
<1>2. CASE \E rows, settled : Curate(rows, settled)
  BY <1>1, <1>2, CurateLists, SettleDrops, DropAssents DEF RunInv
<1>3. CASE \E todo, touched : dream' = [dream EXCEPT !.todo = todo, !.touched = touched]
  <2>1. CuratesAuto'
    BY <1>1, <1>3 DEF CuratesAuto, DreamType
  <2> QED BY <1>1, <2>1, SettleDrops, DropAssents DEF RunInv
<1> QED BY <1>2, <1>3 DEF Settle, SettleNothing

LEMMA CuratorDoneLists ==
  ASSUME Assent, RunInv, dream.pc = "curating", CuratorDone
  PROVE  CuratesAuto'
<1>1. dream \in DreamType /\ dream.todo \subseteq AutoItems
  BY DEF RunInv, RunsTyped, Assent, CuratesAuto
<1> QED BY <1>1 DEF CuratorDone, CuratesAuto, DreamType

LEMMA CuratorAssents ==
  ASSUME Assent, RunInv,
         (\E s \in {"approved", "rejected"} : CuratorDecides(s)) \/ CuratorBlocks \/ CuratorRevises \/ CuratorSeals
  PROVE  Assent'
<1>1. CASE \E s \in {"approved", "rejected"} : CuratorDecides(s)
  <2>1. PICK s \in {"approved", "rejected"} : CuratorDecides(s)
    BY <1>1
  <2>2. dream.pc = "curating" /\ Decide(Curated, s, "curator") /\ CuratorDone
    BY <2>1 DEF CuratorDecides, AskingCurator
  <2>3. Curated \in Items /\ Curated \in AutoItems
    BY <2>2, CuratedItem DEF Assent, CuratesAuto
  <2> QED BY <2>2, <2>3, CuratorDoneLists, DecideAssents DEF RunInv
<1>2. CASE CuratorBlocks
  <2>1. dream.pc = "curating" /\ CuratorDone /\ UNCHANGED <<call, assent>>
    BY <1>2 DEF CuratorBlocks
  <2> QED BY <1>2, <2>1, CuratorDrops, CuratorDoneLists, DropAssents DEF RunInv
<1>3. CASE CuratorRevises
  <2>1. UNCHANGED <<item, call, assent, blame, dream>>
    BY <1>3 DEF CuratorRevises, history, dreamVars
  <2> QED BY <2>1, StillAssents DEF RunInv, Assent, CuratesAuto
<1>4. CASE CuratorSeals
  <2>1. CuratesAuto'
    BY <1>4 DEF CuratorSeals, dreamVars, Assent, CuratesAuto
  <2> QED BY <1>4, <2>1, SealAssents DEF CuratorSeals, RunInv, Actors
<1> QED BY <1>1, <1>2, <1>3, <1>4

LEMMA ApplyNextAssents ==
  ASSUME Assent, RunInv, ApplyNext
  PROVE  Assent'
<1> DEFINE open == {i \in dream.todo : item[i].status \in Open}
<1>1. dream \in DreamType /\ dream.pc = "applying" /\ UNCHANGED <<item, blame, assent>>
  BY DEF ApplyNext, history, RunInv, RunsTyped
<1>2. CuratesAuto'
  BY <1>1 DEF ApplyNext, CuratesAuto, DreamType
<1>3. CASE open = {}
  BY <1>1, <1>2, <1>3, StillAssents DEF ApplyNext, RunInv
<1>4. CASE open # {}
  <2>1. open \in SUBSET Nat /\ open \subseteq Items
    BY <1>1, OpsFacts DEF DreamType
  <2>2. {Min(open)} \in SUBSET Items /\ Dreamer \in Calls
    <3> HIDE DEF open
    <3> QED BY <1>4, <2>1, MinIn DEF Calls
  <2>3. Begin(Dreamer, {Min(open)})
    BY <1>4 DEF ApplyNext
  <2> QED BY <1>1, <1>2, <2>2, <2>3, BeginAssents DEF RunInv
<1> QED BY <1>3, <1>4

\* A run begins, looks at the plan, or ends.
LEMMA RunAssents ==
  ASSUME Assent, RunInv,
         (\E d \in Runs : BeginRun(d)) \/ Reopen \/ Plan \/ VerifyRun \/ RecordOutcomes \/ Complete \/ Fail
         \/ ResumeProfile \/ ResumeTransform \/ Crash \/ UNCHANGED vars
  PROVE  Assent'
<1>1. dream \in DreamType /\ call \in [Calls -> CallType]
  BY DEF RunInv, RunsTyped, PlanInv, TypeOK
<1>2. UNCHANGED <<item, assent>> /\ blame \subseteq blame'
  BY DEF BeginRun, Reopen, Plan, VerifyRun, RecordOutcomes, Complete, Fail, ResumeProfile, ResumeTransform,
         Crash, Died, Enter, vars, planVars, history
<1>3. \A c \in Calls : call'[c] = call[c] \/ call'[c].pc \in Idling
  <2>1. CASE UNCHANGED call
    BY <2>1
  <2>2. CASE call' = [call EXCEPT ![Dreamer] = Idle] \/ call' = [c \in Calls |-> Idle]
    BY <1>1, <2>2, IdleCall
  <2> QED BY <2>1, <2>2
     DEF BeginRun, Reopen, Plan, VerifyRun, RecordOutcomes, Complete, Fail, Over, ResumeProfile,
         ResumeTransform, Crash, Died, vars, planVars
<1>4. CuratesAuto'
  <2>1. CASE UNCHANGED dream
    BY <2>1 DEF Assent, CuratesAuto
  <2>2. CASE dream'.pc \in {"none", "planning", "settling", "ending", "verified", "recorded"}
    BY <2>2 DEF CuratesAuto
  <2>3. CASE VerifyRun \/ RecordOutcomes
    BY <1>1, <2>2, <2>3 DEF VerifyRun, RecordOutcomes, DreamType
  <2>4. CASE \E d \in Runs : BeginRun(d)
    BY <2>1, <2>2, <2>4 DEF BeginRun, NoDream
  <2>5. CASE Plan
    BY <1>1, <2>2, <2>5 DEF Plan, DreamType
  <2>6. CASE Complete \/ Fail \/ Crash
    <3>1. dream' = NoDream
      BY <2>6 DEF Complete, Fail, Over, Crash
    <3> QED BY <2>2, <3>1, NoDreamTyped
  <2>7. CASE Reopen \/ ResumeProfile \/ ResumeTransform \/ UNCHANGED vars
    BY <2>1, <2>7 DEF Reopen, ResumeProfile, ResumeTransform, vars, dreamVars
  <2> QED BY <2>3, <2>4, <2>5, <2>6, <2>7
<1> QED BY <1>2, <1>3, <1>4, StillAssents DEF RunInv

LEMMA NextAssents ==
  ASSUME Assent, RunInv, [Next]_vars
  PROVE  Assent'
<1>1. CASE PlanNext(Busy) /\ UNCHANGED dreamVars
  BY <1>1, PlanNextAssents DEF RunInv, dreamVars
<1>2. CASE DreamStep
  BY <1>2, RunAssents, SettleAssents, CuratorAssents, ApplyNextAssents DEF DreamStep
<1>3. CASE ResumeProfile \/ ResumeTransform \/ Crash \/ UNCHANGED vars
  BY <1>3, RunAssents
<1> QED BY <1>1, <1>2, <1>3 DEF Next

LEMMA InitAssents == DreamInit => Assent
<1> SUFFICES ASSUME DreamInit PROVE Assent
  OBVIOUS
<1>1. item = NoRows /\ call = [c \in Calls |-> Idle] /\ dream = NoDream
  BY DEF DreamInit, Init
<1>2. Assented
  BY <1>1 DEF Assented, NoRows, NewRow
<1>3. (\A c \in Calls : Stands(c)) /\ Alone
  BY <1>1 DEF Stands, Alone, Inside, Idle
<1>4. CuratesAuto
  BY <1>1 DEF CuratesAuto, NoDream
<1> QED BY <1>2, <1>3, <1>4 DEF Assent

\* What an apply writes is the revision a person, or for an automatic item the
\* curator, has approved and nobody has rejected or replaced since, whatever is
\* decided, revised and applied meanwhile (plans.ts, applyMaintenancePlanOnce).
THEOREM WritesAreApproved == DreamSpec => []OnlyApproved
<1>1. RunInv /\ Assent /\ [Next]_vars => Assent'
  BY NextAssents
<1>2. RunInv /\ Assent => OnlyApproved
  <2> SUFFICES ASSUME RunInv, Assent, NEW c \in Calls, call[c].pc = "write", At(c) \notin blame
               PROVE  assent[At(c)] = Rev(c)
    BY DEF OnlyApproved
  <2>1. At(c) \in Items
    BY AtWork DEF RunInv, Idling
  <2>2. item[At(c)].status = "applying" /\ item[At(c)].rev = Rev(c)
    BY DEF Assent, Stands
  <2> QED BY <2>1, <2>2 DEF Assent, Assented
<1> QED BY <1>1, <1>2, InitAssents, RunInvariant, PTL DEF DreamSpec

-----------------------------------------------------------------------------
(* A plan that is retired while nobody is at work on it *)

\* Where a run is before it takes a plan up, and when it is done with it.
Unasked == {"none", "planning", "ending", "verified", "recorded"}

\* Nobody is at work, and a run that comes finds nothing to do.
Retired ==
  plan = "superseded" /\ slips = {} =>
    /\ \A c \in Calls : call[c].pc \in Idling
    /\ \A a \in Actors : draft[a] = NoDraft
    /\ dream.pc \in Unasked

Left == plan' = "superseded" /\ \A p \in Paths : disk'[p] \in {disk[p], Foreign}

LEMMA StatusesNotRetired ==
  ASSUME NEW rows
  PROVE  StatusAfterApply(rows) # "superseded" /\ StatusAfterDecision(rows) # "superseded"
BY DEF StatusAfterApply, StatusAfterDecision

\* Only a retirement retires a plan, and how it came to be wrong is not forgotten.
LEMMA ApplyDoesNotRetire ==
  ASSUME NEW c \in Calls, ApplyStep(c)
  PROVE  (plan' = "superseded" => plan = "superseded") /\ slips' = slips
<1>1. \A rows : Proceed(c, rows) => plan' = plan \/ plan' # "superseded"
  BY StatusesNotRetired DEF Proceed
<1>2. \A rows : Throw(c, rows) => plan' = plan
  BY DEF Throw
<1>3. \A rows, pc, left : Continue(c, pc, rows, left) => plan' = plan
  BY DEF Continue
<1>4. slips' = slips
  BY DEF ApplyStep, Recover, Mend, Mended, Check, Write, Record, Restore, GiveUp, Resume, Index, Verify, Undo,
         Undone, Reindex, history
<1>5. plan' = plan \/ (\E rows : Proceed(c, rows) \/ Throw(c, rows))
  <2>1. CASE Recover(c)
    BY <1>3, <2>1 DEF Recover
  <2>2. CASE Mend(c) \/ Mended(c) \/ Resume(c)
    BY <1>3, <2>2 DEF Mend, Mended, Resume
  <2>3. CASE Check(c) \/ Write(c) \/ Record(c) \/ Restore(c) \/ GiveUp(c)
    BY <2>3 DEF Check, Write, Record, Restore, GiveUp
  <2>4. CASE Index(c) \/ Verify(c) \/ Undo(c) \/ Undone(c) \/ Reindex(c)
    BY <2>4 DEF Index, Verify, Undo, Undone, Reindex
  <2> QED BY <2>1, <2>2, <2>3, <2>4 DEF ApplyStep
<1> QED BY <1>1, <1>2, <1>4, <1>5

LEMMA OnlyRetirementRetires ==
  ASSUME [Next]_vars
  PROVE  /\ plan' = "superseded" => plan = "superseded" \/ (Supersede(Busy) /\ UNCHANGED dreamVars)
         /\ slips' = {} => slips = {}
<1> DEFINE Goal == /\ plan' = "superseded" => plan = "superseded" \/ (Supersede(Busy) /\ UNCHANGED dreamVars)
                   /\ slips' = {} => slips = {}
<1>1. \A rows : Redecide(rows) => Goal
  BY StatusesNotRetired DEF Redecide, HiddenBy
<1>2. \A s, rows : HiddenBy(s, rows) = {} => slips = {}
  BY DEF HiddenBy
<1>3. CASE PlanNext(Busy) /\ UNCHANGED dreamVars
  <2>1. CASE \E j \in Items : StartRevision(j)
    BY <2>1 DEF StartRevision, history
  <2>2. CASE \E j \in Items, s \in {"approved", "rejected"} : Decide(j, s, "human")
    BY <1>1, <2>2 DEF Decide
  <2>3. CASE Seal
    BY <1>1, <2>3 DEF Seal
  <2>4. CASE Supersede(Busy)
    BY <1>3, <2>4 DEF Supersede
  <2>5. CASE \E c \in People : Apply(c)
    BY <2>5 DEF Apply, Begin, history
  <2>6. CASE \E c \in Calls : ApplyStep(c)
    BY <2>6, ApplyDoesNotRetire
  <2>7. CASE \E p \in Paths : Edit(p)
    BY <2>7 DEF Edit
  <2> QED BY <1>3, <2>1, <2>2, <2>3, <2>4, <2>5, <2>6, <2>7 DEF PlanNext
<1>4. \A rows, settled : Curate(rows, settled) => plan' \in {"deciding", settled, StatusAfterDecision(Deferred(rows))}
  BY DEF Curate
<1>5. CASE DreamStep
  <2>1. CASE (\E d \in Runs : BeginRun(d)) \/ Reopen \/ CuratorRevises \/ VerifyRun \/ RecordOutcomes \/ Complete \/ Fail
    BY <2>1 DEF BeginRun, Reopen, CuratorRevises, VerifyRun, RecordOutcomes, Complete, Fail, planVars, history
  <2>2. CASE Plan
    BY <1>2, <2>2 DEF Plan, Finalized
  <2>3. CASE Settle
    <3>1. slips' = {} => slips = {}
      BY <1>2, <2>3 DEF Settle
    <3>2. plan' = plan \/ plan' = "deciding" \/ \E rows : plan' = StatusAfterDecision(rows)
      BY <1>4, <2>3 DEF Settle
    <3> QED BY <3>1, <3>2, StatusesNotRetired
  <2>4. CASE SettleNothing
    <3>1. slips' = {} => slips = {}
      BY <1>2, <2>4 DEF SettleNothing
    <3>2. plan' = plan \/ plan' = "deciding" \/ \E rows : plan' = StatusAfterDecision(rows)
      BY <1>4, <2>4 DEF SettleNothing
    <3> QED BY <3>1, <3>2, StatusesNotRetired
  <2>5. CASE \E s \in {"approved", "rejected"} : CuratorDecides(s)
    BY <1>1, <2>5 DEF CuratorDecides, Decide
  <2>6. CASE CuratorBlocks
    BY <1>2, <2>6, StatusesNotRetired DEF CuratorBlocks
  <2>7. CASE CuratorSeals
    BY <1>1, <2>7 DEF CuratorSeals
  <2>8. CASE ApplyNext
    BY <2>8 DEF ApplyNext, Begin, history
  <2> QED BY <1>5, <2>1, <2>2, <2>3, <2>4, <2>5, <2>6, <2>7, <2>8 DEF DreamStep
<1>6. CASE ResumeProfile \/ ResumeTransform \/ Crash \/ UNCHANGED vars
  BY <1>6 DEF ResumeProfile, ResumeTransform, Crash, Died, vars, planVars, history
<1> QED BY <1>3, <1>5, <1>6 DEF Next

\* Nothing that could happen to a plan in progress happens to a retired one.
LEMMA RetiredStays ==
  ASSUME Retired, RunInv, [Next]_vars, plan = "superseded", slips = {}
  PROVE  /\ Left /\ item' = item
         /\ \A c \in Calls : call'[c].pc \in Idling
         /\ \A a \in Actors : draft'[a] = NoDraft
         /\ dream'.pc \in Unasked
<1>1. /\ \A c \in Calls : call[c].pc \in Idling
      /\ \A a \in Actors : draft[a] = NoDraft
      /\ dream.pc \in Unasked
  BY DEF Retired
<1>2. /\ call \in [Calls -> CallType] /\ DOMAIN draft = Actors /\ dream \in DreamType
      /\ "human" \in Actors /\ "curator" \in Actors /\ Dreamer \in Calls
  BY DEF RunInv, PlanInv, TypeOK, RunsTyped, Actors, Calls
<1>3. CASE PlanNext(Busy) /\ UNCHANGED dreamVars
  <2>1. \A c \in Calls : ~ApplyStep(c)
    <3>1. ASSUME NEW c \in Calls, ApplyStep(c) PROVE FALSE
      BY <1>1, <3>1, ApplyStepKeeps DEF ApplyKeeps, RunInv
    <3> QED BY <3>1
  <2>2. /\ \A j \in Items, s \in {"approved", "rejected"} : ~Decide(j, s, "human")
        /\ \A j \in Items : ~StartRevision(j)
        /\ ~Seal /\ ~Supersede(Busy) /\ \A c \in People : ~Apply(c)
    BY <1>1, <1>2 DEF Decide, CanDecide, StartRevision, Revisable, Seal, Supersede, Apply, Begin, Applicable
  <2>3. PICK p \in Paths : Edit(p)
    BY <1>3, <2>1, <2>2 DEF PlanNext
  <2>4. disk' = [disk EXCEPT ![p] = Foreign] /\ UNCHANGED <<plan, item, call, draft, dream>>
    BY <1>3, <2>3 DEF Edit, dreamVars
  <2>5. disk \in [Paths -> Contents]
    BY DEF RunInv, PlanInv, TypeOK
  <2> QED BY <1>1, <2>4, <2>5 DEF Left
<1>4. CASE DreamStep
  <2>1. ~Settle /\ ~SettleNothing /\ ~CuratorBlocks /\ ~CuratorRevises /\ ~CuratorSeals /\ ~ApplyNext
        /\ \A s \in {"approved", "rejected"} : ~CuratorDecides(s)
    BY <1>1, <1>2 DEF Unasked, Settle, SettleNothing, CuratorBlocks, CuratorRevises, CuratorSeals, ApplyNext,
                      CuratorDecides, AskingCurator
  <2>2. CASE (\E d \in Runs : BeginRun(d)) \/ Reopen
    <3>1. UNCHANGED <<disk, plan, item, call, draft>> /\ (dream' = dream \/ dream'.pc = "planning")
      BY <2>2, NoDreamTyped DEF BeginRun, Reopen, planVars, DreamType
    <3> QED BY <1>1, <3>1 DEF Left, Unasked
  <2>3. CASE Plan
    <3>1. Finalized = "superseded" /\ "superseded" \in Terminal
      BY DEF Finalized, Terminal
    <3>2. dream' = [dream EXCEPT !.pc = "ending"] /\ plan' = "superseded"
         /\ UNCHANGED <<disk, item, call, draft>>
      BY <2>3, <3>1 DEF Plan
    <3> QED BY <1>1, <1>2, <3>2 DEF Left, DreamType, Unasked
  <2>4. CASE Complete \/ Fail
    <3>1. /\ dream' = NoDream /\ call' = [call EXCEPT ![Dreamer] = Idle] /\ UNCHANGED <<disk, plan, item>>
          /\ draft' = draft \/ draft' = [draft EXCEPT !["curator"] = NoDraft]
      BY <2>4 DEF Complete, Fail, Over
    <3> QED BY <1>1, <1>2, <3>1, NoDreamTyped, IdleCall DEF Left, Unasked
  <2>5. CASE VerifyRun \/ RecordOutcomes
    <3>1. UNCHANGED <<disk, plan, item, call, draft>> /\ dream'.pc \in {"verified", "recorded"}
      BY <1>2, <2>5 DEF VerifyRun, RecordOutcomes, planVars, DreamType
    <3> QED BY <1>1, <3>1 DEF Left, Unasked
  <2> QED BY <1>4, <2>1, <2>2, <2>3, <2>4, <2>5 DEF DreamStep
<1>5. CASE ResumeProfile \/ ResumeTransform \/ UNCHANGED vars
  <2>1. UNCHANGED <<disk, plan, item, call, draft, dream>>
    BY <1>5 DEF ResumeProfile, ResumeTransform, vars, planVars, dreamVars
  <2> QED BY <1>1, <2>1 DEF Left
<1>6. CASE Crash
  <2>1. /\ call' = [c \in Calls |-> Idle] /\ draft' = [a \in DOMAIN draft |-> NoDraft]
        /\ dream' = NoDream /\ UNCHANGED <<disk, plan, item>>
    BY <1>6 DEF Crash, Died
  <2> QED BY <1>2, <2>1, NoDreamTyped, IdleCall DEF Left, Unasked
<1> QED BY <1>3, <1>4, <1>5, <1>6 DEF Next

LEMMA RetiredKept ==
  ASSUME Retired, RunInv, [Next]_vars
  PROVE  Retired'
<1> SUFFICES ASSUME plan' = "superseded", slips' = {}
             PROVE  /\ \A c \in Calls : call'[c].pc \in Idling
                    /\ \A a \in Actors : draft'[a] = NoDraft
                    /\ dream'.pc \in Unasked
  BY DEF Retired
<1>1. slips = {} /\ (plan = "superseded" \/ (Supersede(Busy) /\ UNCHANGED dreamVars))
  BY OnlyRetirementRetires
<1>2. CASE plan = "superseded"
  BY <1>1, <1>2, RetiredStays
<1>3. CASE Supersede(Busy) /\ UNCHANGED dreamVars
  <2>1. ~Busy /\ UNCHANGED <<call, draft>>
    BY <1>3 DEF Supersede
  <2>2. /\ \A c \in Calls : call[c].pc \in Idling
        /\ \A a \in Actors : draft[a] = NoDraft
        /\ dream.pc = "none"
    BY <2>1 DEF Busy, Working, Live, Idling, Actors, RunInv, PlanInv, TypeOK
  <2>3. dream' = dream
    BY <1>3 DEF dreamVars
  <2> QED BY <2>1, <2>2, <2>3 DEF Unasked
<1> QED BY <1>1, <1>2, <1>3

LEMMA RetiredAtFirst == DreamInit => Retired
BY StatusesNotRetired DEF DreamInit, Init, Retired

LEMMA RetiredInvariant == DreamSpec => []Retired
<1>1. Retired /\ RunInv /\ [Next]_vars => Retired'
  BY RetiredKept
<1> QED BY <1>1, RetiredAtFirst, RunInvariant, PTL DEF DreamSpec

LEMMA RetiredStep ==
  ASSUME Retired, RunInv, [Next]_vars
  PROVE  [plan = "superseded" /\ slips = {} =>
            plan' = "superseded" /\ \A p \in Paths : disk'[p] \in {disk[p], Foreign}]_planVars
BY RetiredStays DEF Left

\* A plan retired while nobody was at work on it stays retired, and from then on
\* no file changes but by somebody's own edit (plans.ts, supersedeMaintenancePlan).
THEOREM RetirementStands == DreamSpec => RetiredIsFinal
<1>1. Retired /\ RunInv /\ [Next]_vars =>
        [plan = "superseded" /\ slips = {} =>
           plan' = "superseded" /\ \A p \in Paths : disk'[p] \in {disk[p], Foreign}]_planVars
  BY RetiredStep
<1> QED BY <1>1, RetiredInvariant, RunInvariant, PTL DEF DreamSpec, RetiredIsFinal

-----------------------------------------------------------------------------
(* What the files of an item and the journal say *)

\* StateOf, in the files dk.
StateIn(dk, i, op, r) ==
  CASE op.kind = "move" ->
         IF dk[op.path] = Sealed /\ dk[op.to] = Absent THEN "before"
         ELSE IF dk[op.path] = Absent /\ dk[op.to] = Sealed THEN "after" ELSE "other"
    [] op.kind = "delete" ->
         IF dk[op.path] = Absent THEN "after"
         ELSE IF dk[op.path] = Sealed THEN "before" ELSE "other"
    [] OTHER ->
         IF dk[op.path] = Output(i, r) THEN "after"
         ELSE IF dk[op.path] = Before(op) THEN "before" ELSE "other"

\* The operations ks of item i are written, for revision r, and the others are not.
Written(dk, i, r, ks) == \A k \in DOMAIN Ops[i] :
  StateIn(dk, i, Ops[i][k], r) = IF k \in ks THEN "after" ELSE "before"

\* The changes of item i that stand in the journal ch.
Kept(ch, i) == {n \in DOMAIN ch : ch[n].item = i /\ ~ch[n].undone}

LEMMA StateIs ==
  ASSUME NEW i \in Items, NEW r, NEW s
  PROVE  /\ \A k : StateOf(i, Ops[i][k], r) = StateIn(disk, i, Ops[i][k], r)
         /\ All(i, r, s) <=> \A k \in DOMAIN Ops[i] : StateIn(disk, i, Ops[i][k], r) = s
         /\ Some(i, r, s) <=> \E k \in DOMAIN Ops[i] : StateIn(disk, i, Ops[i][k], r) = s
<1>1. \A k : StateOf(i, Ops[i][k], r) = StateIn(disk, i, Ops[i][k], r)
  BY DEF StateOf, StateIn
<1> QED BY <1>1 DEF All, Some

LEMMA AllIs ==
  ASSUME NEW i \in Items, NEW r
  PROVE  /\ All(i, r, "before") <=> Written(disk, i, r, {})
         /\ All(i, r, "after") <=> Written(disk, i, r, DOMAIN Ops[i])
BY StateIs DEF Written

\* An operation of an item, and what it may find.
LEMMA OpFacts ==
  ASSUME NEW i \in Items, NEW k \in DOMAIN Ops[i], NEW r \in Revisions
  PROVE  LET op == Ops[i][k] IN
         /\ op.kind \in {"replace", "create", "delete", "move"} /\ op.path \in Paths
         /\ op.kind = "move" => op.to \in Paths /\ op.to # op.path
         /\ Touched(op) \subseteq PathsOf(i) /\ PathsOf(i) \subseteq Paths
         /\ Output(i, r) # Before(op) /\ Output(i, r) # Sealed /\ Output(i, r) # Absent /\ Sealed # Absent
         /\ Before(op) \in {Absent, Sealed}
<1>1. Ops[i][k] \in Operation /\ PathsOf(i) \subseteq Paths
  BY OpsFacts
<1>2. Ops[i][k].kind = "move" => Ops[i][k].to # Ops[i][k].path
  BY PlanAssumption
<1>3. Output(i, r) \notin {Absent, Sealed} /\ Sealed # Absent
  <2>1. i # 0
    BY OpsFacts
  <2> QED BY <2>1 DEF Output, Absent, Sealed
<1>4. Touched(Ops[i][k]) \subseteq PathsOf(i)
  BY DEF PathsOf
<1>5. Before(Ops[i][k]) \in {Absent, Sealed}
  BY DEF Before
<1> QED BY <1>1, <1>2, <1>3, <1>4, <1>5 DEF Operation

LEMMA StateRange ==
  ASSUME NEW dk, NEW i, NEW op, NEW r
  PROVE  StateIn(dk, i, op, r) \in {"before", "after", "other"}
BY DEF StateIn

\* An operation's state depends on its own files, and before it is written not on
\* the revision.
LEMMA StateStays ==
  ASSUME NEW dk, NEW dl, NEW i, NEW op, NEW r, \A p \in Touched(op) : dl[p] = dk[p]
  PROVE  StateIn(dl, i, op, r) = StateIn(dk, i, op, r)
BY DEF StateIn, Touched

LEMMA BeforeStays ==
  ASSUME NEW dk, NEW i \in Items, NEW r \in Revisions, NEW s \in Revisions, Written(dk, i, r, {})
  PROVE  Written(dk, i, s, {})
<1> SUFFICES ASSUME NEW k \in DOMAIN Ops[i]
             PROVE  StateIn(dk, i, Ops[i][k], s) = "before"
  BY DEF Written
<1> DEFINE op == Ops[i][k]
<1>1. StateIn(dk, i, op, r) = "before"
  BY DEF Written
<1>2. Output(i, r) # Before(op) /\ Output(i, s) # Before(op)
  BY OpFacts
<1> HIDE DEF op
<1>3. StateIn(dk, i, op, s) = "before"
  BY <1>1, <1>2 DEF StateIn
<1> QED BY <1>3 DEF op

LEMMA WrittenStays ==
  ASSUME NEW dk, NEW dl, NEW i \in Items, NEW r, NEW ks, \A p \in PathsOf(i) : dl[p] = dk[p],
         Written(dk, i, r, ks)
  PROVE  Written(dl, i, r, ks)
<1> SUFFICES ASSUME NEW k \in DOMAIN Ops[i]
             PROVE  StateIn(dl, i, Ops[i][k], r) = StateIn(dk, i, Ops[i][k], r)
  BY DEF Written
<1>1. Touched(Ops[i][k]) \subseteq PathsOf(i)
  BY DEF PathsOf
<1> QED BY <1>1, StateStays

\* An item has an operation, so it is not both written and not written.
LEMMA NotBoth ==
  ASSUME NEW dk, NEW i \in Items, NEW r, Written(dk, i, r, {})
  PROVE  ~Written(dk, i, r, DOMAIN Ops[i])
<1>1. Ops[i] # <<>> /\ DOMAIN Ops[i] = 1 .. Len(Ops[i]) /\ Ops[i] \in Seq(Operation)
  BY PlanAssumption, OpsFacts DEF Items
<1>2. 1 \in DOMAIN Ops[i]
  BY <1>1
<1> QED BY <1>2 DEF Written

\* Writing an operation and putting it back.
LEMMA WritesOne ==
  ASSUME NEW i \in Items, NEW k \in DOMAIN Ops[i], NEW r \in Revisions, disk \in [Paths -> Contents]
  PROVE  LET op == Ops[i][k] IN
         /\ StateIn(disk, i, op, r) = "before" => StateIn(Performed(i, op, r), i, op, r) = "after"
         /\ StateIn(disk, i, op, r) = "after" => StateIn(Restored(op), i, op, r) = "before"
         /\ \A p \in Paths \ Touched(op) : Performed(i, op, r)[p] = disk[p] /\ Restored(op)[p] = disk[p]
<1> DEFINE op == Ops[i][k]
<1>1. /\ op.kind \in {"replace", "create", "delete", "move"} /\ op.path \in Paths
      /\ op.kind = "move" => op.to \in Paths /\ op.to # op.path
      /\ Output(i, r) # Before(op) /\ Output(i, r) # Sealed /\ Output(i, r) # Absent /\ Sealed # Absent
  BY OpFacts
<1>2. op.kind \in {"delete", "replace"} => Before(op) = Sealed
  BY DEF Before
<1> HIDE DEF op
<1>3. /\ StateIn(disk, i, op, r) = "before" => StateIn(Performed(i, op, r), i, op, r) = "after"
      /\ StateIn(disk, i, op, r) = "after" => StateIn(Restored(op), i, op, r) = "before"
      /\ \A p \in Paths \ Touched(op) : Performed(i, op, r)[p] = disk[p] /\ Restored(op)[p] = disk[p]
  <2>1. CASE op.kind = "move"
    BY <1>1, <2>1 DEF StateIn, Performed, Restored, Touched
  <2>2. CASE op.kind = "delete"
    BY <1>1, <1>2, <2>2 DEF StateIn, Performed, Restored, Touched
  <2>3. CASE op.kind \in {"replace", "create"}
    BY <1>1, <1>2, <2>3 DEF StateIn, Performed, Restored, Touched
  <2> QED BY <1>1, <2>1, <2>2, <2>3
<1> QED BY <1>3 DEF op

\* One more operation written, or one less: the others of the item share no file with it.
LEMMA WritesNext ==
  ASSUME NEW i \in Items, NEW k \in DOMAIN Ops[i], NEW r \in Revisions, disk \in [Paths -> Contents],
         NEW ks, Written(disk, i, r, ks)
  PROVE  /\ k \notin ks => Written(Performed(i, Ops[i][k], r), i, r, ks \cup {k})
         /\ k \in ks => Written(Restored(Ops[i][k]), i, r, ks \ {k})
<1> DEFINE P == Performed(i, Ops[i][k], r)
           R == Restored(Ops[i][k])
<1>1. /\ StateIn(disk, i, Ops[i][k], r) = "before" => StateIn(P, i, Ops[i][k], r) = "after"
      /\ StateIn(disk, i, Ops[i][k], r) = "after" => StateIn(R, i, Ops[i][k], r) = "before"
      /\ \A p \in Paths \ Touched(Ops[i][k]) : P[p] = disk[p] /\ R[p] = disk[p]
  BY WritesOne
<1> HIDE DEF P, R
<1>2. ASSUME NEW l \in DOMAIN Ops[i], l # k
      PROVE  StateIn(P, i, Ops[i][l], r) = StateIn(disk, i, Ops[i][l], r) /\ StateIn(R, i, Ops[i][l], r) = StateIn(disk, i, Ops[i][l], r)
  <2>1. Touched(Ops[i][l]) \cap Touched(Ops[i][k]) = {}
    BY <1>2, PlanAssumption
  <2>2. Touched(Ops[i][l]) \subseteq Paths
    BY OpsFacts DEF PathsOf
  <2> QED BY <1>1, <2>1, <2>2, StateStays
<1>4. \A l \in DOMAIN Ops[i] : StateIn(disk, i, Ops[i][l], r) = IF l \in ks THEN "after" ELSE "before"
  BY DEF Written
<1>5. k \notin ks => Written(P, i, r, ks \cup {k})
  BY <1>1, <1>2, <1>4 DEF Written
<1>6. k \in ks => Written(R, i, r, ks \ {k})
  BY <1>1, <1>2, <1>4 DEF Written
<1> QED BY <1>5, <1>6 DEF P, R

LEMMA RedoneElsewhere ==
  ASSUME NEW i \in Items, NEW r, NEW ks \in SUBSET DOMAIN Ops[i]
  PROVE  \A p \in Paths \ UNION {Touched(Ops[i][k]) : k \in ks} : Redone(i, r, ks)[p] = disk[p]
<1>1. \A k \in ks : /\ Ops[i][k].path \in Touched(Ops[i][k])
                    /\ Ops[i][k].kind = "move" => Ops[i][k].to \in Touched(Ops[i][k])
  BY DEF Touched
<1>2. \A k \in ks : Touched(Ops[i][k]) \subseteq UNION {Touched(Ops[i][l]) : l \in ks}
  OBVIOUS
<1> QED BY <1>1, <1>2 DEF Redone

-----------------------------------------------------------------------------
(* The account of an item *)

Clean(i, row, ch) == row.change = 0 /\ Kept(ch, i) = {}

Named(i, row, ch) == row.change # 0 /\ Kept(ch, i) = {row.change} /\ ch[row.change].rev = row.rev

\* A crash after the record: the change stands, named by the row or not yet.
Found(i, row, dk, ch) ==
  /\ Written(dk, i, row.rev, DOMAIN Ops[i])
  /\ \E n \in DOMAIN ch : Kept(ch, i) = {n} /\ ch[n].rev = row.rev /\ row.change \in {0, n}

\* The row of an item no call is inside of tells its files, and unless a crash cut a
\* rollback short (sound) its changes.
Rests(i, row, dk, ch, sound) ==
  /\ row.status # "stale"
  /\ row.proof = "rolled_back" => row.status = "verification_failed"
  /\ row.status \in Decidable \/ row.proof = "rolled_back" => Written(dk, i, row.rev, {})
  /\ row.status = "applied" \/ (row.status = "verification_pending" /\ sound) =>
       Written(dk, i, row.rev, DOMAIN Ops[i])
  /\ sound =>
       /\ row.status \in Decidable => Clean(i, row, ch)
       /\ row.status \in {"applied", "verification_pending"} => Named(i, row, ch)
       /\ row.status = "verification_failed" => Kept(ch, i) \subseteq {row.change}
       /\ row.status = "applying" => Clean(i, row, ch) \/ Found(i, row, dk, ch)

\* The operations that are written while a call is inside its item.
Done(cl) ==
  IF cl.pc = "write" THEN 1 .. cl.k
  ELSE IF cl.pc \in {"mend", "restore", "undo"} THEN cl.left
  ELSE IF cl.pc = "reindex" THEN {} ELSE DOMAIN Ops[cl.at]

\* A call inside its item knows its row, its files and its change.
Works(cl, row, dk, ch, sound) ==
  /\ row.rev = cl.seen[cl.at].rev /\ row.change = cl.seen[cl.at].change
  /\ row.proof # "rolled_back" /\ row.status \in Recovery
  /\ cl.pc \in {"mend", "write", "restore"} => row.status = "applying"
  /\ Written(dk, cl.at, row.rev, Done(cl))
  /\ sound =>
       /\ cl.pc \in {"mend", "write", "restore"} => Clean(cl.at, row, ch)
       /\ cl.pc \in {"index", "verify", "undo"} => Named(cl.at, row, ch)
       /\ cl.pc = "reindex" => Kept(ch, cl.at) = {}

Empty(i) == \A c \in Calls : call[c].pc \in Inside => At(c) # i

Sound(i) == i \notin torn

Account ==
  /\ \A c \in Calls : call[c].pc \in Inside /\ At(c) \notin blame =>
       Works(call[c], item[At(c)], disk, changes, Sound(At(c)))
  /\ \A i \in Items \ blame : Empty(i) => Rests(i, item[i], disk, changes, Sound(i))

\* The changes an item may name are its own.
Own(ch, i) == {0} \cup {n \in DOMAIN ch : ch[n].item = i}

Owns ==
  /\ \A i \in Items : item[i].change \in Own(changes, i)
  /\ \A c \in Calls, i \in Items : call[c].seen[i].change \in Own(changes, i)

\* The journal ch grows, or marks, from changes, but for the other items it stands.
Grows(ch, i) ==
  /\ \A j \in Items \ {i} : Kept(ch, j) = Kept(changes, j)
  /\ \A n \in DOMAIN changes : n \in DOMAIN ch /\ ch[n].item = changes[n].item /\ ch[n].rev = changes[n].rev

LEMMA KeepsGrow ==
  ASSUME NEW i
  PROVE  Grows(changes, i)
BY DEF Grows

LEMMA RecordGrows ==
  ASSUME changes \in Seq(Change), NEW i \in Items, NEW r \in Revisions
  PROVE  LET ch == Recorded(i, r)  n == Len(changes) + 1 IN
         /\ Grows(ch, i) /\ Kept(ch, i) = Kept(changes, i) \cup {n}
         /\ n \in DOMAIN ch /\ ch[n] = [item |-> i, rev |-> r, undone |-> FALSE] /\ n # 0
<1> DEFINE ch == Recorded(i, r)
           n == Len(changes) + 1
           e == [item |-> i, rev |-> r, undone |-> FALSE]
<1>1. e \in Change
  BY DEF Change
<1>2. ch = Append(changes, e) /\ Len(changes) \in Nat /\ DOMAIN changes = 1 .. Len(changes)
  BY DEF Recorded
<1>3. DOMAIN ch = 1 .. n /\ ch[n] = e /\ \A m \in DOMAIN changes : ch[m] = changes[m]
  <2> HIDE DEF e
  <2> QED BY <1>1, <1>2
<1>4. DOMAIN ch = DOMAIN changes \cup {n} /\ n \notin DOMAIN changes
  BY <1>2, <1>3
<1>5. e.item = i /\ ~e.undone
  OBVIOUS
<1> HIDE DEF ch, e
<1>6. Kept(ch, i) = Kept(changes, i) \cup {n} /\ \A j \in Items \ {i} : Kept(ch, j) = Kept(changes, j)
  BY <1>3, <1>4, <1>5 DEF Kept
<1>7. Grows(ch, i)
  BY <1>3, <1>4, <1>6 DEF Grows
<1>8. n \in DOMAIN ch /\ n # 0
  BY <1>2, <1>3
<1> QED BY <1>3, <1>6, <1>7, <1>8 DEF ch, e

LEMMA UndoGrows ==
  ASSUME changes \in Seq(Change), NEW i \in Items, NEW m \in Own(changes, i)
  PROVE  LET ch == [changes EXCEPT ![m].undone = TRUE] IN
         Grows(ch, i) /\ Kept(ch, i) = Kept(changes, i) \ {m}
<1> DEFINE ch == [changes EXCEPT ![m].undone = TRUE]
<1>1. DOMAIN ch = DOMAIN changes
  OBVIOUS
<1>2. ASSUME NEW n \in DOMAIN changes
      PROVE  /\ ch[n].item = changes[n].item /\ ch[n].rev = changes[n].rev
             /\ n # m => ch[n].undone = changes[n].undone
             /\ n = m => ch[n].undone
  <2>1. changes[n] \in Change
    BY <1>2
  <2>2. CASE n = m
    <3>1. ch[n] = [changes[n] EXCEPT !.undone = TRUE]
      BY <1>2, <2>2
    <3> QED BY <2>1, <2>2, <3>1 DEF Change
  <2>3. CASE n # m
    <3>1. ch[n] = changes[n]
      BY <1>2, <2>3
    <3> QED BY <2>3, <3>1
  <2> QED BY <2>2, <2>3
<1>3. m \in DOMAIN changes => changes[m].item = i
  <2>1. 0 \notin DOMAIN changes
    OBVIOUS
  <2> QED BY <2>1 DEF Own
<1> HIDE DEF ch
<1>4. \A j \in Items \ {i} : Kept(ch, j) = Kept(changes, j)
  BY <1>1, <1>2, <1>3 DEF Kept
<1>5. Kept(ch, i) = Kept(changes, i) \ {m}
  BY <1>1, <1>2 DEF Kept
<1>6. Grows(ch, i)
  BY <1>1, <1>2, <1>4 DEF Grows
<1> QED BY <1>5, <1>6 DEF ch

\* What is said of an item depends on its row, its files and its own changes.
LEMMA RestsStay ==
  ASSUME NEW i \in Items, NEW row, NEW dk, NEW dl, NEW ch, NEW cg, NEW sound, Rests(i, row, dk, ch, sound),
         \A p \in PathsOf(i) : dl[p] = dk[p],
         Kept(cg, i) = Kept(ch, i), \A n \in Kept(ch, i) : cg[n].rev = ch[n].rev /\ n \in DOMAIN cg
  PROVE  Rests(i, row, dl, cg, sound)
<1>1. \A ks : Written(dk, i, row.rev, ks) => Written(dl, i, row.rev, ks)
  BY WrittenStays
<1>2. Clean(i, row, ch) => Clean(i, row, cg)
  BY DEF Clean
<1>3. Named(i, row, ch) => Named(i, row, cg)
  BY DEF Named
<1>4. Found(i, row, dk, ch) => Found(i, row, dl, cg)
  BY <1>1 DEF Found
<1> QED BY <1>1, <1>2, <1>3, <1>4 DEF Rests

LEMMA WorksStay ==
  ASSUME NEW cl, cl.at \in Items, NEW row, NEW dk, NEW dl, NEW ch, NEW cg, NEW sound,
         Works(cl, row, dk, ch, sound),
         \A p \in PathsOf(cl.at) : dl[p] = dk[p],
         Kept(cg, cl.at) = Kept(ch, cl.at), \A n \in Kept(ch, cl.at) : cg[n].rev = ch[n].rev
  PROVE  Works(cl, row, dl, cg, sound)
<1>1. \A ks : Written(dk, cl.at, row.rev, ks) => Written(dl, cl.at, row.rev, ks)
  BY WrittenStays
<1>2. Clean(cl.at, row, ch) => Clean(cl.at, row, cg)
  BY DEF Clean
<1>3. Named(cl.at, row, ch) => Named(cl.at, row, cg)
  BY DEF Named
<1> QED BY <1>1, <1>2, <1>3 DEF Works

\* A step leaves the files of the other items alone, or says so.
Apart(c) == \A j \in Items \ ({At(c)} \cup blame') : \A p \in PathsOf(j) : disk'[p] = disk[p]

\* What a step of a call leaves alone, and what it leaves of its own item.
Steps(c) ==
  /\ torn' = torn
  /\ Apart(c)
  /\ Grows(changes', At(c))
  /\ item'[At(c)].change \in {item[At(c)].change} \cup Own(changes', At(c))
  /\ \A i \in Items : call'[c].seen[i].change \in {0, call[c].seen[i].change, item[i].change, item'[i].change}
  /\ At(c) \notin blame' =>
       IF call'[c].pc \in Inside THEN Works(call'[c], item'[At(c)], disk', changes', Sound(At(c)))
       ELSE Rests(At(c), item'[At(c)], disk', changes', Sound(At(c)))

LEMMA QuietApart ==
  ASSUME NEW c, UNCHANGED disk
  PROVE  Apart(c)
BY DEF Apart

LEMMA PutApart ==
  ASSUME NEW c, NEW D, NEW ps, Put(c, D, ps), \A p \in Paths \ ps : D[p] = disk[p]
  PROVE  Apart(c)
<1>1. \A j \in Items \ ({At(c)} \cup blame') : PathsOf(j) \cap ps = {}
  BY DEF Put
<1>2. \A j \in Items : PathsOf(j) \subseteq Paths
  BY OpsFacts
<1>3. disk' = D
  BY DEF Put
<1> QED BY <1>1, <1>2, <1>3 DEF Apart

LEMMA OwnGrows ==
  ASSUME NEW i, Grows(changes', i)
  PROVE  \A j : Own(changes, j) \subseteq Own(changes', j)
BY DEF Grows, Own

\* No other call is inside an item a step leaves without blame.
LEMMA NobodyElse ==
  ASSUME Assent, NEW c \in Calls, Touch(c), NEW d \in Calls \ {c}, call[d].pc \in Inside, At(d) \notin blame'
  PROVE  At(d) # At(c)
<1> SUFFICES ASSUME At(d) = At(c) PROVE FALSE
  OBVIOUS
<1>1. d \in Live \ {c}
  BY InsideLives
<1>2. At(c) \notin blame
  BY DEF Touch
<1> QED BY <1>1, <1>2 DEF Touch, Assent, Alone

LEMMA StepAccounts ==
  ASSUME Account, Owns, Assent, PlanInv, NEW c \in Calls, At(c) \in Items, Touch(c), Steps(c)
  PROVE  Account' /\ Owns'
<1> DEFINE i == At(c)
<1>1. /\ \A j \in Items \ {i} : item'[j] = item[j]
      /\ \A d \in Calls \ {c} : call'[d] = call[d]
      /\ blame \subseteq blame' /\ torn' = torn
      /\ call'[c].pc \in Inside => call'[c].at = i
  BY DEF Touch, Steps
<1>2. ASSUME NEW j \in Items \ ({i} \cup blame')
      PROVE  /\ \A p \in PathsOf(j) : disk'[p] = disk[p]
             /\ Kept(changes', j) = Kept(changes, j)
             /\ \A n \in Kept(changes, j) : changes'[n].rev = changes[n].rev /\ n \in DOMAIN changes'
  <2>1. \A p \in PathsOf(j) : disk'[p] = disk[p]
    BY <1>2 DEF Steps, Apart
  <2>2. \A n \in Kept(changes, j) : n \in DOMAIN changes
    BY DEF Kept
  <2> QED BY <1>2, <2>1, <2>2 DEF Steps, Grows
<1>3. ASSUME NEW d \in Calls, call'[d].pc \in Inside, call'[d].at \notin blame'
      PROVE  Works(call'[d], item'[call'[d].at], disk', changes', call'[d].at \notin torn')
  <2>1. CASE d = c
    BY <1>1, <1>3, <2>1 DEF Steps, Sound
  <2>2. CASE d # c
    <3>1. call'[d] = call[d] /\ At(d) = call'[d].at
      BY <1>1, <2>2 DEF At
    <3>2. At(d) # i /\ At(d) \in Items /\ At(d) \notin blame
      BY <1>1, <1>3, <2>2, <3>1, NobodyElse, AtWork DEF Inside, Idling
    <3>3. Works(call[d], item[At(d)], disk, changes, At(d) \notin torn)
      BY <1>3, <3>1, <3>2 DEF Account, Sound
    <3>4. item'[At(d)] = item[At(d)] /\ call[d].at = At(d) /\ At(d) \in Items \ ({i} \cup blame')
      BY <1>1, <1>3, <3>1, <3>2 DEF At
    <3> QED BY <1>1, <1>2, <3>1, <3>2, <3>3, <3>4, WorksStay
  <2> QED BY <2>1, <2>2
<1>4. ASSUME NEW j \in Items \ blame', \A d \in Calls : call'[d].pc \in Inside => call'[d].at # j
      PROVE  Rests(j, item'[j], disk', changes', j \notin torn')
  <2>1. CASE j = i
    BY <1>1, <1>4, <2>1 DEF Steps, Sound
  <2>2. CASE j # i
    <3>1. Empty(j)
      <4> SUFFICES ASSUME NEW d \in Calls, call[d].pc \in Inside, At(d) = j PROVE FALSE
        BY DEF Empty
      <4> QED BY <1>1, <1>4, <2>2 DEF At
    <3>2. Rests(j, item[j], disk, changes, j \notin torn) /\ item'[j] = item[j]
      BY <1>1, <1>4, <2>2, <3>1 DEF Account, Sound
    <3> QED BY <1>1, <1>2, <2>2, <3>2, RestsStay
  <2> QED BY <2>1, <2>2
<1>5. Account'
  BY <1>3, <1>4 DEF Account, Empty, At, Sound
<1>6. ASSUME NEW j \in Items PROVE item'[j].change \in Own(changes', j)
  <2>1. item[j].change \in Own(changes', j)
    BY OwnGrows DEF Owns, Steps
  <2> QED BY <1>1, <2>1 DEF Steps
<1>7. ASSUME NEW d \in Calls, NEW j \in Items PROVE call'[d].seen[j].change \in Own(changes', j)
  <2>1. call[d].seen[j].change \in Own(changes', j) /\ item[j].change \in Own(changes', j) /\ 0 \in Own(changes', j)
    <3>1. 0 \in Own(changes', j)
      BY DEF Own
    <3> QED BY <3>1, OwnGrows DEF Owns, Steps
  <2>2. CASE d = c
    BY <1>6, <2>1, <2>2 DEF Steps
  <2>3. CASE d # c
    BY <1>1, <2>1, <2>3
  <2> QED BY <2>2, <2>3
<1>8. Owns'
  BY <1>6, <1>7 DEF Owns
<1> QED BY <1>5, <1>8

-----------------------------------------------------------------------------
(* The steps of a call, once more *)

LEMMA RowShape ==
  ASSUME item \in [Items -> Row], NEW i \in Items, NEW s, NEW proof
  PROVE  /\ LET row == Marked(i, s, proof)[i] IN
            /\ row.status = s /\ row.proof = proof /\ row.rev = item[i].rev /\ row.change = item[i].change
            /\ DOMAIN row = DOMAIN item[i]
         /\ LET row == Blocked(i)[i] IN
            /\ row.status = "blocked" /\ row.proof = item[i].proof
            /\ row.rev = item[i].rev /\ row.change = item[i].change
         /\ DOMAIN Marked(i, s, proof) = Items
<1> DEFINE a == [item EXCEPT ![i].status = s]
           b == [item EXCEPT ![i].status = "blocked"]
<1>1. /\ DOMAIN a = Items /\ a[i].status = s /\ a[i].rev = item[i].rev /\ a[i].change = item[i].change
      /\ DOMAIN a[i] = DOMAIN item[i] /\ "proof" \in DOMAIN a[i]
  BY DEF Row
<1>2. /\ DOMAIN b = Items /\ b[i].status = "blocked" /\ b[i].rev = item[i].rev /\ b[i].change = item[i].change
      /\ b[i].proof = item[i].proof
  BY DEF Row
<1>3. Marked(i, s, proof) = [a EXCEPT ![i].proof = proof] /\ Blocked(i) = [b EXCEPT ![i].over = FALSE]
  BY DEF Marked, Blocked
<1> HIDE DEF a, b
<1> QED BY <1>1, <1>2, <1>3

LEMMA EndedSeen ==
  ASSUME NEW c, NEW pc, NEW i \in Items
  PROVE  Ended(c, pc).seen[i].change = 0
BY DEF Ended, Idle, NoRows, NewRow

\* A call that is done with its item.
LEMMA LeaveShape ==
  ASSUME PlanInv, NEW c \in Calls, call[c].pc \notin Idling, NEW rows, Proceed(c, rows) \/ Throw(c, rows)
  PROVE  /\ item' = rows /\ call'[c].pc \notin Inside
         /\ \A i \in Items : call'[c].seen[i].change \in {0, call[c].seen[i].change}
<1> DEFINE later == {j \in call[c].only : j > At(c) /\ call[c].seen[j].status \in Open}
<1>1. call \in [Calls -> CallType] /\ call[c] \in CallType /\ At(c) \in Items /\ call[c].seen \in [Items -> Row]
  BY Typed DEF CallType
<1>2. item' = rows
  BY DEF Proceed, Throw
<1>3. CASE \E pc \in Idling : call' = [call EXCEPT ![c] = Ended(c, pc)]
  <2>1. PICK pc \in Idling : call' = [call EXCEPT ![c] = Ended(c, pc)]
    BY <1>3
  <2>2. call'[c] = Ended(c, pc) /\ Ended(c, pc).pc = pc
    BY <1>1, <2>1 DEF Ended, Idle
  <2> QED BY <1>2, <2>2, EndedSeen DEF Inside, Idling
<1>4. CASE later # {} /\ Proceed(c, rows)
  <2> DEFINE m == Min(later)
             pc == Entry(call[c].seen[m].status)
             seen == [call[c].seen EXCEPT ![At(c)] = NewRow]
             cl == [call[c] EXCEPT !.pc = pc, !.at = m, !.k = 0, !.left = {}, !.seen = seen]
  <2>1. call' = [call EXCEPT ![c] = cl]
    BY <1>4 DEF Proceed
  <2>2. pc \in {"check", "recover", "resume"}
    BY DEF Entry
  <2>3. \A i \in Items : seen[i].change \in {0, call[c].seen[i].change}
    BY <1>1 DEF NewRow
  <2> HIDE DEF seen, m, pc
  <2>4. cl.pc = pc /\ cl.seen = seen
    BY <1>1 DEF CallType
  <2>5. call'[c] = cl
    BY <1>1, <2>1
  <2> HIDE DEF cl
  <2> QED BY <1>2, <2>2, <2>3, <2>4, <2>5 DEF Inside
<1>5. later = {} /\ Proceed(c, rows) => \E pc \in Idling : call' = [call EXCEPT ![c] = Ended(c, pc)]
  BY DEF Proceed, Idling
<1>6. Throw(c, rows) => \E pc \in Idling : call' = [call EXCEPT ![c] = Ended(c, pc)]
  BY DEF Throw, Idling
<1> QED BY <1>3, <1>4, <1>5, <1>6

\* A step that ends the call's work on its item.
LEMMA LeaveSteps ==
  ASSUME PlanInv, NEW c \in Calls, call[c].pc \notin Idling, NEW rows, Proceed(c, rows) \/ Throw(c, rows),
         torn' = torn, Apart(c), Grows(changes', At(c)), rows[At(c)].change = item[At(c)].change,
         At(c) \notin blame' => Rests(At(c), rows[At(c)], disk', changes', Sound(At(c)))
  PROVE  Steps(c)
BY LeaveShape DEF Steps

\* A step after which the call is inside its item, as cl.
LEMMA InsideSteps ==
  ASSUME PlanInv, NEW c \in Calls, call[c].pc \notin Idling, NEW cl, call' = [call EXCEPT ![c] = cl], cl.pc \in Inside,
         \A i \in Items : cl.seen[i].change \in {0, call[c].seen[i].change, item[i].change, item'[i].change},
         torn' = torn, Apart(c), Grows(changes', At(c)),
         item'[At(c)].change \in {item[At(c)].change} \cup Own(changes', At(c)),
         At(c) \notin blame' => Works(cl, item'[At(c)], disk', changes', Sound(At(c)))
  PROVE  Steps(c)
<1>1. call'[c] = cl
  BY Typed
<1> QED BY <1>1 DEF Steps

\* A call that goes on with its item.
LEMMA GoShape ==
  ASSUME PlanInv, NEW c \in Calls, call[c].pc \notin Idling, NEW pc, NEW rows, NEW left, Continue(c, pc, rows, left)
  PROVE  /\ item' = rows /\ call' = [call EXCEPT ![c] = call'[c]]
         /\ call'[c].pc = pc /\ call'[c].at = At(c) /\ call'[c].left = left /\ call'[c].seen[At(c)] = rows[At(c)]
         /\ \A i \in Items : call'[c].seen[i].change \in {call[c].seen[i].change, item'[i].change}
<1> DEFINE seen == [call[c].seen EXCEPT ![At(c)] = rows[At(c)]]
           cl == [call[c] EXCEPT !.pc = pc, !.left = left, !.seen = seen]
<1>1. item' = rows /\ call' = [call EXCEPT ![c] = cl]
  BY DEF Continue
<1>2. call \in [Calls -> CallType] /\ call[c] \in CallType /\ At(c) \in Items /\ call[c].seen \in [Items -> Row]
  BY Typed DEF CallType
<1>3. seen[At(c)] = rows[At(c)] /\ \A i \in Items : seen[i].change \in {call[c].seen[i].change, rows[i].change}
  BY <1>2
<1> HIDE DEF seen
<1>4. cl.pc = pc /\ cl.at = At(c) /\ cl.left = left /\ cl.seen = seen
  BY <1>2 DEF CallType, At
<1>5. call'[c] = cl
  BY <1>1, <1>2
<1> HIDE DEF cl
<1> QED BY <1>1, <1>3, <1>4, <1>5

LEMMA GoSteps ==
  ASSUME PlanInv, NEW c \in Calls, call[c].pc \notin Idling, NEW pc \in {"check", "resume", "mend", "index"},
         NEW rows, NEW left, Continue(c, pc, rows, left),
         torn' = torn, Apart(c), Grows(changes', At(c)),
         rows[At(c)].change \in {item[At(c)].change} \cup Own(changes', At(c)),
         At(c) \notin blame' =>
           LET i == At(c)  row == rows[At(c)] IN
           /\ pc \in {"check", "resume"} => Rests(i, row, disk', changes', Sound(i))
           /\ pc = "mend" =>
                /\ row.status = "applying" /\ row.proof # "rolled_back"
                /\ Written(disk', i, row.rev, left)
                /\ Sound(i) => Clean(i, row, changes')
           /\ pc = "index" =>
                /\ row.status \in Recovery /\ row.proof # "rolled_back"
                /\ Written(disk', i, row.rev, DOMAIN Ops[i])
                /\ Sound(i) => Named(i, row, changes')
  PROVE  Steps(c)
<1> DEFINE i == At(c)
           cl == call'[c]
<1>1. /\ item' = rows /\ call' = [call EXCEPT ![c] = cl]
      /\ cl.pc = pc /\ cl.at = i /\ cl.left = left /\ cl.seen[i] = rows[i]
      /\ \A j \in Items : cl.seen[j].change \in {call[c].seen[j].change, item'[j].change}
  BY GoShape
<1> HIDE DEF cl
<1>2. CASE pc \in {"check", "resume"}
  <2>1. call'[c].pc \notin Inside
    BY <1>1, <1>2 DEF Inside, cl
  <2> QED BY <1>1, <1>2, <2>1 DEF Steps, cl
<1>3. ASSUME i \notin blame', pc \in {"mend", "index"} PROVE Works(cl, rows[i], disk', changes', Sound(i))
  <2>1. /\ rows[i].status \in Recovery /\ rows[i].proof # "rolled_back"
        /\ pc = "mend" => rows[i].status = "applying"
        /\ Written(disk', i, rows[i].rev, Done(cl))
        /\ Sound(i) => (pc = "mend" => Clean(i, rows[i], changes')) /\ (pc = "index" => Named(i, rows[i], changes'))
    <3>1. Done(cl) = IF pc = "mend" THEN left ELSE DOMAIN Ops[i]
      BY <1>1, <1>3 DEF Done
    <3>2. CASE pc = "mend"
      BY <1>3, <3>1, <3>2 DEF Recovery
    <3>3. CASE pc = "index"
      BY <1>3, <3>1, <3>3
    <3> QED BY <1>3, <3>2, <3>3
  <2> HIDE DEF i
  <2> QED BY <1>1, <1>3, <2>1 DEF Works
<1>4. CASE pc \in {"mend", "index"}
  <2>1. cl.pc \in Inside
    BY <1>1, <1>4 DEF Inside
  <2>2. /\ At(c) \notin blame' => Works(cl, item'[At(c)], disk', changes', Sound(At(c)))
        /\ item'[At(c)].change \in {item[At(c)].change} \cup Own(changes', At(c))
    BY <1>1, <1>3, <1>4
  <2>3. \A j \in Items : cl.seen[j].change \in {0, call[c].seen[j].change, item[j].change, item'[j].change}
    BY <1>1
  <2>4. call' = [call EXCEPT ![c] = cl]
    BY <1>1
  <2> QED BY <2>1, <2>2, <2>3, <2>4, InsideSteps
<1> QED BY <1>2, <1>4

\* A call that enters its item without blame finds it as it read it, with nobody inside.
LEMMA EnterRests ==
  ASSUME Account, PlanInv, NEW c \in Calls, call[c].pc \in {"check", "recover", "resume"}, Enter(c), At(c) \notin blame'
  PROVE  /\ At(c) \notin blame /\ item[At(c)] = call[c].seen[At(c)]
         /\ Rests(At(c), item[At(c)], disk, changes, Sound(At(c)))
<1>1. At(c) \in Items
  BY AtWork DEF Idling
<1>2. At(c) \notin blame /\ item[At(c)] = call[c].seen[At(c)] /\ \A d \in Live \ {c} : At(d) # At(c)
  BY DEF Enter, Overlapped
<1>3. Empty(At(c))
  BY <1>2, InsideLives DEF Empty, Inside
<1> QED BY <1>1, <1>2, <1>3 DEF Account

\* A call inside an item nobody reached into.
LEMMA InsideWorks ==
  ASSUME Account, PlanInv, NEW c \in Calls, call[c].pc \in Inside
  PROVE  /\ call[c].pc \notin Idling /\ At(c) \in Items /\ call[c].at = At(c)
         /\ At(c) \notin blame =>
              /\ Works(call[c], item[At(c)], disk, changes, Sound(At(c)))
              /\ item[At(c)].rev = Rev(c)
<1>1. call[c].pc \notin Idling /\ At(c) \in Items
  BY AtWork DEF Inside, Idling
<1> QED BY <1>1 DEF Account, Works, At, Rev

\* The rows of a recovery that names the change n, and which change that is.
Renamed(i, n) == [Marked(i, "verification_pending", "pending") EXCEPT ![i].change = n]

Picks(i, r, sc, n) ==
  LET known == IF sc # 0 THEN {sc} ELSE Matching(i, r)
  IN IF known # {} THEN n = Max(known) /\ UNCHANGED changes
     ELSE n = Len(changes) + 1 /\ changes' = Recorded(i, r)

LEMMA NameShape ==
  ASSUME item \in [Items -> Row], NEW i \in Items, NEW n
  PROVE  /\ Renamed(i, n)[i].status = "verification_pending" /\ Renamed(i, n)[i].proof = "pending"
         /\ Renamed(i, n)[i].rev = item[i].rev /\ Renamed(i, n)[i].change = n
<1> DEFINE marked == Marked(i, "verification_pending", "pending")
<1>1. /\ marked[i].status = "verification_pending" /\ marked[i].proof = "pending" /\ marked[i].rev = item[i].rev
      /\ DOMAIN marked[i] = DOMAIN item[i] /\ DOMAIN marked = Items
  BY RowShape
<1>2. DOMAIN item[i] = {"status", "over", "rev", "change", "proof"}
  BY DEF Row
<1>3. Renamed(i, n) = [marked EXCEPT ![i].change = n]
  BY DEF Renamed
<1> HIDE DEF marked
<1> QED BY <1>1, <1>2, <1>3

\* The change a recovery names for a revision whose files are all written.
LEMMA RecoverNames ==
  ASSUME NEW i \in Items, NEW r \in Revisions, NEW sc \in Own(changes, i), changes \in Seq(Change), NEW n,
         Picks(i, r, sc, n)
  PROVE  /\ n \in Own(changes', i) /\ Grows(changes', i)
         /\ \/ sc = 0 /\ Kept(changes, i) = {}
            \/ \E m \in DOMAIN changes : Kept(changes, i) = {m} /\ changes[m].rev = r /\ sc \in {0, m}
            => n # 0 /\ Kept(changes', i) = {n} /\ changes'[n].rev = r
<1> DEFINE known == IF sc # 0 THEN {sc} ELSE Matching(i, r)
           A == sc = 0 /\ Kept(changes, i) = {}
           B == \E m \in DOMAIN changes : Kept(changes, i) = {m} /\ changes[m].rev = r /\ sc \in {0, m}
<1>1. DOMAIN changes = 1 .. Len(changes) /\ Len(changes) \in Nat
  OBVIOUS
<1>2. known \subseteq Own(changes, i) \ {0} /\ known \subseteq 1 .. Len(changes)
  BY <1>1 DEF Own, Matching
<1>3. B => known # {} /\ \A m \in known : Kept(changes, i) = {m} /\ changes[m].rev = r /\ m # 0
  <2> SUFFICES ASSUME B PROVE known # {} /\ \A m \in known : Kept(changes, i) = {m} /\ changes[m].rev = r /\ m # 0
    OBVIOUS
  <2>1. PICK m \in DOMAIN changes : Kept(changes, i) = {m} /\ changes[m].rev = r /\ sc \in {0, m}
    OBVIOUS
  <2>2. Matching(i, r) = {m}
    BY <2>1 DEF Kept, Matching
  <2>3. known = {m}
    BY <2>1, <2>2
  <2>4. m # 0
    BY <1>1
  <2> HIDE DEF known
  <2> QED BY <2>1, <2>3, <2>4
<1>4. A => known = {}
  BY DEF Kept, Matching
<1>5. IF known # {} THEN n = Max(known) /\ UNCHANGED changes ELSE n = Len(changes) + 1 /\ changes' = Recorded(i, r)
  BY DEF Picks
<1> HIDE DEF known, A, B
<1>6. CASE known # {}
  <2>1. n \in known
    BY <1>1, <1>2, <1>5, <1>6, MaxIn
  <2>2. Grows(changes', i)
    BY <1>5, <1>6, KeepsGrow
  <2>3. A \/ B => n # 0 /\ Kept(changes', i) = {n} /\ changes'[n].rev = r
    BY <1>3, <1>4, <1>5, <1>6, <2>1
  <2> QED BY <1>2, <1>5, <1>6, <2>1, <2>2, <2>3 DEF A, B
<1>7. CASE known = {}
  <2>1. /\ Grows(changes', i) /\ Kept(changes', i) = Kept(changes, i) \cup {n}
        /\ n \in DOMAIN changes' /\ changes'[n] = [item |-> i, rev |-> r, undone |-> FALSE] /\ n # 0
    BY <1>5, <1>7, RecordGrows
  <2>2. A \/ B => Kept(changes, i) = {}
    BY <1>3, <1>7 DEF A
  <2>3. n \in Own(changes', i)
    BY <2>1 DEF Own
  <2>4. A \/ B => n # 0 /\ Kept(changes', i) = {n} /\ changes'[n].rev = r
    BY <2>1, <2>2
  <2> QED BY <2>1, <2>3, <2>4 DEF A, B
<1> QED BY <1>6, <1>7

\* What a call that enters an item without blame knows of it.
LEMMA EnterKnows ==
  ASSUME Account, Assent, PlanInv, NEW c \in Calls, call[c].pc \in {"check", "recover", "resume"}, Enter(c),
         At(c) \notin blame'
  PROVE  LET i == At(c)  row == item[At(c)] IN
         /\ row = call[c].seen[i] /\ row.rev = Rev(c) /\ row.proof # "rolled_back"
         /\ call[c].pc = "check" => row.status = "approved" /\ Written(disk, i, row.rev, {})
         /\ call[c].pc = "recover" => row.status = "applying"
         /\ call[c].pc = "resume" => row.status = "verification_pending"
         /\ Sound(i) =>
              /\ call[c].pc = "check" => Clean(i, row, changes)
              /\ call[c].pc = "recover" => Clean(i, row, changes) \/ Found(i, row, disk, changes)
              /\ call[c].pc = "resume" => Named(i, row, changes)
<1>1. item[At(c)] = call[c].seen[At(c)] /\ Rests(At(c), item[At(c)], disk, changes, Sound(At(c)))
  BY EnterRests
<1>2. Stands(c)
  BY DEF Assent
<1> QED BY <1>1, <1>2 DEF Stands, Rests, Decidable, Rev

LEMMA RecoverSteps ==
  ASSUME Account, Owns, Assent, PlanInv, NEW c \in Calls, Recover(c)
  PROVE  Steps(c)
<1> DEFINE i == At(c)
           r == Rev(c)
           row == item[i]
<1>1. /\ call[c].pc = "recover" /\ call[c].pc \notin Idling /\ Enter(c) /\ torn' = torn /\ disk' = disk
  BY DEF Recover, Idling
<1>2. i \in Items /\ item \in [Items -> Row] /\ r \in Revisions /\ changes \in Seq(Change)
  BY <1>1, AtWork
<1>3. i \notin blame' =>
        /\ row = call[c].seen[i] /\ row.rev = r /\ row.status = "applying" /\ row.proof # "rolled_back"
        /\ Sound(i) => Clean(i, row, changes) \/ Found(i, row, disk, changes)
  BY <1>1, EnterKnows
<1>4. Grows(changes, i)
  BY KeepsGrow
<1>5. /\ All(i, r, "before") <=> Written(disk, i, r, {})
      /\ All(i, r, "after") <=> Written(disk, i, r, DOMAIN Ops[i])
      /\ \A k : StateOf(i, Ops[i][k], r) = StateIn(disk, i, Ops[i][k], r)
      /\ \A s : Some(i, r, s) <=> \E k \in DOMAIN Ops[i] : StateIn(disk, i, Ops[i][k], r) = s
  BY <1>2, AllIs, StateIs
<1>6. CASE All(i, r, "before") /\ Continue(c, "check", Marked(i, "approved", "none"), {}) /\ UNCHANGED changes
  <2> DEFINE rows == Marked(i, "approved", "none")
  <2>1. /\ rows[i].status = "approved" /\ rows[i].proof = "none" /\ rows[i].rev = row.rev
        /\ rows[i].change = row.change
    BY <1>2, RowShape
  <2>2. i \notin blame' /\ Sound(i) => Clean(i, row, changes)
    BY <1>2, <1>3, <1>5, <1>6, NotBoth DEF Found
  <2>3. Continue(c, "check", rows, {})
    BY <1>6
  <2> HIDE DEF rows
  <2>4. i \notin blame' => Rests(i, rows[i], disk, changes, Sound(i))
    BY <1>3, <1>5, <1>6, <2>1, <2>2 DEF Rests, Clean, Decidable
  <2> QED BY <1>1, <1>4, <1>6, <2>1, <2>3, <2>4, QuietApart, GoSteps
<1>7. CASE Some(i, r, "other") /\ Proceed(c, Marked(i, "verification_failed", "failed")) /\ UNCHANGED changes
  <2> DEFINE rows == Marked(i, "verification_failed", "failed")
  <2>1. /\ rows[i].status = "verification_failed" /\ rows[i].proof = "failed" /\ rows[i].rev = row.rev
        /\ rows[i].change = row.change
    BY <1>2, RowShape
  <2>2. i \notin blame' /\ Sound(i) => Clean(i, row, changes)
    BY <1>3, <1>5, <1>7 DEF Found, Written
  <2>3. Proceed(c, rows)
    BY <1>7
  <2> HIDE DEF rows
  <2>4. i \notin blame' => Rests(i, rows[i], disk, changes, Sound(i))
    BY <2>1, <2>2 DEF Rests, Clean, Decidable
  <2> QED BY <1>1, <1>4, <1>7, <2>1, <2>3, <2>4, QuietApart, LeaveSteps
<1>8. CASE /\ ~Some(i, r, "other") /\ Some(i, r, "before")
           /\ Continue(c, "mend", item, {k \in DOMAIN Ops[i] : StateOf(i, Ops[i][k], r) = "after"})
           /\ UNCHANGED changes
  <2> DEFINE left == {k \in DOMAIN Ops[i] : StateOf(i, Ops[i][k], r) = "after"}
  <2>1. Written(disk, i, r, left)
    BY <1>5, <1>8, StateRange DEF Written
  <2>2. i \notin blame' /\ Sound(i) => Clean(i, row, changes)
    BY <1>3, <1>5, <1>8 DEF Found, Written
  <2>3. Continue(c, "mend", item, left)
    BY <1>8
  <2> HIDE DEF left
  <2> QED BY <1>1, <1>3, <1>4, <1>8, <2>1, <2>2, <2>3, QuietApart, GoSteps
<1>9. ASSUME All(i, r, "after"), NEW n, Picks(i, r, call[c].seen[i].change, n), Continue(c, "resume", Renamed(i, n), {})
      PROVE  Steps(c)
  <2>1. /\ Renamed(i, n)[i].status = "verification_pending" /\ Renamed(i, n)[i].proof = "pending"
        /\ Renamed(i, n)[i].rev = row.rev /\ Renamed(i, n)[i].change = n
    BY <1>2, NameShape
  <2>2. call[c].seen[i].change \in Own(changes, i)
    BY <1>2 DEF Owns
  <2> DEFINE sc == call[c].seen[i].change
             A == sc = 0 /\ Kept(changes, i) = {}
             B == \E m \in DOMAIN changes : Kept(changes, i) = {m} /\ changes[m].rev = r /\ sc \in {0, m}
  <2>3. n \in Own(changes', i) /\ Grows(changes', i) /\ (A \/ B => n # 0 /\ Kept(changes', i) = {n} /\ changes'[n].rev = r)
    <3> HIDE DEF i, r
    <3> QED BY <1>2, <1>9, <2>2, RecoverNames
  <2>4. i \notin blame' /\ Sound(i) => A \/ B
    BY <1>3 DEF Clean, Found
  <2> HIDE DEF A, B
  <2>5. i \notin blame' => Rests(i, Renamed(i, n)[i], disk, changes', Sound(i))
    BY <1>3, <1>5, <1>9, <2>1, <2>3, <2>4 DEF Rests, Named, Decidable
  <2>6. Renamed(i, n)[i].change \in {item[i].change} \cup Own(changes', i)
    BY <2>1, <2>3
  <2> QED BY <1>1, <1>9, <2>3, <2>5, <2>6, QuietApart, GoSteps
<1>10. ASSUME LET known == IF call[c].seen[i].change # 0 THEN {call[c].seen[i].change} ELSE Matching(i, r)
                  rows(n) == [Marked(i, "verification_pending", "pending") EXCEPT ![i].change = n]
              IN IF known # {}
                 THEN Continue(c, "resume", rows(Max(known)), {}) /\ UNCHANGED changes
                 ELSE Continue(c, "resume", rows(Len(changes) + 1), {}) /\ changes' = Recorded(i, r)
       PROVE  \E n : Picks(i, r, call[c].seen[i].change, n) /\ Continue(c, "resume", Renamed(i, n), {})
  <2> DEFINE known == IF call[c].seen[i].change # 0 THEN {call[c].seen[i].change} ELSE Matching(i, r)
             n == IF known # {} THEN Max(known) ELSE Len(changes) + 1
  <2> HIDE DEF i, r
  <2>1. Continue(c, "resume", Renamed(i, n), {})
    <3>1. CASE known # {}
      BY <1>10, <3>1 DEF Renamed
    <3>2. CASE known = {}
      BY <1>10, <3>2 DEF Renamed
    <3> QED BY <3>1, <3>2
  <2>2. Picks(i, r, call[c].seen[i].change, n)
    BY <1>10 DEF Picks
  <2> QED BY <2>1, <2>2
<1>11. \/ All(i, r, "before") /\ Continue(c, "check", Marked(i, "approved", "none"), {}) /\ UNCHANGED changes
       \/ Some(i, r, "other") /\ Proceed(c, Marked(i, "verification_failed", "failed")) /\ UNCHANGED changes
       \/ /\ ~Some(i, r, "other") /\ Some(i, r, "before")
          /\ Continue(c, "mend", item, {k \in DOMAIN Ops[i] : StateOf(i, Ops[i][k], r) = "after"})
          /\ UNCHANGED changes
       \/ /\ All(i, r, "after")
          /\ LET known == IF call[c].seen[i].change # 0 THEN {call[c].seen[i].change} ELSE Matching(i, r)
                 rows(n) == [Marked(i, "verification_pending", "pending") EXCEPT ![i].change = n]
             IN IF known # {}
                THEN Continue(c, "resume", rows(Max(known)), {}) /\ UNCHANGED changes
                ELSE Continue(c, "resume", rows(Len(changes) + 1), {}) /\ changes' = Recorded(i, r)
  BY DEF Recover
<1> QED BY <1>6, <1>7, <1>8, <1>9, <1>10, <1>11

\* A call writes or puts back an operation of its item.
LEMMA PutOne ==
  ASSUME disk \in [Paths -> Contents], NEW c \in Calls, At(c) \in Items, NEW k \in DOMAIN Ops[At(c)],
         NEW r \in Revisions, NEW D \in {Performed(At(c), Ops[At(c)][k], r), Restored(Ops[At(c)][k])},
         Put(c, D, Touched(Ops[At(c)][k]))
  PROVE  disk' = D /\ blame \subseteq blame' /\ Apart(c)
<1>1. disk' = D /\ blame \subseteq blame'
  BY DEF Put
<1>2. \A p \in Paths \ Touched(Ops[At(c)][k]) : D[p] = disk[p]
  BY WritesOne
<1> QED BY <1>1, <1>2, PutApart

\* A failed verification promises nothing of the files, and no change but the row's.
LEMMA FailRests ==
  ASSUME item \in [Items -> Row], NEW i \in Items, NEW dk, NEW ch, NEW sound,
         sound => Kept(ch, i) \subseteq {item[i].change}
  PROVE  /\ Rests(i, Marked(i, "verification_failed", "failed")[i], dk, ch, sound)
         /\ Marked(i, "verification_failed", "failed")[i].change = item[i].change
<1> DEFINE row == Marked(i, "verification_failed", "failed")[i]
<1>1. row.status = "verification_failed" /\ row.proof = "failed" /\ row.change = item[i].change
  BY RowShape
<1> HIDE DEF row
<1> QED BY <1>1 DEF Rests, Decidable, row

\* A blocked or deferred item: its files and its change are as they were.
LEMMA CleanRests ==
  ASSUME NEW i, NEW row, NEW dk, NEW ch, NEW sound, row.status \in Decidable, row.proof # "rolled_back",
         Written(dk, i, row.rev, {}), sound => Clean(i, row, ch)
  PROVE  Rests(i, row, dk, ch, sound)
BY DEF Rests, Decidable

\* The operation a call puts back next.
LEMMA NextLeft ==
  ASSUME PlanInv, NEW c \in Calls, call[c].pc \in Writing \ {"write"}, call[c].left # {}
  PROVE  Max(call[c].left) \in call[c].left /\ Max(call[c].left) \in DOMAIN Ops[At(c)]
<1>1. /\ Len(Ops[At(c)]) \in Nat /\ DOMAIN Ops[At(c)] = 1 .. Len(Ops[At(c)])
      /\ call[c].left \subseteq DOMAIN Ops[At(c)]
  BY AtWork DEF Writing, Idling
<1>2. Max(call[c].left) \in call[c].left
  BY <1>1, MaxIn
<1> QED BY <1>1, <1>2

LEMMA MendSteps ==
  ASSUME Account, Owns, Assent, PlanInv, NEW c \in Calls, Mend(c) \/ Mended(c)
  PROVE  Steps(c)
<1> DEFINE i == At(c)
           row == item[i]
           k == Max(call[c].left)
<1>1. call[c].pc = "mend" /\ call[c].pc \in Inside /\ call[c].pc \notin Idling /\ torn' = torn /\ changes' = changes
      /\ blame \subseteq blame'
  BY DEF Mend, Mended, Put, NoPut, Idling, Inside, history
<1>2. i \in Items /\ item \in [Items -> Row] /\ disk \in [Paths -> Contents] /\ row.rev \in Revisions /\ Rev(c) \in Revisions
  BY <1>1, AtWork DEF Row
<1>3. Grows(changes, i)
  BY KeepsGrow
<1>4. i \notin blame =>
        /\ row.proof # "rolled_back" /\ row.status = "applying"
        /\ Written(disk, i, row.rev, call[c].left)
        /\ Sound(i) => Clean(i, row, changes)
  BY <1>1, InsideWorks DEF Works, Done
<1>5. CASE Mended(c)
  <2> DEFINE rows == Marked(i, "approved", "none")
  <2>1. /\ rows[i].status = "approved" /\ rows[i].proof = "none" /\ rows[i].rev = row.rev
        /\ rows[i].change = row.change
    BY <1>2, RowShape
  <2>2. Continue(c, "check", rows, {}) /\ disk' = disk /\ call[c].left = {}
    BY <1>5 DEF Mended
  <2> HIDE DEF rows
  <2>3. i \notin blame => Rests(i, rows[i], disk, changes, Sound(i))
    <3>1. i \notin blame /\ Sound(i) => Clean(i, rows[i], changes)
      BY <1>4, <2>1 DEF Clean
    <3> QED BY <1>4, <2>1, <2>2, <3>1, CleanRests DEF Decidable
  <2> QED BY <1>1, <1>3, <2>1, <2>2, <2>3, QuietApart, GoSteps
<1>6. CASE /\ Put(c, Restored(Ops[i][k]), Touched(Ops[i][k])) /\ call[c].left # {}
           /\ Continue(c, "mend", item, call[c].left \ {k})
  <2>1. k \in call[c].left /\ k \in DOMAIN Ops[i]
    BY <1>1, <1>6, NextLeft DEF Writing
  <2> HIDE DEF k, i
  <2>2. disk' = Restored(Ops[i][k]) /\ Apart(c)
    BY <1>2, <1>6, <2>1, PutOne DEF i
  <2>3. i \notin blame => Written(disk', i, row.rev, call[c].left \ {k})
    BY <1>2, <1>4, <2>1, <2>2, WritesNext
  <2> QED BY <1>1, <1>3, <1>4, <1>6, <2>2, <2>3, QuietApart, GoSteps DEF i
<1>7. CASE Throw(c, Marked(i, "verification_failed", "failed")) /\ disk' = disk
  <2>1. i \notin blame /\ Sound(i) => Kept(changes, i) \subseteq {row.change}
    BY <1>4 DEF Clean
  <2>2. i \notin blame => Rests(i, Marked(i, "verification_failed", "failed")[i], disk, changes, Sound(i))
    BY <1>2, <2>1, FailRests
  <2>3. Marked(i, "verification_failed", "failed")[i].change = row.change
    BY <1>2, RowShape
  <2> QED BY <1>1, <1>3, <1>7, <2>2, <2>3, QuietApart, LeaveSteps
<1> QED BY <1>5, <1>6, <1>7 DEF Mend, NoPut

LEMMA CheckSteps ==
  ASSUME Account, Owns, Assent, PlanInv, NEW c \in Calls, Check(c)
  PROVE  Steps(c)
<1> DEFINE i == At(c)
           r == Rev(c)
           row == item[i]
<1>1. /\ call[c].pc = "check" /\ call[c].pc \notin Idling /\ Enter(c) /\ torn' = torn /\ disk' = disk /\ changes' = changes
  BY DEF Check, Idling
<1>2. i \in Items /\ item \in [Items -> Row] /\ r \in Revisions /\ call \in [Calls -> CallType] /\ call[c] \in CallType
  BY <1>1, Typed
<1>3. i \notin blame' =>
        /\ row = call[c].seen[i] /\ row.rev = r /\ row.proof # "rolled_back" /\ row.status = "approved"
        /\ Written(disk, i, row.rev, {})
        /\ Sound(i) => Clean(i, row, changes)
  BY <1>1, EnterKnows
<1>4. Grows(changes, i)
  BY KeepsGrow
<1>5. All(i, r, "before") <=> Written(disk, i, r, {})
  BY <1>2, AllIs
\* The call leaves the item with a row that says it is not written.
<1>6. ASSUME NEW rows, Proceed(c, rows), rows[i].rev = row.rev, rows[i].change = row.change,
             i \notin blame' => rows[i].status \in Decidable /\ rows[i].proof # "rolled_back"
      PROVE  Steps(c)
  <2>1. i \notin blame' => Rests(i, rows[i], disk, changes, Sound(i))
    <3>1. i \notin blame' /\ Sound(i) => Clean(i, rows[i], changes)
      BY <1>3, <1>6 DEF Clean
    <3> QED BY <1>3, <1>6, <3>1, CleanRests
  <2> QED BY <1>1, <1>4, <1>6, <2>1, QuietApart, LeaveSteps
<1>7. CASE ~All(i, r, "before") /\ Proceed(c, Marked(i, "stale", "failed"))
  <2>1. i \in blame'
    BY <1>3, <1>5, <1>7
  <2>2. Marked(i, "stale", "failed")[i].rev = row.rev /\ Marked(i, "stale", "failed")[i].change = row.change
    BY <1>2, RowShape
  <2> QED BY <1>6, <1>7, <2>1, <2>2
<1>8. CASE Proceed(c, Blocked(i))
  <2>1. /\ Blocked(i)[i].status = "blocked" /\ Blocked(i)[i].proof = row.proof
        /\ Blocked(i)[i].rev = row.rev /\ Blocked(i)[i].change = row.change
    BY <1>2, RowShape
  <2> QED BY <1>3, <1>6, <1>8, <2>1 DEF Decidable
<1>9. CASE Proceed(c, [Marked(i, "proposed", "none") EXCEPT ![i].over = TRUE])
  <2> DEFINE marked == Marked(i, "proposed", "none")
             rows == [marked EXCEPT ![i].over = TRUE]
  <2>1. /\ marked[i].status = "proposed" /\ marked[i].proof = "none" /\ marked[i].rev = row.rev
        /\ marked[i].change = row.change /\ DOMAIN marked = Items /\ DOMAIN marked[i] = DOMAIN row
    BY <1>2, RowShape
  <2>2. Proceed(c, rows)
    BY <1>9
  <2> HIDE DEF marked
  <2>3. rows[i].status = "proposed" /\ rows[i].proof = "none" /\ rows[i].rev = row.rev /\ rows[i].change = row.change
    BY <1>2, <2>1
  <2> HIDE DEF rows
  <2> QED BY <1>6, <2>2, <2>3 DEF Decidable
<1>10. CASE /\ item' = Marked(i, "applying", "none")
            /\ call' = [call EXCEPT ![c].pc = "write", ![c].k = 0, ![c].spent = call[c].spent \cup {i}]
  <2> DEFINE cl == [call[c] EXCEPT !.pc = "write", !.k = 0, !.spent = call[c].spent \cup {i}]
  <2>1. call' = [call EXCEPT ![c] = cl]
    BY <1>2, <1>10
  <2>2. cl.pc = "write" /\ cl.at = i /\ cl.k = 0 /\ cl.seen = call[c].seen
    BY <1>2 DEF CallType, At
  <2> HIDE DEF cl
  <2>3. /\ item'[i].status = "applying" /\ item'[i].proof = "none" /\ item'[i].rev = row.rev
        /\ item'[i].change = row.change
    BY <1>2, <1>10, RowShape
  <2>4. cl.pc \in Inside /\ Done(cl) = {}
    BY <2>2 DEF Inside, Done
  <2>5. ASSUME i \notin blame' PROVE Works(cl, item'[i], disk, changes, Sound(i))
    <3>1. Sound(i) => Clean(i, item'[i], changes)
      BY <1>3, <2>3, <2>5 DEF Clean
    <3>2. item'[i].rev = cl.seen[i].rev /\ item'[i].change = cl.seen[i].change /\ Written(disk, i, item'[i].rev, {})
      BY <1>3, <2>2, <2>3, <2>5
    <3> HIDE DEF i
    <3> QED BY <2>2, <2>3, <2>4, <3>1, <3>2 DEF Works, Recovery
  <2>6. \A j \in Items : cl.seen[j].change \in {0, call[c].seen[j].change, item[j].change, item'[j].change}
    BY <2>2
  <2> QED BY <1>1, <1>4, <2>1, <2>3, <2>4, <2>5, <2>6, QuietApart, InsideSteps
<1> QED BY <1>7, <1>8, <1>9, <1>10 DEF Check

\* A call that stays inside its item, whose row it leaves alone.
LEMMA StaySteps ==
  ASSUME Account, PlanInv, NEW c \in Calls, call[c].pc \in Inside, NEW cl, call' = [call EXCEPT ![c] = cl],
         cl.pc \in Inside, cl.at = At(c), cl.seen = call[c].seen,
         UNCHANGED <<item, torn>>, blame \subseteq blame', Apart(c), Grows(changes', At(c)),
         At(c) \notin blame =>
           LET i == At(c) IN
           /\ cl.pc \in {"mend", "write", "restore"} => item[i].status = "applying"
           /\ Written(disk', i, item[i].rev, Done(cl))
           /\ Sound(i) =>
                /\ cl.pc \in {"mend", "write", "restore"} => Clean(i, item[i], changes')
                /\ cl.pc \in {"index", "verify", "undo"} => Named(i, item[i], changes')
                /\ cl.pc = "reindex" => Kept(changes', i) = {}
  PROVE  Steps(c)
<1>1. call[c].pc \notin Idling /\ call[c].at = At(c)
      /\ (At(c) \notin blame => Works(call[c], item[At(c)], disk, changes, Sound(At(c))))
  BY InsideWorks
<1>2. At(c) \notin blame' => Works(cl, item'[At(c)], disk', changes', Sound(At(c)))
  BY <1>1 DEF Works
<1>3. /\ item'[At(c)].change \in {item[At(c)].change} \cup Own(changes', At(c))
      /\ \A j \in Items : cl.seen[j].change \in {0, call[c].seen[j].change, item[j].change, item'[j].change}
  OBVIOUS
<1> QED BY <1>1, <1>2, <1>3, InsideSteps

LEMMA WriteSteps ==
  ASSUME Account, Owns, Assent, PlanInv, NEW c \in Calls, Write(c)
  PROVE  Steps(c)
<1> DEFINE i == At(c)
           row == item[i]
           k == call[c].k + 1
<1>1. call[c].pc = "write" /\ call[c].pc \in Inside /\ UNCHANGED <<item, torn, changes>> /\ k \in DOMAIN Ops[i]
      /\ blame \subseteq blame'
  BY DEF Write, Put, NoPut, Inside
<1>2. /\ i \in Items /\ item \in [Items -> Row] /\ disk \in [Paths -> Contents] /\ Rev(c) \in Revisions
      /\ call \in [Calls -> CallType] /\ call[c] \in CallType
  BY <1>1, Typed DEF Idling
<1>3. Grows(changes, i)
  BY KeepsGrow
<1>4. i \notin blame =>
        /\ row.status = "applying" /\ row.rev = Rev(c)
        /\ Written(disk, i, row.rev, 1 .. call[c].k)
        /\ Sound(i) => Clean(i, row, changes)
  BY <1>1, InsideWorks DEF Works, Done
<1>5. CASE Put(c, Performed(i, Ops[i][k], Rev(c)), Touched(Ops[i][k])) /\ call' = [call EXCEPT ![c].k = k]
  <2> DEFINE cl == [call[c] EXCEPT !.k = k]
  <2>1. call' = [call EXCEPT ![c] = cl]
    BY <1>5
  <2>2. cl.pc = "write" /\ cl.at = At(c) /\ cl.seen = call[c].seen /\ cl.k = k
    BY <1>1, <1>2 DEF CallType, At
  <2>n. call[c].k \in Nat
    BY <1>2 DEF CallType
  <2>3. (1 .. call[c].k) \cup {k} = 1 .. k /\ k \notin 1 .. call[c].k
    <3>1. \A m \in Nat : (1 .. m) \cup {m + 1} = 1 .. (m + 1) /\ m + 1 \notin 1 .. m
      OBVIOUS
    <3> QED BY <2>n, <3>1
  <2> HIDE DEF cl, k, i
  <2>4. Done(cl) = 1 .. k
    BY <2>2 DEF Done
  <2>5. disk' = Performed(i, Ops[i][k], Rev(c)) /\ Apart(c)
    BY <1>1, <1>2, <1>5, PutOne DEF i
  <2>6. ASSUME i \notin blame PROVE Written(disk', i, row.rev, Done(cl))
    <3>1. Written(disk', i, Rev(c), (1 .. call[c].k) \cup {k})
      BY <1>1, <1>2, <1>4, <2>3, <2>5, <2>6, WritesNext
    <3> QED BY <1>4, <2>3, <2>4, <2>6, <3>1
  <2> QED BY <1>1, <1>3, <1>4, <2>1, <2>2, <2>5, <2>6, QuietApart, StaySteps DEF i
<1>6. CASE disk' = disk /\ call' = [call EXCEPT ![c].pc = "restore", ![c].left = 1 .. call[c].k]
  <2> DEFINE cl == [call[c] EXCEPT !.pc = "restore", !.left = 1 .. call[c].k]
  <2>1. call' = [call EXCEPT ![c] = cl]
    BY <1>2, <1>6
  <2>2. cl.pc = "restore" /\ cl.at = At(c) /\ cl.seen = call[c].seen /\ cl.left = 1 .. call[c].k
    BY <1>1, <1>2 DEF CallType, At
  <2> HIDE DEF cl
  <2>3. Done(cl) = 1 .. call[c].k /\ cl.pc \in Inside
    BY <2>2 DEF Done, Inside
  <2> QED BY <1>1, <1>3, <1>4, <1>6, <2>1, <2>2, <2>3, QuietApart, StaySteps
<1> QED BY <1>5, <1>6 DEF Write, NoPut

LEMMA RecordSteps ==
  ASSUME Account, Owns, Assent, PlanInv, NEW c \in Calls, Record(c)
  PROVE  Steps(c)
<1> DEFINE i == At(c)
           row == item[i]
           n == Len(changes) + 1
<1>1. call[c].pc = "write" /\ call[c].pc \in Inside /\ call[c].pc \notin Idling /\ UNCHANGED <<torn, blame, disk>>
      /\ call[c].k = Len(Ops[i])
  BY DEF Record, Inside, Idling, history
<1>2. /\ i \in Items /\ item \in [Items -> Row] /\ Rev(c) \in Revisions /\ changes \in Seq(Change)
      /\ call \in [Calls -> CallType] /\ call[c] \in CallType
      /\ DOMAIN Ops[i] = 1 .. Len(Ops[i])
  BY <1>1, Typed, AtWork
<1>3. i \notin blame =>
        /\ row.status = "applying" /\ row.proof # "rolled_back" /\ row.rev = Rev(c) /\ row.rev = call[c].seen[i].rev
        /\ Written(disk, i, row.rev, DOMAIN Ops[i])
        /\ Sound(i) => Clean(i, row, changes)
  BY <1>1, <1>2, InsideWorks DEF Works, Done, Rev
<1>4. CASE /\ changes' = Recorded(i, Rev(c))
           /\ item' = [item EXCEPT ![i].change = n]
           /\ call' = [call EXCEPT ![c].pc = "index", ![c].seen[i].change = n]
  <2> DEFINE seen == [call[c].seen EXCEPT ![i].change = n]
             cl == [call[c] EXCEPT !.pc = "index", !.seen = seen]
  <2>1. call' = [call EXCEPT ![c] = cl]
    BY <1>2, <1>4
  <2>2. call[c].seen \in [Items -> Row]
    BY <1>2 DEF CallType
  <2>3. /\ seen[i].rev = call[c].seen[i].rev /\ seen[i].change = n
        /\ \A j \in Items : seen[j].change \in {n, call[c].seen[j].change}
    BY <1>2, <2>2 DEF Row
  <2> HIDE DEF seen
  <2>4. cl.pc = "index" /\ cl.at = At(c) /\ cl.seen = seen
    BY <1>2 DEF CallType, At
  <2> HIDE DEF cl
  <2>5. cl.pc \in Inside /\ Done(cl) = DOMAIN Ops[i]
    BY <2>4 DEF Inside, Done
  <2>6. /\ item'[i].status = row.status /\ item'[i].proof = row.proof /\ item'[i].rev = row.rev
        /\ item'[i].change = n
    BY <1>2, <1>4 DEF Row
  <2>7. /\ Grows(changes', i) /\ Kept(changes', i) = Kept(changes, i) \cup {n}
        /\ n \in DOMAIN changes' /\ changes'[n] = [item |-> i, rev |-> Rev(c), undone |-> FALSE] /\ n # 0
    BY <1>2, <1>4, RecordGrows
  <2>8. ASSUME i \notin blame' PROVE Works(cl, item'[i], disk', changes', Sound(i))
    <3>1. Sound(i) => Named(i, item'[i], changes')
      BY <1>1, <1>3, <2>6, <2>7, <2>8 DEF Clean, Named
    <3>2. item'[i].rev = cl.seen[i].rev /\ item'[i].change = cl.seen[i].change
      BY <1>1, <1>3, <2>3, <2>4, <2>6, <2>8
    <3>3. Written(disk', i, item'[i].rev, Done(cl)) /\ item'[i].proof # "rolled_back" /\ item'[i].status \in Recovery
      BY <1>1, <1>3, <2>5, <2>6, <2>8 DEF Recovery
    <3>4. cl.at = i
      BY <2>4
    <3> HIDE DEF i, n
    <3> QED BY <2>4, <3>1, <3>2, <3>3, <3>4 DEF Works
  <2>9. /\ item'[i].change \in {item[i].change} \cup Own(changes', i)
        /\ \A j \in Items : cl.seen[j].change \in {0, call[c].seen[j].change, item[j].change, item'[j].change}
    <3>1. n \in Own(changes', i)
      BY <2>7 DEF Own
    <3>2. \A j \in Items \ {i} : cl.seen[j].change = call[c].seen[j].change
      BY <2>4, <2>2 DEF seen
    <3> QED BY <2>3, <2>4, <2>6, <3>1, <3>2
  <2> QED BY <1>1, <2>1, <2>5, <2>7, <2>8, <2>9, QuietApart, InsideSteps
<1>5. CASE /\ call' = [call EXCEPT ![c].pc = "restore", ![c].left = DOMAIN Ops[i]]
           /\ UNCHANGED <<changes, item>>
  <2> DEFINE cl == [call[c] EXCEPT !.pc = "restore", !.left = DOMAIN Ops[i]]
  <2>1. call' = [call EXCEPT ![c] = cl]
    BY <1>2, <1>5
  <2>2. cl.pc = "restore" /\ cl.at = At(c) /\ cl.seen = call[c].seen /\ cl.left = DOMAIN Ops[i]
    BY <1>1, <1>2 DEF CallType, At
  <2> HIDE DEF cl
  <2>3. Done(cl) = DOMAIN Ops[i] /\ cl.pc \in Inside
    BY <2>2 DEF Done, Inside
  <2>4. Grows(changes', i)
    BY <1>5, KeepsGrow
  <2> QED BY <1>1, <1>3, <1>5, <2>1, <2>2, <2>3, <2>4, QuietApart, StaySteps
<1> QED BY <1>4, <1>5 DEF Record

LEMMA RestoreSteps ==
  ASSUME Account, Owns, Assent, PlanInv, NEW c \in Calls, Restore(c) \/ GiveUp(c)
  PROVE  Steps(c)
<1> DEFINE i == At(c)
           row == item[i]
           k == Max(call[c].left)
<1>1. /\ call[c].pc = "restore" /\ call[c].pc \in Inside /\ call[c].pc \notin Idling
      /\ UNCHANGED <<torn, changes>> /\ blame \subseteq blame'
  BY DEF Restore, GiveUp, Put, NoPut, Inside, Idling, history
<1>2. /\ i \in Items /\ item \in [Items -> Row] /\ disk \in [Paths -> Contents] /\ Rev(c) \in Revisions
      /\ call \in [Calls -> CallType] /\ call[c] \in CallType
  BY <1>1, Typed
<1>3. Grows(changes, i)
  BY KeepsGrow
<1>4. i \notin blame =>
        /\ row.status = "applying" /\ row.proof # "rolled_back" /\ row.rev = Rev(c)
        /\ Written(disk, i, row.rev, call[c].left)
        /\ Sound(i) => Clean(i, row, changes)
  BY <1>1, InsideWorks DEF Works, Done
<1>5. CASE /\ call[c].left # {} /\ Put(c, Restored(Ops[i][k]), Touched(Ops[i][k]))
           /\ call' = [call EXCEPT ![c].left = call[c].left \ {k}] /\ UNCHANGED item
  <2> DEFINE cl == [call[c] EXCEPT !.left = call[c].left \ {k}]
  <2>1. call' = [call EXCEPT ![c] = cl]
    BY <1>5
  <2>2. cl.pc = "restore" /\ cl.at = At(c) /\ cl.seen = call[c].seen /\ cl.left = call[c].left \ {k}
    BY <1>1, <1>2 DEF CallType, At
  <2>3. k \in call[c].left /\ k \in DOMAIN Ops[i]
    BY <1>1, <1>5, NextLeft DEF Writing
  <2> HIDE DEF cl, k, i
  <2>4. Done(cl) = call[c].left \ {k}
    BY <2>2 DEF Done
  <2>5. disk' = Restored(Ops[i][k]) /\ Apart(c)
    BY <1>2, <1>5, <2>3, PutOne DEF i
  <2>6. ASSUME i \notin blame PROVE Written(disk', i, row.rev, Done(cl))
    <3>1. Written(disk', i, Rev(c), call[c].left \ {k})
      BY <1>2, <1>4, <2>3, <2>5, <2>6, WritesNext
    <3> QED BY <1>4, <2>4, <2>6, <3>1
  <2> QED BY <1>1, <1>3, <1>4, <1>5, <2>1, <2>2, <2>5, <2>6, QuietApart, StaySteps DEF i
<1>6. CASE Throw(c, Marked(i, "verification_failed", "failed")) /\ disk' = disk
  <2>1. i \notin blame /\ Sound(i) => Kept(changes, i) \subseteq {row.change}
    BY <1>4 DEF Clean
  <2>2. i \notin blame => Rests(i, Marked(i, "verification_failed", "failed")[i], disk, changes, Sound(i))
    BY <1>2, <2>1, FailRests
  <2>3. Marked(i, "verification_failed", "failed")[i].change = row.change
    BY <1>2, RowShape
  <2> QED BY <1>1, <1>3, <1>6, <2>2, <2>3, QuietApart, LeaveSteps
<1>7. CASE call[c].left = {} /\ Proceed(c, Blocked(i)) /\ disk' = disk
  <2>1. /\ Blocked(i)[i].status = "blocked" /\ Blocked(i)[i].proof = row.proof
        /\ Blocked(i)[i].rev = row.rev /\ Blocked(i)[i].change = row.change
    BY <1>2, RowShape
  <2>2. i \notin blame => Rests(i, Blocked(i)[i], disk, changes, Sound(i))
    <3>1. i \notin blame /\ Sound(i) => Clean(i, Blocked(i)[i], changes)
      BY <1>4, <2>1 DEF Clean
    <3> QED BY <1>4, <1>7, <2>1, <3>1, CleanRests DEF Decidable
  <2> QED BY <1>1, <1>3, <1>7, <2>1, <2>2, QuietApart, LeaveSteps
<1> QED BY <1>5, <1>6, <1>7 DEF Restore, GiveUp, NoPut

LEMMA ResumeSteps ==
  ASSUME Account, Owns, Assent, PlanInv, NEW c \in Calls, Resume(c)
  PROVE  Steps(c)
<1> DEFINE i == At(c)
           row == item[i]
<1>1. /\ call[c].pc = "resume" /\ call[c].pc \notin Idling /\ Enter(c) /\ torn' = torn /\ disk' = disk /\ changes' = changes
  BY DEF Resume, Idling
<1>2. i \in Items /\ item \in [Items -> Row]
  BY <1>1, AtWork
<1>3. i \notin blame' =>
        /\ row.rev = Rev(c) /\ row.proof # "rolled_back" /\ row.status = "verification_pending"
        /\ Sound(i) => Named(i, row, changes)
  BY <1>1, EnterKnows
<1>4. Grows(changes, i)
  BY KeepsGrow
<1>5. CASE All(i, Rev(c), "after") /\ Continue(c, "index", item, {})
  <2>1. Written(disk, i, Rev(c), DOMAIN Ops[i])
    BY <1>2, <1>5, AllIs
  <2> QED BY <1>1, <1>3, <1>4, <1>5, <2>1, QuietApart, GoSteps DEF Recovery
<1>6. CASE Proceed(c, Marked(i, "verification_failed", "failed"))
  <2>1. i \notin blame' /\ Sound(i) => Kept(changes, i) \subseteq {row.change}
    BY <1>3 DEF Named
  <2>2. i \notin blame' => Rests(i, Marked(i, "verification_failed", "failed")[i], disk, changes, Sound(i))
    BY <1>2, <2>1, FailRests
  <2>3. Marked(i, "verification_failed", "failed")[i].change = row.change
    BY <1>2, RowShape
  <2> QED BY <1>1, <1>4, <1>6, <2>2, <2>3, QuietApart, LeaveSteps
<1> QED BY <1>5, <1>6 DEF Resume

\* What a call inside an item has recorded and is still verifying.
LEMMA VerifyingKnows ==
  ASSUME Account, PlanInv, NEW c \in Calls, call[c].pc \in {"index", "verify", "undo", "reindex"}
  PROVE  LET i == At(c)  row == item[At(c)] IN
         /\ call[c].pc \in Inside /\ call[c].pc \notin Idling
         /\ i \in Items /\ item \in [Items -> Row] /\ disk \in [Paths -> Contents] /\ Rev(c) \in Revisions
         /\ call \in [Calls -> CallType] /\ call[c] \in CallType
         /\ i \notin blame =>
              /\ row.rev = Rev(c) /\ row.change = call[c].seen[i].change
              /\ row.proof # "rolled_back"
              /\ Written(disk, i, row.rev, Done(call[c]))
              /\ Sound(i) =>
                   /\ call[c].pc # "reindex" => Named(i, row, changes)
                   /\ call[c].pc = "reindex" => Kept(changes, i) = {}
                   /\ Kept(changes, i) \subseteq {row.change}
<1>1. call[c].pc \in Inside /\ call[c].pc \notin Idling
  BY DEF Inside, Idling
<1>2. /\ At(c) \in Items /\ item \in [Items -> Row] /\ disk \in [Paths -> Contents] /\ Rev(c) \in Revisions
      /\ call \in [Calls -> CallType] /\ call[c] \in CallType
  BY <1>1, Typed
<1>3. At(c) \notin blame => Works(call[c], item[At(c)], disk, changes, Sound(At(c))) /\ item[At(c)].rev = Rev(c)
      /\ call[c].at = At(c)
  BY <1>1, InsideWorks
<1> QED BY <1>1, <1>2, <1>3 DEF Works, Named

\* A verification that fails, whatever the files then hold.
LEMMA FailSteps ==
  ASSUME Account, PlanInv, NEW c \in Calls, call[c].pc \in {"index", "verify", "undo", "reindex"},
         Proceed(c, Marked(At(c), "verification_failed", "failed")), UNCHANGED <<torn, changes>>,
         blame \subseteq blame', Apart(c)
  PROVE  Steps(c)
<1> DEFINE i == At(c)
<1>1. /\ call[c].pc \notin Idling /\ i \in Items /\ item \in [Items -> Row]
      /\ i \notin blame /\ Sound(i) => Kept(changes, i) \subseteq {item[i].change}
  BY VerifyingKnows
<1>2. i \notin blame => Rests(i, Marked(i, "verification_failed", "failed")[i], disk', changes, Sound(i))
  BY <1>1, FailRests
<1>3. Marked(i, "verification_failed", "failed")[i].change = item[i].change
  BY <1>1, RowShape
<1>4. Grows(changes, i)
  BY KeepsGrow
<1> QED BY <1>1, <1>2, <1>3, <1>4, LeaveSteps

LEMMA VerifySteps ==
  ASSUME Account, Owns, Assent, PlanInv, NEW c \in Calls, Index(c) \/ Verify(c)
  PROVE  Steps(c)
<1> DEFINE i == At(c)
           row == item[i]
<1>1. call[c].pc \in {"index", "verify"} /\ UNCHANGED <<torn, blame, changes, disk>>
  BY DEF Index, Verify, history
<1>2. /\ call[c].pc \in Inside /\ call[c].pc \notin Idling
      /\ i \in Items /\ item \in [Items -> Row] /\ call \in [Calls -> CallType] /\ call[c] \in CallType
      /\ i \notin blame =>
           /\ row.rev = Rev(c) /\ row.proof # "rolled_back"
           /\ Written(disk, i, row.rev, DOMAIN Ops[i])
           /\ Sound(i) => Named(i, row, changes)
  BY <1>1, VerifyingKnows DEF Done, At
<1>3. Grows(changes, i)
  BY KeepsGrow
<1>4. ASSUME NEW cl, call' = [call EXCEPT ![c] = cl], cl.pc \in {"verify", "undo"}, cl.at = i, cl.seen = call[c].seen,
             cl.pc = "undo" => cl.left = DOMAIN Ops[i], item' = item
      PROVE  Steps(c)
  <2>1. Done(cl) = DOMAIN Ops[i] /\ cl.pc \in Inside
    BY <1>4 DEF Done, Inside
  <2> QED BY <1>1, <1>2, <1>3, <1>4, <2>1, QuietApart, StaySteps
<1>5. CASE call' = [call EXCEPT ![c].pc = "verify"] /\ item' = item
  <2> DEFINE cl == [call[c] EXCEPT !.pc = "verify"]
  <2>1. call' = [call EXCEPT ![c] = cl]
    BY <1>2, <1>5
  <2>2. cl.pc = "verify" /\ cl.at = i /\ cl.seen = call[c].seen
    BY <1>2 DEF CallType, At
  <2> HIDE DEF cl
  <2> QED BY <1>4, <1>5, <2>1, <2>2
<1>6. CASE call' = [call EXCEPT ![c].pc = "undo", ![c].left = DOMAIN Ops[i]] /\ item' = item
  <2> DEFINE cl == [call[c] EXCEPT !.pc = "undo", !.left = DOMAIN Ops[i]]
  <2>1. call' = [call EXCEPT ![c] = cl]
    BY <1>2, <1>6
  <2>2. cl.pc = "undo" /\ cl.at = i /\ cl.seen = call[c].seen /\ cl.left = DOMAIN Ops[i]
    BY <1>2 DEF CallType, At
  <2> HIDE DEF cl
  <2> QED BY <1>4, <1>6, <2>1, <2>2
<1>7. ASSUME NEW s \in {"applied", "verification_pending"}, NEW proof \in {"passed", "pending"},
             Proceed(c, Marked(i, s, proof))
      PROVE  Steps(c)
  <2> DEFINE rows == Marked(i, s, proof)
  <2>1. /\ rows[i].status = s /\ rows[i].proof = proof /\ rows[i].rev = row.rev
        /\ rows[i].change = row.change
    BY <1>2, RowShape
  <2>2. Proceed(c, rows)
    BY <1>7
  <2> HIDE DEF rows
  <2>3. i \notin blame => Rests(i, rows[i], disk, changes, Sound(i))
    <3>1. i \notin blame /\ Sound(i) => Named(i, rows[i], changes)
      BY <1>2, <2>1 DEF Named
    <3> QED BY <1>2, <2>1, <3>1 DEF Rests, Decidable
  <2> QED BY <1>1, <1>2, <1>3, <2>1, <2>2, <2>3, QuietApart, LeaveSteps
<1>8. CASE Proceed(c, Marked(i, "verification_failed", "failed"))
  BY <1>1, <1>8, QuietApart, FailSteps
<1> QED BY <1>5, <1>6, <1>7, <1>8 DEF Index, Verify

LEMMA UndoSteps ==
  ASSUME Account, Owns, Assent, PlanInv, NEW c \in Calls, Undo(c) \/ Undone(c) \/ Reindex(c)
  PROVE  Steps(c)
<1> DEFINE i == At(c)
           row == item[i]
           k == Max(call[c].left)
<1>1. call[c].pc \in {"undo", "reindex"} /\ torn' = torn /\ blame \subseteq blame'
  BY DEF Undo, Undone, Reindex, Put, NoPut, history
<1>2. /\ call[c].pc \in Inside /\ call[c].pc \notin Idling
      /\ i \in Items /\ item \in [Items -> Row] /\ disk \in [Paths -> Contents] /\ Rev(c) \in Revisions
      /\ call \in [Calls -> CallType] /\ call[c] \in CallType
      /\ i \notin blame =>
           /\ row.rev = Rev(c) /\ row.proof # "rolled_back" /\ row.change = call[c].seen[i].change
           /\ Written(disk, i, row.rev, IF call[c].pc = "undo" THEN call[c].left ELSE {})
           /\ Sound(i) =>
                /\ call[c].pc = "undo" => Named(i, row, changes)
                /\ call[c].pc = "reindex" => Kept(changes, i) = {}
  BY <1>1, VerifyingKnows DEF Done
<1>3. Grows(changes, i)
  BY KeepsGrow
<1>4. CASE /\ call[c].pc = "undo" /\ call[c].left # {} /\ Put(c, Restored(Ops[i][k]), Touched(Ops[i][k]))
           /\ call' = [call EXCEPT ![c].left = call[c].left \ {k}] /\ UNCHANGED <<item, changes>>
  <2> DEFINE cl == [call[c] EXCEPT !.left = call[c].left \ {k}]
  <2>1. call' = [call EXCEPT ![c] = cl]
    BY <1>4
  <2>2. cl.pc = "undo" /\ cl.at = At(c) /\ cl.seen = call[c].seen /\ cl.left = call[c].left \ {k}
    BY <1>2, <1>4 DEF CallType, At
  <2>3. k \in call[c].left /\ k \in DOMAIN Ops[i]
    BY <1>4, NextLeft DEF Writing
  <2> HIDE DEF cl, k, i
  <2>4. Done(cl) = call[c].left \ {k} /\ cl.pc \in Inside
    BY <2>2 DEF Done, Inside
  <2>5. disk' = Restored(Ops[i][k]) /\ Apart(c)
    BY <1>2, <1>4, <2>3, PutOne DEF i
  <2>6. ASSUME i \notin blame PROVE Written(disk', i, row.rev, Done(cl))
    <3>1. Written(disk', i, Rev(c), call[c].left \ {k})
      BY <1>2, <1>4, <2>3, <2>5, <2>6, WritesNext
    <3> QED BY <1>2, <2>4, <2>6, <3>1
  <2> QED BY <1>1, <1>2, <1>3, <1>4, <2>1, <2>2, <2>4, <2>5, <2>6, QuietApart, StaySteps DEF i
<1>5. CASE /\ LET ks == DOMAIN Ops[i] \ call[c].left IN
              Put(c, Redone(i, Rev(c), ks), UNION {Touched(Ops[i][l]) : l \in ks})
           /\ Proceed(c, Marked(i, "verification_failed", "failed")) /\ UNCHANGED changes
  <2> DEFINE ks == DOMAIN Ops[i] \ call[c].left
             D == Redone(i, Rev(c), ks)
             ps == UNION {Touched(Ops[i][l]) : l \in ks}
  <2>1. Put(c, D, ps)
    BY <1>5
  <2>2. ks \in SUBSET DOMAIN Ops[i]
    OBVIOUS
  <2>3. \A p \in Paths \ ps : D[p] = disk[p]
    <3> HIDE DEF ks
    <3> QED BY <1>2, <2>2, RedoneElsewhere
  <2> HIDE DEF D, ps, ks
  <2>4. Apart(c)
    BY <2>1, <2>3, PutApart
  <2> QED BY <1>1, <1>5, <2>4, QuietApart, FailSteps
<1>6. CASE Undone(c)
  <2> DEFINE cl == [call[c] EXCEPT !.pc = "reindex"]
             m == call[c].seen[i].change
  <2>1. call' = [call EXCEPT ![c] = cl]
    BY <1>2, <1>6 DEF Undone
  <2>2. cl.pc = "reindex" /\ cl.at = At(c) /\ cl.seen = call[c].seen
    BY <1>2 DEF CallType, At
  <2>3. /\ call[c].pc = "undo" /\ call[c].left = {} /\ UNCHANGED <<item, disk>>
        /\ changes' = [changes EXCEPT ![m].undone = TRUE] /\ changes \in Seq(Change)
    BY <1>2, <1>6, AtWork DEF Undone
  <2>4. m \in Own(changes, i)
    BY <1>2 DEF Owns
  <2> HIDE DEF cl, m
  <2>5. Grows(changes', i) /\ Kept(changes', i) = Kept(changes, i) \ {m}
    BY <1>2, <2>3, <2>4, UndoGrows
  <2>6. i \notin blame /\ Sound(i) => Kept(changes', i) = {}
    BY <1>2, <2>3, <2>5 DEF Named, m
  <2>7. Done(cl) = {} /\ cl.pc \in Inside
    BY <2>2 DEF Done, Inside
  <2> QED BY <1>1, <1>2, <2>1, <2>2, <2>3, <2>5, <2>6, <2>7, QuietApart, StaySteps
<1>7. CASE call[c].pc = "reindex" /\ Proceed(c, Marked(i, "verification_failed", "rolled_back")) /\ UNCHANGED <<disk, changes>>
  <2> DEFINE rows == Marked(i, "verification_failed", "rolled_back")
  <2>1. /\ rows[i].status = "verification_failed" /\ rows[i].rev = row.rev /\ rows[i].change = row.change
    BY <1>2, RowShape
  <2>2. Proceed(c, rows)
    BY <1>7
  <2> HIDE DEF rows
  <2>3. i \notin blame => Rests(i, rows[i], disk, changes, Sound(i))
    BY <1>2, <1>7, <2>1 DEF Rests, Decidable
  <2> QED BY <1>1, <1>2, <1>3, <1>7, <2>1, <2>2, <2>3, QuietApart, LeaveSteps
<1>8. CASE Proceed(c, Marked(i, "verification_failed", "failed")) /\ UNCHANGED <<disk, changes>>
  BY <1>1, <1>8, QuietApart, FailSteps
<1> QED BY <1>4, <1>5, <1>6, <1>7, <1>8 DEF Undo, Reindex, NoPut

\* A step of an apply call keeps the account.
LEMMA ApplyAccounts ==
  ASSUME Account, Owns, Assent, PlanInv, NEW c \in Calls, ApplyStep(c)
  PROVE  Account' /\ Owns'
<1>1. Touch(c)
  BY RecoverTouches, MendTouches, CheckTouches, WriteTouches, RecordTouches, RestoreTouches,
     ResumeTouches, VerifyTouches, UndoTouches DEF ApplyStep
<1>2. Steps(c)
  BY RecoverSteps, MendSteps, CheckSteps, WriteSteps, RecordSteps, RestoreSteps,
     ResumeSteps, VerifySteps, UndoSteps DEF ApplyStep
<1>3. At(c) \in Items
  BY ApplyStepKeeps, AtWork DEF ApplyKeeps
<1> QED BY <1>1, <1>2, <1>3, StepAccounts

-----------------------------------------------------------------------------
(* Steps that write no file *)

\* Rows nobody is inside of are decided, revised or blocked; calls begin or end.
LEMMA RowsAccount ==
  ASSUME Account, Owns, PlanInv, UNCHANGED <<disk, changes, torn>>, blame \subseteq blame',
         \A c \in Calls : call'[c] = call[c] \/ (call[c].pc \notin Inside /\ call'[c].pc \notin Inside),
         \A c \in Calls, i \in Items : call'[c].seen[i].change \in {0, call[c].seen[i].change, item[i].change},
         \A i \in Items : item'[i].change \in {0, item[i].change},
         \A i \in Items \ blame' :
           \/ item'[i] = item[i]
           \/ /\ item[i].status \in Decidable /\ item'[i].status \in Decidable
              /\ item'[i].proof \in {"none", item[i].proof} /\ item'[i].rev \in Revisions
  PROVE  Account' /\ Owns'
<1>1. ASSUME NEW c \in Calls, call'[c].pc \in Inside, call'[c].at \notin blame'
      PROVE  Works(call'[c], item'[call'[c].at], disk', changes', call'[c].at \notin torn')
  <2>1. call'[c] = call[c] /\ call[c].pc \in Inside /\ At(c) = call'[c].at /\ At(c) \notin blame
    BY <1>1 DEF At
  <2>2. Works(call[c], item[At(c)], disk, changes, At(c) \notin torn) /\ At(c) \in Items
    BY <2>1, InsideWorks DEF Sound
  <2>3. item[At(c)].status \notin Decidable
    BY <2>2 DEF Works, Recovery, Decidable
  <2>4. item'[At(c)] = item[At(c)]
    BY <1>1, <2>1, <2>2, <2>3
  <2> QED BY <2>1, <2>2, <2>4
<1>2. ASSUME NEW i \in Items \ blame', \A d \in Calls : call'[d].pc \in Inside => call'[d].at # i
      PROVE  Rests(i, item'[i], disk', changes', i \notin torn')
  <2>1. Empty(i)
    BY <1>2 DEF Empty, At
  <2>2. Rests(i, item[i], disk, changes, i \notin torn)
    BY <1>2, <2>1 DEF Account, Sound
  <2>3. CASE item'[i] = item[i]
    BY <2>2, <2>3
  <2>4. CASE /\ item[i].status \in Decidable /\ item'[i].status \in Decidable
             /\ item'[i].proof \in {"none", item[i].proof} /\ item'[i].rev \in Revisions
    <3>1. Written(disk, i, item[i].rev, {}) /\ item[i].proof # "rolled_back" /\ (i \notin torn => Clean(i, item[i], changes))
      BY <2>2, <2>4 DEF Rests, Decidable
    <3>2. item[i].rev \in Revisions
      BY DEF PlanInv, TypeOK, Row
    <3>3. Written(disk, i, item'[i].rev, {})
      BY <2>4, <3>1, <3>2, BeforeStays
    <3>4. i \notin torn => Clean(i, item'[i], changes)
      BY <3>1 DEF Clean
    <3> QED BY <2>4, <3>1, <3>3, <3>4, CleanRests
  <2> QED BY <1>2, <2>3, <2>4
<1>3. Account'
  BY <1>1, <1>2 DEF Account, Empty, At, Sound
<1>4. Owns'
  <2>1. \A i : 0 \in Own(changes, i)
    BY DEF Own
  <2> QED BY <2>1 DEF Owns
<1> QED BY <1>3, <1>4

\* An undecided item is there to be decided: nobody is inside it and nothing is written.
LEMMA Undecided ==
  ASSUME Account, PlanInv, NEW i \in Items \ blame, item[i].status \in Decidable
  PROVE  All(i, item[i].rev, "before")
<1>1. Empty(i)
  <2> SUFFICES ASSUME NEW c \in Calls, call[c].pc \in Inside, At(c) = i PROVE FALSE
    BY DEF Empty
  <2> QED BY InsideWorks DEF Works, Recovery, Decidable
<1>2. Written(disk, i, item[i].rev, {})
  BY <1>1 DEF Account, Rests
<1> QED BY <1>2, AllIs

\* No row changes; a call is as it was or nowhere.
LEMMA StillAccounts ==
  ASSUME Account, Owns, PlanInv, UNCHANGED <<disk, changes, torn, item>>, blame \subseteq blame',
         \A c \in Calls : call'[c] = call[c] \/ (call[c].pc \notin Inside /\ call'[c] = Idle)
  PROVE  Account' /\ Owns'
<1>1. Idle.pc \notin Inside /\ \A i \in Items : Idle.seen[i].change = 0
  BY DEF Idle, Inside, NoRows, NewRow
<1> QED BY <1>1, RowsAccount

LEMMA BeginAccounts ==
  ASSUME Account, Owns, PlanInv, NEW c \in Calls, NEW only \in SUBSET Items, Begin(c, only),
         UNCHANGED <<disk, changes, torn, item, blame>>
  PROVE  Account' /\ Owns'
<1> DEFINE m == Min({j \in only : item[j].status \in Open})
           seen == [j \in Items |-> IF j \in only THEN item[j] ELSE NewRow]
           cl == [pc |-> Entry(item[m].status), at |-> m, k |-> 0, left |-> {}, only |-> only,
                  seen |-> seen, spent |-> call[c].spent]
<1>1. call' = [call EXCEPT ![c] = cl] /\ call \in [Calls -> CallType] /\ call[c].pc = "idle"
  BY DEF Begin, PlanInv, TypeOK
<1>2. \A i \in Items : seen[i].change \in {0, item[i].change}
  BY DEF NewRow
<1> HIDE DEF seen, m
<1>3. cl.pc \notin Inside /\ cl.seen = seen
  BY DEF Entry, Inside
<1>4. call'[c] = cl /\ \A d \in Calls \ {c} : call'[d] = call[d]
  BY <1>1
<1> HIDE DEF cl
<1>5. call[c].pc \notin Inside
  BY <1>1 DEF Inside
<1> QED BY <1>2, <1>3, <1>4, <1>5, RowsAccount

LEMMA DecideAccounts ==
  ASSUME Account, Owns, PlanInv, NEW i \in Items, NEW s \in {"approved", "rejected"}, NEW a, Decide(i, s, a)
  PROVE  Account' /\ Owns'
<1>1. item[i].status \in Decidable /\ item' = Decided(i, s) /\ UNCHANGED <<disk, changes, call, torn, blame>>
  BY DEF Decide, CanDecide, Redecide
<1>2. item \in [Items -> Row]
  BY DEF PlanInv, TypeOK
<1>3. /\ item'[i].status = s /\ item'[i].rev = item[i].rev /\ item'[i].change = item[i].change
      /\ item'[i].proof = item[i].proof /\ \A j \in Items \ {i} : item'[j] = item[j]
  <2> DEFINE b == [item EXCEPT ![i].status = s]
  <2>1. /\ DOMAIN b = Items /\ b[i].status = s /\ b[i].rev = item[i].rev /\ DOMAIN b[i] = DOMAIN item[i]
        /\ b[i].change = item[i].change /\ b[i].proof = item[i].proof
        /\ \A j \in Items \ {i} : b[j] = item[j]
    BY <1>2 DEF Row
  <2>2. item' = [b EXCEPT ![i].over = FALSE]
    BY <1>1 DEF Decided
  <2> HIDE DEF b
  <2> QED BY <2>1, <2>2
<1>4. s \in Decidable /\ item[i].rev \in Revisions
  BY <1>2 DEF Decidable, Row
<1> QED BY <1>1, <1>3, <1>4, RowsAccount

LEMMA SealAccounts ==
  ASSUME Account, Owns, PlanInv, NEW a \in Actors, draft[a] # NoDraft, ~SealRefused(a),
         Redecide(Revised(draft[a].at)), blame' = Late(a),
         UNCHANGED <<disk, changes, call, torn>>
  PROVE  Account' /\ Owns'
<1> DEFINE i == draft[a].at
           row == [NewRow EXCEPT !.rev = item[i].rev + 1]
<1>1. i \in Items /\ item \in [Items -> Row] /\ draft[a].row.rev < MaxRevision /\ draft[a].row.rev = item[i].rev
  BY DEF PlanInv, DraftsOK, TypeOK, Actors, SealRefused
<1>2. item' = [item EXCEPT ![i] = row]
  BY DEF Redecide, Revised
<1>3. blame \subseteq blame' /\ (i \notin blame' => item[i].status \in Decidable)
  BY DEF Late
<1>4. item[i].rev + 1 \in Revisions
  <2>1. item[i].rev \in 1 .. MaxRevision /\ MaxRevision \in Nat
    BY <1>1, PlanAssumption DEF Row, Revisions
  <2> QED BY <1>1, <2>1 DEF Revisions
<1>5. row.status = "proposed" /\ row.proof = "none" /\ row.change = 0 /\ row.rev \in Revisions
  BY <1>4 DEF NewRow
<1> HIDE DEF i, row
<1>6. item'[i] = row /\ \A j \in Items \ {i} : item'[j] = item[j]
  BY <1>1, <1>2
<1> QED BY <1>3, <1>5, <1>6, RowsAccount DEF Decidable

\* A step of the run that drops rows: an undecided item is not found stale.
LEMMA DropAccounts ==
  ASSUME Account, Owns, PlanInv, Drops, UNCHANGED <<disk, changes, call, torn>>
  PROVE  Account' /\ Owns'
<1>1. ASSUME NEW i \in Items \ blame'
      PROVE  \/ item'[i] = item[i]
             \/ /\ item[i].status \in Decidable /\ item'[i].status \in Decidable
                /\ item'[i].proof \in {"none", item[i].proof} /\ item'[i].rev \in Revisions
  <2>1. i \in Items \ blame /\ item[i].rev \in Revisions
    BY DEF Drops, PlanInv, TypeOK, Row
  <2>2. CASE Dropped(i, item[i], item'[i])
    <3>1. item'[i].status = "blocked"
      BY <2>1, <2>2, Undecided DEF Dropped
    <3> QED BY <2>1, <2>2, <3>1 DEF Dropped, Decidable
  <2> QED BY <2>2 DEF Drops
<1>2. blame \subseteq blame' /\ \A i \in Items : item'[i].change \in {0, item[i].change}
  BY DEF Drops
<1> QED BY <1>1, <1>2, RowsAccount

\* An editor reaches into the items of the file.
LEMMA EditAccounts ==
  ASSUME Account, Owns, PlanInv, NEW p \in Paths, Edit(p)
  PROVE  Account' /\ Owns'
<1>1. /\ disk' = [disk EXCEPT ![p] = Foreign] /\ blame' = blame \cup {i \in Items : p \in PathsOf(i)}
      /\ UNCHANGED <<item, changes, call, torn>> /\ disk \in [Paths -> Contents]
  BY DEF Edit, PlanInv, TypeOK
<1>2. ASSUME NEW i \in Items \ blame' PROVE \A q \in PathsOf(i) : disk'[q] = disk[q]
  BY <1>1, <1>2, OpsFacts
<1>3. ASSUME NEW c \in Calls, call'[c].pc \in Inside, call'[c].at \notin blame'
      PROVE  Works(call'[c], item'[call'[c].at], disk', changes', call'[c].at \notin torn')
  <2>1. call[c].pc \in Inside /\ At(c) \notin blame /\ call'[c] = call[c] /\ At(c) = call[c].at /\ item' = item /\ changes' = changes
    BY <1>1, <1>3 DEF At
  <2>2. Works(call[c], item[At(c)], disk, changes, At(c) \notin torn) /\ At(c) \in Items
    BY <2>1, InsideWorks DEF Sound
  <2>3. \A q \in PathsOf(At(c)) : disk'[q] = disk[q]
    BY <1>2, <1>3, <2>1, <2>2
  <2>4. Works(call[c], item[At(c)], disk', changes, At(c) \notin torn)
    BY <2>1, <2>2, <2>3, WorksStay
  <2> QED BY <1>1, <2>1, <2>4
<1>4. ASSUME NEW i \in Items \ blame', \A d \in Calls : call'[d].pc \in Inside => call'[d].at # i
      PROVE  Rests(i, item'[i], disk', changes', i \notin torn')
  <2>1. Empty(i)
    BY <1>1, <1>4 DEF Empty, At
  <2>2. Rests(i, item[i], disk, changes, i \notin torn)
    BY <1>1, <1>4, <2>1 DEF Account, Sound
  <2>3. \A n \in Kept(changes, i) : n \in DOMAIN changes
    BY DEF Kept
  <2>4. Rests(i, item[i], disk', changes, i \notin torn)
    BY <1>2, <1>4, <2>2, <2>3, RestsStay
  <2> QED BY <1>1, <2>4
<1>5. Account'
  BY <1>3, <1>4 DEF Account, Empty, At, Sound
<1>6. Owns'
  BY <1>1 DEF Owns
<1> QED BY <1>5, <1>6

-----------------------------------------------------------------------------
(* A crash *)

LEMMA RestsLess ==
  ASSUME NEW i, NEW row, NEW dk, NEW ch, NEW sound, NEW less, less => sound, Rests(i, row, dk, ch, sound)
  PROVE  Rests(i, row, dk, ch, less)
BY DEF Rests

\* What is left of a call inside an item when the process dies, if it was not
\* undoing it.
LEMMA WorksRest ==
  ASSUME NEW cl, cl.at \in Items, cl.pc \in Inside, NEW row, NEW dk, NEW ch, NEW sound, Works(cl, row, dk, ch, sound),
         NEW less, less => sound /\ cl.pc \notin {"undo", "reindex"}
  PROVE  Rests(cl.at, row, dk, ch, less)
<1> DEFINE i == cl.at
<1>1. row.status \in Recovery /\ row.proof # "rolled_back"
  BY DEF Works
<1>2. CASE cl.pc \in {"mend", "write", "restore"}
  <2>1. row.status = "applying" /\ (less => Clean(i, row, ch))
    BY <1>2 DEF Works
  <2> QED BY <1>1, <2>1 DEF Rests, Decidable
<1>3. CASE cl.pc \in {"index", "verify"}
  <2>1. Written(dk, i, row.rev, DOMAIN Ops[i])
    BY <1>3 DEF Works, Done
  <2>2. less => Named(i, row, ch)
    BY <1>3 DEF Works
  <2>3. less => Found(i, row, dk, ch)
    BY <2>1, <2>2 DEF Named, Found, Kept
  <2> QED BY <1>1, <2>1, <2>2, <2>3 DEF Rests, Recovery, Decidable
<1>4. CASE cl.pc \in {"undo", "reindex"}
  BY <1>1, <1>4 DEF Rests, Recovery, Decidable
<1> QED BY <1>2, <1>3, <1>4 DEF Inside

\* The items as a crash leaves them, but for a change it kept from being written down.
LEMMA DeadRest ==
  ASSUME Account, PlanInv, NEW i \in Items \ blame, NEW tn,
         tn = torn \cup {At(c) : c \in {d \in Calls : call[d].pc \in {"undo", "reindex"}}}
  PROVE  Rests(i, item[i], disk, changes, i \notin tn)
<1>1. CASE Empty(i)
  BY <1>1, RestsLess DEF Account, Sound
<1>2. CASE ~Empty(i)
  <2>1. PICK c \in Calls : call[c].pc \in Inside /\ At(c) = i
    BY <1>2 DEF Empty
  <2>2. Works(call[c], item[i], disk, changes, i \notin torn) /\ call[c].at = i
    BY <2>1, InsideWorks DEF Sound
  <2> DEFINE sound == i \notin torn
             less == i \notin tn
             cl == call[c]
  <2>3. less => sound /\ cl.pc \notin {"undo", "reindex"}
    BY <2>1
  <2>4. Works(cl, item[i], disk, changes, sound) /\ cl.at = i /\ cl.at \in Items /\ cl.pc \in Inside
    BY <2>1, <2>2
  <2>5. Rests(i, item[i], disk, changes, less)
    <3> HIDE DEF sound, less, cl
    <3> QED BY <2>3, <2>4, WorksRest
  <2> QED BY <2>5
<1> QED BY <1>1, <1>2

\* A change recorded and not written down.
LEMMA DeadRecord ==
  ASSUME Account, PlanInv, NEW i \in Items, NEW r \in Revisions, changes' = Recorded(i, r), NEW tn,
         tn = torn \cup {At(c) : c \in {d \in Calls : call[d].pc \in {"undo", "reindex"}}},
         NEW bl, blame \subseteq bl,
         i \notin bl =>
           /\ item[i].status = "applying" /\ item[i].proof # "rolled_back" /\ item[i].rev = r
           /\ Written(disk, i, r, DOMAIN Ops[i])
           /\ Sound(i) => Clean(i, item[i], changes)
  PROVE  \A j \in Items \ bl : Rests(j, item[j], disk, changes', j \notin tn)
<1> DEFINE n == Len(changes) + 1
<1>0. changes \in Seq(Change)
  BY DEF PlanInv, TypeOK, Change
<1>1. /\ Grows(changes', i) /\ Kept(changes', i) = Kept(changes, i) \cup {n}
      /\ n \in DOMAIN changes' /\ changes'[n] = [item |-> i, rev |-> r, undone |-> FALSE] /\ n # 0
  BY <1>0, RecordGrows
<1> HIDE DEF n
<1> SUFFICES ASSUME NEW j \in Items \ bl PROVE Rests(j, item[j], disk, changes', j \notin tn)
  OBVIOUS
<1>2. Rests(j, item[j], disk, changes, j \notin tn)
  BY DeadRest
<1>3. CASE j # i
  <2>1. Kept(changes', j) = Kept(changes, j)
    BY <1>1, <1>3 DEF Grows
  <2>2. \A m \in Kept(changes, j) : changes'[m].rev = changes[m].rev /\ m \in DOMAIN changes'
    BY <1>1 DEF Grows, Kept
  <2> QED BY <1>2, <2>1, <2>2, RestsStay
<1>4. CASE j = i
  <2>1. j \notin tn => Found(i, item[i], disk, changes')
    BY <1>1, <1>4 DEF Clean, Found, Sound
  <2> QED BY <1>4, <2>1 DEF Rests, Decidable
<1> QED BY <1>3, <1>4

LEMMA DiedAccounts ==
  ASSUME Account, Owns, Assent, PlanInv, Died
  PROVE  Account' /\ Owns'
<1> DEFINE tn == torn \cup {At(c) : c \in {d \in Calls : call[d].pc \in {"undo", "reindex"}}}
<1>1. call' = [c \in Calls |-> Idle] /\ torn' = tn /\ UNCHANGED <<disk, item>>
  BY DEF Died
<1>2. Idle.pc \notin Inside /\ \A i \in Items : Idle.seen[i].change = 0
  BY DEF Idle, Inside, NoRows, NewRow
<1>3. changes \in Seq(Change)
  BY DEF PlanInv, TypeOK, Change
<1>4. ASSUME \A i \in Items \ blame' : Rests(i, item[i], disk, changes', i \notin tn),
             \A i : Own(changes, i) \subseteq Own(changes', i)
      PROVE  Account' /\ Owns'
  <2>1. \A c \in Calls : call'[c] = Idle
    BY <1>1
  <2>2. Account'
    BY <1>1, <1>2, <1>4, <2>1 DEF Account, Sound
  <2>3. \A i : 0 \in Own(changes', i)
    BY DEF Own
  <2>4. Owns'
    BY <1>1, <1>2, <1>4, <2>1, <2>3 DEF Owns
  <2> QED BY <2>2, <2>4
<1>5. CASE UNCHANGED <<changes, blame>>
  <2>1. \A i \in Items \ blame : Rests(i, item[i], disk, changes, i \notin tn)
    BY DeadRest
  <2> HIDE DEF tn
  <2> QED BY <1>4, <1>5, <2>1
<1>6. ASSUME NEW c \in Calls, call[c].pc = "write", call[c].k = Len(Ops[At(c)]),
             changes' = Recorded(At(c), Rev(c)), UNCHANGED blame
      PROVE  Account' /\ Owns'
  <2>1. call[c].pc \in Inside /\ call[c].pc \notin Idling
    BY <1>6 DEF Inside, Idling
  <2>2. At(c) \in Items /\ Rev(c) \in Revisions /\ DOMAIN Ops[At(c)] = 1 .. Len(Ops[At(c)])
    BY <2>1, AtWork
  <2>3. At(c) \notin blame =>
          /\ item[At(c)].status = "applying" /\ item[At(c)].proof # "rolled_back" /\ item[At(c)].rev = Rev(c)
          /\ Written(disk, At(c), Rev(c), DOMAIN Ops[At(c)])
          /\ Sound(At(c)) => Clean(At(c), item[At(c)], changes)
    BY <1>6, <2>1, <2>2, InsideWorks DEF Works, Done
  <2>4. \A j \in Items \ blame : Rests(j, item[j], disk, changes', j \notin tn)
    BY <1>6, <2>2, <2>3, DeadRecord
  <2>5. \A i : Own(changes, i) \subseteq Own(changes', i)
    BY <1>3, <1>6, <2>2, RecordGrows, OwnGrows
  <2> HIDE DEF tn
  <2> QED BY <1>4, <1>6, <2>4, <2>5
<1>7. ASSUME NEW c \in Calls, call[c].pc = "recover", All(At(c), Rev(c), "after"),
             call[c].seen[At(c)].change = 0, Matching(At(c), Rev(c)) = {},
             changes' = Recorded(At(c), Rev(c)), Enter(c)
      PROVE  Account' /\ Owns'
  <2>1. At(c) \in Items /\ Rev(c) \in Revisions
    BY <1>7, AtWork DEF Idling
  <2>2. Written(disk, At(c), Rev(c), DOMAIN Ops[At(c)])
    BY <1>7, <2>1, AllIs
  <2>3. At(c) \notin blame' =>
          /\ item[At(c)].status = "applying" /\ item[At(c)].proof # "rolled_back" /\ item[At(c)].rev = Rev(c)
          /\ Sound(At(c)) => Clean(At(c), item[At(c)], changes) \/ Found(At(c), item[At(c)], disk, changes)
    BY <1>7, EnterKnows
  <2>4. item[At(c)].rev = Rev(c) => ~Found(At(c), item[At(c)], disk, changes)
    BY <1>7 DEF Found, Kept, Matching
  <2>5. blame \subseteq blame'
    BY <1>7 DEF Enter
  <2>6. \A j \in Items \ blame' : Rests(j, item[j], disk, changes', j \notin tn)
    <3> DEFINE i == At(c)
               r == Rev(c)
               bl == blame'
    <3>1. i \notin bl =>
            /\ item[i].status = "applying" /\ item[i].proof # "rolled_back" /\ item[i].rev = r
            /\ Written(disk, i, r, DOMAIN Ops[i])
            /\ Sound(i) => Clean(i, item[i], changes)
      BY <2>2, <2>3, <2>4
    <3>2. i \in Items /\ r \in Revisions /\ changes' = Recorded(i, r) /\ blame \subseteq bl
      BY <1>7, <2>1, <2>5
    <3>3. tn = torn \cup {At(d) : d \in {e \in Calls : call[e].pc \in {"undo", "reindex"}}}
      OBVIOUS
    <3> HIDE DEF i, r, bl, tn
    <3>4. \A j \in Items \ bl : Rests(j, item[j], disk, changes', j \notin tn)
      BY <3>1, <3>2, <3>3, DeadRecord
    <3> QED BY <3>4 DEF bl
  <2>7. \A i : Own(changes, i) \subseteq Own(changes', i)
    BY <1>3, <1>7, <2>1, RecordGrows, OwnGrows
  <2> HIDE DEF tn
  <2> QED BY <1>4, <2>6, <2>7
<1> QED BY <1>5, <1>6, <1>7 DEF Died

-----------------------------------------------------------------------------
(* Every step *)

LEMMA PlanAccounts ==
  ASSUME Account, Owns, Assent, PlanInv, NEW busy, PlanNext(busy)
  PROVE  Account' /\ Owns'
<1>1. ASSUME NEW i \in Items, StartRevision(i) PROVE Account' /\ Owns'
  BY <1>1, StillAccounts DEF StartRevision, history
<1>2. ASSUME NEW i \in Items, NEW s \in {"approved", "rejected"}, Decide(i, s, "human") PROVE Account' /\ Owns'
  BY <1>2, DecideAccounts
<1>3. ASSUME Seal PROVE Account' /\ Owns'
  <2>1. CASE SealRefused("human")
    BY <1>3, <2>1, StillAccounts DEF Seal
  <2>2. CASE ~SealRefused("human")
    BY <1>3, <2>2, SealAccounts DEF Seal, Actors
  <2> QED BY <2>1, <2>2
<1>4. ASSUME Supersede(busy) PROVE Account' /\ Owns'
  BY <1>4, StillAccounts DEF Supersede
<1>5. ASSUME NEW c \in People, Apply(c) PROVE Account' /\ Owns'
  BY <1>5, BeginAccounts DEF Apply, Calls, history
<1>6. ASSUME NEW c \in Calls, ApplyStep(c) PROVE Account' /\ Owns'
  BY <1>6, ApplyAccounts
<1>7. ASSUME NEW p \in Paths, Edit(p) PROVE Account' /\ Owns'
  BY <1>7, EditAccounts
<1> QED BY <1>1, <1>2, <1>3, <1>4, <1>5, <1>6, <1>7 DEF PlanNext

LEMMA SettleAccounts ==
  ASSUME Account, Owns, RunInv, Settle \/ SettleNothing
  PROVE  Account' /\ Owns'
<1>1. UNCHANGED <<disk, changes, call, torn>>
  BY DEF Settle, SettleNothing
<1> QED BY <1>1, SettleDrops, DropAccounts DEF RunInv

LEMMA CuratorAccounts ==
  ASSUME Account, Owns, RunInv,
         (\E s \in {"approved", "rejected"} : CuratorDecides(s)) \/ CuratorBlocks \/ CuratorRevises \/ CuratorSeals
  PROVE  Account' /\ Owns'
<1>1. ASSUME NEW s \in {"approved", "rejected"}, CuratorDecides(s) PROVE Account' /\ Owns'
  <2>1. dream.pc = "curating" /\ Decide(Curated, s, "curator")
    BY <1>1 DEF CuratorDecides, AskingCurator
  <2> QED BY <2>1, CuratedItem, DecideAccounts DEF RunInv
<1>2. CASE CuratorBlocks
  <2>1. UNCHANGED <<disk, changes, call, torn>>
    BY <1>2 DEF CuratorBlocks
  <2> QED BY <1>2, <2>1, CuratorDrops, DropAccounts DEF RunInv
<1>3. CASE CuratorRevises
  BY <1>3, StillAccounts DEF CuratorRevises, history, RunInv
<1>4. CASE CuratorSeals
  BY <1>4, SealAccounts DEF CuratorSeals, RunInv, Actors
<1> QED BY <1>1, <1>2, <1>3, <1>4

LEMMA ApplyNextAccounts ==
  ASSUME Account, Owns, RunInv, ApplyNext
  PROVE  Account' /\ Owns'
<1> DEFINE open == {i \in dream.todo : item[i].status \in Open}
<1>1. dream \in DreamType /\ UNCHANGED <<disk, changes, item, blame, torn>>
  BY DEF ApplyNext, history, RunInv, RunsTyped
<1>2. CASE open = {}
  BY <1>1, <1>2, StillAccounts DEF ApplyNext, RunInv
<1>3. CASE open # {}
  <2>1. open \in SUBSET Nat /\ open \subseteq Items
    BY <1>1, OpsFacts DEF DreamType
  <2>2. {Min(open)} \in SUBSET Items /\ Dreamer \in Calls
    <3> HIDE DEF open
    <3> QED BY <1>3, <2>1, MinIn DEF Calls
  <2>3. Begin(Dreamer, {Min(open)})
    BY <1>3 DEF ApplyNext
  <2> QED BY <1>1, <2>2, <2>3, BeginAccounts DEF RunInv
<1> QED BY <1>2, <1>3

\* A run begins, looks at the plan, or ends.
LEMMA RunAccounts ==
  ASSUME Account, Owns, RunInv,
         (\E d \in Runs : BeginRun(d)) \/ Reopen \/ Plan \/ VerifyRun \/ RecordOutcomes \/ Complete \/ Fail
         \/ ResumeProfile \/ ResumeTransform \/ UNCHANGED vars
  PROVE  Account' /\ Owns'
<1>1. UNCHANGED <<disk, changes, torn, item, blame>>
  BY DEF BeginRun, Reopen, Plan, VerifyRun, RecordOutcomes, Complete, Fail, ResumeProfile, ResumeTransform,
         vars, planVars, history
<1>2. call \in [Calls -> CallType]
  BY DEF RunInv, PlanInv, TypeOK
<1>3. CASE UNCHANGED call
  BY <1>1, <1>3, StillAccounts DEF RunInv
<1>4. CASE Complete \/ Fail
  <2>1. call' = [call EXCEPT ![Dreamer] = Idle] /\ call[Dreamer].pc \in Idling
    BY <1>4 DEF Complete, Fail, Over, RunInv, OneRun, Idling
  <2>2. call[Dreamer].pc \notin Inside
    BY <2>1 DEF Idling, Inside
  <2>3. \A c \in Calls : call'[c] = call[c] \/ (call[c].pc \notin Inside /\ call'[c] = Idle)
    BY <1>2, <2>1, <2>2
  <2> QED BY <1>1, <2>3, StillAccounts DEF RunInv
<1> QED BY <1>3, <1>4
     DEF BeginRun, Reopen, Plan, VerifyRun, RecordOutcomes, ResumeProfile, ResumeTransform, vars, planVars

LEMMA NextAccounts ==
  ASSUME Account, Owns, Assent, RunInv, [Next]_vars
  PROVE  Account' /\ Owns'
<1>1. CASE PlanNext(Busy) /\ UNCHANGED dreamVars
  BY <1>1, PlanAccounts DEF RunInv
<1>2. CASE DreamStep
  BY <1>2, RunAccounts, SettleAccounts, CuratorAccounts, ApplyNextAccounts DEF DreamStep
<1>3. CASE Crash
  BY <1>3, DiedAccounts DEF Crash, RunInv
<1>4. CASE ResumeProfile \/ ResumeTransform \/ UNCHANGED vars
  BY <1>4, RunAccounts
<1> QED BY <1>1, <1>2, <1>3, <1>4 DEF Next

-----------------------------------------------------------------------------
(* At first *)

\* Every file is as its plan found it.
LEMMA SealedAtFirst ==
  ASSUME Init, NEW i \in Items
  PROVE  Written(disk, i, 1, {})
<1> DEFINE Made(p) == \E j \in Items : \E l \in DOMAIN Ops[j] : p \in Touched(Ops[j][l]) \ Needs(Ops[j][l])
<1>1. disk = [p \in Paths |-> IF Made(p) THEN Absent ELSE Sealed]
  BY DEF Init
<1> SUFFICES ASSUME NEW k \in DOMAIN Ops[i] PROVE StateIn(disk, i, Ops[i][k], 1) = "before"
  BY DEF Written
<1> DEFINE op == Ops[i][k]
<1>2. 1 \in Revisions
  BY PlanAssumption DEF Revisions
<1>3. /\ op.kind \in {"replace", "create", "delete", "move"} /\ op.path \in Paths
      /\ op.kind = "move" => op.to \in Paths /\ op.to # op.path
      /\ Output(i, 1) # Before(op) /\ Output(i, 1) # Sealed /\ Output(i, 1) # Absent /\ Sealed # Absent
  BY <1>2, OpFacts
\* What an operation needs no operation makes.
<1>5. ASSUME op.kind # "create" PROVE ~Made(op.path)
  <2>1. op.path \in Needs(op)
    BY <1>5 DEF Needs
  <2>2. \A j \in Items : \A l \in DOMAIN Ops[j] : Needs(op) \cap (Touched(Ops[j][l]) \ Needs(Ops[j][l])) = {}
    BY PlanAssumption
  <2> HIDE DEF op
  <2> QED BY <2>1, <2>2
<1>6. op.kind = "create" => Made(op.path)
  BY DEF Touched, Needs
<1>7. op.kind = "move" => Made(op.to)
  BY <1>3 DEF Touched, Needs
<1> HIDE DEF Made, op
<1>8. StateIn(disk, i, op, 1) = "before"
  <2>1. op.kind # "create" => disk[op.path] = Sealed /\ Before(op) = Sealed
    BY <1>1, <1>3, <1>5 DEF Before
  <2>2. op.kind = "create" => disk[op.path] = Absent /\ Before(op) = Absent
    BY <1>1, <1>3, <1>6 DEF Before
  <2>3. op.kind = "move" => disk[op.to] = Absent
    BY <1>1, <1>3, <1>7
  <2> QED BY <1>3, <2>1, <2>2, <2>3 DEF StateIn
<1> QED BY <1>8 DEF op

LEMMA InitAccounts == DreamInit => Account /\ Owns
<1> SUFFICES ASSUME DreamInit PROVE Account /\ Owns
  OBVIOUS
<1>1. Init /\ item = NoRows /\ call = [c \in Calls |-> Idle] /\ dream = NoDream /\ changes = <<>> /\ Dreamer \in Calls
  BY DEF DreamInit, Init, Calls
<1>2. Idle.pc \in Idling /\ Idle.pc \notin Inside /\ \A i \in Items : Idle.seen[i] = NewRow /\ item[i] = NewRow
  BY <1>1 DEF Idle, Idling, Inside, NoRows
<1>3. NewRow.status = "proposed" /\ NewRow.proof = "none" /\ NewRow.rev = 1 /\ NewRow.change = 0
  BY DEF NewRow
<1>4. \A i \in Items : Kept(changes, i) = {} /\ 0 \in Own(changes, i)
  BY <1>1 DEF Kept, Own
<1>5. ASSUME NEW i \in Items PROVE Rests(i, item[i], disk, changes, Sound(i))
  <2>1. Written(disk, i, item[i].rev, {})
    BY <1>1, <1>2, <1>3, SealedAtFirst
  <2>2. Clean(i, item[i], changes)
    BY <1>2, <1>3, <1>4 DEF Clean
  <2> QED BY <1>2, <1>3, <2>1, <2>2, CleanRests DEF Decidable
<1>6. Account
  BY <1>1, <1>2, <1>5 DEF Account
<1>7. Owns
  BY <1>1, <1>2, <1>3, <1>4 DEF Owns
<1> QED BY <1>6, <1>7

LEMMA AssentInvariant == DreamSpec => []Assent
<1>1. RunInv /\ Assent /\ [Next]_vars => Assent'
  BY NextAssents
<1> QED BY <1>1, InitAssents, RunInvariant, PTL DEF DreamSpec

LEMMA AccountInvariant == DreamSpec => [](Account /\ Owns)
<1>1. RunInv /\ Assent /\ (Account /\ Owns) /\ [Next]_vars => (Account /\ Owns)'
  BY NextAccounts
<1> QED BY <1>1, InitAccounts, RunInvariant, AssentInvariant, PTL DEF DreamSpec

-----------------------------------------------------------------------------
(* What the account says *)

LEMMA AccountTellsDisk ==
  ASSUME Account, RunInv
  PROVE  OutcomeTellsDisk
<1> SUFFICES ASSUME NEW i \in Items \ blame, \A c \in Live : At(c) # i
             PROVE  LET row == item[i] IN
               /\ (row.status \in Decidable \cup {"stale"} \/ row.proof = "rolled_back") => All(i, row.rev, "before")
               /\ row.status = "applied" => All(i, row.rev, "after")
               /\ row.status \in {"applied", "verification_pending"} /\ i \notin torn =>
                    /\ All(i, row.rev, "after")
                    /\ row.change # 0
                    /\ changes[row.change] = [item |-> i, rev |-> row.rev, undone |-> FALSE]
  BY DEF OutcomeTellsDisk
<1> DEFINE row == item[i]
<1>1. Empty(i)
  BY InsideLives DEF Empty
<1>2. Rests(i, row, disk, changes, Sound(i))
  BY <1>1 DEF Account
<1>3. /\ All(i, row.rev, "before") <=> Written(disk, i, row.rev, {})
      /\ All(i, row.rev, "after") <=> Written(disk, i, row.rev, DOMAIN Ops[i])
  BY AllIs
<1>4. ASSUME Named(i, row, changes)
      PROVE  row.change # 0 /\ changes[row.change] = [item |-> i, rev |-> row.rev, undone |-> FALSE]
  <2>1. row.change \in Kept(changes, i) /\ changes[row.change].rev = row.rev /\ row.change # 0
    BY <1>4 DEF Named
  <2>2. row.change \in DOMAIN changes /\ changes[row.change].item = i /\ ~changes[row.change].undone
    BY <2>1 DEF Kept
  <2>0. changes \in Seq(Change)
    BY DEF RunInv, PlanInv, TypeOK, Change
  <2> HIDE DEF row
  <2>3. changes[row.change] \in Change
    BY <2>0, <2>2
  <2>4. changes[row.change].undone = FALSE
    BY <2>2, <2>3 DEF Change
  <2> QED BY <2>1, <2>2, <2>3, <2>4 DEF Change
<1> QED BY <1>2, <1>3, <1>4 DEF Rests, Sound

LEMMA AccountNamesChanges ==
  ASSUME Account, RunInv
  PROVE  OneChange
<1> SUFFICES ASSUME NEW n \in DOMAIN changes, ~changes[n].undone, changes[n].item \notin blame \cup torn
             PROVE  item[changes[n].item].change = n \/ item[changes[n].item].status = "applying"
  BY DEF OneChange
<1> DEFINE i == changes[n].item
           row == item[i]
<1>0. changes \in Seq(Change)
  BY DEF RunInv, PlanInv, TypeOK, Change
<1>1. i \in Items /\ n \in Kept(changes, i)
  <2>1. changes[n] \in Change
    BY <1>0
  <2> QED BY <2>1 DEF Change, Kept
<1>2. row.status \in ItemStatus
  BY <1>1 DEF RunInv, PlanInv, TypeOK, Row
<1> HIDE DEF i, row
<1>3. CASE Empty(i)
  <2>1. Rests(i, row, disk, changes, TRUE)
    BY <1>1, <1>3 DEF Account, Sound, i, row
  <2> QED BY <1>1, <1>2, <2>1 DEF Rests, Clean, Named, ItemStatus, Decidable, i, row
<1>4. CASE ~Empty(i)
  <2>1. PICK c \in Calls : call[c].pc \in Inside /\ At(c) = i
    BY <1>4 DEF Empty
  <2>2. Works(call[c], row, disk, changes, TRUE) /\ call[c].at = i
    BY <2>1, InsideWorks DEF RunInv, Sound, i, row
  <2> QED BY <1>1, <2>1, <2>2 DEF Works, Named, Inside, i, row
<1> QED BY <1>3, <1>4

\* What became of an item its row tells, as long as nobody else reached into it and
\* no call is at work on it: refused, deferred or rolled back it left its files as
\* they were, applied it left its approved outputs and the journal change that undoes
\* them, through failing writes, failing restores and crashes at any await (plans.ts,
\* applyMaintenancePlanOnce, recoverInterruptedApply, finishVerification).
THEOREM OutcomesTell == DreamSpec => []OutcomeTellsDisk
<1>1. Account /\ RunInv => OutcomeTellsDisk
  BY AccountTellsDisk
<1> QED BY <1>1, AccountInvariant, RunInvariant, PTL

\* The journal holds at most one change of an item that is not undone, and the row
\* names it, also when a crash came between the two statements (plans.ts,
\* findMatchingJournalChange).
THEOREM ChangesAreNamed == DreamSpec => []OneChange
<1>1. Account /\ RunInv => OneChange
  BY AccountNamesChanges
<1> QED BY <1>1, AccountInvariant, RunInvariant, PTL

-----------------------------------------------------------------------------
(* A plan that is over *)

\* It has no item an apply would still go for; once retired, none left half-way.
Closed == slips = {} =>
  /\ plan \in {"completed", "failed"} => \A i \in Items \ blame : item[i].status \notin Open
  /\ plan = "superseded" => \A i \in Items : item[i].status \notin Recovery

\* The status a plan gets when it is over leaves nothing open.
LEMMA OverMeansClosed ==
  ASSUME NEW rows, NEW i \in Items
  PROVE  /\ StatusAfterApply(rows) \in {"completed", "failed"} => rows[i].status \notin Open
         /\ StatusAfterDecision(rows) \in {"completed", "failed"} => rows[i].status # "approved"
         /\ \A s \in Terminal : HiddenBy(s, rows) = {} => slips = {} /\ rows[i].status \notin Recovery
<1>1. StatusAfterApply(rows) \in {"completed", "failed"} => rows[i].status \notin Open
  BY DEF StatusAfterApply, Open
<1>2. StatusAfterDecision(rows) \in {"completed", "failed"} => rows[i].status # "approved"
  BY DEF StatusAfterDecision
<1>3. \A s \in Terminal : HiddenBy(s, rows) = {} => slips = {} /\ rows[i].status \notin Recovery
  BY DEF HiddenBy
<1> QED BY <1>1, <1>2, <1>3

\* A decision, a revision or a deferral ends a plan only without work left open.
LEMMA DecisionsClose ==
  ASSUME plan' = StatusAfterDecision(item'), slips' = HiddenBy(plan', item'), slips' = {},
         plan' \in {"completed", "failed"}, NEW i \in Items
  PROVE  item'[i].status \notin Open
<1> DEFINE rows == item'
           s == plan'
<1>1. s \in Terminal /\ HiddenBy(s, rows) = {} /\ s = StatusAfterDecision(rows) /\ s \in {"completed", "failed"}
  BY DEF Terminal
<1> HIDE DEF rows, s
<1>2. rows[i].status # "approved" /\ rows[i].status \notin Recovery
  BY <1>1, OverMeansClosed
<1> QED BY <1>2 DEF rows, Open, Recovery

\* A step of a call leaves the plan's status alone or works it out when the call ends.
LEMMA ApplyEnds ==
  ASSUME NEW c \in Calls, ApplyStep(c)
  PROVE  plan' = plan \/ plan' = StatusAfterApply(item')
<1>1. \A rows : Proceed(c, rows) => plan' = plan \/ plan' = StatusAfterApply(item')
  BY DEF Proceed
<1>2. \A rows : Throw(c, rows) => plan' = plan
  BY DEF Throw
<1>3. \A rows, pc, left : Continue(c, pc, rows, left) => plan' = plan
  BY DEF Continue
<1>4. CASE Recover(c)
  BY <1>1, <1>3, <1>4 DEF Recover
<1>5. CASE Mend(c) \/ Mended(c) \/ Resume(c)
  BY <1>1, <1>2, <1>3, <1>5 DEF Mend, Mended, Resume
<1>6. CASE Check(c) \/ Write(c) \/ Record(c) \/ Restore(c) \/ GiveUp(c)
  BY <1>1, <1>2, <1>6 DEF Check, Write, Record, Restore, GiveUp
<1>7. CASE Index(c) \/ Verify(c) \/ Undo(c) \/ Undone(c) \/ Reindex(c)
  BY <1>1, <1>7 DEF Index, Verify, Undo, Undone, Reindex
<1> QED BY <1>4, <1>5, <1>6, <1>7 DEF ApplyStep

\* A call works on an open item, unless somebody reached into it.
LEMMA AppliesOpen ==
  ASSUME Account, Assent, RunInv, NEW c \in Calls, ApplyStep(c), At(c) \notin blame'
  PROVE  At(c) \in Items \ blame /\ item[At(c)].status \in Open
<1>1. At(c) \in Items /\ call[c].pc \notin Idling /\ call[c] \in CallType /\ PlanInv
  BY ApplyStepKeeps, AtWork, Typed DEF ApplyKeeps, RunInv
<1>2. Touch(c)
  BY <1>1, RecoverTouches, MendTouches, CheckTouches, WriteTouches, RecordTouches, RestoreTouches,
     ResumeTouches, VerifyTouches, UndoTouches DEF ApplyStep
<1>3. At(c) \notin blame
  BY <1>2 DEF Touch
<1>4. CASE call[c].pc \in Inside
  BY <1>1, <1>3, <1>4, InsideWorks DEF Works, Recovery, Open
<1>5. CASE call[c].pc \notin Inside
  <2>1. call[c].pc \in {"check", "recover", "resume"}
    BY <1>1, <1>5 DEF CallType, Inside, Idling
  <2>2. Enter(c)
    BY <2>1 DEF ApplyStep, Recover, Mend, Mended, Check, Write, Record, Restore, GiveUp, Resume, Index, Verify,
                Undo, Undone, Reindex
  <2> QED BY <1>1, <1>3, <2>1, <2>2, EnterKnows DEF Open
<1> QED BY <1>4, <1>5

LEMMA ApplyCloses ==
  ASSUME Closed, Account, Assent, RunInv, NEW c \in Calls, ApplyStep(c), slips = {},
         plan' \in {"completed", "failed"}, NEW i \in Items \ blame'
  PROVE  item'[i].status \notin Open
<1>1. CASE plan' = StatusAfterApply(item')
  <2> DEFINE rows == item'
  <2>1. StatusAfterApply(rows) \in {"completed", "failed"}
    BY <1>1
  <2> HIDE DEF rows
  <2>2. rows[i].status \notin Open
    BY <2>1, OverMeansClosed
  <2> QED BY <2>2 DEF rows
<1>2. CASE plan' = plan
  <2>1. Touch(c)
    BY RecoverTouches, MendTouches, CheckTouches, WriteTouches, RecordTouches, RestoreTouches,
       ResumeTouches, VerifyTouches, UndoTouches DEF ApplyStep, RunInv
  <2>2. \A j \in Items \ blame : item[j].status \notin Open
    BY <1>2 DEF Closed
  <2>3. i # At(c)
    BY <2>2, AppliesOpen
  <2>4. item'[i] = item[i] /\ i \notin blame
    BY <2>1, <2>3 DEF Touch
  <2> QED BY <2>2, <2>4
<1> QED BY <1>1, <1>2, ApplyEnds

\* A step that leaves the plan's status alone and opens no item.
LEMMA NothingOpens ==
  ASSUME Closed, slips = {}, plan' = plan, plan' \in {"completed", "failed"}, blame \subseteq blame',
         NEW i \in Items \ blame', item'[i] = item[i] \/ item'[i].status \in {"blocked", "stale"}
  PROVE  item'[i].status \notin Open
BY DEF Closed, Open

\* Rows that are dropped open nothing.
LEMMA DropsClose ==
  ASSUME Closed, Drops, slips = {}, slips' = {}, plan' \in {"completed", "failed"},
         plan' = plan \/ (plan' = StatusAfterDecision(item') /\ slips' = HiddenBy(plan', item')),
         NEW i \in Items \ blame'
  PROVE  item'[i].status \notin Open
<1>1. blame \subseteq blame' /\ (item'[i] = item[i] \/ item'[i].status \in {"blocked", "stale"})
  BY DEF Drops, Dropped
<1>2. CASE plan' = plan
  BY <1>1, <1>2, NothingOpens
<1>3. CASE plan' = StatusAfterDecision(item') /\ slips' = HiddenBy(plan', item')
  BY <1>3, DecisionsClose
<1> QED BY <1>2, <1>3

\* What the plan's status is once items in conflict are deferred.
LEMMA CurateEnds ==
  ASSUME NEW rows \in [Items -> Row], NEW settled, Curate(rows, settled),
         settled = plan \/ settled = StatusAfterDecision(rows)
  PROVE  plan' = "deciding" \/ plan' = plan \/ plan' = StatusAfterDecision(item')
<1>1. item' = Deferred(rows)
  BY DEF Curate
<1>2. \/ plan' = "deciding"
      \/ Conflicting(rows) # {} /\ plan' = StatusAfterDecision(Deferred(rows))
      \/ Conflicting(rows) = {} /\ plan' = settled
  BY DEF Curate
<1>3. CASE Conflicting(rows) # {} /\ plan' = StatusAfterDecision(Deferred(rows))
  BY <1>1, <1>3
<1>4. CASE Conflicting(rows) = {} /\ plan' = settled
  <2>1. Deferred(rows) = rows
    BY <1>4 DEF Deferred
  <2> QED BY <1>1, <1>4, <2>1
<1> QED BY <1>2, <1>3, <1>4

LEMMA SettleCloses ==
  ASSUME Closed, RunInv, Settle \/ SettleNothing, slips = {}, slips' = {},
         plan' \in {"completed", "failed"}, NEW i \in Items \ blame'
  PROVE  item'[i].status \notin Open
<1>1. item \in [Items -> Row] /\ Drops
  BY SettleDrops DEF RunInv, PlanInv, TypeOK
<1>2. CASE SettleNothing
  <2>1. Curate(item, plan) /\ slips' = IF plan' = plan THEN slips ELSE HiddenBy(plan', item')
    BY <1>2 DEF SettleNothing
  <2>2. plan' = plan \/ plan' = StatusAfterDecision(item')
    BY <1>1, <2>1, CurateEnds
  <2> QED BY <1>1, <2>1, <2>2, DropsClose
<1>3. CASE Settle
  <2> DEFINE j == Min(dream.todo)
  <2>1. slips' = HiddenBy(plan', item')
    BY <1>3 DEF Settle
  <2>2. dream.todo # {} /\ dream.todo \subseteq Items /\ Items \in SUBSET Nat
    BY <1>3, OpsFacts DEF Settle, RunInv, RunsTyped, DreamType
  <2>3. j \in Items
    BY <2>2, MinIn
  <2>4. PICK deferred \in BOOLEAN :
          LET rows == IF ~deferred THEN item
                      ELSE IF All(j, item[j].rev, "before") THEN Blocked(j) ELSE Marked(j, "stale", "failed")
          IN IF dream.todo = {j}
             THEN Curate(rows, IF deferred \/ dream.touched THEN StatusAfterDecision(rows) ELSE plan)
             ELSE UNCHANGED plan
    BY <1>3 DEF Settle
  <2> HIDE DEF j
  <2> DEFINE rows == IF ~deferred THEN item
                     ELSE IF All(j, item[j].rev, "before") THEN Blocked(j) ELSE Marked(j, "stale", "failed")
             settled == IF deferred \/ dream.touched THEN StatusAfterDecision(rows) ELSE plan
  <2>5. rows \in [Items -> Row] /\ (settled = plan \/ settled = StatusAfterDecision(rows))
    BY <1>1, <2>3, RowsTyped DEF ItemStatus, VerificationStatus
  <2>7. plan' = plan \/ Curate(rows, settled)
    BY <2>4
  <2> HIDE DEF rows, settled
  <2>6. plan' = plan \/ plan' = StatusAfterDecision(item')
    BY <2>5, <2>7, CurateEnds
  <2> QED BY <1>1, <2>1, <2>6, DropsClose
<1> QED BY <1>2, <1>3

LEMMA PlanNextCloses ==
  ASSUME Closed, Account, Assent, RunInv, PlanNext(Busy), slips = {}, slips' = {},
         plan' \in {"completed", "failed"}, NEW i \in Items \ blame'
  PROVE  item'[i].status \notin Open
<1>1. \A rows : Redecide(rows) => item'[i].status \notin Open
  BY DecisionsClose DEF Redecide
<1>2. CASE \E j \in Items : StartRevision(j)
  BY <1>2, NothingOpens DEF StartRevision, history
<1>3. CASE \E j \in Items, s \in {"approved", "rejected"} : Decide(j, s, "human")
  BY <1>1, <1>3 DEF Decide
<1>4. CASE Seal
  <2>1. (\E rows : Redecide(rows)) \/ UNCHANGED <<item, plan, blame>>
    BY <1>4 DEF Seal
  <2> QED BY <1>1, <2>1, NothingOpens
<1>5. ~Supersede(Busy) /\ \A c \in People : ~Apply(c)
  BY DEF Supersede, Apply, Begin
<1>6. CASE \E c \in Calls : ApplyStep(c)
  BY <1>6, ApplyCloses
<1>7. CASE \E p \in Paths : Edit(p)
  <2>1. UNCHANGED <<item, plan>> /\ blame \subseteq blame'
    BY <1>7 DEF Edit
  <2> QED BY <2>1, NothingOpens
<1> QED BY <1>2, <1>3, <1>4, <1>5, <1>6, <1>7 DEF PlanNext

LEMMA DreamStepCloses ==
  ASSUME Closed, RunInv, DreamStep, slips = {}, slips' = {},
         plan' \in {"completed", "failed"}, NEW i \in Items \ blame'
  PROVE  item'[i].status \notin Open
<1>1. \A rows : Redecide(rows) => item'[i].status \notin Open
  BY DecisionsClose DEF Redecide
<1>4. CASE (\E d \in Runs : BeginRun(d)) \/ Reopen \/ CuratorRevises \/ VerifyRun \/ RecordOutcomes
           \/ Complete \/ Fail
  <2>1. UNCHANGED <<item, plan, blame>>
    BY <1>4 DEF BeginRun, Reopen, CuratorRevises, VerifyRun, RecordOutcomes, Complete, Fail, planVars, history
  <2> QED BY <2>1, NothingOpens
<1>5. CASE Plan
  <2>1. UNCHANGED <<item, blame>> /\ plan' = Finalized
    BY <1>5 DEF Plan
  <2>2. plan' = plan \/ item[i].status \notin Open
    BY <2>1 DEF Finalized, Open
  <2> QED BY <2>1, <2>2, NothingOpens
<1>6. CASE Settle \/ SettleNothing
  BY <1>6, SettleCloses
<1>8. CASE \E s \in {"approved", "rejected"} : CuratorDecides(s)
  BY <1>1, <1>8 DEF CuratorDecides, Decide
<1>9. CASE CuratorBlocks
  <2>1. slips' = HiddenBy(plan', item') /\ (plan' = plan \/ plan' = StatusAfterDecision(item'))
    BY <1>9 DEF CuratorBlocks
  <2> QED BY <1>9, <2>1, CuratorDrops, DropsClose
<1>10. CASE CuratorSeals
  BY <1>1, <1>10 DEF CuratorSeals
<1>11. CASE ApplyNext
  <2>1. UNCHANGED <<item, plan, blame>>
    BY <1>11 DEF ApplyNext, Begin, history
  <2> QED BY <2>1, NothingOpens
<1> QED BY <1>4, <1>5, <1>6, <1>8, <1>9, <1>10, <1>11 DEF DreamStep

LEMMA NextCloses ==
  ASSUME Closed, Retired, Account, Assent, RunInv, [Next]_vars
  PROVE  Closed'
<1> SUFFICES ASSUME slips' = {}
             PROVE  /\ plan' \in {"completed", "failed"} => \A i \in Items \ blame' : item'[i].status \notin Open
                    /\ plan' = "superseded" => \A i \in Items : item'[i].status \notin Recovery
  BY DEF Closed
<1>1. slips = {} /\ (plan' = "superseded" => plan = "superseded" \/ Supersede(Busy))
  BY OnlyRetirementRetires
<1>2. ASSUME plan' = "superseded", NEW i \in Items PROVE item'[i].status \notin Recovery
  <2>1. CASE plan = "superseded"
    <3>1. item' = item
      BY <1>1, <2>1, RetiredStays
    <3> QED BY <1>1, <2>1, <3>1 DEF Closed
  <2>2. CASE Supersede(Busy)
    BY <2>2 DEF Supersede
  <2> QED BY <1>1, <1>2, <2>1, <2>2
<1>3. ASSUME plan' \in {"completed", "failed"}, NEW i \in Items \ blame' PROVE item'[i].status \notin Open
  <2>1. CASE PlanNext(Busy)
    BY <1>1, <1>3, <2>1, PlanNextCloses
  <2>2. CASE DreamStep
    BY <1>1, <1>3, <2>2, DreamStepCloses
  <2>3. CASE ResumeProfile \/ ResumeTransform \/ Crash \/ UNCHANGED vars
    <3>1. UNCHANGED <<item, plan>> /\ blame \subseteq blame'
      BY <2>3 DEF ResumeProfile, ResumeTransform, Crash, Died, Enter, vars, planVars, history
    <3> QED BY <1>1, <1>3, <3>1, NothingOpens
  <2> QED BY <2>1, <2>2, <2>3 DEF Next
<1> QED BY <1>2, <1>3

LEMMA ClosedAtFirst == DreamInit => Closed
<1> SUFFICES ASSUME DreamInit
             PROVE  Closed
  OBVIOUS
<1>1. plan = StatusAfterDecision(NoRows) /\ item = NoRows
  BY DEF DreamInit, Init
<1>2. \A i \in Items : item[i].status = "proposed"
  BY <1>1 DEF NoRows, NewRow
<1>3. plan # "superseded"
  BY <1>1, StatusesNotRetired
<1> QED BY <1>2, <1>3 DEF Closed, Open

LEMMA ClosedInvariant == DreamSpec => []Closed
<1>1. RunInv /\ Assent /\ Account /\ Retired /\ Closed /\ [Next]_vars => Closed'
  BY NextCloses
<1> QED BY <1>1, ClosedAtFirst, RunInvariant, AssentInvariant, AccountInvariant, RetiredInvariant, PTL DEF DreamSpec

\* A plan that is over, and whose status nobody wrote while an apply or an
\* interrupted item was still there, has no item left half-way: no later apply or
\* dream would look for it (plans.ts, maintenancePlanStatusAfterApply,
\* refreshDecisionStatus, finalizeRetryableMaintenancePlans).
THEOREM NothingIsStranded == DreamSpec => []NothingStranded
<1>1. Closed => NothingStranded
  BY DEF Closed, NothingStranded, Terminal, Open, Recovery
<1> QED BY <1>1, ClosedInvariant, PTL

-----------------------------------------------------------------------------
(* What a pause is counted from *)

Reversed(ch, i) == \E n \in DOMAIN ch : ch[n].item = i /\ ch[n].undone

\* Rows that say an item was rolled back say so of a change that is reversed.
Deserved(rows) == \A i \in Items : rows[i].proof = "rolled_back" => Reversed(changes, i)

Reverses ==
  /\ Deserved(item)
  /\ \A c \in Calls :
       /\ call[c].pc = "reindex" => Reversed(changes, At(c))
       /\ call[c].pc = "undo" => call[c].seen[At(c)].change # 0

\* What is reversed stays so.
Marks == \A n \in DOMAIN changes :
  n \in DOMAIN changes' /\ changes'[n].item = changes[n].item /\ (changes[n].undone => changes'[n].undone)

\* Where a call stands after a step that may have reversed its change.
Reverts(c) ==
  /\ call'[c].pc = "reindex" => Reversed(changes', call'[c].at)
  /\ call'[c].pc = "undo" => call'[c].seen[call'[c].at].change # 0

LEMMA ReversalsStay ==
  ASSUME Reverses, Deserved(item'), Marks, \A c \in Calls : call'[c] = call[c] \/ Reverts(c)
  PROVE  Reverses'
<1>1. \A i : Reversed(changes, i) => Reversed(changes', i)
  BY DEF Marks, Reversed
<1>2. Deserved(item)'
  BY <1>1 DEF Deserved
<1>3. ASSUME NEW c \in Calls
      PROVE  /\ call'[c].pc = "reindex" => Reversed(changes', call'[c].at)
             /\ call'[c].pc = "undo" => call'[c].seen[call'[c].at].change # 0
  BY <1>1 DEF Reverses, Reverts, At
<1> QED BY <1>2, <1>3 DEF Reverses, At

LEMMA RecordMarks ==
  ASSUME changes \in Seq(Change), NEW i \in Items, NEW r \in Revisions, changes' = Recorded(i, r)
  PROVE  Marks
<1> DEFINE e == [item |-> i, rev |-> r, undone |-> FALSE]
<1>1. e \in Change /\ changes' = Append(changes, e)
  BY DEF Change, Recorded
<1> HIDE DEF e
<1> QED BY <1>1 DEF Marks

LEMMA UndoMarks ==
  ASSUME changes \in Seq(Change), NEW m \in DOMAIN changes, changes' = [changes EXCEPT ![m].undone = TRUE]
  PROVE  Marks /\ changes'[m].undone /\ changes'[m].item = changes[m].item
<1>1. changes[m] \in Change /\ changes'[m] = [changes[m] EXCEPT !.undone = TRUE]
  OBVIOUS
<1>2. changes'[m].undone /\ changes'[m].item = changes[m].item
  BY <1>1 DEF Change
<1>3. \A n \in DOMAIN changes : n \in DOMAIN changes' /\ (n # m => changes'[n] = changes[n])
  OBVIOUS
<1> QED BY <1>2, <1>3 DEF Marks

\* The rows a call writes.
LEMMA RowsDeserve ==
  ASSUME item \in [Items -> Row], Deserved(item), NEW i \in Items, NEW s, NEW proof,
         proof = "rolled_back" => Reversed(changes, i)
  PROVE  /\ Deserved(Marked(i, s, proof))
         /\ \A n : Deserved([Marked(i, s, proof) EXCEPT ![i].change = n])
         /\ Deserved([Marked(i, s, proof) EXCEPT ![i].over = TRUE])
<1> DEFINE m == Marked(i, s, proof)
<1>1. /\ m[i].proof = proof /\ \A j \in Items \ {i} : m[j] = item[j]
      /\ DOMAIN m = Items /\ DOMAIN m[i] = DOMAIN item[i]
  BY RowShape, RowFacts
<1> HIDE DEF m
<1>2. Deserved(m)
  BY <1>1 DEF Deserved
<1>3. \A n : Deserved([m EXCEPT ![i].change = n])
  BY <1>1, <1>2 DEF Deserved
<1>4. Deserved([m EXCEPT ![i].over = TRUE])
  BY <1>1, <1>2 DEF Deserved
<1> QED BY <1>2, <1>3, <1>4 DEF m

LEMMA KeptRowsDeserve ==
  ASSUME item \in [Items -> Row], Deserved(item), NEW i \in Items
  PROVE  Deserved(Blocked(i)) /\ \A n : Deserved([item EXCEPT ![i].change = n])
<1>1. Blocked(i)[i].proof = item[i].proof /\ \A j \in Items \ {i} : Blocked(i)[j] = item[j]
  BY RowShape, RowFacts
<1>2. \A n : Deserved([item EXCEPT ![i].change = n])
  BY DEF Deserved, Row
<1> QED BY <1>1, <1>2 DEF Deserved

\* A call that leaves its item, or goes on with it, is not reversing anything.
LEMMA LeaveReverts ==
  ASSUME PlanInv, NEW c \in Calls, call[c].pc \notin Idling, NEW rows, Proceed(c, rows) \/ Throw(c, rows), Deserved(rows)
  PROVE  Reverts(c) /\ Deserved(item')
BY LeaveShape DEF Inside, Reverts

LEMMA GoReverts ==
  ASSUME PlanInv, NEW c \in Calls, call[c].pc \notin Idling, NEW rows, NEW left,
         NEW pc \in {"check", "mend", "resume", "index"}, Continue(c, pc, rows, left), Deserved(rows)
  PROVE  Reverts(c) /\ Deserved(item')
BY GoShape DEF Reverts

LEMMA RecoverReverses ==
  ASSUME Reverses, PlanInv, NEW c \in Calls, Recover(c)
  PROVE  Reverts(c) /\ Deserved(item') /\ Marks
<1> DEFINE i == At(c)
           r == Rev(c)
<1>1. call[c].pc \notin Idling
  BY DEF Recover, Idling
<1>2. i \in Items /\ r \in Revisions /\ item \in [Items -> Row] /\ changes \in Seq(Change) /\ Deserved(item)
  BY <1>1, AtWork DEF Reverses
<1>3. Marks
  <2>1. changes' = changes \/ changes' = Recorded(i, r)
    BY DEF Recover
  <2>2. CASE changes' = changes
    BY <2>2 DEF Marks
  <2> QED BY <1>2, <2>1, <2>2, RecordMarks
<1>4. \/ Continue(c, "check", Marked(i, "approved", "none"), {})
      \/ Proceed(c, Marked(i, "verification_failed", "failed"))
      \/ \E left : Continue(c, "mend", item, left)
      \/ \E n : Continue(c, "resume", [Marked(i, "verification_pending", "pending") EXCEPT ![i].change = n], {})
  <2> HIDE DEF i, r
  <2> QED BY DEF Recover, i, r
<1> HIDE DEF i, r
<1>r. Deserved(Marked(i, "approved", "none")) /\ Deserved(Marked(i, "verification_failed", "failed"))
  BY <1>2, RowsDeserve
<1>5. CASE Continue(c, "check", Marked(i, "approved", "none"), {})
  BY <1>1, <1>r, <1>3, <1>5, GoReverts
<1>6. CASE Proceed(c, Marked(i, "verification_failed", "failed"))
  BY <1>1, <1>r, <1>3, <1>6, LeaveReverts
<1>7. CASE \E left : Continue(c, "mend", item, left)
  BY <1>1, <1>2, <1>3, <1>7, GoReverts
<1>8. ASSUME NEW n, Continue(c, "resume", [Marked(i, "verification_pending", "pending") EXCEPT ![i].change = n], {})
      PROVE  Reverts(c) /\ Deserved(item')
  <2> DEFINE rows == [Marked(i, "verification_pending", "pending") EXCEPT ![i].change = n]
  <2>1. Deserved(rows)
    BY <1>2, RowsDeserve
  <2>2. Continue(c, "resume", rows, {})
    BY <1>8
  <2> HIDE DEF rows
  <2> QED BY <1>1, <2>1, <2>2, GoReverts
<1> QED BY <1>3, <1>4, <1>5, <1>6, <1>7, <1>8

LEMMA CheckReverses ==
  ASSUME Reverses, PlanInv, NEW c \in Calls, Check(c)
  PROVE  Reverts(c) /\ Deserved(item') /\ Marks
<1> DEFINE i == At(c)
<1>1. call[c].pc \notin Idling /\ changes' = changes
  BY DEF Check, Idling
<1>2. i \in Items /\ item \in [Items -> Row] /\ Deserved(item) /\ call \in [Calls -> CallType]
  BY <1>1, Typed DEF Reverses
<1>3. Marks
  BY <1>1 DEF Marks
<1>4. /\ Deserved(Marked(i, "stale", "failed")) /\ Deserved(Blocked(i)) /\ Deserved(Marked(i, "applying", "none"))
      /\ Deserved([Marked(i, "proposed", "none") EXCEPT ![i].over = TRUE])
  <2>1. Deserved(Marked(i, "stale", "failed")) /\ Deserved(Marked(i, "applying", "none"))
    BY <1>2, RowsDeserve
  <2>2. Deserved([Marked(i, "proposed", "none") EXCEPT ![i].over = TRUE])
    BY <1>2, RowsDeserve
  <2>3. Deserved(Blocked(i))
    BY <1>2, KeptRowsDeserve
  <2> QED BY <2>1, <2>2, <2>3
<1>5. CASE item' = Marked(i, "applying", "none") /\ call'[c].pc = "write"
  BY <1>3, <1>4, <1>5 DEF Reverts
<1>6. ASSUME NEW rows, Deserved(rows), Proceed(c, rows) PROVE Reverts(c) /\ Deserved(item')
  BY <1>1, <1>6, LeaveReverts
<1>7. \/ item' = Marked(i, "applying", "none") /\ call'[c].pc = "write"
      \/ Proceed(c, Marked(i, "stale", "failed")) \/ Proceed(c, Blocked(i))
      \/ Proceed(c, [Marked(i, "proposed", "none") EXCEPT ![i].over = TRUE])
  <2>1. call' = [call EXCEPT ![c].pc = "write", ![c].k = 0, ![c].spent = call[c].spent \cup {i}] => call'[c].pc = "write"
    BY <1>2 DEF CallType
  <2> QED BY <2>1 DEF Check
<1> QED BY <1>3, <1>4, <1>5, <1>6, <1>7

LEMMA RecordReverses ==
  ASSUME Reverses, PlanInv, NEW c \in Calls, Record(c)
  PROVE  Reverts(c) /\ Deserved(item') /\ Marks
<1> DEFINE i == At(c)
           n == Len(changes) + 1
<1>1. call[c].pc = "write" /\ call[c].pc \notin Idling
  BY DEF Record, Idling
<1>2. i \in Items /\ Rev(c) \in Revisions /\ item \in [Items -> Row] /\ changes \in Seq(Change) /\ Deserved(item)
      /\ call \in [Calls -> CallType]
  BY <1>1, AtWork, Typed DEF Reverses
<1>3. CASE /\ changes' = Recorded(i, Rev(c)) /\ item' = [item EXCEPT ![i].change = n]
           /\ call' = [call EXCEPT ![c].pc = "index", ![c].seen[i].change = n]
  <2>1. Marks
    BY <1>2, <1>3, RecordMarks
  <2>2. Deserved(item')
    BY <1>2, <1>3, KeptRowsDeserve
  <2>3. call'[c].pc = "index"
    BY <1>2, <1>3 DEF CallType
  <2> QED BY <2>1, <2>2, <2>3 DEF Reverts
<1>4. CASE call' = [call EXCEPT ![c].pc = "restore", ![c].left = DOMAIN Ops[i]] /\ UNCHANGED <<changes, item>>
  <2>1. call'[c].pc = "restore"
    BY <1>2, <1>4 DEF CallType
  <2> QED BY <1>2, <1>4, <2>1 DEF Reverts, Marks
<1> QED BY <1>3, <1>4 DEF Record

\* The steps that write files, but not to undo a change, and those that end the item.
LEMMA OtherReverses ==
  ASSUME Reverses, PlanInv, NEW c \in Calls,
         Mend(c) \/ Mended(c) \/ Write(c) \/ Restore(c) \/ GiveUp(c) \/ Resume(c) \/ Index(c)
  PROVE  Reverts(c) /\ Deserved(item') /\ Marks
<1> DEFINE i == At(c)
<1>1. /\ call[c].pc \notin Idling /\ call[c].pc \notin {"undo", "reindex"} /\ changes' = changes
  BY DEF Mend, Mended, Write, Restore, GiveUp, Resume, Index, Idling
<1>2. i \in Items /\ item \in [Items -> Row] /\ Deserved(item) /\ call \in [Calls -> CallType] /\ call[c] \in CallType
  BY <1>1, Typed DEF Reverses
<1>3. Marks
  BY <1>1 DEF Marks
<1>4. /\ Deserved(Marked(i, "verification_failed", "failed")) /\ Deserved(Blocked(i))
      /\ Deserved(Marked(i, "approved", "none")) /\ Deserved(Marked(i, "verification_pending", "pending"))
  <2>1. /\ Deserved(Marked(i, "verification_failed", "failed")) /\ Deserved(Marked(i, "approved", "none"))
        /\ Deserved(Marked(i, "verification_pending", "pending"))
    BY <1>2, RowsDeserve
  <2>2. Deserved(Blocked(i))
    BY <1>2, KeptRowsDeserve
  <2> QED BY <2>1, <2>2
<1>5. \/ \E rows : (Proceed(c, rows) \/ Throw(c, rows)) /\ Deserved(rows)
      \/ \E rows, left : Deserved(rows) /\ (Continue(c, "check", rows, left) \/ Continue(c, "mend", rows, left)
                                            \/ Continue(c, "index", rows, left))
      \/ item' = item /\ call'[c].pc \in {"write", "restore", "verify"}
  <2>1. CASE Mend(c)
    BY <1>2, <1>4, <2>1 DEF Mend
  <2>2. CASE Mended(c)
    BY <1>4, <2>2 DEF Mended
  <2>3. CASE Write(c)
    <3>1. item' = item /\ \/ call' = [call EXCEPT ![c].k = call[c].k + 1] /\ call[c].pc = "write"
                          \/ call' = [call EXCEPT ![c].pc = "restore", ![c].left = 1 .. call[c].k]
      BY <2>3 DEF Write
    <3> QED BY <1>2, <3>1 DEF CallType
  <2>4. CASE Restore(c)
    <3>1. CASE Throw(c, Marked(i, "verification_failed", "failed"))
      BY <1>4, <3>1
    <3>2. CASE item' = item /\ call' = [call EXCEPT ![c].left = call[c].left \ {Max(call[c].left)}] /\ call[c].pc = "restore"
      BY <1>2, <3>2 DEF CallType
    <3> QED BY <2>4, <3>1, <3>2 DEF Restore
  <2>5. CASE GiveUp(c)
    BY <1>4, <2>5 DEF GiveUp
  <2>6. CASE Resume(c)
    BY <1>2, <1>4, <2>6 DEF Resume
  <2>7. CASE Index(c)
    <3>1. CASE Proceed(c, Marked(i, "verification_pending", "pending"))
      BY <1>4, <3>1
    <3>2. CASE item' = item /\ call' = [call EXCEPT ![c].pc = "verify"]
      BY <1>2, <3>2 DEF CallType
    <3> QED BY <2>7, <3>1, <3>2 DEF Index
  <2> QED BY <2>1, <2>2, <2>3, <2>4, <2>5, <2>6, <2>7
<1>6. CASE \E rows : (Proceed(c, rows) \/ Throw(c, rows)) /\ Deserved(rows)
  BY <1>1, <1>3, <1>6, LeaveReverts
<1>7. CASE \E rows, left : Deserved(rows) /\ (Continue(c, "check", rows, left) \/ Continue(c, "mend", rows, left)
                                              \/ Continue(c, "index", rows, left))
  BY <1>1, <1>3, <1>7, GoReverts
<1>8. CASE item' = item /\ call'[c].pc \in {"write", "restore", "verify"}
  BY <1>2, <1>3, <1>8 DEF Reverts
<1> QED BY <1>5, <1>6, <1>7, <1>8

\* A call undoes the change it knows, which is its item's.
LEMMA UndoReverses ==
  ASSUME Reverses, Owns, PlanInv, NEW c \in Calls, Verify(c) \/ Undo(c) \/ Undone(c) \/ Reindex(c)
  PROVE  Reverts(c) /\ Deserved(item') /\ Marks
<1> DEFINE i == At(c)
           m == call[c].seen[i].change
<1>1. call[c].pc \notin Idling
  BY DEF Verify, Undo, Undone, Reindex, Idling
<1>2. /\ i \in Items /\ item \in [Items -> Row] /\ Deserved(item) /\ call \in [Calls -> CallType]
      /\ call[c] \in CallType /\ changes \in Seq(Change) /\ call[c].at = i
  BY <1>1, Typed, AtWork DEF Reverses, At
<1>3. Deserved(Marked(i, "verification_failed", "failed")) /\ Deserved(Marked(i, "applied", "passed"))
  BY <1>2, RowsDeserve
<1>4. changes' = changes => Marks
  BY DEF Marks
<1>5. ASSUME NEW rows, Deserved(rows), Proceed(c, rows), changes' = changes PROVE Reverts(c) /\ Deserved(item') /\ Marks
  BY <1>1, <1>4, <1>5, LeaveReverts
<1>6. CASE call' = [call EXCEPT ![c].pc = "undo", ![c].left = DOMAIN Ops[i]] /\ m # 0 /\ UNCHANGED <<item, changes>>
  <2>1. call'[c].pc = "undo" /\ call'[c].at = i /\ call'[c].seen = call[c].seen
    BY <1>2, <1>6 DEF CallType
  <2> QED BY <1>2, <1>4, <1>6, <2>1 DEF Reverts
<1>7. CASE /\ call[c].pc = "undo" /\ UNCHANGED <<item, changes>>
           /\ call' = [call EXCEPT ![c].left = call[c].left \ {Max(call[c].left)}]
  <2>1. call'[c].pc = "undo" /\ call'[c].at = i /\ call'[c].seen = call[c].seen /\ m # 0
    BY <1>2, <1>7 DEF CallType, Reverses
  <2> QED BY <1>2, <1>4, <1>7, <2>1 DEF Reverts
<1>8. CASE Undone(c)
  <2>1. call[c].pc = "undo" /\ changes' = [changes EXCEPT ![m].undone = TRUE] /\ item' = item
        /\ call' = [call EXCEPT ![c].pc = "reindex"]
    BY <1>8 DEF Undone
  <2>2. m # 0 /\ m \in Own(changes, i)
    BY <1>2, <2>1 DEF Reverses, Owns
  <2>3. m \in DOMAIN changes /\ changes[m].item = i
    BY <2>2 DEF Own
  <2> HIDE DEF m
  <2>4. Marks /\ changes'[m].undone /\ changes'[m].item = i
    BY <1>2, <2>1, <2>3, UndoMarks
  <2>5. Reversed(changes', i)
    BY <2>3, <2>4 DEF Marks, Reversed
  <2>6. call'[c].pc = "reindex" /\ call'[c].at = i
    BY <1>2, <2>1 DEF CallType
  <2> QED BY <1>2, <2>1, <2>4, <2>5, <2>6 DEF Reverts
<1>9. CASE Reindex(c)
  <2>1. Reversed(changes, i)
    BY <1>9 DEF Reindex, Reverses
  <2>2. Deserved(Marked(i, "verification_failed", "rolled_back"))
    BY <1>2, <2>1, RowsDeserve
  <2> QED BY <1>3, <1>5, <1>9, <2>2 DEF Reindex
<1>10. CASE Verify(c)
  BY <1>3, <1>5, <1>6, <1>10 DEF Verify
<1>11. CASE Undo(c)
  BY <1>3, <1>5, <1>7, <1>11 DEF Undo
<1> QED BY <1>8, <1>9, <1>10, <1>11

LEMMA ApplyReverses ==
  ASSUME Reverses, Owns, PlanInv, NEW c \in Calls, ApplyStep(c)
  PROVE  Reverses' /\ Marks
<1>1. Reverts(c) /\ Deserved(item') /\ Marks
  BY RecoverReverses, CheckReverses, RecordReverses, OtherReverses, UndoReverses DEF ApplyStep
<1>2. \A d \in Calls \ {c} : call'[d] = call[d]
  BY ApplyStepKeeps DEF ApplyKeeps
<1> QED BY <1>1, <1>2, ReversalsStay

\* A step that reverses nothing and leaves the calls where they were, or elsewhere.
LEMMA NothingReverses ==
  ASSUME Reverses, changes' = changes, item' \in [Items -> Row],
         \A i \in Items : item'[i].proof \in {"none", "failed", item[i].proof},
         \A c \in Calls : call'[c] = call[c] \/ call'[c].pc \notin {"undo", "reindex"}
  PROVE  Reverses' /\ Marks
<1>1. Deserved(item') /\ Marks
  BY DEF Reverses, Deserved, Marks
<1>2. \A c \in Calls : call'[c] = call[c] \/ Reverts(c)
  BY DEF Reverts
<1> QED BY <1>1, <1>2, ReversalsStay

LEMMA BeginReverses ==
  ASSUME Reverses, PlanInv, NEW c \in Calls, NEW only, Begin(c, only), UNCHANGED <<changes, item>>
  PROVE  Reverses' /\ Marks
<1> DEFINE m == Min({j \in only : item[j].status \in Open})
           pc == Entry(item[m].status)
           seen == [j \in Items |-> IF j \in only THEN item[j] ELSE NewRow]
           cl == [pc |-> pc, at |-> m, k |-> 0, left |-> {}, only |-> only, seen |-> seen, spent |-> call[c].spent]
<1>1. call' = [call EXCEPT ![c] = cl] /\ call \in [Calls -> CallType] /\ item \in [Items -> Row]
  BY DEF Begin, PlanInv, TypeOK
<1>2. pc \notin {"undo", "reindex"} /\ cl.pc = pc
  BY DEF Entry
<1> HIDE DEF cl
<1>3. call'[c] = cl /\ \A d \in Calls \ {c} : call'[d] = call[d]
  BY <1>1
<1> QED BY <1>1, <1>2, <1>3, NothingReverses

LEMMA DecideReverses ==
  ASSUME Reverses, PlanInv, NEW i \in Items, NEW s \in {"approved", "rejected"}, NEW a, Decide(i, s, a)
  PROVE  Reverses' /\ Marks
<1>1. item \in [Items -> Row] /\ item' = Decided(i, s) /\ UNCHANGED <<changes, call>>
  BY DEF Decide, Redecide, PlanInv, TypeOK
<1> DEFINE b == [item EXCEPT ![i].status = s]
<1>2. /\ b \in [Items -> Row] /\ b[i].proof = item[i].proof /\ \A j \in Items \ {i} : b[j] = item[j]
  BY <1>1 DEF Row, ItemStatus
<1>3. item' = [b EXCEPT ![i].over = FALSE]
  BY <1>1 DEF Decided
<1> HIDE DEF b
<1>4. item' \in [Items -> Row] /\ item'[i].proof = b[i].proof /\ \A j \in Items \ {i} : item'[j] = b[j]
  BY <1>2, <1>3 DEF Row
<1> QED BY <1>1, <1>2, <1>4, NothingReverses

LEMMA SealReverses ==
  ASSUME Reverses, PlanInv, item' \in [Items -> Row], NEW i \in Items, Redecide(Revised(i)), UNCHANGED <<changes, call>>
  PROVE  Reverses' /\ Marks
<1> DEFINE row == [NewRow EXCEPT !.rev = item[i].rev + 1]
<1>1. item' = [item EXCEPT ![i] = row] /\ row.proof = "none"
  BY DEF Redecide, Revised, NewRow
<1> HIDE DEF row
<1>2. \A j \in Items : item'[j].proof \in {"none", item[j].proof}
  BY <1>1 DEF PlanInv, TypeOK
<1> QED BY <1>2, NothingReverses

LEMMA DiedReverses ==
  ASSUME Reverses, PlanInv, Died
  PROVE  Reverses' /\ Marks
<1>1. item' = item /\ call' = [c \in Calls |-> Idle] /\ Idle.pc \notin {"undo", "reindex"} /\ changes \in Seq(Change)
  BY DEF Died, Idle, PlanInv, TypeOK, Change
<1>2. Marks
  <2>1. CASE changes' = changes
    BY <2>1 DEF Marks
  <2>2. ASSUME NEW c \in Calls, call[c].pc \in {"write", "recover"}, changes' = Recorded(At(c), Rev(c)) PROVE Marks
    <3>1. At(c) \in Items /\ Rev(c) \in Revisions
      BY <2>2, AtWork DEF Idling
    <3> QED BY <1>1, <2>2, <3>1, RecordMarks
  <2> QED BY <2>1, <2>2 DEF Died
<1>3. \A c \in Calls : Reverts(c)
  BY <1>1 DEF Reverts
<1> QED BY <1>1, <1>2, <1>3, ReversalsStay DEF Reverses

LEMMA PlanReverses ==
  ASSUME Reverses, Owns, PlanInv, PlanInv', NEW busy, PlanNext(busy)
  PROVE  Reverses' /\ Marks
<1>0. item' \in [Items -> Row]
  BY DEF PlanInv, TypeOK
<1>1. CASE (\E i \in Items : StartRevision(i)) \/ Supersede(busy) \/ (\E p \in Paths : Edit(p))
  <2>1. UNCHANGED <<item, changes, call>>
    BY <1>1 DEF StartRevision, Supersede, Edit
  <2> QED BY <1>0, <2>1, NothingReverses
<1>2. ASSUME NEW i \in Items, NEW s \in {"approved", "rejected"}, Decide(i, s, "human") PROVE Reverses' /\ Marks
  BY <1>2, DecideReverses
<1>3. CASE Seal
  <2>1. CASE UNCHANGED item
    BY <1>0, <1>3, <2>1, NothingReverses DEF Seal
  <2>2. CASE Redecide(Revised(draft["human"].at))
    <3>1. draft["human"].at \in Items
      BY <1>3 DEF Seal, PlanInv, DraftsOK, Actors
    <3> QED BY <1>0, <1>3, <2>2, <3>1, SealReverses DEF Seal
  <2> QED BY <1>3, <2>1, <2>2 DEF Seal
<1>4. ASSUME NEW c \in People, Apply(c) PROVE Reverses' /\ Marks
  BY <1>4, BeginReverses DEF Apply, Calls
<1>5. ASSUME NEW c \in Calls, ApplyStep(c) PROVE Reverses' /\ Marks
  BY <1>5, ApplyReverses
<1> QED BY <1>1, <1>2, <1>3, <1>4, <1>5 DEF PlanNext

LEMMA DreamReverses ==
  ASSUME Reverses, RunInv, RunInv', DreamStep
  PROVE  Reverses' /\ Marks
<1>0. item' \in [Items -> Row] /\ call \in [Calls -> CallType]
  BY DEF RunInv, PlanInv, TypeOK
<1>1. CASE (\E d \in Runs : BeginRun(d)) \/ Reopen \/ Plan \/ CuratorRevises \/ VerifyRun \/ RecordOutcomes
           \/ Complete \/ Fail
  <2>1. UNCHANGED <<item, changes>>
    BY <1>1 DEF BeginRun, Reopen, Plan, CuratorRevises, VerifyRun, RecordOutcomes, Complete, Fail, planVars
  <2>2. call' = call \/ call' = [call EXCEPT ![Dreamer] = Idle]
    BY <1>1 DEF BeginRun, Reopen, Plan, CuratorRevises, VerifyRun, RecordOutcomes, Complete, Fail, Over, planVars
  <2>3. Idle.pc = "idle"
    BY DEF Idle
  <2> QED BY <1>0, <2>1, <2>2, <2>3, NothingReverses
<1>2. CASE Settle \/ SettleNothing \/ CuratorBlocks
  <2>1. Drops
    BY <1>2, SettleDrops, CuratorDrops
  <2>2. UNCHANGED <<changes, call>>
    BY <1>2 DEF Settle, SettleNothing, CuratorBlocks
  <2> QED BY <1>0, <2>1, <2>2, NothingReverses DEF Drops
<1>3. ASSUME NEW s \in {"approved", "rejected"}, CuratorDecides(s) PROVE Reverses' /\ Marks
  <2>1. dream.pc = "curating" /\ Decide(Curated, s, "curator")
    BY <1>3 DEF CuratorDecides, AskingCurator
  <2> QED BY <2>1, CuratedItem, DecideReverses DEF RunInv
<1>4. CASE CuratorSeals
  <2>1. draft["curator"].at \in Items
    BY <1>4 DEF CuratorSeals, RunInv, PlanInv, DraftsOK, Actors
  <2> QED BY <1>0, <1>4, <2>1, SealReverses DEF CuratorSeals, RunInv
<1>5. CASE ApplyNext
  <2>1. UNCHANGED <<item, changes>> /\ (call' = call \/ \E only : Begin(Dreamer, only))
    BY <1>5 DEF ApplyNext
  <2> QED BY <1>0, <2>1, NothingReverses, BeginReverses DEF RunInv, Calls
<1> QED BY <1>1, <1>2, <1>3, <1>4, <1>5 DEF DreamStep

LEMMA NextReverses ==
  ASSUME Reverses, Owns, RunInv, RunInv', [Next]_vars
  PROVE  Reverses' /\ Marks
<1>1. CASE PlanNext(Busy)
  BY <1>1, PlanReverses DEF RunInv
<1>2. CASE DreamStep
  BY <1>2, DreamReverses
<1>3. CASE ResumeProfile \/ ResumeTransform \/ UNCHANGED vars
  <2>1. UNCHANGED <<item, changes, call>>
    BY <1>3 DEF ResumeProfile, ResumeTransform, vars, planVars
  <2> QED BY <2>1, NothingReverses DEF RunInv, PlanInv, TypeOK
<1>4. CASE Crash
  BY <1>4, DiedReverses DEF Crash, RunInv
<1> QED BY <1>1, <1>2, <1>3, <1>4 DEF Next

\* The streak is made of items that were rolled back and are recorded.
Given(cd, ch) == {i \in cd \cap AutoItems : Reversed(ch, i)}

Earned == recovery.streak <= EarlierRollbacks + Cardinality(Given(counted, changes))

LEMMA GivenFinite ==
  ASSUME NEW cd, NEW ch
  PROVE  IsFiniteSet(Given(cd, ch)) /\ Cardinality(Given(cd, ch)) \in Nat
<1>1. IsFiniteSet(AutoItems)
  <2>1. Len(Ops) \in Nat /\ Items = 1 .. Len(Ops) /\ AutoItems \in SUBSET Items
    BY PlanAssumption DEF Items
  <2>2. IsFiniteSet(Items)
    BY <2>1, FS_Interval
  <2> QED BY <2>1, <2>2, FS_Subset
<1>2. Given(cd, ch) \in SUBSET AutoItems
  BY DEF Given
<1> QED BY <1>1, <1>2, FS_Subset, FS_CardinalityType

LEMMA GivenGrows ==
  ASSUME Marks, counted \subseteq counted'
  PROVE  Cardinality(Given(counted, changes)) <= Cardinality(Given(counted', changes'))
<1>1. Given(counted, changes) \in SUBSET Given(counted', changes')
  BY DEF Marks, Reversed, Given
<1> QED BY <1>1, GivenFinite, FS_Subset

\* Each rollback is recorded once.
LEMMA RecordingEarns ==
  ASSUME Earned, Reverses, RunInv, NEW unproven, RecordRecovery(unproven), changes' = changes
  PROVE  recovery'.streak <= EarlierRollbacks + Cardinality(Given(counted', changes'))
<1> DEFINE A == Given(counted, changes)
           B == Given(counted', changes')
           R == Rollbacks
<1>1. R \subseteq B /\ A \cap R = {} /\ A \subseteq B
  <2>1. counted' = counted \cup Outcomes
    BY DEF RecordRecovery
  <2>2. Rollbacks \subseteq Outcomes \cap AutoItems /\ Outcomes \subseteq Items \ counted
    BY DEF Rollbacks, Outcomes
  <2>3. \A i \in Rollbacks : Reversed(changes, i)
    BY <2>2 DEF Rollbacks, Reverses, Deserved
  <2> QED BY <2>1, <2>2, <2>3 DEF Given
<1>2. IsFiniteSet(A) /\ IsFiniteSet(B) /\ Cardinality(A) \in Nat /\ Cardinality(B) \in Nat
  BY GivenFinite
<1>3. /\ recovery.streak \in Nat /\ EarlierRollbacks \in Nat
      /\ recovery.streak <= EarlierRollbacks + Cardinality(A)
      /\ recovery'.streak \in {recovery.streak + Cardinality(R), recovery.streak, 0}
  BY DreamAssumption DEF RunInv, RunsTyped, Earned, RecordRecovery
<1> HIDE DEF A, B, R
<1>4. IsFiniteSet(R) /\ Cardinality(R) \in Nat
  BY <1>1, <1>2, FS_Subset, FS_CardinalityType
<1>5. Cardinality(A) + Cardinality(R) <= Cardinality(B)
  <2>1. IsFiniteSet(A \cup R) /\ Cardinality(A \cup R) = Cardinality(A) + Cardinality(R) - Cardinality(A \cap R)
    BY <1>2, <1>4, FS_Union
  <2>2. Cardinality(A \cap R) = 0
    BY <1>1, FS_EmptySet
  <2>3. A \cup R \in SUBSET B
    BY <1>1
  <2>4. Cardinality(A \cup R) <= Cardinality(B)
    BY <1>2, <2>3, FS_Subset
  <2> QED BY <1>2, <1>4, <2>1, <2>2, <2>4
<1>6. recovery'.streak <= EarlierRollbacks + Cardinality(B)
  BY <1>2, <1>3, <1>4, <1>5
<1> QED BY <1>6 DEF B

LEMMA NextEarns ==
  ASSUME Earned, Reverses, RunInv, Marks, [Next]_vars
  PROVE  Earned'
<1>1. recovery.streak \in Nat /\ EarlierRollbacks \in Nat
  BY DreamAssumption DEF RunInv, RunsTyped
<1>2. ASSUME recovery'.streak \in {0, recovery.streak}, counted' = counted PROVE Earned'
  <2>1. /\ Cardinality(Given(counted, changes)) <= Cardinality(Given(counted', changes'))
        /\ Cardinality(Given(counted, changes)) \in Nat /\ Cardinality(Given(counted', changes')) \in Nat
    BY <1>2, GivenGrows, GivenFinite
  <2> QED BY <1>1, <1>2, <2>1 DEF Earned
<1>3. ASSUME NEW unproven, RecordRecovery(unproven), UNCHANGED changes PROVE Earned'
  BY <1>3, RecordingEarns DEF Earned
<1>4. CASE PlanNext(Busy) /\ UNCHANGED dreamVars
  BY <1>2, <1>4 DEF dreamVars
<1>5. CASE DreamStep
  <2>1. \/ UNCHANGED <<recovery, counted>>
        \/ (\E unproven : RecordRecovery(unproven)) /\ UNCHANGED changes
    BY <1>5 DEF DreamStep, BeginRun, Reopen, Plan, Settle, SettleNothing, CuratorDecides, CuratorBlocks,
                CuratorRevises, CuratorSeals, ApplyNext, VerifyRun, RecordOutcomes, Complete, Fail, dreamVars, planVars
  <2> QED BY <1>2, <1>3, <2>1
<1>6. CASE ResumeProfile \/ ResumeTransform
  <2>1. recovery'.streak \in {0, recovery.streak} /\ counted' = counted
    BY <1>6 DEF ResumeProfile, ResumeTransform, RunInv, RunsTyped
  <2> QED BY <1>2, <2>1
<1>7. CASE Crash \/ UNCHANGED vars
  BY <1>2, <1>7 DEF Crash, vars, dreamVars
<1> QED BY <1>4, <1>5, <1>6, <1>7 DEF Next

LEMMA EarnedInvariant == DreamSpec => [](Reverses /\ Earned)
<1>1. DreamInit => Reverses /\ Earned
  <2> SUFFICES ASSUME DreamInit PROVE Reverses /\ Earned
    OBVIOUS
  <2>1. item = NoRows /\ call = [c \in Calls |-> Idle] /\ recovery.streak = EarlierRollbacks
    BY DEF DreamInit, Init
  <2>2. Reverses
    BY <2>1 DEF Reverses, Deserved, NoRows, NewRow, Idle
  <2> QED BY <2>1, <2>2, GivenFinite, DreamAssumption DEF Earned
<1>2. RunInv /\ RunInv' /\ (Account /\ Owns) /\ (Reverses /\ Earned) /\ [Next]_vars => (Reverses /\ Earned)'
  BY NextReverses, NextEarns
<1> QED BY <1>1, <1>2, RunInvariant, AccountInvariant, PTL DEF DreamSpec

\* The streak of rollbacks that pauses automatic maintenance counts no item twice,
\* however often its outcome is recorded, and none whose journal change was not
\* reversed (dream.ts, failDreamRun; recovery.ts, recordMaintenanceRecovery).
THEOREM PausesEarned == DreamSpec => []PausesAreEarned
<1>1. Earned /\ RunInv => PausesAreEarned
  <2> SUFFICES ASSUME Earned, RunInv PROVE PausesAreEarned
    OBVIOUS
  <2> DEFINE A == Given(counted, changes)
             B == Given(AutoItems, changes)
  <2>1. IsFiniteSet(B) /\ Cardinality(A) \in Nat /\ Cardinality(B) \in Nat
    BY GivenFinite
  <2>2. A \in SUBSET B
    BY DEF Given
  <2>3. Cardinality(A) <= Cardinality(B)
    BY <2>1, <2>2, FS_Subset
  <2>4. B = {i \in AutoItems : \E n \in DOMAIN changes : changes[n].item = i /\ changes[n].undone}
    BY DEF Given, Reversed
  <2>5. recovery.streak \in Nat /\ EarlierRollbacks \in Nat /\ recovery.streak <= EarlierRollbacks + Cardinality(A)
    BY DreamAssumption DEF RunInv, RunsTyped, Earned
  <2> HIDE DEF A, B
  <2>6. recovery.streak <= EarlierRollbacks + Cardinality(B)
    BY <2>1, <2>3, <2>5
  <2> QED BY <2>4, <2>6 DEF PausesAreEarned
<1> QED BY <1>1, EarnedInvariant, RunInvariant, PTL
===============================================================================
