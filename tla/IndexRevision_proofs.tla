------------------------- MODULE IndexRevision_proofs -------------------------
(***************************************************************************)
(* The planner's revision is fixed, nobody waits behind it that should not, *)
(* and the lane goes on, for every set of works and planners.               *)
(***************************************************************************)
EXTENDS IndexRevision, SequenceTheorems, TLAPS

\* Whatever enters the lane is typed and keeps the lane's invariant.
LEMMA AppendWorkLane ==
  ASSUME NEW l \in Lane, LaneInv(l), NEW w \in Works
  PROVE  /\ Append1(l, Work(w)) \in Lane
         /\ LaneInv(Append1(l, Work(w)))
<1> DEFINE n == Append1(l, Work(w))
<1>1. Work(w) \in Entry /\ l.queue \in Seq(Entry)
  BY DEF Work, Entry, Lane
<1>2. n \in Lane
  BY <1>1 DEF Append1, Lane
<1>3. ~Marker(Work(w))
  BY DEF Marker, Work
<1>4. /\ n.held = l.held /\ n.active = l.active /\ n.running = l.running
      /\ n.reserved = l.reserved /\ n.queue = Append(l.queue, Work(w))
  BY DEF Append1, Lane
<1>5. \A i \in DOMAIN n.queue : Marker(n.queue[i]) => i \in DOMAIN l.queue /\ n.queue[i] = l.queue[i]
  BY <1>1, <1>3, <1>4
<1>6. LaneInv(n)
  BY <1>4, <1>5 DEF LaneInv
<1> QED BY <1>2, <1>6

LEMMA PrependWorkLane ==
  ASSUME NEW l \in Lane, LaneInv(l), NEW w \in Works
  PROVE  LET n == [l EXCEPT !.queue = <<Work(w)>> \o @]
         IN n \in Lane /\ LaneInv(n)
<1> DEFINE n == [l EXCEPT !.queue = <<Work(w)>> \o @]
<1>1. Work(w) \in Entry /\ l.queue \in Seq(Entry) /\ ~Marker(Work(w))
  BY DEF Work, Entry, Lane, Marker
<1>2. /\ n.held = l.held /\ n.active = l.active /\ n.running = l.running
      /\ n.reserved = l.reserved /\ n.queue = <<Work(w)>> \o l.queue
  BY DEF Lane
<1>0. /\ Len(n.queue) = Len(l.queue) + 1 /\ n.queue \in Seq(Entry)
      /\ \A i \in 1 .. Len(l.queue) + 1 :
           n.queue[i] = IF i <= 1 THEN Work(w) ELSE l.queue[i - 1]
  <2>1. /\ <<Work(w)>> \in Seq(Entry) /\ Len(<<Work(w)>>) = 1 /\ <<Work(w)>>[1] = Work(w)
    BY <1>1
  <2>2. \A i \in 1 .. 1 : <<Work(w)>>[i] = Work(w)
    BY <2>1
  <2> QED BY <1>1, <1>2, <2>1, <2>2, ConcatProperties
<1>3. n \in Lane
  BY <1>0, <1>2 DEF Lane
<1>4. \A i \in DOMAIN n.queue :
        Marker(n.queue[i]) => i - 1 \in DOMAIN l.queue /\ n.queue[i] = l.queue[i - 1]
  BY <1>0, <1>1
<1>5. LaneInv(n)
  BY <1>2, <1>4, <1>1 DEF LaneInv
<1> QED BY <1>3, <1>5

\* The splice in front of the queued barrier, elementwise.
LEMMA Inserted ==
  ASSUME NEW S, NEW q \in Seq(S), NEW e \in S, NEW k \in 1 .. Len(q)
  PROVE  /\ Spliced(q, k, e) \in Seq(S)
         /\ Len(Spliced(q, k, e)) = Len(q) + 1
         /\ \A i \in 1 .. Len(q) + 1 :
              Spliced(q, k, e)[i] = IF i < k THEN q[i] ELSE IF i = k THEN e ELSE q[i - 1]
<1> DEFINE a == SubSeq(q, 1, k - 1)
           b == SubSeq(q, k, Len(q))
           m == <<e>>
           ab == a \o m
<1>1. /\ a \in Seq(S) /\ Len(a) = k - 1
      /\ \A i \in 1 .. k - 1 : a[i] = q[i]
  <2>1. \A i \in 1 .. k - 1 : q[i] \in S
    BY ElementOfSeq
  <2> QED BY <2>1, SubSeqProperties
<1>2. /\ b \in Seq(S) /\ Len(b) = Len(q) - k + 1
      /\ \A i \in 1 .. Len(q) - k + 1 : b[i] = q[k + i - 1]
  <2>1. \A i \in k .. Len(q) : q[i] \in S
    BY ElementOfSeq
  <2> QED BY <2>1, SubSeqProperties
<1>3. m \in Seq(S) /\ Len(m) = 1 /\ m[1] = e
  OBVIOUS
<1>r. Spliced(q, k, e) = ab \o b
  BY DEF Spliced
<1> HIDE DEF a, b, m
<1>4. /\ ab \in Seq(S) /\ Len(ab) = k
      /\ \A i \in 1 .. k : ab[i] = IF i < k THEN q[i] ELSE e
  <2>1. /\ ab \in Seq(S) /\ Len(ab) = Len(a) + Len(m)
        /\ \A i \in 1 .. Len(a) + Len(m) : ab[i] = IF i <= Len(a) THEN a[i] ELSE m[i - Len(a)]
    BY <1>1, <1>3, ConcatProperties
  <2> QED BY <1>1, <1>3, <2>1
<1> HIDE DEF ab
<1>5. /\ ab \o b \in Seq(S) /\ Len(ab \o b) = Len(ab) + Len(b)
      /\ \A i \in 1 .. Len(ab) + Len(b) : (ab \o b)[i] = IF i <= Len(ab) THEN ab[i] ELSE b[i - Len(ab)]
  BY <1>2, <1>4, ConcatProperties
<1>6. \A i \in 1 .. Len(ab \o b) :
        (ab \o b)[i] = IF i < k THEN q[i] ELSE IF i = k THEN e ELSE q[i - 1]
  BY <1>2, <1>4, <1>5
<1>7. Len(ab \o b) = Len(q) + 1
  BY <1>2, <1>4, <1>5
<1> QED BY <1>5, <1>6, <1>7, <1>r

LEMMA BeforeBarrierLane ==
  ASSUME NEW l \in Lane, LaneInv(l), BarrierQueued(l), NEW w \in Works
  PROVE  /\ BeforeBarrier(l, Work(w)) \in Lane
         /\ LaneInv(BeforeBarrier(l, Work(w)))
         /\ BeforeBarrier(l, Work(w)).active = l.active
         /\ BeforeBarrier(l, Work(w)).running = l.running
<1> DEFINE k == CHOOSE j \in DOMAIN l.queue : l.queue[j].kind = "barrier"
           n == BeforeBarrier(l, Work(w))
           back(i) == IF i < k THEN i ELSE i - 1
<1>1. Work(w) \in Entry /\ l.queue \in Seq(Entry) /\ ~Marker(Work(w))
  BY DEF Work, Entry, Lane, Marker
<1>2. k \in 1 .. Len(l.queue)
  BY <1>1 DEF BarrierQueued
<1> DEFINE r == Spliced(l.queue, k, Work(w))
<1>3. n = [l EXCEPT !.queue = r]
  BY DEF BeforeBarrier
<1>4. /\ r \in Seq(Entry) /\ Len(r) = Len(l.queue) + 1
      /\ \A i \in 1 .. Len(l.queue) + 1 :
           r[i] = IF i < k THEN l.queue[i] ELSE IF i = k THEN Work(w) ELSE l.queue[i - 1]
  <2> HIDE DEF k
  <2> QED BY <1>1, <1>2, Inserted
<1> HIDE DEF k, r, n
<1>5. /\ n.held = l.held /\ n.active = l.active /\ n.running = l.running
      /\ n.reserved = l.reserved /\ n.queue = r
  BY <1>3 DEF Lane
<1>6. n \in Lane
  BY <1>3, <1>4 DEF Lane
<1>7. k \in Int /\ Len(l.queue) \in Nat /\ DOMAIN r = 1 .. Len(l.queue) + 1
       /\ DOMAIN l.queue = 1 .. Len(l.queue)
  BY <1>1, <1>2, <1>4
<1>8. \A i \in DOMAIN r :
        i # k => back(i) \in DOMAIN l.queue /\ r[i] = l.queue[back(i)]
  BY <1>2, <1>4, <1>7
<1>9. \A i \in DOMAIN r :
        Marker(r[i]) => back(i) \in DOMAIN l.queue /\ r[i] = l.queue[back(i)] /\ i # k
  BY <1>1, <1>4, <1>7, <1>8
<1>10. \A i, j \in DOMAIN r : i # k /\ j # k /\ back(i) = back(j) => i = j
  BY <1>7
<1>11. LaneInv(n)
  <2> HIDE DEF back
  <2> QED BY <1>5, <1>9, <1>10 DEF LaneInv
<1> QED BY <1>5, <1>6, <1>11 DEF n

\* An acquired barrier of which the planner has not called release() is broken
\* without disturbing the rest of the lane.
LEMMA InvalidatedLane ==
  ASSUME NEW l \in Lane, LaneInv(l), Preemptible(l)
  PROVE  LET n == Invalidated(l)
         IN /\ n \in Lane /\ LaneInv(n) /\ n.queue = l.queue /\ n.running = l.running
            /\ n.active.owner = l.active.owner /\ n.active.invalidated /\ ~n.active.releasing
<1> DEFINE n == Invalidated(l)
<1>1. /\ l.active \in [owner : Planners, invalidated : BOOLEAN, releasing : BOOLEAN]
      /\ ~l.active.releasing
  BY DEF Preemptible, Lane, Barrier
<1> DEFINE b == [l.active EXCEPT !.invalidated = TRUE]
<1>2. n = [l EXCEPT !.held = FALSE, !.active = b]
  BY DEF Invalidated
<1>3. /\ b.owner = l.active.owner /\ b.invalidated = TRUE /\ b.releasing = FALSE
      /\ b \in Barrier
  BY <1>1 DEF Barrier
<1>a. b # NoBarrier
  BY <1>3 DEF NoBarrier
<1>b. /\ n.held = FALSE /\ n.queue = l.queue /\ n.running = l.running
      /\ n.reserved = l.reserved /\ n.active = b
  BY <1>2 DEF Lane
<1>4. n \in Lane
  BY <1>2, <1>3 DEF Lane
<1>5. LaneInv(n)
  BY <1>1, <1>3, <1>a, <1>b DEF LaneInv, Preemptible
<1> QED BY <1>3, <1>b, <1>4, <1>5 DEF n

\* What one step of #drain can do to the barrier: leave it, activate the queued
\* one when none is active, or retire the one being released.
BarrierMove(l, n) ==
  \/ n.active = l.active
  \/ l.active = NoBarrier /\ ~n.active.releasing /\ ~n.active.invalidated
  \/ l.active.releasing /\ n.active = NoBarrier

LEMMA TakeLane ==
  ASSUME NEW l \in Lane, LaneInv(l), ~Stopped(l)
  PROVE  /\ Take(l) \in Lane
         /\ LaneInv(Take(l))
         /\ BarrierMove(l, Take(l))
         /\ Head(l.queue).kind = "work" => Take(l).active = l.active
         /\ Head(l.queue).kind = "checkpoint" =>
              /\ l.active.releasing
              /\ Take(l).active = NoBarrier
              /\ \A i \in DOMAIN Take(l).queue : Take(l).queue[i].kind = "work"
<1> DEFINE e == Head(l.queue)
           n == Take(l)
<1>1. l.queue \in Seq(Entry) /\ l.queue # <<>> /\ l.running = Nobody /\ ~l.held
  BY DEF Stopped, Lane
<1>2. /\ e \in Entry /\ e = l.queue[1] /\ 1 \in DOMAIN l.queue
      /\ Tail(l.queue) \in Seq(Entry)
      /\ \A i \in DOMAIN Tail(l.queue) :
           i + 1 \in DOMAIN l.queue /\ i + 1 # 1 /\ Tail(l.queue)[i] = l.queue[i + 1]
      /\ \A i, j \in DOMAIN Tail(l.queue) : i + 1 = j + 1 => i = j
  BY <1>1
<1>3. CASE e.kind = "barrier"
  <2> DEFINE b == [owner |-> e.who, invalidated |-> FALSE, releasing |-> FALSE]
  <2>1. n = [l EXCEPT !.queue = Tail(l.queue), !.held = TRUE, !.active = b]
    BY <1>3 DEF Take, Lane
  <2>2. e.who \in Planners /\ b \in Barrier /\ b # NoBarrier
    BY <1>2, <1>3, NobodyAssumption DEF Entry, Barrier, NoBarrier
  <2>3. n \in Lane
    BY <1>2, <2>1, <2>2 DEF Lane
  <2>4. l.reserved /\ l.active = NoBarrier
    BY <1>2, <1>3 DEF LaneInv, Marker
  <2>5. \A i \in DOMAIN Tail(l.queue) : ~Marker(Tail(l.queue)[i])
    BY <1>2, <1>3 DEF LaneInv, Marker
  <2>6. /\ n.held = TRUE /\ n.active = b /\ n.running = Nobody /\ n.reserved
        /\ n.queue = Tail(l.queue)
    BY <1>1, <2>1, <2>4 DEF Lane
  <2>7. LaneInv(n)
    BY <2>2, <2>5, <2>6 DEF LaneInv
  <2> QED BY <1>3, <2>3, <2>4, <2>6, <2>7 DEF BarrierMove
<1>4. CASE e.kind = "checkpoint"
  <2>1. n = [l EXCEPT !.queue = Tail(l.queue), !.reserved = FALSE, !.active = NoBarrier]
    BY <1>4 DEF Take, Retired, Lane
  <2>2. n \in Lane
    BY <1>2, <2>1 DEF Lane, Barrier
  <2>3. l.active.releasing
    BY <1>2, <1>4 DEF LaneInv, Marker
  <2>4. \A i \in DOMAIN Tail(l.queue) : ~Marker(Tail(l.queue)[i])
    BY <1>2, <1>4 DEF LaneInv, Marker
  <2>5. /\ n.held = FALSE /\ n.active = NoBarrier /\ n.running = Nobody
        /\ n.queue = Tail(l.queue)
    BY <1>1, <2>1 DEF Lane
  <2>6. LaneInv(n)
    BY <2>4, <2>5 DEF LaneInv, NoBarrier
  <2>7. \A i \in DOMAIN Tail(l.queue) : Tail(l.queue)[i].kind = "work"
    BY <1>2, <2>4 DEF Marker, Entry
  <2> QED BY <1>4, <2>2, <2>3, <2>5, <2>6, <2>7 DEF BarrierMove
<1>5. CASE e.kind = "work"
  <2>1. n = [l EXCEPT !.queue = Tail(l.queue), !.running = e.who]
    BY <1>5 DEF Take, Lane
  <2>2. e.who \in Works
    BY <1>2, <1>5 DEF Entry
  <2>3. n \in Lane
    BY <1>2, <2>1, <2>2 DEF Lane
  <2>4. /\ n.held = FALSE /\ n.active = l.active /\ n.reserved = l.reserved
        /\ n.queue = Tail(l.queue)
    BY <1>1, <2>1 DEF Lane
  <2>5. LaneInv(n)
    BY <1>1, <1>2, <2>4 DEF LaneInv
  <2> QED BY <1>5, <2>3, <2>4, <2>5 DEF BarrierMove
<1> QED BY <1>2, <1>3, <1>4, <1>5 DEF Entry

LEMMA DrainLane ==
  ASSUME NEW l \in Lane, LaneInv(l)
  PROVE  /\ Drain(l) \in Lane
         /\ LaneInv(Drain(l))
         /\ BarrierMove(l, Drain(l))
         /\ l.held => Drain(l) = l
<1>1. CASE Stopped(l)
  BY <1>1 DEF Drain, BarrierMove
<1>2. CASE ~Stopped(l)
  <2> DEFINE n == Take(l)
  <2>1. n \in Lane /\ LaneInv(n) /\ BarrierMove(l, n) /\ ~l.held
    BY <1>2, TakeLane DEF Stopped
  <2>2. CASE Head(l.queue).kind = "checkpoint" /\ ~Stopped(n)
    <3>1. Drain(l) = Take(n)
      BY <1>2, <2>2 DEF Drain
    <3>2. n.active = NoBarrier /\ l.active.releasing
      BY <1>2, <2>2, TakeLane
    <3>3. Head(n.queue).kind = "work"
      <4>1. n.queue \in Seq(Entry) /\ n.queue # <<>>
        BY <2>1, <2>2 DEF Stopped, Lane
      <4>2. \A i \in DOMAIN n.queue : n.queue[i].kind = "work"
        BY <1>2, <2>2, TakeLane
      <4> QED BY <4>1, <4>2
    <3>4. Take(n) \in Lane /\ LaneInv(Take(n)) /\ Take(n).active = NoBarrier
      BY <2>1, <2>2, <3>2, <3>3, TakeLane
    <3> QED BY <2>1, <3>1, <3>2, <3>4 DEF BarrierMove
  <2>3. CASE ~(Head(l.queue).kind = "checkpoint" /\ ~Stopped(n))
    <3>1. Drain(l) = n
      BY <1>2, <2>3 DEF Drain
    <3> QED BY <2>1, <3>1
  <2> QED BY <2>2, <2>3
<1> QED BY <1>1, <1>2

\* A coordinator method edits the lane into l and drains it. As long as l keeps
\* the barrier's owner and phase, and stays unbroken only if the lane was and the
\* revision is, the planners keep their invariant.
LEMMA LaneStep ==
  ASSUME TypeOK, LaneConsistent, PlannerInv,
         NEW l \in Lane, LaneInv(l), lane' = Drain(l),
         l.active.owner = lane.active.owner,
         l.active.releasing = lane.active.releasing,
         lane.active.invalidated => l.active.invalidated,
         l.held => done' = done /\ l.running = lane.running,
         snapshot' = snapshot,
         \A p \in Planners : /\ pc'[p] = "planning" => pc[p] = "planning"
                             /\ pc[p] = "releasing" => pc'[p] = "releasing"
  PROVE  lane' \in Lane /\ LaneConsistent' /\ PlannerInv'
<1>1. lane' \in Lane /\ LaneInv(lane') /\ BarrierMove(l, lane') /\ (l.held => lane' = l)
  BY DrainLane
<1>2. LaneConsistent'
  BY <1>1 DEF LaneConsistent, LaneInv, NoBarrier, Marker
<1>3. ASSUME NEW p \in Planners
      PROVE  /\ pc'[p] = "planning" => lane'.active.owner = p /\ ~lane'.active.releasing
             /\ pc'[p] = "planning" /\ ~lane'.active.invalidated => snapshot'[p] = Revision'
             /\ lane'.active.owner = p /\ lane'.active.releasing => pc'[p] = "releasing"
  <2>1. ASSUME pc'[p] = "planning"
        PROVE  lane'.active = l.active /\ l.active.owner = p /\ ~l.active.releasing
    BY <1>1, <2>1, <1>3, NobodyAssumption DEF PlannerInv, BarrierMove, NoBarrier
  <2>2. ASSUME pc'[p] = "planning", ~lane'.active.invalidated
        PROVE  snapshot'[p] = Revision'
    <3>1. ~l.active.invalidated /\ l.active # NoBarrier
      BY <2>1, <2>2, <1>3, NobodyAssumption DEF NoBarrier
    <3>2. l.held
      BY <2>1, <2>2, <3>1 DEF LaneInv
    <3>3. lane'.running = lane.running /\ done' = done
      BY <1>1, <3>2
    <3>4. snapshot[p] = Revision
      BY <2>2, <3>1, <1>3 DEF PlannerInv
    <3> QED BY <3>3, <3>4 DEF Revision
  <2>3. ASSUME lane'.active.owner = p, lane'.active.releasing
        PROVE  pc'[p] = "releasing"
    BY <1>1, <1>3, <2>3 DEF BarrierMove, NoBarrier, PlannerInv
  <2> QED BY <2>1, <2>2, <2>3
<1> QED BY <1>1, <1>2, <1>3 DEF PlannerInv, Revision

LEMMA InitIInv == Init => IInv
<1> SUFFICES ASSUME Init PROVE IInv
  OBVIOUS
<1>1. NoBarrier \in Barrier /\ NoBarrier.owner = Nobody /\ ~NoBarrier.releasing
  BY DEF Barrier, NoBarrier
<1>2. lane \in Lane /\ lane.active = NoBarrier /\ ~lane.held /\ lane.queue = <<>>
  BY <1>1 DEF Init, Lane
<1>3. TypeOK
  BY <1>2 DEF Init, TypeOK
<1>4. LaneConsistent
  BY <1>1, <1>2 DEF LaneConsistent, LaneInv
<1> QED BY <1>1, <1>2, <1>3, <1>4 DEF Init, IInv, PlannerInv, RevisionMatches

LEMMA NextIInv == IInv /\ [Next]_vars => IInv'
<1> SUFFICES ASSUME IInv, [Next]_vars PROVE IInv'
  OBVIOUS
<1>1. /\ lane \in Lane /\ LaneInv(lane) /\ TypeOK /\ LaneConsistent /\ PlannerInv /\ RevisionMatches
  BY DEF IInv, TypeOK, LaneConsistent
<1>2. ASSUME NEW w \in Works, Run(w)
      PROVE  IInv'
  <2> DEFINE l == Append1(lane, Work(w))
  <2>1. /\ l \in Lane /\ LaneInv(l)
        /\ l.active = lane.active /\ l.running = lane.running
    BY <1>1, AppendWorkLane DEF Append1, Lane
  <2>2. lane' \in Lane /\ LaneConsistent' /\ PlannerInv'
    BY <1>1, <1>2, <2>1, LaneStep DEF Run
  <2> QED BY <1>1, <1>2, <2>2 DEF Run, IInv, TypeOK, RevisionMatches
<1>3. ASSUME NEW w \in Works, RunForeground(w)
      PROVE  IInv'
  <2> DEFINE l == Foregrounded(lane, Work(w))
  <2>1. /\ l \in Lane /\ LaneInv(l)
        /\ l.active.owner = lane.active.owner
        /\ l.active.releasing = lane.active.releasing
        /\ lane.active.invalidated => l.active.invalidated
        /\ l.held => l.running = lane.running
    <3>1. CASE l = Append1(lane, Work(w))
      BY <1>1, <3>1, AppendWorkLane DEF Append1, Lane
    <3>2. CASE BarrierQueued(lane) /\ l = BeforeBarrier(lane, Work(w))
      BY <1>1, <3>2, BeforeBarrierLane
    <3>3. CASE Preemptible(lane) /\ l = [Invalidated(lane) EXCEPT !.queue = <<Work(w)>> \o @]
      <4> DEFINE k == Invalidated(lane)
      <4>1. /\ k \in Lane /\ LaneInv(k) /\ k.active.owner = lane.active.owner
            /\ k.active.invalidated /\ ~k.active.releasing /\ k.running = lane.running
        BY <1>1, <3>3, InvalidatedLane
      <4> HIDE DEF k
      <4>2. l = [k EXCEPT !.queue = <<Work(w)>> \o @]
        BY <3>3 DEF k
      <4>3. l \in Lane /\ LaneInv(l)
        BY <4>1, <4>2, PrependWorkLane
      <4>4. l.active = k.active /\ l.running = k.running
        BY <4>1, <4>2 DEF Lane
      <4> HIDE DEF l
      <4>5. l.active.releasing = lane.active.releasing
        <5>1. k.active.releasing = FALSE
          BY <4>1 DEF Lane, Barrier, NoBarrier
        <5>2. lane.active.releasing = FALSE
          BY <1>1, <3>3 DEF Preemptible, Lane, Barrier, NoBarrier
        <5> QED BY <4>4, <5>1, <5>2
      <4> QED BY <4>1, <4>3, <4>4, <4>5
    <3> QED BY <3>1, <3>2, <3>3 DEF Foregrounded
  <2> HIDE DEF l
  <2>2. lane' = Drain(l) /\ UNCHANGED <<done, pc, snapshot>>
    BY <1>3 DEF RunForeground, l
  <2>3. lane' \in Lane /\ LaneConsistent' /\ PlannerInv'
    BY <1>1, <2>1, <2>2, LaneStep
  <2> QED BY <1>1, <1>3, <2>3 DEF RunForeground, IInv, TypeOK, RevisionMatches
<1>4. ASSUME NEW w \in Works, InvalidateForForeground(w)
      PROVE  IInv'
  <2>1. CASE lane.reserved /\ ~BarrierQueued(lane) /\ Preemptible(lane)
    <3> DEFINE l == Invalidated(lane)
    <3>1. /\ l \in Lane /\ LaneInv(l) /\ l.active.owner = lane.active.owner
          /\ l.active.invalidated /\ ~l.active.releasing /\ ~l.held
      BY <1>1, <2>1, InvalidatedLane DEF LaneInv
    <3>2. lane.active.releasing = FALSE /\ l.active.releasing = FALSE
      BY <1>1, <2>1, <3>1 DEF Preemptible, Lane, Barrier
    <3> HIDE DEF l
    <3>3. lane' = Drain(l) /\ UNCHANGED <<pc, snapshot>>
      BY <1>4, <2>1 DEF InvalidateForForeground, l
    <3>4. lane' \in Lane /\ LaneConsistent' /\ PlannerInv'
      BY <1>1, <3>1, <3>2, <3>3, LaneStep
    <3> QED BY <1>1, <1>4, <3>4 DEF InvalidateForForeground, IInv, TypeOK, RevisionMatches
  <2>2. CASE ~(lane.reserved /\ ~BarrierQueued(lane) /\ Preemptible(lane))
    <3>1. lane' = lane /\ UNCHANGED <<pc, snapshot>>
      BY <1>4, <2>2 DEF InvalidateForForeground
    <3>2. ASSUME NEW p \in Planners, pc[p] = "planning"
          PROVE  FALSE
      <4>1. lane.active.owner = p /\ ~lane.active.releasing /\ lane.active # NoBarrier
        BY <1>1, <3>2, NobodyAssumption DEF PlannerInv, NoBarrier
      <4>2. lane.reserved /\ Preemptible(lane)
        BY <1>1, <4>1 DEF LaneInv, Preemptible
      <4>3. ~BarrierQueued(lane)
        BY <1>1, <4>1 DEF LaneInv, BarrierQueued, Marker
      <4> QED BY <2>2, <4>2, <4>3
    <3>3. LaneConsistent'
      BY <1>1, <3>1 DEF LaneConsistent, LaneInv, NoBarrier, Marker
    <3>4. PlannerInv'
      BY <1>1, <3>1, <3>2 DEF PlannerInv
    <3> QED BY <1>1, <1>4, <3>1, <3>3, <3>4 DEF InvalidateForForeground, IInv, TypeOK, RevisionMatches
  <2> QED BY <2>1, <2>2
<1>5. CASE FinishWork
  <2> DEFINE l == [lane EXCEPT !.running = Nobody]
  <2>1. /\ l \in Lane /\ LaneInv(l) /\ l.active = lane.active /\ ~l.held
    <3>1. /\ l \in Lane /\ l.active = lane.active /\ l.held = lane.held /\ l.queue = lane.queue
          /\ l.running = Nobody /\ l.reserved = lane.reserved
      BY <1>1 DEF Lane
    <3>2. ~lane.held
      BY <1>1, <1>5 DEF FinishWork, LaneInv
    <3> QED BY <1>1, <3>1, <3>2 DEF LaneInv
  <2>2. lane' = Drain(l) /\ UNCHANGED <<pc, snapshot>>
    BY <1>5 DEF FinishWork
  <2> HIDE DEF l
  <2>3. lane' \in Lane /\ LaneConsistent' /\ PlannerInv'
    BY <1>1, <2>1, <2>2, LaneStep
  <2>4. lane.running \in Works
    BY <1>1, <1>5 DEF FinishWork, Lane
  <2> QED BY <1>1, <1>5, <2>3, <2>4 DEF FinishWork, IInv, TypeOK, RevisionMatches
<1>6. ASSUME NEW p \in Planners, Acquire(p)
      PROVE  IInv'
  <2>1. CASE lane.reserved
    <3>1. UNCHANGED <<lane, snapshot, done>> /\ pc' = [pc EXCEPT ![p] = "rejected"] /\ pc[p] = "idle"
      BY <1>6, <2>1 DEF Acquire
    <3>2. LaneConsistent'
      BY <1>1, <3>1 DEF LaneConsistent, LaneInv, NoBarrier, Marker
    <3>3. PlannerInv'
      BY <1>1, <3>1 DEF PlannerInv, TypeOK, Revision
    <3> QED BY <1>1, <1>6, <3>1, <3>2, <3>3 DEF Acquire, IInv, TypeOK, RevisionMatches
  <2>2. CASE ~lane.reserved
    <3> DEFINE e == [kind |-> "barrier", who |-> p]
               l == [Append1(lane, e) EXCEPT !.reserved = TRUE]
    <3>1. /\ lane' = Drain(l) /\ UNCHANGED <<snapshot, done>>
          /\ pc' = [pc EXCEPT ![p] = "waiting"] /\ pc[p] = "idle"
      BY <1>6, <2>2 DEF Acquire
    <3>2. e \in Entry /\ e.kind = "barrier" /\ lane.queue \in Seq(Entry)
      BY <1>1 DEF Entry, Lane
    <3>3. lane.active = NoBarrier /\ \A i \in DOMAIN lane.queue : ~Marker(lane.queue[i])
      BY <1>1, <2>2 DEF LaneInv
    <3> HIDE DEF e
    <3>q. Append(lane.queue, e) \in Seq(Entry)
      BY <3>2
    <3>4. l = [lane EXCEPT !.queue = Append(lane.queue, e), !.reserved = TRUE]
      BY <1>1 DEF Append1, Lane
    <3>5. /\ l \in Lane /\ l.active = lane.active /\ l.held = lane.held
          /\ l.running = lane.running /\ l.reserved /\ l.queue = Append(lane.queue, e)
      BY <1>1, <3>q, <3>4 DEF Lane
    <3>6. LaneInv(l)
      <4>1. \A i \in DOMAIN l.queue : Marker(l.queue[i]) => i = Len(lane.queue) + 1 /\ l.queue[i] = e
        BY <3>2, <3>3, <3>5
      <4> QED BY <1>1, <3>2, <3>3, <3>5, <4>1 DEF LaneInv
    <3> HIDE DEF l
    <3>7. lane' \in Lane /\ LaneConsistent' /\ PlannerInv'
      BY <1>1, <3>1, <3>5, <3>6, LaneStep DEF TypeOK
    <3> QED BY <1>1, <1>6, <3>1, <3>7 DEF Acquire, IInv, TypeOK, RevisionMatches
  <2> QED BY <2>1, <2>2
<1>7. ASSUME NEW p \in Planners, CaptureSnapshot(p)
      PROVE  IInv'
  <2>1. LaneConsistent'
    BY <1>1, <1>7 DEF CaptureSnapshot, LaneConsistent, LaneInv, NoBarrier, Marker
  <2>2. ~lane.active.releasing
    BY <1>1, <1>7 DEF CaptureSnapshot, PlannerInv
  <2>3. PlannerInv'
    BY <1>1, <1>7, <2>2 DEF CaptureSnapshot, PlannerInv, TypeOK, Revision
  <2>4. Revision \in SUBSET Works
    BY <1>1 DEF Revision, TypeOK, Lane
  <2> QED BY <1>1, <1>7, <2>1, <2>3, <2>4 DEF CaptureSnapshot, IInv, TypeOK, RevisionMatches
<1>8. ASSUME NEW p \in Planners, Release(p)
      PROVE  IInv'
  <2>1. /\ pc[p] = "planning" /\ lane.active.owner = p /\ ~lane.active.releasing
        /\ lane.active # NoBarrier /\ UNCHANGED <<kind, done, snapshot>>
    BY <1>1, <1>8, NobodyAssumption DEF Release, PlannerInv, NoBarrier
  <2>2. \A q \in Planners : q # p => pc[q] # "planning"
    BY <1>1, <2>1 DEF PlannerInv
  <2>3. \A i \in DOMAIN lane.queue : ~Marker(lane.queue[i])
    BY <1>1, <2>1 DEF LaneInv, Marker
  <2>4. CASE lane.active.invalidated
    <3> DEFINE l == [lane EXCEPT !.reserved = FALSE, !.active = NoBarrier]
    <3>1. lane' = Drain(l) /\ pc' = [pc EXCEPT ![p] = "aborted"] /\ owed' = owed
      BY <1>8, <2>4 DEF Release, Retired
    <3>2. /\ l \in Lane /\ l.active = NoBarrier /\ l.held = lane.held
          /\ l.queue = lane.queue /\ l.running = lane.running
      BY <1>1 DEF Lane, Barrier
    <3>3. LaneInv(l)
      BY <1>1, <2>3, <2>4, <3>2 DEF LaneInv, NoBarrier
    <3> HIDE DEF l
    <3>4. lane' \in Lane /\ LaneInv(lane') /\ BarrierMove(l, lane')
      BY <3>1, <3>2, <3>3, DrainLane
    <3>5. ~lane'.active.releasing
      BY <3>2, <3>4 DEF BarrierMove, NoBarrier
    <3>6. LaneConsistent'
      BY <3>4 DEF LaneConsistent, LaneInv, NoBarrier, Marker
    <3>7. PlannerInv'
      BY <1>1, <2>2, <3>1, <3>5 DEF PlannerInv, TypeOK
    <3> QED BY <1>1, <2>1, <3>1, <3>4, <3>6, <3>7 DEF IInv, TypeOK, RevisionMatches
  <2>5. CASE ~lane.active.invalidated
    <3> DEFINE e == Checkpoint(p)
               b == [lane.active EXCEPT !.releasing = TRUE]
               l == [Append1(lane, e) EXCEPT !.held = FALSE, !.active.releasing = TRUE]
    <3>1. snapshot[p] = Revision
      BY <1>1, <2>1, <2>5 DEF PlannerInv
    <3>2. /\ lane' = Drain(l) /\ pc' = [pc EXCEPT ![p] = "releasing"]
          /\ owed' = [owed EXCEPT ![p] = Queued(lane)]
      BY <1>8, <2>5, <3>1 DEF Release, Unlocked
    <3>3. /\ e \in Entry /\ e.kind = "checkpoint" /\ e.who = p /\ lane.queue \in Seq(Entry)
      BY <1>1 DEF Entry, Lane, Checkpoint
    <3>4. /\ b \in Barrier /\ b.owner = p /\ b.releasing /\ ~b.invalidated /\ b # NoBarrier
      BY <1>1, <2>1, <2>5 DEF Lane, Barrier, NoBarrier
    <3>q. Append(lane.queue, e) \in Seq(Entry)
      BY <3>3
    <3>5. l = [lane EXCEPT !.queue = Append(lane.queue, e), !.held = FALSE, !.active = b]
      BY <1>1 DEF Append1, Lane
    <3> HIDE DEF e, b
    <3>6. /\ l \in Lane /\ l.active = b /\ l.held = FALSE /\ l.running = lane.running
          /\ l.reserved = lane.reserved /\ l.queue = Append(lane.queue, e)
      BY <1>1, <3>q, <3>4, <3>5 DEF Lane
    <3>7. LaneInv(l)
      <4>1. \A i \in DOMAIN l.queue : Marker(l.queue[i]) => i = Len(lane.queue) + 1 /\ l.queue[i] = e
        BY <2>3, <3>3, <3>6
      <4> QED BY <1>1, <2>1, <3>3, <3>4, <3>6, <4>1 DEF LaneInv
    <3> HIDE DEF l
    <3>8. lane' \in Lane /\ LaneInv(lane') /\ BarrierMove(l, lane')
      BY <3>2, <3>6, <3>7, DrainLane
    <3>9. LaneConsistent'
      BY <3>8 DEF LaneConsistent, LaneInv, NoBarrier, Marker
    <3>10. lane'.active = b \/ lane'.active = NoBarrier
      BY <3>4, <3>6, <3>8 DEF BarrierMove
    <3>11. PlannerInv'
      BY <1>1, <2>2, <3>2, <3>4, <3>10 DEF PlannerInv, TypeOK, NoBarrier
    <3>12. Queued(lane) \in SUBSET Works
      BY DEF Queued
    <3> QED BY <1>1, <2>1, <3>2, <3>8, <3>9, <3>11, <3>12 DEF IInv, TypeOK, RevisionMatches
  <2> QED BY <2>4, <2>5
<1>9. ASSUME NEW p \in Planners, BeginApply(p)
      PROVE  IInv'
  <2>1. LaneConsistent'
    BY <1>1, <1>9 DEF BeginApply, LaneConsistent, LaneInv, NoBarrier, Marker
  <2>2. PlannerInv'
    BY <1>1, <1>9 DEF BeginApply, PlannerInv, TypeOK, Revision
  <2> QED BY <1>1, <1>9, <2>1, <2>2 DEF BeginApply, IInv, TypeOK, RevisionMatches
<1>10. CASE UNCHANGED vars
  <2>1. LaneConsistent'
    BY <1>1, <1>10 DEF vars, LaneConsistent, LaneInv, NoBarrier, Marker
  <2> QED BY <1>1, <1>10, <2>1 DEF vars, IInv, TypeOK, PlannerInv, Revision, RevisionMatches
<1> QED BY <1>2, <1>3, <1>4, <1>5, <1>6, <1>7, <1>8, <1>9, <1>10 DEF Next

LEMMA Invariant == Spec => []IInv
<1>1. Init => IInv
  BY InitIInv
<1>2. IInv /\ [Next]_vars => IInv'
  BY NextIInv
<1> QED BY <1>1, <1>2, PTL DEF Spec

\* The coordinator and its planners are well typed in every reachable state.
THEOREM TypeCorrect == Spec => []TypeOK
<1>1. IInv => TypeOK
  BY DEF IInv
<1> QED BY <1>1, Invariant, PTL

\* The lane's private fields agree with one another in every reachable state:
\* one marker at most, and a held barrier is unbroken, unreleased and alone.
THEOREM LaneAlwaysConsistent == Spec => []LaneConsistent
<1>1. IInv => LaneConsistent
  BY DEF IInv
<1> QED BY <1>1, Invariant, PTL

\* While a planner plans on an unbroken barrier no index pass runs and the index
\* is the one it captured, whatever passes and mutations are requested meanwhile.
THEOREM PlannerReadsFixedRevision == Spec => []FixedRevision
<1>1. IInv => FixedRevision
  <2> SUFFICES ASSUME IInv, NEW p \in Planners, pc[p] = "planning", ~lane.active.invalidated
               PROVE  /\ lane.active.owner = p
                      /\ lane.held
                      /\ lane.running = Nobody
                      /\ snapshot[p] = Revision
    BY DEF FixedRevision
  <2>1. lane.active.owner = p /\ ~lane.active.releasing /\ snapshot[p] = Revision
    BY DEF IInv, PlannerInv
  <2>2. lane.active # NoBarrier
    BY <2>1, NobodyAssumption DEF NoBarrier
  <2> QED BY <2>1, <2>2 DEF IInv, LaneConsistent, LaneInv
<1> QED BY <1>1, Invariant, PTL

\* The revision check of releasePlannerBarrier never fails on a barrier that was
\* not invalidated.
THEOREM RevisionCheckNeverFails == Spec => []RevisionMatches
<1>1. IInv => RevisionMatches
  BY DEF IInv
<1> QED BY <1>1, Invariant, PTL

-----------------------------------------------------------------------------
(* The queue: who waits in it, what stands behind a barrier, what a planner is *)
(* owed                                                                        *)

\* p's barrier waits in the queue.
Asks(l, p) == \E i \in DOMAIN l.queue : l.queue[i] = [kind |-> "barrier", who |-> p]

Claims(l, p) == Asks(l, p) \/ l.active.owner = p

\* The planners st, and the reservation, agree about who holds or waits for the barrier.
HolderInv(l, st) ==
  /\ l.reserved => \E p \in Planners : Claims(l, p)
  /\ \A p \in Planners : /\ st[p] = "waiting" => Claims(l, p)
                         /\ Asks(l, p) => st[p] = "waiting"
                         /\ st[p] = "releasing" /\ l.active.owner = p => l.active.releasing
                         /\ l.active.owner = p /\ l.active.releasing => st[p] = "releasing"

\* Works behind a barrier, held or queued, are ordinary passes.
BehindInv(l, kd) ==
  /\ l.held => \A i \in DOMAIN l.queue : l.queue[i].kind = "work" => kd[l.queue[i].who] = "ordinary"
  /\ \A i, j \in DOMAIN l.queue :
       i < j /\ l.queue[i].kind = "barrier" /\ l.queue[j].kind = "work" => kd[l.queue[j].who] = "ordinary"

Ahead(l, p, w) == \E i, j \in DOMAIN l.queue : i < j /\ l.queue[i] = Work(w) /\ l.queue[j] = Checkpoint(p)

\* What a releasing planner is owed is done, running, or in front of its checkpoint.
OwedInv(l, st, dn, ow) ==
  \A p \in Planners : \A w \in ow[p] :
    /\ st[p] = "applying" => w \in dn
    /\ st[p] = "releasing" => \/ w \in dn
                              \/ l.active.owner = p /\ (w = l.running \/ Ahead(l, p, w))

QInv(l, st, kd, dn, ow) == HolderInv(l, st) /\ BehindInv(l, kd) /\ OwedInv(l, st, dn, ow)

LEMMA TailFacts ==
  ASSUME NEW S, NEW q \in Seq(S), q # <<>>
  PROVE  /\ Tail(q) \in Seq(S) /\ Head(q) \in S /\ Head(q) = q[1] /\ 1 \in DOMAIN q
         /\ \A i \in DOMAIN Tail(q) : i \in Nat \ {0} /\ i + 1 \in DOMAIN q /\ Tail(q)[i] = q[i + 1]
         /\ \A i \in DOMAIN q : i \in Nat /\ (i = 1 \/ (i - 1 \in DOMAIN Tail(q) /\ Tail(q)[i - 1] = q[i]))
OBVIOUS

\* One step of #drain keeps what the queue, the planners and their debts agree on.
LEMMA TakeQ ==
  ASSUME NEW st, NEW kd, NEW dn, NEW ow \in [Planners -> SUBSET Works],
         NEW l \in Lane, LaneInv(l), ~Stopped(l), QInv(l, st, kd, dn, ow)
  PROVE  QInv(Take(l), st, kd, dn, ow)
<1> DEFINE e == Head(l.queue)
           n == Take(l)
<1>1. l.queue \in Seq(Entry) /\ l.queue # <<>> /\ l.running = Nobody /\ ~l.held
  BY DEF Stopped, Lane
<1> DEFINE t == Tail(l.queue)
<1>2. /\ e \in Entry /\ e = l.queue[1] /\ 1 \in DOMAIN l.queue
      /\ \A i \in DOMAIN t : i \in Nat \ {0} /\ i + 1 # 1 /\ i + 1 \in DOMAIN l.queue /\ t[i] = l.queue[i + 1]
      /\ \A i \in DOMAIN l.queue : i \in Nat /\ (i = 1 \/ (i - 1 \in DOMAIN t /\ t[i - 1] = l.queue[i]))
  BY <1>1, TailFacts
<1> HIDE DEF t, e
<1>a. \A p \in Planners : Asks(l, p) => (e.kind = "barrier" /\ e.who = p) \/ \E i \in DOMAIN t : t[i] = [kind |-> "barrier", who |-> p]
  BY <1>2 DEF Asks
<1>b. \A p \in Planners : (\E i \in DOMAIN t : t[i] = [kind |-> "barrier", who |-> p]) => Asks(l, p)
  BY <1>2 DEF Asks
<1>c. \A i, j \in DOMAIN t : i < j => i + 1 < j + 1
  BY <1>2
<1>3. CASE e.kind = "barrier"
  <2> DEFINE b == [owner |-> e.who, invalidated |-> FALSE, releasing |-> FALSE]
  <2>1. n = [l EXCEPT !.queue = t, !.held = TRUE, !.active = b]
    BY <1>3 DEF Take, Lane, t, e
  <2>2. e.who \in Planners /\ b # NoBarrier /\ e = [kind |-> "barrier", who |-> e.who]
    BY <1>2, <1>3, NobodyAssumption DEF Entry, NoBarrier
  <2>3. l.reserved /\ l.active = NoBarrier
    BY <1>2, <1>3 DEF LaneInv, Marker
  <2>4. \A i \in DOMAIN t : ~Marker(t[i])
    BY <1>2, <1>3 DEF LaneInv, Marker
  <2>5. /\ n.held = TRUE /\ n.active = b /\ n.running = Nobody /\ n.reserved
        /\ n.queue = t
    BY <1>1, <2>1, <2>3 DEF Lane
  <2> HIDE DEF n
  <2>6. \A p \in Planners : ~Asks(n, p)
    BY <2>4, <2>5 DEF Asks, Marker
  <2>7. st[e.who] = "waiting"
    BY <1>2, <2>2 DEF QInv, HolderInv, Asks
  <2>8. \A p \in Planners : st[p] = "waiting" => p = e.who
    <3> SUFFICES ASSUME NEW p \in Planners, st[p] = "waiting" PROVE p = e.who
      OBVIOUS
    <3>1. Asks(l, p)
      BY <2>3, NobodyAssumption DEF QInv, HolderInv, Claims, NoBarrier
    <3> QED BY <1>a, <3>1, <2>4 DEF Marker
  <2>9. HolderInv(n, st)
    BY <2>2, <2>5, <2>6, <2>7, <2>8 DEF HolderInv, Claims
  <2>10. BehindInv(n, kd)
    <3>1. \A i \in DOMAIN t : t[i].kind = "work" => kd[t[i].who] = "ordinary"
      <4> SUFFICES ASSUME NEW i \in DOMAIN t, t[i].kind = "work" PROVE kd[t[i].who] = "ordinary"
        OBVIOUS
      <4>1. i + 1 \in DOMAIN l.queue /\ t[i] = l.queue[i + 1] /\ 1 < i + 1 /\ 1 \in DOMAIN l.queue /\ l.queue[1].kind = "barrier"
        <5>1. i \in Nat /\ i > 0
          BY <1>1 DEF t
        <5> QED BY <1>2, <1>3, <5>1
      <4> QED BY <4>1 DEF QInv, BehindInv
    <3> QED BY <2>4, <2>5, <3>1 DEF BehindInv, Marker
  <2>11. OwedInv(n, st, dn, ow)
    <3> SUFFICES ASSUME NEW p \in Planners, NEW w \in ow[p], st[p] = "releasing"
                 PROVE  w \in dn
      BY DEF OwedInv, QInv
    <3> QED BY <2>3, NobodyAssumption DEF OwedInv, QInv, NoBarrier
  <2> QED BY <2>9, <2>10, <2>11 DEF QInv, n
<1>4. CASE e.kind = "checkpoint"
  <2>1. n = [l EXCEPT !.queue = t, !.reserved = FALSE, !.active = NoBarrier]
    BY <1>4 DEF Take, Retired, Lane, t, e
  <2>3. l.active.releasing /\ e.who = l.active.owner /\ e.who \in Planners
    BY <1>2, <1>4 DEF LaneInv, Marker, Entry
  <2>4. \A i \in DOMAIN t : ~Marker(t[i])
    BY <1>2, <1>4 DEF LaneInv, Marker
  <2>5. /\ n.held = FALSE /\ n.active = NoBarrier /\ n.running = Nobody /\ ~n.reserved
        /\ n.queue = t
    BY <1>1, <2>1 DEF Lane
  <2> HIDE DEF n
  <2>6. \A p \in Planners : ~Asks(n, p)
    BY <2>4, <2>5 DEF Asks, Marker
  <2>7. \A p \in Planners : st[p] # "waiting"
    <3> SUFFICES ASSUME NEW p \in Planners, st[p] = "waiting" PROVE FALSE
      OBVIOUS
    <3>1. ~Asks(l, p)
      BY <1>a, <1>4, <2>4 DEF Marker
    <3> QED BY <2>3, <3>1 DEF QInv, HolderInv, Claims
  <2>9. HolderInv(n, st)
    BY <2>5, <2>6, <2>7, NobodyAssumption DEF HolderInv, NoBarrier
  <2>10. BehindInv(n, kd)
    BY <2>4, <2>5 DEF BehindInv, Marker
  <2>11. OwedInv(n, st, dn, ow)
    <3> SUFFICES ASSUME NEW p \in Planners, NEW w \in ow[p], st[p] = "releasing"
                 PROVE  w \in dn
      BY DEF OwedInv, QInv
    <3>1. w \in Works
      OBVIOUS
    <3>2. ~Ahead(l, p, w)
      <4> SUFFICES ASSUME NEW i \in DOMAIN l.queue, NEW j \in DOMAIN l.queue, i < j,
                          l.queue[i] = Work(w), l.queue[j] = Checkpoint(p)
                   PROVE FALSE
        BY DEF Ahead
      <4>1. j = 1
        BY <1>2, <1>4 DEF LaneInv, Marker, Checkpoint
      <4> QED BY <1>1, <4>1
    <3> QED BY <1>1, <3>1, <3>2, NobodyAssumption DEF OwedInv, QInv
  <2> QED BY <2>9, <2>10, <2>11 DEF QInv, n
<1>5. CASE e.kind = "work"
  <2>1. n = [l EXCEPT !.queue = t, !.running = e.who]
    BY <1>5 DEF Take, Lane, t, e
  <2>4. /\ n.held = FALSE /\ n.active = l.active /\ n.reserved = l.reserved
        /\ n.queue = t /\ n.running = e.who
    BY <1>1, <2>1 DEF Lane
  <2> HIDE DEF n
  <2>6. \A p \in Planners : Asks(n, p) <=> Asks(l, p)
    BY <1>a, <1>b, <1>5, <2>4 DEF Asks
  <2>9. HolderInv(n, st)
    BY <2>4, <2>6 DEF HolderInv, QInv, Claims
  <2>10. BehindInv(n, kd)
    BY <1>2, <1>c, <2>4 DEF BehindInv, QInv
  <2>11. OwedInv(n, st, dn, ow)
    <3> SUFFICES ASSUME NEW p \in Planners, NEW w \in ow[p], st[p] = "releasing", w \notin dn
                 PROVE  n.active.owner = p /\ (w = n.running \/ Ahead(n, p, w))
      BY DEF OwedInv, QInv
    <3>1. w \in Works /\ w # Nobody
      BY NobodyAssumption
    <3>2. l.active.owner = p /\ Ahead(l, p, w)
      BY <1>1, <3>1 DEF OwedInv, QInv
    <3>3. PICK i \in DOMAIN l.queue, j \in DOMAIN l.queue :
             i < j /\ l.queue[i] = Work(w) /\ l.queue[j] = Checkpoint(p)
      BY <3>2 DEF Ahead
    <3>4. CASE i = 1
      BY <1>2, <2>4, <3>2, <3>3, <3>4 DEF Work
    <3>5. CASE i # 1
      <4>1. j # 1
        BY <1>2, <1>5, <3>3 DEF Checkpoint
      <4>2. i - 1 \in DOMAIN t /\ j - 1 \in DOMAIN t /\ i - 1 < j - 1 /\ t[i - 1] = Work(w) /\ t[j - 1] = Checkpoint(p)
        BY <1>2, <3>3, <3>5, <4>1
      <4> QED BY <2>4, <3>2, <4>2 DEF Ahead
    <3> QED BY <3>4, <3>5
  <2> QED BY <2>9, <2>10, <2>11 DEF QInv, n
<1> QED BY <1>2, <1>3, <1>4, <1>5 DEF Entry

LEMMA TakeStops ==
  ASSUME NEW l \in Lane, ~Stopped(l), Head(l.queue).kind # "checkpoint"
  PROVE  Stopped(Take(l))
<1>1. Head(l.queue) \in Entry
  BY DEF Stopped, Lane
<1> QED BY <1>1, NobodyAssumption DEF Stopped, Lane, Take, Entry

LEMMA DrainQ ==
  ASSUME NEW st, NEW kd, NEW dn, NEW ow \in [Planners -> SUBSET Works],
         NEW l \in Lane, LaneInv(l), QInv(l, st, kd, dn, ow)
  PROVE  QInv(Drain(l), st, kd, dn, ow) /\ Stopped(Drain(l))
<1>1. CASE Stopped(l)
  BY <1>1 DEF Drain
<1>2. CASE ~Stopped(l)
  <2> DEFINE n == Take(l)
  <2>1. n \in Lane /\ LaneInv(n) /\ QInv(n, st, kd, dn, ow)
    BY <1>2, TakeLane, TakeQ
  <2>2. CASE Head(l.queue).kind = "checkpoint" /\ ~Stopped(n)
    <3>1. Drain(l) = Take(n)
      BY <1>2, <2>2 DEF Drain
    <3>3. Head(n.queue).kind = "work"
      <4>1. n.queue \in Seq(Entry) /\ n.queue # <<>>
        BY <2>1, <2>2 DEF Stopped, Lane
      <4>2. \A i \in DOMAIN n.queue : n.queue[i].kind = "work"
        BY <1>2, <2>2, TakeLane
      <4> QED BY <4>1, <4>2
    <3> HIDE DEF n
    <3>4. QInv(Take(n), st, kd, dn, ow) /\ Stopped(Take(n))
      BY <2>1, <2>2, <3>3, TakeQ, TakeStops
    <3> QED BY <3>1, <3>4
  <2>3. CASE Head(l.queue).kind = "checkpoint" /\ Stopped(n)
    BY <1>2, <2>1, <2>3 DEF Drain
  <2>4. CASE Head(l.queue).kind # "checkpoint"
    BY <1>2, <2>1, <2>4, TakeStops DEF Drain
  <2> QED BY <2>2, <2>3, <2>4
<1> QED BY <1>1, <1>2

\* A work enters the lane at place k: behind a barrier only if it is ordinary.
LEMMA AddedQ ==
  ASSUME NEW st, NEW kd, NEW kd2, NEW dn, NEW ow,
         NEW l \in Lane, NEW n \in Lane, QInv(l, st, kd, dn, ow),
         NEW w \in Works, NEW k \in 1 .. Len(l.queue) + 1,
         Len(n.queue) = Len(l.queue) + 1,
         \A i \in 1 .. Len(l.queue) + 1 :
           n.queue[i] = IF i < k THEN l.queue[i] ELSE IF i = k THEN Work(w) ELSE l.queue[i - 1],
         n.active.owner = l.active.owner, n.active.releasing = l.active.releasing,
         n.reserved = l.reserved, n.running = l.running,
         n.held => l.held,
         \A x \in Works : kd[x] = "ordinary" => kd2[x] = "ordinary",
         n.held => kd2[w] = "ordinary",
         kd2[w] # "ordinary" => \A i \in DOMAIN l.queue : i < k => l.queue[i].kind # "barrier"
  PROVE  QInv(n, st, kd2, dn, ow)
<1> DEFINE back(i) == IF i < k THEN i ELSE i - 1
           on(i) == IF i < k THEN i ELSE i + 1
<1>1. /\ l.queue \in Seq(Entry) /\ n.queue \in Seq(Entry) /\ k \in Nat
      /\ DOMAIN l.queue = 1 .. Len(l.queue) /\ DOMAIN n.queue = 1 .. Len(l.queue) + 1
      /\ Len(l.queue) \in Nat
  BY DEF Lane
<1>2. \A i \in DOMAIN n.queue : i # k => back(i) \in DOMAIN l.queue /\ n.queue[i] = l.queue[back(i)]
  BY <1>1
<1>3. \A i \in DOMAIN l.queue : on(i) \in DOMAIN n.queue /\ n.queue[on(i)] = l.queue[i]
  BY <1>1
<1>4. \A i, j \in DOMAIN n.queue : i # k /\ j # k /\ i < j => back(i) < back(j)
  BY <1>1
<1>5. \A i, j \in DOMAIN l.queue : i < j => on(i) < on(j)
  BY <1>1
<1>6. n.queue[k] = Work(w) /\ k \in DOMAIN n.queue /\ \A i \in DOMAIN n.queue : i < k => back(i) = i
  BY <1>1
<1> HIDE DEF back, on
<1>7. \A p \in Planners : Asks(n, p) <=> Asks(l, p)
  BY <1>2, <1>3, <1>6 DEF Asks, Work
<1>w. \A i \in DOMAIN l.queue : l.queue[i].kind = "work" => l.queue[i].who \in Works
  BY <1>1 DEF Entry
<1>8. HolderInv(n, st)
  BY <1>7 DEF QInv, HolderInv, Claims
<1>9. BehindInv(n, kd2)
  <2>1. ASSUME n.held, NEW i \in DOMAIN n.queue, n.queue[i].kind = "work"
        PROVE  kd2[n.queue[i].who] = "ordinary"
    BY <2>1, <1>2, <1>6, <1>w DEF QInv, BehindInv, Work
  <2>2. ASSUME NEW i \in DOMAIN n.queue, NEW j \in DOMAIN n.queue, i < j,
               n.queue[i].kind = "barrier", n.queue[j].kind = "work"
        PROVE  kd2[n.queue[j].who] = "ordinary"
    <3>1. i # k
      BY <2>2, <1>6 DEF Work
    <3>2. CASE j = k
      <4>1. i \in DOMAIN l.queue /\ l.queue[i].kind = "barrier"
        BY <2>2, <3>1, <3>2, <1>2, <1>6
      <4> QED BY <2>2, <3>2, <4>1, <1>6 DEF Work
    <3>3. CASE j # k
      BY <2>2, <3>1, <3>3, <1>2, <1>4, <1>w DEF QInv, BehindInv
    <3> QED BY <3>2, <3>3
  <2> QED BY <2>1, <2>2 DEF BehindInv
<1>10. \A p \in Planners : \A v : Ahead(l, p, v) => Ahead(n, p, v)
  BY <1>3, <1>5 DEF Ahead
<1>11. OwedInv(n, st, dn, ow)
  BY <1>10 DEF QInv, OwedInv
<1> QED BY <1>8, <1>9, <1>11 DEF QInv

\* The queue stays: a barrier is broken, or a pass settles.
LEMMA LoosenedQ ==
  ASSUME NEW st, NEW kd, NEW kd2, NEW dn, NEW dn2, NEW ow, NEW l \in Lane, NEW n, QInv(l, st, kd, dn, ow),
         n.queue = l.queue, n.reserved = l.reserved,
         n.active.owner = l.active.owner, n.active.releasing = l.active.releasing,
         n.running = l.running \/ l.running \in dn2,
         n.held => l.held,
         dn \subseteq dn2,
         \A x \in Works : kd[x] = "ordinary" => kd2[x] = "ordinary"
  PROVE  QInv(n, st, kd2, dn2, ow)
<1>1. HolderInv(n, st)
  BY DEF QInv, HolderInv, Claims, Asks
<1>w. \A i \in DOMAIN l.queue : l.queue[i].kind = "work" => l.queue[i].who \in Works
  BY DEF Lane, Entry
<1>2. BehindInv(n, kd2)
  BY <1>w DEF QInv, BehindInv
<1>3. OwedInv(n, st, dn2, ow)
  BY DEF QInv, OwedInv, Ahead
<1> QED BY <1>1, <1>2, <1>3 DEF QInv

LaneQ == QInv(lane, pc, kind, done, owed) /\ NeverIdle

LEMMA DrainedQ ==
  ASSUME NEW l \in Lane, LaneInv(l), TypeOK', lane' = Drain(l),
         QInv(l, pc', kind', done', owed')
  PROVE  LaneQ'
<1>1. owed' \in [Planners -> SUBSET Works]
  BY DEF TypeOK
<1>2. QInv(Drain(l), pc', kind', done', owed') /\ Stopped(Drain(l))
  BY <1>1, DrainQ
<1>3. Stopped(lane')
  BY <1>2
<1> QED BY <1>2, <1>3 DEF LaneQ, NeverIdle, QInv, HolderInv, BehindInv, OwedInv, Claims, Asks, Ahead, Stopped

LEMMA InitQ == Init => LaneQ
<1> SUFFICES ASSUME Init PROVE LaneQ
  OBVIOUS
<1>1. lane.queue = <<>> /\ ~lane.reserved /\ ~lane.held /\ lane.active.owner = Nobody
  BY DEF Init, NoBarrier
<1>2. HolderInv(lane, pc)
  BY <1>1, NobodyAssumption DEF Init, HolderInv, Claims, Asks
<1>3. BehindInv(lane, kind) /\ OwedInv(lane, pc, done, owed)
  BY <1>1 DEF Init, BehindInv, OwedInv
<1> QED BY <1>1, <1>2, <1>3 DEF LaneQ, QInv, NeverIdle, Stopped

\* With IInv, every step keeps it and leaves a lane that cannot move on.
LEMMA NextQ == IInv /\ IInv' /\ LaneQ /\ [Next]_vars => LaneQ'
<1> SUFFICES ASSUME IInv, IInv', LaneQ, [Next]_vars PROVE LaneQ'
  OBVIOUS
<1>1. /\ lane \in Lane /\ LaneInv(lane) /\ TypeOK /\ TypeOK' /\ PlannerInv
      /\ QInv(lane, pc, kind, done, owed)
      /\ lane.queue \in Seq(Entry) /\ DOMAIN lane.queue = 1 .. Len(lane.queue)
      /\ Len(lane.queue) \in Nat
  BY DEF IInv, TypeOK, LaneConsistent, LaneQ, Lane
<1>2. ASSUME NEW w \in Works, Run(w)
      PROVE  LaneQ'
  <2> DEFINE l == Append1(lane, Work(w))
  <2>1. l \in Lane /\ LaneInv(l)
    BY <1>1, AppendWorkLane
  <2>2. /\ l.active = lane.active /\ l.running = lane.running /\ l.held = lane.held
        /\ l.reserved = lane.reserved /\ l.queue = Append(lane.queue, Work(w))
    BY <1>1 DEF Append1, Lane
  <2>3. /\ lane' = Drain(l) /\ UNCHANGED <<pc, done, owed>>
        /\ kind' = [kind EXCEPT ![w] = "ordinary"]
    BY <1>2 DEF Run
  <2> HIDE DEF l
  <2>4. /\ Len(l.queue) = Len(lane.queue) + 1
        /\ \A i \in 1 .. Len(lane.queue) + 1 :
             l.queue[i] = IF i < Len(lane.queue) + 1 THEN lane.queue[i]
                          ELSE IF i = Len(lane.queue) + 1 THEN Work(w) ELSE lane.queue[i - 1]
    BY <1>1, <2>2
  <2>5. kind'[w] = "ordinary" /\ \A x \in Works : kind[x] = "ordinary" => kind'[x] = "ordinary"
    BY <1>1, <2>3 DEF TypeOK
  <2> DEFINE k == Len(lane.queue) + 1
  <2>a. /\ Len(l.queue) = Len(lane.queue) + 1
        /\ \A i \in 1 .. Len(lane.queue) + 1 :
             l.queue[i] = IF i < k THEN lane.queue[i]
                          ELSE IF i = k THEN Work(w) ELSE lane.queue[i - 1]
    BY <2>4
  <2>b. k \in 1 .. Len(lane.queue) + 1
    BY <1>1
  <2> HIDE DEF k
  <2>6. QInv(l, pc, kind', done, owed)
    BY <1>1, <2>1, <2>2, <2>5, <2>a, <2>b, AddedQ
  <2>7. QInv(l, pc', kind', done', owed')
    BY <2>3, <2>6
  <2> QED BY <1>1, <2>1, <2>3, <2>7, DrainedQ
<1>3. ASSUME NEW w \in Works, RunForeground(w)
      PROVE  LaneQ'
  <2> DEFINE l == Foregrounded(lane, Work(w))
  <2>1. /\ lane' = Drain(l) /\ UNCHANGED <<pc, done, owed>>
        /\ \A x \in Works : kind[x] = "ordinary" => kind'[x] = "ordinary"
    BY <1>1, <1>3 DEF RunForeground, TypeOK
  <2>2. l \in Lane /\ LaneInv(l) /\ QInv(l, pc, kind', done, owed)
    <3>1. CASE l = Append1(lane, Work(w)) /\ ~lane.held /\ ~BarrierQueued(lane)
      <4>1. /\ l.active = lane.active /\ l.running = lane.running /\ l.held = lane.held
            /\ l.reserved = lane.reserved /\ l.queue = Append(lane.queue, Work(w))
        BY <1>1, <3>1 DEF Append1, Lane
      <4>2. l \in Lane /\ LaneInv(l)
        BY <1>1, <3>1, AppendWorkLane
      <4> HIDE DEF l
      <4>3. /\ Len(l.queue) = Len(lane.queue) + 1
            /\ \A i \in 1 .. Len(lane.queue) + 1 :
                 l.queue[i] = IF i < Len(lane.queue) + 1 THEN lane.queue[i]
                              ELSE IF i = Len(lane.queue) + 1 THEN Work(w) ELSE lane.queue[i - 1]
        BY <1>1, <4>1
      <4>4. \A i \in DOMAIN lane.queue : lane.queue[i].kind # "barrier"
        BY <3>1 DEF BarrierQueued
      <4>5. Len(lane.queue) + 1 \in 1 .. Len(lane.queue) + 1 /\ ~l.held
        BY <1>1, <3>1, <4>1
      <4> DEFINE k == Len(lane.queue) + 1
      <4>6. /\ Len(l.queue) = Len(lane.queue) + 1
            /\ \A i \in 1 .. Len(lane.queue) + 1 :
                 l.queue[i] = IF i < k THEN lane.queue[i]
                              ELSE IF i = k THEN Work(w) ELSE lane.queue[i - 1]
        BY <4>3
      <4>7. k \in 1 .. Len(lane.queue) + 1
        BY <4>5
      <4> HIDE DEF k
      <4> QED BY <1>1, <2>1, <4>1, <4>2, <4>4, <4>5, <4>6, <4>7, AddedQ
    <3>2. CASE BarrierQueued(lane) /\ l = BeforeBarrier(lane, Work(w))
      <4> DEFINE k == CHOOSE j \in DOMAIN lane.queue : lane.queue[j].kind = "barrier"
      <4>1. k \in 1 .. Len(lane.queue) /\ lane.queue[k].kind = "barrier"
        BY <1>1, <3>2 DEF BarrierQueued
      <4>2. l = [lane EXCEPT !.queue = Spliced(lane.queue, k, Work(w))]
        BY <3>2 DEF BeforeBarrier
      <4>3. l \in Lane /\ LaneInv(l)
        BY <1>1, <3>2, BeforeBarrierLane
      <4> HIDE DEF k, l
      <4> DEFINE r == Spliced(lane.queue, k, Work(w))
      <4>5. Work(w) \in Entry
        BY DEF Work, Entry
      <4>a. /\ Len(r) = Len(lane.queue) + 1
            /\ \A i \in 1 .. Len(lane.queue) + 1 :
                 r[i] = IF i < k THEN lane.queue[i] ELSE IF i = k THEN Work(w) ELSE lane.queue[i - 1]
        BY <1>1, <4>1, <4>5, Inserted
      <4> HIDE DEF r
      <4>4. /\ l.active = lane.active /\ l.running = lane.running /\ l.held = lane.held
            /\ l.reserved = lane.reserved /\ l.queue = r
        BY <1>1, <4>2 DEF Lane, r
      <4>6. /\ Len(l.queue) = Len(lane.queue) + 1
            /\ \A i \in 1 .. Len(lane.queue) + 1 :
                 l.queue[i] = IF i < k THEN lane.queue[i]
                              ELSE IF i = k THEN Work(w) ELSE lane.queue[i - 1]
        BY <4>a, <4>4
      <4>7. ~lane.held
        BY <1>1, <4>1 DEF LaneInv, Marker
      <4>8. \A i \in DOMAIN lane.queue : i < k => lane.queue[i].kind # "barrier"
        BY <1>1, <4>1 DEF LaneInv, Marker
      <4>9. k \in 1 .. Len(lane.queue) + 1 /\ ~l.held
        BY <1>1, <4>1, <4>4, <4>7
      <4> QED BY <1>1, <2>1, <4>3, <4>4, <4>6, <4>8, <4>9, AddedQ
    <3>3. CASE Preemptible(lane) /\ ~BarrierQueued(lane)
               /\ l = [Invalidated(lane) EXCEPT !.queue = <<Work(w)>> \o @]
      <4> DEFINE m == Invalidated(lane)
      <4>1. /\ m \in Lane /\ LaneInv(m) /\ m.active.owner = lane.active.owner
            /\ m.queue = lane.queue /\ m.running = lane.running
            /\ m.active.invalidated /\ ~m.active.releasing
        BY <1>1, <3>3, InvalidatedLane
      <4>2. m.reserved = lane.reserved /\ m.held = FALSE
        BY <1>1 DEF Invalidated, Lane
      <4> HIDE DEF m
      <4>3. l = [m EXCEPT !.queue = <<Work(w)>> \o @]
        BY <3>3 DEF m
      <4>4. l \in Lane /\ LaneInv(l)
        BY <4>1, <4>3, PrependWorkLane
      <4> HIDE DEF l
      <4>5. /\ l.active = m.active /\ l.running = m.running /\ l.held = m.held
            /\ l.reserved = m.reserved /\ l.queue = <<Work(w)>> \o lane.queue
        BY <4>1, <4>3 DEF Lane
      <4>6. l.active.releasing = lane.active.releasing
        <5>1. l.active.releasing = FALSE
          BY <4>1, <4>5 DEF Lane, Barrier, NoBarrier
        <5>2. lane.active.releasing = FALSE
          BY <1>1, <3>3 DEF Preemptible, Lane, Barrier, NoBarrier
        <5> QED BY <5>1, <5>2
      <4>7. /\ Len(l.queue) = Len(lane.queue) + 1
            /\ \A i \in 1 .. Len(lane.queue) + 1 :
                 l.queue[i] = IF i < 1 THEN lane.queue[i]
                              ELSE IF i = 1 THEN Work(w) ELSE lane.queue[i - 1]
        <5>1. /\ <<Work(w)>> \in Seq(Entry) /\ Len(<<Work(w)>>) = 1 /\ <<Work(w)>>[1] = Work(w)
          BY DEF Work, Entry
        <5> QED BY <1>1, <4>5, <5>1, ConcatProperties
      <4>8. \A i \in DOMAIN lane.queue : lane.queue[i].kind # "barrier"
        BY <3>3 DEF BarrierQueued
      <4>9. 1 \in 1 .. Len(lane.queue) + 1
        BY <1>1
      <4> QED BY <1>1, <2>1, <4>1, <4>2, <4>4, <4>5, <4>6, <4>7, <4>8, <4>9, AddedQ
    <3>4. ~lane.reserved => ~lane.held /\ ~BarrierQueued(lane)
      BY <1>1 DEF LaneInv, BarrierQueued, Marker
    <3>5. ~Preemptible(lane) => ~lane.held
      BY <1>1 DEF LaneInv, Preemptible
    <3> QED BY <3>1, <3>2, <3>3, <3>4, <3>5 DEF Foregrounded
  <2> HIDE DEF l
  <2>3. QInv(l, pc', kind', done', owed')
    BY <2>1, <2>2
  <2> QED BY <1>1, <2>1, <2>2, <2>3, DrainedQ
<1>4. ASSUME NEW w \in Works, InvalidateForForeground(w)
      PROVE  LaneQ'
  <2>1. /\ UNCHANGED <<pc, owed>> /\ done \subseteq done'
        /\ \A x \in Works : kind[x] = "ordinary" => kind'[x] = "ordinary"
    BY <1>1, <1>4 DEF InvalidateForForeground, TypeOK
  <2>2. CASE lane.reserved /\ ~BarrierQueued(lane) /\ Preemptible(lane)
    <3> DEFINE l == Invalidated(lane)
    <3>1. /\ l \in Lane /\ LaneInv(l) /\ l.active.owner = lane.active.owner
          /\ l.queue = lane.queue /\ l.running = lane.running
          /\ l.active.invalidated /\ ~l.active.releasing
      BY <1>1, <2>2, InvalidatedLane
    <3>2. l.reserved = lane.reserved /\ l.held = FALSE
      BY <1>1 DEF Invalidated, Lane
    <3>3. lane' = Drain(l)
      BY <1>4, <2>2 DEF InvalidateForForeground
    <3> HIDE DEF l
    <3>4. l.active.releasing = lane.active.releasing
      <4>1. l.active.releasing = FALSE
        BY <3>1 DEF Lane, Barrier, NoBarrier
      <4>2. lane.active.releasing = FALSE
        BY <1>1, <2>2 DEF Preemptible, Lane, Barrier, NoBarrier
      <4> QED BY <4>1, <4>2
    <3>5. QInv(l, pc, kind', done', owed)
      BY <1>1, <2>1, <3>1, <3>2, <3>4, LoosenedQ
    <3>6. QInv(l, pc', kind', done', owed')
      BY <2>1, <3>5
    <3> QED BY <1>1, <3>1, <3>3, <3>6, DrainedQ
  <2>3. CASE ~(lane.reserved /\ ~BarrierQueued(lane) /\ Preemptible(lane))
    <3>1. lane' = lane
      BY <1>4, <2>3 DEF InvalidateForForeground
    <3>2. QInv(lane, pc, kind', done', owed)
      BY <1>1, <2>1, LoosenedQ
    <3>3. QInv(lane', pc', kind', done', owed')
      BY <2>1, <3>1, <3>2
    <3> QED BY <3>1, <3>3 DEF LaneQ, NeverIdle, QInv, HolderInv, BehindInv, OwedInv, Claims, Asks, Ahead, Stopped
  <2> QED BY <2>2, <2>3
<1>5. CASE FinishWork
  <2> DEFINE l == [lane EXCEPT !.running = Nobody]
  <2>1. /\ lane' = Drain(l) /\ UNCHANGED <<pc, kind, owed>> /\ done' = done \cup {lane.running}
    BY <1>5 DEF FinishWork
  <2>2. /\ l \in Lane /\ l.active = lane.active /\ l.held = lane.held /\ l.queue = lane.queue
        /\ l.running = Nobody /\ l.reserved = lane.reserved
    BY <1>1 DEF Lane
  <2>3. LaneInv(l)
    BY <1>1, <1>5, <2>2 DEF FinishWork, LaneInv
  <2> HIDE DEF l
  <2>4. QInv(l, pc, kind, done', owed)
    BY <1>1, <2>1, <2>2, LoosenedQ
  <2>5. QInv(l, pc', kind', done', owed')
    BY <2>1, <2>4
  <2> QED BY <1>1, <2>1, <2>2, <2>3, <2>5, DrainedQ
<1>6. ASSUME NEW p \in Planners, Acquire(p)
      PROVE  LaneQ'
  <2>1. CASE lane.reserved
    <3>1. UNCHANGED <<lane, kind, done, owed>> /\ pc' = [pc EXCEPT ![p] = "rejected"] /\ pc[p] = "idle"
      BY <1>6, <2>1 DEF Acquire
    <3>2. HolderInv(lane, pc')
      BY <1>1, <3>1 DEF QInv, HolderInv, TypeOK
    <3>3. OwedInv(lane, pc', done, owed)
      BY <1>1, <3>1 DEF QInv, OwedInv, TypeOK
    <3>4. QInv(lane', pc', kind', done', owed')
      BY <1>1, <3>1, <3>2, <3>3 DEF QInv
    <3> QED BY <3>1, <3>4 DEF LaneQ, NeverIdle, QInv, HolderInv, BehindInv, OwedInv, Claims, Asks, Ahead, Stopped
  <2>2. CASE ~lane.reserved
    <3> DEFINE e == [kind |-> "barrier", who |-> p]
               l == [Append1(lane, e) EXCEPT !.reserved = TRUE]
    <3>1. /\ lane' = Drain(l) /\ UNCHANGED <<kind, done, owed>>
          /\ pc' = [pc EXCEPT ![p] = "waiting"] /\ pc[p] = "idle"
      BY <1>6, <2>2 DEF Acquire
    <3>2. e \in Entry /\ e.kind = "barrier" /\ e.who = p
      BY DEF Entry
    <3>3. lane.active = NoBarrier /\ ~lane.held /\ \A i \in DOMAIN lane.queue : ~Marker(lane.queue[i])
      BY <1>1, <2>2 DEF LaneInv
    <3>4. l = [lane EXCEPT !.queue = Append(lane.queue, e), !.reserved = TRUE]
      BY <1>1 DEF Append1, Lane
    <3>5. \A q \in Planners : [kind |-> "barrier", who |-> q] = e <=> q = p
      OBVIOUS
    <3> HIDE DEF e
    <3>q. Append(lane.queue, e) \in Seq(Entry)
      BY <1>1, <3>2
    <3>6. /\ l \in Lane /\ l.active = lane.active /\ l.held = lane.held
          /\ l.running = lane.running /\ l.reserved /\ l.queue = Append(lane.queue, e)
      BY <1>1, <3>q, <3>4 DEF Lane
    <3> HIDE DEF l
    <3>7. /\ \A i \in DOMAIN l.queue : Marker(l.queue[i]) => i = Len(lane.queue) + 1 /\ l.queue[i] = e
          /\ Len(lane.queue) + 1 \in DOMAIN l.queue /\ l.queue[Len(lane.queue) + 1] = e
          /\ \A i \in DOMAIN l.queue : i \in Nat /\ i <= Len(lane.queue) + 1
      BY <1>1, <3>2, <3>3, <3>6
    <3>8. LaneInv(l)
      BY <1>1, <3>2, <3>3, <3>6, <3>7 DEF LaneInv
    <3>9. \A q \in Planners : Asks(l, q) <=> q = p
      BY <3>2, <3>5, <3>7 DEF Asks, Marker
    <3>10. \A q \in Planners : ~Claims(lane, q)
      BY <3>3, NobodyAssumption DEF Claims, Asks, Marker, NoBarrier
    <3>11. HolderInv(l, pc')
      BY <1>1, <3>1, <3>3, <3>6, <3>9, <3>10, NobodyAssumption DEF QInv, HolderInv, Claims, TypeOK, NoBarrier
    <3>12. BehindInv(l, kind)
      BY <3>3, <3>6, <3>7 DEF BehindInv, Marker
    <3>13. OwedInv(l, pc', done, owed)
      BY <1>1, <3>1, <3>3, NobodyAssumption DEF QInv, OwedInv, TypeOK, NoBarrier
    <3>14. QInv(l, pc', kind', done', owed')
      BY <3>1, <3>11, <3>12, <3>13 DEF QInv
    <3> QED BY <1>1, <3>1, <3>6, <3>8, <3>14, DrainedQ
  <2> QED BY <2>1, <2>2
<1>7. ASSUME NEW p \in Planners, CaptureSnapshot(p)
      PROVE  LaneQ'
  <2>1. /\ UNCHANGED <<lane, kind, done, owed>> /\ pc' = [pc EXCEPT ![p] = "planning"] /\ pc[p] = "waiting"
        /\ lane.active.owner = p
    BY <1>7 DEF CaptureSnapshot
  <2>2. \A q \in Planners : ~Asks(lane, q)
    BY <1>1, <2>1, NobodyAssumption DEF Asks, LaneInv, Marker, NoBarrier
  <2>3. HolderInv(lane, pc')
    BY <1>1, <2>1, <2>2 DEF QInv, HolderInv, TypeOK, Claims
  <2>4. OwedInv(lane, pc', done, owed)
    BY <1>1, <2>1 DEF QInv, OwedInv, TypeOK
  <2>5. QInv(lane', pc', kind', done', owed')
    BY <1>1, <2>1, <2>3, <2>4 DEF QInv
  <2> QED BY <2>1, <2>5 DEF LaneQ, NeverIdle, QInv, HolderInv, BehindInv, OwedInv, Claims, Asks, Ahead, Stopped
<1>8. ASSUME NEW p \in Planners, Release(p)
      PROVE  LaneQ'
  <2>1. /\ pc[p] = "planning" /\ lane.active.owner = p /\ ~lane.active.releasing
        /\ lane.active # NoBarrier /\ UNCHANGED <<kind, done, snapshot>>
    BY <1>1, <1>8, NobodyAssumption DEF Release, PlannerInv, NoBarrier
  <2>2. \A i \in DOMAIN lane.queue : ~Marker(lane.queue[i])
    BY <1>1, <2>1 DEF LaneInv, Marker
  <2>3. \A q \in Planners : ~Asks(lane, q) /\ pc[q] # "waiting"
    BY <1>1, <2>1, <2>2 DEF Asks, Marker, QInv, HolderInv, Claims
  <2>4. CASE lane.active.invalidated
    <3> DEFINE l == [lane EXCEPT !.reserved = FALSE, !.active = NoBarrier]
    <3>1. lane' = Drain(l) /\ pc' = [pc EXCEPT ![p] = "aborted"] /\ owed' = owed
      BY <1>8, <2>4 DEF Release, Retired
    <3>2. /\ l \in Lane /\ l.active = NoBarrier /\ l.held = lane.held /\ ~l.reserved
          /\ l.queue = lane.queue /\ l.running = lane.running
      BY <1>1 DEF Lane, Barrier
    <3>3. LaneInv(l)
      BY <1>1, <2>2, <2>4, <3>2 DEF LaneInv, NoBarrier
    <3> HIDE DEF l
    <3>4. HolderInv(l, pc')
      <4>1. \A q \in Planners : ~Asks(l, q) /\ pc'[q] # "waiting" /\ l.active.owner # q
        BY <1>1, <2>3, <3>1, <3>2, NobodyAssumption DEF Asks, NoBarrier, TypeOK
      <4> QED BY <3>2, <4>1 DEF HolderInv
    <3>5. BehindInv(l, kind)
      BY <1>1, <3>2 DEF QInv, BehindInv
    <3>6. OwedInv(l, pc', done, owed)
      <4> SUFFICES ASSUME NEW q \in Planners, NEW w \in owed[q]
                   PROVE  /\ pc'[q] = "applying" => w \in done
                          /\ pc'[q] = "releasing" => w \in done
        BY DEF OwedInv
      <4>1. pc'[q] \in {"applying", "releasing"} => q # p /\ pc[q] = pc'[q]
        BY <1>1, <3>1 DEF TypeOK
      <4> QED BY <1>1, <2>1, <4>1 DEF QInv, OwedInv
    <3>7. QInv(l, pc', kind', done', owed')
      BY <2>1, <3>1, <3>4, <3>5, <3>6 DEF QInv
    <3> QED BY <1>1, <3>1, <3>2, <3>3, <3>7, DrainedQ
  <2>5. CASE ~lane.active.invalidated
    <3> DEFINE e == Checkpoint(p)
               b == [lane.active EXCEPT !.releasing = TRUE]
               l == [Append1(lane, e) EXCEPT !.held = FALSE, !.active.releasing = TRUE]
    <3>1. snapshot[p] = Revision
      BY <1>1, <2>1, <2>5 DEF PlannerInv
    <3>2. /\ lane' = Drain(l) /\ pc' = [pc EXCEPT ![p] = "releasing"]
          /\ owed' = [owed EXCEPT ![p] = Queued(lane)]
      BY <1>8, <2>5, <3>1 DEF Release, Unlocked
    <3>3. /\ e \in Entry /\ e.kind = "checkpoint" /\ e.who = p
      BY DEF Entry, Checkpoint
    <3>4. /\ b \in Barrier /\ b.owner = p /\ b.releasing /\ ~b.invalidated /\ b # NoBarrier
      BY <1>1, <2>1, <2>5 DEF Lane, Barrier, NoBarrier
    <3>q. Append(lane.queue, e) \in Seq(Entry)
      BY <1>1, <3>3
    <3>5. l = [lane EXCEPT !.queue = Append(lane.queue, e), !.held = FALSE, !.active = b]
      BY <1>1 DEF Append1, Lane
    <3> HIDE DEF b
    <3>6. /\ l \in Lane /\ l.active = b /\ l.held = FALSE /\ l.running = lane.running
          /\ l.reserved = lane.reserved /\ l.queue = Append(lane.queue, e)
      BY <1>1, <3>q, <3>4, <3>5 DEF Lane
    <3>7. \A i \in DOMAIN l.queue : Marker(l.queue[i]) => i = Len(lane.queue) + 1 /\ l.queue[i] = e
      <4> HIDE DEF l, e
      <4>1. lane.queue \in Seq(Entry) /\ e \in Entry /\ l.queue = Append(lane.queue, e)
        BY <1>1, <3>3, <3>6 DEF Lane
      <4> DEFINE s == lane.queue
                 t == l.queue
      <4>2. s \in Seq(Entry) /\ e \in Entry /\ t = Append(s, e)
        BY <4>1
      <4>3. \A i \in DOMAIN s : ~Marker(s[i])
        BY <2>2
      <4> HIDE DEF s, t
      <4>4. /\ DOMAIN s = 1 .. Len(s) /\ DOMAIN t = 1 .. (Len(s) + 1) /\ Len(s) \in Nat
            /\ t[Len(s) + 1] = e /\ \A i \in 1 .. Len(s) : t[i] = s[i]
        BY <4>2
      <4>5. \A i \in DOMAIN t : Marker(t[i]) => i = Len(s) + 1 /\ t[i] = e
        BY <4>3, <4>4
      <4> QED BY <4>5 DEF s, t
    <3> HIDE DEF l
    <3>8. LaneInv(l)
      BY <1>1, <2>1, <3>3, <3>4, <3>6, <3>7 DEF LaneInv
    <3>9. \A q \in Planners : ~Asks(l, q)
      BY <3>3, <3>7 DEF Asks, Marker
    <3>10. HolderInv(l, pc')
      BY <1>1, <2>1, <2>3, <3>2, <3>4, <3>6, <3>9 DEF HolderInv, Claims, TypeOK, QInv
    <3>11. BehindInv(l, kind)
      BY <3>3, <3>6, <3>7 DEF BehindInv, Marker
    <3>12. OwedInv(l, pc', done, owed')
      <4> SUFFICES ASSUME NEW q \in Planners, NEW w \in owed'[q]
                   PROVE  /\ pc'[q] = "applying" => w \in done
                          /\ pc'[q] = "releasing" =>
                               \/ w \in done
                               \/ l.active.owner = q /\ (w = l.running \/ Ahead(l, q, w))
        BY DEF OwedInv
      <4>1. CASE q = p
        <5>1. w \in Queued(lane)
          BY <1>1, <3>2, <4>1 DEF TypeOK
        <5>2. PICK i \in DOMAIN lane.queue : lane.queue[i] = Work(w)
          BY <5>1 DEF Queued
        <5>3. /\ i \in DOMAIN l.queue /\ l.queue[i] = Work(w) /\ i < Len(lane.queue) + 1
              /\ Len(lane.queue) + 1 \in DOMAIN l.queue /\ l.queue[Len(lane.queue) + 1] = Checkpoint(q)
          BY <1>1, <3>6, <4>1, <5>2
        <5> QED BY <1>1, <3>2, <3>4, <3>6, <4>1, <5>3 DEF Ahead, TypeOK
      <4>2. CASE q # p
        <5>1. owed'[q] = owed[q] /\ pc'[q] = pc[q]
          BY <1>1, <3>2, <4>2 DEF TypeOK
        <5> QED BY <1>1, <2>1, <4>2, <5>1 DEF QInv, OwedInv
      <4> QED BY <4>1, <4>2
    <3>13. QInv(l, pc', kind', done', owed')
      BY <2>1, <3>10, <3>11, <3>12 DEF QInv
    <3> QED BY <1>1, <3>2, <3>6, <3>8, <3>13, DrainedQ
  <2> QED BY <2>4, <2>5
<1>9. ASSUME NEW p \in Planners, BeginApply(p)
      PROVE  LaneQ'
  <2>1. /\ UNCHANGED <<lane, kind, done, owed>> /\ pc' = [pc EXCEPT ![p] = "applying"] /\ pc[p] = "releasing"
        /\ lane.active.owner # p
    BY <1>9 DEF BeginApply
  <2>2. HolderInv(lane, pc')
    BY <1>1, <2>1 DEF QInv, HolderInv, TypeOK
  <2>3. OwedInv(lane, pc', done, owed)
    BY <1>1, <2>1 DEF QInv, OwedInv, TypeOK
  <2>4. QInv(lane', pc', kind', done', owed')
    BY <1>1, <2>1, <2>2, <2>3 DEF QInv
  <2> QED BY <2>1, <2>4 DEF LaneQ, NeverIdle, QInv, HolderInv, BehindInv, OwedInv, Claims, Asks, Ahead, Stopped
<1>10. CASE UNCHANGED vars
  <2>1. UNCHANGED <<lane, kind, done, pc, owed>>
    BY <1>10 DEF vars
  <2>2. QInv(lane', pc', kind', done', owed')
    BY <1>1, <2>1
  <2> QED BY <2>1, <2>2 DEF LaneQ, NeverIdle, QInv, HolderInv, BehindInv, OwedInv, Claims, Asks, Ahead, Stopped
<1> QED BY <1>2, <1>3, <1>4, <1>5, <1>6, <1>7, <1>8, <1>9, <1>10 DEF Next

LEMMA InvariantQ == Spec => [](IInv /\ LaneQ)
<1>1. Init => IInv /\ LaneQ
  BY InitIInv, InitQ
<1>2. (IInv /\ LaneQ) /\ [Next]_vars => (IInv /\ LaneQ)'
  BY NextIInv, NextQ
<1> QED BY <1>1, <1>2, PTL DEF Spec

\* A foreground pass never waits behind a planner that holds the barrier.
THEOREM ForegroundPasses == Spec => []ForegroundNotHeld
<1>1. LaneQ => ForegroundNotHeld
  BY DEF LaneQ, QInv, BehindInv, ForegroundNotHeld
<1> QED BY <1>1, InvariantQ, PTL

\* A planner that goes on to apply has let every pass finish that was queued
\* while it planned.
THEOREM OwedPassesFinish == Spec => []OwedDone
<1>1. LaneQ => OwedDone
  BY DEF LaneQ, QInv, OwedInv, OwedDone
<1> QED BY <1>1, InvariantQ, PTL

\* The lane is reserved exactly while one planner asks for, plans on or releases
\* a barrier.
THEOREM ReservationIsOnePlanners == Spec => []ReservedByOne
<1>1. IInv /\ LaneQ => ReservedByOne
  <2> SUFFICES ASSUME IInv, LaneQ PROVE ReservedByOne
    OBVIOUS
  <2> DEFINE holders == {p \in Planners : pc[p] \in {"waiting", "planning"} \/ lane.active.owner = p}
  <2>1. lane \in Lane /\ LaneInv(lane) /\ PlannerInv /\ HolderInv(lane, pc)
    BY DEF IInv, TypeOK, LaneConsistent, LaneQ, QInv
  <2>2. \A p \in Planners : p \in holders <=> Claims(lane, p)
    BY <2>1 DEF HolderInv, Claims, PlannerInv
  <2>3. \A p \in Planners : Claims(lane, p) => lane.reserved
    BY <2>1, NobodyAssumption DEF Claims, Asks, LaneInv, Marker, NoBarrier
  <2>4. \A p, q \in Planners : Claims(lane, p) /\ Claims(lane, q) => p = q
    <3> SUFFICES ASSUME NEW p \in Planners, NEW q \in Planners, Claims(lane, p), Asks(lane, q)
                 PROVE  p = q
      BY DEF Claims
    <3>1. lane.active = NoBarrier
      BY <2>1 DEF Asks, LaneInv, Marker
    <3>2. Asks(lane, p)
      BY <3>1, NobodyAssumption DEF Claims, NoBarrier
    <3> QED BY <2>1, <3>2 DEF Asks, LaneInv, Marker
  <2>5. lane.reserved => holders # {}
    BY <2>1, <2>2 DEF HolderInv
  <2> QED BY <2>2, <2>3, <2>4, <2>5 DEF ReservedByOne
<1> QED BY <1>1, InvariantQ, PTL

\* The lane never idles with work it could run.
THEOREM LaneNeverIdles == Spec => []NeverIdle
<1>1. LaneQ => NeverIdle
  BY DEF LaneQ
<1> QED BY <1>1, InvariantQ, PTL

-----------------------------------------------------------------------------
(* What runs while a barrier is released *)

\* The planner's checkpoint waits in the queue of a lane being released, and only the
\* works it is owed are in front.
Exact(l, ow) ==
  \A p \in Planners : l.active.owner = p /\ l.active.releasing =>
    \E j \in DOMAIN l.queue : l.queue[j] = Checkpoint(p)
       /\ \A i \in 1 .. j - 1 : l.queue[i].kind = "work" /\ l.queue[i].who \in ow[p]

LEMMA NotReleasing ==
  ASSUME NEW l, NEW ow, ~l.active.releasing
  PROVE  Exact(l, ow)
BY DEF Exact

LEMMA AppendExact ==
  ASSUME NEW ow, NEW l \in Lane, NEW n, NEW e \in Entry, Exact(l, ow),
         n.queue = Append(l.queue, e), n.active = l.active
  PROVE  Exact(n, ow)
<1>1. /\ DOMAIN l.queue = 1 .. Len(l.queue) /\ Len(l.queue) \in Nat
      /\ DOMAIN n.queue = 1 .. Len(l.queue) + 1
      /\ \A i \in DOMAIN l.queue : n.queue[i] = l.queue[i]
  BY DEF Lane
<1>2. \A j \in DOMAIN l.queue : j \in DOMAIN n.queue /\ \A i \in 1 .. j - 1 : i \in DOMAIN l.queue
  BY <1>1
<1> QED BY <1>1, <1>2 DEF Exact

\* One step of #drain: what it starts for a planner being released is owed to it.
LEMMA TakeExact ==
  ASSUME NEW ow, NEW l \in Lane, LaneInv(l), ~Stopped(l), Exact(l, ow)
  PROVE  /\ Exact(Take(l), ow)
         /\ \A p \in Planners : l.active.owner = p /\ l.active.releasing /\ Take(l).active.owner = p
              => Take(l).running \in ow[p]
<1> DEFINE e == Head(l.queue)
           t == Tail(l.queue)
           n == Take(l)
<1>1. l.queue \in Seq(Entry) /\ l.queue # <<>>
  BY DEF Stopped, Lane
<1>2. /\ e \in Entry /\ e = l.queue[1]
      /\ DOMAIN t = 1 .. Len(l.queue) - 1 /\ DOMAIN l.queue = 1 .. Len(l.queue) /\ Len(l.queue) \in Nat
      /\ \A i \in DOMAIN t : t[i] = l.queue[i + 1]
  BY <1>1
<1>3. CASE e.kind = "barrier"
  <2>1. 1 \in DOMAIN l.queue
    BY <1>1
  <2>2. l.active = NoBarrier
    BY <1>2, <1>3, <2>1 DEF LaneInv, Marker
  <2>3. ~l.active.releasing
    BY <2>2 DEF NoBarrier
  <2>4. n.active = [owner |-> e.who, invalidated |-> FALSE, releasing |-> FALSE]
    BY <1>3 DEF Take, Lane
  <2> QED BY <2>3, <2>4, NotReleasing
<1>4. CASE e.kind = "checkpoint"
  <2>1. n.active = NoBarrier
    BY <1>4 DEF Take, Retired, Lane
  <2>2. ~n.active.releasing /\ n.active.owner = Nobody
    BY <2>1 DEF NoBarrier
  <2>3. \A p \in Planners : p # Nobody
    BY NobodyAssumption
  <2> QED BY <2>2, <2>3, NotReleasing
<1>5. CASE e.kind = "work"
  <2>1. n.active = l.active /\ n.queue = t /\ n.running = e.who
    BY <1>5 DEF Take, Lane
  <2> HIDE DEF n
  <2> SUFFICES ASSUME NEW p \in Planners, l.active.owner = p, l.active.releasing
               PROVE  /\ \E j \in DOMAIN n.queue : n.queue[j] = Checkpoint(p)
                           /\ \A i \in 1 .. j - 1 : n.queue[i].kind = "work" /\ n.queue[i].who \in ow[p]
                      /\ n.running \in ow[p]
    BY <2>1 DEF Exact, n
  <2>2. PICK j \in DOMAIN l.queue :
          /\ l.queue[j] = Checkpoint(p)
          /\ \A i \in 1 .. j - 1 : l.queue[i].kind = "work" /\ l.queue[i].who \in ow[p]
    BY DEF Exact
  <2> HIDE DEF e, t
  <2>3. j # 1
    BY <1>2, <1>5, <2>2 DEF Checkpoint
  <2>4. j - 1 \in DOMAIN t /\ t[j - 1] = Checkpoint(p) /\ 1 \in 1 .. j - 1
    BY <1>2, <2>2, <2>3
  <2>5. j \in Nat /\ j <= Len(l.queue)
    BY <1>2
  <2>6. \A i \in 1 .. (j - 1) - 1 : i \in DOMAIN t /\ i + 1 \in 1 .. j - 1
    BY <1>2, <2>5
  <2>7. \A i \in 1 .. (j - 1) - 1 : t[i].kind = "work" /\ t[i].who \in ow[p]
    BY <1>2, <2>2, <2>6
  <2>8. e.who \in ow[p]
    BY <1>2, <2>2, <2>4
  <2> QED BY <2>1, <2>4, <2>7, <2>8
<1> QED BY <1>2, <1>3, <1>4, <1>5 DEF Entry

LEMMA DrainExact ==
  ASSUME NEW ow, NEW l \in Lane, LaneInv(l), Exact(l, ow)
  PROVE  /\ Exact(Drain(l), ow)
         /\ \A p \in Planners : l.active.owner = p /\ l.active.releasing /\ Drain(l).active.owner = p
              => Drain(l).running \in ow[p] \cup {l.running}
<1>1. CASE Stopped(l)
  BY <1>1 DEF Drain
<1>2. CASE ~Stopped(l)
  <2> DEFINE n == Take(l)
  <2>1. CASE Head(l.queue).kind = "checkpoint" /\ ~Stopped(n)
    <3>1. /\ n \in Lane /\ LaneInv(n) /\ n.active = NoBarrier
          /\ \A i \in DOMAIN n.queue : n.queue[i].kind = "work"
      BY <1>2, <2>1, TakeLane
    <3>2. Drain(l) = Take(n)
      BY <1>2, <2>1 DEF Drain
    <3> HIDE DEF n
    <3>3. Head(n.queue).kind = "work"
      BY <2>1, <3>1 DEF Stopped, Lane
    <3>4. Take(n).active = NoBarrier
      BY <2>1, <3>1, <3>3, TakeLane
    <3> QED BY <3>2, <3>4, NotReleasing, NobodyAssumption DEF NoBarrier
  <2>2. CASE ~(Head(l.queue).kind = "checkpoint" /\ ~Stopped(n))
    <3>1. Drain(l) = n
      BY <1>2, <2>2 DEF Drain
    <3> QED BY <1>2, <3>1, TakeExact
  <2> QED BY <2>1, <2>2
<1> QED BY <1>1, <1>2

\* The pass a step starts while p's barrier is released is one p is owed.
Starts(p) ==
  (pc[p] = "releasing" /\ lane.active.owner = p /\ lane'.active.owner = p
     /\ lane'.running # lane.running) => lane'.running \in owed[p] \cup {Nobody}

\* A method edits the lane into l and drains it.
LEMMA DrainedExact ==
  ASSUME NEW l \in Lane, LaneInv(l), lane' = Drain(l), Exact(l, owed'),
         \A p \in Planners : pc[p] = "releasing" /\ lane.active.owner = p =>
            /\ l.active.owner = p /\ l.active.releasing
            /\ owed'[p] = owed[p] /\ l.running \in {lane.running, Nobody}
  PROVE  Exact(lane', owed') /\ \A p \in Planners : Starts(p)
<1>1. /\ Exact(Drain(l), owed')
      /\ \A p \in Planners : l.active.owner = p /\ l.active.releasing /\ Drain(l).active.owner = p
            => Drain(l).running \in owed'[p] \cup {l.running}
  BY DrainExact
<1>2. Exact(lane', owed')
  BY <1>1 DEF Exact
<1>3. \A p \in Planners : Starts(p)
  BY <1>1 DEF Starts
<1> QED BY <1>2, <1>3

\* A foreground request in a lane being released goes to the end of the queue.
LEMMA ForegroundedLane ==
  ASSUME NEW l \in Lane, LaneInv(l), NEW w \in Works
  PROVE  LET n == Foregrounded(l, Work(w))
         IN /\ n \in Lane /\ LaneInv(n) /\ n.running = l.running
            /\ n.active.releasing = l.active.releasing
            /\ l.active.releasing => n = Append1(l, Work(w))
<1> DEFINE n == Foregrounded(l, Work(w))
<1>1. l.active.releasing => l.reserved /\ ~BarrierQueued(l) /\ ~Preemptible(l)
  BY DEF LaneInv, BarrierQueued, Marker, Preemptible, NoBarrier
<1>2. CASE n = Append1(l, Work(w))
  <2>1. n \in Lane /\ LaneInv(n)
    BY <1>2, AppendWorkLane
  <2>2. n.active = l.active /\ n.running = l.running
    BY <1>2 DEF Append1, Lane
  <2> QED BY <1>2, <2>1, <2>2
<1>3. CASE BarrierQueued(l) /\ n = BeforeBarrier(l, Work(w))
  <2>1. n \in Lane /\ LaneInv(n)
    BY <1>3, BeforeBarrierLane
  <2>2. n.active = l.active /\ n.running = l.running
    BY <1>3 DEF BeforeBarrier, Lane
  <2> QED BY <1>1, <1>3, <2>1, <2>2
<1>4. CASE Preemptible(l) /\ n = [Invalidated(l) EXCEPT !.queue = <<Work(w)>> \o @]
  <2> DEFINE m == Invalidated(l)
  <2>1. m \in Lane /\ LaneInv(m) /\ m.running = l.running /\ ~m.active.releasing
    BY <1>4, InvalidatedLane
  <2> HIDE DEF m
  <2>2. n \in Lane /\ LaneInv(n)
    BY <1>4, <2>1, PrependWorkLane DEF m
  <2>3. n.active = m.active /\ n.running = m.running
    BY <1>4, <2>1 DEF Lane, m
  <2>4. l.active.releasing = FALSE
    BY <1>4 DEF Preemptible, Lane, Barrier, NoBarrier
  <2>5. m.active.releasing = FALSE
    BY <2>1 DEF Lane, Barrier, NoBarrier
  <2> QED BY <2>1, <2>2, <2>3, <2>4, <2>5
<1>5. n = Append1(l, Work(w)) \/ (BarrierQueued(l) /\ n = BeforeBarrier(l, Work(w)))
        \/ (Preemptible(l) /\ n = [Invalidated(l) EXCEPT !.queue = <<Work(w)>> \o @])
  BY DEF Foregrounded
<1> QED BY <1>2, <1>3, <1>4, <1>5

\* A planner's barrier or checkpoint goes behind a queue that holds neither: the only one.
LEMMA MarkedQueue ==
  ASSUME NEW l \in Lane, NEW e \in Entry, \A i \in DOMAIN l.queue : ~Marker(l.queue[i])
  PROVE  /\ Append(l.queue, e) \in Seq(Entry)
         /\ \A i, j \in DOMAIN Append(l.queue, e) :
              Marker(Append(l.queue, e)[i]) =>
                /\ Append(l.queue, e)[i] = e
                /\ Marker(Append(l.queue, e)[j]) => i = j
<1> DEFINE s == l.queue
           t == Append(l.queue, e)
<1>1. s \in Seq(Entry) /\ t = Append(s, e)
  BY DEF Lane
<1>2. \A i \in DOMAIN s : ~Marker(s[i])
  OBVIOUS
<1> HIDE DEF s, t
<1>3. /\ t \in Seq(Entry) /\ DOMAIN s = 1 .. Len(s) /\ DOMAIN t = 1 .. Len(s) + 1 /\ Len(s) \in Nat
      /\ t[Len(s) + 1] = e /\ \A i \in 1 .. Len(s) : t[i] = s[i]
  BY <1>1
<1>4. \A i \in DOMAIN t : Marker(t[i]) => i = Len(s) + 1 /\ t[i] = e
  BY <1>2, <1>3
<1> QED BY <1>3, <1>4 DEF t

LEMMA AskedLane ==
  ASSUME NEW l \in Lane, LaneInv(l), ~l.reserved, NEW p \in Planners
  PROVE  LET n == [Append1(l, [kind |-> "barrier", who |-> p]) EXCEPT !.reserved = TRUE]
         IN n \in Lane /\ LaneInv(n) /\ n.active = NoBarrier
<1> DEFINE e == [kind |-> "barrier", who |-> p]
           n == [Append1(l, e) EXCEPT !.reserved = TRUE]
<1>1. l.active = NoBarrier /\ ~l.held /\ \A i \in DOMAIN l.queue : ~Marker(l.queue[i])
  BY DEF LaneInv
<1>2. e \in Entry /\ e.kind = "barrier"
  BY DEF Entry
<1> HIDE DEF e
<1>3. n = [l EXCEPT !.queue = Append(l.queue, e), !.reserved = TRUE]
  BY DEF Append1, Lane
<1>4. Append(l.queue, e) \in Seq(Entry)
  BY <1>1, <1>2, MarkedQueue
<1>5. /\ n \in Lane /\ n.active = NoBarrier /\ n.held = l.held /\ n.running = l.running
      /\ n.reserved /\ n.queue = Append(l.queue, e)
  BY <1>1, <1>3, <1>4 DEF Lane
<1> HIDE DEF n
<1>6. \A i, j \in DOMAIN n.queue : Marker(n.queue[i]) => n.queue[i] = e /\ (Marker(n.queue[j]) => i = j)
  BY <1>1, <1>2, <1>5, MarkedQueue
<1>7. LaneInv(n)
  BY <1>1, <1>2, <1>5, <1>6 DEF LaneInv, NoBarrier
<1> QED BY <1>5, <1>7 DEF n, e

LEMMA UnlockedLane ==
  ASSUME NEW l \in Lane, LaneInv(l), NEW p \in Planners, l.active.owner = p,
         l.active # NoBarrier, ~l.active.invalidated, \A i \in DOMAIN l.queue : ~Marker(l.queue[i])
  PROVE  /\ Unlocked(l, p) \in Lane /\ LaneInv(Unlocked(l, p))
         /\ Unlocked(l, p).active.owner = p
         /\ Unlocked(l, p).queue = Append(l.queue, Checkpoint(p))
<1> DEFINE e == Checkpoint(p)
           b == [l.active EXCEPT !.releasing = TRUE]
           n == Unlocked(l, p)
<1>1. e \in Entry /\ e.kind = "checkpoint" /\ e.who = p
  BY DEF Entry, Checkpoint
<1>2. b \in Barrier /\ b.owner = p /\ b.releasing /\ ~b.invalidated /\ b # NoBarrier
  BY DEF Lane, Barrier, NoBarrier
<1>3. n = [l EXCEPT !.queue = Append(l.queue, e), !.held = FALSE, !.active = b]
  BY DEF Unlocked, Append1, Lane
<1> HIDE DEF b, e
<1>4. Append(l.queue, e) \in Seq(Entry)
  BY <1>1, MarkedQueue
<1>5. /\ n \in Lane /\ n.active = b /\ n.held = FALSE /\ n.running = l.running
      /\ n.reserved = l.reserved /\ n.queue = Append(l.queue, e)
  BY <1>2, <1>3, <1>4 DEF Lane
<1> HIDE DEF n
<1>6. \A i, j \in DOMAIN n.queue : Marker(n.queue[i]) => n.queue[i] = e /\ (Marker(n.queue[j]) => i = j)
  BY <1>1, <1>5, MarkedQueue
<1>7. LaneInv(n)
  BY <1>1, <1>2, <1>5, <1>6 DEF LaneInv
<1> QED BY <1>2, <1>5, <1>7 DEF n, e

LEMMA NextExact ==
  ASSUME IInv, LaneQ, Exact(lane, owed), [Next]_vars
  PROVE  Exact(lane', owed') /\ \A p \in Planners : Starts(p)
<1>1. /\ lane \in Lane /\ LaneInv(lane) /\ PlannerInv /\ TypeOK
      /\ \A p \in Planners : pc[p] = "releasing" /\ lane.active.owner = p => lane.active.releasing
  BY DEF IInv, TypeOK, LaneConsistent, LaneQ, QInv, HolderInv
<1>s. ASSUME lane' = lane, owed' = owed
      PROVE  Exact(lane', owed') /\ \A p \in Planners : Starts(p)
  BY <1>s DEF Exact, Starts
<1>2. ASSUME NEW w \in Works, NEW l, l = Append1(lane, Work(w))
      PROVE  /\ l \in Lane /\ LaneInv(l) /\ l.active = lane.active /\ l.running = lane.running
             /\ Exact(l, owed)
  <2>1. l \in Lane /\ LaneInv(l)
    BY <1>1, <1>2, AppendWorkLane
  <2>2. l.active = lane.active /\ l.running = lane.running /\ l.queue = Append(lane.queue, Work(w))
    BY <1>1, <1>2 DEF Append1, Lane
  <2>3. Work(w) \in Entry
    BY DEF Work, Entry
  <2>4. Exact(l, owed)
    BY <1>1, <2>2, <2>3, AppendExact
  <2> QED BY <2>1, <2>2, <2>4
<1>3. ASSUME NEW w \in Works, Run(w)
      PROVE  Exact(lane', owed') /\ \A p \in Planners : Starts(p)
  <2> DEFINE l == Append1(lane, Work(w))
  <2>1. lane' = Drain(l) /\ owed' = owed
    BY <1>3 DEF Run
  <2>2. l \in Lane /\ LaneInv(l) /\ l.active = lane.active /\ l.running = lane.running /\ Exact(l, owed')
    BY <1>2, <2>1
  <2> HIDE DEF l
  <2> QED BY <1>1, <2>1, <2>2, DrainedExact
<1>4. ASSUME NEW w \in Works, RunForeground(w)
      PROVE  Exact(lane', owed') /\ \A p \in Planners : Starts(p)
  <2> DEFINE l == Foregrounded(lane, Work(w))
  <2>1. lane' = Drain(l) /\ owed' = owed
    BY <1>4 DEF RunForeground
  <2>2. /\ l \in Lane /\ LaneInv(l) /\ l.running = lane.running
        /\ l.active.releasing = lane.active.releasing
        /\ lane.active.releasing => l = Append1(lane, Work(w))
    BY <1>1, ForegroundedLane
  <2> HIDE DEF l
  <2>3. lane.active.releasing => Exact(l, owed) /\ l.active = lane.active
    BY <1>2, <2>2
  <2>4. ~lane.active.releasing => Exact(l, owed)
    BY <2>2, NotReleasing
  <2>5. Exact(l, owed')
    BY <2>1, <2>3, <2>4
  <2> QED BY <1>1, <2>1, <2>2, <2>3, <2>5, DrainedExact
<1>5. ASSUME NEW w \in Works, InvalidateForForeground(w)
      PROVE  Exact(lane', owed') /\ \A p \in Planners : Starts(p)
  <2>1. CASE lane.reserved /\ ~BarrierQueued(lane) /\ Preemptible(lane)
    <3> DEFINE l == Invalidated(lane)
    <3>1. lane' = Drain(l) /\ owed' = owed
      BY <1>5, <2>1 DEF InvalidateForForeground
    <3>2. l \in Lane /\ LaneInv(l) /\ ~l.active.releasing
      BY <1>1, <2>1, InvalidatedLane
    <3> HIDE DEF l
    <3>3. Exact(l, owed')
      BY <3>2, NotReleasing
    <3>4. ~lane.active.releasing
      BY <2>1 DEF Preemptible
    <3> QED BY <1>1, <3>1, <3>2, <3>3, <3>4, DrainedExact
  <2>2. CASE ~(lane.reserved /\ ~BarrierQueued(lane) /\ Preemptible(lane))
    BY <1>5, <1>s, <2>2 DEF InvalidateForForeground
  <2> QED BY <2>1, <2>2
<1>6. CASE FinishWork
  <2> DEFINE l == [lane EXCEPT !.running = Nobody]
  <2>1. lane' = Drain(l) /\ owed' = owed
    BY <1>6 DEF FinishWork
  <2>2. /\ l \in Lane /\ l.active = lane.active /\ l.held = lane.held /\ l.queue = lane.queue
        /\ l.running = Nobody /\ l.reserved = lane.reserved
    BY <1>1 DEF Lane
  <2> HIDE DEF l
  <2>3. LaneInv(l)
    BY <1>1, <2>2 DEF LaneInv
  <2>4. Exact(l, owed')
    BY <2>1, <2>2 DEF Exact
  <2> QED BY <1>1, <2>1, <2>2, <2>3, <2>4, DrainedExact
<1>7. ASSUME NEW p \in Planners, Acquire(p)
      PROVE  Exact(lane', owed') /\ \A q \in Planners : Starts(q)
  <2>1. CASE lane.reserved
    BY <1>7, <1>s, <2>1 DEF Acquire
  <2>2. CASE ~lane.reserved
    <3> DEFINE l == [Append1(lane, [kind |-> "barrier", who |-> p]) EXCEPT !.reserved = TRUE]
    <3>1. lane' = Drain(l) /\ owed' = owed
      BY <1>7, <2>2 DEF Acquire
    <3>2. l \in Lane /\ LaneInv(l) /\ l.active = NoBarrier
      BY <1>1, <2>2, AskedLane
    <3> HIDE DEF l
    <3>3. Exact(l, owed')
      BY <3>2, NotReleasing DEF NoBarrier
    <3>4. \A q \in Planners : lane.active.owner # q
      BY <1>1, <2>2, NobodyAssumption DEF LaneInv, NoBarrier
    <3> QED BY <3>1, <3>2, <3>3, <3>4, DrainedExact
  <2> QED BY <2>1, <2>2
<1>8. ASSUME NEW p \in Planners, Release(p)
      PROVE  Exact(lane', owed') /\ \A q \in Planners : Starts(q)
  <2>1. /\ pc[p] = "planning" /\ lane.active.owner = p /\ ~lane.active.releasing
        /\ lane.active # NoBarrier
    BY <1>1, <1>8, NobodyAssumption DEF Release, PlannerInv, NoBarrier
  <2>2. \A i \in DOMAIN lane.queue : ~Marker(lane.queue[i])
    BY <1>1, <2>1 DEF LaneInv, Marker
  <2>3. \A q \in Planners : ~(pc[q] = "releasing" /\ lane.active.owner = q)
    BY <1>1, <2>1
  <2>4. CASE lane.active.invalidated
    <3> DEFINE l == Retired(lane)
    <3>1. lane' = Drain(l)
      BY <1>8, <2>4 DEF Release
    <3>2. /\ l \in Lane /\ l.active = NoBarrier /\ l.held = lane.held /\ l.queue = lane.queue
      BY <1>1 DEF Lane, Barrier, Retired
    <3> HIDE DEF l
    <3>3. LaneInv(l)
      BY <1>1, <2>2, <2>4, <3>2 DEF LaneInv, NoBarrier
    <3>4. Exact(l, owed')
      BY <3>2, NotReleasing DEF NoBarrier
    <3> QED BY <2>3, <3>1, <3>2, <3>3, <3>4, DrainedExact
  <2>5. CASE ~lane.active.invalidated
    <3> DEFINE l == Unlocked(lane, p)
    <3>1. lane' = Drain(l) /\ owed' = [owed EXCEPT ![p] = Queued(lane)]
      BY <1>8, <2>5 DEF Release
    <3>2. l \in Lane /\ LaneInv(l) /\ l.active.owner = p /\ l.queue = Append(lane.queue, Checkpoint(p))
      BY <1>1, <2>1, <2>2, <2>5, UnlockedLane
    <3> HIDE DEF l
    <3>3. Exact(l, owed')
      <4> SUFFICES ASSUME NEW q \in Planners, l.active.owner = q
                   PROVE  \E j \in DOMAIN l.queue : l.queue[j] = Checkpoint(q)
                            /\ \A i \in 1 .. j - 1 : l.queue[i].kind = "work" /\ l.queue[i].who \in owed'[q]
        BY DEF Exact
      <4>1. q = p /\ owed'[q] = Queued(lane)
        BY <1>1, <3>1, <3>2 DEF TypeOK
      <4>2. /\ lane.queue \in Seq(Entry) /\ Len(lane.queue) \in Nat
            /\ DOMAIN lane.queue = 1 .. Len(lane.queue)
            /\ Len(lane.queue) + 1 \in DOMAIN l.queue /\ l.queue[Len(lane.queue) + 1] = Checkpoint(p)
            /\ \A i \in DOMAIN lane.queue : l.queue[i] = lane.queue[i]
        BY <1>1, <3>2 DEF Lane
      <4>3. \A i \in DOMAIN lane.queue :
              lane.queue[i].kind = "work" /\ lane.queue[i].who \in Works
                /\ lane.queue[i] = Work(lane.queue[i].who)
        BY <2>2, <4>2 DEF Marker, Entry, Work
      <4>4. \A i \in 1 .. (Len(lane.queue) + 1) - 1 : i \in DOMAIN lane.queue
        BY <4>2
      <4>5. \A i \in DOMAIN lane.queue : lane.queue[i].who \in Queued(lane)
        BY <4>3 DEF Queued
      <4> QED BY <4>1, <4>2, <4>3, <4>4, <4>5
    <3> QED BY <2>3, <3>1, <3>2, <3>3, DrainedExact
  <2> QED BY <2>4, <2>5
<1>9. ASSUME NEW p \in Planners, CaptureSnapshot(p) \/ BeginApply(p)
      PROVE  Exact(lane', owed') /\ \A q \in Planners : Starts(q)
  BY <1>9, <1>s DEF CaptureSnapshot, BeginApply
<1>10. CASE UNCHANGED vars
  BY <1>10, <1>s DEF vars
<1> QED BY <1>3, <1>4, <1>5, <1>6, <1>7, <1>8, <1>9, <1>10 DEF Next

\* A release drains exactly what was queued behind the barrier: until its checkpoint is
\* reached no pass starts that was requested after release() was called.
THEOREM ReleaseDrainsExactly == Spec => DrainIsExact
<1>1. Init => IInv /\ LaneQ /\ Exact(lane, owed)
  BY InitIInv, InitQ, NotReleasing DEF Init, NoBarrier
<1>2. IInv /\ LaneQ /\ Exact(lane, owed) /\ [Next]_vars => (IInv /\ LaneQ /\ Exact(lane, owed))'
  <2> SUFFICES ASSUME IInv, LaneQ, Exact(lane, owed), [Next]_vars
               PROVE  (IInv /\ LaneQ /\ Exact(lane, owed))'
    OBVIOUS
  <2>1. IInv' /\ LaneQ'
    BY NextIInv, NextQ
  <2>2. Exact(lane', owed')
    BY NextExact
  <2> QED BY <2>1, <2>2 DEF Exact
<1>3. IInv /\ LaneQ /\ Exact(lane, owed) /\ [Next]_vars => \A p \in Planners : Starts(p)
  BY NextExact
<1> QED BY <1>1, <1>2, <1>3, PTL DEF Spec, DrainIsExact, Starts
=============================================================================
