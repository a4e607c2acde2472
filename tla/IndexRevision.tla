---------------------------- MODULE IndexRevision ----------------------------
(***************************************************************************)
(* The serialized lane of index passes and the revision barrier a dream     *)
(* planner holds in it (core/src/index/revision-barrier.ts), with its       *)
(* callers: passes (ordinary and foreground), policy mutations that need no *)
(* pass (ops/folder.ts), and the planner wave of maintenance/dream.ts.      *)
(*                                                                          *)
(* JavaScript runs to completion between awaits, so every method of the     *)
(* coordinator, the drain it ends with included, is one action.             *)
(***************************************************************************)
EXTENDS Naturals, Sequences

CONSTANTS Works,      \* index passes and policy mutations, one id per call
          Planners,   \* dream invocations
          Nobody      \* the absence of a work or a planner

ASSUME NobodyAssumption == Nobody \notin Works \cup Planners

VARIABLES
  lane,      \* the coordinator's private fields
  kind,      \* how each work was requested, "new" before it is
  done,      \* works whose effect on the index is complete
  pc,        \* where each dream invocation is
  snapshot,  \* works the planner's captured revision contains
  owed       \* works that were queued when the planner released

vars == <<lane, kind, done, pc, snapshot, owed>>

Entry == [kind : {"work"}, who : Works] \cup [kind : {"barrier", "checkpoint"}, who : Planners]

\* ActiveBarrierState; "held" in the lane is #barrierHeld, "owner" names the
\* planner whose acquire() was resolved with this state.
NoBarrier == [owner |-> Nobody, invalidated |-> FALSE, releasing |-> FALSE]

Barrier == {NoBarrier} \cup [owner : Planners, invalidated : BOOLEAN, releasing : BOOLEAN]

Lane == [queue : Seq(Entry), running : Works \cup {Nobody}, held : BOOLEAN,
         reserved : BOOLEAN, active : Barrier]

\* The revision of the index: every pass that has started may have changed it.
Revision == done \cup ({lane.running} \ {Nobody})

\* Wrong variants of a definition, named <definition>_<what goes wrong>, stand in
\* front of it; no action uses them.
Stopped_IgnoresBarrier(l) == l.running # Nobody \/ l.queue = <<>>

Stopped(l) == l.running # Nobody \/ l.held \/ l.queue = <<>>

\* The reservation ends: a checkpoint is reached, or a broken barrier released.
Retired_KeepsReservation(l) == [l EXCEPT !.active = NoBarrier]

Retired_ForgetsOwnerOnly(l) == [l EXCEPT !.reserved = FALSE, !.active.owner = Nobody]

Retired(l) == [l EXCEPT !.reserved = FALSE, !.active = NoBarrier]

\* One entry taken from the front by #drain.
Take(l) ==
  LET e    == Head(l.queue)
      rest == [l EXCEPT !.queue = Tail(l.queue)]
  IN CASE e.kind = "barrier" ->
            [rest EXCEPT !.held = TRUE,
                         !.active = [owner |-> e.who, invalidated |-> FALSE, releasing |-> FALSE]]
       [] e.kind = "checkpoint" -> Retired(rest)
       [] e.kind = "work" -> [rest EXCEPT !.running = e.who]

Drain_Once(l) == IF Stopped(l) THEN l ELSE Take(l)

\* #drain: a checkpoint drains again; LaneInv says the next entry is a work.
Drain(l) ==
  IF Stopped(l) THEN l
  ELSE LET next == Take(l)
       IN IF Head(l.queue).kind = "checkpoint" /\ ~Stopped(next) THEN Take(next) ELSE next

Work(w) == [kind |-> "work", who |-> w]

BarrierQueued(l) == \E i \in DOMAIN l.queue : l.queue[i].kind = "barrier"

\* A barrier that was acquired and whose planner has not called release().
Preemptible(l) == l.active # NoBarrier /\ ~l.active.releasing

Append1(l, e) == [l EXCEPT !.queue = Append(@, e)]

\* queue.splice(i, 0, e), the index counted from one.
Spliced(q, i, e) == SubSeq(q, 1, i - 1) \o <<e>> \o SubSeq(q, i, Len(q))

BeforeBarrier(l, e) ==
  [l EXCEPT !.queue =
     Spliced(@, CHOOSE j \in DOMAIN l.queue : l.queue[j].kind = "barrier", e)]

Invalidated(l) == [l EXCEPT !.held = FALSE, !.active.invalidated = TRUE]

Foregrounded_BehindBarrier(l, e) ==
  IF l.reserved /\ ~BarrierQueued(l) /\ Preemptible(l)
  THEN [Invalidated(l) EXCEPT !.queue = <<e>> \o @]
  ELSE Append1(l, e)

Foregrounded_Waits(l, e) ==
  IF l.reserved /\ BarrierQueued(l) THEN BeforeBarrier(l, e) ELSE Append1(l, e)

Foregrounded_Silent(l, e) ==
  IF ~l.reserved THEN Append1(l, e)
  ELSE IF BarrierQueued(l) THEN BeforeBarrier(l, e)
  ELSE IF Preemptible(l) THEN [l EXCEPT !.held = FALSE, !.queue = <<e>> \o @]
  ELSE Append1(l, e)

Foregrounded_WhileReleasing(l, e) ==
  IF ~l.reserved THEN Append1(l, e)
  ELSE IF BarrierQueued(l) THEN BeforeBarrier(l, e)
  ELSE IF l.active # NoBarrier THEN [l EXCEPT !.held = FALSE, !.queue = <<e>> \o @]
  ELSE Append1(l, e)

\* #enqueue with priority 'foreground'.
Foregrounded(l, e) ==
  IF ~l.reserved THEN Append1(l, e)
  ELSE IF BarrierQueued(l) THEN BeforeBarrier(l, e)
  ELSE IF Preemptible(l) THEN [Invalidated(l) EXCEPT !.queue = <<e>> \o @]
  ELSE Append1(l, e)

-----------------------------------------------------------------------------
Init ==
  /\ lane = [queue |-> <<>>, running |-> Nobody, held |-> FALSE, reserved |-> FALSE,
             active |-> NoBarrier]
  /\ kind = [w \in Works |-> "new"]
  /\ done = {}
  /\ pc = [p \in Planners |-> "idle"]
  /\ snapshot = [p \in Planners |-> {}]
  /\ owed = [p \in Planners |-> {}]

Run(w) ==
  /\ kind[w] = "new"
  /\ kind' = [kind EXCEPT ![w] = "ordinary"]
  /\ lane' = Drain(Append1(lane, Work(w)))
  /\ UNCHANGED <<done, pc, snapshot, owed>>

RunForeground(w) ==
  /\ kind[w] = "new"
  /\ kind' = [kind EXCEPT ![w] = "foreground"]
  /\ lane' = Drain(Foregrounded(lane, Work(w)))
  /\ UNCHANGED <<done, pc, snapshot, owed>>

InvalidateForForeground_NoDrain(w) ==
  /\ kind[w] = "new"
  /\ kind' = [kind EXCEPT ![w] = "policy"]
  /\ done' = done \cup {w}
  /\ lane' = IF lane.reserved /\ ~BarrierQueued(lane) /\ Preemptible(lane)
             THEN Invalidated(lane) ELSE lane
  /\ UNCHANGED <<pc, snapshot, owed>>

\* A policy mutation takes effect and breaks an acquired barrier, in one tick.
InvalidateForForeground(w) ==
  /\ kind[w] = "new"
  /\ kind' = [kind EXCEPT ![w] = "policy"]
  /\ done' = done \cup {w}
  /\ lane' = IF lane.reserved /\ ~BarrierQueued(lane) /\ Preemptible(lane)
             THEN Drain(Invalidated(lane)) ELSE lane
  /\ UNCHANGED <<pc, snapshot, owed>>

FinishWork_NoDrain ==
  /\ lane.running # Nobody
  /\ done' = done \cup {lane.running}
  /\ lane' = [lane EXCEPT !.running = Nobody]
  /\ UNCHANGED <<kind, pc, snapshot, owed>>

\* A pass settles, with a value or an error; the lane moves on either way.
FinishWork ==
  /\ lane.running # Nobody
  /\ done' = done \cup {lane.running}
  /\ lane' = Drain([lane EXCEPT !.running = Nobody])
  /\ UNCHANGED <<kind, pc, snapshot, owed>>

Acquire_Unguarded(p) ==
  /\ pc[p] = "idle"
  /\ pc' = [pc EXCEPT ![p] = "waiting"]
  /\ lane' = Drain([Append1(lane, [kind |-> "barrier", who |-> p]) EXCEPT !.reserved = TRUE])
  /\ UNCHANGED <<kind, done, snapshot, owed>>

Acquire(p) ==
  /\ pc[p] = "idle"
  /\ IF lane.reserved
     THEN /\ pc' = [pc EXCEPT ![p] = "rejected"]
          /\ UNCHANGED lane
     ELSE /\ pc' = [pc EXCEPT ![p] = "waiting"]
          /\ lane' = Drain([Append1(lane, [kind |-> "barrier", who |-> p]) EXCEPT !.reserved = TRUE])
  /\ UNCHANGED <<kind, done, snapshot, owed>>

\* acquire() resolved: the planner captures the revision it will read.
CaptureSnapshot(p) ==
  /\ pc[p] = "waiting"
  /\ lane.active.owner = p
  /\ pc' = [pc EXCEPT ![p] = "planning"]
  /\ snapshot' = [snapshot EXCEPT ![p] = Revision]
  /\ UNCHANGED <<lane, kind, done, owed>>

\* Works waiting in the lane.
Queued(l) == {w \in Works : \E i \in DOMAIN l.queue : l.queue[i] = Work(w)}

Checkpoint(p) == [kind |-> "checkpoint", who |-> p]

\* release() of an unbroken barrier: the checkpoint goes behind the queued works.
Unlocked_CheckpointFirst(l, p) ==
  [l EXCEPT !.queue = <<Checkpoint(p)>> \o @, !.held = FALSE, !.active.releasing = TRUE]

Unlocked_KeepsHeld(l, p) == [Append1(l, Checkpoint(p)) EXCEPT !.active.releasing = TRUE]

Unlocked(l, p) ==
  [Append1(l, Checkpoint(p)) EXCEPT !.held = FALSE, !.active.releasing = TRUE]

\* releasePlannerBarrier: the revision is compared, then the barrier released.
\* "mismatch" is the planner that is told its revision changed although its
\* barrier was not invalidated (dream.ts throws 'internal').
Release(p) ==
  /\ pc[p] = "planning"
  /\ IF lane.active.invalidated
     THEN /\ lane' = Drain(Retired(lane))
          /\ pc' = [pc EXCEPT ![p] = "aborted"]
          /\ UNCHANGED owed
     ELSE /\ lane' = Drain(Unlocked(lane, p))
          /\ pc' = [pc EXCEPT ![p] = IF snapshot[p] = Revision THEN "releasing" ELSE "mismatch"]
          /\ owed' = [owed EXCEPT ![p] = Queued(lane)]
  /\ UNCHANGED <<kind, done, snapshot>>

\* release() resolved: the planner goes on to decide and apply.
BeginApply(p) ==
  /\ pc[p] = "releasing"
  /\ lane.active.owner # p
  /\ pc' = [pc EXCEPT ![p] = "applying"]
  /\ UNCHANGED <<lane, kind, done, snapshot, owed>>

Next ==
  \/ \E w \in Works : Run(w) \/ RunForeground(w) \/ InvalidateForForeground(w)
  \/ FinishWork
  \/ \E p \in Planners : Acquire(p) \/ CaptureSnapshot(p) \/ Release(p) \/ BeginApply(p)

Spec == Init /\ [][Next]_vars

-----------------------------------------------------------------------------
TypeOK ==
  /\ lane \in Lane
  /\ kind \in [Works -> {"new", "ordinary", "foreground", "policy"}]
  /\ done \in SUBSET Works
  /\ pc \in [Planners -> {"idle", "rejected", "waiting", "planning", "releasing", "mismatch",
                          "aborted", "applying"}]
  /\ snapshot \in [Planners -> SUBSET Works]
  /\ owed \in [Planners -> SUBSET Works]

\* While a planner plans on a barrier nobody invalidated, the index is exactly
\* the one it captured: no pass ran, was running, or is running.
FixedRevision ==
  \A p \in Planners :
    (pc[p] = "planning" /\ ~lane.active.invalidated) =>
      /\ lane.active.owner = p
      /\ lane.held
      /\ lane.running = Nobody
      /\ snapshot[p] = Revision

\* runs.ts: "The barrier should make this invariant boring": the revision check
\* of releasePlannerBarrier never fails on a barrier that was not invalidated.
RevisionMatches == \A p \in Planners : pc[p] # "mismatch"

\* What the coordinator's private fields say together: a held barrier is the
\* active one, unbroken and unreleased, and holds a lane where nothing runs; at
\* most one barrier or checkpoint waits, only in a reserved lane, a barrier only
\* when none is active and a checkpoint only for the one being released. It is
\* what makes a single splice point, and a single re-drain, enough.
Marker(e) == e.kind \in {"barrier", "checkpoint"}

LaneInv(l) ==
  /\ l.held <=> (l.active # NoBarrier /\ ~l.active.invalidated /\ ~l.active.releasing)
  /\ l.held => l.running = Nobody
  /\ l.active # NoBarrier => l.reserved
  /\ l.active.releasing => ~l.active.invalidated
  /\ \A i \in DOMAIN l.queue :
       Marker(l.queue[i]) =>
         /\ l.reserved
         /\ \A j \in DOMAIN l.queue : Marker(l.queue[j]) => i = j
         /\ IF l.queue[i].kind = "barrier" THEN l.active = NoBarrier
            ELSE l.active.owner = l.queue[i].who /\ l.active.releasing

LaneConsistent == LaneInv(lane)

\* How a planner's state follows the barrier's: with LaneInv, the inductive
\* strengthening of FixedRevision and RevisionMatches.
PlannerInv ==
  \A p \in Planners :
    /\ pc[p] = "planning" => lane.active.owner = p /\ ~lane.active.releasing
    /\ pc[p] = "planning" /\ ~lane.active.invalidated => snapshot[p] = Revision
    /\ lane.active.owner = p /\ lane.active.releasing => pc[p] = "releasing"

IInv == TypeOK /\ LaneConsistent /\ PlannerInv /\ RevisionMatches

\* A foreground pass never waits behind a planner: while a barrier is held no
\* foreground pass is queued at all.
ForegroundNotHeld ==
  lane.held => \A i \in DOMAIN lane.queue :
                 lane.queue[i].kind = "work" => kind[lane.queue[i].who] = "ordinary"

\* A planner that goes on to apply has let every pass finish that was queued
\* while it planned.
OwedDone == \A p \in Planners : pc[p] = "applying" => owed[p] \subseteq done

\* The reservation belongs to one planner and ends with it; no path leaks it.
ReservedByOne ==
  LET holders == {p \in Planners : pc[p] \in {"waiting", "planning"}
                                     \/ lane.active.owner = p}
  IN /\ lane.reserved <=> holders # {}
     /\ \A p, q \in holders : p = q

\* The lane never idles with work it could run.
NeverIdle == Stopped(lane)

\* A release drains exactly what was queued behind the barrier: in a releasing
\* planner's lane no pass starts that was requested after release() was called,
\* until the checkpoint is reached.
DrainIsExact ==
  [][\A p \in Planners :
       (pc[p] = "releasing" /\ lane.active.owner = p /\ lane'.active.owner = p
          /\ lane'.running # lane.running) => lane'.running \in owed[p] \cup {Nobody}]_vars

-----------------------------------------------------------------------------
\* A pass settles, and promise continuations run. The planner may take for ever.
Fairness ==
  /\ WF_vars(FinishWork)
  /\ \A p \in Planners : WF_vars(CaptureSnapshot(p)) /\ WF_vars(BeginApply(p))

FairSpec == Spec /\ Fairness

\* A foreground pass completes even if the planner never releases its barrier.
ForegroundCompletes == \A w \in Works : kind[w] = "foreground" ~> w \in done

\* release() resolves even if passes keep being requested.
ReleaseResolves == \A p \in Planners : pc[p] = "releasing" ~> pc[p] = "applying"

\* Every planner phase ends, and dream.ts releases on every path.
PlannersRelease == \A p \in Planners : WF_vars(Release(p))

\* Background passes all complete once planners release.
OrdinaryCompletes == PlannersRelease => \A w \in Works : kind[w] = "ordinary" ~> w \in done

\* A planner that asked for the barrier gets it.
AcquireResolves == PlannersRelease => \A p \in Planners : pc[p] = "waiting" ~> pc[p] # "waiting"
=============================================================================
