------------------------------ MODULE DreamRun ------------------------------
(***************************************************************************)
(* Dream runs (core/src/maintenance/dream.ts, runs.ts, recovery.ts) over    *)
(* one maintenance plan: a run claims its receipt, has the curator decide   *)
(* the plan's automatic items, applies what is approved, and ends by        *)
(* recording how each item came out, which may pause automatic maintenance  *)
(* until a person resumes it. Receipts and pauses are rows; which runs a    *)
(* process owns, and where a run stands, die with the process.              *)
(***************************************************************************)
EXTENDS MaintenancePlan

CONSTANTS
  Runs,
  EarlierRollbacks,  \* the streak of the automatic items' transform before these runs
  PauseThreshold     \* MAINTENANCE_ROLLBACK_PAUSE_THRESHOLD

ASSUME DreamAssumption == EarlierRollbacks \in Nat /\ PauseThreshold \in Nat \ {0}

VARIABLES
  runs,      \* maintenance_runs.status of each run
  owned,     \* ownedRunIds
  dream,     \* the run in progress
  recovery,  \* maintenance_recovery_state
  counted    \* items whose outcome is recorded (recovery_recorded_at)

dreamVars == <<runs, owned, dream, recovery, counted>>
vars == <<planVars, dreamVars>>

\* off: the transform was paused when the run began; reported: the plan is the
\* run's; touched: the check deferred an item of it; unproven: the final verification
\* found a file that no longer is what the run wrote; base: the items' changes when the
\* run began; todo: items still to do in this phase.
NoDream == [pc |-> "none", run |-> "none", off |-> FALSE, reported |-> FALSE, touched |-> FALSE,
            unproven |-> FALSE, base |-> [i \in Items |-> 0], todo |-> {}]

DreamInit ==
  /\ Init
  /\ runs = [d \in Runs |-> "new"]
  /\ owned = {}
  /\ dream = NoDream
  /\ recovery = [profile |-> FALSE, streak |-> EarlierRollbacks, paused |-> FALSE]
  /\ counted = {}

Busy == Working \/ dream.pc # "none"

-----------------------------------------------------------------------------
Recovered_IgnoresOwners(live) ==
  [d \in Runs |-> IF runs[d] = "running" THEN "failed" ELSE runs[d]]

\* recoverInterruptedDreamRuns: the rows of no live run of this process have failed.
Recovered(live) ==
  [d \in Runs |-> IF runs[d] = "running" /\ d \notin live THEN "failed" ELSE runs[d]]

Unavailable_Never == FALSE

\* assertProfileAutomaticApplyAvailable throws.
Unavailable == recovery.profile

\* beginDreamRun; a paused profile fails the run before it plans.
BeginRun(d) ==
  /\ runs[d] = "new"
  /\ IF \E e \in owned : runs[e] = "running"
     THEN runs' = Recovered(owned) /\ UNCHANGED <<owned, dream>>
     ELSE IF Unavailable
     THEN runs' = [Recovered(owned) EXCEPT ![d] = "failed"] /\ UNCHANGED <<owned, dream>>
     ELSE /\ runs' = [Recovered(owned) EXCEPT ![d] = "running"]
          /\ owned' = owned \cup {d}
          /\ dream' = [NoDream EXCEPT !.pc = "planning", !.run = d, !.off = recovery.paused,
                                      !.base = [i \in Items |-> item[i].change]]
  /\ UNCHANGED <<planVars, recovery, counted>>

\* Another handle of the process opens the knowledge base.
Reopen ==
  /\ runs' = Recovered(owned)
  /\ UNCHANGED <<planVars, owned, dream, recovery, counted>>

Proposed(rows) == {i \in AutoItems : rows[i].status = "proposed"}

Pending(rows) == Proposed(rows) \cup {i \in Items : rows[i].status = "approved"}

Meet(i, j) == PathsOf(i) \cap PathsOf(j) # {}

\* Of the pending items 1 .. n, in order, those that share no file with one that may
\* have been written already, nor with one before them that is kept.
Spared[rows \in [Items -> Row], n \in 0 .. Len(Ops)] ==
  IF n = 0 THEN {}
  ELSE IF /\ n \in Pending(rows)
          /\ \A j \in Items : rows[j].status \in Recovery => ~Meet(j, n)
          /\ \A j \in Spared[rows, n - 1] : ~Meet(j, n)
  THEN Spared[rows, n - 1] \cup {n} ELSE Spared[rows, n - 1]

\* findMaintenanceDependencyConflicts, among the files of the items.
Conflicting(rows) == Pending(rows) \ Spared[rows, Len(Ops)]

\* blockMaintenanceDependencies.
Deferred(rows) == [i \in Items |->
  IF i \in Conflicting(rows) THEN [rows[i] EXCEPT !.status = "blocked", !.over = FALSE] ELSE rows[i]]

\* Items in conflict are blocked, and then the curator is asked when an automatic item
\* waits for it; else the items are applied. settled: the plan's status before.
Curate(rows, settled) ==
  LET status == IF Conflicting(rows) # {} THEN StatusAfterDecision(Deferred(rows)) ELSE settled IN
  /\ item' = Deferred(rows)
  /\ IF Proposed(item') # {}
     THEN plan' = "deciding" /\ dream' = [dream EXCEPT !.pc = "curating", !.todo = Proposed(item'), !.touched = FALSE]
     ELSE plan' = status /\ dream' = [dream EXCEPT !.pc = "applying", !.todo = Items, !.touched = FALSE]

\* The plan is taken up if it still has work, and its automatic items are then
\* checked before the curator is asked.
Plan ==
  LET active == Finalized \notin Terminal /\ ~dream.off
                /\ \E i \in Items : item[i].status \in Open \cup {"proposed"}
  IN
  /\ dream.pc = "planning"
  /\ plan' = Finalized
  /\ dream' = IF ~active THEN [dream EXCEPT !.pc = "ending"]
              ELSE [dream EXCEPT !.pc = "settling", !.reported = TRUE, !.todo = Proposed(item)]
  /\ slips' = HiddenBy(plan', item)
  /\ UNCHANGED <<disk, item, changes, call, draft, trouble, assent, blame, late, torn>>
  /\ UNCHANGED <<runs, owned, recovery, counted>>

\* Somebody else has decided, applied or revised the item since the run listed it.
Crossed(i) == IF item[i].status \in Decidable THEN blame ELSE blame \cup {i}

\* deferStaleMaintenanceItems, an item at a time; the row of a deferred or blocked
\* item is written over.
Settle ==
  /\ dream.pc = "settling"
  /\ dream.todo # {}
  /\ LET i == Min(dream.todo)
         ready == All(i, item[i].rev, "before")
     IN \E deferred \in BOOLEAN :
        LET rows == IF ~deferred THEN item
                    ELSE IF ready THEN Blocked(i) ELSE Marked(i, "stale", "failed")
        IN
        /\ ~deferred => ready
        /\ IF deferred /\ ready THEN Fault ELSE UNCHANGED trouble
        /\ blame' = IF deferred THEN Crossed(i) ELSE blame
        /\ IF dream.todo = {i}
           THEN Curate(rows, IF deferred \/ dream.touched THEN StatusAfterDecision(rows) ELSE plan)
           ELSE /\ dream' = [dream EXCEPT !.todo = dream.todo \ {i}, !.touched = deferred \/ dream.touched]
                /\ item' = rows
                /\ UNCHANGED plan
  /\ slips' = HiddenBy(plan', item')
  /\ UNCHANGED <<disk, changes, call, draft, assent, late, torn>>
  /\ UNCHANGED <<runs, owned, recovery, counted>>

SettleNothing ==
  /\ dream.pc = "settling"
  /\ dream.todo = {}
  /\ Curate(item, plan)
  /\ slips' = IF plan' = plan THEN slips ELSE HiddenBy(plan', item')
  /\ UNCHANGED <<disk, changes, call, draft, trouble, assent, blame, late, torn>>
  /\ UNCHANGED <<runs, owned, recovery, counted>>

-----------------------------------------------------------------------------
(* The curator: decideMaintenancePlanWithCurator *)

Curated == Min(dream.todo)

AskingCurator == dream.pc = "curating" /\ draft["curator"] = NoDraft

\* The next item, or the items are applied.
CuratorDone ==
  dream' = IF dream.todo = {Curated} THEN [dream EXCEPT !.pc = "applying", !.todo = Items]
           ELSE [dream EXCEPT !.todo = dream.todo \ {Curated}]

\* An answer on an item that can no longer be decided throws: see Fail.
CuratorDecides(status) ==
  /\ AskingCurator
  /\ Decide(Curated, status, "curator")
  /\ CuratorDone
  /\ UNCHANGED <<runs, owned, recovery, counted>>

\* No answer, an invalid one or a refused revision blocks the item whatever it is by now.
CuratorBlocks ==
  /\ dream.pc = "curating"
  /\ draft["curator"] # NoDraft => SealRefused("curator")
  /\ item' = Blocked(Curated)
  /\ blame' = Crossed(Curated)
  /\ CuratorDone
  /\ plan' = IF dream.todo = {Curated} THEN StatusAfterDecision(item') ELSE plan
  /\ slips' = HiddenBy(plan', item')
  /\ draft' = [draft EXCEPT !["curator"] = NoDraft]
  /\ UNCHANGED <<disk, changes, call, trouble, assent, late, torn>>
  /\ UNCHANGED <<runs, owned, recovery, counted>>

CuratorRevises ==
  /\ AskingCurator
  /\ item[Curated].rev < MaxRevision
  /\ Revisable(Curated)
  /\ draft' = [draft EXCEPT !["curator"] = [at |-> Curated, row |-> item[Curated]]]
  /\ UNCHANGED <<disk, plan, item, changes, call, trouble, history>>
  /\ UNCHANGED dreamVars

\* The sealed revision goes before the curator again.
CuratorSeals ==
  /\ draft["curator"] # NoDraft
  /\ ~SealRefused("curator")
  /\ Redecide(Revised(draft["curator"].at))
  /\ blame' = Late("curator")
  /\ assent' = [assent EXCEPT ![draft["curator"].at] = 0]
  /\ draft' = [draft EXCEPT !["curator"] = NoDraft]
  /\ UNCHANGED <<disk, changes, call, trouble, late, torn>>
  /\ UNCHANGED dreamVars

-----------------------------------------------------------------------------
(* decideAndApplyPlannedPhases, and the end of the run *)

\* Each open item is applied by a call of its own under the run's budget; a plan that
\* can no longer be applied throws.
ApplyNext ==
  /\ dream.pc = "applying"
  /\ call[Dreamer].pc = "idle"
  /\ LET open == {i \in dream.todo : item[i].status \in Open}
     IN IF open = {} THEN dream' = [dream EXCEPT !.pc = "ending"] /\ UNCHANGED <<plan, call>>
        ELSE /\ Begin(Dreamer, {Min(open)})
             /\ dream' = [dream EXCEPT !.todo = {i \in dream.todo : i > Min(open)}]
  /\ UNCHANGED <<disk, item, changes, draft, trouble, history>>
  /\ UNCHANGED <<runs, owned, recovery, counted>>

\* What the recorded outcomes amount to.
Outcomes_CountedAgain == IF dream.reported
            THEN {i \in Items : item[i].status \in {"applied", "verification_failed"}} ELSE {}

Outcomes == IF dream.reported
            THEN {i \in Items \ counted : item[i].status \in {"applied", "verification_failed"}} ELSE {}

Rollbacks == {i \in Outcomes \cap AutoItems : item[i].status = "verification_failed" /\ item[i].proof = "rolled_back"}
Successes == {i \in Outcomes \cap AutoItems : item[i].status = "applied" /\ item[i].proof = "passed"}
Uncertain == {i \in Outcomes : item[i].status = "verification_failed" /\ item[i].proof = "failed"}

\* recordMaintenanceRecovery.
RecordRecovery(unproven) ==
  /\ counted' = counted \cup Outcomes
  /\ LET n == recovery.streak + Cardinality(Rollbacks) IN
     recovery' =
       [profile |-> recovery.profile \/ unproven \/ Uncertain # {},
        streak  |-> IF Rollbacks # {} THEN n
                    ELSE IF Successes # {} /\ ~recovery.paused THEN 0 ELSE recovery.streak,
        paused  |-> recovery.paused \/ (Rollbacks # {} /\ n >= PauseThreshold)]

Current(i) == item[i].status = "applied" /\ item[i].change # dream.base[i]

\* supersededAppliedPaths.
Superseded(i) == UNION {PathsOf(j) : j \in {l \in Items : Current(l) /\ item[l].change > item[i].change}}

Unproven == dream.reported /\ \E i \in Items :
  Current(i) /\ ~(PathsOf(i) \subseteq Superseded(i)) /\ ~All(i, item[i].rev, "after")

\* verifyDreamRun.
VerifyRun ==
  /\ dream.pc = "ending"
  /\ dream' = [dream EXCEPT !.pc = "verified", !.unproven = Unproven]
  /\ UNCHANGED <<planVars, runs, owned, recovery, counted>>

\* The outcomes are recorded before the log is written, which takes its time.
RecordOutcomes ==
  /\ dream.pc = "verified"
  /\ RecordRecovery(dream.unproven)
  /\ dream' = [dream EXCEPT !.pc = "recorded"]
  /\ UNCHANGED <<planVars, runs, owned>>

\* The run is over; with failing statements its row keeps the status it has.
Over(rows) ==
  /\ runs' = rows
  /\ owned' = owned \ {dream.run}
  /\ dream' = NoDream
  /\ call' = [call EXCEPT ![Dreamer] = Idle]

\* persistFinished.
Finished(status) == [runs EXCEPT ![dream.run] = status]

\* completeDreamRun.
Complete ==
  /\ dream.pc = "recorded"
  /\ Over(Finished("completed"))
  /\ UNCHANGED <<disk, plan, item, changes, draft, trouble, history, recovery, counted>>

\* failDreamRun, then recordMaintenanceRecovery, although it may have been called
\* before: foreground work that took the planner's barrier, or anything that throws,
\* fails the run wherever it stands. Either of the two may fail itself, and then the
\* outcomes go unrecorded.
Fail ==
  /\ dream.pc # "none"
  /\ call[Dreamer].pc \in {"idle", "thrown"}
  /\ \/ Over(Finished("failed")) /\ RecordRecovery(dream.unproven) /\ UNCHANGED trouble
     \/ \E rows \in {runs, Finished("failed")} : Over(rows) /\ Fault /\ UNCHANGED <<recovery, counted>>
  /\ draft' = [draft EXCEPT !["curator"] = NoDraft]
  /\ UNCHANGED <<disk, plan, item, changes, history>>

\* resumeMaintenanceRecovery.
ResumeProfile ==
  /\ recovery.profile
  /\ recovery' = [recovery EXCEPT !.profile = FALSE]
  /\ UNCHANGED <<planVars, runs, owned, dream, counted>>

ResumeTransform ==
  /\ recovery.streak > 0
  /\ recovery' = [recovery EXCEPT !.streak = 0, !.paused = FALSE]
  /\ UNCHANGED <<planVars, runs, owned, dream, counted>>

\* The process dies and the knowledge base is opened again. With nothing under way
\* that changes nothing.
Crash ==
  /\ Busy
  /\ Died
  /\ owned' = {}
  /\ runs' = Recovered({})
  /\ dream' = NoDream
  /\ UNCHANGED <<recovery, counted>>

DreamStep ==
  \/ \E d \in Runs : BeginRun(d)
  \/ Reopen
  \/ Plan \/ Settle \/ SettleNothing
  \/ \E s \in {"approved", "rejected"} : CuratorDecides(s)
  \/ CuratorBlocks \/ CuratorRevises \/ CuratorSeals
  \/ ApplyNext \/ VerifyRun \/ RecordOutcomes \/ Complete \/ Fail

Next ==
  \/ PlanNext(Busy) /\ UNCHANGED dreamVars
  \/ DreamStep
  \/ ResumeProfile \/ ResumeTransform
  \/ Crash

DreamSpec == DreamInit /\ [][Next]_vars

-----------------------------------------------------------------------------
DreamType == [
  pc : {"none", "planning", "settling", "curating", "applying", "ending", "verified", "recorded"},
  run : Runs \cup {NoDream.run}, off : BOOLEAN, reported : BOOLEAN, touched : BOOLEAN, unproven : BOOLEAN,
  base : [Items -> Nat], todo : SUBSET Items]

\* The types of the rows of the runs and of their outcomes.
DreamTypeOK ==
  /\ TypeOK
  /\ runs \in [Runs -> {"new", "running", "completed", "failed"}]
  /\ owned \subseteq Runs
  /\ dream \in DreamType
  /\ recovery \in [profile : BOOLEAN, streak : Nat, paused : BOOLEAN]
  /\ counted \subseteq Items

\* A run has one outcome: a run that another invocation or a restart took for
\* abandoned does not go on to finish.
RunOutcomeOnce == [][\A d \in Runs : runs[d] \in {"completed", "failed"} => runs'[d] = runs[d]]_vars

\* The streak that pauses automatic maintenance of a transform counts an item that
\* was rolled back once, although its outcome is recorded at the end of a run, again
\* when the run then throws, and by every later run that takes the plan up; and it
\* counts none whose change the journal has not reversed.
PausesAreEarned == recovery.streak <= EarlierRollbacks +
  Cardinality({i \in AutoItems : \E n \in DOMAIN changes : changes[n].item = i /\ changes[n].undone})

\* While automatic maintenance is paused no run applies anything: none that began
\* before the pause is still at it.
NoWriteWhilePaused == recovery.profile => call[Dreamer].pc \in {"idle", "thrown"}
=============================================================================
