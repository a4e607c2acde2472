--------------------------- MODULE MutationReceipts ---------------------------
(***************************************************************************)
(* Replay-safe mutations (core/src/write/mutation-receipts.ts): a caller's  *)
(* idempotency key is bound to its request before the first effect, and a   *)
(* completed request is answered again without being applied again. Calls   *)
(* run concurrently; the process may die at any await and be started again, *)
(* and may open the same knowledge base a second time while calls run.      *)
(*                                                                          *)
(* A step between two awaits is one action; so is a SQLite transaction.     *)
(***************************************************************************)
EXTENDS Naturals

CONSTANTS
  Keys,       \* idempotency keys, with their actor and operation
  Requests,   \* canonical requests: equal ones hash alike
  Calls,      \* concurrent calls of executeReplaySafeMutation
  Nothing,    \* the absence of a request
  MaxCrashes  \* bound: crashes of the process

ASSUME ReceiptAssumption == Nothing \notin Requests /\ MaxCrashes \in Nat

VARIABLES
  receipts,   \* mutation_receipts, by key
  active,     \* activeReceipts of the living process
  calls,      \* where each call is, and what the last one answered
  up,         \* whether the process has the knowledge base open for writing
  crashes,
  effects,    \* history: how often a request under the key changed files
  journal,    \* history: journal changes recorded under the key
  undone      \* history: keys whose journal change was undone

vars == <<receipts, active, calls, up, crashes, effects, journal, undone>>

NoReceipt == [state |-> "none", request |-> Nothing, change |-> FALSE]

\* change tells whether change_id is set.
Receipt == {NoReceipt} \cup
  [state : {"reserved", "running", "committed", "completed", "interrupted"},
   request : Requests, change : BOOLEAN]

\* "working" has not crossed the mutation boundary, "running" has, "wrote" has
\* changed files and "recorded" has its journal change.
Started == {"running", "wrote", "recorded"}

InFlight == {c \in Calls : calls[c].pc # "idle"}

\* The row a statement of this call matches: key and request hash.
Row(c) == receipts[calls[c].key]

Matches(c, states) == Row(c).request = calls[c].request /\ Row(c).state \in states

-----------------------------------------------------------------------------
Init ==
  /\ receipts = [k \in Keys |-> NoReceipt]
  /\ active = {}
  /\ \E k \in Keys, r \in Requests :
       calls = [c \in Calls |-> [pc |-> "idle", key |-> k, request |-> r, answer |-> "none"]]
  /\ up = TRUE
  /\ crashes = 0
  /\ effects = [k \in Keys |-> 0]
  /\ journal = [k \in Keys |-> 0]
  /\ undone = {}

\* What an existing row answers: a changed request, a replay, a live call, or
\* an interruption the caller has to look at.
Refusal(k, r) ==
  IF receipts[k].request # r THEN "conflict"
  ELSE IF receipts[k].state = "completed" THEN "replayed"
  ELSE IF k \in active THEN "busy" ELSE "interrupted"

Start(c, k, r) ==
  /\ up
  /\ calls[c].pc = "idle"
  /\ IF receipts[k].state # "none"
     THEN /\ calls' = [calls EXCEPT ![c] = [pc |-> "idle", key |-> k, request |-> r,
                                           answer |-> Refusal(k, r)]]
          /\ UNCHANGED <<receipts, active>>
     ELSE /\ calls' = [calls EXCEPT ![c] = [pc |-> "working", key |-> k, request |-> r,
                                           answer |-> "none"]]
          /\ receipts' = [receipts EXCEPT ![k] =
               [state |-> "reserved", request |-> r, change |-> FALSE]]
          /\ active' = active \cup {k}
  /\ UNCHANGED <<up, crashes, effects, journal, undone>>

\* The call returns or throws: finally takes the key out of the active set.
\* Wrong, and used by nothing: only a call that returns takes it out.
Return_KeepsActive(c, answer, row) ==
  /\ calls' = [calls EXCEPT ![c].pc = "idle", ![c].answer = answer]
  /\ receipts' = [receipts EXCEPT ![calls[c].key] = row]
  /\ active' = IF answer = "failed" THEN active ELSE active \ {calls[c].key}

Return(c, answer, row) ==
  /\ calls' = [calls EXCEPT ![c].pc = "idle", ![c].answer = answer]
  /\ receipts' = [receipts EXCEPT ![calls[c].key] = row]
  /\ active' = active \ {calls[c].key}

\* deleteReceipt.
Deleted(c) == IF Row(c).request = calls[c].request THEN NoReceipt ELSE Row(c)

\* The catch block after the mutation boundary.
\* Wrong, and used by nothing: the change is forgotten with the result.
Interrupted_DropsChange(c) ==
  IF Matches(c, {"running", "committed"})
  THEN [Row(c) EXCEPT !.state = "interrupted", !.change = FALSE] ELSE Row(c)

Interrupted(c) ==
  IF Matches(c, {"running", "committed"}) THEN [Row(c) EXCEPT !.state = "interrupted"] ELSE Row(c)

\* The throw of a call, on either side of the boundary.
\* Wrong, and used by nothing: the receipt of a started call is released too.
Throw_Releases(c) == Return(c, "failed", Deleted(c))

Throw(c) == Return(c, "failed", IF calls[c].pc \in Started THEN Interrupted(c) ELSE Deleted(c))

\* The operation returns requires_folder, requires_approval or conflict before
\* it changes anything, and the key is free again.
Precondition(c) ==
  /\ calls[c].pc = "working"
  /\ Return(c, "precondition", Deleted(c))
  /\ UNCHANGED <<up, crashes, effects, journal, undone>>

\* Any await of the operation throws.
Fail(c) ==
  /\ calls[c].pc \in {"working"} \cup Started
  /\ Throw(c)
  /\ UNCHANGED <<up, crashes, effects, journal, undone>>

\* beginMutation: the durable boundary.
Begin(c) ==
  /\ calls[c].pc = "working"
  /\ IF Matches(c, {"reserved"})
     THEN /\ receipts' = [receipts EXCEPT ![calls[c].key].state = "running"]
          /\ calls' = [calls EXCEPT ![c].pc = "running"]
          /\ UNCHANGED active
     ELSE Throw(c)
  /\ UNCHANGED <<up, crashes, effects, journal, undone>>

\* The first file the operation changes.
Write(c) ==
  /\ calls[c].pc = "running"
  /\ calls' = [calls EXCEPT ![c].pc = "wrote"]
  /\ effects' = [effects EXCEPT ![calls[c].key] = @ + 1]
  /\ UNCHANGED <<receipts, active, up, crashes, journal, undone>>

\* Journal.record commits the receipt in the transaction of its change.
Record(c) ==
  /\ calls[c].pc = "wrote"
  /\ IF Matches(c, {"running"})
     THEN /\ receipts' = [receipts EXCEPT ![calls[c].key] =
               [@ EXCEPT !.state = "committed", !.change = TRUE]]
          /\ calls' = [calls EXCEPT ![c].pc = "recorded"]
          /\ journal' = [journal EXCEPT ![calls[c].key] = @ + 1]
          /\ UNCHANGED active
     ELSE Throw(c) /\ UNCHANGED journal
  /\ UNCHANGED <<up, crashes, effects, undone>>

\* assertJournalCommit, for a call that crossed the boundary.
Committed_Unchecked(c) == TRUE \* Wrong, and used by nothing.

Committed(c) == calls[c].pc \in Started => Row(c).state = "committed"

\* The operation returns: a dry run or a no-op never started.
Complete(c) ==
  /\ calls[c].pc \in {"working"} \cup Started
  /\ IF Committed(c) /\ Matches(c, {"reserved", "running", "committed"})
     THEN Return(c, "ok", [Row(c) EXCEPT !.state = "completed"])
     ELSE Throw(c)
  /\ UNCHANGED <<up, crashes, effects, journal, undone>>

-----------------------------------------------------------------------------
\* recoverInterruptedMutationReceipts, when a writer opens the knowledge base:
\* after a crash, or a second handle of the living process.
\* Wrong, and used by nothing: the live calls are not asked for.
Recovered_IgnoresActive(k) ==
  CASE receipts[k].state = "reserved" -> NoReceipt
    [] receipts[k].state \in {"running", "committed"} ->
         [receipts[k] EXCEPT !.state = "interrupted"]
    [] OTHER -> receipts[k]

Recovered(k) ==
  CASE k \in active -> receipts[k]
    [] k \notin active /\ receipts[k].state = "reserved" -> NoReceipt
    [] k \notin active /\ receipts[k].state \in {"running", "committed"} ->
         [receipts[k] EXCEPT !.state = "interrupted"]
    [] OTHER -> receipts[k]

Open ==
  /\ up' = TRUE
  /\ receipts' = [k \in Keys |-> Recovered(k)]
  /\ UNCHANGED <<active, calls, crashes, effects, journal, undone>>

\* The process dies: calls and the active set are gone, the rows are not.
Crash ==
  /\ up
  /\ crashes < MaxCrashes
  /\ crashes' = crashes + 1
  /\ up' = FALSE
  /\ active' = {}
  /\ calls' = [c \in Calls |-> IF calls[c].pc = "idle" THEN calls[c]
                               ELSE [calls[c] EXCEPT !.pc = "idle", !.answer = "lost"]]
  /\ UNCHANGED <<receipts, effects, journal, undone>>

\* ops/undo.ts reverses the change; no statement of it touches the receipt.
Undo(k) ==
  /\ up
  /\ journal[k] > 0
  /\ undone' = undone \cup {k}
  /\ UNCHANGED <<receipts, active, calls, up, crashes, effects, journal>>

Next ==
  \/ \E c \in Calls :
       \/ \E k \in Keys, r \in Requests : Start(c, k, r)
       \/ Precondition(c) \/ Fail(c) \/ Begin(c) \/ Write(c) \/ Record(c) \/ Complete(c)
  \/ \E k \in Keys : Undo(k)
  \/ Open
  \/ Crash

Spec == Init /\ [][Next]_vars

-----------------------------------------------------------------------------
Answers == {"none", "ok", "replayed", "busy", "conflict", "interrupted", "precondition",
            "failed", "lost"}

\* A receipt has a change exactly when the journal recorded one under its key.
TypeOK ==
  /\ receipts \in [Keys -> Receipt]
  /\ active \subseteq Keys
  /\ calls \in [Calls -> [pc : {"idle", "working"} \cup Started, key : Keys,
                          request : Requests, answer : Answers]]
  /\ up \in BOOLEAN
  /\ crashes \in 0..MaxCrashes
  /\ effects \in [Keys -> Nat]
  /\ journal \in [Keys -> Nat]
  /\ undone \subseteq Keys
  /\ \A k \in Keys : receipts[k].change <=> journal[k] > 0

\* However calls, retries, crashes and second handles interleave, the requests
\* under one key change the knowledge base at most once.
AtMostOnce == \A k \in Keys : effects[k] <= 1

\* One call at a time works under a key, and the active set knows it.
OneLiveCall ==
  /\ active = {calls[c].key : c \in InFlight}
  /\ \A c, d \in InFlight : calls[c].key = calls[d].key => c = d

\* "Incomplete rows fail closed": once files may have changed the key keeps a
\* receipt, and only the very call that changed them is still answered "ok".
FailsClosed ==
  \A k \in Keys :
    effects[k] > 0 =>
      \/ receipts[k].state \in {"completed", "interrupted"}
      \/ /\ receipts[k].state \in {"running", "committed"}
         /\ up => \E c \in InFlight : calls[c].key = k /\ calls[c].pc \in {"wrote", "recorded"}

\* A success, first answer or replay, is never of files changed without a
\* journal change, and never of another request.
SuccessIsJournalled ==
  \A c \in Calls :
    calls[c].answer \in {"ok", "replayed"} =>
      /\ Row(c).state = "completed" /\ Row(c).request = calls[c].request
      /\ journal[calls[c].key] = effects[calls[c].key]

\* "A replay receipt is authority to skip the write. Once that write is undone,
\* keeping its receipt would make the identical retry claim success while
\* leaving the memory absent" (ops/undo.ts:20): no replay of an undone change.
ReplayKnowsUndo ==
  [][\A c \in Calls :
       (calls'[c].answer = "replayed" /\ calls'[c] # calls[c]) => calls'[c].key \notin undone]_vars
=============================================================================
