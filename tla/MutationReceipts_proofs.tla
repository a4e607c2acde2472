----------------------- MODULE MutationReceipts_proofs -----------------------
(***************************************************************************)
(* At-most-once application of keyed requests, for every number of keys,    *)
(* requests, calls and crashes. The inductive invariant says, for each call *)
(* in flight, how far its receipt, its effects and its journal change have  *)
(* come, and for each key without a call what a receipt there can stand for.*)
(***************************************************************************)
EXTENDS MutationReceipts, TLAPS

\* What the receipt, the effects and the journal of a call in flight are.
Fits(c) ==
  LET k == calls[c].key IN
  /\ k \in active
  /\ receipts[k].request = calls[c].request
  /\ calls[c].answer = "none"
  /\ calls[c].pc = "working"  => receipts[k].state = "reserved" /\ effects[k] = 0 /\ journal[k] = 0
  /\ calls[c].pc = "running"  => receipts[k].state = "running" /\ effects[k] = 0 /\ journal[k] = 0
  /\ calls[c].pc = "wrote"    => receipts[k].state = "running" /\ effects[k] = 1 /\ journal[k] = 0
  /\ calls[c].pc = "recorded" => receipts[k].state = "committed" /\ effects[k] = 1 /\ journal[k] = 1

CallFits == \A c \in InFlight : Fits(c)

\* What a receipt says of its key, whether or not a call works under it.
RowFits ==
  \A k \in Keys :
    /\ effects[k] <= 1 /\ journal[k] <= effects[k]
    /\ receipts[k].state \in {"none", "reserved"} => effects[k] = 0
    /\ receipts[k].state = "completed" => journal[k] = effects[k]
    /\ (up /\ k \notin active) => receipts[k].state \in {"none", "completed", "interrupted"}

\* Calls live in a living process.
DownIsQuiet == ~up => InFlight = {}

IInv == TypeOK /\ OneLiveCall /\ CallFits /\ RowFits /\ DownIsQuiet /\ SuccessIsJournalled

-----------------------------------------------------------------------------
\* A call in flight is its key's only one; its receipt is bound to its request.
LEMMA FlightFacts ==
  ASSUME IInv, NEW c \in InFlight
  PROVE  /\ c \in Calls /\ calls[c].key \in Keys /\ calls[c].key \in active
         /\ calls[c].pc \in {"working"} \cup Started
         /\ Row(c) \in Receipt /\ Row(c).state # "none" /\ Row(c).request = calls[c].request
         /\ Row(c).state \in {"reserved", "running", "committed"}
         /\ \A d \in InFlight : calls[d].key = calls[c].key => d = c
         /\ up
BY DEF IInv, TypeOK, OneLiveCall, CallFits, Fits, DownIsQuiet, InFlight, Row, Started, Receipt, NoReceipt

\* The three ways a call may leave its receipt: gone when nothing happened,
\* interrupted, or completed with every effect in the journal.
LeavesWell(c, answer, row) ==
  LET k == calls[c].key IN
  \/ row = NoReceipt /\ effects[k] = 0 /\ journal[k] = 0 /\ answer \in {"precondition", "failed"}
  \/ row = [Row(c) EXCEPT !.state = "interrupted"] /\ answer = "failed"
  \/ row = [Row(c) EXCEPT !.state = "completed"] /\ journal[k] = effects[k] /\ answer = "ok"

\* However it leaves, the invariant holds afterwards.
LEMMA ReturnKeepsInvariant ==
  ASSUME IInv, NEW c \in InFlight, NEW answer, NEW row,
         LeavesWell(c, answer, row), Return(c, answer, row),
         UNCHANGED <<up, crashes, effects, journal, undone>>
  PROVE  IInv'
<1>1. /\ c \in Calls /\ calls[c].key \in Keys /\ Row(c) \in Receipt /\ Row(c) # NoReceipt
      /\ calls[c].key \in active /\ up
      /\ \A d \in InFlight : calls[d].key = calls[c].key => d = c
  BY FlightFacts DEF NoReceipt
<1>2. row \in Receipt /\ answer \in Answers /\ (row.change <=> journal[calls[c].key] > 0)
  <2>1. /\ Row(c) \in [state : {"reserved", "running", "committed", "completed", "interrupted"},
                       request : Requests, change : BOOLEAN]
        /\ Row(c).change <=> journal[calls[c].key] > 0
    BY <1>1 DEF Receipt, IInv, TypeOK, Row
  <2>2. CASE row = NoReceipt /\ journal[calls[c].key] = 0 /\ answer \in {"precondition", "failed"}
    BY <2>2 DEF Receipt, NoReceipt, Answers
  <2>3. CASE row = [Row(c) EXCEPT !.state = "interrupted"] /\ answer = "failed"
    BY <2>1, <2>3 DEF Receipt, Answers
  <2>4. CASE row = [Row(c) EXCEPT !.state = "completed"] /\ answer = "ok"
    BY <2>1, <2>4 DEF Receipt, Answers
  <2> QED BY <2>2, <2>3, <2>4 DEF LeavesWell
<1>3. /\ calls' \in [Calls -> [pc : {"idle", "working"} \cup Started, key : Keys,
                               request : Requests, answer : Answers]]
      /\ calls'[c] = [calls[c] EXCEPT !.pc = "idle", !.answer = answer]
      /\ \A d \in Calls \ {c} : calls'[d] = calls[d]
  BY <1>1, <1>2 DEF IInv, TypeOK, Return
<1>4. /\ receipts'[calls[c].key] = row
      /\ \A k \in Keys \ {calls[c].key} : receipts'[k] = receipts[k]
      /\ receipts' \in [Keys -> Receipt]
  BY <1>1, <1>2 DEF IInv, TypeOK, Return
<1>5. InFlight' = InFlight \ {c} /\ active' = active \ {calls[c].key}
  BY <1>3 DEF InFlight, Return, IInv, TypeOK
<1>6. TypeOK'
  BY <1>1, <1>2, <1>3, <1>4, <1>5 DEF IInv, TypeOK
<1>7. OneLiveCall'
  BY <1>1, <1>3, <1>5 DEF IInv, OneLiveCall, InFlight
<1>8. CallFits'
  <2> SUFFICES ASSUME NEW d \in InFlight' PROVE Fits(d)'
    BY DEF CallFits
  <2>1. d \in InFlight /\ d # c /\ d \in Calls /\ calls[d].key \in Keys /\ calls[d].key # calls[c].key
    BY <1>1, <1>5 DEF InFlight, IInv, TypeOK
  <2>2. /\ calls'[d] = calls[d] /\ receipts'[calls[d].key] = receipts[calls[d].key]
        /\ calls[d].key \in active => calls[d].key \in active'
    BY <2>1, <1>3, <1>4, <1>5
  <2> QED
    BY <2>1, <2>2 DEF CallFits, Fits, IInv
<1>9. RowFits'
  BY <1>1, <1>2, <1>4, <1>5 DEF IInv, RowFits, TypeOK, LeavesWell, NoReceipt, Receipt, Row
<1>10. DownIsQuiet'
  BY <1>1 DEF DownIsQuiet
<1>11. SuccessIsJournalled'
  <2> SUFFICES ASSUME NEW d \in Calls, calls'[d].answer \in {"ok", "replayed"}
               PROVE  /\ receipts'[calls'[d].key].state = "completed"
                      /\ receipts'[calls'[d].key].request = calls'[d].request
                      /\ journal[calls'[d].key] = effects[calls'[d].key]
    BY DEF SuccessIsJournalled, Row
  <2>1. CASE d = c
    BY <2>1, <1>1, <1>3, <1>4, FlightFacts DEF LeavesWell, IInv, TypeOK, Receipt, NoReceipt
  <2>2. CASE d # c
    <3>1. Row(d).state = "completed" /\ calls[d].key \in Keys
      BY <2>2, <1>3 DEF IInv, SuccessIsJournalled, TypeOK
    <3>2. calls[d].key # calls[c].key
      BY <3>1, FlightFacts DEF Row
    <3> QED
      BY <2>2, <1>3, <1>4, <3>1, <3>2 DEF IInv, SuccessIsJournalled, Row
  <2> QED BY <2>1, <2>2
<1> QED
  BY <1>6, <1>7, <1>8, <1>9, <1>10, <1>11 DEF IInv

\* A throw leaves well on either side of the boundary.
LEMMA ThrowKeepsInvariant ==
  ASSUME IInv, NEW c \in InFlight, Throw(c),
         UNCHANGED <<up, crashes, effects, journal, undone>>
  PROVE  IInv'
<1> DEFINE k == calls[c].key
<1>1. Fits(c) /\ Row(c).request = calls[c].request
  BY FlightFacts DEF IInv, CallFits
<1>2. CASE calls[c].pc \in Started
  <2>1. Interrupted(c) = [Row(c) EXCEPT !.state = "interrupted"]
    BY <1>1, <1>2 DEF Interrupted, Matches, Fits, Started, Row
  <2>2. LeavesWell(c, "failed", Interrupted(c))
    BY <2>1 DEF LeavesWell
  <2> QED
    BY <1>2, <2>2, ReturnKeepsInvariant DEF Throw
<1>3. CASE calls[c].pc \notin Started
  <2>1. calls[c].pc = "working"
    BY <1>3, FlightFacts
  <2>2. LeavesWell(c, "failed", Deleted(c))
    BY <2>1, <1>1 DEF LeavesWell, Deleted, Fits
  <2> QED
    BY <1>3, <2>2, ReturnKeepsInvariant DEF Throw
<1> QED BY <1>2, <1>3

\* Every return of an operation leaves well, or throws.
LEMMA CompleteKeepsInvariant ==
  ASSUME IInv, NEW c \in Calls, Complete(c)
  PROVE  IInv'
<1>1. c \in InFlight /\ UNCHANGED <<up, crashes, effects, journal, undone>>
  BY DEF Complete, InFlight, Started
<1>2. CASE Throw(c)
  BY <1>1, <1>2, ThrowKeepsInvariant
<1>3. CASE /\ Committed(c)
           /\ Return(c, "ok", [Row(c) EXCEPT !.state = "completed"])
  <2>1. Fits(c) /\ calls[c].pc \in {"working"} \cup Started
    BY <1>1, FlightFacts DEF IInv, CallFits
  <2>2. calls[c].pc \in {"working", "recorded"}
    BY <2>1, <1>3 DEF Fits, Committed, Started, Row
  <2>3. journal[calls[c].key] = effects[calls[c].key]
    BY <2>1, <2>2 DEF Fits
  <2>4. LeavesWell(c, "ok", [Row(c) EXCEPT !.state = "completed"])
    BY <2>3 DEF LeavesWell
  <2> QED
    BY <1>1, <1>3, <2>4, ReturnKeepsInvariant
<1> QED
  BY <1>2, <1>3 DEF Complete

LEMMA PreconditionKeepsInvariant ==
  ASSUME IInv, NEW c \in Calls, Precondition(c)
  PROVE  IInv'
<1>1. c \in InFlight
  BY DEF Precondition, InFlight
<1>2. LeavesWell(c, "precondition", Deleted(c))
  BY <1>1, FlightFacts DEF LeavesWell, Deleted, IInv, CallFits, Fits, Precondition
<1> QED
  BY <1>1, <1>2, ReturnKeepsInvariant DEF Precondition

-----------------------------------------------------------------------------
\* A call moves on in flight: its own receipt and history move with it, and no
\* other key's do.
Moves(c, pc, row, e, j) ==
  /\ calls' = [calls EXCEPT ![c].pc = pc]
  /\ receipts' = [receipts EXCEPT ![calls[c].key] = row]
  /\ effects' = [effects EXCEPT ![calls[c].key] = e]
  /\ journal' = [journal EXCEPT ![calls[c].key] = j]
  /\ UNCHANGED <<active, up, crashes, undone>>
  /\ row \in Receipt /\ row.request = calls[c].request
  /\ \/ pc = "running" /\ row.state = "running" /\ ~row.change /\ e = 0 /\ j = 0
     \/ pc = "wrote" /\ row.state = "running" /\ ~row.change /\ e = 1 /\ j = 0
     \/ pc = "recorded" /\ row.state = "committed" /\ row.change /\ e = 1 /\ j = 1

LEMMA ProgressKeepsInvariant ==
  ASSUME IInv, NEW c \in InFlight, NEW pc, NEW row, NEW e, NEW j, Moves(c, pc, row, e, j)
  PROVE  IInv'
<1> USE DEF Moves
<1> DEFINE k == calls[c].key
<1>1. /\ c \in Calls /\ k \in Keys /\ k \in active /\ up
      /\ \A d \in InFlight : calls[d].key = k => d = c
  BY FlightFacts
<1>2. Fits(c)
  BY DEF IInv, CallFits
<1>3. /\ calls' \in [Calls -> [pc : {"idle", "working"} \cup Started, key : Keys,
                               request : Requests, answer : Answers]]
      /\ calls'[c] = [calls[c] EXCEPT !.pc = pc]
      /\ \A d \in Calls \ {c} : calls'[d] = calls[d]
      /\ InFlight' = InFlight
  BY <1>1 DEF IInv, TypeOK, InFlight, Started
<1>4. /\ receipts' \in [Keys -> Receipt] /\ effects' \in [Keys -> Nat] /\ journal' \in [Keys -> Nat]
      /\ receipts'[k] = row /\ effects'[k] = e /\ journal'[k] = j
      /\ \A l \in Keys \ {k} : /\ receipts'[l] = receipts[l]
                               /\ effects'[l] = effects[l] /\ journal'[l] = journal[l]
  BY <1>1 DEF IInv, TypeOK
<1>5. TypeOK'
  BY <1>1, <1>3, <1>4 DEF IInv, TypeOK
<1>6. OneLiveCall'
  <2>1. \A d \in Calls : calls'[d].key = calls[d].key
    BY <1>1, <1>3 DEF IInv, TypeOK
  <2> QED BY <1>3, <2>1 DEF IInv, OneLiveCall, InFlight
<1>7. CallFits'
  <2> SUFFICES ASSUME NEW d \in InFlight' PROVE Fits(d)'
    BY DEF CallFits
  <2>1. CASE d = c
    <3>1. /\ calls'[c].key = k /\ calls'[c].request = calls[c].request
          /\ calls'[c].answer = "none" /\ calls'[c].pc = pc
      BY <1>1, <1>2, <1>3 DEF Fits, IInv, TypeOK
    <3>2. k \in active' /\ receipts'[k] = row /\ effects'[k] = e /\ journal'[k] = j
      BY <1>1, <1>4
    <3> HIDE DEF k
    <3>3. Fits(c)'
      BY <3>1, <3>2 DEF Fits
    <3> QED BY <2>1, <3>3
  <2>2. CASE d # c
    <3>1. d \in InFlight /\ calls[d].key \in Keys /\ calls[d].key # k /\ calls'[d] = calls[d]
      BY <2>2, <1>1, <1>3 DEF InFlight, IInv, TypeOK
    <3>2. /\ receipts'[calls[d].key] = receipts[calls[d].key]
          /\ effects'[calls[d].key] = effects[calls[d].key]
          /\ journal'[calls[d].key] = journal[calls[d].key]
          /\ active' = active
      BY <3>1, <1>4
    <3>3. Fits(d)
      BY <3>1 DEF IInv, CallFits
    <3> QED BY <3>1, <3>2, <3>3 DEF Fits
  <2> QED BY <2>1, <2>2
<1>8. RowFits'
  BY <1>1, <1>4 DEF IInv, RowFits
<1>9. DownIsQuiet'
  BY <1>1 DEF DownIsQuiet
<1>10. SuccessIsJournalled'
  <2> SUFFICES ASSUME NEW d \in Calls, calls'[d].answer \in {"ok", "replayed"}
               PROVE  /\ receipts'[calls'[d].key].state = "completed"
                      /\ receipts'[calls'[d].key].request = calls'[d].request
                      /\ journal'[calls'[d].key] = effects'[calls'[d].key]
    BY DEF SuccessIsJournalled, Row
  <2>1. d # c
    BY <1>1, <1>2, <1>3 DEF Fits, IInv, TypeOK
  <2>2. Row(d).state = "completed" /\ calls[d].key \in Keys
    BY <2>1, <1>3 DEF IInv, SuccessIsJournalled, TypeOK
  <2>3. calls[d].key # k
    BY <2>2, FlightFacts DEF Row
  <2> QED
    BY <2>1, <2>2, <2>3, <1>3, <1>4 DEF IInv, SuccessIsJournalled, Row
<1> QED
  BY <1>5, <1>6, <1>7, <1>8, <1>9, <1>10 DEF IInv

LEMMA BeginKeepsInvariant ==
  ASSUME IInv, NEW c \in Calls, Begin(c)
  PROVE  IInv'
<1>1. c \in InFlight
  BY DEF Begin, InFlight
<1>2. CASE Throw(c)
  BY <1>1, <1>2, ThrowKeepsInvariant DEF Begin
<1>3. CASE /\ receipts' = [receipts EXCEPT ![calls[c].key].state = "running"]
           /\ calls' = [calls EXCEPT ![c].pc = "running"]
           /\ UNCHANGED active
  <2> DEFINE k == calls[c].key
             row == [Row(c) EXCEPT !.state = "running"]
  <2>1. /\ Fits(c) /\ k \in Keys /\ calls[c].pc = "working"
        /\ Row(c) \in Receipt /\ Row(c) # NoReceipt /\ Row(c).request = calls[c].request
    BY <1>1, FlightFacts DEF IInv, CallFits, Begin, NoReceipt
  <2>2. effects[k] = 0 /\ journal[k] = 0 /\ ~Row(c).change
    BY <2>1 DEF Fits, IInv, TypeOK, Receipt, Row
  <2>3. /\ receipts' = [receipts EXCEPT ![k] = row]
        /\ effects' = [effects EXCEPT ![k] = 0]
        /\ journal' = [journal EXCEPT ![k] = 0]
    BY <1>3, <2>1, <2>2 DEF Begin, Row, IInv, TypeOK
  <2>4. row \in Receipt /\ row.request = calls[c].request /\ ~row.change /\ row.state = "running"
    BY <2>1, <2>2 DEF Receipt
  <2> HIDE DEF row
  <2>5. Moves(c, "running", row, 0, 0)
    BY <1>3, <2>3, <2>4 DEF Begin, Moves
  <2> QED
    BY <1>1, <2>5, ProgressKeepsInvariant
<1> QED
  BY <1>2, <1>3 DEF Begin

LEMMA WriteKeepsInvariant ==
  ASSUME IInv, NEW c \in Calls, Write(c)
  PROVE  IInv'
<1> DEFINE k == calls[c].key
<1>1. c \in InFlight
  BY DEF Write, InFlight
<1>2. /\ Fits(c) /\ k \in Keys /\ calls[c].pc = "running"
      /\ Row(c) \in Receipt /\ Row(c).request = calls[c].request
  BY <1>1, FlightFacts DEF IInv, CallFits, Write
<1>3. effects[k] = 0 /\ journal[k] = 0 /\ Row(c).state = "running" /\ ~Row(c).change
  BY <1>2 DEF Fits, IInv, TypeOK, Receipt, NoReceipt, Row
<1>4. /\ receipts' = [receipts EXCEPT ![k] = Row(c)]
      /\ effects' = [effects EXCEPT ![k] = 1]
      /\ journal' = [journal EXCEPT ![k] = 0]
  BY <1>2, <1>3 DEF Write, Row, IInv, TypeOK
<1>5. Moves(c, "wrote", Row(c), 1, 0)
  BY <1>2, <1>3, <1>4 DEF Write, Moves
<1> QED
  BY <1>1, <1>5, ProgressKeepsInvariant

LEMMA RecordKeepsInvariant ==
  ASSUME IInv, NEW c \in Calls, Record(c)
  PROVE  IInv'
<1>1. c \in InFlight
  BY DEF Record, InFlight
<1>2. CASE Throw(c) /\ UNCHANGED journal
  BY <1>1, <1>2, ThrowKeepsInvariant DEF Record
<1>3. CASE /\ receipts' = [receipts EXCEPT ![calls[c].key] =
                                  [@ EXCEPT !.state = "committed", !.change = TRUE]]
           /\ calls' = [calls EXCEPT ![c].pc = "recorded"]
           /\ journal' = [journal EXCEPT ![calls[c].key] = @ + 1]
           /\ UNCHANGED active
  <2> DEFINE k == calls[c].key
             row == [Row(c) EXCEPT !.state = "committed", !.change = TRUE]
  <2>1. /\ Fits(c) /\ k \in Keys /\ calls[c].pc = "wrote"
        /\ Row(c) \in Receipt /\ Row(c) # NoReceipt /\ Row(c).request = calls[c].request
    BY <1>1, FlightFacts DEF IInv, CallFits, Record, NoReceipt
  <2>2. effects[k] = 1 /\ journal[k] = 0
    BY <2>1 DEF Fits
  <2>3. /\ receipts' = [receipts EXCEPT ![k] = row]
        /\ effects' = [effects EXCEPT ![k] = 1]
        /\ journal' = [journal EXCEPT ![k] = 1]
    BY <1>3, <2>1, <2>2 DEF Record, Row, IInv, TypeOK
  <2>4. row \in Receipt /\ row.request = calls[c].request /\ row.change /\ row.state = "committed"
    BY <2>1 DEF Receipt
  <2> HIDE DEF row
  <2>5. Moves(c, "recorded", row, 1, 1)
    BY <1>3, <2>3, <2>4 DEF Record, Moves
  <2> QED
    BY <1>1, <2>5, ProgressKeepsInvariant
<1> QED
  BY <1>2, <1>3 DEF Record

\* A call is refused, or binds a key that has no receipt and so no effect yet.
LEMMA StartKeepsInvariant ==
  ASSUME IInv, NEW c \in Calls, NEW k \in Keys, NEW r \in Requests, Start(c, k, r)
  PROVE  IInv'
<1>1. c \notin InFlight /\ up /\ UNCHANGED <<up, crashes, effects, journal, undone>>
  BY DEF Start, InFlight
<1>2. CASE /\ receipts[k].state # "none"
           /\ calls' = [calls EXCEPT ![c] = [pc |-> "idle", key |-> k, request |-> r,
                                             answer |-> Refusal(k, r)]]
           /\ UNCHANGED <<receipts, active>>
  <2>1. /\ Refusal(k, r) \in {"conflict", "replayed", "busy", "interrupted"}
        /\ Refusal(k, r) = "replayed" => receipts[k].state = "completed" /\ receipts[k].request = r
    BY DEF Refusal
  <2>2. /\ calls' \in [Calls -> [pc : {"idle", "working"} \cup Started, key : Keys,
                                 request : Requests, answer : Answers]]
        /\ calls'[c] = [pc |-> "idle", key |-> k, request |-> r, answer |-> Refusal(k, r)]
        /\ \A d \in Calls \ {c} : calls'[d] = calls[d]
    BY <1>2, <2>1 DEF IInv, TypeOK, Answers
  <2>3. InFlight' = InFlight
    BY <1>1, <2>2 DEF InFlight
  <2>4. TypeOK'
    BY <1>1, <1>2, <2>2 DEF IInv, TypeOK
  <2>5. OneLiveCall'
    BY <1>1, <1>2, <2>2, <2>3 DEF IInv, OneLiveCall, InFlight
  <2>6. CallFits'
    <3> SUFFICES ASSUME NEW d \in InFlight' PROVE Fits(d)'
      BY DEF CallFits
    <3>1. d \in InFlight /\ calls'[d] = calls[d]
      BY <1>1, <2>2, <2>3 DEF InFlight
    <3>2. Fits(d)
      BY <3>1 DEF IInv, CallFits
    <3> QED BY <1>1, <1>2, <3>1, <3>2 DEF Fits
  <2>7. RowFits' /\ DownIsQuiet'
    BY <1>1, <1>2, <2>3 DEF IInv, RowFits, DownIsQuiet
  <2>8. SuccessIsJournalled'
    BY <1>1, <1>2, <2>1, <2>2 DEF IInv, SuccessIsJournalled, RowFits, Row
  <2> QED BY <2>4, <2>5, <2>6, <2>7, <2>8 DEF IInv
<1>3. CASE /\ receipts[k].state = "none"
           /\ calls' = [calls EXCEPT ![c] = [pc |-> "working", key |-> k, request |-> r,
                                             answer |-> "none"]]
           /\ receipts' = [receipts EXCEPT ![k] = [state |-> "reserved", request |-> r, change |-> FALSE]]
           /\ active' = active \cup {k}
  <2>1. effects[k] = 0 /\ journal[k] = 0
    BY <1>3 DEF IInv, RowFits, TypeOK
  <2>2. \A d \in InFlight : calls[d].key # k
    BY <1>3, FlightFacts DEF Row
  <2>3. /\ calls' \in [Calls -> [pc : {"idle", "working"} \cup Started, key : Keys,
                                 request : Requests, answer : Answers]]
        /\ calls'[c] = [pc |-> "working", key |-> k, request |-> r, answer |-> "none"]
        /\ \A d \in Calls \ {c} : calls'[d] = calls[d]
    BY <1>3 DEF IInv, TypeOK, Answers
  <2>4. InFlight' = InFlight \cup {c}
    BY <1>1, <2>3 DEF InFlight
  <2>5. /\ receipts' \in [Keys -> Receipt]
        /\ receipts'[k] = [state |-> "reserved", request |-> r, change |-> FALSE]
        /\ \A l \in Keys \ {k} : receipts'[l] = receipts[l]
    BY <1>3 DEF IInv, TypeOK, Receipt
  <2>6. TypeOK'
    BY <1>1, <1>3, <2>1, <2>3, <2>5 DEF IInv, TypeOK
  <2>7. OneLiveCall'
    BY <1>1, <1>3, <2>2, <2>3, <2>4 DEF IInv, OneLiveCall, InFlight
  <2>8. CallFits'
    <3> SUFFICES ASSUME NEW d \in InFlight' PROVE Fits(d)'
      BY DEF CallFits
    <3>1. CASE d = c
      BY <1>1, <1>3, <2>1, <2>3, <2>5, <3>1 DEF Fits
    <3>2. CASE d # c
      <4>1. /\ d \in InFlight /\ calls[d].key \in Keys /\ calls[d].key # k /\ calls'[d] = calls[d]
        BY <2>2, <2>3, <2>4, <3>2 DEF InFlight, IInv, TypeOK
      <4>2. /\ receipts'[calls[d].key] = receipts[calls[d].key]
            /\ calls[d].key \in active => calls[d].key \in active'
        BY <1>3, <2>5, <4>1
      <4>3. Fits(d)
        BY <4>1 DEF IInv, CallFits
      <4> QED BY <1>1, <4>1, <4>2, <4>3 DEF Fits
    <3> QED BY <3>1, <3>2
  <2>9. RowFits' /\ DownIsQuiet'
    BY <1>1, <1>3, <2>1, <2>5 DEF IInv, RowFits, DownIsQuiet
  <2>10. SuccessIsJournalled'
    <3> SUFFICES ASSUME NEW d \in Calls, calls'[d].answer \in {"ok", "replayed"}
                 PROVE  /\ receipts'[calls'[d].key].state = "completed"
                        /\ receipts'[calls'[d].key].request = calls'[d].request
                        /\ journal[calls'[d].key] = effects[calls'[d].key]
      BY <1>1 DEF SuccessIsJournalled, Row
    <3>1. d # c /\ calls'[d] = calls[d] /\ calls[d].key \in Keys
      BY <2>3 DEF IInv, TypeOK
    <3>2. receipts[calls[d].key].state = "completed"
      BY <3>1 DEF IInv, SuccessIsJournalled, Row
    <3> QED BY <1>3, <2>5, <3>1, <3>2 DEF IInv, SuccessIsJournalled, Row
  <2> QED BY <2>6, <2>7, <2>8, <2>9, <2>10 DEF IInv
<1> QED BY <1>2, <1>3 DEF Start

-----------------------------------------------------------------------------
\* Recovery leaves the keys of live calls and the completed ones alone.
LEMMA OpenKeepsInvariant ==
  ASSUME IInv, Open
  PROVE  IInv'
<1>1. /\ receipts' = [k \in Keys |-> Recovered(k)]
      /\ up' = TRUE /\ UNCHANGED <<active, calls, crashes, effects, journal, undone>>
  BY DEF Open
<1>2. ASSUME NEW k \in Keys
      PROVE  /\ Recovered(k) \in Receipt
             /\ Recovered(k).change <=> journal[k] > 0
             /\ k \in active \/ receipts[k].state \in {"none", "completed", "interrupted"}
                  => Recovered(k) = receipts[k]
             /\ receipts[k].state = "completed" <=> Recovered(k).state = "completed"
             /\ Recovered(k).state = "none" => receipts[k].state \in {"none", "reserved"}
             /\ Recovered(k).state = "reserved" => receipts[k].state = "reserved"
             /\ k \notin active => Recovered(k).state \in {"none", "completed", "interrupted"}
  <2>1. receipts[k] \in Receipt /\ (receipts[k].change <=> journal[k] > 0)
    BY DEF IInv, TypeOK
  <2>2. CASE k \in active \/ receipts[k].state \in {"none", "completed", "interrupted"}
    <3>1. Recovered(k) = receipts[k]
      BY <2>2 DEF Recovered
    <3> QED BY <2>1, <2>2, <3>1
  <2>3. CASE k \notin active /\ receipts[k].state = "reserved"
    <3>1. Recovered(k) = NoReceipt
      BY <2>3 DEF Recovered
    <3>2. ~(journal[k] > 0)
      BY <2>3 DEF IInv, RowFits, TypeOK
    <3> QED BY <2>3, <3>1, <3>2 DEF NoReceipt, Receipt
  <2>4. CASE k \notin active /\ receipts[k].state \in {"running", "committed"}
    <3>1. Recovered(k) = [receipts[k] EXCEPT !.state = "interrupted"]
      BY <2>4 DEF Recovered
    <3>2. receipts[k] \in [state : {"reserved", "running", "committed", "completed", "interrupted"},
                           request : Requests, change : BOOLEAN]
      BY <2>1, <2>4 DEF Receipt, NoReceipt
    <3> QED BY <2>1, <2>4, <3>1, <3>2 DEF Receipt
  <2> QED BY <2>1, <2>2, <2>3, <2>4 DEF Receipt, NoReceipt
<1>3. TypeOK'
  BY <1>1, <1>2 DEF IInv, TypeOK
<1>4. OneLiveCall' /\ InFlight' = InFlight
  BY <1>1 DEF IInv, OneLiveCall, InFlight
<1>5. CallFits'
  <2> SUFFICES ASSUME NEW d \in InFlight PROVE Fits(d)'
    BY <1>4 DEF CallFits
  <2>1. calls[d].key \in Keys /\ receipts'[calls[d].key] = receipts[calls[d].key]
    BY <1>1, <1>2, FlightFacts
  <2> QED BY <1>1, <2>1 DEF Fits, IInv, CallFits
<1>6. RowFits' /\ DownIsQuiet'
  BY <1>1, <1>2 DEF IInv, RowFits, DownIsQuiet
<1>7. SuccessIsJournalled'
  <2> SUFFICES ASSUME NEW d \in Calls, calls[d].answer \in {"ok", "replayed"}
               PROVE  receipts'[calls[d].key] = receipts[calls[d].key]
    BY <1>1 DEF SuccessIsJournalled, Row, IInv
  <2>1. calls[d].key \in Keys /\ receipts[calls[d].key].state = "completed"
    BY DEF IInv, TypeOK, SuccessIsJournalled, Row
  <2> QED BY <1>1, <1>2, <2>1
<1> QED BY <1>3, <1>4, <1>5, <1>6, <1>7 DEF IInv

\* A crash ends every call; what the rows say stays true.
LEMMA CrashKeepsInvariant ==
  ASSUME IInv, Crash
  PROVE  IInv'
<1>1. /\ InFlight' = {} /\ active' = {} /\ up' = FALSE
      /\ UNCHANGED <<receipts, effects, journal, undone>>
      /\ calls' = [c \in Calls |-> IF calls[c].pc = "idle" THEN calls[c]
                                   ELSE [calls[c] EXCEPT !.pc = "idle", !.answer = "lost"]]
  BY DEF Crash, InFlight, IInv, TypeOK
<1>2. \A c \in Calls : /\ calls'[c].key = calls[c].key /\ calls'[c].request = calls[c].request
                       /\ calls'[c].answer \in {calls[c].answer, "lost"}
  BY <1>1 DEF IInv, TypeOK
<1>3. TypeOK'
  <2>1. calls' \in [Calls -> [pc : {"idle", "working"} \cup Started, key : Keys,
                              request : Requests, answer : Answers]]
    <3>1. \A c \in Calls : calls[c] \in [pc : {"idle", "working"} \cup Started, key : Keys,
                                         request : Requests, answer : Answers]
      BY DEF IInv, TypeOK
    <3>2. ASSUME NEW c \in Calls
          PROVE  [calls[c] EXCEPT !.pc = "idle", !.answer = "lost"] \in
                   [pc : {"idle", "working"} \cup Started, key : Keys,
                    request : Requests, answer : Answers]
      BY <3>1 DEF Answers
    <3> QED BY <1>1, <3>1, <3>2
  <2>2. crashes' \in 0..MaxCrashes
    <3>1. crashes \in 0..MaxCrashes /\ crashes' = crashes + 1 /\ crashes < MaxCrashes
      BY DEF IInv, TypeOK, Crash
    <3>2. MaxCrashes \in Nat
      BY ReceiptAssumption
    <3> QED BY <3>1, <3>2
  <2> QED BY <1>1, <2>1, <2>2 DEF IInv, TypeOK
<1>4. OneLiveCall' /\ CallFits' /\ DownIsQuiet'
  <2>1. {calls'[c].key : c \in {}} = {}
    OBVIOUS
  <2> QED BY <1>1, <2>1 DEF OneLiveCall, CallFits, DownIsQuiet
<1>5. RowFits'
  BY <1>1 DEF IInv, RowFits
<1>6. SuccessIsJournalled'
  <2> SUFFICES ASSUME NEW c \in Calls, calls'[c].answer \in {"ok", "replayed"}
               PROVE  /\ receipts'[calls'[c].key].state = "completed"
                      /\ receipts'[calls'[c].key].request = calls'[c].request
                      /\ journal'[calls'[c].key] = effects'[calls'[c].key]
    BY DEF SuccessIsJournalled, Row
  <2>1. /\ calls[c].answer \in {"ok", "replayed"}
        /\ calls'[c].key = calls[c].key /\ calls'[c].request = calls[c].request
    BY <1>2
  <2>2. /\ receipts[calls[c].key].state = "completed"
        /\ receipts[calls[c].key].request = calls[c].request
        /\ journal[calls[c].key] = effects[calls[c].key]
    BY <2>1 DEF IInv, SuccessIsJournalled, Row
  <2>3. receipts' = receipts /\ journal' = journal /\ effects' = effects
    BY <1>1
  <2> QED BY <2>1, <2>2, <2>3
<1> QED BY <1>3, <1>4, <1>5, <1>6 DEF IInv

-----------------------------------------------------------------------------
LEMMA InitHolds == Init => IInv
<1> SUFFICES ASSUME Init PROVE IInv
  OBVIOUS
<1>1. InFlight = {} /\ \A c \in Calls : calls[c].answer = "none"
  BY DEF Init, InFlight
<1>2. TypeOK
  BY ReceiptAssumption DEF Init, TypeOK, Receipt, NoReceipt, Answers
<1>3. OneLiveCall /\ CallFits /\ DownIsQuiet
  <2>1. {calls[c].key : c \in {}} = {}
    OBVIOUS
  <2> QED BY <1>1, <2>1 DEF Init, OneLiveCall, CallFits, DownIsQuiet
<1>5. SuccessIsJournalled
  BY <1>1 DEF SuccessIsJournalled
<1>4. RowFits
  <2>1. \A k \in Keys : receipts[k].state = "none" /\ effects[k] = 0 /\ journal[k] = 0
    BY DEF Init, NoReceipt
  <2>2. 0 <= 1 /\ 0 <= 0
    OBVIOUS
  <2>3. \A k \in Keys : effects[k] <= 1 /\ journal[k] <= effects[k]
    BY <2>1, <2>2
  <2> QED BY <2>1, <2>3 DEF RowFits
<1> QED BY <1>2, <1>3, <1>4, <1>5 DEF IInv

LEMMA StepHolds == IInv /\ [Next]_vars => IInv'
<1> SUFFICES ASSUME IInv, [Next]_vars PROVE IInv'
  OBVIOUS
<1>1. ASSUME NEW c \in Calls, NEW k \in Keys, NEW r \in Requests, Start(c, k, r) PROVE IInv'
  BY <1>1, StartKeepsInvariant
<1>2. ASSUME NEW c \in Calls, Precondition(c) PROVE IInv'
  BY <1>2, PreconditionKeepsInvariant
<1>3. ASSUME NEW c \in Calls, Fail(c) PROVE IInv'
  BY <1>3, ThrowKeepsInvariant DEF Fail, InFlight, Started
<1>4. ASSUME NEW c \in Calls, Begin(c) PROVE IInv'
  BY <1>4, BeginKeepsInvariant
<1>5. ASSUME NEW c \in Calls, Write(c) PROVE IInv'
  BY <1>5, WriteKeepsInvariant
<1>6. ASSUME NEW c \in Calls, Record(c) PROVE IInv'
  BY <1>6, RecordKeepsInvariant
<1>7. ASSUME NEW c \in Calls, Complete(c) PROVE IInv'
  BY <1>7, CompleteKeepsInvariant
<1>8. CASE Open
  BY <1>8, OpenKeepsInvariant
<1>9. CASE Crash
  BY <1>9, CrashKeepsInvariant
<1>10. CASE (\E k \in Keys : Undo(k)) \/ UNCHANGED vars
  <2>1. /\ UNCHANGED <<receipts, active, calls, up, crashes, effects, journal>>
        /\ undone' \subseteq Keys
    BY <1>10 DEF Undo, vars, IInv, TypeOK
  <2>2. TypeOK' /\ OneLiveCall' /\ RowFits' /\ DownIsQuiet'
    BY <2>1 DEF IInv, TypeOK, OneLiveCall, RowFits, DownIsQuiet, InFlight
  <2>3. CallFits' /\ SuccessIsJournalled'
    BY <2>1 DEF IInv, CallFits, Fits, SuccessIsJournalled, InFlight, Row
  <2> QED BY <2>2, <2>3 DEF IInv
<1> QED
  BY <1>1, <1>2, <1>3, <1>4, <1>5, <1>6, <1>7, <1>8, <1>9, <1>10 DEF Next

LEMMA InvariantHolds == Spec => []IInv
BY InitHolds, StepHolds, PTL DEF Spec

\* The receipts, the live set and the calls are well typed, and a receipt has a
\* change exactly when the journal has one.
THEOREM TypeCorrect == Spec => []TypeOK
BY InvariantHolds, PTL DEF IInv

\* Retries, crashes and second handles apply a keyed request at most once.
THEOREM AppliedAtMostOnce == Spec => []AtMostOnce
<1>1. IInv => AtMostOnce
  BY DEF IInv, RowFits, AtMostOnce
<1> QED BY <1>1, InvariantHolds, PTL

\* One call works under a key at a time, and the active set names it.
THEOREM CallsAreAlone == Spec => []OneLiveCall
BY InvariantHolds, PTL DEF IInv

\* A success, or its replay, is of the same request and wholly journalled.
THEOREM SuccessesAreJournalled == Spec => []SuccessIsJournalled
BY InvariantHolds, PTL DEF IInv

\* A key whose request changed files keeps a receipt that refuses it, or its call.
THEOREM IncompleteFailsClosed == Spec => []FailsClosed
<1>1. IInv => FailsClosed
  <2> SUFFICES ASSUME IInv, NEW k \in Keys, effects[k] > 0
               PROVE  \/ receipts[k].state \in {"completed", "interrupted"}
                      \/ /\ receipts[k].state \in {"running", "committed"}
                         /\ up => \E c \in InFlight :
                                    calls[c].key = k /\ calls[c].pc \in {"wrote", "recorded"}
    BY DEF FailsClosed
  <2>1. receipts[k].state \in {"running", "committed", "completed", "interrupted"}
    BY DEF IInv, TypeOK, RowFits, Receipt, NoReceipt
  <2>2. CASE up /\ k \in active
    <3>1. PICK c \in InFlight : calls[c].key = k
      BY <2>2 DEF IInv, OneLiveCall
    <3>2. Fits(c) /\ calls[c].pc \in {"working"} \cup Started
      BY FlightFacts DEF IInv, CallFits
    <3>3. calls[c].pc \in {"wrote", "recorded"}
      BY <3>1, <3>2 DEF Fits, Started, IInv, TypeOK
    <3>4. receipts[k].state \in {"running", "committed"}
      BY <3>1, <3>2, <3>3 DEF Fits
    <3> QED BY <3>1, <3>3, <3>4
  <2>3. CASE up /\ k \notin active
    BY <2>1, <2>3 DEF IInv, RowFits
  <2>4. CASE ~up
    BY <2>1, <2>4
  <2> QED BY <2>2, <2>3, <2>4
<1> QED BY <1>1, InvariantHolds, PTL

\* A completed receipt never changes again (mutation-receipts.ts has no way out
\* of "completed").
CompletedIsFinal ==
  [][\A k \in Keys : receipts[k].state = "completed" => receipts'[k] = receipts[k]]_vars

\* No call works under a completed key, and recovery passes it over: its
\* receipt never changes again.
THEOREM CompletedStays == Spec => CompletedIsFinal
<1>1. ASSUME IInv, [Next]_vars, NEW k \in Keys, receipts[k].state = "completed"
      PROVE  receipts'[k] = receipts[k]
  <2>1. \A c \in InFlight : calls[c].key # k
    BY <1>1, FlightFacts DEF Row
  <2>2. ASSUME NEW c \in InFlight, NEW row, receipts' = [receipts EXCEPT ![calls[c].key] = row]
        PROVE  receipts'[k] = receipts[k]
    BY <2>1, <2>2, <1>1 DEF IInv, TypeOK
  <2>3. ASSUME NEW c \in Calls, Fail(c) \/ Precondition(c) \/ Complete(c)
        PROVE  receipts'[k] = receipts[k]
    BY <2>2, <2>3 DEF Fail, Precondition, Complete, Throw, Return, InFlight, Started
  <2>4. ASSUME NEW c \in Calls, Begin(c) \/ Record(c)
        PROVE  receipts'[k] = receipts[k]
    <3>1. c \in InFlight
      BY <2>4 DEF Begin, Record, InFlight
    <3>2. CASE Throw(c)
      BY <2>2, <3>1, <3>2 DEF Throw, Return
    <3>3. CASE \/ receipts' = [receipts EXCEPT ![calls[c].key].state = "running"]
               \/ receipts' = [receipts EXCEPT ![calls[c].key] =
                                 [@ EXCEPT !.state = "committed", !.change = TRUE]]
      BY <2>1, <3>1, <3>3, <1>1 DEF IInv, TypeOK
    <3> QED BY <2>4, <3>2, <3>3 DEF Begin, Record
  <2>5. ASSUME NEW c \in Calls, NEW l \in Keys, NEW r \in Requests, Start(c, l, r)
        PROVE  receipts'[k] = receipts[k]
    BY <2>5, <1>1 DEF Start, IInv, TypeOK
  <2>6. CASE Open
    BY <2>6, <1>1 DEF Open, Recovered
  <2>7. CASE UNCHANGED receipts
    BY <2>7
  <2> QED
    BY <1>1, <2>3, <2>4, <2>5, <2>6, <2>7 DEF Next, vars, Write, Undo, Crash
<1>2. IInv /\ [Next]_vars =>
        [\A k \in Keys : receipts[k].state = "completed" => receipts'[k] = receipts[k]]_vars
  BY <1>1
<1> QED BY <1>2, InvariantHolds, PTL DEF Spec, CompletedIsFinal
=============================================================================
