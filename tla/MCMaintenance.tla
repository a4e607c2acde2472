---------------------------- MODULE MCMaintenance ----------------------------
(* An automatic item that replaces a page by a new one, and a review item that  *)
(* moves the same page, under a budget of one item and a pause at the first     *)
(* rollback.                                                                    *)
EXTENDS DreamRun, TLC

Op(kind, p, q) == [kind |-> kind, path |-> p, to |-> q]

TwoItems == <<<<Op("create", "a", "a"), Op("delete", "b", "b")>>, <<Op("move", "b", "c")>>>>

\* People apply and revise one at a time and between dream runs; they decide and
\* retire at any time.
Apart ==
  /\ dream'.pc # "none" => (\A c \in People : call'[c] = Idle) /\ draft'["human"] = NoDraft
  /\ draft'["human"] # NoDraft => \A c \in People : call'[c] = Idle

Alike == Permutations(Runs)

MCSpec == DreamInit /\ [][Next /\ Apart]_vars
=============================================================================
