------------------------------ MODULE MCReconcile ------------------------------
(* Two files, one of which this process also writes. *)
EXTENDS Reconcile
=============================================================================
