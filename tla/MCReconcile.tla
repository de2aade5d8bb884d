---------------------------- MODULE MCReconcile ----------------------------
(***************************************************************************)
(* Reconcile for TLC: at first every deployment is listed and good, and    *)
(* one of them is denied; the faults of a behaviour do the rest.           *)
(***************************************************************************)
EXTENDS Reconcile

MCInit ==
  /\ Init
  /\ listed = Deployments
  /\ good = Deployments
  /\ flags = [d \in Deployments |-> d = 2]

MCSpec == MCInit /\ [][Next]_vars /\ Fairness

=============================================================================
