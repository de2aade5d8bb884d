------------------------------ MODULE MCVoting ------------------------------
(***************************************************************************)
(* Voting for TLC.  Neither the names of the oracles nor the two statuses  *)
(* are told apart by Voting, so that it is enough to begin with the flag   *)
(* `allowed' and to count those who see the deployment as bad.             *)
(***************************************************************************)
EXTENDS Voting

MCInit ==
  /\ Init
  /\ denied = FALSE
  /\ \E n \in 0..Cardinality(Oracles) : sees = [o \in Oracles |-> o <= n]

MCSpec == MCInit /\ [][Next]_vars /\ Fairness

=============================================================================
