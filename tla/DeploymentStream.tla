-------------------------- MODULE DeploymentStream --------------------------
(***************************************************************************)
(* NetworkSubgraphImpl::deployments_over_threshold of                      *)
(* availability-oracle/src/network_subgraph.rs: an endless sequence of     *)
(* page queries, skip = 0, 1000, 2000, ..., flattened into one stream of   *)
(* deployments that ends at the first empty page.  The network subgraph    *)
(* behind it keeps indexing while the stream is read: nothing pins two     *)
(* pages to the same block.                                                *)
(*                                                                         *)
(* The query names no orderBy: the subgraph answers in the order of ids,   *)
(* which are therefore numbers here.                                       *)
(***************************************************************************)
EXTENDS Integers, FiniteSets

CONSTANTS
  Deployments,  \* the deployment ids, ordered
  PageSize      \* `first' of the query: 1000 in the code

ASSUME StreamAssumption ==
  /\ Deployments \in SUBSET Nat
  /\ IsFiniteSet(Deployments)
  /\ PageSize \in Nat \ {0}

VARIABLES
  listed,   \* the deployments the query's where clause selects now
  indexed,  \* deniedAt > 0 for each deployment, as of the last indexed block
  skip,     \* the `skip' of the next page query
  page,     \* the deployments of the last page that the reader has not taken
  ended     \* take_while met an empty page: the stream is over

dsVars == <<listed, indexed, skip, page, ended>>

\* SubgraphDeployment, without the amount of signal, which nothing reads.
Deployment == [id : Deployments, deny : BOOLEAN]

\* How many selected deployments come before d in a page query's order.
Rank(d) == Cardinality({e \in listed : e < d})

\* The answer to the page query at `skip', with the deny flags of that moment.
PageAt(k) ==
  {[id |-> d, deny |-> indexed[d]] :
      d \in {e \in listed : k <= Rank(e) /\ Rank(e) < k + PageSize}}

PageEmpty(k) == Cardinality(listed) <= k

-----------------------------------------------------------------------------
(* The stream *)

\* Mutants of NextSkip: it steps over a deployment, less than a page.
SkipWide    == skip + PageSize + 1
SkipOverlap == skip + PageSize - 1

\* (0..).step_by(1000)
NextSkip == skip + PageSize

StreamStart ==
  /\ skip' = 0
  /\ page' = {}
  /\ ended' = FALSE
  /\ UNCHANGED <<listed, indexed>>

\* Mutant of FetchPage: after an empty page there may be another.
FetchPageAgain ==
  /\ ~ended
  /\ page = {}
  /\ ~PageEmpty(skip)
  /\ page' = PageAt(skip)
  /\ skip' = NextSkip
  /\ UNCHANGED <<listed, indexed, ended>>

\* The reader needs another item and the last page is used up.
FetchPage ==
  /\ ~ended
  /\ page = {}
  /\ IF PageEmpty(skip)
     THEN /\ ended' = TRUE
          /\ UNCHANGED <<page, skip>>
     ELSE /\ page' = PageAt(skip)
          /\ skip' = NextSkip
          /\ UNCHANGED ended
  /\ UNCHANGED <<listed, indexed>>

\* The query fails (transport, status code, `errors' in the answer).  The
\* stream yields the error, take_while keeps it, and the next query is for the
\* next page.
FetchFails ==
  /\ ~ended
  /\ page = {}
  /\ skip' = NextSkip
  /\ UNCHANGED <<listed, indexed, page, ended>>

\* The reader takes x, the first of what is left of the page.
Take(x) ==
  /\ x \in page
  /\ \A y \in page : x.id <= y.id
  /\ page' = page \ {x}
  /\ UNCHANGED <<listed, indexed, skip, ended>>

-----------------------------------------------------------------------------
(* The network subgraph *)

\* Curation signal moves a deployment across the threshold.
Relist(new) ==
  /\ listed' = new
  /\ UNCHANGED <<indexed, skip, page, ended>>

\* The subgraph indexes up to a block in which the denylist is `denied'.
Index(denied) ==
  /\ indexed # denied
  /\ indexed' = denied
  /\ UNCHANGED <<listed, skip, page, ended>>

-----------------------------------------------------------------------------

DsTypeOK ==
  /\ listed \in SUBSET Deployments
  /\ indexed \in [Deployments -> BOOLEAN]
  /\ skip \in Nat
  /\ page \in SUBSET Deployment
  /\ ended \in BOOLEAN

=============================================================================
