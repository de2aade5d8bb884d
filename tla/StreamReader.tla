---------------------------- MODULE StreamReader ----------------------------
(***************************************************************************)
(* DeploymentStream on its own: one reader takes the stream to its end     *)
(* while curators signal and unsignal deployments.                         *)
(*                                                                         *)
(* All but the variables of DeploymentStream and `changes' are history.    *)
(***************************************************************************)
EXTENDS DeploymentStream, Sequences

CONSTANTS
  MaxChanges  \* bound: changes of the list, failed queries and indexed blocks

ASSUME StreamReaderAssumption == MaxChanges \in Nat

VARIABLES
  yielded,  \* the deployments the reader got, in order
  always,   \* the deployments that have been listed all along
  shrunk,   \* a deployment has left the list since the stream started
  grown,    \* a deployment has joined it
  erred,    \* a page query failed
  changes   \* changes so far

histVars == <<yielded, always, shrunk, grown, erred>>
vars == <<dsVars, histVars, changes>>

Init ==
  /\ listed \in SUBSET Deployments
  /\ indexed = [d \in Deployments |-> FALSE]
  /\ skip = 0 /\ page = {} /\ ended = FALSE
  /\ yielded = <<>> /\ always = listed
  /\ shrunk = FALSE /\ grown = FALSE /\ erred = FALSE
  /\ changes = 0

Change == changes < MaxChanges /\ changes' = changes + 1

Fetch == FetchPage /\ UNCHANGED <<histVars, changes>>

Fail ==
  /\ FetchFails
  /\ Change
  /\ erred' = TRUE
  /\ UNCHANGED <<yielded, always, shrunk, grown>>

Read(x) ==
  /\ Take(x)
  /\ yielded' = Append(yielded, x)
  /\ UNCHANGED <<always, shrunk, grown, erred, changes>>

Resignal(new) ==
  /\ ~ended
  /\ new # listed
  /\ Relist(new)
  /\ Change
  /\ always' = always \cap new
  /\ shrunk' = (shrunk \/ ~(listed \subseteq new))
  /\ grown'  = (grown \/ ~(new \subseteq listed))
  /\ UNCHANGED <<yielded, erred>>

IndexBlock(denied) ==
  /\ ~ended
  /\ Index(denied)
  /\ Change
  /\ UNCHANGED histVars

Next ==
  \/ Fetch \/ Fail
  \/ \E x \in page : Read(x)
  \/ \E new \in SUBSET Deployments : Resignal(new)
  \/ \E denied \in [Deployments -> BOOLEAN] : IndexBlock(denied)

\* The reader polls the stream and its queries are answered.
Fairness == WF_vars(Fetch \/ Fail \/ \E x \in page : Read(x))

Spec == Init /\ [][Next]_vars

FairSpec == Spec /\ Fairness

-----------------------------------------------------------------------------
(* Properties *)

TypeOK ==
  /\ DsTypeOK
  /\ yielded \in Seq(Deployment)
  /\ always \in SUBSET Deployments
  /\ shrunk \in BOOLEAN /\ grown \in BOOLEAN /\ erred \in BOOLEAN
  /\ changes \in 0..MaxChanges

Ids == {yielded[i].id : i \in DOMAIN yielded}

Complete == ended /\ ~erred

\* Pages by skip (network_subgraph.rs:97, 163-169) miss no deployment that is
\* over the threshold all along, as long as none leaves the list while it is
\* read; deployments that join it do no harm, wherever they sort.
CoversUnlessShrunk == Complete /\ ~shrunk => always \subseteq Ids

\* They yield no deployment twice as long as none joins the list while it is
\* read; deployments that leave it do no harm.
NoRepeatUnlessGrown ==
  ~grown => \A i, j \in DOMAIN yielded : yielded[i].id = yielded[j].id => i = j

\* The endless sequence of pages ends: the reader comes to an empty page.
StreamEnds == <>ended

\* "Grab the list of all deployments over the curation threshold" (main.rs:293).
CoversAll == Complete => always \subseteq Ids

=============================================================================
