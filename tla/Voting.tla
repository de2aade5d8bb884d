------------------------------- MODULE Voting -------------------------------
(***************************************************************************)
(* The oracles of a network with SubgraphAvailabilityManagerContract       *)
(* (availability-oracle/src/contract.rs): each runs its own loop and       *)
(* deny_many sends its flips as votes; the contract sets a deployment's    *)
(* flag when the votes of `Threshold' oracles for it are recent enough.    *)
(*                                                                         *)
(* A transaction votes on each of its deployments separately, so that the  *)
(* module follows a single deployment: the other entries of a run, and     *)
(* the chunks made of them, matter only in that they may fail before.      *)
(* The clock counts periods: an oracle that is not late has one run in     *)
(* each, and one more when its process restarts, their transactions mined  *)
(* within it.                                                              *)
(***************************************************************************)
EXTENDS Naturals, Sequences, FiniteSets

CONSTANTS
  Oracles,        \* who may vote, by ORACLE_INDEX
  Threshold,      \* executionThreshold of the contract
  VoteTimeLimit,  \* voteTimeLimit of the contract, in periods
  MaxFaults       \* bound: faults and changes of the environment in a behaviour

ASSUME VotingAssumption ==
  /\ IsFiniteSet(Oracles)
  /\ Threshold \in 1..Cardinality(Oracles)
  /\ 2 * Threshold > Cardinality(Oracles)
  /\ VoteTimeLimit \in Nat \ {0, 1}
  /\ MaxFaults \in Nat

VARIABLES
  \* of each oracle's process
  phase,    \* where its run stands: none, about to send its vote, waiting for it
  ballot,   \* the status its run is sending
  ran,      \* it had its run in this period
  \* of the node, the contract and the network subgraph
  mempool,  \* each oracle's votes that the node accepted and has not resolved
  votes,    \* age of each oracle's last vote for each status, in periods
  denied,   \* the rewards manager's flag
  indexed,  \* the flag that the network subgraph shows
  \* the environment
  sees,     \* the status the oracle's run would find: is the deployment bad
  faults,   \* faults and changes of the environment so far
  \* history
  found     \* age of the oracle's last run that found that status

procVars  == <<phase, ballot, ran>>
chainVars == <<mempool, votes, denied, indexed>>
vars      == <<procVars, chainVars, sees, faults, found>>

Fault == faults < MaxFaults /\ faults' = faults + 1

\* A run and its vote take a period, and one more for each fault.  Beyond that and
\* the life of a vote, ages make no difference.
MaxDelay == VoteTimeLimit + 1 + MaxFaults
Older(age, limit) == IF age < limit THEN age + 1 ELSE age

-----------------------------------------------------------------------------
(* A run of an oracle *)

\* The result of deny_many, or the error before it, ends the run.
EndRun(o) ==
  /\ phase' = [phase EXCEPT ![o] = "idle"]
  /\ ran' = [ran EXCEPT ![o] = TRUE]

\* Mutant of Finding: what was bad once is remembered as bad.
FindingsLast(o) == sees[o] \/ found[o][TRUE] < MaxDelay

\* The status by the checks of this run, or by the cache in their place.
Finding(o) == sees[o]

\* Mutants of Votes: nothing is allowed again; whatever is found is submitted.
VotesToDeny(o) == Finding(o) /\ ~indexed
VotesAlways(o) == TRUE

\* The status has to change from what the subgraph shows; an oracle that agrees
\* with the flag does not vote, be it that it voted otherwise before.
Votes(o) == Finding(o) # indexed

Look(o) ==
  /\ phase[o] = "idle"
  /\ ~ran[o]
  /\ found' = [found EXCEPT ![o][sees[o]] = 0]
  /\ IF Votes(o)
     THEN /\ phase' = [phase EXCEPT ![o] = "send"]
          /\ ballot' = [ballot EXCEPT ![o] = Finding(o)]
          /\ UNCHANGED ran
     ELSE EndRun(o) /\ UNCHANGED ballot
  /\ UNCHANGED <<chainVars, sees, faults>>

\* Some page or check fails: the run is aborted with nothing to send.
RunFails(o) ==
  /\ phase[o] = "idle"
  /\ ~ran[o]
  /\ Fault
  /\ EndRun(o)
  /\ UNCHANGED <<ballot, chainVars, sees, found>>

\* The new transaction queues behind what is left of earlier runs or replaces it.
Accepting(o) ==
  {Append(mempool[o], ballot[o])}
  \cup (IF Len(mempool[o]) = 1 THEN {<<ballot[o]>>} ELSE {})

\* Mutant of Send: the receipt is not awaited.
SendOnly(o) ==
  /\ phase[o] = "send"
  /\ ran' = [ran EXCEPT ![o] = TRUE]
  /\ phase' = [phase EXCEPT ![o] = "confirm"]
  /\ \E accepted \in Accepting(o) : mempool' = [mempool EXCEPT ![o] = accepted]
  /\ UNCHANGED <<ballot, votes, denied, indexed, sees, faults, found>>

\* The gas estimate succeeds and vote_many, with the oracle's index, is sent.
Send(o) ==
  /\ phase[o] = "send"
  /\ phase' = [phase EXCEPT ![o] = "confirm"]
  /\ \E accepted \in Accepting(o) : mempool' = [mempool EXCEPT ![o] = accepted]
  /\ UNCHANGED <<ballot, ran, votes, denied, indexed, sees, faults, found>>

\* An estimate, here or of an earlier chunk, or send() fails.  In the latter case
\* the node may have the transaction nevertheless.
SendFails(o) ==
  /\ phase[o] = "send"
  /\ Fault
  /\ EndRun(o)
  /\ \E accepted \in Accepting(o) \cup {mempool[o]} : mempool' = [mempool EXCEPT ![o] = accepted]
  /\ UNCHANGED <<ballot, votes, denied, indexed, sees, found>>

\* The transaction, the last of its account, is resolved, with whatever status.
Confirmed(o) ==
  /\ phase[o] = "confirm"
  /\ mempool[o] = <<>>
  /\ EndRun(o)
  /\ UNCHANGED <<ballot, chainVars, sees, faults, found>>

\* Polling for the receipt fails and the run ends; its vote is on its way.
ConfirmFails(o) ==
  /\ phase[o] = "confirm"
  /\ Fault
  /\ EndRun(o)
  /\ UNCHANGED <<ballot, chainVars, sees, found>>

\* The process stops, in a run or after it, and starts again with a run at once, be it
\* the second in this period.  Before the run it makes no difference.
Crash(o) ==
  /\ phase[o] # "idle" \/ ran[o]
  /\ Fault
  /\ phase' = [phase EXCEPT ![o] = "idle"]
  /\ ran' = [ran EXCEPT ![o] = FALSE]
  /\ UNCHANGED <<ballot, chainVars, sees, found>>

-----------------------------------------------------------------------------
(* The contract and the chain *)

\* checkVotes: enough votes for this status are younger than the limit.
Enough(ages) == Cardinality({o \in Oracles : ages[o] < VoteTimeLimit}) >= Threshold

\* The oldest vote of o is mined.  Votes for one status do not take back those for
\* the other.
Mine(o) ==
  /\ mempool[o] # <<>>
  /\ LET deny == Head(mempool[o])
     IN /\ votes' = [votes EXCEPT ![deny][o] = 0]
        /\ denied' = IF Enough(votes'[deny]) THEN deny ELSE denied
  /\ mempool' = [mempool EXCEPT ![o] = Tail(@)]
  /\ UNCHANGED <<procVars, indexed, sees, faults, found>>

\* The oldest vote reverts or the node drops it.
Lose(o) ==
  /\ mempool[o] # <<>>
  /\ Fault
  /\ mempool' = [mempool EXCEPT ![o] = Tail(@)]
  /\ UNCHANGED <<procVars, votes, denied, indexed, sees, found>>

Expired == [deny \in BOOLEAN |-> [o \in Oracles |-> VoteTimeLimit]]

\* setOracle raises currentNonce: all votes so far are void.
NewNonce ==
  /\ votes # Expired
  /\ Fault
  /\ votes' = Expired
  /\ UNCHANGED <<procVars, mempool, denied, indexed, sees, found>>

IndexChain ==
  /\ indexed # denied
  /\ indexed' = denied
  /\ UNCHANGED <<procVars, mempool, votes, denied, sees, faults, found>>

\* The deployment's files become unavailable to o, or available again.
Turn(o) ==
  /\ Fault
  /\ sees' = [sees EXCEPT ![o] = ~@]
  /\ UNCHANGED <<procVars, chainVars, found>>

\* A period is over.  That someone has not finished in it is a fault.
Tick ==
  /\ IF \A o \in Oracles : ran[o] /\ mempool[o] = <<>> THEN UNCHANGED faults ELSE Fault
  /\ ran' = [o \in Oracles |-> FALSE]
  /\ votes' = [deny \in BOOLEAN |-> [o \in Oracles |-> Older(votes[deny][o], VoteTimeLimit)]]
  /\ found' = [o \in Oracles |-> [deny \in BOOLEAN |-> Older(found[o][deny], MaxDelay)]]
  /\ UNCHANGED <<phase, ballot, mempool, denied, indexed, sees>>

-----------------------------------------------------------------------------

Init ==
  /\ phase = [o \in Oracles |-> "idle"]
  /\ ballot = [o \in Oracles |-> FALSE]
  /\ ran = [o \in Oracles |-> FALSE]
  /\ mempool = [o \in Oracles |-> <<>>]
  /\ votes = Expired
  /\ denied \in BOOLEAN
  /\ indexed = denied
  /\ sees \in [Oracles -> BOOLEAN]
  /\ faults = 0
  /\ found = [o \in Oracles |-> [deny \in BOOLEAN |-> MaxDelay]]

Run(o) == Look(o) \/ Send(o) \/ Confirmed(o)

Failure(o) == RunFails(o) \/ SendFails(o) \/ ConfirmFails(o) \/ Crash(o) \/ Lose(o) \/ Turn(o)

Next ==
  \/ \E o \in Oracles : Run(o) \/ Failure(o) \/ Mine(o)
  \/ NewNonce \/ IndexChain \/ Tick

\* Every process is polled and answered, its transactions are mined, time passes
\* and the subgraph follows the chain.  No fault is owed.
Fairness ==
  /\ \A o \in Oracles : WF_vars(Run(o)) /\ WF_vars(Mine(o))
  /\ WF_vars(IndexChain)
  /\ WF_vars(Tick)

Spec == Init /\ [][Next]_vars /\ Fairness

-----------------------------------------------------------------------------
(* Properties *)

\* With the types: an oracle that had its run of the period is not in one, and
\* has no more transactions on its way than there were faults, and one.
TypeOK ==
  /\ phase \in [Oracles -> {"idle", "send", "confirm"}]
  /\ ballot \in [Oracles -> BOOLEAN]
  /\ ran \in [Oracles -> BOOLEAN]
  /\ mempool \in [Oracles -> Seq(BOOLEAN)]
  /\ votes \in [BOOLEAN -> [Oracles -> 0..VoteTimeLimit]]
  /\ denied \in BOOLEAN /\ indexed \in BOOLEAN
  /\ sees \in [Oracles -> BOOLEAN]
  /\ faults \in 0..MaxFaults
  /\ found \in [Oracles -> [BOOLEAN -> 0..MaxDelay]]
  /\ \A o \in Oracles : /\ ran[o] => phase[o] = "idle"
                        /\ Len(mempool[o]) <= faults + 1

\* The flag changes only to what `Threshold' oracles found lately: no more periods
\* ago than a vote counts, a run takes, and faults have held things up.  Votes sent
\* late, mined late or left from runs that failed do not add up with anything older.
FlipHasRecentQuorum ==
  [][denied' # denied =>
       Cardinality({o \in Oracles : found[o][denied'] < VoteTimeLimit + faults}) >= Threshold]_vars

\* The oracle may still be counted for this status: by a vote that is young enough or
\* on its way, by one its run is about to send, or by what its next run will find.
Speaks(o, deny) ==
  \/ votes[deny][o] < VoteTimeLimit
  \/ \E i \in DOMAIN mempool[o] : mempool[o][i] = deny
  \/ phase[o] = "send" /\ ballot[o] = deny
  \/ sees[o] = deny

Decided(deny) ==
  denied = deny /\ Cardinality({o \in Oracles : Speaks(o, ~deny)}) < Threshold

\* A flag that too few oracles can still be counted against stays until one of them
\* comes to see the deployment otherwise (main.rs:362, contract.rs:130-161): no order
\* of runs, late votes, failures, expiries or stale index data brings the votes
\* against it up to the threshold.
DecidedStays ==
  [][sees' = sees => \A deny \in BOOLEAN : Decided(deny) => Decided(deny)']_vars

\* Once a quorum of the oracles keeps seeing the deployment the same way, the flag
\* comes to say so and stays, whatever the others vote and whatever old votes
\* there are: oracles that disagree with the flag vote again in every run.
QuorumPrevails ==
  \A deny \in BOOLEAN :
    <>[](Cardinality({o \in Oracles : sees[o] = deny}) >= Threshold) => <>[](denied = deny)

\* When all of them see it the same way, the voting ends: the flips come from the
\* flag as indexed, and no run sends a vote for what it shows already.
ConsensusIsQuiet ==
  \A deny \in BOOLEAN :
    <>[](\A o \in Oracles : sees[o] = deny) => <>[](\A o \in Oracles : mempool[o] = <<>>)

=============================================================================
