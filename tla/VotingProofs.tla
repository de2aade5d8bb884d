---------------------------- MODULE VotingProofs ----------------------------
(***************************************************************************)
(* Theorems about Voting, for any number of oracles, every threshold that  *)
(* is a majority, every life of a vote and any number of faults.           *)
(***************************************************************************)
EXTENDS Voting, FiniteSetTheorems, SequenceTheorems, TLAPS

-----------------------------------------------------------------------------
(* Queues of votes *)

\* Append adds one vote, of the status that is sent.
LEMMA AppendVote ==
  ASSUME NEW s \in Seq(BOOLEAN), NEW b \in BOOLEAN
  PROVE  /\ Append(s, b) \in Seq(BOOLEAN)
         /\ Len(Append(s, b)) = Len(s) + 1
         /\ \A i \in 1..Len(s) : Append(s, b)[i] = s[i]
         /\ Append(s, b)[Len(s) + 1] = b
OBVIOUS

\* A vote alone.
LEMMA OneVote ==
  ASSUME NEW b \in BOOLEAN
  PROVE  <<b>> \in Seq(BOOLEAN) /\ Len(<<b>>) = 1 /\ <<b>>[1] = b
OBVIOUS

\* What is left of a queue are votes that were in it.
LEMMA TailVotes ==
  ASSUME NEW s \in Seq(BOOLEAN), s # <<>>
  PROVE  /\ Tail(s) \in Seq(BOOLEAN)
         /\ Len(Tail(s)) = Len(s) - 1 /\ Len(s) >= 1
         /\ \A i \in 1..Len(Tail(s)) : Tail(s)[i] = s[i + 1]
         /\ Head(s) = s[1] /\ Head(s) \in BOOLEAN
OBVIOUS

-----------------------------------------------------------------------------
(* Types *)

\* Of TypeOK what says of each variable where it is.
VarTypes ==
  /\ phase \in [Oracles -> {"idle", "send", "confirm"}]
  /\ ballot \in [Oracles -> BOOLEAN]
  /\ ran \in [Oracles -> BOOLEAN]
  /\ mempool \in [Oracles -> Seq(BOOLEAN)]
  /\ votes \in [BOOLEAN -> [Oracles -> 0..VoteTimeLimit]]
  /\ denied \in BOOLEAN /\ indexed \in BOOLEAN
  /\ sees \in [Oracles -> BOOLEAN]
  /\ faults \in 0..MaxFaults
  /\ found \in [Oracles -> [BOOLEAN -> 0..MaxDelay]]

\* An oracle that had its run is not in one.
Resting == \A o \in Oracles : ran[o] => phase[o] = "idle"

\* An oracle that does not wait for a vote left no more of them behind than there
\* were faults.
QueueInv ==
  \A o \in Oracles :
    Len(mempool[o]) <= IF phase[o] = "confirm" THEN faults + 1 ELSE faults

\* The invariant that is inductive.
TypeInv == VarTypes /\ Resting /\ QueueInv

\* It is a little stronger than TypeOK.
LEMMA TypeInvImpliesTypeOK == TypeInv => TypeOK
<1> SUFFICES ASSUME TypeInv PROVE TypeOK
  OBVIOUS
<1>1. faults \in Nat /\ \A o \in Oracles : Len(mempool[o]) \in Nat
  BY VotingAssumption DEF TypeInv, VarTypes
<1>2. \A o \in Oracles : Len(mempool[o]) <= faults + 1
  BY <1>1 DEF TypeInv, QueueInv
<1>3. \A o \in Oracles : (ran[o] => phase[o] = "idle") /\ Len(mempool[o]) <= faults + 1
  BY <1>2, Zenon DEF TypeInv, Resting
<1> QED
  BY <1>3, Zenon DEF TypeOK, TypeInv, VarTypes

\* A fault is one more, within its bound.
LEMMA FaultCounted ==
  ASSUME VarTypes, Fault
  PROVE  faults' \in 0..MaxFaults /\ faults' = faults + 1
BY VotingAssumption DEF Fault, VarTypes

\* The end of a run concerns one oracle, and leaves it at rest.
LEMMA EndRunTyped ==
  ASSUME VarTypes, Resting, NEW o \in Oracles, EndRun(o)
  PROVE  /\ phase' \in [Oracles -> {"idle", "send", "confirm"}]
         /\ ran' \in [Oracles -> BOOLEAN]
         /\ Resting'
         /\ \A p \in Oracles : phase'[p] = IF p = o THEN "idle" ELSE phase[p]
<1>1. phase' \in [Oracles -> {"idle", "send", "confirm"}]
  BY DEF EndRun, VarTypes
<1>2. \A p \in Oracles : phase'[p] = IF p = o THEN "idle" ELSE phase[p]
  BY DEF EndRun, VarTypes
<1>3. ran' \in [Oracles -> BOOLEAN]
  BY Zenon DEF EndRun, VarTypes
<1>4. \A p \in Oracles : p # o => ran'[p] = ran[p]
  BY Zenon DEF EndRun, VarTypes
<1>5. Resting'
  BY <1>2, <1>4 DEF Resting
<1> QED
  BY <1>1, <1>2, <1>3, <1>5

\* A queue changes for one oracle.
LEMMA QueueTyped ==
  ASSUME VarTypes, NEW o \in Oracles, NEW q \in Seq(BOOLEAN),
         mempool' = [mempool EXCEPT ![o] = q]
  PROVE  /\ mempool' \in [Oracles -> Seq(BOOLEAN)]
         /\ mempool'[o] = q
         /\ \A p \in Oracles : p # o => mempool'[p] = mempool[p]
         /\ \A p \in Oracles : Len(mempool'[p]) \in Nat
<1>1. mempool' \in [Oracles -> Seq(BOOLEAN)]
  BY DEF VarTypes
<1>2. mempool'[o] = q /\ \A p \in Oracles : p # o => mempool'[p] = mempool[p]
  BY DEF VarTypes
<1>3. \A p \in Oracles : mempool'[p] \in Seq(BOOLEAN)
  BY <1>1
<1> QED
  BY <1>1, <1>2, <1>3, LenProperties

\* Whether it queues behind an older vote or replaces it, the new one is the oracle's
\* ballot and the others were there.
LEMMA AcceptedQueue ==
  ASSUME VarTypes, NEW o \in Oracles, NEW q \in Accepting(o)
  PROVE  /\ q \in Seq(BOOLEAN)
         /\ Len(q) <= Len(mempool[o]) + 1
         /\ \A i \in 1..Len(q) :
              q[i] = ballot[o] \/ \E j \in 1..Len(mempool[o]) : q[i] = mempool[o][j]
<1>1. mempool[o] \in Seq(BOOLEAN) /\ ballot[o] \in BOOLEAN /\ Len(mempool[o]) \in Nat
  BY DEF VarTypes
<1>2. CASE q = Append(mempool[o], ballot[o])
  <2>1. /\ q \in Seq(BOOLEAN) /\ Len(q) = Len(mempool[o]) + 1
        /\ \A i \in 1..Len(mempool[o]) : q[i] = mempool[o][i]
        /\ q[Len(mempool[o]) + 1] = ballot[o]
    BY <1>1, <1>2, AppendVote
  <2> QED
    BY <1>1, <2>1
<1>3. CASE q = <<ballot[o]>>
  <2>1. q \in Seq(BOOLEAN) /\ Len(q) = 1 /\ q[1] = ballot[o]
    BY <1>1, <1>3, OneVote
  <2> QED
    BY <1>1, <2>1
<1> QED
  BY <1>2, <1>3 DEF Accepting

\* The steps of a run.
LEMMA RunTypeStep ==
  ASSUME TypeInv, NEW o \in Oracles, Run(o)
  PROVE  TypeInv'
<1> USE VotingAssumption
<1>0. VarTypes /\ Resting /\ QueueInv /\ faults \in Nat
  BY DEF TypeInv, VarTypes
<1>1. CASE Look(o)
  <2>1. Finding(o) \in BOOLEAN /\ sees[o] \in BOOLEAN
    BY <1>0 DEF Finding, VarTypes
  <2>2. found' \in [Oracles -> [BOOLEAN -> 0..MaxDelay]]
    BY <1>0, <1>1, <2>1 DEF Look, VarTypes, MaxDelay
  <2>3. UNCHANGED <<mempool, votes, denied, indexed, sees, faults>>
    BY <1>1 DEF Look, chainVars
  <2>4. CASE Votes(o)
    <3>1. /\ phase[o] = "idle" /\ ~ran[o] /\ UNCHANGED ran
          /\ phase' = [phase EXCEPT ![o] = "send"]
          /\ ballot' = [ballot EXCEPT ![o] = Finding(o)]
      BY <1>1, <2>4 DEF Look
    <3>2. ballot' \in [Oracles -> BOOLEAN]
      BY <1>0, <2>1, <3>1, Zenon DEF VarTypes
    <3>3. phase' \in [Oracles -> {"idle", "send", "confirm"}]
          /\ \A p \in Oracles : phase'[p] = IF p = o THEN "send" ELSE phase[p]
      BY <1>0, <3>1 DEF VarTypes
    <3>4. VarTypes'
      BY <1>0, <2>2, <2>3, <3>1, <3>2, <3>3 DEF VarTypes
    <3>5. Resting'
      BY <1>0, <3>1, <3>3 DEF Resting
    <3>6. QueueInv'
      BY <1>0, <2>3, <3>1, <3>3 DEF QueueInv
    <3> QED
      BY <3>4, <3>5, <3>6 DEF TypeInv
  <2>5. CASE ~Votes(o)
    <3>1. EndRun(o) /\ UNCHANGED ballot /\ phase[o] = "idle"
      BY <1>1, <2>5 DEF Look
    <3>2. VarTypes'
      BY <1>0, <2>2, <2>3, <3>1, EndRunTyped DEF VarTypes
    <3>3. QueueInv'
      BY <1>0, <2>3, <3>1, EndRunTyped DEF QueueInv
    <3> QED
      BY <1>0, <3>1, <3>2, <3>3, EndRunTyped DEF TypeInv
  <2> QED
    BY <2>4, <2>5
<1>2. CASE Send(o)
  <2>1. /\ phase[o] = "send" /\ phase' = [phase EXCEPT ![o] = "confirm"]
        /\ UNCHANGED <<ballot, ran, votes, denied, indexed, sees, faults, found>>
    BY <1>2 DEF Send
  <2>2. PICK q \in Accepting(o) : mempool' = [mempool EXCEPT ![o] = q]
    BY <1>2 DEF Send
  <2>3. q \in Seq(BOOLEAN) /\ Len(q) <= Len(mempool[o]) + 1 /\ Len(mempool[o]) \in Nat
    BY <1>0, <2>2, AcceptedQueue DEF VarTypes
  <2>4. phase' \in [Oracles -> {"idle", "send", "confirm"}]
        /\ \A p \in Oracles : phase'[p] = IF p = o THEN "confirm" ELSE phase[p]
    BY <1>0, <2>1 DEF VarTypes
  <2>5. VarTypes'
    BY <1>0, <2>1, <2>2, <2>3, <2>4, QueueTyped DEF VarTypes
  <2>6. Resting'
    BY <1>0, <2>1, <2>4 DEF Resting
  <2>7. QueueInv'
    BY <1>0, <2>1, <2>2, <2>3, <2>4, QueueTyped DEF QueueInv
  <2> QED
    BY <2>5, <2>6, <2>7 DEF TypeInv
<1>3. CASE Confirmed(o)
  <2>1. EndRun(o) /\ UNCHANGED <<ballot, mempool, votes, denied, indexed, sees, faults, found>>
    BY <1>3 DEF Confirmed, chainVars
  <2>2. mempool[o] = <<>> /\ Len(mempool[o]) = 0
    BY <1>3 DEF Confirmed
  <2>3. VarTypes'
    BY <1>0, <2>1, EndRunTyped DEF VarTypes
  <2>4. QueueInv'
    BY <1>0, <2>1, <2>2, EndRunTyped DEF QueueInv
  <2> QED
    BY <1>0, <2>1, <2>3, <2>4, EndRunTyped DEF TypeInv
<1> QED
  BY <1>1, <1>2, <1>3 DEF Run

\* The failures: each leaves one transaction more behind at most.
LEMMA FailureTypeStep ==
  ASSUME TypeInv, NEW o \in Oracles, Failure(o)
  PROVE  TypeInv'
<1> USE VotingAssumption
<1>0. /\ VarTypes /\ Resting /\ QueueInv /\ faults \in Nat
      /\ \A p \in Oracles : mempool[p] \in Seq(BOOLEAN) /\ Len(mempool[p]) \in Nat
  BY DEF TypeInv, VarTypes
<1>1. CASE RunFails(o) \/ ConfirmFails(o)
  <2>1. /\ EndRun(o) /\ Fault
        /\ UNCHANGED <<ballot, mempool, votes, denied, indexed, sees, found>>
    BY <1>1 DEF RunFails, ConfirmFails, chainVars
  <2>2. VarTypes'
    BY <1>0, <2>1, EndRunTyped, FaultCounted DEF VarTypes
  <2>3. QueueInv'
    BY <1>0, <2>1, EndRunTyped, FaultCounted DEF QueueInv
  <2> QED
    BY <1>0, <2>1, <2>2, <2>3, EndRunTyped DEF TypeInv
<1>2. CASE SendFails(o)
  <2>1. /\ phase[o] = "send" /\ EndRun(o) /\ Fault
        /\ UNCHANGED <<ballot, votes, denied, indexed, sees, found>>
    BY <1>2 DEF SendFails
  <2>2. PICK q \in Accepting(o) \cup {mempool[o]} : mempool' = [mempool EXCEPT ![o] = q]
    BY <1>2 DEF SendFails
  <2>3. q \in Seq(BOOLEAN) /\ Len(q) <= Len(mempool[o]) + 1
    <3>1. CASE q \in Accepting(o)
      BY <1>0, <3>1, AcceptedQueue
    <3>2. CASE q = mempool[o]
      BY <1>0, <3>2
    <3> QED
      BY <2>2, <3>1, <3>2
  <2>4. VarTypes'
    BY <1>0, <2>1, <2>2, <2>3, EndRunTyped, QueueTyped, FaultCounted DEF VarTypes
  <2>5. QueueInv'
    BY <1>0, <2>1, <2>2, <2>3, EndRunTyped, QueueTyped, FaultCounted DEF QueueInv
  <2> QED
    BY <1>0, <2>1, <2>4, <2>5, EndRunTyped DEF TypeInv
<1>3. CASE Crash(o)
  <2>1. /\ Fault /\ phase' = [phase EXCEPT ![o] = "idle"] /\ ran' = [ran EXCEPT ![o] = FALSE]
        /\ UNCHANGED <<ballot, mempool, votes, denied, indexed, sees, found>>
    BY <1>3 DEF Crash, chainVars
  <2>2. phase' \in [Oracles -> {"idle", "send", "confirm"}]
        /\ \A p \in Oracles : phase'[p] = IF p = o THEN "idle" ELSE phase[p]
    BY <1>0, <2>1 DEF VarTypes
  <2>3. ran' \in [Oracles -> BOOLEAN] /\ \A p \in Oracles : p # o => ran'[p] = ran[p]
    BY <1>0, <2>1, Zenon DEF VarTypes
  <2>4. VarTypes'
    BY <1>0, <2>1, <2>2, <2>3, FaultCounted DEF VarTypes
  <2>5. Resting'
    BY <1>0, <2>2, <2>3 DEF Resting
  <2>6. QueueInv'
    BY <1>0, <2>1, <2>2, FaultCounted DEF QueueInv
  <2> QED
    BY <2>4, <2>5, <2>6 DEF TypeInv
<1>4. CASE Lose(o)
  <2>1. /\ mempool[o] # <<>> /\ mempool' = [mempool EXCEPT ![o] = Tail(mempool[o])] /\ Fault
        /\ UNCHANGED <<phase, ballot, ran, votes, denied, indexed, sees, found>>
    BY <1>4 DEF Lose, procVars
  <2>2. Tail(mempool[o]) \in Seq(BOOLEAN) /\ Len(Tail(mempool[o])) = Len(mempool[o]) - 1
    BY <1>0, <2>1, TailVotes
  <2>3. VarTypes'
    BY <1>0, <2>1, <2>2, QueueTyped, FaultCounted DEF VarTypes
  <2>4. QueueInv'
    BY <1>0, <2>1, <2>2, QueueTyped, FaultCounted DEF QueueInv
  <2>5. Resting'
    BY <1>0, <2>1 DEF Resting
  <2> QED
    BY <2>3, <2>4, <2>5 DEF TypeInv
<1>5. CASE Turn(o)
  <2>1. /\ Fault /\ sees' = [sees EXCEPT ![o] = ~sees[o]]
        /\ UNCHANGED <<phase, ballot, ran, mempool, votes, denied, indexed, found>>
    BY <1>5 DEF Turn, procVars, chainVars
  <2>2. sees' \in [Oracles -> BOOLEAN]
    BY <1>0, <2>1, Zenon DEF VarTypes
  <2>3. VarTypes'
    BY <1>0, <2>1, <2>2, FaultCounted DEF VarTypes
  <2>4. QueueInv' /\ Resting'
    BY <1>0, <2>1, FaultCounted DEF QueueInv, Resting
  <2> QED
    BY <2>3, <2>4 DEF TypeInv
<1> QED
  BY <1>1, <1>2, <1>3, <1>4, <1>5 DEF Failure

\* The contract, the chain and the clock.
LEMMA ChainTypeStep ==
  ASSUME TypeInv, \/ \E o \in Oracles : Mine(o)
                  \/ NewNonce \/ IndexChain \/ Tick \/ UNCHANGED vars
  PROVE  TypeInv'
<1> USE VotingAssumption
<1>0. /\ VarTypes /\ Resting /\ QueueInv /\ faults \in Nat
      /\ \A p \in Oracles : mempool[p] \in Seq(BOOLEAN) /\ Len(mempool[p]) \in Nat
  BY DEF TypeInv, VarTypes
<1>1. ASSUME NEW o \in Oracles, Mine(o)
      PROVE  TypeInv'
  <2>1. /\ mempool[o] # <<>> /\ mempool' = [mempool EXCEPT ![o] = Tail(mempool[o])]
        /\ votes' = [votes EXCEPT ![Head(mempool[o])][o] = 0]
        /\ denied' = Head(mempool[o]) \/ denied' = denied
        /\ UNCHANGED <<phase, ballot, ran, indexed, sees, faults, found>>
    BY <1>1 DEF Mine, procVars
  <2>2. Head(mempool[o]) \in BOOLEAN /\ Tail(mempool[o]) \in Seq(BOOLEAN)
        /\ Len(Tail(mempool[o])) = Len(mempool[o]) - 1
    BY <1>0, <2>1, TailVotes
  <2>3. votes' \in [BOOLEAN -> [Oracles -> 0..VoteTimeLimit]]
    <3> DEFINE deny == Head(mempool[o])
               ages == [votes[deny] EXCEPT ![o] = 0]
    <3>1. votes[deny] \in [Oracles -> 0..VoteTimeLimit]
      BY <1>0, <2>2 DEF VarTypes
    <3>2. ages \in [Oracles -> 0..VoteTimeLimit]
      BY <3>1
    <3>3. votes' = [votes EXCEPT ![deny] = ages]
      BY <2>1
    <3> HIDE DEF deny, ages
    <3> QED
      BY <1>0, <3>2, <3>3, Zenon DEF VarTypes
  <2>4. denied' \in BOOLEAN
    BY <1>0, <2>1, <2>2, Zenon DEF VarTypes
  <2>5. VarTypes'
    BY <1>0, <2>1, <2>2, <2>3, <2>4, QueueTyped DEF VarTypes
  <2>6. QueueInv'
    BY <1>0, <2>1, <2>2, QueueTyped DEF QueueInv
  <2>7. Resting'
    BY <1>0, <2>1 DEF Resting
  <2> QED
    BY <2>5, <2>6, <2>7 DEF TypeInv
<1>2. CASE NewNonce
  <2>1. /\ Fault /\ votes' = Expired
        /\ UNCHANGED <<phase, ballot, ran, mempool, denied, indexed, sees, found>>
    BY <1>2 DEF NewNonce, procVars
  <2>2. votes' \in [BOOLEAN -> [Oracles -> 0..VoteTimeLimit]]
    BY <2>1 DEF Expired
  <2>3. VarTypes'
    BY <1>0, <2>1, <2>2, FaultCounted DEF VarTypes
  <2>4. QueueInv' /\ Resting'
    BY <1>0, <2>1, FaultCounted DEF QueueInv, Resting
  <2> QED
    BY <2>3, <2>4 DEF TypeInv
<1>3. CASE IndexChain
  <2>1. /\ indexed' = denied
        /\ UNCHANGED <<phase, ballot, ran, mempool, votes, denied, sees, faults, found>>
    BY <1>3 DEF IndexChain, procVars
  <2>2. VarTypes'
    BY <1>0, <2>1, Zenon DEF VarTypes
  <2>3. QueueInv' /\ Resting'
    BY <1>0, <2>1 DEF QueueInv, Resting
  <2> QED
    BY <2>2, <2>3 DEF TypeInv
<1>4. CASE Tick
  <2>1. /\ ran' = [o \in Oracles |-> FALSE]
        /\ UNCHANGED <<phase, ballot, mempool, denied, indexed, sees>>
    BY <1>4 DEF Tick
  <2>2. votes' \in [BOOLEAN -> [Oracles -> 0..VoteTimeLimit]]
    BY <1>0, <1>4 DEF Tick, Older, VarTypes
  <2>3. found' \in [Oracles -> [BOOLEAN -> 0..MaxDelay]]
    BY <1>0, <1>4 DEF Tick, Older, VarTypes, MaxDelay
  <2>4. faults' \in 0..MaxFaults /\ faults' >= faults
    <3>1. CASE Fault
      BY <1>0, <3>1, FaultCounted
    <3>2. CASE UNCHANGED faults
      BY <1>0, <3>2 DEF VarTypes
    <3> QED
      BY <1>4, <3>1, <3>2 DEF Tick
  <2>5. ran' \in [Oracles -> BOOLEAN]
    BY <2>1
  <2>6. VarTypes'
    BY <1>0, <2>1, <2>2, <2>3, <2>4, <2>5 DEF VarTypes
  <2>7. Resting'
    BY <2>1, Zenon DEF Resting
  <2>8. QueueInv'
    BY <1>0, <2>1, <2>4 DEF QueueInv
  <2> QED
    BY <2>6, <2>7, <2>8 DEF TypeInv
<1>5. CASE UNCHANGED vars
  BY <1>5 DEF vars, procVars, chainVars, TypeInv, VarTypes, Resting, QueueInv
<1> QED
  BY <1>1, <1>2, <1>3, <1>4, <1>5

\* Every step keeps the types.
LEMMA TypeStep ==
  ASSUME TypeInv, [Next]_vars
  PROVE  TypeInv'
BY RunTypeStep, FailureTypeStep, ChainTypeStep DEF Next

\* They hold from the beginning.
LEMMA TypeInit == Init => TypeInv
BY VotingAssumption, EmptySeq
DEF Init, TypeInv, VarTypes, Resting, QueueInv, Expired, MaxDelay

\* The specification keeps the strengthened invariant.
LEMMA TypeInvariance == Spec => []TypeInv
BY TypeInit, TypeStep, PTL DEF Spec

\* The types, with the bound on the votes on their way, for every instance.
THEOREM VotingTypeCorrect == Spec => []TypeOK
BY TypeInvariance, TypeInvImpliesTypeOK, PTL

-----------------------------------------------------------------------------
(* How long ago a vote was found *)

\* Whatever an oracle is sending, has on its way or has voted was found by a run of
\* its own, no longer ago than the vote is old and faults have held it up.
BallotLate == \A o \in Oracles : phase[o] # "idle" => found[o][ballot[o]] <= faults

QueueLate == \A o \in Oracles : \A i \in 1..Len(mempool[o]) : found[o][mempool[o][i]] <= faults

VotesLate ==
  \A deny \in BOOLEAN, o \in Oracles :
    votes[deny][o] < VoteTimeLimit => found[o][deny] <= votes[deny][o] + faults

LateInv == BallotLate /\ QueueLate /\ VotesLate

\* What TypeInv says of a vote, in terms that need no functions.
LEMMA Ages ==
  ASSUME TypeInv
  PROVE  /\ faults \in Nat
         /\ \A o \in Oracles : ballot[o] \in BOOLEAN
         /\ \A o \in Oracles : mempool[o] \in Seq(BOOLEAN) /\ Len(mempool[o]) \in Nat
         /\ \A o \in Oracles : \A i \in 1..Len(mempool[o]) : mempool[o][i] \in BOOLEAN
         /\ \A o \in Oracles, deny \in BOOLEAN : found[o][deny] \in 0..MaxDelay
         /\ \A o \in Oracles, deny \in BOOLEAN : votes[deny][o] \in 0..VoteTimeLimit
         /\ MaxDelay \in Nat /\ VoteTimeLimit \in Nat /\ MaxDelay > VoteTimeLimit
<1> USE VotingAssumption
<1>1. /\ faults \in Nat
      /\ \A o \in Oracles : mempool[o] \in Seq(BOOLEAN) /\ Len(mempool[o]) \in Nat
  BY DEF TypeInv, VarTypes
<1>2. \A o \in Oracles : \A i \in 1..Len(mempool[o]) : mempool[o][i] \in BOOLEAN
  BY <1>1, ElementOfSeq
<1>3. \A o \in Oracles : ballot[o] \in BOOLEAN
  BY Zenon DEF TypeInv, VarTypes
<1>4. /\ \A o \in Oracles, deny \in BOOLEAN : found[o][deny] \in 0..MaxDelay
      /\ \A o \in Oracles, deny \in BOOLEAN : votes[deny][o] \in 0..VoteTimeLimit
  BY DEF TypeInv, VarTypes
<1> QED
  BY <1>1, <1>2, <1>3, <1>4 DEF MaxDelay

\* No finding is older than before and no fewer faults have occurred: nothing that
\* stays in its place is late.
Fresher ==
  /\ faults' \in Nat /\ faults' >= faults
  /\ \A o \in Oracles, deny \in BOOLEAN :
       found'[o][deny] \in Nat /\ found'[o][deny] <= found[o][deny]

\* An oracle that sends what it sent before is no later for it.
LEMMA BallotKept ==
  ASSUME TypeInv, BallotLate, Fresher,
         \A o \in Oracles : phase'[o] # "idle" => phase[o] # "idle" /\ ballot'[o] = ballot[o]
  PROVE  BallotLate'
<1> SUFFICES ASSUME NEW o \in Oracles, phase'[o] # "idle"
             PROVE  found'[o][ballot'[o]] <= faults'
  BY Zenon DEF BallotLate
<1> DEFINE d == ballot[o]
<1>1. d \in BOOLEAN /\ ballot'[o] = d /\ found[o][d] <= faults
  BY Ages, Zenon DEF BallotLate
<1> HIDE DEF d
<1>2. /\ found'[o][d] \in Nat /\ found'[o][d] <= found[o][d]
      /\ faults' \in Nat /\ faults' >= faults
  BY <1>1, Zenon DEF Fresher
<1>3. found[o][d] \in 0..MaxDelay /\ faults \in Nat
  BY <1>1, Ages, Zenon
<1>4. found'[o][d] <= faults'
  BY <1>1, <1>2, <1>3
<1> QED
  BY <1>1, <1>4, Zenon

\* Nor is a queue that stays as it is.
LEMMA QueueKept ==
  ASSUME TypeInv, QueueLate, Fresher, UNCHANGED mempool
  PROVE  QueueLate'
<1> SUFFICES ASSUME NEW o \in Oracles, NEW i \in 1..Len(mempool[o])
             PROVE  found'[o][mempool[o][i]] <= faults'
  BY DEF QueueLate
<1>1. mempool[o][i] \in BOOLEAN
  BY Ages, Zenon
<1> DEFINE d == mempool[o][i]
<1>2. d \in BOOLEAN /\ found[o][d] <= faults
  BY <1>1, Zenon DEF QueueLate
<1> HIDE DEF d
<1>3. /\ found'[o][d] \in Nat /\ found'[o][d] <= found[o][d]
      /\ faults' \in Nat /\ faults' >= faults
  BY <1>2, Zenon DEF Fresher
<1>4. found[o][d] \in 0..MaxDelay /\ faults \in Nat
  BY <1>2, Ages, Zenon
<1>5. found'[o][d] <= faults'
  BY <1>2, <1>3, <1>4
<1> QED
  BY <1>5 DEF d

\* Nor are votes that stay as they are.
LEMMA VotesKept ==
  ASSUME TypeInv, VotesLate, Fresher, UNCHANGED votes
  PROVE  VotesLate'
<1> SUFFICES ASSUME NEW deny \in BOOLEAN, NEW o \in Oracles, votes[deny][o] < VoteTimeLimit
             PROVE  found'[o][deny] <= votes[deny][o] + faults'
  BY Zenon DEF VotesLate
<1>1. found[o][deny] <= votes[deny][o] + faults
  BY Zenon DEF VotesLate
<1>2. /\ found'[o][deny] \in Nat /\ found'[o][deny] <= found[o][deny]
      /\ faults' \in Nat /\ faults' >= faults
  BY Zenon DEF Fresher
<1>3. found[o][deny] \in Nat /\ votes[deny][o] \in Nat /\ faults \in Nat
  <2>1. found[o][deny] \in 0..MaxDelay /\ votes[deny][o] \in 0..VoteTimeLimit /\ faults \in Nat
    BY Ages, Zenon
  <2> QED
    BY <2>1
<1> QED
  BY <1>1, <1>2, <1>3

\* Steps that leave the findings alone make nothing late.
LEMMA KeptFindings ==
  ASSUME TypeInv, UNCHANGED found, Fault \/ UNCHANGED faults
  PROVE  Fresher
<1>1. faults' \in Nat /\ faults' >= faults
  BY Ages DEF Fault
<1> QED
  BY <1>1, Ages DEF Fresher

\* A queue that takes in the ballot, in the place of a vote or behind it.
LEMMA QueueSent ==
  ASSUME TypeInv, QueueLate, UNCHANGED found, Fault \/ UNCHANGED faults,
         NEW o \in Oracles, found[o][ballot[o]] <= faults,
         \E q \in Accepting(o) : mempool' = [mempool EXCEPT ![o] = q]
  PROVE  QueueLate'
<1>0. VarTypes /\ faults' \in Nat /\ faults' >= faults
  BY Ages DEF Fault, TypeInv
<1>1. PICK q \in Accepting(o) : mempool' = [mempool EXCEPT ![o] = q]
  OBVIOUS
<1>2. q \in Seq(BOOLEAN) /\ \A i \in 1..Len(q) :
        q[i] = ballot[o] \/ \E j \in 1..Len(mempool[o]) : q[i] = mempool[o][j]
  BY <1>0, <1>1, AcceptedQueue
<1>3. mempool'[o] = q /\ \A p \in Oracles : p # o => mempool'[p] = mempool[p]
  BY <1>0, <1>1, <1>2, QueueTyped
<1>4. ASSUME NEW i \in 1..Len(q) PROVE found[o][q[i]] <= faults
  <2>1. CASE q[i] = ballot[o]
    BY <2>1
  <2>2. ASSUME NEW j \in 1..Len(mempool[o]), q[i] = mempool[o][j]
        PROVE  found[o][q[i]] <= faults
    BY <2>2 DEF QueueLate
  <2> QED
    BY <1>2, <2>1, <2>2
<1>5. \A i \in 1..Len(q) : q[i] \in BOOLEAN
  BY <1>2, ElementOfSeq
<1>6. ASSUME NEW p \in Oracles, NEW i \in 1..Len(mempool'[p])
      PROVE  found[p][mempool'[p][i]] <= faults'
  <2>1. found[p][mempool'[p][i]] <= faults /\ mempool'[p][i] \in BOOLEAN
    BY <1>3, <1>4, <1>5, Ages DEF QueueLate
  <2> QED
    BY <1>0, <2>1, Ages
<1> QED
  BY <1>6 DEF QueueLate

\* A queue whose first vote is mined or lost.
LEMMA QueueDrained ==
  ASSUME TypeInv, QueueLate, Fresher, NEW o \in Oracles, mempool[o] # <<>>,
         mempool' = [mempool EXCEPT ![o] = Tail(@)]
  PROVE  QueueLate'
<1>0. VarTypes
  BY DEF TypeInv
<1>1. /\ Tail(mempool[o]) \in Seq(BOOLEAN)
      /\ Len(Tail(mempool[o])) = Len(mempool[o]) - 1
      /\ \A i \in 1..Len(Tail(mempool[o])) : Tail(mempool[o])[i] = mempool[o][i + 1]
  BY Ages, TailVotes
<1>2. /\ mempool'[o] = Tail(mempool[o])
      /\ \A p \in Oracles : p # o => mempool'[p] = mempool[p]
  BY <1>0, <1>1, QueueTyped
<1>3. ASSUME NEW p \in Oracles, NEW i \in 1..Len(mempool'[p])
      PROVE  \E j \in 1..Len(mempool[p]) : mempool'[p][i] = mempool[p][j]
  <2>1. CASE p = o
    <3>1. Len(mempool[o]) \in Nat /\ i \in 1..(Len(mempool[o]) - 1)
      BY <1>1, <1>2, <2>1, Ages
    <3>2. i + 1 \in 1..Len(mempool[o])
      BY <3>1
    <3>3. mempool'[p][i] = mempool[o][i + 1]
      BY <1>1, <1>2, <2>1, <3>1
    <3> QED
      BY <2>1, <3>2, <3>3
  <2>2. CASE p # o
    BY <1>2, <2>2
  <2> QED
    BY <2>1, <2>2
<1>4. ASSUME NEW p \in Oracles, NEW i \in 1..Len(mempool'[p])
      PROVE  found'[p][mempool'[p][i]] <= faults'
  <2>1. PICK j \in 1..Len(mempool[p]) : mempool'[p][i] = mempool[p][j]
    BY <1>3
  <2> DEFINE d == mempool[p][j]
  <2>2. d \in BOOLEAN /\ found[p][d] <= faults
    BY Ages, Zenon DEF QueueLate
  <2> HIDE DEF d
  <2>3. /\ found'[p][d] \in Nat /\ found'[p][d] <= found[p][d]
        /\ faults' \in Nat /\ faults' >= faults
    BY <2>2, Zenon DEF Fresher
  <2>4. found[p][d] \in 0..MaxDelay /\ faults \in Nat
    BY <2>2, Ages, Zenon
  <2>5. found'[p][d] <= faults'
    BY <2>2, <2>3, <2>4
  <2> QED
    BY <2>1, <2>5 DEF d
<1> QED
  BY <1>4 DEF QueueLate

\* A vote that is mined is of a finding no older than the faults.
LEMMA MinedInTime ==
  ASSUME TypeInv, QueueLate, VotesLate, NEW o \in Oracles, Mine(o)
  PROVE  VotesLate'
<1> DEFINE deny == Head(mempool[o])
<1>1. /\ mempool[o] # <<>> /\ votes' = [votes EXCEPT ![deny][o] = 0]
      /\ UNCHANGED <<faults, found>>
  BY DEF Mine
<1>2. deny \in BOOLEAN /\ deny = mempool[o][1] /\ 1 \in 1..Len(mempool[o])
  BY <1>1, Ages, TailVotes
<1>3. found[o][deny] <= faults
  BY <1>2 DEF QueueLate
<1>4. votes \in [BOOLEAN -> [Oracles -> 0..VoteTimeLimit]]
  BY DEF TypeInv, VarTypes
<1> HIDE DEF deny
<1>5. \A d \in BOOLEAN, p \in Oracles :
        votes'[d][p] = IF d = deny /\ p = o THEN 0 ELSE votes[d][p]
  <2>1. votes'[deny] = [votes[deny] EXCEPT ![o] = 0] /\ votes[deny] \in [Oracles -> 0..VoteTimeLimit]
    BY <1>1, <1>2, <1>4, Zenon
  <2>2. \A p \in Oracles : votes'[deny][p] = IF p = o THEN 0 ELSE votes[deny][p]
    BY <2>1
  <2>3. \A d \in BOOLEAN : d # deny => votes'[d] = votes[d]
    BY <1>1, <1>4, Zenon
  <2> QED
    BY <2>2, <2>3, Zenon
<1> SUFFICES ASSUME NEW d \in BOOLEAN, NEW p \in Oracles, votes'[d][p] < VoteTimeLimit
             PROVE  found[p][d] <= votes'[d][p] + faults
  BY <1>1 DEF VotesLate
<1>6. CASE d = deny /\ p = o
  <2>1. votes'[d][p] = 0
    BY <1>5, <1>6, Zenon
  <2> QED
    BY <1>3, <1>6, <2>1, Ages
<1>7. CASE ~(d = deny /\ p = o)
  <2>1. votes'[d][p] = votes[d][p]
    BY <1>5, <1>7, Zenon
  <2> QED
    BY <2>1 DEF VotesLate
<1> QED
  BY <1>6, <1>7

-----------------------------------------------------------------------------

\* A run finds, sends and waits within a period, and later only by faults.
LEMMA RunLate ==
  ASSUME TypeInv, LateInv, NEW o \in Oracles, Run(o)
  PROVE  LateInv'
<1>0. BallotLate /\ QueueLate /\ VotesLate
  BY DEF LateInv
<1>1. CASE Look(o)
  <2>1. /\ found' = [found EXCEPT ![o][sees[o]] = 0]
        /\ UNCHANGED <<mempool, votes, faults>>
    BY <1>1 DEF Look, chainVars
  <2>2. sees[o] \in BOOLEAN
    BY Zenon DEF TypeInv, VarTypes
  <2>3. found \in [Oracles -> [BOOLEAN -> 0..MaxDelay]]
    BY DEF TypeInv, VarTypes
  <2>4. \A p \in Oracles, deny \in BOOLEAN :
          found'[p][deny] = IF p = o /\ deny = sees[o] THEN 0 ELSE found[p][deny]
    <3>1. found'[o] = [found[o] EXCEPT ![sees[o]] = 0]
      BY <2>1, <2>3
    <3>2. found[o] \in [BOOLEAN -> 0..MaxDelay]
      BY <2>3
    <3>3. \A deny \in BOOLEAN : found'[o][deny] = IF deny = sees[o] THEN 0 ELSE found[o][deny]
      BY <3>1, <3>2, Zenon
    <3>4. \A p \in Oracles : p # o => found'[p] = found[p]
      BY <2>1, <2>3
    <3> QED
      BY <3>3, <3>4, Zenon
  <2>5. Fresher
    BY <2>1, <2>4, Ages DEF Fresher
  <2>6. BallotLate'
    <3>1. CASE Votes(o)
      <4>1. /\ phase' = [phase EXCEPT ![o] = "send"]
            /\ ballot' = [ballot EXCEPT ![o] = sees[o]]
        BY <1>1, <3>1 DEF Look, Finding
      <4>2. ballot'[o] = sees[o] /\ \A p \in Oracles : p # o => ballot'[p] = ballot[p]
        BY <4>1, Zenon DEF TypeInv, VarTypes
      <4>3. \A p \in Oracles : p # o => phase'[p] = phase[p]
        BY <4>1 DEF TypeInv, VarTypes
      <4>4. found'[o][ballot'[o]] = 0
        BY <2>2, <2>4, <4>2, Zenon
      <4>5. ASSUME NEW p \in Oracles, p # o, phase'[p] # "idle"
            PROVE  found'[p][ballot'[p]] <= faults'
        <5>1. ballot[p] \in BOOLEAN /\ found[p][ballot[p]] <= faults
          BY <1>0, <4>3, <4>5, Ages DEF BallotLate
        <5> QED
          BY <2>5, <4>2, <4>5, <5>1, Ages DEF Fresher
      <4> QED
        BY <2>1, <4>4, <4>5, Ages DEF BallotLate
    <3>2. CASE ~Votes(o)
      <4>1. EndRun(o) /\ UNCHANGED ballot
        BY <1>1, <3>2 DEF Look
      <4>2. \A p \in Oracles : phase'[p] # "idle" => phase[p] # "idle"
        BY <4>1, EndRunTyped DEF TypeInv
      <4> QED
        BY <1>0, <2>5, <4>1, <4>2, BallotKept
    <3> QED
      BY <3>1, <3>2
  <2> QED
    BY <1>0, <2>1, <2>5, <2>6, QueueKept, VotesKept DEF LateInv
<1>2. CASE Send(o)
  <2>1. /\ phase[o] = "send" /\ phase' = [phase EXCEPT ![o] = "confirm"]
        /\ UNCHANGED <<ballot, votes, faults, found>>
    BY <1>2 DEF Send
  <2>2. Fresher
    BY <2>1, KeptFindings
  <2>3. \A p \in Oracles : phase'[p] # "idle" => phase[p] # "idle"
    BY <2>1 DEF TypeInv, VarTypes
  <2>4. QueueLate'
    BY <1>0, <1>2, <2>1, QueueSent DEF Send, BallotLate
  <2> QED
    BY <1>0, <2>1, <2>2, <2>3, <2>4, BallotKept, VotesKept DEF LateInv
<1>3. CASE Confirmed(o)
  <2>1. EndRun(o) /\ UNCHANGED <<ballot, mempool, votes, faults, found>>
    BY <1>3 DEF Confirmed, chainVars
  <2>2. Fresher
    BY <2>1, KeptFindings
  <2>3. \A p \in Oracles : phase'[p] # "idle" => phase[p] # "idle"
    BY <2>1, EndRunTyped DEF TypeInv
  <2> QED
    BY <1>0, <2>1, <2>2, <2>3, BallotKept, QueueKept, VotesKept DEF LateInv
<1> QED
  BY <1>1, <1>2, <1>3 DEF Run

\* A failure that leaves something on its way is a fault.
LEMMA FailureLate ==
  ASSUME TypeInv, LateInv, NEW o \in Oracles, Failure(o)
  PROVE  LateInv'
<1>0. BallotLate /\ QueueLate /\ VotesLate /\ VarTypes /\ Resting
  BY DEF LateInv, TypeInv
<1>1. Fault /\ UNCHANGED <<ballot, votes, found>>
  BY DEF Failure, RunFails, SendFails, ConfirmFails, Crash, Lose, Turn, procVars, chainVars
<1>2. Fresher
  BY <1>1, KeptFindings
<1>3. \A p \in Oracles : phase'[p] # "idle" => phase[p] # "idle"
  <2>1. CASE EndRun(o)
    BY <1>0, <2>1, EndRunTyped
  <2>2. CASE phase' = [phase EXCEPT ![o] = "idle"]
    BY <1>0, <2>2 DEF VarTypes
  <2>3. CASE UNCHANGED phase
    BY <2>3
  <2> QED
    BY <2>1, <2>2, <2>3
    DEF Failure, RunFails, SendFails, ConfirmFails, Crash, Lose, Turn, procVars
<1>4. QueueLate'
  <2>1. CASE SendFails(o)
    <3>1. phase[o] = "send"
      BY <2>1 DEF SendFails
    <3>2. PICK q \in Accepting(o) \cup {mempool[o]} : mempool' = [mempool EXCEPT ![o] = q]
      BY <2>1 DEF SendFails
    <3>3. CASE q \in Accepting(o)
      BY <1>0, <1>1, <3>1, <3>2, <3>3, QueueSent DEF BallotLate
    <3>4. CASE q = mempool[o]
      <4>1. UNCHANGED mempool
        BY <1>0, <3>2, <3>4 DEF VarTypes
      <4> QED
        BY <1>0, <1>2, <4>1, QueueKept
    <3> QED
      BY <3>2, <3>3, <3>4
  <2>2. CASE Lose(o)
    BY <1>0, <1>2, <2>2, QueueDrained DEF Lose
  <2>3. CASE UNCHANGED mempool
    BY <1>0, <1>2, <2>3, QueueKept
  <2> QED
    BY <2>1, <2>2, <2>3 DEF Failure, RunFails, ConfirmFails, Crash, Turn, chainVars
<1> QED
  BY <1>0, <1>1, <1>2, <1>3, <1>4, BallotKept, VotesKept DEF LateInv

\* The chain takes votes off a queue, or voids them.
LEMMA ChainLate ==
  ASSUME TypeInv, LateInv, \/ \E o \in Oracles : Mine(o)
                           \/ NewNonce \/ IndexChain \/ UNCHANGED vars
  PROVE  LateInv'
<1>0. BallotLate /\ QueueLate /\ VotesLate /\ VarTypes
  BY DEF LateInv, TypeInv
<1>1. UNCHANGED <<phase, ballot, found>> /\ (Fault \/ UNCHANGED faults)
  BY DEF Mine, NewNonce, IndexChain, vars, procVars
<1>2. Fresher
  BY <1>1, KeptFindings
<1>3. BallotLate'
  BY <1>0, <1>1, <1>2, BallotKept
<1>4. CASE \E o \in Oracles : Mine(o)
  <2>1. PICK o \in Oracles : Mine(o)
    BY <1>4
  <2>2. QueueLate'
    BY <1>0, <1>2, <2>1, QueueDrained DEF Mine
  <2>3. VotesLate'
    BY <1>0, <2>1, MinedInTime
  <2> QED
    BY <1>3, <2>2, <2>3 DEF LateInv
<1>5. CASE NewNonce
  <2>1. UNCHANGED mempool /\ votes' = Expired
    BY <1>5 DEF NewNonce
  <2>2. VotesLate'
    BY <2>1, Ages DEF VotesLate, Expired
  <2> QED
    BY <1>0, <1>2, <1>3, <2>1, <2>2, QueueKept DEF LateInv
<1>6. CASE IndexChain \/ UNCHANGED vars
  <2>1. UNCHANGED <<mempool, votes>>
    BY <1>6 DEF IndexChain, vars, chainVars
  <2> QED
    BY <1>0, <1>2, <1>3, <2>1, QueueKept, VotesKept DEF LateInv
<1> QED
  BY <1>4, <1>5, <1>6

\* A period passes with a fault, which everything that is late may be late by, or
\* with no oracle in a run and nothing on its way.
LEMMA TickLate ==
  ASSUME TypeInv, LateInv, Tick
  PROVE  LateInv'
<1>0. BallotLate /\ QueueLate /\ VotesLate /\ Resting
  BY DEF LateInv, TypeInv
<1>1. /\ UNCHANGED <<phase, ballot, mempool>>
      /\ \A o \in Oracles, deny \in BOOLEAN :
           /\ votes'[deny][o] = Older(votes[deny][o], VoteTimeLimit)
           /\ found'[o][deny] = Older(found[o][deny], MaxDelay)
  BY DEF Tick
<1>2. \A o \in Oracles, deny \in BOOLEAN :
        /\ found'[o][deny] \in Nat /\ found'[o][deny] <= found[o][deny] + 1
        /\ votes'[deny][o] \in Nat
        /\ votes'[deny][o] < VoteTimeLimit => votes'[deny][o] = votes[deny][o] + 1
  <2> TAKE o \in Oracles, deny \in BOOLEAN
  <2>1. /\ found[o][deny] \in 0..MaxDelay /\ votes[deny][o] \in 0..VoteTimeLimit
        /\ MaxDelay \in Nat /\ VoteTimeLimit \in Nat
    BY Ages
  <2>2. /\ votes'[deny][o] = Older(votes[deny][o], VoteTimeLimit)
        /\ found'[o][deny] = Older(found[o][deny], MaxDelay)
    BY <1>1
  <2> QED
    BY <2>1, <2>2 DEF Older
<1>3. faults' \in Nat /\ faults' >= faults
  BY Ages DEF Tick, Fault
<1>4. VotesLate'
  <2> SUFFICES ASSUME NEW deny \in BOOLEAN, NEW o \in Oracles, votes'[deny][o] < VoteTimeLimit
               PROVE  found'[o][deny] <= votes'[deny][o] + faults'
    BY DEF VotesLate
  <2>1. votes'[deny][o] = votes[deny][o] + 1 /\ votes[deny][o] < VoteTimeLimit
    BY <1>2, Ages
  <2>2. found[o][deny] <= votes[deny][o] + faults
    BY <1>0, <2>1 DEF VotesLate
  <2>3. faults \in Nat /\ found[o][deny] \in Nat /\ votes[deny][o] \in Nat
    BY Ages
  <2>4. found'[o][deny] \in Nat /\ found'[o][deny] <= found[o][deny] + 1
    BY <1>2
  <2> QED
    BY <1>3, <2>1, <2>2, <2>3, <2>4
<1>5. CASE Fault
  <2>1. faults' = faults + 1
    BY <1>5 DEF Fault
  <2>2. BallotLate'
    <3> SUFFICES ASSUME NEW o \in Oracles, phase[o] # "idle"
                 PROVE  found'[o][ballot[o]] <= faults'
      BY <1>1 DEF BallotLate
    <3>1. ballot[o] \in BOOLEAN /\ found[o][ballot[o]] <= faults
      BY <1>0, Ages DEF BallotLate
    <3> QED
      BY <1>2, <2>1, <3>1, Ages
  <2>3. QueueLate'
    <3> SUFFICES ASSUME NEW o \in Oracles, NEW i \in 1..Len(mempool[o])
                 PROVE  found'[o][mempool[o][i]] <= faults'
      BY <1>1 DEF QueueLate
    <3>1. mempool[o][i] \in BOOLEAN /\ found[o][mempool[o][i]] <= faults
      BY <1>0, Ages DEF QueueLate
    <3> QED
      BY <1>2, <2>1, <3>1, Ages
  <2> QED
    BY <1>4, <2>2, <2>3 DEF LateInv
<1>6. CASE \A o \in Oracles : ran[o] /\ mempool[o] = <<>>
  <2>1. BallotLate'
    BY <1>0, <1>1, <1>6 DEF BallotLate, Resting
  <2>2. \A o \in Oracles : Len(mempool[o]) = 0
    BY <1>6
  <2>3. QueueLate'
    BY <1>1, <2>2 DEF QueueLate
  <2> QED
    BY <1>4, <2>1, <2>3 DEF LateInv
<1> QED
  BY <1>5, <1>6 DEF Tick

\* Every step keeps it.
LEMMA LateStep ==
  ASSUME TypeInv, LateInv, [Next]_vars
  PROVE  LateInv'
BY RunLate, FailureLate, ChainLate, TickLate DEF Next

\* It holds from the beginning, where there are no votes.
LEMMA LateInit == Init => LateInv
<1> SUFFICES ASSUME Init PROVE LateInv
  OBVIOUS
<1>1. BallotLate
  BY DEF Init, BallotLate
<1>2. \A o \in Oracles : Len(mempool[o]) = 0
  BY DEF Init
<1>3. QueueLate
  BY <1>2 DEF QueueLate
<1>4. VotesLate
  BY VotingAssumption DEF Init, VotesLate, Expired
<1> QED
  BY <1>1, <1>3, <1>4 DEF LateInv

-----------------------------------------------------------------------------

\* A vote counts for its limit, and the run that found it was before the vote by no
\* more periods than there were faults.
LEMMA RecentVotesFoundLately ==
  ASSUME TypeInv, NEW deny \in BOOLEAN, NEW ages, Enough(ages),
         \A o \in Oracles : ages[o] \in 0..VoteTimeLimit,
         \A o \in Oracles : ages[o] < VoteTimeLimit => found[o][deny] <= ages[o] + faults
  PROVE  Cardinality({o \in Oracles : found[o][deny] < VoteTimeLimit + faults}) >= Threshold
<1> DEFINE recent == {o \in Oracles : ages[o] < VoteTimeLimit}
           lately == {o \in Oracles : found[o][deny] < VoteTimeLimit + faults}
<1>1. recent \subseteq lately
  BY Ages
<1>2. IsFiniteSet(Oracles)
  BY VotingAssumption
<1>3. IsFiniteSet(lately) /\ lately \subseteq Oracles
  BY <1>2, FS_Subset
<1>4. IsFiniteSet(recent) /\ Cardinality(recent) <= Cardinality(lately)
  BY <1>1, <1>3, FS_Subset
<1>5. Cardinality(recent) \in Nat /\ Cardinality(lately) \in Nat
  BY <1>3, <1>4, FS_CardinalityType
<1>6. Cardinality(recent) >= Threshold /\ Threshold \in Nat
  <2>1. Cardinality(Oracles) \in Nat
    BY <1>2, FS_CardinalityType
  <2> QED
    BY <2>1, VotingAssumption DEF Enough
<1> QED
  BY <1>4, <1>5, <1>6

\* For any number of oracles, any majority and any number of faults, the flag
\* changes only to what enough oracles found lately.
THEOREM FlipsHaveRecentQuorum == Spec => FlipHasRecentQuorum
<1>1. TypeInv /\ TypeInv' /\ LateInv' /\ [Next]_vars =>
        [denied' # denied =>
           Cardinality({o \in Oracles : found[o][denied'] < VoteTimeLimit + faults}) >= Threshold]_vars
  <2> SUFFICES ASSUME TypeInv, TypeInv', LateInv', Next, denied' # denied
               PROVE  Cardinality({o \in Oracles : found[o][denied'] < VoteTimeLimit + faults})
                        >= Threshold
    OBVIOUS
  <2>1. \E o \in Oracles : Mine(o)
    BY DEF Next, Run, Look, Send, Confirmed, Failure, RunFails, SendFails, ConfirmFails, Crash,
           Lose, Turn, NewNonce, IndexChain, Tick, chainVars
  <2>2. /\ UNCHANGED <<found, faults>>
        /\ Enough(votes'[denied'])
    BY <2>1 DEF Mine
  <2>3. denied' \in BOOLEAN /\ VotesLate'
    BY Zenon DEF TypeInv, VarTypes, LateInv
  <2>4. \A o \in Oracles : votes'[denied'][o] \in 0..VoteTimeLimit
    BY <2>3 DEF TypeInv, VarTypes
  <2>5. \A o \in Oracles : votes'[denied'][o] < VoteTimeLimit =>
          found[o][denied'] <= votes'[denied'][o] + faults
    BY <2>2, <2>3 DEF VotesLate
  <2> QED
    BY <2>2, <2>3, <2>4, <2>5, RecentVotesFoundLately
<1> QED
  BY TypeInvariance, LateInit, LateStep, <1>1, PTL DEF Spec, FlipHasRecentQuorum

\* While a majority of the oracles has for so long not found what the flag does not
\* show, the flag stays as it is: two quorums have an oracle in common.
THEOREM MajorityIsNotOverruled ==
  Spec => [][Cardinality({o \in Oracles : ~(found[o][denied'] < VoteTimeLimit + faults)})
               >= Threshold => UNCHANGED denied]_vars
<1>1. TypeInv /\
      [denied' # denied =>
         Cardinality({o \in Oracles : found[o][denied'] < VoteTimeLimit + faults}) >= Threshold]_vars
        => [Cardinality({o \in Oracles : ~(found[o][denied'] < VoteTimeLimit + faults)})
               >= Threshold => UNCHANGED denied]_vars
  <2> DEFINE lately == {o \in Oracles : found[o][denied'] < VoteTimeLimit + faults}
             others == {o \in Oracles : ~(found[o][denied'] < VoteTimeLimit + faults)}
  <2>1. IsFiniteSet(Oracles) /\ lately \subseteq Oracles /\ others = Oracles \ lately
    BY VotingAssumption
  <2>2. Cardinality(others) = Cardinality(Oracles) - Cardinality(lately \cap Oracles)
    <3> HIDE DEF lately, others
    <3> QED
      BY <2>1, FS_Difference
  <2>3. lately \cap Oracles = lately
    BY <2>1
  <2>4. Cardinality(Oracles) \in Nat /\ Cardinality(lately) \in Nat
    BY <2>1, FS_CardinalityType, FS_Subset
  <2>5. ~(Cardinality(lately) >= Threshold /\ Cardinality(others) >= Threshold)
    <3> HIDE DEF lately, others
    <3> QED
      BY <2>2, <2>3, <2>4, VotingAssumption
  <2> QED
    BY <2>5 DEF vars
<1> QED
  BY TypeInvariance, FlipsHaveRecentQuorum, <1>1, PTL DEF FlipHasRecentQuorum

-----------------------------------------------------------------------------
(* What is decided *)

\* Who does not come to see the deployment otherwise is counted for no status that it
\* was not counted for before.
LEMMA NoNewSpeaker ==
  ASSUME TypeInv, [Next]_vars, sees' = sees, NEW o \in Oracles, NEW deny \in BOOLEAN,
         Speaks(o, deny)'
  PROVE  Speaks(o, deny)
<1>0. /\ VarTypes /\ mempool[o] \in Seq(BOOLEAN) /\ Len(mempool[o]) \in Nat
      /\ DOMAIN mempool[o] = 1..Len(mempool[o])
      /\ votes[deny][o] \in 0..VoteTimeLimit /\ VoteTimeLimit \in Nat
  BY VotingAssumption, LenProperties DEF TypeInv, VarTypes
<1>1. CASE votes'[deny][o] < VoteTimeLimit
  <2>1. CASE votes' = votes
    BY <1>1, <2>1 DEF Speaks
  <2>2. CASE NewNonce
    BY <1>0, <1>1, <2>2 DEF NewNonce, Expired
  <2>3. CASE Tick
    BY <1>0, <1>1, <2>3 DEF Tick, Older, Speaks
  <2>4. ASSUME NEW p \in Oracles, Mine(p)
        PROVE  Speaks(o, deny)
    <3>1. mempool[p] \in Seq(BOOLEAN) /\ mempool[p] # <<>>
      BY <1>0, <2>4 DEF VarTypes, Mine
    <3>2. Head(mempool[p]) = mempool[p][1] /\ 1 \in DOMAIN mempool[p]
      BY <3>1, TailVotes, LenProperties
    <3>3. votes' = [votes EXCEPT ![Head(mempool[p])][p] = 0]
      BY <2>4 DEF Mine
    <3>4. \/ votes'[deny][o] = votes[deny][o]
          \/ o = p /\ deny = Head(mempool[p])
      BY <1>0, <3>3 DEF VarTypes
    <3> QED
      BY <1>1, <3>2, <3>4 DEF Speaks
  <2>5. votes' = votes \/ NewNonce \/ Tick \/ \E p \in Oracles : Mine(p)
    BY DEF Next, vars, chainVars, Run, Look, Send, Confirmed, Failure, RunFails, SendFails,
           ConfirmFails, Crash, Lose, Turn, IndexChain
  <2> QED
    BY <2>1, <2>2, <2>3, <2>4, <2>5
<1>2. CASE \E i \in DOMAIN mempool'[o] : mempool'[o][i] = deny
  <2>1. CASE mempool'[o] = mempool[o]
    BY <1>2, <2>1 DEF Speaks
  <2>2. ASSUME NEW p \in Oracles, Send(p) \/ SendFails(p)
        PROVE  Speaks(o, deny)
    <3>1. /\ phase[p] = "send"
          /\ \E q \in Accepting(p) \cup {mempool[p]} : mempool' = [mempool EXCEPT ![p] = q]
      BY <2>2 DEF Send, SendFails
    <3>2. PICK q \in Accepting(p) \cup {mempool[p]} : mempool' = [mempool EXCEPT ![p] = q]
      BY <3>1
    <3>3. CASE p = o /\ q \in Accepting(p)
      <4>1. /\ q \in Seq(BOOLEAN)
            /\ \A i \in 1..Len(q) :
                 q[i] = ballot[o] \/ \E j \in 1..Len(mempool[o]) : q[i] = mempool[o][j]
        BY <1>0, <3>3, AcceptedQueue
      <4>2. mempool'[o] = q /\ DOMAIN q = 1..Len(q)
        BY <1>0, <3>2, <3>3, <4>1, LenProperties DEF VarTypes
      <4>3. PICK i \in 1..Len(q) : q[i] = deny
        BY <1>2, <4>2
      <4>4. CASE q[i] = ballot[o]
        BY <3>1, <3>3, <4>3, <4>4, Zenon DEF Speaks
      <4>5. CASE \E j \in 1..Len(mempool[o]) : q[i] = mempool[o][j]
        BY <1>0, <4>3, <4>5, Zenon DEF Speaks
      <4> QED
        BY <4>1, <4>4, <4>5
    <3>4. CASE p # o \/ q = mempool[p]
      <4>1. mempool'[o] = mempool[o]
        BY <1>0, <3>2, <3>4 DEF VarTypes
      <4> QED
        BY <2>1, <4>1
    <3> QED
      BY <3>2, <3>3, <3>4
  <2>3. ASSUME NEW p \in Oracles, Mine(p) \/ Lose(p)
        PROVE  Speaks(o, deny)
    <3>1. mempool[p] # <<>> /\ mempool' = [mempool EXCEPT ![p] = Tail(@)]
      BY <2>3 DEF Mine, Lose
    <3>2. CASE p = o
      <4>1. /\ Tail(mempool[o]) \in Seq(BOOLEAN) /\ mempool'[o] = Tail(mempool[o])
            /\ Len(Tail(mempool[o])) = Len(mempool[o]) - 1
            /\ \A i \in 1..Len(Tail(mempool[o])) : Tail(mempool[o])[i] = mempool[o][i + 1]
        BY <1>0, <3>1, <3>2, TailVotes DEF VarTypes
      <4>2. DOMAIN Tail(mempool[o]) = 1..Len(Tail(mempool[o]))
        BY <4>1, LenProperties
      <4>3. PICK i \in 1..Len(Tail(mempool[o])) : Tail(mempool[o])[i] = deny
        BY <1>2, <4>1, <4>2
      <4>4. i + 1 \in DOMAIN mempool[o] /\ mempool[o][i + 1] = deny
        BY <1>0, <4>1, <4>3
      <4> QED
        BY <4>4 DEF Speaks
    <3>3. CASE p # o
      <4>1. mempool'[o] = mempool[o]
        BY <1>0, <3>1, <3>3 DEF VarTypes
      <4> QED
        BY <2>1, <4>1
    <3> QED
      BY <3>2, <3>3
  <2>4. mempool' = mempool \/ \E p \in Oracles : Send(p) \/ SendFails(p) \/ Mine(p) \/ Lose(p)
    BY DEF Next, vars, chainVars, Run, Look, Confirmed, Failure, RunFails,
           ConfirmFails, Crash, Turn, IndexChain, NewNonce, Tick
  <2> QED
    BY <2>1, <2>2, <2>3, <2>4
<1>3. CASE phase'[o] = "send" /\ ballot'[o] = deny
  <2>1. CASE UNCHANGED <<phase, ballot>>
    BY <1>3, <2>1 DEF Speaks
  <2>2. ASSUME NEW p \in Oracles, Look(p)
        PROVE  Speaks(o, deny)
    <3>1. CASE p = o
      <4>1. ballot'[o] = sees[o]
        BY <1>0, <1>3, <2>2, <3>1 DEF Look, EndRun, Finding, VarTypes
      <4> QED
        BY <1>3, <4>1 DEF Speaks
    <3>2. CASE p # o
      BY <1>0, <1>3, <2>2, <3>2 DEF Look, EndRun, VarTypes, Speaks
    <3> QED
      BY <3>1, <3>2
  <2>3. ASSUME NEW p \in Oracles, NEW to \in {"idle", "confirm"}, ballot' = ballot,
               phase' = [phase EXCEPT ![p] = to]
        PROVE  Speaks(o, deny)
    BY <1>0, <1>3, <2>3 DEF VarTypes, Speaks
  <2>4. \/ UNCHANGED <<phase, ballot>> \/ \E p \in Oracles : Look(p)
        \/ \E p \in Oracles : \E to \in {"idle", "confirm"} :
             ballot' = ballot /\ phase' = [phase EXCEPT ![p] = to]
    BY DEF Next, vars, procVars, Run, Send, Confirmed, Failure, RunFails, SendFails, EndRun,
           ConfirmFails, Crash, Lose, Turn, IndexChain, NewNonce, Tick, Mine
  <2> QED
    BY <2>1, <2>2, <2>3, <2>4
<1>4. CASE sees'[o] = deny
  BY <1>4 DEF Speaks
<1> QED
  BY <1>1, <1>2, <1>3, <1>4 DEF Speaks

\* The flag turns only to what enough oracles are counted for.
LEMMA TurnsToSpoken ==
  ASSUME [Next]_vars, NEW deny \in BOOLEAN, denied # deny, denied' = deny
  PROVE  Cardinality({o \in Oracles : Speaks(o, deny)'}) >= Threshold
<1>1. \E o \in Oracles : Mine(o)
  BY DEF Next, vars, Run, Look, Send, Confirmed, Failure, RunFails, SendFails, ConfirmFails, Crash,
         Lose, Turn, NewNonce, IndexChain, Tick, chainVars
<1>2. Enough(votes'[deny])
  BY <1>1 DEF Mine
<1> DEFINE young    == {o \in Oracles : votes'[deny][o] < VoteTimeLimit}
           speakers == {o \in Oracles : Speaks(o, deny)'}
<1>3. young \subseteq speakers
  BY DEF Speaks
<1>4. speakers \subseteq Oracles /\ IsFiniteSet(Oracles)
  BY VotingAssumption
<1>5. Cardinality(young) >= Threshold
  BY <1>2 DEF Enough
<1> HIDE DEF young, speakers
<1>6. IsFiniteSet(speakers)
  BY <1>4, FS_Subset
<1>7. Cardinality(young) <= Cardinality(speakers) /\ IsFiniteSet(young)
  BY <1>3, <1>6, FS_Subset
<1>8. /\ Cardinality(young) \in Nat /\ Cardinality(speakers) \in Nat
      /\ Cardinality(Oracles) \in Nat
  BY <1>4, <1>6, <1>7, FS_CardinalityType
<1>9. Cardinality(speakers) >= Threshold
  BY <1>5, <1>7, <1>8, VotingAssumption
<1> QED
  BY <1>9 DEF speakers

\* A step in which no oracle changes its mind keeps what is decided.
LEMMA DecidedStep ==
  ASSUME TypeInv, TypeInv', [Next]_vars, sees' = sees, NEW deny \in BOOLEAN, Decided(deny)
  PROVE  Decided(deny)'
<1> DEFINE before == {o \in Oracles : Speaks(o, ~deny)}
           after  == {o \in Oracles : Speaks(o, ~deny)'}
<1>1. after \subseteq before
  <2>1. (~deny) \in BOOLEAN
    OBVIOUS
  <2>2. \A o \in Oracles : Speaks(o, ~deny)' => Speaks(o, ~deny)
    BY <2>1, NoNewSpeaker
  <2> QED
    BY <2>2
<1>2. before \subseteq Oracles /\ IsFiniteSet(Oracles)
  BY VotingAssumption
<1>3. denied = deny /\ Cardinality(before) < Threshold
  BY DEF Decided
<1>4. ASSUME denied' # deny
      PROVE  Cardinality(after) >= Threshold
  <2>1. denied' \in BOOLEAN
    BY Zenon DEF TypeInv, VarTypes
  <2>2. denied' = ~deny /\ (~deny) \in BOOLEAN /\ denied # ~deny
    <3>1. CASE deny = TRUE
      BY <1>3, <1>4, <2>1, <3>1
    <3>2. CASE deny = FALSE
      BY <1>3, <1>4, <2>1, <3>2
    <3> QED
      BY <3>1, <3>2
  <2> QED
    BY <2>2, TurnsToSpoken
<1>5. after = {o \in Oracles : Speaks(o, ~deny)}'
  OBVIOUS
<1> HIDE DEF before, after
<1>6. IsFiniteSet(before) /\ IsFiniteSet(after) /\ Cardinality(after) <= Cardinality(before)
  BY <1>1, <1>2, FS_Subset
<1>7. /\ Cardinality(before) \in Nat /\ Cardinality(after) \in Nat /\ Threshold \in Int
  <2>1. Cardinality(Oracles) \in Nat
    BY <1>2, FS_CardinalityType
  <2> QED
    BY <1>6, <2>1, FS_CardinalityType, VotingAssumption
<1>8. Cardinality(after) < Threshold
  BY <1>3, <1>6, <1>7
<1>9. denied' = deny
  BY <1>4, <1>7, <1>8
<1> QED
  BY <1>5, <1>8, <1>9 DEF Decided

\* For any number of oracles and any majority, what too few can still be counted
\* against stays until one of them comes to see the deployment otherwise.
THEOREM DecidedIsStable == Spec => DecidedStays
<1>1. TypeInv /\ TypeInv' /\ [Next]_vars =>
        [sees' = sees => \A deny \in BOOLEAN : Decided(deny) => Decided(deny)']_vars
  BY DecidedStep
<1> QED
  BY TypeInvariance, <1>1, PTL DEF Spec, DecidedStays

=============================================================================
