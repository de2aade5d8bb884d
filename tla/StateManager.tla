---------------------------- MODULE StateManager ----------------------------
(***************************************************************************)
(* The StateManager trait of availability-oracle/src/contract.rs as the    *)
(* RewardsManager configuration implements it: deny_many cuts the vector   *)
(* denied_status into chunks, and for each chunk estimates the gas, sends  *)
(* one transaction and waits for it.  The transactions go through the      *)
(* node's mempool to the contract, whose denylist is `flags'.              *)
(*                                                                         *)
(* Every await of the code is a step boundary.  The module knows nothing   *)
(* of the caller: Reconcile calls DenyMany and reads the phase it ends in. *)
(***************************************************************************)
EXTENDS Naturals, Sequences

CONSTANTS
  Deployments,  \* the deployment ids ([u8; 32])
  ChunkSize     \* entries per transaction: 100 in the code

ASSUME ChunkAssumption == ChunkSize \in Nat \ {0}

VARIABLES
  todo,     \* the entries of denied_status not yet dealt with, in order
  phase,    \* where deny_many stands: which await it is in, or its result
  mempool,  \* transactions the node accepted and has not resolved, by nonce
  flags     \* the contract's denylist: is the deployment denied

smVars == <<todo, phase, mempool, flags>>

Status == [id : Deployments, deny : BOOLEAN]

Phases == {"idle", "estimate", "send", "confirm", "ok", "err"}

\* The chunk of the current loop iteration.
Chunk == SubSeq(todo, 1, IF Len(todo) < ChunkSize THEN Len(todo) ELSE ChunkSize)

\* Mutant of Rest: windows() in the place of chunks().
RestOfWindow == SubSeq(todo, 2, Len(todo))

\* Mutant of Rest: the last entry of a chunk is the first of the next.
RestFromLast == SubSeq(todo, Len(Chunk), Len(todo))

\* What the later iterations get.
Rest == SubSeq(todo, Len(Chunk) + 1, Len(todo))

-----------------------------------------------------------------------------
(* The contract *)

\* Entry j of a transaction decides d's flag when no later entry has the same id.
Decides(tx, j, d) ==
  /\ tx[j].id = d
  /\ \A k \in DOMAIN tx : k > j => tx[k].id # d

\* setDeniedMany: the entries are applied in order.
Applied(tx) ==
  [d \in Deployments |->
     IF \E j \in DOMAIN tx : Decides(tx, j, d)
     THEN tx[CHOOSE j \in DOMAIN tx : Decides(tx, j, d)].deny
     ELSE flags[d]]

-----------------------------------------------------------------------------
(* deny_many *)

\* The call.  With no entries the loop body never runs and the result is Ok.
DenyMany(list) ==
  /\ phase = "idle"
  /\ todo' = list
  /\ phase' = IF list = <<>> THEN "ok" ELSE "estimate"
  /\ UNCHANGED <<mempool, flags>>

EstimateOk ==
  /\ phase = "estimate"
  /\ phase' = "send"
  /\ UNCHANGED <<todo, mempool, flags>>

\* A failed gas estimate is logged and ends the whole call with Ok(()): this
\* chunk and the ones after it are not sent.
EstimateFails ==
  /\ phase = "estimate"
  /\ phase' = "ok"
  /\ todo' = <<>>
  /\ UNCHANGED <<mempool, flags>>

\* The mempool after the node accepts tx.  The code leaves the nonce to the
\* provider: behind a transaction that an earlier call left there tx queues,
\* or it takes the same nonce and replaces it.
Accepting(tx) ==
  {Append(mempool, tx)} \cup (IF Len(mempool) = 1 THEN {<<tx>>} ELSE {})

SendOk ==
  /\ phase = "send"
  /\ phase' = "confirm"
  /\ mempool' \in Accepting(Chunk)
  /\ UNCHANGED <<todo, flags>>

\* send().await? fails.  The request may have been lost on its way to the node
\* or only its answer on the way back: then the transaction is in the mempool
\* although deny_many returns an error.
SendFails(accepted) ==
  /\ phase = "send"
  /\ phase' = "err"
  /\ mempool' \in IF accepted THEN Accepting(Chunk) ELSE {mempool}
  /\ todo' = <<>>
  /\ UNCHANGED flags

\* Mutant of Settled: the second await is missing.
SettledAtOnce == TRUE

\* Mutant of Settled: wait until the denylist shows the chunk.
SettledAsApplied == mempool = <<>> /\ flags = Applied(Chunk)

\* The pending transaction is resolved: Some(receipt), whatever its status
\* field, or None when the node no longer knows the transaction.  The code
\* treats the three alike.  It is the last one of its account in the mempool,
\* so it is resolved when the mempool is empty.
Settled == mempool = <<>>

Confirmed ==
  /\ phase = "confirm"
  /\ Settled
  /\ todo' = Rest
  /\ phase' = IF Rest = <<>> THEN "ok" ELSE "estimate"
  /\ UNCHANGED <<mempool, flags>>

\* Polling for the receipt fails: deny_many returns the provider's error and
\* leaves its transaction behind.
ConfirmFails ==
  /\ phase = "confirm"
  /\ phase' = "err"
  /\ todo' = <<>>
  /\ UNCHANGED <<mempool, flags>>

\* The caller takes the result.
Return(result) ==
  /\ phase = result
  /\ phase' = "idle"
  /\ UNCHANGED <<todo, mempool, flags>>

\* The process is gone; the node and the contract are not.
Forget ==
  /\ phase' = "idle"
  /\ todo' = <<>>
  /\ UNCHANGED <<mempool, flags>>

-----------------------------------------------------------------------------
(* The chain *)

\* The oldest transaction of the account is mined and succeeds.
Mine ==
  /\ mempool # <<>>
  /\ flags' = Applied(Head(mempool))
  /\ mempool' = Tail(mempool)
  /\ UNCHANGED <<todo, phase>>

\* The oldest transaction is mined and reverts, or the node drops it.
Lose ==
  /\ mempool # <<>>
  /\ mempool' = Tail(mempool)
  /\ UNCHANGED <<todo, phase, flags>>

-----------------------------------------------------------------------------

SmTypeOK ==
  /\ todo \in Seq(Status)
  /\ phase \in Phases
  /\ mempool \in Seq(Seq(Status))
  /\ flags \in [Deployments -> BOOLEAN]

=============================================================================
