--------------------------- MODULE DenyManyCalls ---------------------------
(***************************************************************************)
(* StateManager on its own: a caller that makes a few calls of deny_many,  *)
(* with any vectors, one after the other, as reconcile_deny_list does.     *)
(* Duplicate ids are part of "any": a list of deployments that grows       *)
(* between two page queries yields a deployment twice.                     *)
(*                                                                         *)
(* `sent' and `spoilt' are history variables.                              *)
(***************************************************************************)
EXTENDS StateManager, FiniteSets

CONSTANTS
  MaxEntries,  \* bound: entries of a vector
  MaxCalls,    \* bound: calls in a behaviour
  MaxFaults    \* bound: faults in a behaviour

ASSUME DenyManyAssumption ==
  /\ MaxEntries \in Nat
  /\ MaxCalls \in Nat
  /\ MaxFaults \in Nat

VARIABLES
  list,    \* denied_status of the latest call
  sent,    \* the entries of its transactions that the node accepted, in order
  spoilt,  \* some step of the latest call failed, or a transaction was lost in it
  calls,   \* calls so far
  faults   \* faults so far

vars == <<smVars, list, sent, spoilt, calls, faults>>

Lists == UNION {[1..n -> Status] : n \in 0..MaxEntries}

Init ==
  /\ todo = <<>> /\ phase = "idle" /\ mempool = <<>>
  /\ flags = [d \in Deployments |-> FALSE]
  /\ list = <<>> /\ sent = <<>> /\ spoilt = FALSE
  /\ calls = 0 /\ faults = 0

Fault ==
  /\ faults < MaxFaults
  /\ faults' = faults + 1
  /\ spoilt' = TRUE

Call(new) ==
  /\ calls < MaxCalls
  /\ DenyMany(new)
  /\ calls' = calls + 1
  /\ list' = new /\ sent' = <<>> /\ spoilt' = FALSE
  /\ UNCHANGED faults

Proceed ==
  /\ \/ (EstimateOk \/ Confirmed) /\ UNCHANGED sent
     \/ SendOk /\ sent' = sent \o Chunk
  /\ UNCHANGED <<list, spoilt, calls, faults>>

Fail ==
  /\ \/ (EstimateFails \/ ConfirmFails \/ SendFails(FALSE)) /\ UNCHANGED sent
     \/ SendFails(TRUE) /\ sent' = sent \o Chunk
  /\ Fault
  /\ UNCHANGED <<list, calls>>

\* The caller takes the result; the outcome of the call stays on record.
Done ==
  /\ \E result \in {"ok", "err"} : Return(result)
  /\ UNCHANGED <<list, sent, spoilt, calls, faults>>

MineNext == Mine /\ UNCHANGED <<list, sent, spoilt, calls, faults>>

LoseNext == Lose /\ Fault /\ UNCHANGED <<list, sent, calls>>

Next ==
  \/ \E new \in Lists : Call(new)
  \/ Proceed \/ Fail \/ Done \/ MineNext \/ LoseNext

\* The task is polled.  Nothing is assumed of the chain.
Fairness == WF_vars(Proceed) /\ WF_vars(Done)

Spec == Init /\ [][Next]_vars

FairSpec == Spec /\ Fairness

-----------------------------------------------------------------------------
(* Properties *)

TypeOK ==
  /\ SmTypeOK
  /\ list \in Seq(Status)
  /\ sent \in Seq(Status)
  /\ spoilt \in BOOLEAN
  /\ calls \in 0..MaxCalls
  /\ faults \in 0..MaxFaults

\* How far `sent' must have come: everything that is not still to be done.
Unsent == IF phase = "confirm" THEN Rest ELSE todo

WholeChunks(n) == n = Len(list) \/ n % ChunkSize = 0

\* The loop over denied_status.chunks (contract.rs:98-124) sends every entry
\* exactly once and in order, chunk by chunk: while it runs, what was accepted
\* and what is left make up the vector; whatever fails, what was accepted is a
\* number of whole chunks from its front; if nothing fails it is all of it.
EachEntryOnce ==
  /\ phase \in {"estimate", "send", "confirm"} => sent \o Unsent = list
  /\ sent = SubSeq(list, 1, Len(sent)) /\ WholeChunks(Len(sent))
  /\ phase = "ok" /\ ~spoilt => sent = list

\* Entry j is the last of s about d.
Latest(s, j, d) == s[j].id = d /\ \A k \in DOMAIN s : k > j => s[k].id # d

\* Each chunk is sent only when the one before it is settled on chain
\* (contract.rs:122, the second await): whenever the loop is between two chunks
\* or has returned Ok, and nothing went wrong in this call, the denylist agrees
\* with the last word of the chunks sent, whatever an earlier call left behind
\* in the mempool.
SettledBetweenChunks ==
  phase \in {"estimate", "send", "ok"} /\ ~spoilt =>
    \A d \in Deployments : \A j \in DOMAIN sent :
      Latest(sent, j, d) => flags[d] = sent[j].deny

\* How far a call is from its end.
Distance ==
  CASE phase = "estimate" -> 3 * Len(todo) + 2
    [] phase = "send"     -> 3 * Len(todo) + 1
    [] phase = "confirm"  -> 3 * Len(todo)
    [] OTHER              -> 0

\* Whatever happens in a call of deny_many, an answer or a failure, brings it
\* nearer to its end (contract.rs:98-124): the loop makes no chunk twice and
\* retries nothing, and the only thing it waits for is its transaction.
CallAdvances ==
  [][(phase \in {"estimate", "send", "confirm"}) =>
       Distance' < Distance \/ UNCHANGED <<todo, phase>>]_vars

\* There is one thing on which deny_many can hang: the wait for its receipt has no
\* timeout (contract.rs:122, the second await), so that a transaction that stays in
\* the mempool for ever holds the call, and with it the main loop, for ever.  In every
\* other case it returns, whatever becomes of its transactions otherwise: mined or
\* dropped, alone or behind an older one, and whether or not they had their effect.
CallReturns ==
  \/ (phase = "estimate") ~> (phase \in {"ok", "err"})
  \/ <>[](phase = "confirm" /\ mempool # <<>>)

=============================================================================
