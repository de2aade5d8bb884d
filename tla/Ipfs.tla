-------------------------------- MODULE Ipfs --------------------------------
(***************************************************************************)
(* IpfsImpl of availability-oracle/src/ipfs.rs: cat() with its cache, its  *)
(* semaphore and its retry, called by the checks of one run at a time, and *)
(* the invalidation of the cache between runs.                             *)
(*                                                                         *)
(* A task is the future of one check; it calls cat() for one file after    *)
(* another.  All tasks are polled by the main task, and an aborted run     *)
(* drops those that are not done.                                          *)
(***************************************************************************)
EXTENDS Naturals, Sequences, FiniteSets

CONSTANTS
  Cids,           \* the files
  Tasks,          \* the checks in flight
  MaxConcurrent,  \* permits of the semaphore (ipfs_concurrency)
  Retries,        \* further calls after a failed one: 1 in the code
  Capacity,       \* entries of the cache: 10000 in the code
  MaxTurns        \* bound: changes of what the gateway serves

\* With no permit at all every cat() would wait for ever.
ASSUME IpfsAssumption ==
  /\ IsFiniteSet(Tasks)
  /\ MaxConcurrent \in Nat \ {0}
  /\ Retries \in Nat
  /\ Capacity \in Nat
  /\ MaxTurns \in Nat

VARIABLES
  pc,       \* where the task stands in cat()
  arg,      \* the file it asks for
  failures, \* the calls of this cat() that failed
  result,   \* what cat() returned: Ok or the kind of IpfsError
  queue,    \* the tasks waiting for a permit; the semaphore is fair
  permits,  \* permits that are free
  cache,    \* the files in the cache
  running,  \* a run is under way
  served,   \* the files the gateway can deliver
  turns,    \* changes of `served' so far
  \* history
  servedInRun,  \* the files it could deliver at some moment of this run
  lateBody      \* the tasks whose request timed out while the body was read

clientVars == <<pc, arg, failures, result, queue, permits, cache>>
vars == <<clientVars, running, served, turns, servedInRun, lateBody>>

\* GatewayTimeout and ClientTimeout are treated alike, as `timeout'.
CallErrors == {"timeout", "not found", "other"}

Results == CallErrors \cup {"ok"}

Calling == {t \in Tasks : pc[t] = "calling"}

\* Requests the gateway has not finished answering.
Open == {t \in Tasks : pc[t] \in {"calling", "body"}}

-----------------------------------------------------------------------------
(* cat *)

Cat(t, c) ==
  /\ running
  /\ pc[t] = "idle"
  /\ arg' = [arg EXCEPT ![t] = c]
  /\ failures' = [failures EXCEPT ![t] = 0]
  /\ IF c \in cache
     THEN /\ pc' = [pc EXCEPT ![t] = "done"]
          /\ result' = [result EXCEPT ![t] = "ok"]
          /\ UNCHANGED queue
     ELSE /\ pc' = [pc EXCEPT ![t] = "queued"]
          /\ queue' = Append(queue, t)
          /\ UNCHANGED result
  /\ lateBody' = lateBody \ {t}
  /\ UNCHANGED <<permits, cache, running, served, turns, servedInRun>>

\* Mutant of Acquire: the last to come is served first.
AcquireLast ==
  /\ queue # <<>>
  /\ permits > 0
  /\ pc' = [pc EXCEPT ![queue[Len(queue)]] = "calling"]
  /\ queue' = SubSeq(queue, 1, Len(queue) - 1)
  /\ permits' = permits - 1
  /\ UNCHANGED <<arg, failures, result, cache, running, served, turns, servedInRun, lateBody>>

\* semaphore.acquire(), which serves its waiters in their order; then the request
\* is on its way.
Acquire ==
  /\ queue # <<>>
  /\ permits > 0
  /\ pc' = [pc EXCEPT ![Head(queue)] = "calling"]
  /\ queue' = Tail(queue)
  /\ permits' = permits - 1
  /\ UNCHANGED <<arg, failures, result, cache, running, served, turns, servedInRun, lateBody>>

\* call() returns as soon as the headers are there, and drops the permit.
Headers(t) ==
  /\ pc[t] = "calling"
  /\ arg[t] \in served
  /\ pc' = [pc EXCEPT ![t] = "body"]
  /\ permits' = permits + 1
  /\ UNCHANGED <<arg, failures, result, queue, cache, running, served, turns, servedInRun,
                 lateBody>>

\* Mutants of RetriesLeft: one call too many; no second call for a missing file.
RetriesAndOne(t, error) == failures[t] <= Retries
RetriesUnlessMissing(t, error) == failures[t] < Retries /\ error # "not found"

\* Every error is a reason to try again: for _ in 0..=retries.
RetriesLeft(t, error) == failures[t] < Retries

\* call() fails and drops the permit; the first Retries times it is made again.
CallFails(t, error) ==
  /\ pc[t] = "calling"
  /\ error = "not found" => arg[t] \notin served
  /\ permits' = permits + 1
  /\ failures' = [failures EXCEPT ![t] = @ + 1]
  /\ IF RetriesLeft(t, error)
     THEN /\ pc' = [pc EXCEPT ![t] = "queued"]
          /\ queue' = Append(queue, t)
          /\ UNCHANGED result
     ELSE /\ pc' = [pc EXCEPT ![t] = "done"]
          /\ result' = [result EXCEPT ![t] = error]
          /\ UNCHANGED queue
  /\ UNCHANGED <<arg, cache, running, served, turns, servedInRun, lateBody>>

\* What the cache may hold after an insertion: everything, or what its policy
\* leaves of it, which need not include the new file.
Inserted(c) ==
  LET all == cache \cup {c}
  IN IF Cardinality(all) <= Capacity THEN {all}
     ELSE {S \in SUBSET all : Cardinality(S) = Capacity}

Body(t) ==
  /\ pc[t] = "body"
  /\ cache' \in Inserted(arg[t])
  /\ pc' = [pc EXCEPT ![t] = "done"]
  /\ result' = [result EXCEPT ![t] = "ok"]
  /\ UNCHANGED <<arg, failures, queue, permits, running, served, turns, servedInRun, lateBody>>

\* The body is cut off, or the timeout of the request, which the body counts
\* for, passes.  Either way the error is IpfsError::Other, without a retry.
BodyFails(t, late) ==
  /\ pc[t] = "body"
  /\ pc' = [pc EXCEPT ![t] = "done"]
  /\ result' = [result EXCEPT ![t] = "other"]
  /\ lateBody' = IF late THEN lateBody \cup {t} ELSE lateBody
  /\ UNCHANGED <<arg, failures, queue, permits, cache, running, served, turns, servedInRun>>

\* check() goes on with what cat() returned.
Return(t) ==
  /\ pc[t] = "done"
  /\ pc' = [pc EXCEPT ![t] = "idle"]
  /\ UNCHANGED <<arg, failures, result, queue, permits, cache, running, served, turns,
                 servedInRun, lateBody>>

-----------------------------------------------------------------------------
(* Runs *)

StartRun ==
  /\ ~running
  /\ running' = TRUE
  /\ servedInRun' = served
  /\ UNCHANGED <<clientVars, served, turns, lateBody>>

\* Mutant of InvalidatedCache: nothing is invalidated.
KeptCache == cache

\* invalidate_cache()
InvalidatedCache == {}

\* Mutant of Held: a call that is dropped keeps its permit.
HeldForEver == 0

\* The permits that the dropped calls hold.
Held == Cardinality(Calling)

\* The cache is invalidated after a run that came to its end and after one
\* that was aborted alike; the latter's futures were dropped, with the permits
\* and the places in the queue they held.
EndRun ==
  /\ running
  /\ running' = FALSE
  /\ cache' = InvalidatedCache
  /\ pc' = [t \in Tasks |-> "idle"]
  /\ queue' = <<>>
  /\ permits' = permits + Held
  /\ UNCHANGED <<arg, failures, result, served, turns, servedInRun, lateBody>>

\* The gateway gains or loses a file.
Turn(c) ==
  /\ turns < MaxTurns
  /\ turns' = turns + 1
  /\ served' = IF c \in served THEN served \ {c} ELSE served \cup {c}
  /\ servedInRun' = servedInRun \cup served'
  /\ UNCHANGED <<clientVars, running, lateBody>>

-----------------------------------------------------------------------------

Init ==
  /\ pc = [t \in Tasks |-> "idle"]
  /\ arg \in [Tasks -> Cids]
  /\ failures = [t \in Tasks |-> 0]
  /\ result = [t \in Tasks |-> "ok"]
  /\ queue = <<>>
  /\ permits = MaxConcurrent
  /\ cache = {}
  /\ running = FALSE
  /\ served \in SUBSET Cids
  /\ turns = 0
  /\ servedInRun = served
  /\ lateBody = {}

\* The gateway answers, or the timeout passes.
Answered(t) ==
  \/ Headers(t) \/ Body(t)
  \/ \E error \in CallErrors : CallFails(t, error)
  \/ \E late \in BOOLEAN : BodyFails(t, late)

Next ==
  \/ Acquire \/ StartRun \/ EndRun
  \/ \E t \in Tasks : (\E c \in Cids : Cat(t, c)) \/ Answered(t) \/ Return(t)
  \/ \E c \in Cids : Turn(c)

\* A task with a permit sends its request, and a request ends by its timeout.
Fairness == WF_vars(Acquire) /\ \A t \in Tasks : WF_vars(Answered(t))

Spec == Init /\ [][Next]_vars

FairSpec == Spec /\ Fairness

-----------------------------------------------------------------------------
(* Properties *)

TypeOK ==
  /\ pc \in [Tasks -> {"idle", "queued", "calling", "body", "done"}]
  /\ arg \in [Tasks -> Cids]
  /\ failures \in [Tasks -> 0..(Retries + 1)]
  /\ result \in [Tasks -> Results]
  /\ queue \in Seq(Tasks)
  /\ permits \in 0..MaxConcurrent
  /\ cache \in SUBSET Cids
  /\ running \in BOOLEAN
  /\ served \in SUBSET Cids
  /\ turns \in 0..MaxTurns
  /\ servedInRun \in SUBSET Cids
  /\ lateBody \in SUBSET Tasks

\* No permit is lost, on whichever way call() is left: by an answer, an error
\* or because the run that made it was aborted (ipfs.rs:52).
PermitsConserved == permits + Cardinality(Calling) = MaxConcurrent

\* A file passes for available only if the gateway could deliver it at some
\* moment of the current run (ipfs.rs:32-34, main.rs:235-237): nothing that an
\* earlier run cached, nor an answer to it, is mistaken for availability.
OkIsOfThisRun == \A t \in Tasks :
  pc[t] = "done" /\ result[t] = "ok" => arg[t] \in servedInRun

\* A file passes for unavailable only after Retries + 1 calls for it failed
\* (ipfs.rs:93-110): a single lost answer denies nobody.
UnavailableAfterRetries == \A t \in Tasks :
  pc[t] = "done" /\ result[t] \in {"timeout", "not found"} => failures[t] = Retries + 1

Place(t) == CHOOSE i \in DOMAIN queue : queue[i] = t

\* How far a cat() is from its end, if no call fails.
Stage(t) ==
  CASE pc[t] = "queued"  -> 2 + Place(t)
    [] pc[t] = "calling" -> 2
    [] pc[t] = "body"    -> 1
    [] OTHER             -> 0

\* Nothing takes a cat() further from its end but a failure of its own, and of those
\* it survives no more than its retries (ipfs.rs:52, 93-110): neither new calls nor
\* the retries of others are served before it, and whenever a permit is given all
\* that wait for one move up.
CatAdvances ==
  [][\A t \in Tasks : Stage(t) > 0 =>
       \/ Stage(t)' < Stage(t)
       \/ failures[t] <= Retries /\ failures'[t] = failures[t] + 1
       \/ /\ Stage(t)' = Stage(t) /\ failures'[t] = failures[t]
          /\ pc[t] = "queued" => permits' >= permits]_vars

\* A cat() returns, or its run ends: the semaphore's queue moves on, and a retry
\* does not overtake for ever those that wait.
CatReturns == \A t \in Tasks :
  (pc[t] \in {"queued", "calling", "body"}) ~> (pc[t] \in {"done", "idle"})

\* "Maximum concurrent calls to IPFS" (main.rs:80).
AtMostMaxConcurrentOpen == Cardinality(Open) <= MaxConcurrent

\* "If the request times out, the cid is considered unavailable" (ipfs.rs:36).
TimeoutMeansUnavailable == \A t \in lateBody :
  pc[t] = "done" => result[t] = "timeout"

=============================================================================
