----------------------------- MODULE AsyncCache -----------------------------
(***************************************************************************)
(* AsyncCache of crates/common/src/async_cache.rs: tasks call get() for a  *)
(* key, share the future that computes its value, and the task that made   *)
(* the future takes it out of the map again, as the policy that comes with *)
(* the value says.                                                         *)
(*                                                                         *)
(* No await happens while the map's lock is held, so a critical section is *)
(* one step and the lock itself is not modelled.  Keys do not interact:    *)
(* this is one key's slot of the map.                                      *)
(***************************************************************************)
EXTENDS Naturals, FiniteSets

CONSTANTS
  Tasks,      \* the callers
  MaxGets,    \* bound: calls of get()
  MaxCancels  \* bound: calls whose future is dropped before it is done

ASSUME AsyncCacheAssumption ==
  /\ IsFiniteSet(Tasks)
  /\ MaxGets \in Nat
  /\ MaxCancels \in Nat

VARIABLES
  pc,        \* where the task stands in get()
  fut,       \* the future it awaits
  slot,      \* the future in the map under the key
  policy,    \* the policy each future completed with, or what it still is
  sleepers,  \* the futures whose spawned cleanup sleeps
  gets,      \* calls so far
  cancels,   \* dropped calls so far
  \* history
  returned,  \* the future whose value the task's latest get() returned
  owned      \* the future the task's current get() made

mapVars  == <<slot, policy, sleepers>>
histVars == <<returned, owned>>
vars == <<pc, fut, mapVars, gets, cancels, histVars>>

\* Each call of get() makes at most one future.
Futures == 1..MaxGets

Empty == 0

Policies == {"indefinite", "timed", "shared", "none"}

Done(f) == policy[f] \in Policies

\* Mutant of RemovedAtOnce: only Shared.
RemovedIfShared == {"shared"}

\* The policies with which the maker of a future takes it out itself ...
RemovedAtOnce == {"shared", "none"}

\* Mutants of RemovedLater: the cleanup is never spawned, or for Shared too.
RemovedNever == {}
RemovedTwice == {"timed", "shared"}

\* ... those with which it leaves that to a spawned cleanup ...
RemovedLater == {"timed"}

\* Mutant of AskedAgain: all values are shared.
AskedNever == {}

\* ... and those with which the others do not take the value.
AskedAgain == {"none"}

\* The future that the next call of the constructor makes.
Made == 1 + Cardinality({f \in Futures : policy[f] # "unused"})

-----------------------------------------------------------------------------

Go(t, where) == pc' = [pc EXCEPT ![t] = where]

Return(t) ==
  /\ Go(t, "idle")
  /\ returned' = [returned EXCEPT ![t] = fut[t]]
  /\ UNCHANGED owned

Get(t) ==
  /\ pc[t] = "idle"
  /\ gets < MaxGets
  /\ gets' = gets + 1
  /\ Go(t, "read")
  /\ owned' = [owned EXCEPT ![t] = Empty]
  /\ returned' = [returned EXCEPT ![t] = Empty]
  /\ UNCHANGED <<fut, mapVars, cancels>>

\* The look-up under the read lock.
Read(t) ==
  /\ pc[t] = "read"
  /\ IF slot = Empty
     THEN Go(t, "write") /\ UNCHANGED fut
     ELSE Go(t, "await") /\ fut' = [fut EXCEPT ![t] = slot]
  /\ UNCHANGED <<mapVars, gets, cancels, histVars>>

\* Mutant of StillEmpty: no second look-up.
AsReadBefore == TRUE

\* The look-up again.
StillEmpty == slot = Empty

\* It and the insertion are both under the write lock.
Write(t) ==
  /\ pc[t] = "write"
  /\ IF StillEmpty
     THEN /\ policy' = [policy EXCEPT ![Made] = "running"]
          /\ slot' = Made
          /\ fut' = [fut EXCEPT ![t] = Made]
          /\ owned' = [owned EXCEPT ![t] = Made]
          /\ Go(t, "own")
     ELSE /\ fut' = [fut EXCEPT ![t] = slot]
          /\ Go(t, "await")
          /\ UNCHANGED <<slot, policy, owned>>
  /\ UNCHANGED <<sleepers, gets, cancels, returned>>

\* A future that another task made is done.
Await(t) ==
  /\ pc[t] = "await"
  /\ Done(fut[t])
  /\ IF policy[fut[t]] \in AskedAgain
     THEN Go(t, "read") /\ UNCHANGED histVars
     ELSE Return(t)
  /\ UNCHANGED <<fut, mapVars, gets, cancels>>

\* The task's own future is done.
Own(t) ==
  /\ pc[t] = "own"
  /\ Done(fut[t])
  /\ IF policy[fut[t]] \in RemovedAtOnce
     THEN Go(t, "remove") /\ UNCHANGED histVars
     ELSE Return(t)
  /\ sleepers' = IF policy[fut[t]] \in RemovedLater THEN sleepers \cup {fut[t]} ELSE sleepers
  /\ UNCHANGED <<fut, slot, policy, gets, cancels>>

\* write.remove(&k): whatever is there.
Remove(t) ==
  /\ pc[t] = "remove"
  /\ slot' = Empty
  /\ Return(t)
  /\ UNCHANGED <<fut, policy, sleepers, gets, cancels>>

\* The spawned cleanup wakes up.
Expire(f) ==
  /\ f \in sleepers
  /\ sleepers' = sleepers \ {f}
  /\ slot' = Empty
  /\ UNCHANGED <<pc, fut, policy, gets, cancels, histVars>>

\* A Shared future makes progress while some task polls a clone of it.
Complete(f, p) ==
  /\ policy[f] = "running"
  /\ \E t \in Tasks : pc[t] \in {"await", "own"} /\ fut[t] = f
  /\ policy' = [policy EXCEPT ![f] = p]
  /\ UNCHANGED <<pc, fut, slot, sleepers, gets, cancels, histVars>>

\* The caller drops the future of its call.
Cancel(t) ==
  /\ pc[t] # "idle"
  /\ cancels < MaxCancels
  /\ cancels' = cancels + 1
  /\ Go(t, "idle")
  /\ UNCHANGED <<fut, mapVars, gets, histVars>>

-----------------------------------------------------------------------------

Init ==
  /\ pc = [t \in Tasks |-> "idle"]
  /\ fut = [t \in Tasks |-> Empty]
  /\ slot = Empty
  /\ policy = [f \in Futures |-> "unused"]
  /\ sleepers = {}
  /\ gets = 0 /\ cancels = 0
  /\ returned = [t \in Tasks |-> Empty]
  /\ owned = [t \in Tasks |-> Empty]

Step(t) == Read(t) \/ Write(t) \/ Await(t) \/ Own(t) \/ Remove(t)

Next ==
  \/ \E t \in Tasks : Get(t) \/ Step(t) \/ Cancel(t)
  \/ \E f \in Futures : Expire(f) \/ \E p \in Policies : Complete(f, p)

\* Tasks are polled, computations end and sleeps are over; nobody has to call.
Fairness ==
  /\ \A t \in Tasks : WF_vars(Step(t))
  /\ \A f \in Futures : WF_vars(Expire(f)) /\ WF_vars(\E p \in Policies : Complete(f, p))

Spec == Init /\ [][Next]_vars

FairSpec == Spec /\ Fairness

-----------------------------------------------------------------------------
(* Properties *)

TypeOK ==
  /\ pc \in [Tasks -> {"idle", "read", "write", "await", "own", "remove"}]
  /\ fut \in [Tasks -> Futures \cup {Empty}]
  /\ slot \in Futures \cup {Empty}
  /\ policy \in [Futures -> Policies \cup {"unused", "running"}]
  /\ sleepers \in SUBSET Futures
  /\ gets \in 0..MaxGets /\ cancels \in 0..MaxCancels
  /\ returned \in [Tasks -> Futures \cup {Empty}]
  /\ owned \in [Tasks -> Futures \cup {Empty}]

\* "The cache will not allow for any concurrency for a given key"
\* (async_cache.rs:30): however the look-ups of several tasks interleave, and
\* whoever is dropped, no value is computed twice at the same time.
NoConcurrency == Cardinality({f \in Futures : policy[f] = "running"}) <= 1

\* A removal by key (async_cache.rs:104, 117) takes out the future it is meant
\* for: it never un-caches, unfinished or finished, one that a later call put
\* in its place.
RemovesItsOwn ==
  /\ \A t \in Tasks : pc[t] = "remove" => slot = fut[t]
  /\ \A f \in sleepers : slot = f

\* A value that is not to be cached at all goes to nobody but the call that
\* computed it (async_cache.rs:75, 89).
UncachedIsPrivate == \A t \in Tasks :
  pc[t] = "idle" /\ returned[t] # Empty /\ policy[returned[t]] = "none"
    => returned[t] = owned[t]

Awaits(t, f) == pc[t] \in {"await", "own"} /\ fut[t] = f

\* As long as no call is dropped, no future holds a call up for ever, though a
\* waiter of a None value asks again and is given the same future as long as its maker
\* has not taken it out (async_cache.rs:67-77, 104): a call comes to its end or to
\* another future.  More the code does not give: with callers that go on, a waiter may
\* meet a new None value at every look-up and need never return.
FuturesLetGo ==
  \A t \in Tasks, f \in Futures :
    Awaits(t, f) ~> (pc[t] = "idle" \/ fut[t] # f \/ cancels > 0)

TimedIn(f) == slot = f /\ policy[f] = "timed"

\* "Stays in the cache for a finite amount of time" (async_cache.rs:14), as long as
\* no call is dropped.  The comment makes no such exception, but only the call that made
\* the future spawns its cleanup, after its own await (async_cache.rs:97-119), so that
\* the value stays for ever if that call is dropped while another one awaits it.
TimedLeaves == \A f \in Futures : TimedIn(f) ~> (slot # f \/ cancels > 0)

=============================================================================
