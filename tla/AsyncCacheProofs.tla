-------------------------- MODULE AsyncCacheProofs --------------------------
(***************************************************************************)
(* Theorems about AsyncCache, for any number of callers, calls and calls   *)
(* that are dropped.                                                       *)
(***************************************************************************)
EXTENDS AsyncCache, FiniteSetTheorems, TLAPS

-----------------------------------------------------------------------------
(* The inductive invariant *)

\* The futures that were made.
Used == {f \in Futures : policy[f] # "unused"}

\* The tasks that may still make one.
Asking == {t \in Tasks : pc[t] \in {"read", "write", "await"}}

\* The task that made a future is about to take it out, or to leave it in.
Keeper(t) == pc[t] \in {"own", "remove"}

\* Futures are made in their order, and each call that may make one has a number left.
CountInv ==
  /\ \A f \in Futures : f \in Used <=> f <= Cardinality(Used)
  /\ Cardinality(Used) + Cardinality(Asking) <= gets

\* Whoever is yet to remove the future in the map is alone in it: its maker or, once
\* that has gone, its cleanup.  A future that runs is in the map.
KeepInv ==
  /\ \A t \in Tasks : Keeper(t) => slot = fut[t] /\ slot # Empty /\ owned[t] = fut[t]
  /\ \A t \in Tasks : pc[t] = "remove" => Done(fut[t])
  /\ \A t, u \in Tasks : Keeper(t) /\ Keeper(u) => t = u
  /\ \A f \in sleepers : slot = f /\ Done(f) /\ \A t \in Tasks : ~Keeper(t)
  /\ \A f \in Futures : policy[f] = "running" => slot = f

\* A value that was returned will not change, and if it is nobody else's it is the
\* task's own.
ReturnInv ==
  /\ \A t \in Tasks : pc[t] # "idle" => returned[t] = Empty
  /\ \A t \in Tasks : returned[t] # Empty =>
       Done(returned[t]) /\ (policy[returned[t]] = "none" => returned[t] = owned[t])

Inv == TypeOK /\ CountInv /\ KeepInv /\ ReturnInv

-----------------------------------------------------------------------------
(* Counting *)

\* Both sets that are counted are finite.
LEMMA CountsAreNumbers ==
  /\ IsFiniteSet(Used) /\ Cardinality(Used) \in Nat
  /\ IsFiniteSet(Asking) /\ Cardinality(Asking) \in Nat
<1>1. IsFiniteSet(Futures)
  BY AsyncCacheAssumption, FS_Interval DEF Futures
<1>2. IsFiniteSet(Used) /\ IsFiniteSet(Asking)
  BY <1>1, AsyncCacheAssumption, FS_Subset DEF Used, Asking
<1> QED
  BY <1>2, FS_CardinalityType

\* One task that moves changes the number of those that may make a future by one.
LEMMA AskingChanges ==
  ASSUME NEW t \in Tasks, \A u \in Tasks : u # t => pc'[u] = pc[u]
  PROVE  /\ t \notin Asking /\ t \in Asking'
              => Cardinality(Asking') = Cardinality(Asking) + 1
         /\ t \in Asking /\ t \notin Asking'
              => Cardinality(Asking') = Cardinality(Asking) - 1 /\ Cardinality(Asking) >= 1
         /\ (t \in Asking <=> t \in Asking') => Asking' = Asking
<1>1. t \notin Asking /\ t \in Asking' => Asking' = Asking \cup {t}
  BY DEF Asking
<1>2. t \in Asking /\ t \notin Asking' => Asking' = Asking \ {t} /\ Asking # {}
  BY DEF Asking
<1>3. (t \in Asking <=> t \in Asking') => Asking' = Asking
  BY DEF Asking
<1>4. Asking # {} => Cardinality(Asking) >= 1
  BY CountsAreNumbers, FS_EmptySet
<1> QED
  BY <1>1, <1>2, <1>3, <1>4, CountsAreNumbers, FS_AddElement, FS_RemoveElement

\* The next future has a number, and one that is not taken.
LEMMA MadeIsNew ==
  ASSUME TypeOK, CountInv, NEW t \in Asking
  PROVE  /\ Made \in Futures /\ Made = Cardinality(Used) + 1 /\ Made # Empty
         /\ policy[Made] = "unused"
<1>1. Made = Cardinality(Used) + 1
  BY CountsAreNumbers DEF Made, Used
<1>2. Cardinality(Asking) >= 1
  BY CountsAreNumbers, FS_EmptySet
<1>3. Made \in Futures
  BY <1>1, <1>2, CountsAreNumbers, AsyncCacheAssumption DEF CountInv, TypeOK, Futures
<1>4. Made \notin Used
  BY <1>1, <1>3, CountsAreNumbers DEF CountInv
<1> QED
  BY <1>1, <1>3, <1>4, CountsAreNumbers DEF Used, Futures, Empty

-----------------------------------------------------------------------------
(* The steps *)

\* get() is called.
LEMMA GetStep ==
  ASSUME Inv, NEW t \in Tasks, Get(t)
  PROVE  Inv'
<1>1. /\ pc[t] = "idle" /\ pc' = [pc EXCEPT ![t] = "read"] /\ gets < MaxGets /\ gets' = gets + 1
      /\ returned' = [returned EXCEPT ![t] = Empty] /\ owned' = [owned EXCEPT ![t] = Empty]
      /\ UNCHANGED <<fut, slot, policy, sleepers, cancels>>
  BY DEF Get, Go, mapVars
<1>2. TypeOK'
  BY <1>1, AsyncCacheAssumption DEF Inv, TypeOK
<1>3. /\ \A u \in Tasks : u # t => pc'[u] = pc[u] /\ returned'[u] = returned[u] /\ owned'[u] = owned[u]
      /\ pc'[t] = "read" /\ returned'[t] = Empty
  BY <1>1 DEF Inv, TypeOK
<1>4. Cardinality(Asking') = Cardinality(Asking) + 1 /\ Used' = Used
  <2>1. t \notin Asking /\ t \in Asking'
    BY <1>1, <1>3 DEF Asking
  <2> QED
    BY <1>1, <1>3, <2>1, AskingChanges DEF Used
<1>5. CountInv'
  BY <1>1, <1>4, CountsAreNumbers DEF Inv, CountInv, TypeOK
<1>6. KeepInv'
  BY <1>1, <1>3 DEF Inv, KeepInv, Keeper, Done
<1>7. ReturnInv'
  BY <1>1, <1>3 DEF Inv, ReturnInv, Done
<1> QED
  BY <1>2, <1>5, <1>6, <1>7 DEF Inv

\* A task that looks the key up, or waits for the value of another, keeps nothing.
LEMMA LookUpStep ==
  ASSUME Inv, NEW t \in Tasks, pc[t] \in {"read", "write", "await"},
         NEW where \in {"read", "write", "await"}, pc' = [pc EXCEPT ![t] = where],
         NEW f \in Futures \cup {Empty}, fut' = [fut EXCEPT ![t] = f],
         UNCHANGED <<slot, policy, sleepers, gets, cancels, returned, owned>>
  PROVE  Inv'
<1>1. TypeOK'
  BY DEF Inv, TypeOK
<1>2. /\ \A u \in Tasks : u # t => pc'[u] = pc[u] /\ fut'[u] = fut[u]
      /\ pc'[t] = where /\ ~Keeper(t)
  BY DEF Inv, TypeOK, Keeper
<1>3. Asking' = Asking /\ Used' = Used
  BY <1>2 DEF Asking, Used
<1>4. CountInv'
  BY <1>3 DEF Inv, CountInv
<1>5. KeepInv'
  BY <1>2 DEF Inv, KeepInv, Keeper, Done
<1>6. ReturnInv'
  BY <1>2 DEF Inv, ReturnInv, Done
<1> QED
  BY <1>1, <1>4, <1>5, <1>6 DEF Inv

\* A future is made when the slot is empty: nobody keeps one and none runs.
LEMMA WriteStep ==
  ASSUME Inv, NEW t \in Tasks, Write(t), StillEmpty
  PROVE  Inv'
<1>1. /\ pc[t] = "write" /\ slot = Empty
      /\ policy' = [policy EXCEPT ![Made] = "running"] /\ slot' = Made
      /\ fut' = [fut EXCEPT ![t] = Made] /\ owned' = [owned EXCEPT ![t] = Made]
      /\ pc' = [pc EXCEPT ![t] = "own"]
      /\ UNCHANGED <<sleepers, gets, cancels, returned>>
  BY DEF Write, StillEmpty, Go
<1>2. t \in Asking /\ t \notin Asking'
  BY <1>1 DEF Inv, TypeOK, Asking
<1>3. /\ Made \in Futures /\ Made = Cardinality(Used) + 1 /\ Made # Empty
      /\ policy[Made] = "unused"
  BY <1>2, MadeIsNew DEF Inv
<1>4. TypeOK'
  BY <1>1, <1>3 DEF Inv, TypeOK
<1>5. /\ \A u \in Tasks : u # t => pc'[u] = pc[u] /\ fut'[u] = fut[u] /\ owned'[u] = owned[u]
      /\ pc'[t] = "own" /\ fut'[t] = Made /\ owned'[t] = Made
      /\ \A f \in Futures : policy'[f] = IF f = Made THEN "running" ELSE policy[f]
  BY <1>1, <1>3 DEF Inv, TypeOK
<1>6. CountInv'
  <2>1. Used' = Used \cup {Made} /\ Made \notin Used
    BY <1>3, <1>5 DEF Used
  <2>2. Cardinality(Used') = Cardinality(Used) + 1
    BY <2>1, CountsAreNumbers, FS_AddElement
  <2>3. Cardinality(Asking') = Cardinality(Asking) - 1
    BY <1>2, <1>5, AskingChanges
  <2>4. \A f \in Futures : f \in Used' <=> f <= Cardinality(Used')
    BY <1>3, <2>1, <2>2, CountsAreNumbers DEF Inv, CountInv, Futures
  <2> QED
    BY <1>1, <2>2, <2>3, <2>4, CountsAreNumbers DEF Inv, CountInv, TypeOK
<1>7. KeepInv'
  <2>1. /\ \A u \in Tasks : ~Keeper(u)
        /\ sleepers = {} /\ \A f \in Futures : policy[f] # "running"
    BY <1>1, AsyncCacheAssumption DEF Inv, KeepInv, TypeOK, Futures, Empty
  <2>2. \A u \in Tasks : u # t => ~Keeper(u)'
    BY <1>5, <2>1 DEF Keeper
  <2> QED
    BY <1>1, <1>3, <1>5, <2>1, <2>2 DEF KeepInv, Keeper
<1>8. ReturnInv'
  <2>1. returned[t] = Empty
    BY <1>1 DEF Inv, ReturnInv
  <2>2. \A u \in Tasks : returned[u] # Empty => returned[u] \in Futures /\ returned[u] # Made
    BY <1>3 DEF Inv, TypeOK, ReturnInv, Done, Policies
  <2> QED
    BY <1>1, <1>5, <2>1, <2>2 DEF Inv, ReturnInv, Done
<1> QED
  BY <1>4, <1>6, <1>7, <1>8 DEF Inv

\* A get() returns: the value of another's future, or that of its own.
LEMMA ReturnStep ==
  ASSUME Inv, NEW t \in Tasks, pc[t] # "idle", Return(t),
         Done(fut[t]), policy[fut[t]] = "none" => fut[t] = owned[t],
         UNCHANGED <<fut, policy, gets, cancels>>,
         \/ UNCHANGED <<slot, sleepers>>
         \/ Keeper(t) /\ slot' = Empty /\ UNCHANGED sleepers /\ policy[fut[t]] # "running"
         \/ Keeper(t) /\ UNCHANGED slot /\ sleepers' = sleepers \cup {fut[t]} /\ fut[t] \in Futures
  PROVE  Inv'
<1>1. /\ pc' = [pc EXCEPT ![t] = "idle"] /\ returned' = [returned EXCEPT ![t] = fut[t]]
      /\ UNCHANGED owned
  BY DEF Return, Go
<1>2. TypeOK'
  BY <1>1 DEF Inv, TypeOK
<1>3. /\ \A u \in Tasks : u # t => pc'[u] = pc[u] /\ returned'[u] = returned[u]
      /\ pc'[t] = "idle" /\ returned'[t] = fut[t]
  BY <1>1 DEF Inv, TypeOK
<1>4. CountInv'
  <2>1. t \notin Asking' /\ Used' = Used
    BY <1>3 DEF Asking, Used
  <2>2. Cardinality(Asking') <= Cardinality(Asking)
    BY <1>3, <2>1, AskingChanges, CountsAreNumbers
  <2>3. Cardinality(Asking') \in Nat /\ gets \in Nat
    <3>1. Asking' \subseteq Asking
      BY <1>3 DEF Asking
    <3> QED
      BY <3>1, CountsAreNumbers, FS_Subset, FS_CardinalityType DEF Inv, TypeOK
  <2> QED
    BY <2>1, <2>2, <2>3, CountsAreNumbers DEF Inv, CountInv
<1>5. KeepInv'
  <2>1. \A u \in Tasks : Keeper(u)' => Keeper(u) /\ u # t
    BY <1>3 DEF Keeper
  <2>2. CASE UNCHANGED <<slot, sleepers>>
    BY <1>1, <1>3, <2>1, <2>2 DEF Inv, KeepInv, Done
  <2>3. CASE Keeper(t) /\ slot' = Empty /\ UNCHANGED sleepers /\ policy[fut[t]] # "running"
    <3>1. sleepers = {} /\ slot = fut[t] /\ \A u \in Tasks : ~Keeper(u)'
      BY <2>1, <2>3 DEF Inv, KeepInv
    <3>2. \A f \in Futures : policy[f] # "running"
      BY <2>3, <3>1 DEF Inv, KeepInv
    <3> QED
      BY <2>3, <3>1, <3>2 DEF KeepInv, Keeper
  <2>4. CASE Keeper(t) /\ UNCHANGED slot /\ sleepers' = sleepers \cup {fut[t]}
    BY <1>3, <2>1, <2>4 DEF Inv, KeepInv, Done
  <2> QED
    BY <2>2, <2>3, <2>4
<1>6. ReturnInv'
  BY <1>1, <1>3 DEF Inv, ReturnInv, Done
<1> QED
  BY <1>2, <1>4, <1>5, <1>6 DEF Inv

\* The maker of a future that is not to stay goes on to remove it.
LEMMA RemoveNextStep ==
  ASSUME Inv, NEW t \in Tasks, pc[t] = "own", Done(fut[t]), pc' = [pc EXCEPT ![t] = "remove"],
         UNCHANGED <<fut, slot, policy, sleepers, gets, cancels, returned, owned>>
  PROVE  Inv'
<1>1. TypeOK'
  BY DEF Inv, TypeOK
<1>2. \A u \in Tasks : u # t => pc'[u] = pc[u]
  BY DEF Inv, TypeOK
<1>3. pc'[t] = "remove" /\ \A u \in Tasks : Keeper(u)' <=> Keeper(u)
  BY <1>2 DEF Inv, TypeOK, Keeper
<1>4. Asking' = Asking /\ Used' = Used
  BY <1>2, <1>3 DEF Asking, Used
<1>5. CountInv' /\ KeepInv' /\ ReturnInv'
  BY <1>2, <1>3, <1>4 DEF Inv, CountInv, KeepInv, ReturnInv, Done
<1> QED
  BY <1>1, <1>5 DEF Inv

\* A call is dropped: what it kept stays where it is.
LEMMA CancelStep ==
  ASSUME Inv, NEW t \in Tasks, Cancel(t)
  PROVE  Inv'
<1>1. /\ pc[t] # "idle" /\ pc' = [pc EXCEPT ![t] = "idle"]
      /\ cancels < MaxCancels /\ cancels' = cancels + 1
      /\ UNCHANGED <<fut, slot, policy, sleepers, gets, returned, owned>>
  BY DEF Cancel, Go, mapVars, histVars
<1>2. TypeOK'
  BY <1>1, AsyncCacheAssumption DEF Inv, TypeOK
<1>3. pc'[t] = "idle" /\ \A u \in Tasks : u # t => pc'[u] = pc[u]
  BY <1>1 DEF Inv, TypeOK
<1>4. CountInv'
  <2>1. t \notin Asking' /\ Used' = Used
    BY <1>1, <1>3 DEF Asking, Used
  <2>2. Cardinality(Asking') = Cardinality(Asking) - 1 \/ Asking' = Asking
    BY <1>3, <2>1, AskingChanges
  <2> QED
    BY <1>1, <2>1, <2>2, CountsAreNumbers DEF Inv, CountInv, TypeOK
<1>5. \A u \in Tasks : Keeper(u)' => Keeper(u)
  BY <1>3 DEF Keeper
<1>6. KeepInv' /\ ReturnInv'
  BY <1>1, <1>3, <1>5 DEF Inv, KeepInv, ReturnInv, Done
<1> QED
  BY <1>2, <1>4, <1>6 DEF Inv

\* A cleanup empties the slot of its own future, which does not run.
LEMMA ExpireStep ==
  ASSUME Inv, NEW f \in Futures, Expire(f)
  PROVE  Inv'
<1>1. /\ f \in sleepers /\ sleepers' = sleepers \ {f} /\ slot' = Empty
      /\ UNCHANGED <<pc, fut, policy, gets, cancels, returned, owned>>
  BY DEF Expire, histVars
<1>2. TypeOK'
  BY <1>1 DEF Inv, TypeOK
<1>3. slot = f /\ policy[f] # "running" /\ \A t \in Tasks : ~Keeper(t)
  BY <1>1 DEF Inv, KeepInv, Done, Policies
<1>4. sleepers' = {} /\ \A g \in Futures : policy[g] # "running"
  BY <1>1, <1>3 DEF Inv, KeepInv
<1>5. KeepInv'
  BY <1>1, <1>3, <1>4 DEF KeepInv, Keeper, Done
<1>6. Asking' = Asking /\ Used' = Used
  BY <1>1 DEF Asking, Used
<1>7. CountInv' /\ ReturnInv'
  BY <1>1, <1>6 DEF Inv, CountInv, ReturnInv, Done
<1> QED
  BY <1>2, <1>5, <1>7 DEF Inv

\* A future is done.
LEMMA CompleteStep ==
  ASSUME Inv, NEW f \in Futures, NEW p \in Policies, Complete(f, p)
  PROVE  Inv'
<1>1. /\ policy[f] = "running" /\ policy' = [policy EXCEPT ![f] = p]
      /\ UNCHANGED <<pc, fut, slot, sleepers, gets, cancels, returned, owned>>
  BY DEF Complete, histVars
<1>2. TypeOK'
  BY <1>1 DEF Inv, TypeOK
<1>3. \A g \in Futures : policy'[g] = IF g = f THEN p ELSE policy[g]
  BY <1>1 DEF Inv, TypeOK
<1>4. p # "running" /\ p # "unused"
  BY DEF Policies
<1>5. Asking' = Asking /\ Used' = Used
  BY <1>1, <1>3, <1>4 DEF Asking, Used
<1>6. CountInv'
  BY <1>1, <1>5 DEF Inv, CountInv
<1>7. KeepInv'
  BY <1>1, <1>3, <1>4 DEF Inv, KeepInv, Keeper, Done
<1>8. ReturnInv'
  <2>1. \A t \in Tasks : returned[t] # Empty => returned[t] \in Futures /\ returned[t] # f
    BY <1>1 DEF Inv, TypeOK, ReturnInv, Done, Policies
  <2> QED
    BY <1>1, <1>3, <2>1 DEF Inv, ReturnInv, Done
<1> QED
  BY <1>2, <1>6, <1>7, <1>8 DEF Inv

\* No task calls at first.
LEMMA InvInit == Init => Inv
<1> SUFFICES ASSUME Init PROVE Inv
  OBVIOUS
<1>1. TypeOK
  BY AsyncCacheAssumption DEF Init, TypeOK
<1>2. Used = {} /\ Asking = {} /\ gets = 0
  BY DEF Init, Used, Asking
<1>3. CountInv
  BY <1>2, FS_EmptySet, AsyncCacheAssumption DEF CountInv, Futures
<1>4. KeepInv /\ ReturnInv
  BY DEF Init, KeepInv, ReturnInv, Keeper
<1> QED
  BY <1>1, <1>3, <1>4 DEF Inv

\* Every step keeps the invariant.
LEMMA InvStep ==
  ASSUME Inv, [Next]_vars
  PROVE  Inv'
<1>1. ASSUME NEW t \in Tasks, Get(t) \/ Cancel(t)
      PROVE  Inv'
  BY <1>1, GetStep, CancelStep
<1>2. ASSUME NEW t \in Tasks, Read(t)
      PROVE  Inv'
  <2>1. /\ pc[t] = "read" /\ fut[t] \in Futures \cup {Empty} /\ slot \in Futures \cup {Empty}
        /\ fut = [fut EXCEPT ![t] = fut[t]]
    BY <1>2 DEF Read, Inv, TypeOK
  <2>2. CASE slot = Empty
    <3>1. /\ pc' = [pc EXCEPT ![t] = "write"] /\ fut' = [fut EXCEPT ![t] = fut[t]]
          /\ UNCHANGED <<slot, policy, sleepers, gets, cancels, returned, owned>>
      BY <1>2, <2>1, <2>2 DEF Read, Go, mapVars, histVars
    <3> QED
      BY <2>1, <3>1, LookUpStep
  <2>3. CASE slot # Empty
    <3>1. /\ pc' = [pc EXCEPT ![t] = "await"] /\ fut' = [fut EXCEPT ![t] = slot]
          /\ UNCHANGED <<slot, policy, sleepers, gets, cancels, returned, owned>>
      BY <1>2, <2>3 DEF Read, Go, mapVars, histVars
    <3> QED
      BY <2>1, <3>1, LookUpStep
  <2> QED
    BY <2>2, <2>3
<1>3. ASSUME NEW t \in Tasks, Write(t)
      PROVE  Inv'
  <2>1. CASE ~StillEmpty
    <3>1. /\ pc[t] = "write" /\ pc' = [pc EXCEPT ![t] = "await"] /\ fut' = [fut EXCEPT ![t] = slot]
          /\ UNCHANGED <<slot, policy, sleepers, gets, cancels, returned, owned>>
      BY <1>3, <2>1 DEF Write, Go
    <3>2. slot \in Futures \cup {Empty}
      BY DEF Inv, TypeOK
    <3> QED
      BY <3>1, <3>2, LookUpStep
  <2> QED
    BY <1>3, <2>1, WriteStep
<1>4. ASSUME NEW t \in Tasks, Await(t)
      PROVE  Inv'
  <2>1. /\ pc[t] = "await" /\ Done(fut[t]) /\ UNCHANGED <<fut, slot, policy, sleepers, gets, cancels>>
    BY <1>4 DEF Await, mapVars
  <2>2. CASE policy[fut[t]] = "none"
    <3>1. pc' = [pc EXCEPT ![t] = "read"] /\ UNCHANGED <<returned, owned>>
      BY <1>4, <2>2 DEF Await, Go, AskedAgain, histVars
    <3>2. fut[t] \in Futures \cup {Empty} /\ fut' = [fut EXCEPT ![t] = fut[t]]
      BY <2>1 DEF Inv, TypeOK
    <3> QED
      BY <2>1, <3>1, <3>2, LookUpStep
  <2>3. CASE policy[fut[t]] # "none"
    <3>1. Return(t)
      BY <1>4, <2>3 DEF Await, AskedAgain
    <3> QED
      BY <2>1, <2>3, <3>1, ReturnStep
  <2> QED
    BY <2>2, <2>3
<1>5. ASSUME NEW t \in Tasks, Own(t)
      PROVE  Inv'
  <2>1. /\ pc[t] = "own" /\ Done(fut[t]) /\ UNCHANGED <<fut, slot, policy, gets, cancels>>
    BY <1>5 DEF Own
  <2>2. CASE policy[fut[t]] \in {"shared", "none"}
    <3>1. /\ pc' = [pc EXCEPT ![t] = "remove"] /\ UNCHANGED <<sleepers, returned, owned>>
      BY <1>5, <2>2 DEF Own, Go, RemovedAtOnce, RemovedLater, histVars
    <3> QED
      BY <2>1, <3>1, RemoveNextStep
  <2>3. CASE policy[fut[t]] \notin {"shared", "none"}
    <3>1. Return(t) /\ policy[fut[t]] # "none" /\ Keeper(t)
      BY <1>5, <2>1, <2>3 DEF Own, RemovedAtOnce, Keeper
    <3>2. sleepers' = sleepers \/ sleepers' = sleepers \cup {fut[t]}
      BY <1>5 DEF Own
    <3>3. fut[t] \in Futures
      BY <3>1 DEF Inv, TypeOK, KeepInv
    <3> QED
      BY <2>1, <3>1, <3>2, <3>3, ReturnStep
  <2> QED
    BY <2>2, <2>3
<1>6. ASSUME NEW t \in Tasks, Remove(t)
      PROVE  Inv'
  <2>1. /\ pc[t] = "remove" /\ slot' = Empty /\ Return(t)
        /\ UNCHANGED <<fut, policy, sleepers, gets, cancels>>
    BY <1>6 DEF Remove
  <2>2. Keeper(t) /\ Done(fut[t]) /\ fut[t] = owned[t] /\ policy[fut[t]] # "running"
    BY <2>1 DEF Inv, KeepInv, Keeper, Done, Policies
  <2> QED
    BY <2>1, <2>2, ReturnStep
<1>7. ASSUME NEW f \in Futures, Expire(f) \/ \E p \in Policies : Complete(f, p)
      PROVE  Inv'
  BY <1>7, ExpireStep, CompleteStep
<1>8. CASE UNCHANGED vars
  <2>1. UNCHANGED <<pc, fut, slot, policy, sleepers, gets, cancels, returned, owned>>
    BY <1>8 DEF vars, mapVars, histVars
  <2>2. Asking' = Asking /\ Used' = Used
    BY <2>1 DEF Asking, Used
  <2> QED
    BY <2>1, <2>2 DEF Inv, TypeOK, CountInv, KeepInv, ReturnInv, Keeper, Done
<1> QED
  BY <1>1, <1>2, <1>3, <1>4, <1>5, <1>6, <1>7, <1>8 DEF Next, Step

\* So the specification does.
LEMMA Invariance == Spec => []Inv
<1>1. Inv /\ [Next]_vars => Inv'
  BY InvStep
<1> QED
  BY InvInit, <1>1, PTL DEF Spec

-----------------------------------------------------------------------------
(* The theorems *)

\* No call makes more than one future, so that their numbers suffice.
THEOREM AsyncCacheTypeCorrect == Spec => []TypeOK
<1>1. Inv => TypeOK
  BY DEF Inv
<1> QED
  BY Invariance, <1>1, PTL

\* However many tasks look a key up, at whatever moments, and whoever is dropped, its
\* value is not computed twice at the same time.
THEOREM NeverComputedTwiceAtOnce == Spec => []NoConcurrency
<1>1. Inv => NoConcurrency
  <2> SUFFICES ASSUME Inv PROVE NoConcurrency
    OBVIOUS
  <2> DEFINE Running == {f \in Futures : policy[f] = "running"}
  <2>1. Running = {} \/ Running = {slot}
    BY DEF Inv, KeepInv
  <2>2. Cardinality(Running) <= 1
    <3>1. Cardinality({}) = 0 /\ Cardinality({slot}) = 1
      BY FS_EmptySet, FS_Singleton
    <3> HIDE DEF Running
    <3> QED
      BY <2>1, <3>1
  <2> QED
    BY <2>2 DEF NoConcurrency
<1> QED
  BY Invariance, <1>1, PTL

\* A removal by key, at once or by a cleanup, finds the future it was meant for.
THEOREM RemovalsHitTheirOwn == Spec => []RemovesItsOwn
<1>1. Inv => RemovesItsOwn
  BY DEF Inv, KeepInv, Keeper, RemovesItsOwn
<1> QED
  BY Invariance, <1>1, PTL

\* What is not to be cached is returned by one call only.
THEOREM UncachedReturnedOnce == Spec => []UncachedIsPrivate
<1>1. Inv => UncachedIsPrivate
  BY DEF Inv, ReturnInv, UncachedIsPrivate
<1> QED
  BY Invariance, <1>1, PTL

=============================================================================
