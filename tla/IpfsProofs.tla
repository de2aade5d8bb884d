----------------------------- MODULE IpfsProofs -----------------------------
(***************************************************************************)
(* Theorems about Ipfs, for any number of checks and files, any number of  *)
(* permits and retries, any capacity of the cache and any changes of what  *)
(* the gateway serves.                                                     *)
(***************************************************************************)
EXTENDS Ipfs, SequenceTheorems, FiniteSetTheorems, TLAPS

-----------------------------------------------------------------------------
(* Types and the queue *)

\* What the tasks keep.
TaskTypes ==
  /\ pc \in [Tasks -> {"idle", "queued", "calling", "body", "done"}]
  /\ arg \in [Tasks -> Cids]
  /\ failures \in [Tasks -> 0..(Retries + 1)]
  /\ result \in [Tasks -> Results]

\* What they share; the bound on the free permits is left to PermitsConserved.
SharedTypes ==
  /\ queue \in Seq(Tasks)
  /\ permits \in Nat
  /\ cache \in SUBSET Cids

\* The runs and the gateway.
WorldTypes ==
  /\ running \in BOOLEAN
  /\ served \in SUBSET Cids
  /\ turns \in 0..MaxTurns
  /\ servedInRun \in SUBSET Cids
  /\ lateBody \in SUBSET Tasks

VarTypes == TaskTypes /\ SharedTypes /\ WorldTypes

\* A call is made, or waits to be, only while there are calls left.
FewFailures == \A t \in Tasks : pc[t] \in {"queued", "calling"} => failures[t] <= Retries

\* A task waits in the queue once, and only while it has no permit.
QueueInv ==
  /\ \A i \in 1..Len(queue) : pc[queue[i]] = "queued"
  /\ \A i, j \in 1..Len(queue) : queue[i] = queue[j] => i = j

\* Append adds one element, at the end.
LEMMA AppendAtEnd ==
  ASSUME NEW S, NEW s \in Seq(S), NEW e \in S
  PROVE  /\ Append(s, e) \in Seq(S)
         /\ Len(Append(s, e)) = Len(s) + 1 /\ Len(s) \in Nat
         /\ \A i \in 1..Len(s) : Append(s, e)[i] = s[i]
         /\ Append(s, e)[Len(s) + 1] = e
OBVIOUS

\* What is left of a sequence moves up by one.
LEMMA TailMovesUp ==
  ASSUME NEW S, NEW s \in Seq(S), s # <<>>
  PROVE  /\ Tail(s) \in Seq(S)
         /\ Len(Tail(s)) = Len(s) - 1 /\ Len(s) \in Nat /\ Len(s) >= 1
         /\ \A i \in 1..Len(Tail(s)) : Tail(s)[i] = s[i + 1]
         /\ Head(s) = s[1] /\ Head(s) \in S
OBVIOUS

\* A cache stays a set of files, whatever its policy evicts.
LEMMA InsertedTyped ==
  ASSUME NEW c, NEW S \in Inserted(c)
  PROVE  S \subseteq cache \cup {c}
BY DEF Inserted

\* A step leaves a task with values of its types, and with a call left if it is to
\* make one.
LEMMA TaskTypesStep ==
  ASSUME TaskTypes, SharedTypes, QueueInv, FewFailures, [Next]_vars
  PROVE  TaskTypes' /\ FewFailures'
<1>0. Retries \in Nat
  BY IpfsAssumption
<1>1. ASSUME NEW t \in Tasks, NEW c \in Cids, Cat(t, c)
      PROVE  TaskTypes' /\ FewFailures'
  <2>1. /\ arg' \in [Tasks -> Cids] /\ result' \in [Tasks -> Results]
        /\ pc' \in [Tasks -> {"idle", "queued", "calling", "body", "done"}]
    BY <1>1 DEF Cat, TaskTypes, Results, CallErrors
  <2>2. failures' = [failures EXCEPT ![t] = 0]
    BY <1>1 DEF Cat
  <2>3. failures' \in [Tasks -> 0..(Retries + 1)]
    BY <1>0, <2>2 DEF TaskTypes
  <2>4. FewFailures'
    <3> SUFFICES ASSUME NEW u \in Tasks, pc'[u] \in {"queued", "calling"}
                 PROVE  failures'[u] <= Retries
      BY DEF FewFailures
    <3>1. CASE u = t
      BY <1>0, <2>2, <3>1 DEF TaskTypes
    <3>2. CASE u # t
      <4>1. pc'[u] = pc[u] /\ failures'[u] = failures[u]
        BY <1>1, <3>2 DEF Cat, TaskTypes
      <4> QED
        BY <4>1 DEF FewFailures
    <3> QED
      BY <3>1, <3>2
  <2> QED
    BY <2>1, <2>3, <2>4 DEF TaskTypes
<1>2. CASE Acquire
  <2>1. Head(queue) \in Tasks /\ pc[Head(queue)] = "queued"
    BY <1>2, TailMovesUp DEF Acquire, SharedTypes, QueueInv
  <2>2. /\ pc' = [pc EXCEPT ![Head(queue)] = "calling"]
        /\ UNCHANGED <<arg, failures, result>>
    BY <1>2 DEF Acquire
  <2>3. pc' \in [Tasks -> {"idle", "queued", "calling", "body", "done"}]
    BY <2>1, <2>2 DEF TaskTypes
  <2>4. FewFailures'
    BY <2>1, <2>2 DEF FewFailures, TaskTypes
  <2> QED
    BY <2>2, <2>3, <2>4 DEF TaskTypes
<1>3. ASSUME NEW t \in Tasks,
             Headers(t) \/ Body(t) \/ (\E late \in BOOLEAN : BodyFails(t, late)) \/ Return(t)
      PROVE  TaskTypes' /\ FewFailures'
  <2>1. TaskTypes'
    BY <1>3 DEF Headers, Body, BodyFails, Return, TaskTypes, Results, CallErrors
  <2>2. FewFailures'
    <3>1. /\ \A u \in Tasks : u # t => pc'[u] = pc[u]
          /\ pc'[t] \notin {"queued", "calling"} /\ UNCHANGED failures
      BY <1>3 DEF Headers, Body, BodyFails, Return, TaskTypes
    <3>2. ASSUME NEW u \in Tasks, pc'[u] \in {"queued", "calling"}
          PROVE  failures'[u] <= Retries
      <4>1. pc[u] = pc'[u] /\ failures'[u] = failures[u]
        BY <3>1, <3>2
      <4> QED
        BY <3>2, <4>1 DEF FewFailures
    <3> QED
      BY <3>2 DEF FewFailures
  <2> QED
    BY <2>1, <2>2
<1>4. ASSUME NEW t \in Tasks, NEW error \in CallErrors, CallFails(t, error)
      PROVE  TaskTypes' /\ FewFailures'
  <2>1. failures[t] <= Retries /\ failures[t] \in Nat
    <3>1. pc[t] = "calling"
      BY <1>4 DEF CallFails
    <3>2. failures[t] \in 0..(Retries + 1)
      BY DEF TaskTypes
    <3> QED
      BY <1>0, <3>1, <3>2 DEF FewFailures
  <2>2. failures' = [failures EXCEPT ![t] = failures[t] + 1] /\ UNCHANGED arg
    BY <1>4 DEF CallFails
  <2>3. failures' \in [Tasks -> 0..(Retries + 1)]
    BY <1>0, <2>1, <2>2 DEF TaskTypes
  <2>4. \/ /\ failures[t] < Retries /\ pc' = [pc EXCEPT ![t] = "queued"] /\ UNCHANGED result
        \/ /\ pc' = [pc EXCEPT ![t] = "done"] /\ result' = [result EXCEPT ![t] = error]
    BY <1>4 DEF CallFails, RetriesLeft
  <2>5. /\ pc' \in [Tasks -> {"idle", "queued", "calling", "body", "done"}]
        /\ result' \in [Tasks -> Results]
    BY <2>4 DEF TaskTypes, Results
  <2>6. FewFailures'
    <3> SUFFICES ASSUME NEW u \in Tasks, pc'[u] \in {"queued", "calling"}
                 PROVE  failures'[u] <= Retries
      BY DEF FewFailures
    <3>1. CASE u = t
      <4>1. failures[t] < Retries
        BY <2>4, <3>1 DEF TaskTypes
      <4>2. failures'[t] = failures[t] + 1
        BY <2>2 DEF TaskTypes
      <4> QED
        BY <1>0, <2>1, <3>1, <4>1, <4>2
    <3>2. CASE u # t
      <4>1. pc'[u] = pc[u] /\ failures'[u] = failures[u]
        BY <2>2, <2>4, <3>2 DEF TaskTypes
      <4> QED
        BY <4>1 DEF FewFailures
    <3> QED
      BY <3>1, <3>2
  <2> QED
    BY <2>2, <2>3, <2>5, <2>6 DEF TaskTypes
<1>5. CASE EndRun
  BY <1>5 DEF EndRun, TaskTypes, FewFailures
<1>6. CASE StartRun \/ (\E c \in Cids : Turn(c)) \/ UNCHANGED vars
  <2>1. UNCHANGED <<pc, arg, failures, result>>
    BY <1>6 DEF StartRun, Turn, vars, clientVars
  <2> QED
    BY <2>1 DEF TaskTypes, FewFailures
<1> QED
  BY <1>1, <1>2, <1>3, <1>4, <1>5, <1>6 DEF Next, Answered

\* What they share keeps its types.
LEMMA SharedTypesStep ==
  ASSUME TaskTypes, SharedTypes, [Next]_vars
  PROVE  SharedTypes'
<1> USE DEF SharedTypes
<1>1. ASSUME NEW t \in Tasks,
             \/ \E c \in Cids : Cat(t, c)
             \/ \E error \in CallErrors : CallFails(t, error)
      PROVE  SharedTypes'
  <2>1. queue' = queue \/ queue' = Append(queue, t)
    BY <1>1 DEF Cat, CallFails
  <2>2. queue' \in Seq(Tasks)
    BY <2>1, AppendAtEnd
  <2>3. UNCHANGED cache /\ (permits' = permits \/ permits' = permits + 1)
    BY <1>1 DEF Cat, CallFails
  <2> QED
    BY <2>2, <2>3
<1>2. CASE Acquire
  BY <1>2, TailMovesUp DEF Acquire
<1>3. ASSUME NEW t \in Tasks, Body(t)
      PROVE  SharedTypes'
  BY <1>3, InsertedTyped DEF Body, TaskTypes
<1>4. ASSUME NEW t \in Tasks,
             Headers(t) \/ (\E late \in BOOLEAN : BodyFails(t, late)) \/ Return(t)
      PROVE  SharedTypes'
  BY <1>4 DEF Headers, BodyFails, Return
<1>5. CASE EndRun
  <2>1. IsFiniteSet(Calling)
    BY IpfsAssumption, FS_Subset DEF Calling
  <2>2. Held \in Nat
    BY <2>1, FS_CardinalityType DEF Held
  <2> QED
    BY <1>5, <2>2, EmptySeq DEF EndRun, InvalidatedCache
<1>6. CASE StartRun \/ (\E c \in Cids : Turn(c)) \/ UNCHANGED vars
  BY <1>6 DEF StartRun, Turn, vars, clientVars
<1> QED
  BY <1>1, <1>2, <1>3, <1>4, <1>5, <1>6 DEF Next, Answered

\* So do the runs and the gateway.
LEMMA WorldTypesStep ==
  ASSUME WorldTypes, [Next]_vars
  PROVE  WorldTypes'
<1>1. ASSUME NEW t \in Tasks,
             \/ (\E c \in Cids : Cat(t, c)) \/ Headers(t) \/ Body(t) \/ Return(t)
             \/ (\E error \in CallErrors : CallFails(t, error))
             \/ (\E late \in BOOLEAN : BodyFails(t, late))
      PROVE  WorldTypes'
  <2>1. UNCHANGED <<running, served, turns, servedInRun>>
    BY <1>1, Zenon DEF Cat, Headers, CallFails, Body, BodyFails, Return
  <2>2. lateBody' \subseteq lateBody \cup {t}
    BY <1>1 DEF Cat, Headers, CallFails, Body, BodyFails, Return
  <2>3. lateBody' \in SUBSET Tasks
    BY <2>2 DEF WorldTypes
  <2> QED
    BY <2>1, <2>3, Zenon DEF WorldTypes
<1>2. CASE Acquire
  BY <1>2, Zenon DEF Acquire, WorldTypes
<1>3. CASE StartRun \/ EndRun
  <2>1. /\ running' \in BOOLEAN /\ UNCHANGED <<served, turns, lateBody>>
        /\ servedInRun' = served \/ servedInRun' = servedInRun
    BY <1>3, Zenon DEF StartRun, EndRun
  <2> QED
    BY <2>1, Zenon DEF WorldTypes
<1>4. ASSUME NEW c \in Cids, Turn(c)
      PROVE  WorldTypes'
  <2>1. UNCHANGED <<running, lateBody>>
    BY <1>4, Zenon DEF Turn
  <2>2. served' \in SUBSET Cids /\ servedInRun' \in SUBSET Cids
    BY <1>4 DEF Turn, WorldTypes
  <2>3. turns' \in 0..MaxTurns
    BY <1>4, IpfsAssumption DEF Turn, WorldTypes
  <2> QED
    BY <2>1, <2>2, <2>3, Zenon DEF WorldTypes
<1>5. CASE UNCHANGED vars
  BY <1>5, Zenon DEF vars, WorldTypes
<1> QED
  BY <1>1, <1>2, <1>3, <1>4, <1>5 DEF Next, Answered

\* Joining the queue at its end keeps it.
LEMMA QueueJoined ==
  ASSUME VarTypes, QueueInv, NEW t \in Tasks, pc[t] # "queued",
         pc' = [pc EXCEPT ![t] = "queued"], queue' = Append(queue, t)
  PROVE  QueueInv'
<1>1. /\ Len(queue') = Len(queue) + 1 /\ Len(queue) \in Nat
      /\ \A i \in 1..Len(queue) : queue'[i] = queue[i]
      /\ queue'[Len(queue) + 1] = t
  BY AppendAtEnd DEF VarTypes, TaskTypes, SharedTypes
<1>2. \A i \in 1..Len(queue) : queue[i] \in Tasks /\ queue[i] # t
  BY ElementOfSeq DEF QueueInv, VarTypes, TaskTypes, SharedTypes
<1>3. pc'[t] = "queued" /\ \A u \in Tasks : u # t => pc'[u] = pc[u]
  BY DEF VarTypes, TaskTypes, SharedTypes
<1>4. \A i \in 1..Len(queue') : i \in 1..Len(queue) \/ i = Len(queue) + 1
  BY <1>1
<1>5. \A i \in 1..Len(queue') : pc'[queue'[i]] = "queued"
  BY <1>1, <1>2, <1>3, <1>4 DEF QueueInv
<1>6. \A i, j \in 1..Len(queue') : queue'[i] = queue'[j] => i = j
  BY <1>1, <1>2, <1>4 DEF QueueInv
<1> QED
  BY <1>5, <1>6 DEF QueueInv

\* A task that is not queued may do what it likes.
LEMMA QueueUndisturbed ==
  ASSUME VarTypes, QueueInv, NEW t \in Tasks, pc[t] # "queued",
         \A u \in Tasks : u # t => pc'[u] = pc[u], UNCHANGED queue
  PROVE  QueueInv'
<1>1. \A i \in 1..Len(queue) : queue[i] \in Tasks /\ queue[i] # t
  BY ElementOfSeq DEF QueueInv, VarTypes, TaskTypes, SharedTypes
<1> QED
  BY <1>1 DEF QueueInv

\* Every step keeps the queue in order.
LEMMA QueueStep ==
  ASSUME VarTypes, QueueInv, [Next]_vars
  PROVE  QueueInv'
<1>1. ASSUME NEW t \in Tasks, NEW c \in Cids, Cat(t, c)
      PROVE  QueueInv'
  <2>1. CASE c \in cache
    BY <1>1, <2>1, QueueUndisturbed DEF Cat, VarTypes, TaskTypes, SharedTypes
  <2>2. CASE c \notin cache
    BY <1>1, <2>2, QueueJoined DEF Cat
  <2> QED
    BY <2>1, <2>2
<1>2. CASE Acquire
  <2>1. /\ queue # <<>> /\ queue' = Tail(queue) /\ pc' = [pc EXCEPT ![Head(queue)] = "calling"]
    BY <1>2 DEF Acquire
  <2>2. /\ Len(Tail(queue)) = Len(queue) - 1 /\ Len(queue) \in Nat /\ Len(queue) >= 1
        /\ \A i \in 1..Len(Tail(queue)) : Tail(queue)[i] = queue[i + 1]
        /\ Head(queue) = queue[1]
    BY <2>1, TailMovesUp DEF VarTypes, TaskTypes, SharedTypes
  <2>3. \A i \in 1..Len(queue) : queue[i] \in Tasks
    BY ElementOfSeq DEF VarTypes, TaskTypes, SharedTypes
  <2>4. \A i \in 1..Len(queue') : queue'[i] = queue[i + 1] /\ i + 1 \in 1..Len(queue) /\ i + 1 # 1
    BY <2>1, <2>2
  <2>5. \A i \in 1..Len(queue') : queue'[i] # Head(queue) /\ pc[queue'[i]] = "queued"
    BY <2>2, <2>4 DEF QueueInv
  <2>6. \A i \in 1..Len(queue') : pc'[queue'[i]] = "queued"
    BY <2>1, <2>3, <2>4, <2>5 DEF VarTypes, TaskTypes, SharedTypes
  <2>7. \A i, j \in 1..Len(queue') : queue'[i] = queue'[j] => i = j
    <3> TAKE i, j \in 1..Len(queue')
    <3>1. queue'[i] = queue'[j] => i + 1 = j + 1
      BY <2>4 DEF QueueInv
    <3> QED
      BY <3>1
  <2> QED
    BY <2>6, <2>7 DEF QueueInv
<1>3. ASSUME NEW t \in Tasks, NEW error \in CallErrors, CallFails(t, error)
      PROVE  QueueInv'
  <2>1. CASE RetriesLeft(t, error)
    BY <1>3, <2>1, QueueJoined DEF CallFails
  <2>2. CASE ~RetriesLeft(t, error)
    BY <1>3, <2>2, QueueUndisturbed DEF CallFails, VarTypes, TaskTypes, SharedTypes
  <2> QED
    BY <2>1, <2>2
<1>4. ASSUME NEW t \in Tasks,
             Headers(t) \/ Body(t) \/ (\E late \in BOOLEAN : BodyFails(t, late)) \/ Return(t)
      PROVE  QueueInv'
  BY <1>4, QueueUndisturbed DEF Headers, Body, BodyFails, Return, VarTypes, TaskTypes, SharedTypes
<1>5. CASE EndRun
  BY <1>5 DEF EndRun, QueueInv
<1>6. CASE StartRun \/ (\E c \in Cids : Turn(c)) \/ UNCHANGED vars
  BY <1>6 DEF StartRun, Turn, vars, clientVars, QueueInv
<1> QED
  BY <1>1, <1>2, <1>3, <1>4, <1>5, <1>6 DEF Next, Answered

-----------------------------------------------------------------------------
(* Permits *)

\* The calls in flight are finitely many.
LEMMA CallingFinite ==
  ASSUME VarTypes
  PROVE  IsFiniteSet(Calling) /\ Cardinality(Calling) \in Nat
<1>1. IsFiniteSet(Calling)
  BY IpfsAssumption, FS_Subset DEF Calling
<1> QED
  BY <1>1, FS_CardinalityType

\* A task that gets a permit is one more call, one that gives it back one less.
LEMMA CallingChanges ==
  ASSUME VarTypes, NEW t \in Tasks, \A u \in Tasks : u # t => pc'[u] = pc[u]
  PROVE  /\ pc[t] # "calling" /\ pc'[t] = "calling"
              => Cardinality(Calling') = Cardinality(Calling) + 1
         /\ pc[t] = "calling" /\ pc'[t] # "calling"
              => Cardinality(Calling') = Cardinality(Calling) - 1
         /\ (pc[t] = "calling" <=> pc'[t] = "calling") => Calling' = Calling
<1>1. pc[t] # "calling" /\ pc'[t] = "calling" => t \notin Calling /\ Calling' = Calling \cup {t}
  BY DEF Calling
<1>2. pc[t] = "calling" /\ pc'[t] # "calling" => t \in Calling /\ Calling' = Calling \ {t}
  BY DEF Calling
<1>3. (pc[t] = "calling" <=> pc'[t] = "calling") => Calling' = Calling
  BY DEF Calling
<1> QED
  BY <1>1, <1>2, <1>3, CallingFinite, FS_AddElement, FS_RemoveElement

\* Every step gives and takes permits with the calls.
LEMMA PermitsStep ==
  ASSUME VarTypes, QueueInv, PermitsConserved, [Next]_vars
  PROVE  PermitsConserved'
<1> USE CallingFinite, IpfsAssumption
<1>1. permits \in Nat
  BY DEF VarTypes, TaskTypes, SharedTypes
<1>2. ASSUME NEW t \in Tasks,
             \/ \E c \in Cids : Cat(t, c)
             \/ Body(t) \/ (\E late \in BOOLEAN : BodyFails(t, late)) \/ Return(t)
      PROVE  PermitsConserved'
  <2>1. /\ \A u \in Tasks : u # t => pc'[u] = pc[u]
        /\ pc[t] # "calling" /\ pc'[t] # "calling" /\ UNCHANGED permits
    BY <1>2 DEF Cat, Body, BodyFails, Return, VarTypes, TaskTypes, SharedTypes
  <2> QED
    BY <2>1, CallingChanges DEF PermitsConserved
<1>3. CASE Acquire
  <2>1. Head(queue) \in Tasks /\ pc[Head(queue)] = "queued"
    BY <1>3, TailMovesUp DEF Acquire, VarTypes, TaskTypes, SharedTypes, QueueInv
  <2>2. /\ pc'[Head(queue)] = "calling" /\ permits' = permits - 1
        /\ \A u \in Tasks : u # Head(queue) => pc'[u] = pc[u]
    BY <1>3, <2>1 DEF Acquire, VarTypes, TaskTypes, SharedTypes
  <2>3. Cardinality(Calling') = Cardinality(Calling) + 1
    BY <2>1, <2>2, CallingChanges
  <2> QED
    BY <1>1, <2>2, <2>3 DEF PermitsConserved
<1>4. ASSUME NEW t \in Tasks, Headers(t) \/ \E error \in CallErrors : CallFails(t, error)
      PROVE  PermitsConserved'
  <2>1. /\ \A u \in Tasks : u # t => pc'[u] = pc[u]
        /\ pc[t] = "calling" /\ pc'[t] # "calling" /\ permits' = permits + 1
    BY <1>4 DEF Headers, CallFails, VarTypes, TaskTypes, SharedTypes
  <2>2. Cardinality(Calling') = Cardinality(Calling) - 1
    BY <2>1, CallingChanges
  <2> QED
    BY <1>1, <2>1, <2>2 DEF PermitsConserved
<1>5. CASE EndRun
  <2>1. permits' = permits + Cardinality(Calling) /\ Calling' = {}
    BY <1>5 DEF EndRun, Held, Calling
  <2> QED
    BY <1>1, <2>1, FS_EmptySet DEF PermitsConserved
<1>6. CASE StartRun \/ (\E c \in Cids : Turn(c)) \/ UNCHANGED vars
  <2>1. UNCHANGED <<pc, permits>>
    BY <1>6 DEF StartRun, Turn, vars, clientVars
  <2> QED
    BY <2>1 DEF PermitsConserved, Calling
<1> QED
  BY <1>2, <1>3, <1>4, <1>5, <1>6 DEF Next, Answered

\* The types, the queue and the permits hold each other up.
Inv ==
  TaskTypes /\ SharedTypes /\ WorldTypes /\ FewFailures /\ QueueInv /\ PermitsConserved

\* No task asks for anything at first.
LEMMA InvInit == Init => Inv
<1> SUFFICES ASSUME Init PROVE Inv
  OBVIOUS
<1>0. Retries \in Nat /\ MaxConcurrent \in Nat /\ MaxTurns \in Nat
  BY IpfsAssumption
<1>1. TaskTypes /\ FewFailures
  BY <1>0 DEF Init, TaskTypes, FewFailures, Results
<1>2. SharedTypes /\ QueueInv
  BY <1>0, EmptySeq DEF Init, SharedTypes, QueueInv
<1>3. WorldTypes
  <2>1. running \in BOOLEAN /\ served \in SUBSET Cids /\ servedInRun \in SUBSET Cids
    BY Zenon DEF Init
  <2>2. turns \in 0..MaxTurns /\ lateBody \in SUBSET Tasks
    BY <1>0 DEF Init
  <2> QED
    BY <2>1, <2>2, Zenon DEF WorldTypes
<1>4. Calling = {} /\ permits = MaxConcurrent
  BY DEF Init, Calling
<1>5. PermitsConserved
  BY <1>0, <1>4, FS_EmptySet DEF PermitsConserved
<1> QED
  BY <1>1, <1>2, <1>3, <1>5 DEF Inv

\* The specification keeps them.
LEMMA Invariance == Spec => []Inv
<1>1. ASSUME Inv, [Next]_vars
      PROVE  Inv'
  <2>1. TaskTypes /\ SharedTypes /\ WorldTypes /\ FewFailures /\ QueueInv /\ PermitsConserved
    BY <1>1 DEF Inv
  <2>2. TaskTypes' /\ FewFailures'
    BY <1>1, <2>1, TaskTypesStep
  <2>3. SharedTypes' /\ WorldTypes'
    BY <1>1, <2>1, SharedTypesStep, WorldTypesStep
  <2>4. QueueInv' /\ PermitsConserved'
    BY <1>1, <2>1, QueueStep, PermitsStep DEF VarTypes
  <2> QED
    BY <2>2, <2>3, <2>4 DEF Inv
<1>2. Inv /\ [Next]_vars => Inv'
  BY <1>1
<1> QED
  BY InvInit, <1>2, PTL DEF Spec

\* There are never more free permits than the semaphore was made with.
THEOREM IpfsTypeCorrect == Spec => []TypeOK
<1>1. Inv => TypeOK
  <2> SUFFICES ASSUME Inv PROVE TypeOK
    OBVIOUS
  <2>1. TaskTypes /\ SharedTypes /\ WorldTypes /\ PermitsConserved
    BY DEF Inv
  <2>2. Cardinality(Calling) \in Nat /\ permits \in Nat
    BY <2>1, CallingFinite DEF VarTypes, SharedTypes
  <2>3. permits \in 0..MaxConcurrent
    BY <2>1, <2>2, IpfsAssumption DEF PermitsConserved
  <2> QED
    BY <2>1, <2>3, Zenon DEF TaskTypes, SharedTypes, WorldTypes, TypeOK
<1> QED
  BY Invariance, <1>1, PTL

\* For any number of checks and permits, and however runs are aborted, no permit
\* is lost.
THEOREM NoPermitLost == Spec => []PermitsConserved
<1>1. Inv => PermitsConserved
  BY DEF Inv
<1> QED
  BY Invariance, <1>1, PTL

-----------------------------------------------------------------------------
(* What a result stands for *)

\* Between two runs no task asks for anything and nothing is cached; what a run knows
\* of, the gateway could deliver in it.
RunInv ==
  /\ ~running => cache = {} /\ \A t \in Tasks : pc[t] = "idle"
  /\ served \subseteq servedInRun /\ cache \subseteq servedInRun
  /\ \A t \in Tasks : pc[t] = "body" => arg[t] \in servedInRun

\* A task that is not idle is in a run.
LEMMA BusyInRun ==
  ASSUME RunInv, NEW t \in Tasks, pc[t] # "idle"
  PROVE  running
BY Zenon DEF RunInv

\* What a task does with the file it asks for leaves the results true that were.
LEMMA ResultsStep ==
  ASSUME TaskTypes, SharedTypes, QueueInv, RunInv, OkIsOfThisRun, [Next]_vars
  PROVE  RunInv' /\ OkIsOfThisRun'
<1>1. ASSUME NEW t \in Tasks, NEW c \in Cids, Cat(t, c)
      PROVE  RunInv' /\ OkIsOfThisRun'
  <2>1. running /\ UNCHANGED <<cache, running, served, servedInRun>>
    BY <1>1 DEF Cat
  <2>2. /\ \A u \in Tasks : u # t => pc'[u] = pc[u] /\ arg'[u] = arg[u] /\ result'[u] = result[u]
        /\ arg'[t] = c /\ pc'[t] # "body" /\ (pc'[t] = "done" => c \in cache)
    BY <1>1 DEF Cat, TaskTypes
  <2> QED
    BY <2>1, <2>2 DEF RunInv, OkIsOfThisRun
<1>2. CASE Acquire
  <2>1. Head(queue) \in Tasks /\ pc[Head(queue)] = "queued"
    BY <1>2, TailMovesUp DEF Acquire, SharedTypes, QueueInv
  <2>2. running /\ UNCHANGED <<arg, result, cache, running, served, servedInRun>>
    BY <1>2, <2>1, BusyInRun DEF Acquire
  <2>3. /\ \A u \in Tasks : u # Head(queue) => pc'[u] = pc[u]
        /\ pc'[Head(queue)] = "calling"
    BY <1>2, <2>1 DEF Acquire, TaskTypes
  <2> QED
    BY <2>1, <2>2, <2>3 DEF RunInv, OkIsOfThisRun
<1>3. ASSUME NEW t \in Tasks, Headers(t) \/ Return(t)
      PROVE  RunInv' /\ OkIsOfThisRun'
  <2>1. running /\ UNCHANGED <<arg, result, cache, running, served, servedInRun>>
    BY <1>3, BusyInRun DEF Headers, Return
  <2>2. /\ \A u \in Tasks : u # t => pc'[u] = pc[u]
        /\ pc'[t] # "done" /\ (pc'[t] = "body" => arg[t] \in served)
    BY <1>3 DEF Headers, Return, TaskTypes
  <2> QED
    BY <2>1, <2>2 DEF RunInv, OkIsOfThisRun
<1>4. ASSUME NEW t \in Tasks, Body(t)
      PROVE  RunInv' /\ OkIsOfThisRun'
  <2>1. running /\ UNCHANGED <<arg, running, served, servedInRun>>
    BY <1>4, BusyInRun DEF Body
  <2>2. cache' \subseteq cache \cup {arg[t]} /\ arg[t] \in servedInRun
    BY <1>4, InsertedTyped DEF Body, RunInv
  <2>3. /\ \A u \in Tasks : u # t => pc'[u] = pc[u] /\ result'[u] = result[u]
        /\ pc'[t] = "done"
    BY <1>4 DEF Body, TaskTypes
  <2> QED
    BY <2>1, <2>2, <2>3 DEF RunInv, OkIsOfThisRun
<1>5. ASSUME NEW t \in Tasks,
             \/ (\E error \in CallErrors : CallFails(t, error))
             \/ (\E late \in BOOLEAN : BodyFails(t, late))
      PROVE  RunInv' /\ OkIsOfThisRun'
  <2>1. running /\ UNCHANGED <<arg, cache, running, served, servedInRun>>
    BY <1>5, BusyInRun DEF CallFails, BodyFails
  <2>2. /\ \A u \in Tasks : u # t => pc'[u] = pc[u] /\ result'[u] = result[u]
        /\ pc'[t] # "body" /\ (pc'[t] = "done" => result'[t] # "ok")
    BY <1>5 DEF CallFails, BodyFails, TaskTypes, CallErrors
  <2> QED
    BY <2>1, <2>2 DEF RunInv, OkIsOfThisRun
<1>6. CASE StartRun
  <2>1. /\ ~running /\ running' /\ servedInRun' = served
        /\ UNCHANGED <<pc, arg, result, cache, served>>
    BY <1>6 DEF StartRun, clientVars
  <2>2. cache = {} /\ \A t \in Tasks : pc[t] = "idle"
    BY <2>1, Zenon DEF RunInv
  <2> QED
    BY <2>1, <2>2 DEF RunInv, OkIsOfThisRun
<1>7. CASE EndRun
  <2>1. cache' = {} /\ pc' = [t \in Tasks |-> "idle"] /\ UNCHANGED <<served, servedInRun>>
    BY <1>7 DEF EndRun, InvalidatedCache
  <2> QED
    BY <2>1 DEF RunInv, OkIsOfThisRun
<1>8. ASSUME NEW c \in Cids, Turn(c)
      PROVE  RunInv' /\ OkIsOfThisRun'
  <2>1. servedInRun' = servedInRun \cup served' /\ UNCHANGED <<pc, arg, result, cache, running>>
    BY <1>8 DEF Turn, clientVars
  <2> QED
    BY <2>1 DEF RunInv, OkIsOfThisRun
<1>9. CASE UNCHANGED vars
  <2>1. UNCHANGED <<pc, arg, result, cache, running, served, servedInRun>>
    BY <1>9 DEF vars, clientVars
  <2> QED
    BY <2>1 DEF RunInv, OkIsOfThisRun
<1> QED
  BY <1>1, <1>2, <1>3, <1>4, <1>5, <1>6, <1>7, <1>8, <1>9 DEF Next, Answered

\* A result of the missing kinds is the last of Retries + 1 failures.
LEMMA FailuresStep ==
  ASSUME TaskTypes, FewFailures, SharedTypes, QueueInv, UnavailableAfterRetries, [Next]_vars
  PROVE  UnavailableAfterRetries'
<1>1. ASSUME NEW t \in Tasks,
             \/ (\E c \in Cids : Cat(t, c)) \/ Headers(t) \/ Body(t) \/ Return(t)
             \/ (\E late \in BOOLEAN : BodyFails(t, late))
      PROVE  UnavailableAfterRetries'
  <2>1. \A u \in Tasks : u # t =>
          pc'[u] = pc[u] /\ result'[u] = result[u] /\ failures'[u] = failures[u]
    BY <1>1 DEF Cat, Headers, Body, Return, BodyFails, TaskTypes
  <2>2. pc'[t] = "done" => result'[t] \in {"ok", "other"}
    BY <1>1 DEF Cat, Headers, Body, Return, BodyFails, TaskTypes
  <2> QED
    BY <2>1, <2>2 DEF UnavailableAfterRetries
<1>2. ASSUME NEW t \in Tasks, NEW error \in CallErrors, CallFails(t, error)
      PROVE  UnavailableAfterRetries'
  <2>1. \A u \in Tasks : u # t =>
          pc'[u] = pc[u] /\ result'[u] = result[u] /\ failures'[u] = failures[u]
    BY <1>2 DEF CallFails, TaskTypes
  <2>2. pc[t] = "calling" /\ failures'[t] = failures[t] + 1 /\ failures[t] \in 0..(Retries + 1)
    BY <1>2 DEF CallFails, TaskTypes
  <2>3. failures[t] <= Retries
    BY <2>2 DEF FewFailures
  <2>4. pc'[t] = "done" => ~(failures[t] < Retries)
    BY <1>2 DEF CallFails, RetriesLeft, TaskTypes
  <2>5. pc'[t] = "done" => failures'[t] = Retries + 1
    BY <2>2, <2>3, <2>4, IpfsAssumption
  <2> QED
    BY <2>1, <2>5 DEF UnavailableAfterRetries
<1>3. CASE Acquire
  <2>1. Head(queue) \in Tasks
    BY <1>3, TailMovesUp DEF Acquire, SharedTypes
  <2>2. UNCHANGED <<result, failures>> /\ \A u \in Tasks : pc'[u] = "done" => pc[u] = "done"
    BY <1>3, <2>1 DEF Acquire, TaskTypes
  <2> QED
    BY <2>2 DEF UnavailableAfterRetries
<1>4. CASE EndRun
  BY <1>4 DEF EndRun, UnavailableAfterRetries
<1>5. CASE StartRun \/ (\E c \in Cids : Turn(c)) \/ UNCHANGED vars
  <2>1. UNCHANGED <<pc, failures, result>>
    BY <1>5 DEF StartRun, Turn, vars, clientVars
  <2> QED
    BY <2>1 DEF UnavailableAfterRetries
<1> QED
  BY <1>1, <1>2, <1>3, <1>4, <1>5 DEF Next, Answered

\* For any number of checks, any capacity of the cache and whatever the gateway gains
\* and loses, nothing of an earlier run passes for available in a later one.
THEOREM AvailableInThisRun == Spec => []OkIsOfThisRun
<1>1. Init => RunInv /\ OkIsOfThisRun
  BY DEF Init, RunInv, OkIsOfThisRun
<1>2. Inv /\ RunInv /\ OkIsOfThisRun /\ [Next]_vars => RunInv' /\ OkIsOfThisRun'
  BY ResultsStep DEF Inv
<1> QED
  BY Invariance, <1>1, <1>2, PTL DEF Spec

\* For any number of retries, a file passes for unavailable after one more call than
\* that.
THEOREM UnavailableAfterAllCalls == Spec => []UnavailableAfterRetries
<1>1. Init => UnavailableAfterRetries
  BY DEF Init, UnavailableAfterRetries
<1>2. Inv /\ UnavailableAfterRetries /\ [Next]_vars => UnavailableAfterRetries'
  BY FailuresStep DEF Inv
<1> QED
  BY Invariance, <1>1, <1>2, PTL DEF Spec

-----------------------------------------------------------------------------
(* How a cat() advances *)

\* A task that waits is in the queue.
AllQueued == \A t \in Tasks : pc[t] = "queued" => \E i \in 1..Len(queue) : queue[i] = t

\* Every task that comes to wait joins the queue, and it leaves it by a permit or
\* with its run.
LEMMA AllQueuedStep ==
  ASSUME Inv, AllQueued, [Next]_vars
  PROVE  AllQueued'
<1> USE DEF Inv, TaskTypes, SharedTypes
<1>1. ASSUME NEW t \in Tasks, pc' = [pc EXCEPT ![t] = "queued"], queue' = Append(queue, t)
      PROVE  AllQueued'
  <2>1. /\ Len(queue') = Len(queue) + 1 /\ Len(queue) \in Nat
        /\ \A i \in 1..Len(queue) : queue'[i] = queue[i]
        /\ queue'[Len(queue) + 1] = t
    BY <1>1, AppendAtEnd
  <2>2. ASSUME NEW u \in Tasks, pc'[u] = "queued"
        PROVE  \E i \in 1..Len(queue') : queue'[i] = u
    <3>1. CASE u = t
      BY <2>1, <3>1
    <3>2. CASE u # t
      <4>1. PICK i \in 1..Len(queue) : queue[i] = u
        BY <1>1, <2>2, <3>2 DEF AllQueued
      <4> QED
        BY <2>1, <4>1
    <3> QED
      BY <3>1, <3>2
  <2> QED
    BY <2>2 DEF AllQueued
<1>2. ASSUME NEW t \in Tasks, pc'[t] # "queued", \A u \in Tasks : u # t => pc'[u] = pc[u],
             UNCHANGED queue
      PROVE  AllQueued'
  BY <1>2 DEF AllQueued
<1>3. ASSUME NEW t \in Tasks, NEW c \in Cids, Cat(t, c)
      PROVE  AllQueued'
  BY <1>1, <1>2, <1>3 DEF Cat
<1>4. ASSUME NEW t \in Tasks, NEW error \in CallErrors, CallFails(t, error)
      PROVE  AllQueued'
  <2>1. CASE RetriesLeft(t, error)
    BY <1>1, <1>4, <2>1 DEF CallFails
  <2>2. CASE ~RetriesLeft(t, error)
    <3>1. pc' = [pc EXCEPT ![t] = "done"] /\ UNCHANGED queue
      BY <1>4, <2>2 DEF CallFails
    <3> QED
      BY <1>2, <3>1
  <2> QED
    BY <2>1, <2>2
<1>5. ASSUME NEW t \in Tasks,
             Headers(t) \/ Body(t) \/ (\E late \in BOOLEAN : BodyFails(t, late)) \/ Return(t)
      PROVE  AllQueued'
  <2>1. /\ pc'[t] # "queued" /\ UNCHANGED queue
        /\ \A u \in Tasks : u # t => pc'[u] = pc[u]
    BY <1>5 DEF Headers, Body, BodyFails, Return
  <2> QED
    BY <1>2, <2>1
<1>6. CASE Acquire
  <2>1. /\ queue' = Tail(queue) /\ Len(queue') = Len(queue) - 1 /\ Len(queue) \in Nat
        /\ \A i \in 1..Len(queue') : queue'[i] = queue[i + 1]
        /\ Head(queue) = queue[1] /\ Head(queue) \in Tasks
    BY <1>6, TailMovesUp DEF Acquire
  <2>2. ASSUME NEW u \in Tasks, pc'[u] = "queued"
        PROVE  \E i \in 1..Len(queue') : queue'[i] = u
    <3>1. u # Head(queue) /\ pc[u] = "queued"
      BY <1>6, <2>1, <2>2 DEF Acquire
    <3>2. PICK i \in 1..Len(queue) : queue[i] = u
      BY <3>1 DEF AllQueued
    <3>3. i # 1
      BY <2>1, <3>1, <3>2
    <3>4. i - 1 \in 1..Len(queue') /\ (i - 1) + 1 = i
      BY <2>1, <3>3
    <3> QED
      BY <2>1, <3>2, <3>4
  <2> QED
    BY <2>2 DEF AllQueued
<1>7. CASE EndRun
  BY <1>7 DEF EndRun, AllQueued
<1>8. CASE StartRun \/ (\E c \in Cids : Turn(c)) \/ UNCHANGED vars
  BY <1>8 DEF StartRun, Turn, vars, clientVars, AllQueued
<1> QED
  BY <1>3, <1>4, <1>5, <1>6, <1>7, <1>8 DEF Next, Answered

\* In a sequence that repeats nothing, an element has one place.
LEMMA OnePlace ==
  ASSUME NEW S, NEW q \in Seq(S), NEW i \in 1..Len(q),
         \A j, k \in 1..Len(q) : q[j] = q[k] => j = k
  PROVE  (CHOOSE j \in DOMAIN q : q[j] = q[i]) = i
<1>1. DOMAIN q = 1..Len(q)
  OBVIOUS
<1> QED
  BY <1>1

\* What the stage of a task is, before a step and after it.
LEMMA StagesOf ==
  ASSUME Inv, Inv', NEW t \in Tasks
  PROVE  /\ \A i \in 1..Len(queue) : queue[i] = t => Stage(t) = 2 + i
         /\ pc[t] = "calling" => Stage(t) = 2
         /\ pc[t] = "body" => Stage(t) = 1
         /\ pc[t] \in {"idle", "done"} => Stage(t) = 0
         /\ \A i \in 1..Len(queue') : queue'[i] = t => Stage(t)' = 2 + i
         /\ pc'[t] = "calling" => Stage(t)' = 2
         /\ pc'[t] = "body" => Stage(t)' = 1
         /\ pc'[t] \in {"idle", "done"} => Stage(t)' = 0
<1>1. ASSUME NEW i \in 1..Len(queue), queue[i] = t
      PROVE  Stage(t) = 2 + i
  <2>1. pc[t] = "queued"
    BY <1>1 DEF Inv, QueueInv
  <2>2. Place(t) = i
    BY <1>1, OnePlace DEF Inv, SharedTypes, QueueInv, Place
  <2> QED
    BY <2>1, <2>2 DEF Stage
<1>2. ASSUME NEW i \in 1..Len(queue'), queue'[i] = t
      PROVE  Stage(t)' = 2 + i
  <2>1. pc'[t] = "queued"
    BY <1>2 DEF Inv, QueueInv
  <2>2. Place(t)' = i
    BY <1>2, OnePlace DEF Inv, SharedTypes, QueueInv, Place
  <2> QED
    BY <2>1, <2>2 DEF Stage
<1>3. /\ pc[t] = "calling" => Stage(t) = 2
      /\ pc[t] = "body" => Stage(t) = 1
      /\ pc[t] \in {"idle", "done"} => Stage(t) = 0
  BY DEF Stage
<1>4. /\ pc'[t] = "calling" => Stage(t)' = 2
      /\ pc'[t] = "body" => Stage(t)' = 1
      /\ pc'[t] \in {"idle", "done"} => Stage(t)' = 0
  BY DEF Stage
<1> QED
  BY <1>1, <1>2, <1>3, <1>4

\* A task that a step does not concern keeps its stage, whoever joins the queue.
LEMMA StageKept ==
  ASSUME Inv, Inv', AllQueued, NEW t \in Tasks, pc'[t] = pc[t],
         queue' = queue \/ \E u \in Tasks : queue' = Append(queue, u)
  PROVE  Stage(t)' = Stage(t)
<1>1. CASE pc[t] = "queued"
  <2>1. PICK i \in 1..Len(queue) : queue[i] = t
    BY <1>1 DEF AllQueued
  <2>2. i \in 1..Len(queue') /\ queue'[i] = t
    BY <2>1, AppendAtEnd DEF Inv, SharedTypes
  <2> QED
    BY <2>1, <2>2, StagesOf
<1>2. CASE pc[t] # "queued"
  BY <1>2, StagesOf DEF Inv, TaskTypes
<1> QED
  BY <1>1, <1>2

\* What a step may do to a cat() that is not at its end.
Advances(t) ==
  \/ Stage(t)' < Stage(t)
  \/ failures[t] <= Retries /\ failures'[t] = failures[t] + 1
  \/ /\ Stage(t)' = Stage(t) /\ failures'[t] = failures[t]
     /\ pc[t] = "queued" => permits' >= permits

\* Who gets a permit is the first, and all behind it move up.
LEMMA AcquireAdvances ==
  ASSUME Inv, Inv', AllQueued, Acquire, NEW t \in Tasks, Stage(t) > 0
  PROVE  Advances(t)
<1>1. /\ queue' = Tail(queue) /\ Len(queue') = Len(queue) - 1 /\ Len(queue) \in Nat
      /\ \A i \in 1..Len(queue') : queue'[i] = queue[i + 1]
      /\ Head(queue) = queue[1] /\ Head(queue) \in Tasks /\ 1 \in 1..Len(queue)
      /\ pc' = [pc EXCEPT ![Head(queue)] = "calling"] /\ UNCHANGED failures
  BY TailMovesUp DEF Acquire, Inv, SharedTypes
<1>2. CASE t = Head(queue)
  <2>1. Stage(t) = 3
    BY <1>1, <1>2, StagesOf
  <2>2. Stage(t)' = 2
    BY <1>1, <1>2, StagesOf DEF Inv, TaskTypes
  <2> QED
    BY <2>1, <2>2 DEF Advances
<1>3. CASE t # Head(queue) /\ pc[t] = "queued"
  <2>1. PICK i \in 1..Len(queue) : queue[i] = t
    BY <1>3 DEF AllQueued
  <2>2. i - 1 \in 1..Len(queue') /\ (i - 1) + 1 = i
    BY <1>1, <1>3, <2>1
  <2>3. queue'[i - 1] = t
    BY <1>1, <2>1, <2>2
  <2>4. Stage(t) = 2 + i /\ Stage(t)' = 2 + (i - 1)
    BY <2>1, <2>2, <2>3, StagesOf
  <2> QED
    BY <2>1, <2>4 DEF Advances
<1>4. CASE t # Head(queue) /\ pc[t] # "queued"
  <2>1. pc'[t] = pc[t]
    BY <1>1, <1>4 DEF Inv, TaskTypes
  <2>2. Stage(t)' = Stage(t)
    BY <1>4, <2>1, StagesOf DEF Inv, TaskTypes
  <2> QED
    BY <1>1, <1>4, <2>2 DEF Advances
<1> QED
  BY <1>2, <1>3, <1>4

\* Every step leaves a cat() its place, or brings it nearer to its end, or is one of
\* the failures it survives.
LEMMA StepAdvances ==
  ASSUME Inv, Inv', AllQueued, [Next]_vars, NEW t \in Tasks, Stage(t) > 0
  PROVE  Advances(t)
<1>0. permits \in Nat /\ pc[t] \notin {"idle", "done"}
  BY StagesOf DEF Inv, SharedTypes
<1>1. ASSUME NEW u \in Tasks, u # t,
             \/ (\E c \in Cids : Cat(u, c)) \/ Headers(u) \/ Body(u) \/ Return(u)
             \/ (\E error \in CallErrors : CallFails(u, error))
             \/ (\E late \in BOOLEAN : BodyFails(u, late))
      PROVE  Advances(t)
  <2>1. pc'[t] = pc[t] /\ failures'[t] = failures[t]
    BY <1>1 DEF Cat, Headers, Body, Return, CallFails, BodyFails, Inv, TaskTypes
  <2>2. queue' = queue \/ queue' = Append(queue, u)
    BY <1>1 DEF Cat, Headers, Body, Return, CallFails, BodyFails
  <2>3. permits' \in {permits, permits + 1}
    BY <1>1 DEF Cat, Headers, Body, Return, CallFails, BodyFails
  <2>4. Stage(t)' = Stage(t)
    BY <2>1, <2>2, StageKept
  <2> QED
    BY <1>0, <2>1, <2>3, <2>4 DEF Advances
<1>2. CASE Headers(t) \/ Body(t) \/ (\E late \in BOOLEAN : BodyFails(t, late))
  <2>1. \/ pc[t] = "calling" /\ pc'[t] = "body"
        \/ pc[t] = "body" /\ pc'[t] = "done"
    BY <1>2 DEF Headers, Body, BodyFails, Inv, TaskTypes
  <2> QED
    BY <2>1, StagesOf DEF Advances
<1>3. ASSUME NEW error \in CallErrors, CallFails(t, error)
      PROVE  Advances(t)
  <2>1. pc[t] = "calling" /\ failures'[t] = failures[t] + 1
    BY <1>3 DEF CallFails, Inv, TaskTypes
  <2>2. failures[t] <= Retries
    BY <2>1 DEF Inv, FewFailures
  <2> QED
    BY <2>1, <2>2 DEF Advances
<1>4. ~Return(t) /\ \A c \in Cids : ~Cat(t, c)
  BY <1>0 DEF Return, Cat
<1>5. CASE Acquire
  BY <1>5, AcquireAdvances
<1>6. CASE EndRun
  <2>1. pc'[t] = "idle"
    BY <1>6 DEF EndRun
  <2>2. Stage(t)' = 0
    BY <2>1, StagesOf
  <2> QED
    BY <2>2 DEF Advances
<1>7. CASE StartRun \/ (\E c \in Cids : Turn(c)) \/ UNCHANGED vars
  <2>1. UNCHANGED <<pc, failures, queue, permits>>
    BY <1>7 DEF StartRun, Turn, vars, clientVars
  <2>2. Stage(t)' = Stage(t)
    BY <2>1, StageKept
  <2> QED
    BY <1>0, <2>1, <2>2 DEF Advances
<1> QED
  BY <1>1, <1>2, <1>3, <1>4, <1>5, <1>6, <1>7 DEF Next, Answered

\* For any number of checks and permits, nothing overtakes a cat() that waits, and
\* nothing but a failure of its own sets it back.
THEOREM CatsAdvance == Spec => CatAdvances
<1>1. Init => AllQueued
  BY DEF Init, AllQueued
<1>2. Inv /\ AllQueued /\ [Next]_vars => AllQueued'
  BY AllQueuedStep
<1>3. Inv /\ Inv' /\ AllQueued /\ [Next]_vars
        => [\A t \in Tasks : Stage(t) > 0 => Advances(t)]_vars
  BY StepAdvances
<1>4. [\A t \in Tasks : Stage(t) > 0 => Advances(t)]_vars
        => [\A t \in Tasks : Stage(t) > 0 =>
              \/ Stage(t)' < Stage(t)
              \/ failures[t] <= Retries /\ failures'[t] = failures[t] + 1
              \/ /\ Stage(t)' = Stage(t) /\ failures'[t] = failures[t]
                 /\ pc[t] = "queued" => permits' >= permits]_vars
  BY DEF Advances
<1> QED
  BY Invariance, <1>1, <1>2, <1>3, <1>4, PTL DEF Spec, CatAdvances

=============================================================================
