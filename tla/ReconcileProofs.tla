--------------------------- MODULE ReconcileProofs ---------------------------
(***************************************************************************)
(* Theorems about Reconcile, for every value of its constants.             *)
(*                                                                         *)
(* A statement about all the elements of a sequence s is written           *)
(* s \in Seq({x : ...}): the lemmas about Append, Tail and SubSeq then     *)
(* preserve it whatever the statement is.                                  *)
(***************************************************************************)
EXTENDS Reconcile, SequenceTheorems, TLAPS

-----------------------------------------------------------------------------
(* Sequences *)

\* Append stays in Seq(S).
LEMMA AppendIn ==
  ASSUME NEW S, NEW s \in Seq(S), NEW e \in S
  PROVE  Append(s, e) \in Seq(S)
OBVIOUS

\* The parts of a sequence over S that is not empty are of S and over S.
LEMMA HeadTailIn ==
  ASSUME NEW S, NEW s \in Seq(S), s # <<>>
  PROVE  Head(s) \in S /\ Tail(s) \in Seq(S)
BY HeadTailProperties

\* Any cut of a sequence over S is one, the empty cut included.
LEMMA SubSeqIn ==
  ASSUME NEW S, NEW s \in Seq(S), NEW m \in 1..(Len(s) + 1), NEW n \in 0..Len(s)
  PROVE  SubSeq(s, m, n) \in Seq(S)
<1>1. \A i \in m..n : s[i] \in S
  BY ElementOfSeq
<1> QED
  BY <1>1, SubSeqProperties

\* A function over the domain of a sequence is a sequence.
LEMMA MappedIn ==
  ASSUME NEW S, NEW T, NEW s \in Seq(S), NEW t,
         t = [i \in DOMAIN s |-> t[i]],
         \A i \in DOMAIN s : t[i] \in T
  PROVE  t \in Seq(T)
<1>1. DOMAIN s = 1..Len(s) /\ Len(s) \in Nat
  BY LenProperties
<1>2. t \in [1..Len(s) -> T]
  BY <1>1
<1> QED
  BY <1>1, <1>2, SeqDef

-----------------------------------------------------------------------------
(* deny_many, whatever is known of the entries it is given *)

\* The chunk and what follows it are sequences over what todo is one over.
LEMMA ChunkAndRest ==
  ASSUME NEW S, todo \in Seq(S)
  PROVE  SM!Chunk \in Seq(S) /\ SM!Rest \in Seq(S)
<1> DEFINE n == IF Len(todo) < ChunkSize THEN Len(todo) ELSE ChunkSize
<1>1. n \in 0..Len(todo)
  BY LenProperties, ReconcileAssumption
<1>2. \A i \in 1..n : todo[i] \in S
  BY <1>1, ElementOfSeq
<1>3. SM!Chunk \in Seq(S) /\ Len(SM!Chunk) = n
  BY <1>1, <1>2, SubSeqProperties DEF SM!Chunk
<1>4. SM!Rest \in Seq(S)
  BY <1>1, <1>3, SubSeqIn, LenProperties DEF SM!Rest
<1> QED
  BY <1>3, <1>4

\* The steps of deny_many after its call.
DenySteps ==
  \/ SM!EstimateOk \/ SM!SendOk \/ SM!Confirmed
  \/ SM!EstimateFails \/ SM!ConfirmFails \/ \E accepted \in BOOLEAN : SM!SendFails(accepted)

\* What deny_many has left to do stays over any set that its entries are of.
LEMMA DenyStepsKeepTodo ==
  ASSUME NEW S, todo \in Seq(S), DenySteps
  PROVE  todo' \in Seq(S)
BY ChunkAndRest, EmptySeq
DEF DenySteps, SM!EstimateOk, SM!SendOk, SM!Confirmed, SM!EstimateFails, SM!ConfirmFails,
    SM!SendFails

\* So do the transactions that it sends.
LEMMA DenyStepsIn ==
  ASSUME NEW S, todo \in Seq(S), mempool \in Seq(Seq(S)), DenySteps
  PROVE  todo' \in Seq(S) /\ mempool' \in Seq(Seq(S))
<1>1. SM!Chunk \in Seq(S)
  BY ChunkAndRest
<1>2. \A m \in SM!Accepting(SM!Chunk) : m \in Seq(Seq(S))
  <2>1. Append(mempool, SM!Chunk) \in Seq(Seq(S))
    BY <1>1, AppendIn
  <2>2. <<SM!Chunk>> \in Seq(Seq(S))
    BY <1>1
  <2> QED
    BY <2>1, <2>2 DEF SM!Accepting
<1>3. mempool' = mempool \/ mempool' \in SM!Accepting(SM!Chunk)
  BY DEF DenySteps, SM!EstimateOk, SM!SendOk, SM!Confirmed, SM!EstimateFails,
         SM!ConfirmFails, SM!SendFails
<1> QED
  BY <1>2, <1>3, DenyStepsKeepTodo

-----------------------------------------------------------------------------
(* Types.  TypeOK is not inductive: setting the clock back takes an age from *)
(* -MaxFaults to -MaxFaults - 1.  But each time it is set back is a fault,   *)
(* so the ages are never below -faults.                                      *)

AgesNow   == (0 - faults)..Oldest
StampsNow == [id : Deployments, age : AgesNow]
SlotsNow  == {s \in Slot : /\ s.age \in AgesNow
                           /\ s.verdict # "error" => s.id \in Deployments}

RunTypeOK ==
  /\ pc \in PcValues
  /\ cache \in SUBSET StampsNow
  /\ updated \in SUBSET StampsNow
  /\ window \in Seq(SlotsNow)
  /\ flips \in Seq(SM!Status)
  /\ lastPass \in [Deployments -> AgesNow]
  /\ good \in SUBSET Deployments
  /\ faults \in 0..MaxFaults
  /\ failed \in SUBSET Deployments
  /\ erred \in BOOLEAN
  /\ verdicts \in SUBSET (Deployments \X BOOLEAN)

TypeInv == DS!DsTypeOK /\ SM!SmTypeOK /\ RunTypeOK

\* The ages that may occur now are ages, and 0 is one.
LEMMA AgesInAges ==
  ASSUME faults \in 0..MaxFaults
  PROVE  AgesNow \subseteq Ages /\ 0 \in AgesNow /\ AgesNow \subseteq Int
BY ReconcileAssumption DEF AgesNow, Ages, Oldest

\* The strengthening with the ages of now implies the type invariant.
LEMMA TypeInvImpliesTypeOK == TypeInv => TypeOK
<1> SUFFICES ASSUME TypeInv PROVE TypeOK
  OBVIOUS
<1>1. AgesNow \subseteq Ages
  BY AgesInAges DEF TypeInv, RunTypeOK
<1>2. StampsNow \subseteq Stamped /\ SlotsNow \subseteq Slot
  BY <1>1 DEF StampsNow, Stamped, SlotsNow
<1>3. window \in Seq(Slot)
  BY <1>2, SeqMonotonic DEF TypeInv, RunTypeOK
<1> QED
  BY <1>1, <1>2, <1>3 DEF TypeInv, RunTypeOK, TypeOK

\* What is typed now stays typed when nothing but `faults' changes.
LEMMA AgesGrow ==
  ASSUME RunTypeOK, faults' \in 0..MaxFaults, faults <= faults'
  PROVE  /\ AgesNow \subseteq AgesNow'
         /\ cache \in SUBSET StampsNow'
         /\ updated \in SUBSET StampsNow'
         /\ window \in Seq(SlotsNow')
         /\ lastPass \in [Deployments -> AgesNow']
<1>1. AgesNow \subseteq AgesNow'
  BY ReconcileAssumption DEF AgesNow, RunTypeOK
<1>2. StampsNow \subseteq StampsNow' /\ SlotsNow \subseteq SlotsNow'
  BY <1>1 DEF StampsNow, SlotsNow
<1>3. window \in Seq(SlotsNow')
  BY <1>2, SeqMonotonic DEF RunTypeOK
<1> QED
  BY <1>1, <1>2, <1>3 DEF RunTypeOK

\* The composed modules change only by their own operations.
DsStep ==
  \/ UNCHANGED dsVars
  \/ DS!StreamStart \/ DS!FetchPage \/ DS!FetchFails
  \/ \E x \in page : DS!Take(x)
  \/ DS!Index(flags)
  \/ \E d \in Deployments :
       DS!Relist(IF d \in listed THEN listed \ {d} ELSE listed \cup {d})

SmStep ==
  \/ UNCHANGED smVars
  \/ SM!DenyMany(flips) \/ DenySteps
  \/ \E result \in {"ok", "err"} : SM!Return(result)
  \/ SM!Forget \/ SM!Mine \/ SM!Lose

\* Every step of the stream keeps its types.
LEMMA DsTyped ==
  ASSUME TypeInv, DsStep
  PROVE  DS!DsTypeOK'
<1> USE DEF DS!DsTypeOK
<1>0. DS!DsTypeOK /\ flags \in [Deployments -> BOOLEAN]
  BY DEF TypeInv, SM!SmTypeOK
<1>1. CASE UNCHANGED dsVars
  BY <1>0, <1>1 DEF dsVars
<1>2. CASE DS!StreamStart
  BY <1>0, <1>2 DEF DS!StreamStart
<1>3. CASE DS!FetchPage
  <2>1. DS!PageAt(skip) \subseteq DS!Deployment
    BY <1>0 DEF DS!PageAt, DS!Deployment
  <2>2. skip + PageSize \in Nat
    BY <1>0, ReconcileAssumption
  <2> QED
    BY <1>0, <1>3, <2>1, <2>2 DEF DS!FetchPage, DS!NextSkip
<1>4. CASE DS!FetchFails
  BY <1>0, <1>4, ReconcileAssumption DEF DS!FetchFails, DS!NextSkip
<1>5. CASE \E x \in page : DS!Take(x)
  BY <1>0, <1>5 DEF DS!Take
<1>6. CASE DS!Index(flags)
  BY <1>0, <1>6 DEF DS!Index
<1>7. CASE \E d \in Deployments :
             DS!Relist(IF d \in listed THEN listed \ {d} ELSE listed \cup {d})
  BY <1>0, <1>7 DEF DS!Relist
<1> QED
  BY <1>1, <1>2, <1>3, <1>4, <1>5, <1>6, <1>7 DEF DsStep

\* Every step of the state manager and its chain keeps their types.
LEMMA SmTyped ==
  ASSUME TypeInv, SmStep
  PROVE  SM!SmTypeOK'
<1> USE DEF SM!SmTypeOK
<1>0. SM!SmTypeOK /\ flips \in Seq(SM!Status)
  BY DEF TypeInv, RunTypeOK
<1>1. CASE UNCHANGED smVars
  BY <1>0, <1>1 DEF smVars
<1>2. CASE SM!DenyMany(flips)
  BY <1>0, <1>2 DEF SM!DenyMany, SM!Phases
<1>3. CASE DenySteps
  <2>1. todo' \in Seq(SM!Status) /\ mempool' \in Seq(Seq(SM!Status))
    BY <1>0, <1>3, DenyStepsIn
  <2>2. phase' \in SM!Phases /\ flags' = flags
    BY <1>3 DEF DenySteps, SM!EstimateOk, SM!SendOk, SM!Confirmed, SM!EstimateFails,
                SM!ConfirmFails, SM!SendFails, SM!Phases
  <2> QED
    BY <1>0, <2>1, <2>2
<1>4. CASE \E result \in {"ok", "err"} : SM!Return(result)
  BY <1>0, <1>4 DEF SM!Return, SM!Phases
<1>5. CASE SM!Forget
  BY <1>0, <1>5 DEF SM!Forget, SM!Phases
<1>6. CASE SM!Mine
  <2>1. Head(mempool) \in Seq(SM!Status) /\ Tail(mempool) \in Seq(Seq(SM!Status))
    BY <1>0, <1>6, HeadTailIn DEF SM!Mine
  <2>2. \A d \in Deployments : SM!Applied(Head(mempool))[d] \in BOOLEAN
    <3> SUFFICES ASSUME NEW d \in Deployments
                 PROVE  SM!Applied(Head(mempool))[d] \in BOOLEAN
      OBVIOUS
    <3> DEFINE tx == Head(mempool)
               j == CHOOSE k \in DOMAIN tx : SM!Decides(tx, k, d)
    <3>1. CASE \E k \in DOMAIN tx : SM!Decides(tx, k, d)
      <4>1. j \in DOMAIN tx
        BY <3>1
      <4>2. tx[j] \in SM!Status
        BY <2>1, <4>1, ElementOfSeq, LenProperties
      <4> QED
        BY <3>1, <4>2 DEF SM!Applied, SM!Status
    <3>2. CASE ~ \E k \in DOMAIN tx : SM!Decides(tx, k, d)
      BY <1>0, <3>2 DEF SM!Applied
    <3> QED
      BY <3>1, <3>2
  <2>3. SM!Applied(Head(mempool)) \in [Deployments -> BOOLEAN]
    BY <2>2 DEF SM!Applied
  <2> QED
    BY <1>0, <1>6, <2>1, <2>3 DEF SM!Mine
<1>7. CASE SM!Lose
  BY <1>0, <1>7, HeadTailIn DEF SM!Lose
<1> QED
  BY <1>1, <1>2, <1>3, <1>4, <1>5, <1>6, <1>7 DEF SmStep

\* Every step of the loop is a step of the stream or leaves it alone ...
LEMMA NextIsDsStep ==
  ASSUME [Next]_vars
  PROVE  DsStep
<1> USE DEF DsStep
<1>1. CASE Program
  <2>1. ASSUME NEW x \in page, PullCached(x) \/ PullUncached(x)
        PROVE  DsStep
    BY <2>1 DEF PullCached, PullUncached
  <2>2. ASSUME NEW i \in DOMAIN window, CheckPasses(i) \/ CheckFails(i)
        PROVE  DsStep
    BY <2>2 DEF CheckPasses, CheckFails, Resolve
  <2> QED
    BY <1>1, <2>1, <2>2
    DEF Program, StartRun, NetworksRead, PullPage, PullPanics, Down, Emit, EmitError, Abort,
        Submit, DenyStep, Untouched, RunOk, RunErr
<1>2. CASE Environment
  <2>1. ASSUME NEW i \in DOMAIN window, CheckErrs(i)
        PROVE  DsStep
    BY <2>1 DEF CheckErrs, Resolve
  <2>2. ASSUME NEW d \in Deployments, Turn(d) \/ Resignal(d)
        PROVE  DsStep
    BY <2>2 DEF Turn, Resignal
  <2> QED
    BY <1>2, <2>1, <2>2
    DEF Environment, NetworksFail, Abort, PullError, DenyFault, Untouched, Lose, Crash, Down,
        SetBack, Passing
<1>3. CASE Tick \/ Mine \/ IndexChain \/ Restart \/ UNCHANGED vars
  BY <1>3 DEF Tick, Passing, Mine, Untouched, IndexChain, Restart, vars
<1> QED
  BY <1>1, <1>2, <1>3 DEF Next

\* ... and a step of the state manager or leaves that alone.
LEMMA NextIsSmStep ==
  ASSUME [Next]_vars
  PROVE  SmStep
<1> USE DEF SmStep
<1>1. CASE Program
  <2>1. ASSUME NEW x \in page, PullCached(x) \/ PullUncached(x)
        PROVE  SmStep
    BY <2>1 DEF PullCached, PullUncached
  <2>2. ASSUME NEW i \in DOMAIN window, CheckPasses(i) \/ CheckFails(i)
        PROVE  SmStep
    BY <2>2 DEF CheckPasses, CheckFails, Resolve
  <2> QED
    BY <1>1, <2>1, <2>2
    DEF Program, StartRun, NetworksRead, PullPage, PullPanics, Down, Emit, EmitError,
        Submit, DenyStep, DenySteps, RunOk, RunErr
<1>2. CASE Environment
  <2>1. ASSUME NEW i \in DOMAIN window, CheckErrs(i)
        PROVE  SmStep
    BY <2>1 DEF CheckErrs, Resolve
  <2>2. ASSUME NEW d \in Deployments, Turn(d) \/ Resignal(d)
        PROVE  SmStep
    BY <2>2 DEF Turn, Resignal
  <2> QED
    BY <1>2, <2>1, <2>2
    DEF Environment, NetworksFail, PullError, DenyFault, DenySteps, Lose, Crash, Down,
        SetBack, Passing
<1>3. CASE Tick \/ Mine \/ IndexChain \/ Restart \/ UNCHANGED vars
  BY <1>3 DEF Tick, Passing, Mine, IndexChain, Restart, vars
<1> QED
  BY <1>1, <1>2, <1>3 DEF Next

\* What the run holds, and the ages it is stamped with, after each action.
LEMMA RunTyped ==
  ASSUME TypeInv, [Next]_vars
  PROVE  RunTypeOK'
<1> USE ReconcileAssumption
<1>a. RunTypeOK /\ DS!DsTypeOK
  BY DEF TypeInv
<1>b. ASSUME faults' = faults \/ Fault
      PROVE  /\ faults' \in 0..MaxFaults
             /\ faults <= faults'
             /\ AgesNow \subseteq AgesNow'
             /\ cache \in SUBSET StampsNow'
             /\ updated \in SUBSET StampsNow'
             /\ window \in Seq(SlotsNow')
             /\ lastPass \in [Deployments -> AgesNow']
  <2>1. faults' \in 0..MaxFaults /\ faults <= faults'
    BY <1>a, <1>b DEF Fault, RunTypeOK
  <2> QED
    BY <1>a, <2>1, AgesGrow
<1>c. 0 \in AgesNow /\ AgesNow \subseteq Int
  BY <1>a, AgesInAges DEF RunTypeOK
<1>e. ASSUME ClearRun
      PROVE  /\ window' \in Seq(SlotsNow')
             /\ flips' \in Seq(SM!Status)
             /\ updated' \in SUBSET StampsNow'
             /\ failed' \in SUBSET Deployments
             /\ erred' \in BOOLEAN
  BY <1>e, EmptySeq DEF ClearRun
<1>1. CASE StartRun
  BY <1>a, <1>b, <1>1 DEF StartRun, envVars, histVars, RunTypeOK, PcValues
<1>2. CASE NetworksRead
  BY <1>a, <1>b, <1>2 DEF NetworksRead, envVars, histVars, RunTypeOK, PcValues
<1>3. CASE NetworksFail \/ EmitError \/ RunErr
  <2>1. Abort /\ (faults' = faults \/ Fault)
    BY <1>3 DEF NetworksFail, EmitError, RunErr
  <2> QED
    BY <1>a, <1>b, <1>e, <2>1 DEF Abort, RunTypeOK, PcValues
<1>4. CASE PullPage \/ IndexChain
  BY <1>a, <1>b, <1>4 DEF PullPage, IndexChain, runVars, envVars, histVars, RunTypeOK
<1>5. CASE PullError
  <2> DEFINE s == [id |-> NoDeployment, deny |-> FALSE, verdict |-> "error", age |-> 0]
  <2>1. /\ window' = Append(window, s)
        /\ Fault
        /\ erred' = TRUE
        /\ UNCHANGED <<pc, cache, flips, updated, good, lastPass, failed, verdicts>>
    BY <1>5 DEF PullError
  <2>2. 0 \in AgesNow' /\ 0 \in Ages
    BY <1>a, <1>b, <1>c, <2>1, AgesInAges DEF RunTypeOK
  <2>3. s \in SlotsNow'
    BY <2>2 DEF SlotsNow, Slot
  <2>4. window' \in Seq(SlotsNow')
    BY <1>b, <2>1, <2>3, AppendIn
  <2> QED
    BY <1>a, <1>b, <2>1, <2>4 DEF RunTypeOK
<1>6. ASSUME NEW x \in page, PullCached(x) \/ PullUncached(x)
      PROVE  RunTypeOK'
  <2>1. PICK verdict \in {"valid", "checking"}, age \in AgesNow :
          window' = Append(window, [id |-> x.id, deny |-> x.deny,
                                    verdict |-> verdict, age |-> age])
    <3>1. CASE PullCached(x)
      <4>1. PICK e \in Hits(x.id) :
              window' = Append(window, [id |-> x.id, deny |-> x.deny,
                                        verdict |-> "valid", age |-> e.age])
        BY <3>1 DEF PullCached
      <4>2. e.age \in AgesNow
        BY <1>a, <4>1 DEF Hits, RunTypeOK, StampsNow
      <4> QED
        BY <4>1, <4>2
    <3>2. CASE PullUncached(x)
      BY <1>c, <3>2 DEF PullUncached
    <3> QED
      BY <1>6, <3>1, <3>2
  <2>2. UNCHANGED <<pc, cache, flips, updated, envVars, histVars>>
    BY <1>6 DEF PullCached, PullUncached
  <2>3. x.id \in Deployments /\ x.deny \in BOOLEAN
    BY <1>a DEF DS!DsTypeOK, DS!Deployment
  <2> DEFINE s == [id |-> x.id, deny |-> x.deny, verdict |-> verdict, age |-> age]
  <2>4. s \in SlotsNow
    BY <1>a, <2>3, AgesInAges DEF SlotsNow, Slot, RunTypeOK
  <2>5. window' \in Seq(SlotsNow)
    BY <1>a, <2>1, <2>4, AppendIn DEF RunTypeOK
  <2>6. AgesNow' = AgesNow /\ StampsNow' = StampsNow /\ SlotsNow' = SlotsNow
    BY <2>2 DEF AgesNow, StampsNow, SlotsNow, envVars
  <2> QED
    BY <1>a, <2>2, <2>5, <2>6 DEF RunTypeOK, envVars, histVars
<1>7. ASSUME NEW i \in DOMAIN window, CheckPasses(i) \/ CheckFails(i) \/ CheckErrs(i)
      PROVE  RunTypeOK'
  <2>1. PICK verdict \in {"valid", "invalid", "error"} : Resolve(i, verdict)
    BY <1>7 DEF CheckPasses, CheckFails, CheckErrs
  <2> DEFINE s == [window[i] EXCEPT !.verdict = verdict, !.age = 0]
  <2>2. /\ window' = [window EXCEPT ![i] = s]
        /\ UNCHANGED <<pc, cache, flips, updated, good>>
        /\ window[i].verdict = "checking"
    BY <2>1 DEF Resolve
  <2>3. faults' = faults \/ Fault
    BY <1>7 DEF CheckPasses, CheckFails, CheckErrs
  <2>4. i \in 1..Len(window) /\ window[i] \in SlotsNow'
    BY <1>b, <2>3, LenProperties, ElementOfSeq
  <2>5. 0 \in AgesNow' /\ 0 \in Ages
    BY <1>a, <1>b, <1>c, <2>3, AgesInAges DEF RunTypeOK
  <2>6. s \in SlotsNow'
    BY <2>2, <2>4, <2>5 DEF SlotsNow, Slot
  <2>7. window' \in Seq(SlotsNow')
    BY <1>b, <2>2, <2>3, <2>4, <2>6, ExceptSeq
  <2>8. window[i].id \in Deployments
    BY <2>2, <2>4 DEF SlotsNow
  <2>9. lastPass' \in [Deployments -> AgesNow']
    BY <1>7, <1>b, <2>3, <2>5, <2>8 DEF CheckPasses, CheckFails, CheckErrs
  <2>10. failed' \in SUBSET Deployments /\ erred' \in BOOLEAN
    BY <1>7, <1>a, <2>8 DEF CheckPasses, CheckFails, CheckErrs, RunTypeOK
  <2>11. verdicts' \in SUBSET (Deployments \X BOOLEAN)
    <3>1. \/ verdicts' = verdicts
          \/ \E b \in BOOLEAN : verdicts' = verdicts \cup {<<window[i].id, b>>}
      BY <1>7 DEF CheckPasses, CheckFails, CheckErrs
    <3>2. verdicts \in SUBSET (Deployments \X BOOLEAN)
      BY <1>a DEF RunTypeOK
    <3> QED
      BY <2>8, <3>1, <3>2
  <2> QED
    BY <1>a, <1>b, <2>2, <2>3, <2>7, <2>9, <2>10, <2>11 DEF RunTypeOK

<1>8. CASE Emit
  <2> DEFINE s == Head(window)
  <2>1. s \in SlotsNow /\ Tail(window) \in Seq(SlotsNow)
    BY <1>a, <1>8, HeadTailIn DEF Emit, RunTypeOK
  <2>2. s.id \in Deployments /\ s.age \in AgesNow
    BY <1>8, <2>1 DEF Emit, Checked, SlotsNow
  <2>3. flips' \in Seq(SM!Status)
    <3>1. [id |-> s.id, deny |-> s.verdict = "invalid"] \in SM!Status
      BY <2>2 DEF SM!Status
    <3> QED
      BY <1>a, <1>8, <3>1, AppendIn DEF Emit, RunTypeOK
  <2>4. updated' \in SUBSET StampsNow
    BY <1>a, <1>8, <2>2 DEF Emit, RunTypeOK, StampsNow
  <2>5. window' \in Seq(SlotsNow)
    BY <1>8, <2>1 DEF Emit
  <2>6. UNCHANGED <<pc, cache, envVars, histVars>>
    BY <1>8 DEF Emit
  <2>7. AgesNow' = AgesNow /\ StampsNow' = StampsNow /\ SlotsNow' = SlotsNow
    BY <2>6 DEF AgesNow, StampsNow, SlotsNow, envVars
  <2> QED
    BY <1>a, <2>3, <2>4, <2>5, <2>6, <2>7 DEF RunTypeOK, envVars, histVars
<1>9. CASE Submit
  BY <1>a, <1>b, <1>9, EmptySeq DEF Submit, envVars, histVars, RunTypeOK, PcValues
<1>10. CASE DenyStep \/ DenyFault \/ Mine \/ Lose
  <2>1. Untouched /\ (faults' = faults \/ Fault)
    BY <1>10 DEF DenyStep, DenyFault, Mine, Lose
  <2> QED
    BY <1>a, <1>b, <2>1 DEF Untouched, runVars, histVars, RunTypeOK
<1>11. CASE RunOk
  <2>1. faults' = faults /\ good' = good /\ lastPass' = lastPass /\ verdicts' = verdicts
    BY <1>11 DEF RunOk, envVars
  <2> QED
    BY <1>a, <1>b, <1>e, <1>11, <2>1 DEF RunOk, RunTypeOK, PcValues
<1>12. CASE PullPanics \/ Crash
  <2>1. Down /\ (faults' = faults \/ Fault)
    BY <1>12 DEF PullPanics, Crash
  <2> QED
    BY <1>a, <1>b, <1>e, <2>1 DEF Down, RunTypeOK, PcValues
<1>13. CASE Restart
  BY <1>a, <1>b, <1>13 DEF Restart, envVars, histVars, RunTypeOK, PcValues
<1>14. CASE Tick \/ SetBack
  <2>1. PICK step \in {Older, Newer} :
          /\ Passing(step)
          /\ faults' = faults \/ Fault
          /\ \A a \in AgesNow : step[a] \in AgesNow'
    <3>1. AgesNow \subseteq Ages /\ AgesNow \subseteq AgesNow'
      BY <1>a, <1>b, <1>14, AgesInAges DEF Tick, SetBack, RunTypeOK
    <3>2. CASE Tick
      <4>1. faults' = faults /\ Passing(Older)
        BY <3>2 DEF Tick
      <4>2. \A a \in AgesNow : Older[a] \in AgesNow'
        BY <1>a, <3>1, <4>1 DEF Older, Ages, AgesNow, Oldest, RunTypeOK
      <4> QED
        BY <4>1, <4>2
    <3>3. CASE SetBack
      <4>1. Fault /\ Passing(Newer)
        BY <3>3 DEF SetBack
      <4>2. \A a \in AgesNow : Newer[a] \in AgesNow'
        BY <1>a, <3>1, <4>1 DEF Newer, Ages, AgesNow, Oldest, Fault, RunTypeOK
      <4> QED
        BY <4>1, <4>2
    <3> QED
      BY <1>14, <3>2, <3>3
  <2>2. faults' \in 0..MaxFaults /\ AgesNow' \subseteq Ages
    BY <1>b, <2>1 DEF AgesNow, Ages, Oldest
  <2>3. cache' \in SUBSET StampsNow' /\ updated' \in SUBSET StampsNow'
    <3>1. \A x \in StampsNow : Shifted(x, step) \in StampsNow'
      BY <2>1 DEF Shifted, StampsNow
    <3> QED
      BY <1>a, <2>1, <3>1 DEF Passing, RunTypeOK
  <2>4. window' \in Seq(SlotsNow')
    <3>1. \A s \in SlotsNow : ShiftedSlot(s, step) \in SlotsNow'
      <4> SUFFICES ASSUME NEW s \in SlotsNow
                   PROVE  ShiftedSlot(s, step) \in SlotsNow'
        OBVIOUS
      <4>1. step[s.age] \in AgesNow' /\ s.age \in AgesNow' /\ s \in Slot
        BY <1>b, <2>1 DEF SlotsNow
      <4>2. step[s.age] \in Ages
        BY <2>2, <4>1
      <4>3. Shifted(s, step) \in SlotsNow'
        BY <4>1, <4>2 DEF Shifted, Slot, SlotsNow
      <4>4. s \in SlotsNow'
        BY <4>1 DEF SlotsNow
      <4> QED
        BY <4>3, <4>4 DEF ShiftedSlot
    <3>2. window' = [i \in DOMAIN window |-> window'[i]]
      BY <2>1 DEF Passing
    <3>3. \A i \in DOMAIN window : window'[i] \in SlotsNow'
      BY <1>a, <2>1, <3>1, ElementOfSeq, LenProperties DEF Passing, RunTypeOK
    <3> QED
      BY <1>a, <3>2, <3>3, MappedIn DEF RunTypeOK
  <2>5. lastPass' \in [Deployments -> AgesNow']
    BY <1>a, <2>1 DEF Passing, RunTypeOK
  <2> QED
    BY <1>a, <2>1, <2>2, <2>3, <2>4, <2>5 DEF Passing, RunTypeOK
<1>15. ASSUME NEW d \in Deployments, Turn(d) \/ Resignal(d)
       PROVE  RunTypeOK'
  <2>1. Fault /\ UNCHANGED <<runVars, histVars>> /\ good' \in SUBSET Deployments
    BY <1>a, <1>15 DEF Turn, Resignal, RunTypeOK
  <2> QED
    BY <1>a, <1>b, <2>1 DEF RunTypeOK, runVars, histVars
<1>16. CASE UNCHANGED vars
  BY <1>a, <1>b, <1>16 DEF vars, runVars, envVars, histVars, RunTypeOK
<1> QED
  BY <1>1, <1>2, <1>3, <1>4, <1>5, <1>6, <1>7, <1>8, <1>9, <1>10, <1>11, <1>12, <1>13, <1>14,
     <1>15, <1>16
  DEF Next, Program, Environment

\* The strengthened type invariant holds at first.
LEMMA TypeInvInit == Init => TypeInv
<1> SUFFICES ASSUME Init PROVE TypeInv
  OBVIOUS
<1>1. DS!DsTypeOK
  BY DEF Init, DS!DsTypeOK
<1>2. SM!SmTypeOK
  BY EmptySeq DEF Init, SM!SmTypeOK, SM!Phases
<1>3. Oldest \in AgesNow
  BY ReconcileAssumption DEF Init, AgesNow, Oldest
<1>4. verdicts \in SUBSET (Deployments \X BOOLEAN)
  BY DEF Init
<1>5. lastPass \in [Deployments -> AgesNow]
  BY <1>3 DEF Init
<1>6. RunTypeOK
  <2>1. window \in Seq(SlotsNow) /\ flips \in Seq(SM!Status)
    BY EmptySeq DEF Init
  <2>2. pc \in PcValues /\ faults \in 0..MaxFaults
    BY ReconcileAssumption DEF Init, PcValues
  <2> QED
    BY <1>4, <1>5, <2>1, <2>2 DEF Init, RunTypeOK
<1> QED
  BY <1>1, <1>2, <1>6 DEF TypeInv

\* Every variable keeps its type, and no timestamp is further in the future than
\* the clock has been set back.
THEOREM TypeInvariance == Spec => []TypeInv
<1>1. TypeInv /\ [Next]_vars => TypeInv'
  BY DsTyped, SmTyped, RunTyped, NextIsDsStep, NextIsSmStep DEF TypeInv
<1> QED
  BY TypeInvInit, <1>1, PTL DEF Spec

\* Every variable keeps its type, whatever fails and however the clock jumps.
THEOREM TypeCorrect == Spec => []TypeOK
BY TypeInvariance, TypeInvImpliesTypeOK, PTL

-----------------------------------------------------------------------------
(* deny_many runs only while the main task waits for it, and has no entries  *)
(* left when it is done.                                                     *)

IdleInv ==
  /\ pc # "deny" => phase = "idle"
  /\ phase \in {"idle", "ok", "err"} => todo = <<>>

\* deny_many is idle outside the phase of the run that calls it, and done with its
\* entries whenever it has a result: every step keeps that.
LEMMA IdleStep ==
  ASSUME TypeInv, IdleInv, [Next]_vars
  PROVE  IdleInv'
<1> USE DEF IdleInv
<1>1. CASE StartRun \/ NetworksRead \/ Restart
  BY <1>1 DEF StartRun, NetworksRead, Restart, smVars
<1>2. CASE NetworksFail \/ EmitError
  BY <1>2 DEF NetworksFail, EmitError, Abort, smVars
<1>3. CASE PullPage \/ IndexChain
  BY <1>3 DEF PullPage, IndexChain, smVars, runVars
<1>4. CASE PullError \/ Emit \/ \E x \in page : PullCached(x) \/ PullUncached(x)
  BY <1>4 DEF PullError, Emit, PullCached, PullUncached, smVars
<1>5. ASSUME NEW i \in DOMAIN window, CheckPasses(i) \/ CheckFails(i) \/ CheckErrs(i)
      PROVE  IdleInv'
  <2>1. UNCHANGED <<smVars, pc>>
    BY <1>5 DEF CheckPasses, CheckFails, CheckErrs, Resolve
  <2> QED
    BY <2>1 DEF smVars
<1>6. CASE Submit
  BY <1>6 DEF Submit, SM!DenyMany
<1>7. CASE DenyStep \/ DenyFault
  <2>1. pc' = pc /\ phase # "idle" /\ DenySteps
    BY <1>7 DEF DenyStep, DenyFault, DenySteps, Untouched, runVars, SM!EstimateOk, SM!SendOk,
                SM!Confirmed, SM!EstimateFails, SM!ConfirmFails, SM!SendFails
  <2>2. phase' \in {"idle", "ok", "err"} => todo' = <<>>
    BY <2>1 DEF DenySteps, SM!EstimateOk, SM!SendOk,
                SM!Confirmed, SM!EstimateFails, SM!ConfirmFails, SM!SendFails
  <2> QED
    BY <2>1, <2>2
<1>8. CASE Mine \/ Lose
  BY <1>8 DEF Mine, Lose, SM!Mine, SM!Lose, Untouched, runVars
<1>9. CASE RunOk \/ RunErr
  BY <1>9 DEF RunOk, RunErr, Abort, SM!Return
<1>10. CASE PullPanics \/ Crash
  BY <1>10 DEF PullPanics, Crash, Down, SM!Forget
<1>11. CASE Tick \/ SetBack
  BY <1>11 DEF Tick, SetBack, Passing, smVars
<1>12. CASE \E d \in Deployments : Turn(d) \/ Resignal(d)
  BY <1>12 DEF Turn, Resignal, smVars, runVars
<1>13. CASE UNCHANGED vars
  BY <1>13 DEF vars, smVars, runVars
<1> QED
  BY <1>1, <1>2, <1>3, <1>4, <1>5, <1>6, <1>7, <1>8, <1>9, <1>10, <1>11, <1>12, <1>13
  DEF Next, Program, Environment

-----------------------------------------------------------------------------
(* An error stays in the buffer until the run is aborted because of it.      *)

ErrorHeld ==
  erred => pc = "collect" /\ \E i \in DOMAIN window : window[i].verdict = "error"

\* An error, once it is in the buffer, stays there until the run is aborted.
LEMMA ErrorStep ==
  ASSUME TypeInv, ErrorHeld, [Next]_vars
  PROVE  ErrorHeld'
<1> USE DEF ErrorHeld
<1>a. window \in Seq(SlotsNow) /\ DOMAIN window = 1..Len(window) /\ Len(window) \in Nat
  BY LenProperties DEF TypeInv, RunTypeOK
<1>1. CASE StartRun \/ NetworksRead \/ Restart \/ Submit
  <2>1. window' = window /\ erred' = erred /\ ~ erred
    BY <1>1, <1>a DEF StartRun, NetworksRead, Restart, Submit, histVars
  <2> QED
    BY <2>1
<1>2. CASE NetworksFail \/ EmitError \/ RunOk \/ RunErr \/ PullPanics \/ Crash
  BY <1>2 DEF NetworksFail, EmitError, RunOk, RunErr, PullPanics, Crash, Down, Abort, ClearRun
<1>3. CASE PullPage \/ IndexChain
  BY <1>3 DEF PullPage, IndexChain, runVars, histVars
<1>4. CASE PullError
  <2> DEFINE s == [id |-> NoDeployment, deny |-> FALSE, verdict |-> "error", age |-> 0]
  <2>1. window' = Append(window, s) /\ pc' = "collect"
    BY <1>4 DEF PullError, Room
  <2>2. Len(window) + 1 \in DOMAIN window' /\ window'[Len(window) + 1] = s
    BY <1>a, <2>1
  <2> QED
    BY <2>1, <2>2
<1>5. ASSUME NEW x \in page, PullCached(x) \/ PullUncached(x)
      PROVE  ErrorHeld'
  <2>1. PICK s : window' = Append(window, s)
    BY <1>5 DEF PullCached, PullUncached
  <2>2. \A i \in DOMAIN window : i \in DOMAIN window' /\ window'[i] = window[i]
    BY <1>a, <2>1
  <2>3. pc' = pc /\ erred' = erred
    BY <1>5 DEF PullCached, PullUncached, histVars
  <2> QED
    BY <2>2, <2>3
<1>6. ASSUME NEW i \in DOMAIN window, CheckPasses(i) \/ CheckFails(i) \/ CheckErrs(i)
      PROVE  ErrorHeld'
  <2>1. PICK verdict : Resolve(i, verdict) /\ (erred' = erred \/ verdict = "error")
    BY <1>6 DEF CheckPasses, CheckFails, CheckErrs
  <2>2. pc = "collect" /\ pc' = pc /\ window[i].verdict = "checking"
    BY <2>1 DEF Resolve
  <2>3. /\ DOMAIN window' = DOMAIN window
        /\ \A k \in DOMAIN window : k # i => window'[k] = window[k]
    BY <2>1 DEF Resolve
  <2>4. window'[i].verdict = verdict
    <3>1. window[i] \in SlotsNow
      BY <1>a, ElementOfSeq
    <3>2. window'[i] = [window[i] EXCEPT !.verdict = verdict, !.age = 0]
      BY <2>1 DEF Resolve
    <3> QED
      BY <3>1, <3>2 DEF SlotsNow, Slot
  <2> QED
    BY <2>1, <2>2, <2>3, <2>4
<1>7. CASE Emit
  <2>1. SUFFICES ASSUME erred PROVE ErrorHeld'
    BY <1>7 DEF Emit, histVars
  <2>2. PICK i \in DOMAIN window : window[i].verdict = "error"
    BY <2>1
  <2>3. window # <<>> /\ window[1].verdict # "error" /\ window' = Tail(window) /\ pc' = "collect"
    BY <1>7, <1>a DEF Emit, Checked
  <2>4. i - 1 \in 1..Len(window') /\ window'[i - 1] = window[i]
    BY <1>a, <2>2, <2>3, HeadTailProperties
  <2>5. DOMAIN window' = 1..Len(window')
    BY <1>a, <2>3, HeadTailProperties, LenProperties
  <2> QED
    BY <2>2, <2>3, <2>4, <2>5
<1>8. CASE DenyStep \/ DenyFault \/ Mine \/ Lose
  BY <1>8 DEF DenyStep, DenyFault, Mine, Lose, Untouched, runVars, histVars
<1>9. CASE Tick \/ SetBack
  <2>1. PICK step \in {Older, Newer} : Passing(step)
    BY <1>9 DEF Tick, SetBack
  <2>2. \A i \in DOMAIN window : window[i].verdict = "error" => window'[i] = window[i]
    BY <2>1 DEF Passing, ShiftedSlot
  <2> QED
    BY <2>1, <2>2 DEF Passing
<1>10. CASE \E d \in Deployments : Turn(d) \/ Resignal(d)
  BY <1>10 DEF Turn, Resignal, runVars, histVars
<1>11. CASE UNCHANGED vars
  BY <1>11 DEF vars, runVars, histVars
<1> QED
  BY <1>1, <1>2, <1>3, <1>4, <1>5, <1>6, <1>7, <1>8, <1>9, <1>10, <1>11
  DEF Next, Program, Environment

\* No run one of whose items was an error ever submits: when deny_many is
\* called, every page was read and every check was made.
THEOREM ErrorsSubmitNothing == Spec => []ErrorSubmitsNothing
<1>1. Init => ErrorHeld
  BY DEF Init, ErrorHeld
<1>2. ErrorHeld => ErrorSubmitsNothing
  BY DEF ErrorHeld, ErrorSubmitsNothing
<1>3. TypeInv /\ ErrorHeld /\ [Next]_vars => ErrorHeld'
  BY ErrorStep
<1> QED
  BY TypeInvariance, <1>1, <1>2, <1>3, PTL DEF Spec

-----------------------------------------------------------------------------
(* Timestamps.  Ages move together, so the order between two of them is kept *)
(* by every tick; a check that passes only makes the latest one younger.     *)

Witnessed ==
  /\ \A c \in cache \cup updated : lastPass[c.id] <= c.age
  /\ \A i \in DOMAIN window :
       window[i].verdict = "valid" => lastPass[window[i].id] <= window[i].age

\* Witnessed is ClaimsWitnessed, with the three places apart.
LEMMA WitnessedIsClaimsWitnessed == Witnessed <=> ClaimsWitnessed
<1> DEFINE W(i) == [id |-> window[i].id, age |-> window[i].age]
           V == {W(i) : i \in {j \in DOMAIN window : window[j].verdict = "valid"}}
<1>1. Claims = (cache \cup updated) \cup V
  BY DEF Claims
<1>2. (\A c \in V : lastPass[c.id] <= c.age)
      <=> \A i \in DOMAIN window :
            window[i].verdict = "valid" => lastPass[window[i].id] <= window[i].age
  <2>1. \A i : W(i).id = window[i].id /\ W(i).age = window[i].age
    OBVIOUS
  <2> QED
    BY <2>1
<1> QED
  BY <1>1, <1>2 DEF Witnessed, ClaimsWitnessed

\* Every step keeps the claims witnessed: a hit copies an age that is witnessed, a
\* check that passes witnesses its own, and time moves the claim and the witness.
LEMMA WitnessedStep ==
  ASSUME TypeInv, Witnessed, [Next]_vars
  PROVE  Witnessed'
<1> USE DEF Witnessed
<1>a. /\ window \in Seq(SlotsNow) /\ DOMAIN window = 1..Len(window) /\ Len(window) \in Nat
      /\ lastPass \in [Deployments -> AgesNow] /\ AgesNow \subseteq Int
      /\ cache \in SUBSET StampsNow /\ updated \in SUBSET StampsNow
  BY LenProperties, AgesInAges DEF TypeInv, RunTypeOK
<1>1. CASE StartRun \/ NetworksRead \/ Restart \/ Submit
  BY <1>1 DEF StartRun, NetworksRead, Restart, Submit, histVars
<1>2. CASE NetworksFail \/ EmitError \/ RunOk \/ RunErr \/ PullPanics \/ Crash
  <2>1. /\ cache' \subseteq cache \cup updated /\ updated' = {} /\ window' = <<>>
        /\ lastPass' = lastPass
    BY <1>2 DEF NetworksFail, EmitError, RunOk, RunErr, PullPanics, Crash, Down, Abort, ClearRun
  <2> QED
    BY <2>1
<1>3. CASE PullPage \/ IndexChain \/ DenyStep \/ DenyFault \/ Mine \/ Lose
  BY <1>3 DEF PullPage, IndexChain, DenyStep, DenyFault, Mine, Lose, Untouched, runVars,
                    histVars
<1>4. ASSUME NEW s, window' = Append(window, s), UNCHANGED <<cache, updated, lastPass>>,
             s.verdict = "valid" => lastPass[s.id] <= s.age
      PROVE  Witnessed'
  <2>1. DOMAIN window' = 1..(Len(window) + 1)
    BY <1>a, <1>4
  <2>2. \A i \in DOMAIN window' : IF i = Len(window) + 1 THEN window'[i] = s
                                  ELSE i \in DOMAIN window /\ window'[i] = window[i]
    BY <1>a, <1>4, <2>1
  <2> QED
    BY <1>4, <2>2
<1>5. CASE PullError
  <2> DEFINE s == [id |-> NoDeployment, deny |-> FALSE, verdict |-> "error", age |-> 0]
  <2>1. window' = Append(window, s) /\ UNCHANGED <<cache, updated, lastPass>>
    BY <1>5 DEF PullError
  <2>2. s.verdict # "valid"
    OBVIOUS
  <2> QED
    BY <1>4, <2>1, <2>2
<1>6. ASSUME NEW x \in page, PullCached(x) \/ PullUncached(x)
      PROVE  Witnessed'
  <2>1. UNCHANGED <<cache, updated, lastPass>>
    BY <1>6 DEF PullCached, PullUncached, histVars
  <2>2. CASE PullUncached(x)
    BY <1>4, <2>1, <2>2 DEF PullUncached
  <2>3. CASE PullCached(x)
    <3>1. PICK e \in Hits(x.id) :
            window' = Append(window, [id |-> x.id, deny |-> x.deny,
                                      verdict |-> "valid", age |-> e.age])
      BY <2>3 DEF PullCached
    <3>2. lastPass[x.id] <= e.age
      BY <3>1 DEF Hits
    <3> QED
      BY <1>4, <2>1, <3>1, <3>2
  <2> QED
    BY <1>6, <2>2, <2>3
<1>7. ASSUME NEW i \in DOMAIN window, CheckPasses(i) \/ CheckFails(i) \/ CheckErrs(i)
      PROVE  Witnessed'
  <2>1. PICK verdict \in {"valid", "invalid", "error"} :
          Resolve(i, verdict) /\ (verdict = "valid" => CheckPasses(i))
    BY <1>7 DEF CheckPasses, CheckFails, CheckErrs
  <2>2. /\ UNCHANGED <<cache, updated>>
        /\ DOMAIN window' = DOMAIN window
        /\ \A k \in DOMAIN window : k # i => window'[k] = window[k]
        /\ window'[i] = [window[i] EXCEPT !.verdict = verdict, !.age = 0]
        /\ window[i].verdict = "checking"
    BY <2>1 DEF Resolve
  <2>3. window[i] \in SlotsNow
    BY <1>a, ElementOfSeq
  <2>4. window[i].id \in Deployments
    BY <2>2, <2>3 DEF SlotsNow
  <2>5. /\ \A d \in Deployments : /\ lastPass'[d] <= lastPass[d]
                                  /\ lastPass[d] \in Int /\ lastPass'[d] \in Int
        /\ CheckPasses(i) => lastPass'[window[i].id] <= 0
    <3> DEFINE passed ==
          [lastPass EXCEPT ![window[i].id] = IF @ < 0 THEN @ ELSE 0]
    <3>1. /\ lastPass' = lastPass \/ lastPass' = passed
          /\ CheckPasses(i) => lastPass' = passed
      BY <1>7 DEF CheckPasses, CheckFails, CheckErrs
    <3>2. \A d \in Deployments : lastPass[d] \in Int
      BY <1>a
    <3>3. \A d \in Deployments : passed[d] <= lastPass[d] /\ passed[d] \in Int
      BY <1>a, <3>2
    <3>4. passed[window[i].id] <= 0
      BY <1>a, <2>4, <3>2
    <3> HIDE DEF passed
    <3> QED
      BY <3>1, <3>2, <3>3, <3>4
  <2>6. /\ window'[i].id = window[i].id /\ window'[i].age = 0
        /\ window'[i].verdict = verdict
    BY <2>2, <2>3 DEF SlotsNow, Slot
  <2>7. \A c \in cache' \cup updated' : lastPass'[c.id] <= c.age
    <3>1. \A c \in cache \cup updated :
            c.id \in Deployments /\ c.age \in Int /\ lastPass[c.id] <= c.age
      BY <1>a DEF StampsNow
    <3> QED
      BY <2>2, <2>5, <3>1
  <2>8. \A k \in DOMAIN window' :
          window'[k].verdict = "valid" => lastPass'[window'[k].id] <= window'[k].age
    <3> SUFFICES ASSUME NEW k \in DOMAIN window', window'[k].verdict = "valid"
                 PROVE  lastPass'[window'[k].id] <= window'[k].age
      OBVIOUS
    <3>1. CASE k = i
      BY <2>1, <2>5, <2>6, <3>1
    <3>2. CASE k # i
      <4>1. window'[k] = window[k] /\ k \in DOMAIN window
        BY <2>2, <3>2
      <4>2. window[k] \in SlotsNow
        BY <1>a, <4>1, ElementOfSeq
      <4>3. window[k].id \in Deployments /\ window[k].age \in Int
        BY <1>a, <4>1, <4>2 DEF SlotsNow
      <4> QED
        BY <2>5, <4>1, <4>3
    <3> QED
      BY <3>1, <3>2
  <2> QED
    BY <2>7, <2>8
<1>8. CASE Emit
  <2>1. window # <<>> /\ window' = Tail(window) /\ cache' = cache /\ lastPass' = lastPass
    BY <1>8 DEF Emit, histVars
  <2>2. \A k \in DOMAIN window' : k + 1 \in DOMAIN window /\ window'[k] = window[k + 1]
    BY <1>a, <2>1, HeadTailProperties, LenProperties
  <2>3. \A c \in updated' : c \in updated \/
          (window[1].verdict = "valid" /\ c.id = window[1].id /\ c.age = window[1].age)
    BY <1>8, <1>a DEF Emit, Checked
  <2>4. 1 \in DOMAIN window
    BY <1>a, <2>1
  <2> QED
    BY <2>1, <2>2, <2>3, <2>4
<1>9. CASE Tick \/ SetBack
  <2>1. PICK step \in {Older, Newer} : Passing(step)
    BY <1>9 DEF Tick, SetBack
  <2>2. \A a, b \in AgesNow : a <= b => step[a] <= step[b]
    <3>1. AgesNow \subseteq Ages
      BY AgesInAges DEF TypeInv, RunTypeOK
    <3>2. \A a, b \in Ages : a <= b => Older[a] <= Older[b] /\ Newer[a] <= Newer[b]
      BY ReconcileAssumption DEF Older, Newer, Ages, Oldest
    <3> QED
      BY <3>1, <3>2
  <2>3. \A c \in cache' \cup updated' : \E e \in cache \cup updated :
          c.id = e.id /\ c.age = step[e.age]
    BY <1>a, <2>1 DEF Passing, Shifted, StampsNow
  <2>4. \A c \in cache' \cup updated' : lastPass'[c.id] <= c.age
    <3> SUFFICES ASSUME NEW c \in cache' \cup updated'
                 PROVE  lastPass'[c.id] <= c.age
      OBVIOUS
    <3>1. PICK e \in cache \cup updated : c.id = e.id /\ c.age = step[e.age]
      BY <2>3
    <3>2. e.id \in Deployments /\ e.age \in AgesNow
      BY <1>a DEF StampsNow
    <3>3. lastPass'[e.id] = step[lastPass[e.id]] /\ lastPass[e.id] \in AgesNow
      BY <1>a, <2>1, <3>2 DEF Passing
    <3> QED
      BY <2>2, <3>1, <3>2, <3>3
  <2>5. \A k \in DOMAIN window' :
          window'[k].verdict = "valid" => lastPass'[window'[k].id] <= window'[k].age
    <3> SUFFICES ASSUME NEW k \in DOMAIN window', window'[k].verdict = "valid"
                 PROVE  lastPass'[window'[k].id] <= window'[k].age
      OBVIOUS
    <3>1. k \in DOMAIN window /\ window'[k] = ShiftedSlot(window[k], step)
      BY <2>1 DEF Passing
    <3>2. window[k] \in SlotsNow
      BY <1>a, <3>1, ElementOfSeq
    <3>3. window[k].verdict = "valid" /\ window'[k] = [window[k] EXCEPT !.age = step[@]]
      BY <3>1, <3>2 DEF ShiftedSlot, Shifted, SlotsNow, Slot
    <3>4. window'[k].id = window[k].id /\ window'[k].age = step[window[k].age]
      BY <3>2, <3>3 DEF SlotsNow, Slot
    <3>5. window[k].id \in Deployments /\ window[k].age \in AgesNow
      BY <3>2, <3>3 DEF SlotsNow
    <3>6. /\ lastPass'[window[k].id] = step[lastPass[window[k].id]]
          /\ lastPass[window[k].id] \in AgesNow
      BY <1>a, <2>1, <3>5 DEF Passing
    <3> QED
      BY <2>2, <3>1, <3>3, <3>4, <3>5, <3>6
  <2> QED
    BY <2>4, <2>5
<1>10. CASE \E d \in Deployments : Turn(d) \/ Resignal(d)
  BY <1>10 DEF Turn, Resignal, runVars, histVars
<1>11. CASE UNCHANGED vars
  BY <1>11 DEF vars, runVars, histVars
<1> QED
  BY <1>1, <1>2, <1>3, <1>5, <1>6, <1>7, <1>8, <1>9, <1>10, <1>11
  DEF Next, Program, Environment

\* However long a deployment is served from the cache, the age the cache claims
\* for its last validation is at least that of a check that really passed.
THEOREM ClaimsAreWitnessed == Spec => []ClaimsWitnessed
<1>1. Init => Witnessed
  BY DEF Init, Witnessed
<1>2. TypeInv /\ Witnessed /\ [Next]_vars => Witnessed'
  BY WitnessedStep
<1> QED
  BY TypeInvariance, WitnessedIsClaimsWitnessed, <1>1, <1>2, PTL DEF Spec

-----------------------------------------------------------------------------
(* The clock.  No timestamp is ahead of it until it is set back.             *)

Behind ==
  /\ \A c \in cache \cup updated : c.age >= 0
  /\ \A i \in DOMAIN window : window[i].verdict = "valid" => window[i].age >= 0

\* Behind says of the three places apart that nothing is ahead.
LEMMA BehindIsNotAhead ==
  ASSUME TypeInv
  PROVE  Behind <=> Ahead = {}
<1> DEFINE W(i) == [id |-> window[i].id, age |-> window[i].age]
           V == {W(i) : i \in {j \in DOMAIN window : window[j].verdict = "valid"}}
<1>1. Claims = (cache \cup updated) \cup V
  BY DEF Claims
<1>2. /\ \A c \in cache \cup updated : c.age \in Int
      /\ \A i \in DOMAIN window : window[i].age \in Int
  <2>1. window \in Seq(SlotsNow) /\ AgesNow \subseteq Int
    BY AgesInAges DEF TypeInv, RunTypeOK
  <2>2. \A i \in DOMAIN window : window[i] \in SlotsNow
    BY <2>1, ElementOfSeq
  <2> QED
    BY <2>1, <2>2 DEF TypeInv, RunTypeOK, StampsNow, SlotsNow
<1>3. (\A c \in V : ~(c.age < 0))
      <=> \A i \in DOMAIN window : window[i].verdict = "valid" => ~(window[i].age < 0)
  <2>1. \A i : W(i).age = window[i].age
    OBVIOUS
  <2> QED
    BY <2>1
<1> HIDE DEF V
<1>4. Ahead = {} <=> /\ \A c \in cache \cup updated : ~(c.age < 0)
                     /\ \A c \in V : ~(c.age < 0)
  BY <1>1 DEF Ahead
<1>5. (\A c \in cache \cup updated : ~(c.age < 0)) <=> \A c \in cache \cup updated : c.age >= 0
  BY <1>2
<1>6. (\A i \in DOMAIN window : window[i].verdict = "valid" => ~(window[i].age < 0))
      <=> \A i \in DOMAIN window : window[i].verdict = "valid" => window[i].age >= 0
  BY <1>2
<1> QED
  BY <1>3, <1>4, <1>5, <1>6 DEF Behind

\* Every step but setting the clock back keeps them behind: a hit copies the age of an
\* entry that is not ahead, a check stamps the time it is, and time only adds to them.
LEMMA BehindStep ==
  ASSUME TypeInv, Behind, [Next]_vars, ~SetBack
  PROVE  Behind'
<1> USE DEF Behind
<1>a. /\ window \in Seq(SlotsNow) /\ DOMAIN window = 1..Len(window) /\ Len(window) \in Nat
      /\ AgesNow \subseteq Int /\ cache \in SUBSET StampsNow /\ updated \in SUBSET StampsNow
  BY LenProperties, AgesInAges DEF TypeInv, RunTypeOK
<1>1. CASE StartRun \/ NetworksRead \/ Restart \/ Submit
  BY <1>1 DEF StartRun, NetworksRead, Restart, Submit
<1>2. CASE NetworksFail \/ EmitError \/ RunOk \/ RunErr \/ PullPanics \/ Crash
  <2>1. cache' \subseteq cache \cup updated /\ updated' = {} /\ window' = <<>>
    BY <1>2 DEF NetworksFail, EmitError, RunOk, RunErr, PullPanics, Crash, Down, Abort, ClearRun
  <2> QED
    BY <2>1
<1>3. CASE PullPage \/ IndexChain \/ DenyStep \/ DenyFault \/ Mine \/ Lose
  BY <1>3 DEF PullPage, IndexChain, DenyStep, DenyFault, Mine, Lose, Untouched, runVars
<1>4. ASSUME NEW s, window' = Append(window, s), UNCHANGED <<cache, updated>>,
             s.verdict = "valid" => s.age >= 0
      PROVE  Behind'
  <2>1. DOMAIN window' = 1..(Len(window) + 1)
    BY <1>a, <1>4
  <2>2. \A i \in DOMAIN window' : IF i = Len(window) + 1 THEN window'[i] = s
                                  ELSE i \in DOMAIN window /\ window'[i] = window[i]
    BY <1>a, <1>4, <2>1
  <2> QED
    BY <1>4, <2>2
<1>5. CASE PullError
  <2> DEFINE s == [id |-> NoDeployment, deny |-> FALSE, verdict |-> "error", age |-> 0]
  <2>1. window' = Append(window, s) /\ UNCHANGED <<cache, updated>> /\ s.verdict # "valid"
    BY <1>5 DEF PullError
  <2> QED
    BY <1>4, <2>1
<1>6. ASSUME NEW x \in page, PullCached(x) \/ PullUncached(x)
      PROVE  Behind'
  <2>1. UNCHANGED <<cache, updated>>
    BY <1>6 DEF PullCached, PullUncached
  <2>2. CASE PullUncached(x)
    BY <1>4, <2>1, <2>2 DEF PullUncached
  <2>3. CASE PullCached(x)
    <3>1. PICK e \in Hits(x.id) :
            window' = Append(window, [id |-> x.id, deny |-> x.deny,
                                      verdict |-> "valid", age |-> e.age])
      BY <2>3 DEF PullCached
    <3>2. e.age >= 0
      BY <3>1 DEF Hits
    <3> QED
      BY <1>4, <2>1, <3>1, <3>2
  <2> QED
    BY <1>6, <2>2, <2>3
<1>7. ASSUME NEW i \in DOMAIN window, CheckPasses(i) \/ CheckFails(i) \/ CheckErrs(i)
      PROVE  Behind'
  <2>1. PICK verdict \in {"valid", "invalid", "error"} : Resolve(i, verdict)
    BY <1>7 DEF CheckPasses, CheckFails, CheckErrs
  <2>2. /\ UNCHANGED <<cache, updated>>
        /\ DOMAIN window' = DOMAIN window
        /\ \A k \in DOMAIN window : k # i => window'[k] = window[k]
        /\ window'[i] = [window[i] EXCEPT !.verdict = verdict, !.age = 0]
    BY <2>1 DEF Resolve
  <2>3. window[i] \in SlotsNow
    BY <1>a, ElementOfSeq
  <2>4. window'[i].age = 0
    BY <2>2, <2>3 DEF SlotsNow, Slot
  <2>5. \A c \in cache' \cup updated' : c.age >= 0
    BY <2>2
  <2>6. ASSUME NEW k \in DOMAIN window', window'[k].verdict = "valid"
        PROVE  window'[k].age >= 0
    <3>1. CASE k = i
      BY <2>4, <3>1
    <3>2. CASE k # i
      <4>1. k \in DOMAIN window /\ window'[k] = window[k]
        BY <2>2, <3>2
      <4> QED
        BY <2>6, <4>1
    <3> QED
      BY <3>1, <3>2
  <2> QED
    BY <2>5, <2>6
<1>8. CASE Emit
  <2>1. window # <<>> /\ window' = Tail(window) /\ cache' = cache
    BY <1>8 DEF Emit
  <2>2. \A k \in DOMAIN window' : k + 1 \in DOMAIN window /\ window'[k] = window[k + 1]
    BY <1>a, <2>1, HeadTailProperties, LenProperties
  <2>3. \A c \in updated' :
          c \in updated \/ (window[1].verdict = "valid" /\ c.age = window[1].age)
    BY <1>8, <1>a DEF Emit, Checked
  <2>4. 1 \in DOMAIN window
    BY <1>a, <2>1
  <2> QED
    BY <2>1, <2>2, <2>3, <2>4
<1>9. CASE Tick
  <2>1. Passing(Older)
    BY <1>9 DEF Tick
  <2>2. \A a \in AgesNow : a >= 0 => Older[a] >= 0
    <3>1. AgesNow \subseteq Ages
      BY AgesInAges DEF TypeInv, RunTypeOK
    <3>2. \A a \in Ages : a >= 0 => Older[a] >= 0
      BY ReconcileAssumption DEF Older, Ages, Oldest
    <3> QED
      BY <3>1, <3>2
  <2>3. \A c \in cache' \cup updated' : \E e \in cache \cup updated : c.age = Older[e.age]
    BY <1>a, <2>1 DEF Passing, Shifted, StampsNow
  <2>4. \A c \in cache' \cup updated' : c.age >= 0
    <3>1. \A e \in cache \cup updated : e.age \in AgesNow
      BY <1>a DEF StampsNow
    <3> QED
      BY <2>2, <2>3, <3>1
  <2>5. ASSUME NEW k \in DOMAIN window', window'[k].verdict = "valid"
        PROVE  window'[k].age >= 0
    <3>1. k \in DOMAIN window /\ window'[k] = ShiftedSlot(window[k], Older)
      BY <2>1 DEF Passing
    <3>2. window[k] \in SlotsNow
      BY <1>a, <3>1, ElementOfSeq
    <3>3. window[k].verdict = "valid" /\ window'[k] = [window[k] EXCEPT !.age = Older[@]]
      BY <2>5, <3>1, <3>2 DEF ShiftedSlot, Shifted, SlotsNow, Slot
    <3>4. window'[k].age = Older[window[k].age] /\ window[k].age \in AgesNow
      BY <3>2, <3>3 DEF SlotsNow, Slot
    <3> QED
      BY <2>2, <3>1, <3>3, <3>4
  <2> QED
    BY <2>4, <2>5
<1>10. CASE \E d \in Deployments : Turn(d) \/ Resignal(d)
  BY <1>10 DEF Turn, Resignal, runVars
<1>11. CASE UNCHANGED vars
  BY <1>11 DEF vars, runVars
<1> QED
  BY <1>1, <1>2, <1>3, <1>5, <1>6, <1>7, <1>8, <1>9, <1>10, <1>11
  DEF Next, Program, Environment

\* The process goes down by a fault, or because an entry is ahead of the clock; either
\* way nothing is left of what it held.
LEMMA DownStep ==
  ASSUME TypeInv, [Next]_vars, pc # "down", pc' = "down"
  PROVE  Behind' /\ (~Behind \/ faults' > faults)
<1>1. Crash \/ PullPanics
  <2>1. CASE StartRun \/ NetworksRead \/ Emit \/ EmitError \/ Submit \/ RunOk \/ RunErr
             \/ NetworksFail \/ Restart
    BY <2>1 DEF StartRun, NetworksRead, Emit, EmitError, Submit, RunOk, RunErr, NetworksFail,
                Restart, Abort
  <2>2. CASE PullPage \/ PullError \/ \E x \in page : PullCached(x) \/ PullUncached(x)
    BY <2>2 DEF PullPage, PullError, PullCached, PullUncached, runVars
  <2>3. CASE \E i \in DOMAIN window : CheckPasses(i) \/ CheckFails(i) \/ CheckErrs(i)
    BY <2>3 DEF CheckPasses, CheckFails, CheckErrs, Resolve
  <2>4. CASE DenyStep \/ DenyFault \/ Mine \/ Lose \/ IndexChain
    BY <2>4 DEF DenyStep, DenyFault, Mine, Lose, IndexChain, Untouched, runVars
  <2>5. CASE Tick \/ SetBack \/ UNCHANGED vars
    BY <2>5 DEF Tick, SetBack, Passing, vars, runVars
  <2>6. CASE \E d \in Deployments : Turn(d) \/ Resignal(d)
    BY <2>6 DEF Turn, Resignal, runVars
  <2> QED
    BY <2>1, <2>2, <2>3, <2>4, <2>5, <2>6 DEF Next, Program, Environment
<1>2. cache' = {} /\ updated' = {} /\ window' = <<>>
  BY <1>1 DEF Crash, PullPanics, Down, ClearRun
<1>3. Behind'
  BY <1>2 DEF Behind
<1>4. CASE Crash
  <2>1. faults' = faults + 1 /\ faults \in Int
    BY <1>4 DEF Crash, Fault, TypeInv, RunTypeOK
  <2> QED
    BY <1>3, <2>1
<1>5. CASE PullPanics
  <2>1. PICK e \in cache : e.age < 0
    BY <1>5 DEF PullPanics, InFuture
  <2>2. e.age \in Int
    BY <2>1, AgesInAges DEF TypeInv, RunTypeOK, StampsNow
  <2> QED
    BY <1>3, <2>1, <2>2 DEF Behind
<1> QED
  BY <1>1, <1>4, <1>5

\* A clock that is set back costs the process one panic at most, and a clock that is
\* not set back none.
THEOREM SetBacksCostOnePanic == Spec => PanicsAreSpent
<1>1. TypeInv /\ TypeInv' /\ [Next]_vars
        => [ /\ Ahead = {} /\ Ahead' # {} => SetBack
             /\ pc # "down" /\ pc' = "down"
                  => Ahead' = {} /\ (Ahead # {} \/ faults' > faults) ]_vars
  <2> SUFFICES ASSUME TypeInv, TypeInv', [Next]_vars
               PROVE  /\ Ahead = {} /\ Ahead' # {} => SetBack
                      /\ pc # "down" /\ pc' = "down"
                           => Ahead' = {} /\ (Ahead # {} \/ faults' > faults)
    OBVIOUS
  <2>1. Behind <=> Ahead = {}
    BY BehindIsNotAhead
  <2>2. (Behind <=> Ahead = {})'
    BY BehindIsNotAhead, PTL
  <2>3. Ahead = {} /\ Ahead' # {} => SetBack
    BY <2>1, <2>2, BehindStep
  <2>4. pc # "down" /\ pc' = "down" => Ahead' = {} /\ (Ahead # {} \/ faults' > faults)
    BY <2>1, <2>2, DownStep
  <2> QED
    BY <2>3, <2>4
<1> QED
  BY TypeInvariance, <1>1, PTL DEF Spec, PanicsAreSpent

-----------------------------------------------------------------------------
(* Where the flags come from.  A verdict travels from a check through the    *)
(* buffer, the collected flips, the argument of deny_many and the mempool to *)
(* the denylist, or through the cache back into the buffer.                  *)

\* Statuses some verdict backs, and those of them a run may hold.
Backed == {s \in SM!Status : <<s.id, s.deny>> \in verdicts}
Fresh  == {s \in Backed : s.deny => s.id \in failed}

SoundSlots ==
  {s \in Slot : /\ s.verdict = "valid"   => <<s.id, FALSE>> \in verdicts
                /\ s.verdict = "invalid" => <<s.id, TRUE>> \in verdicts /\ s.id \in failed}

SoundInv ==
  /\ window \in Seq(SoundSlots)
  /\ flips \in Seq(Fresh)
  /\ todo \in Seq(Fresh)
  /\ mempool \in Seq(Seq(Backed))
  /\ \A c \in cache \cup updated : <<c.id, FALSE>> \in verdicts
  /\ FlagsHaveVerdicts

\* What is sound stays so while verdicts and failed checks are only added.
LEMMA SoundGrows ==
  ASSUME SoundInv, verdicts \subseteq verdicts', failed \subseteq failed'
  PROVE  /\ window \in Seq(SoundSlots')
         /\ flips \in Seq(Fresh')
         /\ todo \in Seq(Fresh')
         /\ mempool \in Seq(Seq(Backed'))
         /\ \A c \in cache \cup updated : <<c.id, FALSE>> \in verdicts'
         /\ \A d \in Deployments : <<d, flags[d]>> \in verdicts'
<1>1. Backed \subseteq Backed'
  BY DEF Backed
<1>2. Fresh \subseteq Fresh'
  BY <1>1 DEF Fresh
<1>3. SoundSlots \subseteq SoundSlots'
  BY DEF SoundSlots
<1>4. Seq(Backed) \subseteq Seq(Backed')
  BY <1>1, SeqMonotonic
<1> QED
  BY <1>2, <1>3, <1>4, SeqMonotonic DEF SoundInv, FlagsHaveVerdicts

\* Nothing is left of a run that is dropped, and deny_many has returned.
LEMMA SoundCleared ==
  ASSUME SoundInv, ClearRun, verdicts' = verdicts, flags' = flags, mempool' = mempool,
         todo' = <<>>, cache' \subseteq cache \cup updated
  PROVE  SoundInv'
<1>1. Backed' = Backed /\ updated' = {}
  BY DEF Backed, ClearRun
<1>2. window' \in Seq(SoundSlots') /\ flips' \in Seq(Fresh') /\ todo' \in Seq(Fresh')
  BY EmptySeq DEF ClearRun
<1> QED
  BY <1>1, <1>2 DEF SoundInv, FlagsHaveVerdicts

\* Every step keeps the flips, the transactions and the denylist backed by verdicts.
LEMMA SoundStep ==
  ASSUME TypeInv, TypeInv', IdleInv, SoundInv, [Next]_vars
  PROVE  SoundInv'
<1> USE DEF SoundInv, FlagsHaveVerdicts
<1>a. /\ window \in Seq(SlotsNow) /\ DOMAIN window = 1..Len(window) /\ Len(window) \in Nat
      /\ flips \in Seq(SM!Status)
  BY LenProperties DEF TypeInv, RunTypeOK
<1>b. ASSUME NEW i \in DOMAIN window
      PROVE  window[i] \in SoundSlots /\ window[i] \in Slot /\ window[i] \in SlotsNow
  BY <1>a, <1>b, ElementOfSeq DEF SoundSlots, SlotsNow
<1>c. ASSUME UNCHANGED <<verdicts, failed>>
      PROVE  SoundSlots' = SoundSlots /\ Fresh' = Fresh /\ Backed' = Backed
  BY <1>c DEF SoundSlots, Fresh, Backed
<1>1. CASE StartRun \/ NetworksRead \/ Restart
  BY <1>1, <1>c DEF StartRun, NetworksRead, Restart, smVars, histVars
<1>2. CASE NetworksFail \/ EmitError
  BY <1>2, SoundCleared DEF NetworksFail, EmitError, Abort, IdleInv, smVars
<1>3. CASE RunOk \/ RunErr
  <2>1. /\ ClearRun /\ cache' \subseteq cache \cup updated
        /\ phase \in {"ok", "err"}
        /\ UNCHANGED <<verdicts, flags, mempool, todo>>
    BY <1>3 DEF RunOk, RunErr, Abort, SM!Return
  <2> QED
    BY <2>1, SoundCleared DEF IdleInv
<1>4. CASE PullPanics \/ Crash
  BY <1>4, SoundCleared DEF PullPanics, Crash, Down, SM!Forget
<1>5. CASE PullPage \/ IndexChain
  BY <1>5, <1>c DEF PullPage, IndexChain, smVars, runVars, histVars
<1>6. CASE PullError
  <2> DEFINE s == [id |-> NoDeployment, deny |-> FALSE, verdict |-> "error", age |-> 0]
  <2>1. s \in SoundSlots
    BY AgesInAges DEF SoundSlots, Slot, TypeInv, RunTypeOK
  <2>2. window' = Append(window, s) /\ UNCHANGED <<smVars, cache, flips, updated, failed, verdicts>>
    BY <1>6 DEF PullError
  <2>3. window' \in Seq(SoundSlots)
    BY <2>1, <2>2, AppendIn
  <2> QED
    BY <1>c, <2>2, <2>3 DEF smVars
<1>7. ASSUME NEW x \in page, PullCached(x) \/ PullUncached(x)
      PROVE  SoundInv'
  <2>1. UNCHANGED <<smVars, cache, flips, updated, failed, verdicts>>
    BY <1>7 DEF PullCached, PullUncached, histVars
  <2>2. x.id \in Deployments /\ x.deny \in BOOLEAN /\ AgesNow \subseteq Ages /\ 0 \in Ages
    BY AgesInAges DEF TypeInv, RunTypeOK, DS!DsTypeOK, DS!Deployment
  <2>3. \E s \in SoundSlots : window' = Append(window, s)
    <3>1. CASE PullCached(x)
      <4>1. PICK e \in Hits(x.id) :
              window' = Append(window, [id |-> x.id, deny |-> x.deny,
                                        verdict |-> "valid", age |-> e.age])
        BY <3>1 DEF PullCached
      <4>2. e.age \in Ages /\ <<x.id, FALSE>> \in verdicts
        BY <2>2, <4>1 DEF Hits, StampsNow, TypeInv, RunTypeOK
      <4> QED
        BY <2>2, <4>1, <4>2 DEF SoundSlots, Slot
    <3>2. CASE PullUncached(x)
      BY <2>2, <3>2 DEF PullUncached, SoundSlots, Slot
    <3> QED
      BY <1>7, <3>1, <3>2
  <2>4. window' \in Seq(SoundSlots)
    BY <2>3, AppendIn
  <2> QED
    BY <1>c, <2>1, <2>4 DEF smVars
<1>8. ASSUME NEW i \in DOMAIN window, CheckPasses(i) \/ CheckFails(i) \/ CheckErrs(i)
      PROVE  SoundInv'
  <2>1. PICK verdict \in {"valid", "invalid", "error"} :
          /\ Resolve(i, verdict)
          /\ verdict = "valid" => <<window[i].id, FALSE>> \in verdicts'
          /\ verdict = "invalid" =>
               <<window[i].id, TRUE>> \in verdicts' /\ window[i].id \in failed'
    BY <1>8 DEF CheckPasses, CheckFails, CheckErrs
  <2>2. verdicts \subseteq verdicts' /\ failed \subseteq failed'
    BY <1>8 DEF CheckPasses, CheckFails, CheckErrs
  <2> DEFINE s == [window[i] EXCEPT !.verdict = verdict, !.age = 0]
  <2>3. window' = [window EXCEPT ![i] = s] /\ UNCHANGED <<smVars, cache, flips, updated>>
    BY <2>1 DEF Resolve
  <2>4. s \in SoundSlots'
    <3>1. window[i] \in Slot /\ 0 \in Ages
      BY <1>b, AgesInAges DEF TypeInv, RunTypeOK
    <3>2. s \in Slot /\ s.verdict = verdict /\ s.id = window[i].id
      BY <3>1 DEF Slot
    <3> QED
      BY <2>1, <3>2 DEF SoundSlots
  <2>5. window' \in Seq(SoundSlots')
    <3>1. window \in Seq(SoundSlots') /\ i \in 1..Len(window)
      BY <1>a, <2>2, SoundGrows
    <3> QED
      BY <2>3, <2>4, <3>1, ExceptSeq
  <2> QED
    BY <2>2, <2>3, <2>5, SoundGrows DEF smVars
<1>9. CASE Emit
  <2> DEFINE s == Head(window)
  <2>1. s \in SoundSlots /\ s \in SlotsNow /\ Tail(window) \in Seq(SoundSlots)
    BY <1>a, <1>9, HeadTailIn DEF Emit
  <2>2. s.id \in Deployments /\ s.verdict \in {"valid", "invalid"}
    BY <1>9, <2>1 DEF Emit, Checked, SlotsNow
  <2>3. UNCHANGED <<smVars, cache, failed, verdicts>> /\ window' = Tail(window)
    BY <1>9 DEF Emit, histVars
  <2>4. flips' \in Seq(Fresh)
    <3>1. ASSUME NEW d \in Deployments
          PROVE  /\ <<d, FALSE>> \in verdicts => [id |-> d, deny |-> FALSE] \in Fresh
                 /\ <<d, TRUE>> \in verdicts /\ d \in failed
                      => [id |-> d, deny |-> TRUE] \in Fresh
      BY DEF Fresh, Backed, SM!Status
    <3>2. CASE s.verdict = "valid"
      <4>1. (s.verdict = "invalid") = FALSE
        BY <3>2
      <4>2. flips' = flips \/ flips' = Append(flips, [id |-> s.id, deny |-> FALSE])
        BY <1>9, <4>1 DEF Emit
      <4>3. <<s.id, FALSE>> \in verdicts
        BY <2>1, <3>2 DEF SoundSlots
      <4> HIDE DEF s
      <4>4. [id |-> s.id, deny |-> FALSE] \in Fresh
        BY <2>2, <3>1, <4>3
      <4> QED
        BY <4>2, <4>4, AppendIn
    <3>3. CASE s.verdict = "invalid"
      <4>1. (s.verdict = "invalid") = TRUE
        BY <3>3
      <4>2. flips' = flips \/ flips' = Append(flips, [id |-> s.id, deny |-> TRUE])
        BY <1>9, <4>1 DEF Emit
      <4>3. <<s.id, TRUE>> \in verdicts /\ s.id \in failed
        BY <2>1, <3>3 DEF SoundSlots
      <4> HIDE DEF s
      <4>4. [id |-> s.id, deny |-> TRUE] \in Fresh
        BY <2>2, <3>1, <4>3
      <4> QED
        BY <4>2, <4>4, AppendIn
    <3> QED
      BY <2>2, <3>2, <3>3
  <2>5. \A c \in updated' : <<c.id, FALSE>> \in verdicts
    <3>1. updated' = updated \/
          (s.verdict = "valid" /\ updated' = updated \cup {[id |-> s.id, age |-> s.age]})
      BY <1>9, <2>2 DEF Emit
    <3>2. s.verdict = "valid" => <<s.id, FALSE>> \in verdicts
      BY <2>1 DEF SoundSlots
    <3>3. \A c \in updated' : c \in updated \/ (s.verdict = "valid" /\ c.id = s.id)
      BY <3>1
    <3> HIDE DEF s
    <3> QED
      BY <3>2, <3>3, Zenon
  <2> QED
    BY <1>c, <2>1, <2>3, <2>4, <2>5 DEF smVars
<1>10. CASE Submit
  <2>1. /\ todo' = flips /\ flips' = <<>>
        /\ UNCHANGED <<mempool, flags, window, cache, updated, failed, verdicts>>
    BY <1>10 DEF Submit, SM!DenyMany, histVars
  <2> QED
    BY <1>c, <2>1, EmptySeq
<1>11. CASE DenyStep \/ DenyFault
  <2>1. DenySteps /\ Untouched
    BY <1>11 DEF DenyStep, DenyFault, DenySteps
  <2>2. flags' = flags
    BY <2>1 DEF DenySteps, SM!EstimateOk, SM!SendOk, SM!Confirmed, SM!EstimateFails,
                SM!ConfirmFails, SM!SendFails
  <2>3. todo' \in Seq(Fresh)
    BY <2>1, DenyStepsKeepTodo
  <2>4. mempool' \in Seq(Seq(Backed))
    <3>1. Fresh \subseteq Backed
      BY DEF Fresh
    <3>2. todo \in Seq(Backed)
      BY <3>1, SeqMonotonic
    <3> QED
      BY <2>1, <3>2, DenyStepsIn
  <2> QED
    BY <1>c, <2>1, <2>2, <2>3, <2>4 DEF Untouched, runVars, histVars
<1>12. CASE Mine
  <2>1. mempool # <<>> /\ SM!Mine /\ Untouched
    BY <1>12 DEF Mine, SM!Mine
  <2>2. Head(mempool) \in Seq(Backed) /\ Tail(mempool) \in Seq(Seq(Backed))
    BY <2>1, HeadTailIn
  <2>3. \A d \in Deployments : <<d, flags'[d]>> \in verdicts
    <3> SUFFICES ASSUME NEW d \in Deployments
                 PROVE  <<d, flags'[d]>> \in verdicts
      OBVIOUS
    <3> DEFINE tx == Head(mempool)
               j == CHOOSE k \in DOMAIN tx : SM!Decides(tx, k, d)
    <3>0. flags' = SM!Applied(tx)
      BY <2>1 DEF SM!Mine
    <3>1. CASE \E k \in DOMAIN tx : SM!Decides(tx, k, d)
      <4>1. j \in DOMAIN tx /\ SM!Decides(tx, j, d)
        BY <3>1
      <4>2. tx[j] \in Backed /\ tx[j].id = d
        BY <2>2, <4>1, ElementOfSeq, LenProperties DEF SM!Decides
      <4>3. flags'[d] = tx[j].deny
        BY <3>0, <3>1 DEF SM!Applied
      <4> QED
        BY <4>2, <4>3 DEF Backed
    <3>2. CASE ~ \E k \in DOMAIN tx : SM!Decides(tx, k, d)
      BY <3>0, <3>2 DEF SM!Applied
    <3> QED
      BY <3>1, <3>2
  <2>4. UNCHANGED <<todo, window, flips, cache, updated, failed, verdicts>>
        /\ mempool' = Tail(mempool)
    BY <2>1 DEF Untouched, runVars, histVars, SM!Mine
  <2> QED
    BY <1>c, <2>2, <2>3, <2>4
<1>13. CASE Lose
  <2>1. mempool # <<>> /\ mempool' = Tail(mempool)
        /\ UNCHANGED <<todo, flags, window, flips, cache, updated, failed, verdicts>>
    BY <1>13 DEF Lose, SM!Lose, Untouched, runVars, histVars
  <2> QED
    BY <1>c, <2>1, HeadTailIn
<1>14. CASE Tick \/ SetBack
  <2>1. PICK step \in {Older, Newer} : Passing(step)
    BY <1>14 DEF Tick, SetBack
  <2>2. UNCHANGED <<smVars, flips, failed, verdicts>>
    BY <2>1 DEF Passing
  <2>3. \A c \in cache' \cup updated' : <<c.id, FALSE>> \in verdicts
    <3>1. \A c \in cache' \cup updated' : \E e \in cache \cup updated : c.id = e.id
      BY <2>1 DEF Passing, Shifted, StampsNow, TypeInv, RunTypeOK
    <3> QED
      BY <3>1
  <2>4. window' \in Seq(SoundSlots)
    <3>1. window' \in Seq(SlotsNow') /\ window' = [i \in DOMAIN window |-> window'[i]]
      BY <2>1 DEF Passing, TypeInv, RunTypeOK
    <3>2. \A i \in DOMAIN window : window'[i] \in SoundSlots
      <4> SUFFICES ASSUME NEW i \in DOMAIN window PROVE window'[i] \in SoundSlots
        OBVIOUS
      <4>1. window[i] \in SoundSlots /\ window[i] \in Slot
        BY <1>b
      <4>2. window'[i] \in SlotsNow'
        BY <1>a, <3>1, ElementOfSeq, LenProperties
      <4>3. window'[i] \in Slot
        BY <4>2 DEF SlotsNow
      <4>4. window'[i].id = window[i].id /\ window'[i].verdict = window[i].verdict
        BY <2>1, <4>1 DEF Passing, ShiftedSlot, Shifted, Slot
      <4> QED
        BY <4>1, <4>3, <4>4 DEF SoundSlots
    <3> QED
      BY <3>1, <3>2, MappedIn
  <2> QED
    BY <1>c, <2>2, <2>3, <2>4 DEF smVars
<1>15. CASE \E d \in Deployments : Turn(d) \/ Resignal(d)
  BY <1>15, <1>c DEF Turn, Resignal, smVars, runVars, histVars
<1>16. CASE UNCHANGED vars
  BY <1>16, <1>c DEF vars, smVars, runVars, histVars
<1> QED
  BY <1>1, <1>2, <1>3, <1>4, <1>5, <1>6, <1>7, <1>8, <1>9, <1>10, <1>11, <1>12, <1>13, <1>14,
     <1>15, <1>16
  DEF Next, Program, Environment

SafetyInv == TypeInv /\ IdleInv /\ SoundInv

\* The conjunction is an invariant of the specification.
LEMMA SafetyInvariance == Spec => []SafetyInv
<1>1. Init => SafetyInv
  <2> SUFFICES ASSUME Init PROVE IdleInv /\ SoundInv
    BY TypeInvInit DEF SafetyInv
  <2>1. window \in Seq(SoundSlots) /\ flips \in Seq(Fresh) /\ todo \in Seq(Fresh)
        /\ mempool \in Seq(Seq(Backed))
    BY EmptySeq DEF Init
  <2> QED
    BY <2>1 DEF Init, IdleInv, SoundInv, FlagsHaveVerdicts
<1>2. SafetyInv /\ TypeInv' /\ [Next]_vars => SafetyInv'
  BY IdleStep, SoundStep DEF SafetyInv
<1> QED
  BY TypeInvariance, <1>1, <1>2, PTL DEF Spec

\* A flag the run is about to set to `denied' is that of a deployment which
\* failed its check in this very run, never of an earlier one.
THEOREM OnlyFreshDenials == Spec => []DenialsAreFresh
<1>1. SafetyInv => DenialsAreFresh
  <2> SUFFICES ASSUME SafetyInv PROVE DenialsAreFresh
    OBVIOUS
  <2>1. \A i \in DOMAIN flips : flips[i] \in Fresh
    BY ElementOfSeq, LenProperties DEF SafetyInv, SoundInv
  <2>2. \A i \in DOMAIN todo : todo[i] \in Fresh
    BY ElementOfSeq, LenProperties DEF SafetyInv, SoundInv
  <2> QED
    BY <2>1, <2>2 DEF DenialsAreFresh, Fresh
<1> QED
  BY SafetyInvariance, <1>1, PTL

\* End to end, the denylist never says of a deployment what neither it said at
\* first nor any check of that deployment found.
THEOREM FlagsAreVerdicts == Spec => []FlagsHaveVerdicts
BY SafetyInvariance, PTL DEF SafetyInv, SoundInv

-----------------------------------------------------------------------------
(* The cache.                                                                *)

\* The ids in the cache change only when deny_many returned Ok or the process goes
\* down.
LEMMA CacheStep ==
  ASSUME TypeInv, [Next]_vars
  PROVE  Remembered' = Remembered \/ phase = "ok" \/ pc' = "down"
<1>0. cache' = cache => Remembered' = Remembered
  BY DEF Remembered
<1>1. CASE StartRun \/ NetworksRead \/ Restart \/ Submit
  BY <1>0, <1>1 DEF StartRun, NetworksRead, Restart, Submit
<1>2. CASE NetworksFail \/ EmitError \/ RunErr
  BY <1>0, <1>2 DEF NetworksFail, EmitError, RunErr, Abort
<1>3. CASE RunOk
  BY <1>3 DEF RunOk, SM!Return
<1>4. CASE PullPanics \/ Crash
  BY <1>4 DEF PullPanics, Crash, Down
<1>5. CASE PullPage \/ IndexChain \/ DenyStep \/ DenyFault \/ Mine \/ Lose
  BY <1>0, <1>5 DEF PullPage, IndexChain, DenyStep, DenyFault, Mine, Lose, Untouched, runVars
<1>6. CASE PullError \/ Emit \/ \E x \in page : PullCached(x) \/ PullUncached(x)
  BY <1>0, <1>6 DEF PullError, Emit, PullCached, PullUncached
<1>7. CASE \E i \in DOMAIN window : CheckPasses(i) \/ CheckFails(i) \/ CheckErrs(i)
  <2>1. cache' = cache
    BY <1>7 DEF CheckPasses, CheckFails, CheckErrs, Resolve
  <2> QED
    BY <1>0, <2>1
<1>8. CASE Tick \/ SetBack
  <2>1. PICK step \in {Older, Newer} : cache' = {Shifted(x, step) : x \in cache}
    BY <1>8 DEF Tick, SetBack, Passing
  <2>2. \A x \in cache : Shifted(x, step).id = x.id
    BY DEF Shifted, StampsNow, TypeInv, RunTypeOK
  <2> QED
    BY <2>1, <2>2 DEF Remembered
<1>9. CASE \E d \in Deployments : Turn(d) \/ Resignal(d)
  BY <1>0, <1>9 DEF Turn, Resignal, runVars
<1>10. CASE UNCHANGED vars
  BY <1>0, <1>10 DEF vars, runVars
<1> QED
  BY <1>1, <1>2, <1>3, <1>4, <1>5, <1>6, <1>7, <1>8, <1>9, <1>10
  DEF Next, Program, Environment

\* The deployments remembered as valid change only when a run's deny_many
\* returned Ok, or when the process goes down.
THEOREM AbortsKeepTheCache == Spec => AbortKeepsCache
<1>1. TypeInv /\ [Next]_vars => [Remembered' # Remembered => phase = "ok" \/ pc' = "down"]_vars
  BY CacheStep
<1> QED
  BY TypeInvariance, <1>1, PTL DEF Spec, AbortKeepsCache

-----------------------------------------------------------------------------
(* What is settled stays so.  Calm says the same as Settled, of sequences as  *)
(* a whole.                                                                   *)

Bad(d) == d \notin good

\* The entries that are not about d, and those that say of it what is the case.
Others(d)   == {s \in SM!Status : s.id # d}
Agreeing(d) == {s \in SM!Status : s.id = d => s.deny = Bad(d)}

\* The results that do not flip the flag of d.
CalmSlots(d) ==
  {s \in Slot : s.id = d => s.deny = Bad(d) /\ s.verdict # IF Bad(d) THEN "valid" ELSE "invalid"}

\* The stamps that do not make a bad deployment pass for valid.
Expired(d) == {e \in StampsNow : e.id = d /\ Bad(d) => e.age >= TTL}

Calm(d) ==
  /\ flags[d] = Bad(d) /\ indexed[d] = Bad(d)
  /\ \A x \in page : x.id = d => x.deny = Bad(d)
  /\ window \in Seq(CalmSlots(d))
  /\ flips \in Seq(Others(d))
  /\ todo \in Seq(Others(d))
  /\ mempool \in Seq(Seq(Agreeing(d)))
  /\ cache \subseteq Expired(d) /\ updated \subseteq Expired(d)

\* A sequence of which every element is in T is one over T.
LEMMA AllIn ==
  ASSUME NEW S, NEW T, NEW s \in Seq(S), \A i \in DOMAIN s : s[i] \in T
  PROVE  s \in Seq(T)
<1>1. DOMAIN s = 1..Len(s) /\ Len(s) \in Nat /\ s \in [1..Len(s) -> S]
  BY LenProperties
<1>2. s \in [1..Len(s) -> T]
  BY <1>1
<1> QED
  BY <1>1, <1>2, SeqDef

\* The elements of a sequence over T are in T.
LEMMA EachIn ==
  ASSUME NEW T, NEW s \in Seq(T), NEW i \in DOMAIN s
  PROVE  s[i] \in T
BY LenProperties, ElementOfSeq

\* Calm is Settled.
LEMMA CalmIsSettled ==
  ASSUME TypeInv, NEW d \in Deployments
  PROVE  Settled(d) <=> Calm(d)
<1>1. /\ window \in Seq(SlotsNow) /\ flips \in Seq(SM!Status) /\ todo \in Seq(SM!Status)
      /\ mempool \in Seq(Seq(SM!Status))
      /\ cache \subseteq StampsNow /\ updated \subseteq StampsNow
  BY DEF TypeInv, RunTypeOK, SM!SmTypeOK
<1>2. ASSUME Settled(d)
      PROVE  Calm(d)
  <2> DEFINE bad == d \notin good
  <2>1. /\ flags[d] = bad /\ indexed[d] = bad
        /\ \A x \in page : x.id = d => x.deny = bad
        /\ \A i \in DOMAIN window : window[i].id = d =>
             /\ window[i].deny = bad
             /\ window[i].verdict # IF bad THEN "valid" ELSE "invalid"
        /\ \A i \in DOMAIN flips : flips[i].id # d
        /\ \A i \in DOMAIN todo : todo[i].id # d
        /\ \A j \in DOMAIN mempool : \A i \in DOMAIN mempool[j] :
             mempool[j][i].id = d => mempool[j][i].deny = bad
        /\ \A e \in cache \cup updated : e.id = d /\ bad => e.age >= TTL
    BY <1>2 DEF Settled
  <2>2. bad = Bad(d)
    BY DEF Bad
  <2> HIDE DEF bad
  <2>3. window \in Seq(CalmSlots(d))
    <3>1. ASSUME NEW i \in DOMAIN window
          PROVE  window[i] \in CalmSlots(d)
      <4>1. window[i] \in Slot
        BY <1>1, EachIn DEF SlotsNow
      <4> QED
        BY <2>1, <2>2, <4>1, Zenon DEF CalmSlots
    <3> QED
      BY <1>1, <3>1, AllIn
  <2>4. flips \in Seq(Others(d))
    <3>1. \A i \in DOMAIN flips : flips[i] \in Others(d)
      BY <1>1, <2>1, EachIn DEF Others
    <3> QED
      BY <1>1, <3>1, AllIn
  <2>5. todo \in Seq(Others(d))
    <3>1. \A i \in DOMAIN todo : todo[i] \in Others(d)
      BY <1>1, <2>1, EachIn DEF Others
    <3> QED
      BY <1>1, <3>1, AllIn
  <2>6. mempool \in Seq(Seq(Agreeing(d)))
    <3>1. ASSUME NEW j \in DOMAIN mempool
          PROVE  mempool[j] \in Seq(Agreeing(d))
      <4>1. mempool[j] \in Seq(SM!Status)
        BY <1>1, EachIn
      <4>2. ASSUME NEW i \in DOMAIN mempool[j]
            PROVE  mempool[j][i] \in Agreeing(d)
        <5>1. mempool[j][i] \in SM!Status
          BY <4>1, EachIn
        <5> QED
          BY <2>1, <2>2, <5>1, Zenon DEF Agreeing
      <4> QED
        BY <4>1, <4>2, AllIn
    <3> QED
      BY <1>1, <3>1, AllIn
  <2>7. cache \subseteq Expired(d) /\ updated \subseteq Expired(d)
    BY <1>1, <2>1, <2>2, Zenon DEF Expired
  <2> QED
    BY <2>1, <2>2, <2>3, <2>4, <2>5, <2>6, <2>7, Zenon DEF Calm
<1>3. ASSUME Calm(d)
      PROVE  Settled(d)
  <2>1. \A i \in DOMAIN window : window[i] \in CalmSlots(d)
    BY <1>3, EachIn DEF Calm
  <2>2. \A i \in DOMAIN flips : flips[i] \in Others(d)
    BY <1>3, EachIn DEF Calm
  <2>3. \A i \in DOMAIN todo : todo[i] \in Others(d)
    BY <1>3, EachIn DEF Calm
  <2>4. \A j \in DOMAIN mempool : \A i \in DOMAIN mempool[j] : mempool[j][i] \in Agreeing(d)
    <3>1. \A j \in DOMAIN mempool : mempool[j] \in Seq(Agreeing(d))
      BY <1>3, EachIn DEF Calm
    <3> QED
      BY <3>1, EachIn
  <2>5. /\ \A i \in DOMAIN window : window[i].id = d =>
             /\ window[i].deny = Bad(d)
             /\ window[i].verdict # IF Bad(d) THEN "valid" ELSE "invalid"
        /\ \A i \in DOMAIN flips : flips[i].id # d
        /\ \A i \in DOMAIN todo : todo[i].id # d
        /\ \A j \in DOMAIN mempool : \A i \in DOMAIN mempool[j] :
             mempool[j][i].id = d => mempool[j][i].deny = Bad(d)
        /\ \A e \in cache \cup updated : e.id = d /\ Bad(d) => e.age >= TTL
    BY <1>3, <2>1, <2>2, <2>3, <2>4, Zenon DEF Calm, CalmSlots, Others, Agreeing, Expired
  <2> QED
    BY <1>3, <2>5, Zenon DEF Settled, Calm, Bad
<1> QED
  BY <1>2, <1>3

\* Only a fault changes what is the case, or makes a check err about it.
LEMMA NoFaultSameGood ==
  ASSUME TypeInv, [Next]_vars, faults' = faults
  PROVE  good' = good /\ ~Fault /\ AgesNow' = AgesNow /\ StampsNow' = StampsNow
<1>1. ~Fault
  BY DEF Fault, TypeInv, RunTypeOK
<1>2. good' = good
  <2>1. \A d \in Deployments : ~Turn(d) /\ ~Resignal(d)
    BY <1>1 DEF Turn, Resignal
  <2>2. ASSUME NEW i \in DOMAIN window, CheckPasses(i) \/ CheckFails(i) \/ CheckErrs(i)
        PROVE  good' = good
    BY <2>2 DEF CheckPasses, CheckFails, CheckErrs, Resolve
  <2>3. ASSUME NEW x \in page, PullCached(x) \/ PullUncached(x)
        PROVE  good' = good
    BY <2>3 DEF PullCached, PullUncached, envVars
  <2> QED
    BY <2>1, <2>2, <2>3
    DEF Next, Program, Environment, StartRun, NetworksRead, PullPage, PullPanics, Down, Emit,
        EmitError, Abort, Submit, DenyStep, Untouched, RunOk, RunErr, NetworksFail, PullError,
        DenyFault, Lose, Crash, SetBack, Passing, Tick, Mine, IndexChain, Restart, vars, envVars
<1>3. AgesNow' = AgesNow
  BY DEF AgesNow
<1> QED
  BY <1>1, <1>2, <1>3 DEF StampsNow

\* A run that is dropped leaves nothing that could unsettle.
LEMMA CalmCleared ==
  ASSUME NEW d \in Deployments, Calm(d), ClearRun, DS!StreamStart, good' = good,
         StampsNow' = StampsNow, flags' = flags, mempool' = mempool,
         todo' = todo \/ todo' = <<>>, cache' \subseteq cache \cup updated
  PROVE  Calm(d)'
<1>1. /\ Bad(d)' = Bad(d) /\ Others(d)' = Others(d) /\ Agreeing(d)' = Agreeing(d)
      /\ CalmSlots(d)' = CalmSlots(d) /\ Expired(d)' = Expired(d)
  BY DEF Bad, Others, Agreeing, CalmSlots, Expired
<1>2. window' \in Seq(CalmSlots(d)) /\ flips' \in Seq(Others(d)) /\ updated' \subseteq Expired(d)
  BY EmptySeq DEF ClearRun
<1>3. todo' \in Seq(Others(d))
  BY EmptySeq DEF Calm
<1>4. indexed' = indexed /\ page' = {}
  BY DEF DS!StreamStart
<1> QED
  BY <1>1, <1>2, <1>3, <1>4, Zenon DEF Calm

\* Every step that is not a fault keeps the calm.
LEMMA CalmStep ==
  ASSUME TypeInv, [Next]_vars, faults' = faults, NEW d \in Deployments, Calm(d)
  PROVE  Calm(d)'
<1>a. /\ good' = good /\ ~Fault /\ StampsNow' = StampsNow
      /\ Bad(d)' = Bad(d) /\ Others(d)' = Others(d) /\ Agreeing(d)' = Agreeing(d)
      /\ CalmSlots(d)' = CalmSlots(d) /\ Expired(d)' = Expired(d)
  BY NoFaultSameGood DEF Bad, Others, Agreeing, CalmSlots, Expired
<1>b. /\ window \in Seq(SlotsNow) /\ DOMAIN window = 1..Len(window) /\ Len(window) \in Nat
      /\ flips \in Seq(SM!Status)
      /\ flags \in [Deployments -> BOOLEAN] /\ indexed \in [Deployments -> BOOLEAN]
      /\ page \subseteq DS!Deployment /\ Bad(d) \in BOOLEAN
  BY LenProperties DEF TypeInv, RunTypeOK, SM!SmTypeOK, DS!DsTypeOK, Bad
<1>c. /\ flags[d] = Bad(d) /\ indexed[d] = Bad(d)
      /\ \A x \in page : x.id = d => x.deny = Bad(d)
      /\ window \in Seq(CalmSlots(d))
      /\ flips \in Seq(Others(d))
      /\ todo \in Seq(Others(d))
      /\ mempool \in Seq(Seq(Agreeing(d)))
      /\ cache \subseteq Expired(d) /\ updated \subseteq Expired(d)
  BY Zenon DEF Calm
\* What is left to show when some of the variables keep their values.
<1>d. ASSUME /\ flags'[d] = Bad(d) /\ indexed'[d] = Bad(d)
             /\ \A x \in page' : x.id = d => x.deny = Bad(d)
             /\ window' \in Seq(CalmSlots(d))
             /\ flips' \in Seq(Others(d))
             /\ todo' \in Seq(Others(d))
             /\ mempool' \in Seq(Seq(Agreeing(d)))
             /\ cache' \subseteq Expired(d) /\ updated' \subseteq Expired(d)
      PROVE  Calm(d)'
  BY <1>a, <1>d, Zenon DEF Calm
<1>1. CASE StartRun \/ Restart
  BY <1>1, <1>c, <1>d DEF StartRun, Restart, dsVars, smVars
<1>2. CASE NetworksRead
  BY <1>2, <1>c, <1>d DEF NetworksRead, DS!StreamStart, smVars
<1>3. CASE EmitError \/ RunErr \/ RunOk
  <2>1. /\ ClearRun /\ DS!StreamStart /\ cache' \subseteq cache \cup updated
        /\ UNCHANGED <<flags, mempool, todo>>
    BY <1>3 DEF EmitError, RunErr, RunOk, Abort, SM!Return, smVars
  <2> QED
    BY <1>a, <2>1, CalmCleared
<1>4. CASE PullPanics
  <2>1. /\ ClearRun /\ DS!StreamStart /\ cache' = {} /\ todo' = <<>>
        /\ UNCHANGED <<flags, mempool>>
    BY <1>4 DEF PullPanics, Down, SM!Forget
  <2> QED
    BY <1>a, <2>1, CalmCleared
<1>5. CASE NetworksFail \/ PullError \/ DenyFault \/ Lose \/ Crash \/ SetBack
  BY <1>5, <1>a DEF NetworksFail, PullError, DenyFault, Lose, Crash, SetBack
<1>6. ASSUME NEW e \in Deployments, Turn(e) \/ Resignal(e)
      PROVE  Calm(d)'
  BY <1>6, <1>a DEF Turn, Resignal
<1>7. CASE PullPage
  <2>1. \A x \in DS!PageAt(skip) : x.id = d => x.deny = indexed[d]
    BY DEF DS!PageAt
  <2>2. page' = page \/ page' = DS!PageAt(skip)
    BY <1>7 DEF PullPage, DS!FetchPage
  <2>3. \A x \in page' : x.id = d => x.deny = Bad(d)
    BY <1>c, <2>1, <2>2, Zenon
  <2>4. indexed' = indexed /\ UNCHANGED <<smVars, runVars>>
    BY <1>7 DEF PullPage, DS!FetchPage
  <2> QED
    BY <1>c, <1>d, <2>3, <2>4 DEF smVars, runVars
<1>8. CASE IndexChain
  BY <1>8, <1>c, <1>d DEF IndexChain, DS!Index, smVars, runVars
<1>9. ASSUME NEW x \in page, PullCached(x) \/ PullUncached(x)
      PROVE  Calm(d)'
  <2>1. /\ UNCHANGED <<smVars, cache, flips, updated, indexed>> /\ page' \subseteq page
    BY <1>9 DEF PullCached, PullUncached, DS!Take
  <2>2. x.id \in Deployments /\ x.deny \in BOOLEAN /\ AgesNow \subseteq Ages /\ 0 \in Ages
    BY AgesInAges DEF TypeInv, RunTypeOK, DS!DsTypeOK, DS!Deployment
  <2>3. \E s \in CalmSlots(d) : window' = Append(window, s)
    <3>1. CASE PullCached(x)
      <4>1. PICK e \in Hits(x.id) :
              window' = Append(window, [id |-> x.id, deny |-> x.deny,
                                        verdict |-> "valid", age |-> e.age])
        BY <3>1 DEF PullCached
      <4>2. e \in cache /\ e.id = x.id /\ e.age < TTL /\ e.age \in AgesNow /\ AgesNow \subseteq Int
        BY <4>1, AgesInAges DEF Hits, TypeInv, RunTypeOK, StampsNow
      <4>3. x.id = d => ~Bad(d)
        <5>1. x.id = d /\ Bad(d) => e.age >= TTL
          BY <1>c, <4>2 DEF Expired
        <5>2. ~(e.age >= TTL)
          <6> DEFINE age == e.age
          <6>1. age \in Int
            BY <4>2, Zenon
          <6>2. age < TTL
            BY <4>2
          <6> HIDE DEF age
          <6>3. ~(age >= TTL)
            BY <6>1, <6>2, ReconcileAssumption
          <6> QED
            BY <6>3 DEF age
        <5> QED
          BY <5>1, <5>2
      <4> DEFINE s == [id |-> x.id, deny |-> x.deny, verdict |-> "valid", age |-> e.age]
      <4>4. s \in Slot /\ s.id = x.id /\ s.deny = x.deny /\ s.verdict = "valid"
        BY <2>2, <4>2 DEF Slot
      <4> HIDE DEF s
      <4>5. s \in CalmSlots(d)
        BY <1>c, <4>3, <4>4 DEF CalmSlots
      <4> QED
        BY <4>1, <4>5 DEF s
    <3>2. CASE PullUncached(x)
      <4> DEFINE s == [id |-> x.id, deny |-> x.deny, verdict |-> "checking", age |-> 0]
      <4>1. window' = Append(window, s)
        BY <3>2 DEF PullUncached
      <4>2. s \in Slot /\ s.id = x.id /\ s.deny = x.deny /\ s.verdict = "checking"
        BY <2>2 DEF Slot
      <4> HIDE DEF s
      <4>3. s \in CalmSlots(d)
        BY <1>c, <4>2 DEF CalmSlots
      <4> QED
        BY <4>1, <4>3
    <3> QED
      BY <1>9, <3>1, <3>2
  <2>4. window' \in Seq(CalmSlots(d))
    BY <1>c, <2>3, AppendIn
  <2> QED
    BY <1>c, <1>d, <2>1, <2>4 DEF smVars
<1>10. ASSUME NEW i \in DOMAIN window, CheckPasses(i) \/ CheckFails(i) \/ CheckErrs(i)
      PROVE  Calm(d)'
  <2>1. PICK verdict \in {"valid", "invalid"} :
          /\ Resolve(i, verdict)
          /\ window[i].id = d => verdict # IF Bad(d) THEN "valid" ELSE "invalid"
    BY <1>10, <1>a DEF CheckPasses, CheckFails, CheckErrs, Bad
  <2> DEFINE s == [window[i] EXCEPT !.verdict = verdict, !.age = 0]
  <2>2. /\ window' = [window EXCEPT ![i] = s]
        /\ UNCHANGED <<dsVars, smVars, cache, flips, updated>>
    BY <2>1 DEF Resolve
  <2>3. window[i] \in CalmSlots(d) /\ window[i] \in Slot /\ 0 \in Ages
    BY <1>b, <1>c, ElementOfSeq, AgesInAges DEF TypeInv, RunTypeOK, CalmSlots
  <2>4. s \in Slot /\ s.verdict = verdict /\ s.id = window[i].id /\ s.deny = window[i].deny
    BY <2>3 DEF Slot
  <2> HIDE DEF s
  <2>5. s \in CalmSlots(d)
    BY <2>1, <2>3, <2>4, Zenon DEF CalmSlots
  <2>6. window' \in Seq(CalmSlots(d))
    BY <1>b, <1>c, <2>2, <2>5, ExceptSeq
  <2> QED
    BY <1>c, <1>d, <2>2, <2>6 DEF smVars, dsVars
<1>11. CASE Emit
  <2> DEFINE s == Head(window)
             shouldDeny == s.verdict = "invalid"
  <2>1. s \in CalmSlots(d) /\ s \in SlotsNow /\ Tail(window) \in Seq(CalmSlots(d))
    BY <1>b, <1>c, <1>11, HeadTailIn DEF Emit
  <2>2. s.id \in Deployments /\ s.verdict \in {"valid", "invalid"} /\ s.deny \in BOOLEAN
        /\ s.age \in AgesNow
    BY <1>11, <2>1 DEF Emit, Checked, SlotsNow, Slot
  <2>3. UNCHANGED <<dsVars, smVars, cache>> /\ window' = Tail(window)
    BY <1>11 DEF Emit
  <2>4. /\ s.id = d => s.deny = Bad(d)
        /\ s.id = d => s.verdict = IF Bad(d) THEN "invalid" ELSE "valid"
    BY <2>1, <2>2 DEF CalmSlots
  <2>5. flips' \in Seq(Others(d))
    <3>1. CASE s.deny = shouldDeny
      BY <1>11, <1>c, <3>1 DEF Emit
    <3>2. CASE s.deny # shouldDeny
      <4>1. s.id # d
        BY <1>b, <2>4, <3>2
      <4>2. [id |-> s.id, deny |-> shouldDeny] \in Others(d)
        BY <2>2, <4>1 DEF Others, SM!Status
      <4>3. flips' = Append(flips, [id |-> s.id, deny |-> shouldDeny])
        BY <1>11, <3>2 DEF Emit
      <4> QED
        BY <1>c, <4>2, <4>3, AppendIn
    <3> QED
      BY <3>1, <3>2
  <2>6. updated' \subseteq Expired(d)
    <3>1. CASE shouldDeny
      BY <1>11, <1>c, <3>1 DEF Emit
    <3>2. CASE ~shouldDeny
      <4>1. updated' = updated \cup {[id |-> s.id, age |-> s.age]}
        BY <1>11, <3>2 DEF Emit
      <4>2. [id |-> s.id, age |-> s.age] \in StampsNow
        BY <2>2 DEF StampsNow
      <4>3. ~(s.id = d /\ Bad(d))
        BY <2>4, <3>2
      <4>4. [id |-> s.id, age |-> s.age] \in Expired(d)
        BY <4>2, <4>3 DEF Expired
      <4> QED
        BY <1>c, <4>1, <4>4
    <3> QED
      BY <3>1, <3>2
  <2> QED
    BY <1>c, <1>d, <2>1, <2>3, <2>5, <2>6 DEF smVars, dsVars
<1>12. CASE Submit
  <2>1. /\ todo' = flips /\ flips' = <<>>
        /\ UNCHANGED <<mempool, flags, window, cache, updated, dsVars>>
    BY <1>12 DEF Submit, SM!DenyMany
  <2> QED
    BY <1>c, <1>d, <2>1, EmptySeq DEF dsVars
<1>13. CASE DenyStep
  <2>1. DenySteps /\ UNCHANGED <<dsVars, runVars, flags>>
    BY <1>13 DEF DenyStep, DenySteps, Untouched, SM!EstimateOk, SM!SendOk, SM!Confirmed
  <2>2. todo' \in Seq(Others(d))
    BY <1>c, <2>1, DenyStepsKeepTodo
  <2>3. mempool' \in Seq(Seq(Agreeing(d)))
    <3>1. Others(d) \subseteq Agreeing(d)
      BY DEF Others, Agreeing
    <3>2. todo \in Seq(Agreeing(d))
      BY <1>c, <3>1, SeqMonotonic
    <3> QED
      BY <1>c, <2>1, <3>2, DenyStepsIn
  <2> QED
    BY <1>c, <1>d, <2>1, <2>2, <2>3 DEF dsVars, runVars
<1>14. CASE Mine
  <2>1. mempool # <<>> /\ SM!Mine /\ UNCHANGED <<dsVars, runVars>>
    BY <1>14 DEF Mine, SM!Mine, Untouched
  <2>2. Head(mempool) \in Seq(Agreeing(d)) /\ Tail(mempool) \in Seq(Seq(Agreeing(d)))
    BY <1>c, <2>1, HeadTailIn
  <2>3. flags'[d] = Bad(d)
    <3> DEFINE tx == Head(mempool)
               j == CHOOSE k \in DOMAIN tx : SM!Decides(tx, k, d)
    <3>0. flags' = SM!Applied(tx)
      BY <2>1 DEF SM!Mine
    <3>1. CASE \E k \in DOMAIN tx : SM!Decides(tx, k, d)
      <4>1. j \in DOMAIN tx /\ SM!Decides(tx, j, d)
        BY <3>1
      <4>2. tx[j] \in Agreeing(d) /\ tx[j].id = d
        BY <2>2, <4>1, EachIn DEF SM!Decides
      <4>3. flags'[d] = tx[j].deny
        BY <3>0, <3>1 DEF SM!Applied
      <4> QED
        BY <4>2, <4>3 DEF Agreeing
    <3>2. CASE ~ \E k \in DOMAIN tx : SM!Decides(tx, k, d)
      <4>1. flags'[d] = flags[d]
        BY <3>0, <3>2 DEF SM!Applied
      <4> QED
        BY <1>c, <4>1
    <3> QED
      BY <3>1, <3>2
  <2>4. todo' = todo /\ mempool' = Tail(mempool)
    BY <2>1 DEF SM!Mine
  <2> QED
    BY <1>c, <1>d, <2>1, <2>2, <2>3, <2>4 DEF dsVars, runVars
<1>15. CASE Tick
  <2>1. Passing(Older)
    BY <1>15 DEF Tick
  <2>2. UNCHANGED <<dsVars, smVars, flips>>
    BY <2>1 DEF Passing
  <2>3. AgesNow \subseteq Ages /\ \A a \in AgesNow : a >= TTL => Older[a] >= TTL
    BY ReconcileAssumption, AgesInAges DEF Older, Ages, Oldest, TypeInv, RunTypeOK
  <2>4. ASSUME NEW X, X \subseteq Expired(d), {Shifted(x, Older) : x \in X} \subseteq StampsNow
        PROVE  {Shifted(x, Older) : x \in X} \subseteq Expired(d)
    <3> SUFFICES ASSUME NEW x \in X, x.id = d, Bad(d)
                 PROVE  Older[x.age] >= TTL
      BY <2>4 DEF Expired, StampsNow, Shifted
    <3> QED
      BY <2>3, <2>4 DEF Expired, StampsNow
  <2>5. cache' \subseteq Expired(d) /\ updated' \subseteq Expired(d)
    <3>1. cache' \subseteq StampsNow /\ updated' \subseteq StampsNow
      BY <1>a, RunTyped DEF RunTypeOK
    <3> QED
      BY <1>c, <2>1, <2>4, <3>1 DEF Passing
  <2>6. window' \in Seq(CalmSlots(d))
    <3>1. window' \in Seq(SlotsNow') /\ window' = [i \in DOMAIN window |-> window'[i]]
      BY <2>1, RunTyped DEF Passing, RunTypeOK
    <3>2. \A i \in DOMAIN window : window'[i] \in CalmSlots(d)
      <4> SUFFICES ASSUME NEW i \in DOMAIN window PROVE window'[i] \in CalmSlots(d)
        OBVIOUS
      <4>1. window[i] \in CalmSlots(d) /\ window[i] \in Slot
        BY <1>b, <1>c, ElementOfSeq DEF CalmSlots
      <4>2. window'[i] \in SlotsNow'
        BY <1>b, <3>1, ElementOfSeq, LenProperties
      <4>3. window'[i] \in Slot
        BY <4>2 DEF SlotsNow
      <4>4. /\ window'[i].id = window[i].id /\ window'[i].verdict = window[i].verdict
            /\ window'[i].deny = window[i].deny
        BY <2>1, <4>1 DEF Passing, ShiftedSlot, Shifted, Slot
      <4> QED
        BY <4>1, <4>3, <4>4, Zenon DEF CalmSlots
    <3> QED
      BY <1>c, <3>2, <3>1, MappedIn
  <2> QED
    BY <1>c, <1>d, <2>2, <2>5, <2>6 DEF dsVars, smVars
<1>16. CASE UNCHANGED vars
  BY <1>16, <1>c, <1>d DEF vars, dsVars, smVars, runVars
<1> QED
  BY <1>1, <1>2, <1>3, <1>4, <1>5, <1>6, <1>7, <1>8, <1>9, <1>10, <1>11, <1>12, <1>13, <1>14,
     <1>15, <1>16
  DEF Next, Program, Environment

\* Whatever the sizes, a deployment whose flag is right and about which nothing
\* stale is held anywhere keeps its flag until the next fault or change.
THEOREM SettledIsStable == Spec => SettledStays
<1>1. TypeInv => \A d \in Deployments : Settled(d) <=> Calm(d)
  BY CalmIsSettled
<1>2. (TypeInv => \A d \in Deployments : Settled(d) <=> Calm(d))'
  BY <1>1, PTL
<1>3. TypeInv /\ TypeInv' /\ [Next]_vars =>
        [faults' = faults => \A d \in Deployments : Settled(d) => Settled(d)']_vars
  <2> SUFFICES ASSUME TypeInv, TypeInv', [Next]_vars, faults' = faults,
                      NEW d \in Deployments, Settled(d)
               PROVE  Settled(d)'
    OBVIOUS
  <2>1. Calm(d)'
    BY <1>1, CalmStep
  <2> QED
    BY <1>2, <2>1
<1> QED
  BY TypeInvariance, <1>3, PTL DEF Spec, SettledStays

-----------------------------------------------------------------------------
(***************************************************************************)
(* Reconcile implements SequentialReconcile: the initial states map to     *)
(* initial states, and each action to one of the abstract loop or to a     *)
(* stuttering step.                                                        *)
(***************************************************************************)
(* Between two runs nothing is left of the last one, and deny_many waits     *)
(* only while it has something to wait for.                                  *)

TidyInv ==
  /\ pc \notin {"collect", "deny"} => flips = <<>> /\ updated = {} /\ failed = {}
  /\ phase \in {"estimate", "send", "confirm"} => todo # <<>>

\* Every step leaves the run tidy.
LEMMA TidyStep ==
  ASSUME TypeInv, IdleInv, TidyInv, [Next]_vars
  PROVE  TidyInv'
<1> USE DEF TidyInv
<1>1. CASE StartRun \/ Restart
  BY <1>1 DEF StartRun, Restart, smVars, histVars
<1>2. CASE NetworksRead
  BY <1>2 DEF NetworksRead, smVars
<1>3. CASE NetworksFail \/ EmitError
  BY <1>3 DEF NetworksFail, EmitError, Abort, ClearRun, smVars
<1>4. CASE PullPage \/ IndexChain
  BY <1>4 DEF PullPage, IndexChain, smVars, runVars, histVars
<1>5. CASE PullError \/ Emit \/ \E x \in page : PullCached(x) \/ PullUncached(x)
  BY <1>5 DEF PullError, Emit, PullCached, PullUncached, Room, smVars
<1>6. ASSUME NEW i \in DOMAIN window, CheckPasses(i) \/ CheckFails(i) \/ CheckErrs(i)
      PROVE  TidyInv'
  <2>1. pc = "collect" /\ UNCHANGED <<smVars, pc>>
    BY <1>6 DEF CheckPasses, CheckFails, CheckErrs, Resolve
  <2> QED
    BY <2>1 DEF smVars
<1>7. CASE Submit
  BY <1>7 DEF Submit, SM!DenyMany
<1>8. CASE DenyStep \/ DenyFault
  <2>1. DenySteps /\ UNCHANGED <<pc, flips, updated, failed>>
    BY <1>8 DEF DenyStep, DenyFault, DenySteps, Untouched, runVars, histVars
  <2>2. phase' \in {"estimate", "send", "confirm"} => todo' # <<>>
    BY <2>1 DEF DenySteps, SM!EstimateOk, SM!SendOk, SM!Confirmed, SM!EstimateFails,
                SM!ConfirmFails, SM!SendFails
  <2> QED
    BY <2>1, <2>2
<1>9. CASE Mine \/ Lose
  BY <1>9 DEF Mine, Lose, SM!Mine, SM!Lose, Untouched, runVars, histVars
<1>10. CASE RunOk \/ RunErr
  BY <1>10 DEF RunOk, RunErr, Abort, ClearRun, SM!Return
<1>11. CASE PullPanics \/ Crash
  BY <1>11 DEF PullPanics, Crash, Down, ClearRun, SM!Forget
<1>12. CASE Tick \/ SetBack
  BY <1>12 DEF Tick, SetBack, Passing, smVars
<1>13. CASE \E d \in Deployments : Turn(d) \/ Resignal(d)
  BY <1>13 DEF Turn, Resignal, smVars, runVars, histVars
<1>14. CASE UNCHANGED vars
  BY <1>14 DEF vars, smVars, runVars, histVars
<1> QED
  BY <1>1, <1>2, <1>3, <1>4, <1>5, <1>6, <1>7, <1>8, <1>9, <1>10, <1>11, <1>12, <1>13, <1>14
  DEF Next, Program, Environment

-----------------------------------------------------------------------------
(* The mapped variables                                                      *)

MappedUnchanged == UNCHANGED <<Stage, verdicts, failed, Noted, flips, Unsent, Remembered,
                               mempool, flags>>

\* What deny_many has left is a sequence of entries; the cut after n of them is
\* what is left when a chunk of n is handed in.
LEMMA UnsentTyped ==
  ASSUME TypeInv
  PROVE  /\ todo \in Seq(SM!Status)
         /\ Len(SM!Chunk) \in 0..Len(todo)
         /\ SM!Chunk = SubSeq(todo, 1, Len(SM!Chunk))
         /\ todo # <<>> => Len(SM!Chunk) \in 1..Len(todo)
<1> DEFINE n == IF Len(todo) < ChunkSize THEN Len(todo) ELSE ChunkSize
<1>0. todo \in Seq(SM!Status) /\ Len(todo) \in Nat
  BY LenProperties DEF TypeInv, SM!SmTypeOK
<1>1. n \in 0..Len(todo)
  BY <1>0, ReconcileAssumption
<1>2. \A i \in 1..n : todo[i] \in SM!Status
  BY <1>0, <1>1, ElementOfSeq
<1>3. Len(SM!Chunk) = n
  BY <1>0, <1>1, <1>2, SubSeqProperties DEF SM!Chunk
<1>4. todo # <<>> => Len(todo) # 0
  BY <1>0, EmptySeq
<1> QED
  BY <1>0, <1>1, <1>3, <1>4, ReconcileAssumption DEF SM!Chunk

\* The ids of stamped deployments do not depend on the stamps.
LEMMA PassingKeepsIds ==
  ASSUME TypeInv, NEW step, Passing(step)
  PROVE  Noted' = Noted /\ Remembered' = Remembered
<1>1. \A x \in cache \cup updated : Shifted(x, step).id = x.id
  BY DEF Shifted, StampsNow, TypeInv, RunTypeOK
<1>2. cache' = {Shifted(x, step) : x \in cache} /\ updated' = {Shifted(x, step) : x \in updated}
  BY DEF Passing
<1> QED
  BY <1>1, <1>2 DEF Noted, Remembered

\* The steps that the abstract loop does not see.
HiddenStep ==
  \/ StartRun \/ NetworksFail \/ PullPage \/ PullError
  \/ \E x \in page : PullCached(x) \/ PullUncached(x)
  \/ \E i \in DOMAIN window : CheckErrs(i)
  \/ DenyStep /\ ~SM!SendOk
  \/ Tick \/ SetBack \/ IndexChain
  \/ \E d \in Deployments : Turn(d) \/ Resignal(d)
  \/ UNCHANGED vars

\* A page, a cached hit, a gas estimate, a receipt, the clock and the subgraph
\* change nothing of what the abstract loop is about.
LEMMA HiddenStepsStutter ==
  ASSUME TypeInv, IdleInv, TidyInv, HiddenStep
  PROVE  MappedUnchanged
<1> USE DEF MappedUnchanged
<1>s. ASSUME UNCHANGED smVars
      PROVE  Unsent' = Unsent /\ mempool' = mempool /\ flags' = flags
  BY <1>s DEF smVars, Unsent, SM!Rest, SM!Chunk
<1>u. updated' = updated => Noted' = Noted
  BY DEF Noted
<1>c. cache' = cache => Remembered' = Remembered
  BY DEF Remembered
<1>1. CASE StartRun
  BY <1>1, <1>s, <1>u, <1>c DEF StartRun, Stage, histVars
<1>2. CASE NetworksFail
  <2>1. UNCHANGED <<smVars, verdicts, flips, failed, updated, cache>>
    BY <1>2 DEF NetworksFail, Abort, ClearRun, TidyInv
  <2>2. Stage' = Stage
    BY <1>2 DEF NetworksFail, Abort, Stage
  <2> QED
    BY <2>1, <2>2, <1>s, <1>u, <1>c
<1>3. CASE PullPage \/ IndexChain
  BY <1>3, <1>s, <1>u, <1>c DEF PullPage, IndexChain, runVars, histVars, Stage
<1>4. CASE PullError
  BY <1>4, <1>s, <1>u, <1>c DEF PullError, Stage
<1>5. CASE \E x \in page : PullCached(x) \/ PullUncached(x)
  BY <1>5, <1>s, <1>u, <1>c DEF PullCached, PullUncached, histVars, Stage
<1>6. CASE \E i \in DOMAIN window : CheckErrs(i)
  <2>1. UNCHANGED <<smVars, pc, verdicts, flips, failed, updated, cache>>
    BY <1>6 DEF CheckErrs, Resolve
  <2> QED
    BY <2>1, <1>s, <1>u, <1>c DEF Stage
<1>7. CASE DenyStep /\ ~SM!SendOk
  <2>1. UNCHANGED <<pc, verdicts, flips, failed, updated, cache>>
    BY <1>7 DEF DenyStep, Untouched, runVars, histVars
  <2>2. Unsent' = Unsent /\ mempool' = mempool /\ flags' = flags
    BY <1>7 DEF DenyStep, SM!EstimateOk, SM!Confirmed, Unsent
  <2> QED
    BY <2>1, <2>2, <1>u, <1>c DEF Stage
<1>8. CASE Tick \/ SetBack
  <2>1. PICK step \in {Older, Newer} : Passing(step)
    BY <1>8 DEF Tick, SetBack
  <2>2. UNCHANGED <<smVars, pc, verdicts, flips, failed>>
    BY <2>1 DEF Passing
  <2> QED
    BY <2>1, <2>2, <1>s, PassingKeepsIds DEF Stage
<1>9. CASE \E d \in Deployments : Turn(d) \/ Resignal(d)
  BY <1>9, <1>s, <1>u, <1>c DEF Turn, Resignal, runVars, histVars, Stage
<1>10. CASE UNCHANGED vars
  BY <1>10, <1>s, <1>u, <1>c DEF vars, runVars, histVars, Stage
<1> QED
  BY <1>1, <1>2, <1>3, <1>4, <1>5, <1>6, <1>7, <1>8, <1>9, <1>10 DEF HiddenStep

\* The other steps change it as one action of the abstract loop does.
LEMMA VisibleStepsMap ==
  ASSUME SafetyInv, TidyInv, [Next]_vars, ~HiddenStep
  PROVE  Sequential!Next
<1> USE DEF SafetyInv
<1>a. /\ window \in Seq(SlotsNow) /\ DOMAIN window = 1..Len(window) /\ Len(window) \in Nat
      /\ mempool \in Seq(Seq(SM!Status))
  BY LenProperties DEF TypeInv, RunTypeOK, SM!SmTypeOK
<1>b. ASSUME NEW i \in DOMAIN window, window[i].verdict # "error"
      PROVE  window[i].id \in Deployments
  BY <1>a, <1>b, ElementOfSeq DEF SlotsNow
<1>s. ASSUME UNCHANGED smVars
      PROVE  Unsent' = Unsent /\ mempool' = mempool /\ flags' = flags
  BY <1>s DEF smVars, Unsent, SM!Rest, SM!Chunk
<1>u. updated' = updated => Noted' = Noted
  BY DEF Noted
<1>c. cache' = cache => Remembered' = Remembered
  BY DEF Remembered
<1>e. ASSUME ClearRun, Unsent' = <<>>
      PROVE  Sequential!Forgotten
  BY <1>e DEF ClearRun, Sequential!Forgotten, Noted
<1>1. CASE NetworksRead
  <2>1. Sequential!Open
    BY <1>1, <1>s, <1>u, <1>c DEF NetworksRead, Sequential!Open, Stage, histVars
  <2> QED
    BY <2>1 DEF Sequential!Next
<1>2. CASE \E i \in DOMAIN window : CheckPasses(i) \/ CheckFails(i)
  <2>1. PICK i \in DOMAIN window : CheckPasses(i) \/ CheckFails(i)
    BY <1>2
  <2>2. pc = "collect" /\ window[i].verdict = "checking"
        /\ UNCHANGED <<smVars, pc, cache, flips, updated>>
    BY <2>1 DEF CheckPasses, CheckFails, Resolve
  <2>3. window[i].id \in Deployments
    BY <1>b, <2>2
  <2>4. CASE CheckPasses(i)
    <3>1. Sequential!Learn(window[i].id, FALSE)
      BY <2>2, <2>4, <1>s, <1>u, <1>c DEF CheckPasses, Sequential!Learn, Stage
    <3> QED
      BY <2>3, <3>1 DEF Sequential!Next
  <2>5. CASE CheckFails(i)
    <3>1. Sequential!Learn(window[i].id, TRUE)
      BY <2>2, <2>5, <1>s, <1>u, <1>c DEF CheckFails, Sequential!Learn, Stage
    <3> QED
      BY <2>3, <3>1 DEF Sequential!Next
  <2> QED
    BY <2>1, <2>4, <2>5
<1>3. CASE Emit
  <2> DEFINE s == Head(window)
             shouldDeny == s.verdict = "invalid"
  <2>1. window # <<>> /\ s = window[1] /\ 1 \in DOMAIN window /\ s \in SoundSlots
    BY <1>3, <1>a, HeadTailIn, EmptySeq DEF Emit, SoundInv
  <2>2. s.verdict \in {"valid", "invalid"} /\ s.id \in Deployments
    BY <1>3, <1>b, <2>1 DEF Emit, Checked
  <2>3. IF shouldDeny THEN s.id \in failed ELSE <<s.id, FALSE>> \in verdicts
    BY <2>1, <2>2 DEF SoundSlots
  <2>4. pc = "collect" /\ UNCHANGED <<smVars, pc, cache, failed, verdicts>>
    BY <1>3 DEF Emit, histVars
  <2>5. flips' \in {flips, Append(flips, [id |-> s.id, deny |-> shouldDeny])}
    BY <1>3 DEF Emit
  <2>6. Noted' = IF shouldDeny THEN Noted ELSE Noted \cup {s.id}
    <3>1. updated' = IF shouldDeny THEN updated ELSE updated \cup {[id |-> s.id, age |-> s.age]}
      BY <1>3 DEF Emit
    <3>2. CASE shouldDeny
      BY <3>1, <3>2, <1>u
    <3>3. CASE ~shouldDeny
      <4> DEFINE e == [id |-> s.id, age |-> s.age]
      <4>1. updated' = updated \cup {e} /\ e.id = s.id
        BY <3>1, <3>3
      <4> HIDE DEF e
      <4>2. Noted' = Noted \cup {e.id}
        BY <4>1 DEF Noted
      <4> QED
        BY <4>1, <4>2, <3>3
    <3> QED
      BY <3>2, <3>3
  <2>7. Sequential!Look(s.id, shouldDeny)
    BY <2>3, <2>4, <2>5, <2>6, <1>s, <1>c DEF Sequential!Look, Stage
  <2> QED
    BY <2>2, <2>7 DEF Sequential!Next
<1>4. CASE Submit
  <2>1. Unsent' = flips
    BY <1>4 DEF Submit, SM!DenyMany, Unsent
  <2>2. Sequential!Submit
    BY <1>4, <2>1, <1>u, <1>c DEF Submit, SM!DenyMany, Sequential!Submit, Stage, histVars
  <2> QED
    BY <2>2 DEF Sequential!Next
<1>5. CASE DenyStep /\ SM!SendOk
  <2> DEFINE n == Len(SM!Chunk)
  <2>1. phase = "send" /\ pc = "deny" /\ Unsent = todo /\ n \in 1..Len(Unsent)
    BY <1>5, UnsentTyped DEF SM!SendOk, IdleInv, TidyInv, Unsent
  <2>2. Unsent' = SubSeq(Unsent, n + 1, Len(Unsent))
    BY <1>5, <2>1 DEF SM!SendOk, Unsent, SM!Rest, SM!Chunk
  <2>3. mempool' \in {Append(mempool, SubSeq(Unsent, 1, n)), <<SubSeq(Unsent, 1, n)>>}
    BY <1>5, <2>1, UnsentTyped DEF SM!SendOk, SM!Accepting
  <2>4. UNCHANGED <<pc, cache, flips, updated, flags, verdicts, failed>>
    BY <1>5 DEF DenyStep, Untouched, runVars, histVars, SM!SendOk
  <2>5. Sequential!HandIn(n)
    BY <2>1, <2>2, <2>3, <2>4, <1>u, <1>c DEF Sequential!HandIn, Stage
  <2> QED
    BY <2>1, <2>5 DEF Sequential!Next
<1>6. CASE DenyFault
  <2> DEFINE n == Len(SM!Chunk)
  <2>1. pc = "deny" /\ UNCHANGED <<pc, cache, flips, updated, flags, verdicts, failed>>
    BY <1>6 DEF DenyFault, Untouched, runVars, histVars, IdleInv, SM!EstimateFails,
                SM!ConfirmFails, SM!SendFails
  <2>2. Unsent' = <<>>
    BY <1>6 DEF DenyFault, Unsent, SM!EstimateFails, SM!ConfirmFails, SM!SendFails
  <2>3. CASE mempool' = mempool
    <3>1. Sequential!GiveUp
      BY <2>1, <2>2, <2>3, <1>u, <1>c DEF Sequential!GiveUp, Stage
    <3> QED
      BY <3>1 DEF Sequential!Next
  <2>4. CASE mempool' # mempool
    <3>1. phase = "send" /\ mempool' \in SM!Accepting(SM!Chunk)
      BY <1>6, <2>4 DEF DenyFault, SM!EstimateFails, SM!ConfirmFails, SM!SendFails
    <3>2. Unsent = todo /\ n \in 1..Len(Unsent)
      BY <3>1, UnsentTyped DEF TidyInv, Unsent
    <3>3. mempool' \in {Append(mempool, SubSeq(Unsent, 1, n)), <<SubSeq(Unsent, 1, n)>>}
      BY <3>1, <3>2, UnsentTyped DEF SM!Accepting
    <3>4. Sequential!HandIn(n)
      BY <2>1, <2>2, <3>3, <1>u, <1>c DEF Sequential!HandIn, Stage
    <3> QED
      BY <3>2, <3>4 DEF Sequential!Next
  <2> QED
    BY <2>3, <2>4
<1>7. CASE RunOk
  <2>1. pc = "deny" /\ phase = "ok" /\ Unsent = <<>> /\ Unsent' = <<>>
    BY <1>7 DEF RunOk, SM!Return, IdleInv, Unsent
  <2>2. Sequential!Forgotten
    BY <1>7, <2>1, <1>e DEF RunOk
  <2>3. Remembered' = Noted
    BY <1>7 DEF RunOk, Remembered, Noted
  <2>4. Sequential!Finish
    BY <1>7, <2>1, <2>2, <2>3 DEF RunOk, SM!Return, Sequential!Finish, Stage
  <2> QED
    BY <2>4 DEF Sequential!Next
<1>8. CASE EmitError \/ RunErr
  <2>1. pc \in {"collect", "deny"} /\ Abort /\ UNCHANGED <<mempool, flags>> /\ Unsent' = <<>>
    BY <1>8 DEF EmitError, RunErr, SM!Return, IdleInv, Unsent, smVars
  <2>2. Sequential!Forgotten
    BY <2>1, <1>e DEF Abort
  <2>3. Sequential!Abandon
    BY <2>1, <2>2, <1>c DEF Abort, Sequential!Abandon, Stage
  <2> QED
    BY <2>3 DEF Sequential!Next
<1>9. CASE PullPanics \/ Crash
  <2>1. pc \in PcValues /\ pc # "down" /\ Down
    BY <1>9 DEF PullPanics, Crash, Room, TypeInv, RunTypeOK
  <2>2. Unsent' = <<>> /\ Remembered' = {} /\ UNCHANGED <<mempool, flags>>
    BY <2>1 DEF Down, SM!Forget, Unsent, Remembered
  <2>3. Sequential!Forgotten
    BY <2>1, <2>2, <1>e DEF Down
  <2>4. Sequential!Stop
    BY <2>1, <2>2, <2>3 DEF Down, Sequential!Stop, Stage, PcValues
  <2> QED
    BY <2>4 DEF Sequential!Next
<1>10. CASE Restart
  <2>1. Sequential!Resume
    BY <1>10, <1>s, <1>u, <1>c DEF Restart, Sequential!Resume, Stage, histVars
  <2> QED
    BY <2>1 DEF Sequential!Next
<1>11. CASE Lose
  <2>1. mempool # <<>> /\ mempool' = Tail(mempool) /\ Unsent' = Unsent
        /\ UNCHANGED <<pc, cache, flips, updated, flags, verdicts, failed>>
    BY <1>11 DEF Lose, SM!Lose, Untouched, runVars, histVars, Unsent, SM!Rest, SM!Chunk
  <2>2. Sequential!Drop
    BY <2>1, <1>u, <1>c DEF Sequential!Drop, Stage
  <2> QED
    BY <2>2 DEF Sequential!Next
<1>12. CASE Mine
  <2> DEFINE tx == Head(mempool)
             new == [d \in Deployments |->
                       IF \E j \in DOMAIN tx : SM!Decides(tx, j, d)
                       THEN tx[CHOOSE j \in DOMAIN tx : SM!Decides(tx, j, d)].deny
                       ELSE flags[d]]
  <2>1. mempool # <<>> /\ mempool' = Tail(mempool) /\ Unsent' = Unsent /\ flags' = new
        /\ UNCHANGED <<pc, cache, flips, updated, verdicts, failed>>
    BY <1>12 DEF Mine, SM!Mine, SM!Applied, Untouched, runVars, histVars, Unsent, SM!Rest, SM!Chunk
  <2>2. flags' \in [Deployments -> BOOLEAN]
    BY <1>12, SmTyped DEF Mine, SmStep, SM!SmTypeOK
  <2>3. ASSUME NEW d \in Deployments
        PROVE  \/ \E j \in DOMAIN tx : SM!Decides(tx, j, d) /\ flags'[d] = tx[j].deny
               \/ flags'[d] = flags[d] /\ \A j \in DOMAIN tx : ~SM!Decides(tx, j, d)
    BY <2>1
  <2>4. Sequential!Land
    BY <2>1, <2>2, <2>3, <1>u, <1>c DEF Sequential!Land, Stage, SM!Decides
  <2> QED
    BY <2>4 DEF Sequential!Next
<1> QED
  BY <1>1, <1>2, <1>3, <1>4, <1>5, <1>6, <1>7, <1>8, <1>9, <1>10, <1>11, <1>12
  DEF Next, Program, Environment, HiddenStep

-----------------------------------------------------------------------------

\* The specification keeps the run tidy.
LEMMA TidyInvariance == Spec => []TidyInv
<1>1. Init => TidyInv
  BY DEF Init, TidyInv
<1>2. SafetyInv /\ TidyInv /\ [Next]_vars => TidyInv'
  BY TidyStep DEF SafetyInv
<1> QED
  BY SafetyInvariance, <1>1, <1>2, PTL DEF Spec

\* The pipeline with its pages, its buffer of checks, its cache, its chunks and
\* its awaits does what the plain loop over the deployments does: every
\* behaviour of it is one of the abstract specification.
THEOREM RefinesSequential == Spec => ImplementsSequential
<1>1. Init => Sequential!Init
  BY DEF Init, Sequential!Init, Stage, Noted, Unsent, Remembered
<1>2. SafetyInv /\ TidyInv /\ [Next]_vars => [Sequential!Next]_(Sequential!vars)
  <2> SUFFICES ASSUME SafetyInv, TidyInv, [Next]_vars
               PROVE  Sequential!Next \/ UNCHANGED Sequential!vars
    OBVIOUS
  <2>1. CASE HiddenStep
    <3>1. MappedUnchanged
      BY <2>1, HiddenStepsStutter DEF SafetyInv
    <3> QED
      BY <3>1 DEF MappedUnchanged, Sequential!vars
  <2>2. CASE ~HiddenStep
    BY <2>2, VisibleStepsMap
  <2> QED
    BY <2>1, <2>2
<1> QED
  BY SafetyInvariance, TidyInvariance, <1>1, <1>2, PTL DEF Spec, ImplementsSequential, Sequential!Spec

=============================================================================
