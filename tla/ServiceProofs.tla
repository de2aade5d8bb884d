---------------------------- MODULE ServiceProofs ----------------------------
(***************************************************************************)
(* Theorems about Service, for every period and any number of failures.    *)
(***************************************************************************)
EXTENDS Service, TLAPS

\* The next deadline is after now, within a period: what is left of the period in
\* which the deadline was missed.
LEMMA NextDueWithinPeriod ==
  ASSUME due \in Int, due <= 0
  PROVE  /\ NextDue \in 1..Period
         /\ NextDue + (0 - due) >= Period
<1> DEFINE late == 0 - due
           rest == late % Period
<1>1. late \in Nat /\ Period \in Nat /\ Period > 0
  BY ServiceAssumption
<1>2. rest \in 0..(Period - 1)
  BY <1>1
<1>3. rest <= late
  <2>1. late = Period * (late \div Period) + rest /\ late \div Period \in Nat
    BY <1>1
  <2>2. Period * (late \div Period) >= 0
    BY <1>1, <2>1
  <2> HIDE DEF rest
  <2>3. Period * (late \div Period) \in Int
    BY <1>1, <2>1
  <2> QED
    BY <1>1, <1>2, <2>1, <2>2, <2>3
<1>4. NextDue = Period - rest
  BY DEF NextDue
<1> HIDE DEF rest
<1> QED
  BY <1>1, <1>2, <1>3, <1>4

-----------------------------------------------------------------------------

\* Types are inductive: a deadline that was missed by more than two periods keeps its
\* distance from the grid.
THEOREM ServiceTypeCorrect == Spec => []TypeOK
<1> USE ServiceAssumption
<1>1. Init => TypeOK
  BY DEF Init, TypeOK, Longest
<1>2. TypeOK /\ [Next]_vars => TypeOK'
  <2> SUFFICES ASSUME TypeOK, [Next]_vars PROVE TypeOK'
    OBVIOUS
  <2> USE DEF TypeOK
  <2>1. CASE ParseArgs
    BY <2>1 DEF ParseArgs, Exit
  <2>2. CASE DryRun \/ MakeManager
    BY <2>2 DEF DryRun, MakeManager, Made, Selected, Longest
  <2>3. CASE ManagerFails
    BY <2>3 DEF ManagerFails, Exit
  <2>4. CASE StartRun
    BY <2>4, NextDueWithinPeriod DEF StartRun, Longest
  <2>5. CASE RunOk \/ RunErr
    BY <2>5 DEF RunOk, RunErr, Exit
  <2>6. CASE Crash
    BY <2>6 DEF Crash, Fault, Exit
  <2>7. CASE Restart \/ RpcRecovers
    BY <2>7 DEF Restart, RpcRecovers
  <2>8. CASE RpcFails
    <3>1. rpcUp' \in BOOLEAN /\ UNCHANGED <<config, pc, manager, exit, due, last, second>>
      BY <2>8, Zenon DEF RpcFails
    <3>2. faults' \in 0..MaxFaults
      BY <2>8 DEF RpcFails, Fault
    <3> QED
      BY <3>1, <3>2
  <2>9. CASE Pass
    BY <2>9 DEF Pass, Older, Sooner, Longest
  <2>10. CASE UNCHANGED vars
    BY <2>10 DEF vars
  <2> QED
    BY <2>1, <2>2, <2>3, <2>4, <2>5, <2>6, <2>7, <2>8, <2>9, <2>10 DEF Next, Program
<1> QED
  BY <1>1, <1>2, PTL DEF Spec

-----------------------------------------------------------------------------

\* What the deadline owes to the starts: it is after the last one, and more than a
\* period after the one before, unless they are too long ago to be told.
Spaced ==
  /\ last = Longest \/ last + due >= 1
  /\ second = Longest \/ second + due > Period

\* Starting a run makes the last start the one before it: its distance from the new
\* deadline is a period at least, and the time from it to the old deadline.
LEMMA SpacedStep ==
  ASSUME TypeOK, Spaced, [Next]_vars
  PROVE  Spaced'
<1> USE ServiceAssumption DEF TypeOK, Spaced
<1>1. CASE StartRun
  <2>1. due <= 0 /\ due' = NextDue /\ last' = 0 /\ second' = last
    BY <1>1 DEF StartRun
  <2>2. NextDue \in 1..Period /\ NextDue + (0 - due) >= Period
    BY <2>1, NextDueWithinPeriod
  <2> QED
    BY <2>1, <2>2 DEF Longest
<1>2. CASE Pass
  <2>1. due' >= due - 1 /\ due' \in Int
    BY <1>2 DEF Pass, Sooner, Longest
  <2>2. last' = Longest \/ last' = last + 1
    BY <1>2 DEF Pass, Older, Longest
  <2>3. second' = Longest \/ second' = second + 1
    BY <1>2 DEF Pass, Older, Longest
  <2>4. last = Longest => last' = Longest
    BY <1>2 DEF Pass, Older, Longest
  <2>5. second = Longest => second' = Longest
    BY <1>2 DEF Pass, Older, Longest
  <2> QED
    BY <2>1, <2>2, <2>3, <2>4, <2>5 DEF Longest
<1>3. CASE DryRun \/ MakeManager
  BY <1>3 DEF DryRun, MakeManager, Made
<1>4. CASE ~(StartRun \/ Pass \/ DryRun \/ MakeManager)
  <2>1. UNCHANGED <<due, last, second>>
    BY <1>4 DEF Next, Program, ParseArgs, ManagerFails, RunOk, RunErr, Exit, Crash, Restart,
                RpcFails, RpcRecovers, vars
  <2> QED
    BY <2>1
<1> QED
  BY <1>1, <1>2, <1>3, <1>4

\* For every period: however long runs take and however late ticks come, between a
\* start and the next but one there is more than a period.
THEOREM NeverABurst == Spec => NoBurst
<1>1. Init => Spaced
  BY DEF Init, Spaced
<1>2. TypeOK /\ Spaced /\ [Next]_vars => Spaced'
  BY SpacedStep
<1>3. TypeOK /\ Spaced /\ [Next]_vars => [pc = "wait" /\ pc' = "run" => second > Period]_vars
  <2> SUFFICES ASSUME TypeOK, Spaced, Next, pc = "wait", pc' = "run"
               PROVE  second > Period
    OBVIOUS
  <2>1. due <= 0
    BY DEF Next, Program, ParseArgs, DryRun, ManagerFails, MakeManager, StartRun, RunOk, RunErr,
           Exit, Crash, Restart, RpcFails, RpcRecovers, Pass
  <2> QED
    BY <2>1, ServiceAssumption DEF TypeOK, Spaced, Longest
<1> QED
  BY ServiceTypeCorrect, <1>1, <1>2, <1>3, PTL DEF Spec, NoBurst

-----------------------------------------------------------------------------

\* A periodic service that has come to its loop leaves it by a failure of its own
\* only, never by the result of a run.
THEOREM LoopEndsByFaultOnly == Spec => OnlyFaultsEndTheLoop
<1>1. TypeOK /\ [Next]_vars =>
        [config.periodic /\ pc \in {"wait", "run"} /\ pc' = "exited" => faults' > faults]_vars
  <2> SUFFICES ASSUME TypeOK, Next, config.periodic, pc \in {"wait", "run"}, pc' = "exited"
               PROVE  faults' > faults
    OBVIOUS
  <2>1. Crash
    BY DEF Next, Program, ParseArgs, DryRun, ManagerFails, MakeManager, StartRun, RunOk, RunErr,
           Restart, RpcFails, RpcRecovers, Pass
  <2> QED
    BY <2>1, ServiceAssumption DEF Crash, Fault, TypeOK
<1> QED
  BY ServiceTypeCorrect, <1>1, PTL DEF Spec, OnlyFaultsEndTheLoop

=============================================================================
