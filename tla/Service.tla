------------------------------- MODULE Service -------------------------------
(***************************************************************************)
(* The process around the reconciliation (availability-oracle/src/main.rs, *)
(* crates/common/src/lib.rs): it parses its configuration, makes the state *)
(* manager that the configuration asks for, and runs once, or for ever at  *)
(* the ticks of an interval.  A run is one step that begins and one that   *)
(* ends, Ok or Err; Reconcile models what is in between.                   *)
(*                                                                         *)
(* The deadline of the interval is kept relative to the clock: `due' is    *)
(* the time until it, negative when it has passed.                         *)
(***************************************************************************)
EXTENDS Integers

CONSTANTS
  Period,     \* ORACLE_PERIOD_SECS, if not 0, in units of the clock
  MaxFaults   \* bound: failures of the platform and the RPC node in a behaviour

ASSUME ServiceAssumption ==
  /\ Period \in Nat \ {0}
  /\ MaxFaults \in Nat

VARIABLES
  config,   \* what the command line and the environment say
  pc,       \* where the main task stands
  manager,  \* the StateManager in use
  exit,     \* how the process ended
  due,      \* time until the interval's deadline
  last,     \* time since the last start of a run of this process
  second,   \* time since the start before that
  rpcUp,    \* the node at RPC_URL answers
  faults    \* failures so far

vars == <<config, pc, manager, exit, due, last, second, rpcUp, faults>>

\* `manager_address' and `index' are of the SubgraphAvailabilityManager, `rewards'
\* is the rewards manager's address.
Config == [periodic : BOOLEAN, dry_run : BOOLEAN,
           signing_key : {"missing", "malformed", "good"},
           manager_address : BOOLEAN, index : BOOLEAN, rewards : BOOLEAN]

Fault == faults < MaxFaults /\ faults' = faults + 1

\* Nothing depends on how much longer than two periods ago something was; a
\* deadline missed by more keeps its distance from the grid of the ticks.
Longest == 2 * Period
Older(age) == IF age < Longest THEN age + 1 ELSE age
Sooner(time) == IF time > 0 - Longest THEN time - 1 ELSE time - 1 + Period

-----------------------------------------------------------------------------
(* The start *)

Exit(how) ==
  /\ pc' = "exited"
  /\ exit' = how
  /\ manager' = "none"
  /\ UNCHANGED <<config, due, last, second, rpcUp>>

\* The signing key is required unless it is a dry run.
ParseArgs ==
  /\ pc = "parse"
  /\ UNCHANGED faults
  /\ IF config.signing_key = "missing" /\ ~config.dry_run
     THEN Exit("usage")
     ELSE /\ pc' = "manager"
          /\ UNCHANGED <<config, manager, exit, due, last, second, rpcUp>>

\* Mutant of Selected: the second branch is missing.
SelectedVoting == IF config.manager_address /\ config.index THEN "voting" ELSE "none"

\* The manager that state_manager() chooses: an address of the availability
\* manager rules the rewards manager out, with or without an index.
Selected ==
  IF config.manager_address THEN IF config.index THEN "voting" ELSE "none"
  ELSE IF config.rewards THEN "rewards" ELSE "none"

\* The state manager is there; the interval begins, its first tick at once.
Made(which) ==
  /\ manager' = which
  /\ pc' = IF config.periodic THEN "wait" ELSE "run"
  /\ due' = 0
  /\ last' = Longest /\ second' = Longest
  /\ UNCHANGED <<config, exit, rpcUp>>

DryRun ==
  /\ pc = "manager"
  /\ config.dry_run
  /\ Made("dry_run")
  /\ UNCHANGED faults

\* parse()? of the key returns the error of run(); the expect() on the choice and
\* the unwrap() on the node's chain id panic.
ManagerFails ==
  /\ pc = "manager"
  /\ ~config.dry_run
  /\ \/ config.signing_key = "malformed" /\ Exit("error")
     \/ config.signing_key = "good" /\ Selected = "none" /\ Exit("unconfigured")
     \/ config.signing_key = "good" /\ Selected # "none" /\ ~rpcUp /\ Exit("panic")
  /\ UNCHANGED faults

MakeManager ==
  /\ pc = "manager"
  /\ ~config.dry_run
  /\ config.signing_key = "good"
  /\ Selected # "none"
  /\ rpcUp
  /\ Made(Selected)
  /\ UNCHANGED faults

-----------------------------------------------------------------------------
(* Runs *)

\* Mutant of NextDue: without set_missed_tick_behavior the default is Burst.
NextDueBurst == due + Period

\* MissedTickBehavior::Skip: the next point of the grid after now.
NextDue == Period - ((0 - due) % Period)

\* interval.tick() completes.
StartRun ==
  /\ pc = "wait"
  /\ due <= 0
  /\ pc' = "run"
  /\ due' = NextDue
  /\ last' = 0 /\ second' = last
  /\ UNCHANGED <<config, manager, exit, rpcUp, faults>>

RunOk ==
  /\ pc = "run"
  /\ UNCHANGED faults
  /\ IF config.periodic
     THEN pc' = "wait" /\ UNCHANGED <<config, manager, exit, due, last, second, rpcUp>>
     ELSE Exit("ok")

\* Mutant of RunErr: an error ends the service in both modes.
RunErrEnds ==
  /\ pc = "run"
  /\ UNCHANGED faults
  /\ Exit("error")

\* Mutant of RunErr: the single run is tried again.
RunErrAgain ==
  /\ pc = "run"
  /\ pc' = "wait"
  /\ UNCHANGED <<config, manager, exit, due, last, second, rpcUp, faults>>

\* An error of a run is logged in the loop, and returned by the single run.
RunErr ==
  /\ pc = "run"
  /\ UNCHANGED faults
  /\ IF config.periodic
     THEN pc' = "wait" /\ UNCHANGED <<config, manager, exit, due, last, second, rpcUp>>
     ELSE Exit("error")

\* A panic in the main task, or the platform stops it.
Crash ==
  /\ pc # "exited"
  /\ Fault
  /\ Exit("panic")

-----------------------------------------------------------------------------
(* The environment *)

\* A service that is to run for ever is started again whenever it ends.
Restart ==
  /\ pc = "exited"
  /\ config.periodic
  /\ pc' = "parse"
  /\ exit' = "none"
  /\ UNCHANGED <<config, manager, due, last, second, rpcUp, faults>>

RpcFails == rpcUp /\ Fault /\ rpcUp' = FALSE /\ UNCHANGED <<config, pc, manager, exit, due, last, second>>

RpcRecovers == ~rpcUp /\ rpcUp' = TRUE /\ UNCHANGED <<config, pc, manager, exit, due, last, second, faults>>

Pass ==
  /\ pc \in {"wait", "run"}
  /\ config.periodic
  /\ due' = Sooner(due)
  /\ last' = Older(last) /\ second' = Older(second)
  /\ UNCHANGED <<config, pc, manager, exit, rpcUp, faults>>

-----------------------------------------------------------------------------

Init ==
  /\ config \in Config
  /\ pc = "parse"
  /\ manager = "none"
  /\ exit = "none"
  /\ due = 0 /\ last = Longest /\ second = Longest
  /\ rpcUp \in BOOLEAN
  /\ faults = 0

Program == ParseArgs \/ DryRun \/ ManagerFails \/ MakeManager \/ StartRun \/ RunOk \/ RunErr

Next == Program \/ Crash \/ Restart \/ RpcFails \/ RpcRecovers \/ Pass

\* The task is polled and its runs end, time passes, the platform keeps the service
\* up and the node comes back.
Fairness ==
  /\ WF_vars(Program)
  /\ WF_vars(Restart)
  /\ WF_vars(RpcRecovers)
  /\ WF_vars(Pass)

Spec == Init /\ [][Next]_vars /\ Fairness

-----------------------------------------------------------------------------
(* Properties *)

TypeOK ==
  /\ config \in Config
  /\ pc \in {"parse", "manager", "wait", "run", "exited"}
  /\ manager \in {"none", "dry_run", "voting", "rewards"}
  /\ exit \in {"none", "usage", "error", "unconfigured", "panic", "ok"}
  /\ due \in (0 - Longest)..Period
  /\ last \in 0..Longest /\ second \in 0..Longest
  /\ rpcUp \in BOOLEAN
  /\ faults \in 0..MaxFaults

\* A run that takes long does not make several others follow at once: from a start
\* to the next but one there is more than a period, however late runs and ticks are
\* (main.rs:188).  Runs in a burst would submit again what the subgraph does not
\* show yet.
NoBurst == [][pc = "wait" /\ pc' = "run" => second > Period]_vars

\* Only a failure of its own ends a periodic service that has come to its loop; no
\* run does that ends with an error (main.rs:222-225), and so no such run costs the
\* cache of valid deployments.
OnlyFaultsEndTheLoop ==
  [][config.periodic /\ pc \in {"wait", "run"} /\ pc' = "exited" => faults' > faults]_vars

\* The one case in which the rewards manager's address does not suffice, although
\* main.rs:181 and 260 say it does: the availability manager's address is looked at
\* first, and its index is missing (main.rs:270-287).
Overlooked == config.rewards /\ config.manager_address /\ ~config.index

\* The configurations that start, sooner or later: those that main.rs:181 asks for, with
\* a key to sign with, but for the one overlooked.
Complete ==
  \/ config.dry_run
  \/ /\ config.signing_key = "good"
     /\ config.rewards \/ (config.manager_address /\ config.index)
     /\ ~Overlooked

\* With such a configuration and a period, runs go on for ever: a node that is down
\* when the state manager is made (contract.rs:45, 77) ends that attempt and not the
\* service, a late tick makes no tick the last, a dry run needs no node and no key.
KeepsRunning == config.periodic /\ Complete => []<>(pc = "run")

\* Without a period the process ends for good, whatever is configured and whatever
\* comes of the run (main.rs:239-251).
RunsOnce == ~config.periodic => <>[](pc = "exited")

=============================================================================
