------------------------------ MODULE Reconcile ------------------------------
(***************************************************************************)
(* The main loop of availability-oracle/src/main.rs in its periodic mode:  *)
(* at every tick run() calls reconcile_deny_list, which reads the          *)
(* deployments from the network subgraph, checks up to `Buffer' of them at *)
(* a time, collects the results in stream order, submits the deny flags    *)
(* that changed and returns the new valid_deployment_cache.                *)
(*                                                                         *)
(* The module composes DeploymentStream (where the deployments come from)  *)
(* and StateManager (where the flags go).  check() is one asynchronous     *)
(* call with three outcomes: Ok, CheckError::Invalid, CheckError::Other.   *)
(*                                                                         *)
(* A point in time t is kept as its age, now - t, which is what            *)
(* SystemTime::elapsed computes: it grows with the clock, and is negative  *)
(* when the clock was set back behind t.                                   *)
(***************************************************************************)
EXTENDS Integers, Sequences, FiniteSets

CONSTANTS
  Deployments,  \* the deployment ids
  PageSize,     \* deployments per page query (1000)
  Buffer,       \* checks in flight: .buffered(100)
  ChunkSize,    \* entries per transaction (100)
  TTL,          \* VALID_DEPLOYMENT_CACHE_TTL, in clock ticks
  MaxFaults     \* bound: faults and changes of the environment in a behaviour

VARIABLES
  \* of DeploymentStream and StateManager
  listed, indexed, skip, page, ended,
  todo, phase, mempool, flags,
  \* of run() and reconcile_deny_list
  pc,       \* where the main task stands
  cache,    \* valid_deployment_cache
  window,   \* the futures in .buffered(), in stream order
  flips,    \* of deployment_status so far: the entries whose status changed
  updated,  \* of deployment_status so far: the valid ones
  \* the environment
  good,     \* the deployments that check() would find available and valid
  faults,   \* faults and changes of the environment so far
  \* history
  lastPass, \* age of the latest timestamp a check of d that returned Ok got
  failed,   \* the deployments whose check returned Invalid in this run
  erred,    \* some item of this run's stream was an error
  verdicts  \* <<d, deny>>: d's check said so once, or the denylist did at first

ASSUME ReconcileAssumption ==
  /\ Deployments \in SUBSET Nat
  /\ IsFiniteSet(Deployments)
  /\ PageSize \in Nat \ {0}
  /\ Buffer \in Nat \ {0}
  /\ ChunkSize \in Nat \ {0}
  /\ TTL \in Nat \ {0}
  /\ MaxFaults \in Nat

DS == INSTANCE DeploymentStream
SM == INSTANCE StateManager

dsVars   == <<listed, indexed, skip, page, ended>>
smVars   == <<todo, phase, mempool, flags>>
runVars  == <<pc, cache, window, flips, updated>>
envVars  == <<good, faults>>
histVars == <<lastPass, failed, erred, verdicts>>
vars     == <<dsVars, smVars, runVars, envVars, histVars>>

-----------------------------------------------------------------------------

\* Ages stop growing at Oldest.  As the clock is set back at most MaxFaults
\* times, by one tick each, an age that stopped there is never below TTL again.
Oldest == TTL + MaxFaults
Ages   == (0 - MaxFaults)..Oldest

\* What a tick of the clock does to an age, and what setting it back does.
Older == [a \in Ages |-> IF a < Oldest THEN a + 1 ELSE a]
Newer == [a \in Ages |-> a - 1]

Stamped == [id : Deployments, age : Ages]

NoDeployment == 0 - 1

\* A future of the buffer.  `deny' and `id' are the deployment's; an item that
\* is an error of the stream itself has no deployment.
Slot == [id : Deployments \cup {NoDeployment}, deny : BOOLEAN,
         verdict : {"checking", "valid", "invalid", "error"}, age : Ages]

PcValues == {"idle", "networks", "collect", "deny", "down"}

\* Every timestamp moves as `step' says.  Only the timestamp of a valid result
\* is ever read; the others stay 0.
Shifted(x, step) == [x EXCEPT !.age = step[@]]

ShiftedSlot(s, step) == IF s.verdict = "valid" THEN Shifted(s, step) ELSE s

Passing(step) ==
  /\ cache' = {Shifted(x, step) : x \in cache}
  /\ updated' = {Shifted(x, step) : x \in updated}
  /\ window' = [i \in DOMAIN window |-> ShiftedSlot(window[i], step)]
  /\ lastPass' = [d \in Deployments |-> step[lastPass[d]]]
  /\ UNCHANGED <<dsVars, smVars, pc, flips, good, failed, erred, verdicts>>

\* A step of the environment that the code cannot rule out but only survive.
Fault == faults < MaxFaults /\ faults' = faults + 1

-----------------------------------------------------------------------------
(* A run *)

\* Mutant of ClearRun: the flips are kept for the next run.
ClearRunButFlips ==
  /\ window' = <<>>
  /\ updated' = {}
  /\ failed' = {}
  /\ erred' = FALSE
  /\ UNCHANGED flips

\* What the run has collected is dropped, or moved into its result.
ClearRun ==
  /\ window' = <<>>
  /\ flips' = <<>>
  /\ updated' = {}
  /\ failed' = {}
  /\ erred' = FALSE

\* Mutant of Abort: what was validated so far becomes the cache.
AbortWithCache ==
  /\ pc' = "idle"
  /\ ClearRun
  /\ DS!StreamStart
  /\ cache' = updated
  /\ UNCHANGED <<good, lastPass, verdicts>>

\* The error branch of the loop: the old cache stays.
Abort ==
  /\ pc' = "idle"
  /\ ClearRun
  /\ DS!StreamStart
  /\ UNCHANGED <<cache, good, lastPass, verdicts>>

\* interval.tick()
StartRun ==
  /\ pc = "idle"
  /\ pc' = "networks"
  /\ UNCHANGED <<dsVars, smVars, cache, window, flips, updated, envVars, histVars>>

\* All pages of supported_networks were read; then the deployment stream opens.
NetworksRead ==
  /\ pc = "networks"
  /\ pc' = "collect"
  /\ DS!StreamStart
  /\ UNCHANGED <<smVars, cache, window, flips, updated, envVars, histVars>>

NetworksFail ==
  /\ pc = "networks"
  /\ Fault
  /\ Abort
  /\ UNCHANGED smVars

\* .buffered() asks the stream for an item only when it has room for it.
Room == pc = "collect" /\ Len(window) < Buffer

PullPage ==
  /\ Room
  /\ DS!FetchPage
  /\ UNCHANGED <<smVars, runVars, envVars, histVars>>

PullError ==
  /\ Room
  /\ Fault
  /\ DS!FetchFails
  /\ window' = Append(window, [id |-> NoDeployment, deny |-> FALSE,
                               verdict |-> "error", age |-> 0])
  /\ erred' = TRUE
  /\ UNCHANGED <<smVars, pc, cache, flips, updated, good, lastPass, failed, verdicts>>

\* Mutant of Hits: the TTL is not looked at.
HitsForEver(d) == {e \in cache : e.id = d /\ 0 <= e.age}

\* The cache entries of d younger than the TTL.
Hits(d) == {e \in cache : e.id = d /\ 0 <= e.age /\ e.age < TTL}

\* The entries on which elapsed().unwrap() panics.
InFuture == {e \in cache : e.age < 0}

\* Mutant of PullCached: the hit gets a new timestamp.
PullRenewed(x) ==
  /\ Room
  /\ DS!Take(x)
  /\ Hits(x.id) # {}
  /\ window' = Append(window, [id |-> x.id, deny |-> x.deny,
                               verdict |-> "valid", age |-> 0])
  /\ UNCHANGED <<smVars, pc, cache, flips, updated, envVars, histVars>>

\* The future of a deployment is polled for the first time as it enters the
\* buffer: a cached deployment is done at once, with the cached timestamp.
PullCached(x) ==
  /\ Room
  /\ DS!Take(x)
  /\ \E e \in Hits(x.id) :
       window' = Append(window, [id |-> x.id, deny |-> x.deny,
                                 verdict |-> "valid", age |-> e.age])
  /\ UNCHANGED <<smVars, pc, cache, flips, updated, envVars, histVars>>

PullUncached(x) ==
  /\ Room
  /\ Hits(x.id) = {}
  /\ InFuture = {}
  /\ DS!Take(x)
  /\ window' = Append(window, [id |-> x.id, deny |-> x.deny,
                               verdict |-> "checking", age |-> 0])
  /\ UNCHANGED <<smVars, pc, cache, flips, updated, envVars, histVars>>

\* check() resolves, in any order among the futures of the buffer.
Resolve(i, verdict) ==
  /\ pc = "collect"
  /\ i \in DOMAIN window
  /\ window[i].verdict = "checking"
  /\ window' = [window EXCEPT ![i] = [@ EXCEPT !.verdict = verdict, !.age = 0]]
  /\ UNCHANGED <<dsVars, smVars, pc, cache, flips, updated, good>>

\* Ok(()).  A deployment that turned bad while its check was under way, or
\* whose files the IPFS client has kept since earlier in the run, may pass too.
CheckPasses(i) ==
  /\ Resolve(i, "valid")
  /\ IF window[i].id \in good THEN UNCHANGED faults ELSE Fault
  /\ lastPass' = [lastPass EXCEPT ![window[i].id] = IF @ < 0 THEN @ ELSE 0]
  /\ verdicts' = verdicts \cup {<<window[i].id, FALSE>>}
  /\ UNCHANGED <<failed, erred>>

\* Invalid: the deployment is bad, or a file that exists timed out twice.
CheckFails(i) ==
  /\ Resolve(i, "invalid")
  /\ IF window[i].id \in good THEN Fault ELSE UNCHANGED faults
  /\ failed' = failed \cup {window[i].id}
  /\ verdicts' = verdicts \cup {<<window[i].id, TRUE>>}
  /\ UNCHANGED <<lastPass, erred>>

\* CheckError::Other: nothing is known about the deployment.
CheckErrs(i) ==
  /\ Resolve(i, "error")
  /\ Fault
  /\ erred' = TRUE
  /\ UNCHANGED <<lastPass, failed, verdicts>>

\* Mutant of Checked: an error is a result like any other.
CheckedOrFailed(s) == s.verdict # "checking"

Checked(s) == s.verdict \in {"valid", "invalid"}

\* Mutant of Emit: an invalid deployment's flag is toggled.
EmitToggle ==
  LET s == Head(window)
  IN /\ pc = "collect"
     /\ window # <<>>
     /\ Checked(s)
     /\ window' = Tail(window)
     /\ flips' = IF s.verdict = "valid" THEN flips
                 ELSE Append(flips, [id |-> s.id, deny |-> ~s.deny])
     /\ updated' = IF s.verdict = "invalid" THEN updated
                   ELSE updated \cup {[id |-> s.id, age |-> s.age]}
     /\ UNCHANGED <<dsVars, smVars, pc, cache, envVars, histVars>>

\* The oldest future is done: try_filter_map makes the deployment_status entry
\* of it, of which the two later filters keep the flips and the valid ones.
Emit ==
  LET s == Head(window)
      shouldDeny == s.verdict = "invalid"
  IN /\ pc = "collect"
     /\ window # <<>>
     /\ Checked(s)
     /\ window' = Tail(window)
     /\ flips' = IF s.deny = shouldDeny THEN flips
                 ELSE Append(flips, [id |-> s.id, deny |-> shouldDeny])
     /\ updated' = IF shouldDeny THEN updated
                   ELSE updated \cup {[id |-> s.id, age |-> s.age]}
     /\ UNCHANGED <<dsVars, smVars, pc, cache, envVars, histVars>>

\* Mutant of EmitError: the error is skipped.
EmitNothing ==
  /\ pc = "collect"
  /\ window # <<>>
  /\ Head(window).verdict = "error"
  /\ window' = Tail(window)
  /\ UNCHANGED <<dsVars, smVars, pc, cache, flips, updated, envVars, histVars>>

\* try_collect stops at the first error in stream order and drops the rest.
EmitError ==
  /\ pc = "collect"
  /\ window # <<>>
  /\ Head(window).verdict = "error"
  /\ Abort
  /\ UNCHANGED <<smVars, faults>>

\* The stream is over and everything is collected: call deny_many.
Submit ==
  /\ pc = "collect"
  /\ ended /\ page = {} /\ window = <<>>
  /\ pc' = "deny"
  /\ flips' = <<>>
  /\ SM!DenyMany(flips)
  /\ UNCHANGED <<dsVars, cache, window, updated, envVars, histVars>>

RunOk ==
  /\ pc = "deny"
  /\ SM!Return("ok")
  /\ cache' = updated
  /\ pc' = "idle"
  /\ ClearRun
  /\ DS!StreamStart
  /\ UNCHANGED <<envVars, lastPass, verdicts>>

RunErr ==
  /\ pc = "deny"
  /\ SM!Return("err")
  /\ Abort
  /\ UNCHANGED faults

-----------------------------------------------------------------------------
(* deny_many, called from pc = "deny", and its chain *)

Untouched == UNCHANGED <<dsVars, runVars, good, histVars>>

DenyStep == (SM!EstimateOk \/ SM!SendOk \/ SM!Confirmed) /\ Untouched /\ UNCHANGED faults

DenyFault ==
  /\ SM!EstimateFails \/ SM!ConfirmFails \/ \E accepted \in BOOLEAN : SM!SendFails(accepted)
  /\ Fault
  /\ Untouched

Mine == SM!Mine /\ Untouched /\ UNCHANGED faults

Lose == SM!Lose /\ Fault /\ Untouched

-----------------------------------------------------------------------------
(* The process *)

\* Mutant of Down: the cache is saved and read again.
DownWithCache ==
  /\ pc' = "down"
  /\ ClearRun
  /\ DS!StreamStart
  /\ SM!Forget
  /\ UNCHANGED <<cache, good, lastPass, verdicts>>

\* Everything the process holds is lost, the cache included.
Down ==
  /\ pc' = "down"
  /\ cache' = {}
  /\ ClearRun
  /\ DS!StreamStart
  /\ SM!Forget
  /\ UNCHANGED <<good, lastPass, verdicts>>

\* The cache lookup meets an entry of the future before a hit.
PullPanics ==
  /\ Room
  /\ page # {}
  /\ InFuture # {}
  /\ Down
  /\ UNCHANGED faults

Crash ==
  /\ pc # "down"
  /\ Fault
  /\ Down

Restart ==
  /\ pc = "down"
  /\ pc' = "idle"
  /\ UNCHANGED <<dsVars, smVars, cache, window, flips, updated, envVars, histVars>>

-----------------------------------------------------------------------------
(* The environment *)

Tick == Passing(Older) /\ UNCHANGED faults

\* SystemTime is not monotonic: the clock is set back.
SetBack == Passing(Newer) /\ Fault

IndexChain ==
  /\ DS!Index(flags)
  /\ UNCHANGED <<smVars, runVars, envVars, histVars>>

\* A deployment becomes unavailable, or available again.
Turn(d) ==
  /\ Fault
  /\ good' = IF d \in good THEN good \ {d} ELSE good \cup {d}
  /\ UNCHANGED <<dsVars, smVars, runVars, histVars>>

\* A deployment leaves or joins the list of those over the threshold.
Resignal(d) ==
  /\ Fault
  /\ DS!Relist(IF d \in listed THEN listed \ {d} ELSE listed \cup {d})
  /\ UNCHANGED <<smVars, runVars, good, histVars>>

-----------------------------------------------------------------------------

Init ==
  /\ listed \in SUBSET Deployments
  /\ flags \in [Deployments -> BOOLEAN]
  /\ indexed = flags
  /\ skip = 0 /\ page = {} /\ ended = FALSE
  /\ todo = <<>> /\ phase = "idle" /\ mempool = <<>>
  /\ pc = "idle"
  /\ cache = {}
  /\ window = <<>> /\ flips = <<>> /\ updated = {}
  /\ good \in SUBSET Deployments
  /\ faults = 0
  /\ lastPass = [d \in Deployments |-> Oldest]
  /\ failed = {}
  /\ erred = FALSE
  /\ verdicts = {<<d, flags[d]>> : d \in Deployments}

\* The steps of the main task.
Program ==
  \/ StartRun \/ NetworksRead
  \/ PullPage
  \/ \E x \in page : PullCached(x) \/ PullUncached(x)
  \/ PullPanics
  \/ \E i \in DOMAIN window : CheckPasses(i) \/ CheckFails(i)
  \/ Emit \/ EmitError
  \/ Submit \/ DenyStep \/ RunOk \/ RunErr

Environment ==
  \/ NetworksFail \/ PullError \/ DenyFault
  \/ \E i \in DOMAIN window : CheckErrs(i)
  \/ Lose \/ Crash \/ SetBack
  \/ \E d \in Deployments : Turn(d) \/ Resignal(d)

Next == Program \/ Environment \/ Tick \/ Mine \/ IndexChain \/ Restart

\* The task is polled while it can move, requests are answered, time passes,
\* blocks are mined and indexed, and the platform restarts the process.  No
\* fault is ever owed.
Fairness ==
  /\ WF_vars(Program)
  /\ WF_vars(Tick)
  /\ WF_vars(Mine)
  /\ WF_vars(IndexChain)
  /\ WF_vars(Restart)

Spec == Init /\ [][Next]_vars

FairSpec == Spec /\ Fairness

-----------------------------------------------------------------------------
(* Properties *)

TypeOK ==
  /\ DS!DsTypeOK
  /\ SM!SmTypeOK
  /\ pc \in PcValues
  /\ cache \in SUBSET Stamped
  /\ window \in Seq(Slot)
  /\ flips \in Seq(SM!Status)
  /\ updated \in SUBSET Stamped
  /\ good \in SUBSET Deployments
  /\ faults \in 0..MaxFaults
  /\ lastPass \in [Deployments -> Ages]
  /\ failed \in SUBSET Deployments
  /\ erred \in BOOLEAN
  /\ verdicts \in SUBSET (Deployments \X BOOLEAN)

\* The timestamps that claim a successful check: in the cache, in the results
\* collected so far and in the buffer.
Claims ==
  cache \cup updated
  \cup {[id |-> window[i].id, age |-> window[i].age] :
           i \in {j \in DOMAIN window : window[j].verdict = "valid"}}

\* A cache hit hands on the timestamp of the check it stands for and never
\* renews it (main.rs:339-341, 406-411): whatever the cache, the results or the
\* buffer claim about when a deployment was validated, it passed a check at
\* least as recently.
ClaimsWitnessed == \A c \in Claims : lastPass[c.id] <= c.age

\* Those that are ahead of the clock.
Ahead == {c \in Claims : c.age < 0}

\* Setting the clock back costs the process at most one panic (main.rs:335, the
\* unwrap): only that puts a timestamp ahead of the clock, whatever is copied, stamped
\* or handed on by whichever run; the process goes down by itself only with one that
\* is ahead, and takes all of them with it, so that it does not panic again and again.
PanicsAreSpent ==
  [][ /\ Ahead = {} /\ Ahead' # {} => SetBack
      /\ pc # "down" /\ pc' = "down" => Ahead' = {} /\ (Ahead # {} \/ faults' > faults) ]_vars

\* Nothing is denied from memory (main.rs:343-348, 361): each flag the run is
\* about to set to `denied', collected or being submitted, is that of a
\* deployment whose check returned Invalid in this very run.
DenialsAreFresh ==
  /\ \A i \in DOMAIN flips : flips[i].deny => flips[i].id \in failed
  /\ \A i \in DOMAIN todo : todo[i].deny => todo[i].id \in failed

\* A run in which one item of the stream was an error, be it a page that could
\* not be read or a check that could not be made, submits nothing, even if all
\* other results are there (main.rs:347, 392-393).
ErrorSubmitsNothing == pc = "deny" => ~erred

\* End to end: the contract's denylist says of a deployment what it said at
\* first, or what some check of that deployment said; no loss, delay or retry of
\* a transaction, no crash and no stale cache or index makes up a third.
FlagsHaveVerdicts == \A d \in Deployments : <<d, flags[d]>> \in verdicts

\* The old cache survives an aborted run (main.rs:222-225): the deployments
\* remembered as valid change only when deny_many returned Ok, or the process
\* goes down.
Remembered == {e.id : e \in cache}
AbortKeepsCache ==
  [][Remembered' # Remembered => phase = "ok" \/ pc' = "down"]_vars

\* The refinement mapping.  Nobody sees a run before it asks for deployments.
Stage ==
  IF pc \in {"idle", "networks"} THEN "waiting"
  ELSE IF pc = "collect" THEN "looking"
  ELSE IF pc = "deny" THEN "submitting" ELSE "stopped"

Noted == {e.id : e \in updated}

\* What is left to hand in: while deny_many waits for a chunk, the ones after it.
Unsent == IF phase = "confirm" THEN SM!Rest ELSE todo

Sequential == INSTANCE SequentialReconcile WITH
  state      <- Stage,
  known      <- verdicts,
  ruledOut   <- failed,
  valid      <- Noted,
  changes    <- flips,
  unsent     <- Unsent,
  remembered <- Remembered,
  outbox     <- mempool,
  denylist   <- flags

\* Whatever happens in a behaviour of the pipeline is what a plain loop over the
\* deployments could do (main.rs:293-296): the pages, the hundred checks in
\* flight, the timestamps, the chunks and the awaits make no difference to what
\* is handed in, in which order, and to what is remembered.
ImplementsSequential == Sequential!Spec

\* The oracle, the chain and the subgraph agree about d: it is denied exactly if it
\* is bad, and nothing that any of them holds about it says otherwise or might be
\* taken for more recent than it is.
Settled(d) ==
  LET bad == d \notin good
  IN /\ flags[d] = bad /\ indexed[d] = bad
     /\ \A x \in page : x.id = d => x.deny = bad
     /\ \A i \in DOMAIN window : window[i].id = d =>
          /\ window[i].deny = bad
          /\ window[i].verdict # IF bad THEN "valid" ELSE "invalid"
     /\ \A i \in DOMAIN flips : flips[i].id # d
     /\ \A i \in DOMAIN todo : todo[i].id # d
     /\ \A j \in DOMAIN mempool : \A i \in DOMAIN mempool[j] :
          mempool[j][i].id = d => mempool[j][i].deny = bad
     /\ \A e \in cache \cup updated : e.id = d /\ bad => e.age >= TTL

\* Nothing but a fault or a change unsettles what is settled (main.rs:331-362,
\* contract.rs:94-128): no expiring cache entry, no page with old deny flags, no
\* transaction mined late, no chunk of other deployments and no restart makes the
\* oracle flip the flag of a deployment that has the right one.
SettledStays ==
  [][faults' = faults => \A d \in Deployments : Settled(d) => Settled(d)']_vars

\* Once faults and changes stop, every deployment that stays listed is denied
\* on chain exactly if it is bad, and stays so: stale cache entries expire, lost
\* and partial submissions are made up for, delayed transactions and stale
\* index data are corrected by later runs.
Converges ==
  \A d \in Deployments :
    <>[](d \in listed) => <>[](flags[d] <=> d \notin good)

=============================================================================
