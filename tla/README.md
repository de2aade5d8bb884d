# TLA+ models of the Subgraph Oracle

The Subgraph Oracle (`availability-oracle`) looks periodically at every subgraph
deployment with enough curation signal, checks that its files can be had from IPFS
and are valid, and tells a contract on chain which deployments are denied rewards.
This directory holds TLA+ models of that program, the TLC configurations that check
them on small instances, and proofs, checked by TLAPS, that the safety properties of
all the models hold for instances of every size, and that the main loop
implements a plain sequential reconciliation.

Paths and line numbers below are those of the repository; `main.rs`, `contract.rs`,
`network_subgraph.rs`, `ipfs.rs` and `manifest.rs` are in `availability-oracle/src/`,
`epoch_block_oracle_subgraph.rs` is there too; `async_cache.rs` and `lib.rs` are in
`crates/common/src/`.

## The system

| Component | State it keeps | Operations | Interacts with | What makes it correct |
|---|---|---|---|---|
| Main loop, `run` and `reconcile_deny_list` (`main.rs:159-413`) | `valid_deployment_cache` between runs; in a run the supported networks, up to 100 checks in flight, the collected `deployment_status` | tick, read networks, pull and check deployments, collect in order, submit, renew the cache | polls the deployment stream, calls `check`, awaits `deny_many` | nothing is denied without a check of this run; cache entries keep the time of the check they stand for; a run with an error in its stream submits nothing; the denylist converges |
| Deployment stream (`network_subgraph.rs:81-174`) | the `skip` of the next page | page queries until an empty page | the network subgraph, whose list and deny flags change meanwhile | it ends; it misses and repeats nothing while the list does not change |
| State managers (`contract.rs:94-188`) | none in the process; transactions in the node's mempool, the denylist or the votes on chain | `deny_many`: chunk, estimate, send, wait | RPC node, contract; by votes, the other oracles | every entry once, in order; one chunk is settled before the next; votes of several oracles come to what most of them see |
| `check` (`main.rs:490-589`, `manifest.rs`) | position in the manifest, network so far | fetch and parse manifest, schema, ABIs, mappings | `Ipfs::cat` | Ok only for a deployment that is right all over; Invalid only for a defect |
| IPFS client (`ipfs.rs`) | cache of files, semaphore | `cat` with retry, `invalidate_cache` | IPFS gateway | no permit is lost; no answer outlives its run; no denial after one lost answer |
| Epoch block oracle client (`epoch_block_oracle_subgraph.rs`) | `skip`, the networks read so far | page queries | its subgraph; `check` uses the networks | a list that was read in part denies nothing |
| `AsyncCache` (`async_cache.rs`) | map from key to shared future | `get`, removal, timed cleanup | its callers; no one in this repository | one computation at a time per key; removals hit their own entry; entries leave the map in the end |
| Configuration and process (`main.rs:30-290`, `lib.rs`) | settings, the interval | parse, make the state manager, tick, run once or for ever | RPC node at the start, platform | a complete configuration runs for ever, an error of a run does not end it, late ticks make no burst |
| Metrics and logging (`crates/common`) | counters | | | |
| JSON encoder and its web page (`crates/json-oracle-encoder`, `json-encoder-web`) | none | pure encoding by a library | | |
| Deployment stacks (`deployment/`) | none | | run the oracle on spot capacity: it may be stopped and started at any time | |

What is hard about it:

- Concurrency: up to 100 checks are polled by one task and finish in any order,
  while `.buffered` gives their results in stream order (`main.rs:352`). All share one
  IPFS client.
- Partial failure: one failed page or one `CheckError::Other` aborts the run
  (`main.rs:347, 392`); a failed estimate ends `deny_many` with `Ok` (`contract.rs:115`);
  a chunk may be on chain and the next not.
- Stale data: the deny flags are those of the last block the network subgraph indexed;
  the list of deployments changes between two pages; cached validations are used for
  a day; the IPFS client caches within a run.
- The chain: a transaction whose `send` or receipt failed may still be mined, after
  later runs or in place of them.
- Time: `SystemTime` is not monotonic, and `elapsed().unwrap()` (`main.rs:335`)
  panics on a timestamp in the future.
- Votes: with the availability manager each oracle votes against the flag it sees, and
  the contract adds up votes that are recent enough (`contract.rs:131-165`); what one
  oracle votes depends on what the others' votes have come to.
- The start: it depends on several optional settings and on a node that answers
  (`main.rs:170-182`, `contract.rs:47, 77`).
- Crashes: the process may stop anywhere; the cache is lost, the mempool is not.

`PROJECT.json` lists these hazards line by line with the properties that watch them.

## The modules

`DeploymentStream` and `StateManager` are components without a caller. `StreamReader`
and `DenyManyCalls` extend them with the simplest caller and check them alone with
large inputs; `Reconcile` instantiates both and checks the composition.

| Module | Models | State | Actions |
|---|---|---|---|
| `DeploymentStream` | `deployments_over_threshold` and the network subgraph behind it | `skip`, `page` (what is left of the last page), `ended`; `listed` and `indexed`, the subgraph's data | `FetchPage`, `FetchFails` (a query and its answer), `Take` (the reader gets an item); `Relist`, `Index` (the subgraph changes) |
| `StreamReader` | one reader of that stream | what it got, and how the list changed meanwhile | `Fetch`, `Fail`, `Read`, `Resignal`, `IndexBlock` |
| `StateManager` | `RewardsManagerContract::deny_many`, the node's mempool, the contract's denylist | `phase` (the await it stands at, or its result), `todo`, `mempool`, `flags` | one action per await and outcome: `EstimateOk/Fails`, `SendOk/Fails`, `Confirmed`, `ConfirmFails`; `Mine`, `Lose` |
| `DenyManyCalls` | calls of `deny_many` one after the other | the latest vector, what the node accepted of it | `Call`, `Proceed`, `Fail`, `Done`, `MineNext`, `LoseNext` |
| `Reconcile` | the periodic main loop with both components, the clock, crashes and restarts | `pc`, `cache`, `window` (the buffer), `flips` and `updated` (what `deployment_status` is used for), `good` (what the checks would find) | a run: `StartRun`, `NetworksRead`, `PullPage`, `PullCached`, `PullUncached`, `CheckPasses/Fails/Errs`, `Emit`, `EmitError`, `Submit`, `RunOk`, `RunErr`; failures: `NetworksFail`, `PullError`, `PullPanics`, `Crash`, `Restart`; time and data: `Tick`, `SetBack`, `Turn`, `Resignal`, `IndexChain` |
| `MCReconcile` | the initial states of `Reconcile` for TLC | | |
| `SequentialReconcile` | the abstract reconciliation that `Reconcile` implements | what a run has found, wants to change and has not handed in; what is remembered, on its way, on chain | a run: `Open`, `Learn`, `Look`, `Submit`, `HandIn`, `GiveUp`, `Finish`, `Abandon`, `Stop`, `Resume`; the chain: `Land`, `Drop` |
| `ReconcileProofs` | theorems about `Reconcile`, its refinement of `SequentialReconcile` among them | | |
| `StreamProofs`, `DenyManyProofs`, `CheckProofs`, `IpfsProofs`, `AsyncCacheProofs`, `ServiceProofs`, `VotingProofs` | theorems about `StreamReader`, `DenyManyCalls` and the modules of their names | | |
| `Voting`, `MCVoting` | several oracles with `SubgraphAvailabilityManagerContract`, one deployment, and the contract's count | per oracle where its run stands and what it votes; mempools, ages of the votes, the flag and the indexed flag | `Look` (a run up to `deny_many`), `Send`, `Confirmed`; `RunFails`, `SendFails`, `ConfirmFails`, `Crash`; `Mine`, `Lose`, `NewNonce`, `IndexChain`; `Turn`, `Tick` |
| `Service` | the process: settings, state manager, interval, one-shot mode | `config`, `pc`, `manager`, how it ended; the interval's deadline and the last starts, relative to now | `ParseArgs`, `DryRun`, `MakeManager`, `ManagerFails`, `StartRun`, `RunOk`, `RunErr`; `Crash`, `Restart`, `RpcFails`, `RpcRecovers`, `Pass` |
| `NetworkList` | `supported_networks` and its subgraph | `skip`, the networks listed and read | `ReadPage`, `ReadEnds`; `Join`, `Leave` |
| `Check` | the read of the supported networks (by `NetworkList`) and `check` on one manifest | position, network so far, result | `ReadNetworks`, `NetworksRead`, `NetworksFail`, `NetworksChange`; `CheckManifest`, `CheckSchema`, `CheckSource`, `CheckFile`, `SourceFine`, `AllFine` |
| `Ipfs` | `IpfsImpl` used by the checks of one run after another | per task where it stands in `cat`; semaphore queue, permits, cache | `Cat`, `Acquire`, `Headers`, `CallFails`, `Body`, `BodyFails`, `Return`; `StartRun`, `EndRun`, `Turn` |
| `AsyncCache` | `AsyncCache::get` for one key | per task where it stands in `get`; the map's slot, the futures, the sleeping cleanups | `Get`, `Read`, `Write`, `Await`, `Own`, `Remove`, `Expire`, `Complete`, `Cancel` |

Conventions:

- An action is what the code does between two awaits, with the guard of its
  conditions. `PROJECT.json` gives the source lines of each definition.
- In `Reconcile` a point in time is kept as its age, as `elapsed` computes it. Ages
  stop at `Oldest`, beyond which they make no difference; `SetBack` makes them younger,
  down to negative ones.
- `Voting` follows one deployment: the contract counts the votes of a transaction for
  each deployment on its own, so that other deployments and chunks matter only in that
  they may fail before (`SendFails`). Its clock counts periods; an oracle has one run in
  each, and one more when its process restarts. That a period ends before an oracle has run and its vote is mined is a fault.
- `Service` takes a run as a step that begins and one that ends; `Reconcile` lets a run
  start whenever the loop is idle, which covers every timing of ticks.
- `Reconcile` sees a check as one call with the outcomes Ok, Invalid and Other; `Check`
  models which outcome it is, `Ipfs` how each file is fetched.
- Definitions headed "Mutant of ..." are the model with one plausible mistake. No
  action uses them; they are there to be put in the place of the definition they
  mutate, to see that the properties notice.

What is abstracted: contents of files (a file is what parsing it comes to), texts,
metrics, logging, gas, the amount of signal, the signal threshold and the grace period
(they decide who is listed). The order of deployments in the subgraph's answers is that
of their numbers. In `Reconcile` the read of the supported networks is one step.

## The runs

All bounds are constants of the configurations.

| Run | Bounds | Shows |
|---|---|---|
| `reconcile` | two deployments, pages of one, two checks in flight, chunks of one, a TTL of two ticks, two faults | `ClaimsWitnessed`, `DenialsAreFresh`, `ErrorSubmitsNothing`, `FlagsHaveVerdicts`, `AbortKeepsCache`, `PanicsAreSpent`, `SettledStays`, the refinement `ImplementsSequential`, and `Converges` under fairness |
| `deny_many` | two calls with any vector of up to three entries on two ids, chunks of two, two faults | `EachEntryOnce`, `SettledBetweenChunks`, `CallAdvances`, `CallReturns` |
| `stream` | four deployments, pages of two, two changes or failures | `CoversUnlessShrunk`, `NoRepeatUnlessGrown`, `StreamEnds` |
| `check` | two data sources with two files between them, two kinds, three names of two networks, pages of one network and one change of the list | `OkMeansSound`, `InvalidHasDefect`, `OtherIsFirstFailure` |
| `service` | every configuration, a period of three units, two faults | `NoBurst`, `OnlyFaultsEndTheLoop`, `KeepsRunning`, `RunsOnce` |
| `voting` | three oracles, two votes decide, votes count for two periods, two faults or changes | `FlipHasRecentQuorum`, `DecidedStays`, `QuorumPrevails`, `ConsensusIsQuiet` |
| `ipfs` | two tasks, two files, one permit, room for one file in the cache, two changes of the gateway | `PermitsConserved`, `OkIsOfThisRun`, `UnavailableAfterRetries`, `CatAdvances`, `CatReturns` |
| `async_cache` | three tasks, four calls, one of them dropped | `NoConcurrency`, `RemovesItsOwn`, `UncachedIsPrivate`, `FuturesLetGo`, `TimedLeaves` |

Why the bounds are enough for the cases that matter:

- `reconcile`: with pages, chunks and a buffer smaller than or equal to the number of
  deployments, there are runs with several pages, two chunks, a full buffer and
  completion out of order. A fault is anything that need not happen: a failed query or
  check, a wrong verdict, a failed estimate, send or receipt, a lost transaction, a
  crash, a clock set back, a deployment that turns or leaves. Two of them give a
  failure and its consequence (a send that fails but is accepted, and a deployment
  that recovers before it is mined). A TTL of two lets an entry be reused once and
  then expire. Ticks, mining, indexing and runs are not bounded. One deployment starts
  denied and all good, so that both directions of a flip occur.
- `deny_many`: three entries with chunks of two have a full and a partial chunk and
  room for the same id in both. A second call meets what the first left in the mempool.
- `stream`: four deployments and pages of two have the boundary of a page inside the
  list, at its end and, after changes, behind it.
- `ipfs`: one permit makes every other task wait; a cache of one makes insertion evict.
- `check`: the list of networks starts in every order and changes while it is read, with
  pages small enough that a change moves an entry from one page to another.
- `service`: a period of three units has ticks that are early, late by a part of a period
  and by more than one; what lies further back than two periods makes no difference.
- `voting`: with three oracles and two votes there is a quorum with and without each of
  them, and one that disagrees. Neither the oracles' names nor the two statuses matter
  to the model, so that `MCVoting` starts with the flag clear and counts those who see the
  deployment as bad. A vote that counts for two periods outlives the run after it and
  then expires. Two faults are a lost vote and one mined late, a new nonce and a crash,
  or two oracles that change their mind.
- `async_cache`: three tasks are a maker, a waiter and one that comes late; four calls
  let a maker be dropped, replaced and met again.

The types (`TypeOK` of each module) are checked in the runs `reconcile`, `ipfs` and `voting`,
where they bound a count or an age that could run away, and are proved for
every model.

Some of these say together what none says alone:

- `Converges` says that the denylist comes to the right flags in the end, when faults
  stop; `SettledStays` says what keeps them there step by step, in the midst of the faults
  of others: as soon as the chain, the subgraph and the oracle agree about one deployment
  (`Settled`: also pages, results, cache entries and transactions on their way), only
  a fault or a change can undo it.
- `QuorumPrevails` says that a lasting majority gets its flag, `DecidedStays` that
  the flag is safe as soon as fewer than a quorum can still be counted against it
  (`Speaks`: by an old vote, a late one, one being sent, or the next run).
- `CallReturns` says that `deny_many` ends unless it waits for ever for a transaction that
  stays in the mempool, which `contract.rs:122` does without a timeout: nothing else holds
  it up. `FuturesLetGo` says in the same way that no future of an `AsyncCache` that is
  complete holds up those who await it. It does not say that `get` returns: a waiter of
  `None` values reads the map again and may find a newer future each time, as long as
  others go on calling (`async_cache.rs:67-77`).
- `PanicsAreSpent` says that a clock set back takes the process down once and not again on
  the same entries, as the cache with the timestamps of the future is lost with it.
- `CallReturns` and `CatReturns` say that a call ends, `CallAdvances` and `CatAdvances` by
  what measure it comes nearer to its end, and what can set it back: nothing for
  `deny_many`, a failed request of its own for `cat`.

Deadlock is checked in `reconcile`, `ipfs` and `voting`, which never stop. The other
models end: a stream that is read, calls that are made, a check that is done, a process
that runs once.

### Where the code does otherwise than its documentation says

These runs check one sentence each and end in a counterexample:

| Run | Sentence | What the code does |
|---|---|---|
| `stream_covers_all` | "Grab the list of all deployments over the curation threshold" (`main.rs:293`) | pages by `skip` against a changing list skip a deployment when one before it leaves |
| `check_linked` | "Check availability and validity for the manifest and all files linked from it." (`main.rs:487`) | the package of a substreams data source is not looked at |
| `ipfs_concurrency` | "Maximum concurrent calls to IPFS" (`main.rs:80`) | the permit is given back when the headers are there, the body is read without it |
| `ipfs_timeout` | "If the request times out, the cid is considered unavailable." (`ipfs.rs:36`) | a timeout in the body is `IpfsError::Other`: the run is aborted |

Three more sentences are not what the code does. The models follow the code, and no run is
spent on them:

| Sentence | What the code does | In the models |
|---|---|---|
| "If rewards_manager_contract is provided, it will create a RewardsManagerContract." (`main.rs:260`; also the message of the panic, `main.rs:181`) | with the availability manager's address and no `ORACLE_INDEX` the rewards manager's address is not looked at, and the process panics (`main.rs:270-287`) | `Overlooked` in `Service`, which `KeepsRunning` leaves out |
| "Stays in the cache for a finite amount of time" (`async_cache.rs:14`) | the cleanup is spawned by the call that made the value (`async_cache.rs:97-119`); if that call is dropped while another awaits the value, it stays | `Cancel` in `AsyncCache`; `TimedLeaves` is for the behaviours without one |
| "Is not cached, but the answer is shared between multiple consumers that were already waiting for a result" (`async_cache.rs:16-17`) | the value stays in the map until its maker has the write lock, and a call that was not waiting finds it | between `Complete` and `Remove` in `AsyncCache` |

Other things the models show that are worth knowing, without a sentence they contradict:

- `deny_many` returns `Ok(())` with nothing sent when a gas estimate fails
  (`contract.rs:109-116, 146-153`), and the run counts under `reconcile_runs_ok`. Later
  runs make up for it (`Converges`, `QuorumPrevails`) as far as the estimate succeeds
  again.
- `deny_many` waits for a receipt without a timeout (`contract.rs:122`), and the loop with
  it: one transaction that is neither mined nor dropped stops all later runs.
- A network that leaves the list between two pages makes the list that is read incomplete
  (`epoch_block_oracle_subgraph.rs:58`), and deployments of a network that is skipped are
  denied until a run reads the list whole. `InvalidHasDefect` exempts lists that `shrunk`
  while they were read.
- A waiter of an `AsyncCache` whose computations give `None` need never return, as said
  above.
- A vote is never taken back: an oracle that voted to deny and finds the deployment good
  before the flag changes has nothing to submit, as the flag is the one it wants
  (`main.rs:362`), and its vote counts until it expires. `FlipHasRecentQuorum` bounds for
  how long.

## Fairness

- `Reconcile`: weak fairness of the main task (tokio polls it while it can move; each
  request is answered or ends by the timeout of its client), of the clock, of mining
  and indexing, and of the restart (the platform keeps the service running). No fault
  is fair. That a pending transaction is mined in the end is an assumption on the chain:
  the code itself waits for the receipt without a timeout (`contract.rs:122`).
- `DenyManyCalls`: weak fairness of the task only; mining is not owed. `StreamReader`: of the
  reader's queries and reads, where an answer and a failure both count.
- `Ipfs`: weak fairness of granting a permit and, for each task, of the answer or
  failure of its request, which the request's timeout guarantees. Nothing obliges a
  task to call `cat` or a run to end.
- `Service`: weak fairness of the program (its task is polled and each run ends, as in
  `Reconcile`), of the restart, of the clock and of the node's recovery: `KeepsRunning` is
  about what the program does with them. No fault is fair.
- `Voting`: weak fairness of each oracle's run, of the mining of each oracle's votes, of
  indexing and of the clock. As a tick that leaves someone behind is a fault, the clock
  waits for the slowest at the end; no vote is owed beyond what a run sends.
- `AsyncCache`: weak fairness of each task that is in `get`, of each sleeping cleanup
  and of each computation that is polled. Nothing obliges anyone to call `get`.

## What is proved

`ReconcileProofs` proves, for all sets of deployments, page, buffer and chunk sizes,
every TTL and any number of faults (the assumption `ReconcileAssumption`: finite sets
of numbers, positive sizes), from any initial denylist and list:

| Theorem | States |
|---|---|
| `TypeCorrect` | `Spec => []TypeOK` |
| `ErrorsSubmitNothing` | `Spec => []ErrorSubmitsNothing` |
| `ClaimsAreWitnessed` | `Spec => []ClaimsWitnessed` |
| `OnlyFreshDenials` | `Spec => []DenialsAreFresh` |
| `FlagsAreVerdicts` | `Spec => []FlagsHaveVerdicts` |
| `SetBacksCostOnePanic` | `Spec => PanicsAreSpent` |
| `AbortsKeepTheCache` | `Spec => AbortKeepsCache` |
| `SettledIsStable` | `Spec => SettledStays` |
| `RefinesSequential` | `Spec => ImplementsSequential` |

The argument:

- `TypeOK` is not inductive: an age could leave `Ages` when the clock is set back.
  `TypeInv` says that no age is below minus the number of faults so far, and each
  `SetBack` is a fault. The steps of the two components are treated once
  (`DsTyped`, `SmTyped`), whatever action of the loop they are part of.
- `ErrorHeld`: while an error has occurred, the run is still collecting and some future
  of the buffer is an error. Collecting it aborts, and `Submit` needs an empty buffer.
- `Witnessed` splits the claims by place. A hit copies an age that is witnessed; a
  check that passes sets the witness; a step of the clock moves both by the same
  function, which is monotonic (`Older`, `Newer`).
- `IdleInv` says that `deny_many` has nothing to do outside the call of it. With it,
  `SoundInv` follows every flag from the check to the chain: results in the buffer
  and cache entries are backed by verdicts, flips by fresh verdicts, entries of
  transactions in the mempool, at whatever age, by verdicts, and so the denylist.
- `Behind` says that no timestamp of the loop lies in the future. It holds until the clock is
  set back, and going down brings it about again, as it leaves neither a cache nor a run.
- `Calm` is `Settled` written with types: the buffer is a sequence of results that do
  not flip the deployment's flag, `flips` and `todo` are sequences of entries about others,
  the mempool one of transactions that agree. So the lemmas that keep the variables
  typed (sequences stay over their set when an element is added, taken or cut off)
  also keep it calm, `CalmStep`. A check that finds otherwise than `good` says is a fault
  (`NoFaultSameGood`), and an entry for a deployment that is bad is too old to be hit.

`RefinesSequential` is proved at the end of the module. The refinement mapping reads `SequentialReconcile`'s state off that of the
loop (`Stage`, `Noted`, `Unsent`, `Remembered` in `Reconcile`; the other variables
are the loop's own).

- The steps that the abstract specification does not see (pages, hits, timestamps, the
  estimate, the receipt, time, indexing) leave the mapped state alone, `HiddenStep`; each
  other action maps to one of its actions, `VisibleStepsMap`.
- For this the mapping needs `TidyInv`: between runs nothing is noted, wanted or unsent, and
  while deny_many waits for a chunk, that chunk is not empty. It also needs
  `SoundInv`: a result in the buffer is backed by a verdict, an
  invalid one by a check of this run, which is what `Look` demands.
- A transaction's effect, written with a chosen deciding entry in `StateManager`, is one
  of the denylists that `Land` describes by its last entries.

The other proof modules are about one component each, for any values of its constants
that satisfy the assumption its module names. The sets of tasks and of oracles are
finite, as the proofs count them; a majority decides in `Voting`.

| Module | Theorems |
|---|---|
| `StreamProofs` | `StreamTypeCorrect`, `NothingMissedUnlessShrunk` (`CoversUnlessShrunk`), `NothingRepeatedUnlessGrown` (`NoRepeatUnlessGrown`) |
| `DenyManyProofs` | `DenyManyTypeCorrect`, `EntriesAreSentOnce` (`EachEntryOnce`), `ChunksAreSettled` (`SettledBetweenChunks`), `CallsAdvance` (`CallAdvances`), `OkMeansApplied` |
| `CheckProofs` | `CheckTypeCorrect`, `PassedIsSound` (`OkMeansSound`), `DeniedHasDefect` (`InvalidHasDefect`), `InconclusiveIsFirstFailure` (`OtherIsFirstFailure`) |
| `IpfsProofs` | `IpfsTypeCorrect`, `NoPermitLost` (`PermitsConserved`), `AvailableInThisRun` (`OkIsOfThisRun`), `UnavailableAfterAllCalls` (`UnavailableAfterRetries`), `CatsAdvance` (`CatAdvances`) |
| `AsyncCacheProofs` | `AsyncCacheTypeCorrect`, `NeverComputedTwiceAtOnce` (`NoConcurrency`), `RemovalsHitTheirOwn` (`RemovesItsOwn`), `UncachedReturnedOnce` (`UncachedIsPrivate`) |
| `ServiceProofs` | `ServiceTypeCorrect`, `NeverABurst` (`NoBurst`), `LoopEndsByFaultOnly` (`OnlyFaultsEndTheLoop`) |
| `VotingProofs` | `VotingTypeCorrect`, `FlipsHaveRecentQuorum` (`FlipHasRecentQuorum`), `DecidedIsStable` (`DecidedStays`), `MajorityIsNotOverruled` |

What their inductive invariants say:

- Stream: a deployment that was listed all along was yielded, is on the page, or has a
  rank of `skip` or more; while nothing leaves the list, ranks only grow
  (`RankMonotonic`). For repetitions it is the other way round: what was read has a rank
  below `skip`, and ranks only shrink while nothing joins.
- deny_many: what the node accepted is the front of the vector and `todo` its back; they
  meet, or overlap by the chunk that is waited for; and as long as anything is left, what
  was accepted is a number of whole chunks (`LoopInv`, `SentInv`). What an earlier call
  left in the mempool is gone once the first chunk is settled (`AloneInv`), and the chunk
  that is waited for is the last there, so that the denylist agrees with the last word of
  all that was sent before it, and of it too when it is mined (`AgreeInv`).
  `OkMeansApplied` puts both together: `Ok` with nothing gone wrong is the whole vector on
  chain.
- Check: as long as no entry left the list of networks, each name that was listed all
  the time was read, or its entry stands at a position of `skip` or later (`ListInv`); an
  entry that joins moves others up only (`Joined`). The data sources before the current
  one fit and their files are fine, and the network that is remembered is one that a
  data source names (`SourceInv`). The files before the one at hand are exactly those
  fetched, so that a failing one is the first of its kind, and
  the data sources up to its own fit the network named before them (`FileFails`).
- IPFS: a task waits in the queue once and only while it has no permit (`QueueInv`), so
  that a permit granted is one more call; between runs no task asks and nothing is
  cached (`RunInv`), so that a run starts with nothing of the last one; a call is made
  only with failures left to make (`FewFailures`). A task that waits is in the queue
  (`AllQueued`), in one place (`OnePlace`), so that its place is how far it has to go:
  joining leaves the places alone and a permit moves all of them up.
- `AsyncCache`: whoever is yet to remove the future in the map is alone in it, its
  maker or its cleanup, and a future that runs is in the map (`KeepInv`). That no call
  makes two futures needs a count: the futures made and the calls that may still make
  one are no more than the calls (`CountInv`).
- Service: the deadline is later than the last start, and more than a period later than
  the start before it (`Spaced`). A start that is late moves its deadline by what is left
  of the period, and no further: arithmetic of the remainder (`NextDueWithinPeriod`).
- Voting: every vote, about to be sent, on its way or counted, is for a status that its
  oracle found no longer ago than the age of the vote and the number of faults
  (`LateInv`), as each period an oracle or its vote is late by is a fault. From this
  `MajorityIsNotOverruled` follows as two quorums have an oracle in common. For
  `DecidedIsStable` no step makes a new speaker against the flag while nobody changes what
  it sees (`NoNewSpeaker`), and a vote that turned the flag would be counted with
  speakers only (`TurnsToSpoken`).

Nothing is taken on trust: the proofs use the library's facts on sequences, functions
and finite sets.

Only model-checked are the liveness properties, as TLAPS 1.4.5 does not treat fairness:
`Converges`, `CallReturns`, `StreamEnds`, `CatReturns`, `KeepsRunning`, `RunsOnce`,
`QuorumPrevails`, `ConsensusIsQuiet`, `FuturesLetGo` and `TimedLeaves`. For those of `deny_many`
and `cat` the step they rest on is proved (`CallsAdvance`, `CatsAdvance`).

## What is not modelled

- The other settings (`main.rs:36-90, 107-125`) beyond being constants of the modules that
  use them.
- Metrics, logging, CID conversion (a bijection), the JSON encoder, the
  deployment stacks: they keep no state that a step reads.
- Panics on malformed answers (`network_subgraph.rs:134, 150-153`); in `Reconcile` they
  are cases of `Crash`. The 2038 cast and the subtraction of the grace period
  (`network_subgraph.rs:95`).

## Plan

1. Done: `DeploymentStream`, `StateManager`, their callers, `Reconcile` with its
   proofs, `Ipfs`, `AsyncCache`, `Check`.
2. Done: `SequentialReconcile` and the proof that `Reconcile` implements it; `Service`;
   `Voting`; `NetworkList` under `Check`.
3. Done: the theorems about `StreamReader`, `DenyManyCalls`, `Check`, `Ipfs`, `AsyncCache`,
   `Service` and `Voting`: the types, and every invariant and action property that a run
   checks.
4. To come: the steps that the other liveness properties rest on, stated as measures
   like `Distance` and `Stage` and proved: a run of the loop over its pages, an `AsyncCache`
   call over the futures it awaits; and a settled denylist as a property of several
   deployments at once.
