# Verification of KSolver

KSolver does two things with a Kubernetes cluster. `ksolver serve` and
`ksolver analyze` compute a cheaper placement of the whole cluster and a plan to
get there; they only read. `ksolver shadow` is a GPU scheduler that runs next to
the default one: it watches pending GPU pods, solves for them, explains its
decisions, and may be allowed, rollout mode by rollout mode, to bind pods itself.

The second program is where things go wrong in ways a test hardly reaches: two
replicas, a leader election, a watch, an in-memory ledger, the API server and
time. It is modelled first and furthest. Of the first program the modules take
what runs concurrently: the jobs of the server and the files they share. Paths
below are relative to `src/ksolver/src/` (`scheduler/` is left out where a file
name is unambiguous).

- [Inventory](#inventory)
- [Modules](#modules)
- [Runs](#runs)
- [Fairness](#fairness)
- [Findings](#findings)
- [Known divergences, not run](#known-divergences-not-run)
- [Proofs](#proofs)
- [What is not modelled](#what-is-not-modelled)
- [Plan](#plan)

## Inventory

### The binding path of `ksolver shadow`

| Part | Source | State | Operations | What is hard | What makes it correct |
|---|---|---|---|---|---|
| Leader election | `leader.rs` | the Lease in the API server; `is_leader` | `spawn` (loop), `try_acquire_or_renew`, `action_for_lease`, `lease_expired` | races on one object, late writes, clock skew, crashes | a fresh flag means the Lease is held; takeover only after expiry; a running leader keeps the Lease, a dead one is replaced in time |
| Pod watch | `watch_state.rs`, `shadow.rs` 5346-5386 | `observed`, `init_buffer`, the health flag | `WatchState::apply`, restart of the stream | broken lists, relists, deletions nobody reported | the loop reads the pods of one moment, moments in order; the flag is honest |
| Reservation ledger | `ledger.rs` | reservations by id, `next_id`, ttl | `reserve`, `release`, `expire`, `reconcile_observed` | overlapping and shrinking reservations, ids kept across awaits | nodes and quotas are never promised twice; nothing dropped early, nothing kept for ever |
| Binder | `binder.rs`, `binding.rs` | none of its own; a cache of the pods it read in this pass | `render_binding_plan`, `assess_binding_readiness`, `should_apply`, `apply_bindings` | pods change between GET and POST; lost answers; gangs and a throttle | a bind hits a vetted pod; a gang is vetted as a whole; the throttle bounds what happens, not what is counted |
| Shadow loop | `shadow.rs` 5233-5939 | ledger, traces, event filter, the latest snapshot | one pass: collect, reconcile, solve, reserve, apply, release | three views of different age; reservations against late binds; the ledger is lost in a restart | nodes are not overcommitted; POSTs are covered; every pod that fits is bound in the end |
| Solve round | `shadow.rs` 6578-7286, `pending_input.rs`, `trace.rs` 454-492 | the attempt in progress and the one accepted | `prune_candidate_nodes`, `group_pending_input_by_node_symmetry`, `expand_grouped_solution_to_physical`, `retry_reason`, `run_one_solve` | pooled capacities, fallbacks, retries that replace results | the placement is one for real nodes; labels are true; rounds end |
| Pending input | `pending_input.rs` 157-216, 771-791, 957-1693 | none | `build_pending_input…` | rules stated about pods become pairs, totals and representatives of gangs, in different places for running and for waiting pods | what the solver may answer is what Kubernetes would admit |
| Decision trace | `decision.rs`, `trace.rs` | a ring of the last traces, a sequence counter | `build_decision_trace`, `push` | a manual solve and the loop draw numbers and push in different orders | a decision is the solver's answer; the rest is display |
| Repair advisor | `repair.rs` | the search's stack, its best set and plan | `advise_repairs_with_options`, `branch` | shared refuges and disruption budgets in a search that is cut short | the plan can be carried out, makes the room it promises, and is the best there is |

The loop calls the parts in this order: it reads the flag of the election and the
pods of the watch (shared memory, written by tasks of their own), collects a
snapshot (LIST calls), reconciles the ledger with it, solves (a blocking task),
checks the flag again, reserves, applies, and releases or keeps the reservation.
Everything it knows is older than what it does; only the API server is current.

### The jobs of `ksolver serve`

| Part | Source | State | Operations | What is hard | What makes it correct |
|---|---|---|---|---|---|
| Job server | `server.rs`, `static/index.html` | jobs by id, their progress, a broadcast channel per job | start, publish, finish, subscribe, first event, status | updates are published by tasks that overtake each other; subscription and first event are two locks; a restart forgets the jobs and counts from 1 | the end of a job is final, is on every stream and reaches its page; a page gets its own report, unless its id has a new owner after a restart |
| Analysis pipeline | `service.rs` | the locals of `analyze_inner` | snapshot, refresh, normalize, prepare, solve, strict retry | jobs on one cluster interleave at every file | a report is of its own request and of one recent snapshot |
| State cache | `state_cache.rs` | JSON files, the last two kinds under hashes | `load_*`, `write_*` (temporary file and rename) | the temporary name is shared, nothing is locked; keys that leave something out | a published file is whole; an entry is what its key says |

### The rest

| Part | Source | Kept in | Why it matters, or does not |
|---|---|---|---|
| Pod filter | `pod_filter.rs` | none | which pods are in scope |
| Prediction, observations | `prediction.rs`, `observations.rs` | none | arithmetic over completed jobs |
| VRAM store | `vram_store.rs` | a JSONL file | append only |
| Admission webhook | `admission.rs` | none | one request, one patch |
| Events | `events.rs`, `event_emitter.rs`, `shadow.rs` 198-248, 5941-5999 | the last fingerprint per pod | marked as emitted before they are sent |
| Configuration | `config.rs` | none | the gates of the rollout modes |
| HTTP surface | `shadow.rs` | latest trace, cluster, pods, caches | readers combine values of different rounds |
| Collector, normalizer | `collector.rs`, `normalizer.rs`, `dra.rs`, `historical_usage.rs` | none | data conversion |
| Optimizer, planner | `optimizer_input.rs`, `cpsat_rust.rs`, `planner.rs`, `pricing.rs` | none | an integer program and its cost |
| Verifier, reports | `verifier.rs`, `explainability.rs`, `conformance.rs` | none | replay in an external simulator |
| Scenarios, bench | `gpu_scenarios.rs`, `bench.rs` | none | fixtures |
| Scripts, chart, vendored CP-SAT, VRAM lab | outside `ksolver/src` | | not the program |

`PROJECT.json` lists all of them with their status, and the hazards of this code
each at its line.

## Modules

| Module | Models |
|---|---|
| `LeaderElection` | the election loop of every replica, the Lease, late writes, crashes |
| `LeaderTiming` | the same loop when it is scheduled on time |
| `Binder` | `apply_bindings`, one call to the API server per step |
| `BinderPass` | a pass over any plan, next to other actors |
| `ReservationLedger` | `BindingReservationLedger` over a changing cluster |
| `ShadowPass` | many passes of the loop: `Binder` and `ReservationLedger` composed |
| `ObservedPods` | what the loop may assume of the pods it reads (abstract) |
| `WatchState` | how the watch task provides it (detailed; implements `ObservedPods`) |
| `Selections` | what a solver may answer: one option for each thing |
| `SolveRound` | `run_one_solve` over an arbitrary solver: pruning, grouping, widening |
| `GpuCluster` | what a round knows of nodes, pods and policies |
| `PendingInput` | how waiting pods become a problem, and what solves it |
| `RepairAdvice` | the search for room for a gang that found no place |
| `DecisionRound` | a round from the snapshot to decisions and advice: the three composed |
| `JobServer` | jobs, their streams, and the pages that watch them |
| `AnalysisCache` | analyses of one cluster over the files they share |
| `Sums` | lemmas about sums over finite sets and about `Selections` |
| `*Proofs` | theorems of `LeaderElection` and `LeaderTiming`, of `BinderPass` and `ShadowPass` (`BinderProofs`), `ReservationLedger`, `WatchState`, `SolveRound`, `DecisionRound`, and of `JobServer` and `AnalysisCache` (`ServerProofs`) |
| `MC*` | values for the constants of the runs |

Operators and actions whose name holds an underscore (`Unexpired_Lenient`,
`ShouldApply_AssumesReady`) are variants with a plausible bug. The specifications
do not use them; replacing the original by one must break a property, which shows
that the property can be broken.

### LeaderElection, LeaderTiming

A replica sleeps, samples the clock (`BeginAttempt`), GETs the Lease and decides
(`GetThenWrite`, `GetThenWait`: `action_for_lease`), writes it under the resource
version it read (`ServerAnswers`: the server's compare-and-swap, external), and
stores the outcome in the flag before it sleeps again (`WriteReturns`). Any call
may fail for the caller. A write whose caller gave up is lost, or already
applied, or arrives later (`OrphanArrives`), as is one whose process crashed. A
replica restarts under its old identity, as a restarted container does. Clocks
differ by `Skew`. The history variable `renewedAt` remembers the clock of the
renewal the flag stands for.

`FreshLeaderHoldsLease` says how long the flag may be believed: until some
replica's clock is past `Duration` after that renewal. It has no such bound in the
code: while a renewal hangs, the old value stays up and another replica may take
over. The property states exactly what remains true.

`LeaderTiming` adds one assumption, that a sleep ends on time and an attempt
takes at most `Latency`, and shows what the constants of the code (15 s, renewed
every 5 s) are for. Its `ASSUME` is the arithmetic behind it: with `Period` the
longest time from one attempt's start to the next's,
`(MaxErrors + 1) * Period + Latency + Skew[q] - Skew[r] <= Duration` for any two
replicas. The proof needs it as it stands, skew included.

`FailoverBound` is how long the Lease may stay unrenewed while a replica runs. It
holds one attempt more than the failed calls and the successful one: a write of a
replica that died meanwhile may land after a survivor's GET and cost it a conflict.
A bound with one tick in place of that attempt passes the run, but not the proof, and
TLC refutes it for `Latency = 2` and no failed call.

### Binder, BinderPass

`apply_bindings` is sequential, so one program counter and one entry number are
all the control there is. The GETs of the group preflight (`ReadMember`,
`JudgeGroup`), the final GET (`FinalCheck`), the POST (`PostAccepted`,
`PostRejected`, `PostFails`) and the GET after a failed POST (`Confirm`) are steps
of their own; others bind, delete and recreate pods in between. The Binding names
a pod but carries no uid; the server binds whatever bears the name. `mutations`
records what the server really persisted, whatever the binder came to know of it.

A pod is a uid, a node, a deletion mark and a kind, "ours" or one reason to refuse
it; the reasons' wording is left out, as are the payloads.

`BinderPass` starts a pass (`PassInit`, `PassNext`, `PassSpec`) with every order of the plan and at most one odd pod
(foreign, finished, DRA, stale, above the canary limit).

### ReservationLedger

`Reserve`, `Release`, `Expire` and `ReconcileObserved` over a cluster that
changes in any way between them. Reservations are a function from ids to entries
and a remaining lifetime; a `Tick` takes one from each lifetime, so that no
absolute time is needed. Entries come from any plan, with unknown or empty
identities too. Capacity and quota are checked as in `validate_capacity` and
`validate_quota`: what runs plus all that is reserved. `CommittedFits` is about
both.

### ShadowPass

`Collect` (snapshot, expiry, reconciliation), `Solve` (a placement, the plan, the
reservation), the steps of `Binder`, `Conclude` (keep or release), and their
failures; beside them the watch delivers (`WatchDelivers`), time passes, pods
change, late POSTs arrive, and the process may die at any step and start again
with an empty ledger and an empty watch (`Restart`). The solver is an oracle: any
placement that fits the snapshot and could not take another workload. It does not
see the ledger, as in the code. One history variable is kept: `uncovered`, whether
a bind ever happened that neither the snapshot of the pass nor a reservation
accounts for.

What protects the nodes is the ledger, and it is lossy by design: reservations
expire, are released when no bind was confirmed, and die with the process.
`ReservationsHoldNodes` states the exact condition: as long as nothing was
`uncovered`, no node is overcommitted. Ids of reservations are renumbered when the
ledger is reconciled; nothing but their equality matters.

### ObservedPods, WatchState

`ObservedPods` has a history of the cluster, a moment of it and the pods shown:
the pods in scope at that moment. Moments never go back and catch up.
`WatchState` is the task with its stream, its list and its buffer: `InitArrives`,
`Listed`, `InitApplyArrives`, `InitDoneArrives` and `ApplyInitDone` (the flag goes
up before the buffer is swapped in), `ChangeArrives`, `ErrorArrives`,
`StreamEnds`, `Restart`. `ShowsMoments` is the refinement:
`View == INSTANCE ObservedPods`, with the moment mapped to the version whose
events have been applied. A recreated pod is another pod (keys hold the uid).

### SolveRound

One round over a fixed problem. `Candidates` and `Signature` are
`prune_candidate_nodes` and `grouping_node_signature`; `SolveGrouped` and
`SolvePhysical` return any solution of the hard constraints, or none (a solver may
run out of time); `PlaceUnit` is the first-fit of
`expand_grouped_solution_to_physical`, one unit at a time, with
`ExpansionFails` falling back to the real nodes; `Suspicious` is `retry_reason`,
`WidenedLimit` doubles the limit once and then lifts it; `Worse` and
`KeepPrevious` are the guard against a wider attempt that yields nothing.
`RegretStatus` is the label that tells the binder whether pruning may have cost
something (`summarize_candidate_quality`).

`PodsAreExpanded` compares the expansion with a reference definition: wherever it
gives up, no assignment of the units to real nodes exists (`Packable`). It is about
single pods of which any two sizes divide each other, as GPU counts mostly do. For
others first fit is not exact: pods of 4, 4, 3, 3, 3 and 3 GPUs fit on two nodes of
ten, and the expansion, which puts both large ones on one node, refuses them. A
refusal sends the attempt to the physical solve.

### GpuCluster, PendingInput, RepairAdvice, DecisionRound

`GpuCluster` holds the snapshot of a round: nodes with their GPUs, memory, zone and
GPU link, pods with requests, gang and rules, policies. A selector is the set of
the pods it matches. `PendingInput` follows `build_pending_input`: a gang is one
workload with a representative (`First`), some gangs are dropped before any node
is looked at (`Malformed`), the others get `Feasible` nodes, filtered against the
pods that run; rules between waiting pods become pairs of gangs (`Apart`), quotas
become bounds on sums (`QuotaLimit`). `Solutions` is everything the integer program
allows. `DecisionsAreAdmissible` then judges the decisions pod by pod, without
gangs, pairs, representatives or residuals: it is the reference definition of the
whole translation.

`RepairAdvice` is the advisor step by step: `Begin` picks a gang without a place,
`OpenNode` a node that could hold it as a whole and the `Window` of its candidates,
`Branch` expands one call of the depth-first search (the stack is explicit),
`Accept` and `GiveUp` are its two cuts, `CloseNode` compares plans across nodes.
`PlanMakesRoom` carries a plan out on the cluster; `SearchIsExact` compares the
search with an enumeration of all subsets.

### JobServer

The manager and the pages of `index.html`. `Report` spawns a publishing task and
`Publish` is that task, in any order; `Finish` ends a job under one lock;
`Subscribe` and `FirstEvent` are the two steps of `job_events`; `Poll` is what a
page does when its stream breaks. Connections break (`Drop`) and the server
restarts (`Restart`): it counts ids from 1 again, while pages keep theirs (`run` is
history and tells which run of the server an id is from). The channel holds 32 updates and an analysis sends fewer
(`ChannelAssumption`), so no subscriber lags.

### AnalysisCache

`analyze_inner` as the jobs run it, over paths, temporary files and open inodes:
`Open` truncates or creates `<file>.tmp`, `Fill` writes, `Rename` publishes. A file
that another job renamed stays open: its writer then writes into the published
file (`fd`). Values are their provenance: a snapshot is who collected it and when,
a normalized cluster is the snapshot and the options it was made with. A cache hit
returns what the path holds; `NormKey` leaves out the overflow bound, as the code
does. A cached snapshot counts as missing when it is too old or has another schema
(`Usable`), unless it is named as a file. `overlapped` remembers the paths two jobs had open at once.

## Runs

| Run | Bounds | States | What it shows |
|---|---|---|---|
| `leader_election` | 2 replicas, Duration 2, Interval 1, clocks one tick apart, clock up to 5, one failed call, one crash, 2 transitions | 3.9 M | the flag, the Lease and late writes agree |
| `leader_timing` | 2 replicas, Duration 5, Interval 1, Latency 1, clock up to 14, one failed call, one crash | 5.5 M | one failed renewal displaces nobody; a dead leader is replaced within the bound |
| `binder_pass` | a gang of two and a single pod in every order, 2 nodes, 2 binds per pass, 2 failed calls, 2 late POSTs, one step of others, one recreation | 316 k | throttle, final gate, group preflight, confirming GET |
| `ledger` | 2 pods of 1 and 2 GPUs, 2 nodes of 2 and 3, 2 tenants, one with a quota of 1; 3 reservations, 2 identities per name | 81 k | capacity and quota, stability, retention, expiry |
| `shadow_pass` | 3 pods for 2 nodes of one GPU, 2 binds per pass, one failed call or restart, one late POST, one change, one recreation | 1.6 M | overcommitment exactly when the ledger lost sight of a bind |
| `shadow_live` | a gang of two and a single pod, room for all, one failed call or restart, one late POST | 54 k | every pending pod is bound in the end |
| `watch` | 2 pods, 4 changes, 2 errors or ends of the stream | 369 k | the refinement of `ObservedPods`, an honest flag |
| `solve_round` | 4 workloads on 3 nodes, 14 problems with pairs, urgent and late work, one candidate at first or all, 70 % admission wanted | 67 k | placements are physical, labels true, incumbents kept, rounds end |
| `decision_round` | 3 nodes in 2 zones, 5 pods, one namespace; over 3000 clusters: a pair and a single pod beside running ones under every mix of rules, or a pod that needs room; 3 repair candidates | 92 k | decisions are admissible; plans make room; the cut search is exact |
| `round_unsuited` | the clusters of the second kind, the waiting pod suits no node | | the finding below |
| `job_server` | 2 pages, 2 progress updates per job, one broken connection, one restart | 305 k | the end is on every stream, is final, and is learnt; a report is another page's only if a later run gave that page the same id |
| `analysis_cache` | 2 jobs with 6 pairs of requests, age limit 1, clock up to 3, one failure; a snapshot found at the start may be of another schema | 3.6 M | torn files, shared entries and old snapshots are as rare as the code can make them |

Why these bounds are enough to be worth something:

- Two replicas are the smallest number at which an election can fail, and every
  property is about a pair of them. Five ticks hold a renewal, its expiry, a
  takeover and the expiry of that; one error and one crash give a late write of
  either origin behind each of them.
- Three pods are the smallest plan with a gang, an outsider and room for the
  outsider before, between and behind the members; `MaxBinds = 2` makes the
  throttle bite at every one of these places.
- A ledger with three reservations has one that lapses, one that shrinks and one
  granted over both.
- Two errors break a list and the list after it. Four changes suffice to create
  and delete both pods around them.
- In `solve_round` the limit goes through all its values (1, 2, none), and nodes
  fall into one, two and three groups.
- Five pods give a gang, a rival and two running pods on different nodes of one
  zone; three candidates on a node are the fewest for which the order of the
  search, its two cuts and ties between sets matter.
- Two analyses share every file, and the six pairs of requests are those that meet
  in a key, bypass a cache, or differ in the overflow bound only. Three ticks are
  more than twice the age limit. Two updates overtake each other.

`CHECK_DEADLOCK FALSE` is set where the system or its bounded model really stops:
a round, a pass, a job or a page that ended, a clock at `MaxClock`. In all other
runs deadlock is checked.

## Fairness

- `LeaderElection`, `AnalysisCache` and `DecisionRound` have none: their
  properties are about safety. `LeaderTiming` puts the schedule into the guard of
  `TimelyTick` instead: time does not pass an attempt that is due. "In time" then
  is an invariant.
- `ReservationLedger`: weak fairness of `ReconcileObserved` (the loop runs on an
  interval and reconciles in each pass) and of `Tick`.
- `ShadowPass`: weak fairness of the loop as a whole, of time, and of the watch
  for each pod. Which failure happens, which solution is returned and in which
  order pods are placed is never assumed to be fair; failures and restarts are
  bounded.
- `WatchState`: weak fairness of the task, which polls its stream for ever; errors
  are bounded, so that a list is completed in the end.
- `SolveRound`: the round goes on. The solver has a time limit, so it returns.
- `JobServer`: weak fairness of each running analysis (a task of the runtime that
  ends) and of each page's watching (a browser reads what it is sent). No fairness
  for the publishing tasks: the end must be learnt even if they never run.

## Findings

Each of these runs is expected to end in a counterexample.

- `round_unsuited`, `RoomIsOfUse` (`repair.rs` 543). The README says that the
  repair plan distinguishes fragmentation from a workload that cannot fit any GPU.
  `merge_group_feasible_nodes` takes an empty list of feasible nodes for "no
  restriction", while the normalizer leaves it empty exactly when no node accepts
  the pod; so advice is given to move or preempt running pods for a pod that could
  not start on the cleared node.

## Known divergences, not run

Met while modelling. Each is either stated as the exact limit of a property, or
left out of the models.

Binding path:

- `config.rs` 43 calls a gang all-or-nothing. The throttle is checked for the whole
  group at its first member only (`binder.rs` 405): with a plan `a, single, b` and
  two binds per pass, `a` and `single` use it up and `b` is skipped. With the
  members side by side this cannot happen (`ContiguousGroupIsWhole`).
- The reservation of a pass is released when it confirmed no bind (`shadow.rs`
  5823). A POST whose answer and confirming GET were both lost may still arrive
  after the next pass has given the GPU away, against the header of `ledger.rs`
  (`uncovered` in `ReservationsHoldNodes`).
- The placement of a pod with resource claims is advisory (`binder.rs` 69), but the
  ready entries include it; with a GPU count of zero the ledger rejects the
  reservation of the whole pass (`ledger.rs` 249), and nobody is bound.
- The leader flag stays up while a renewal hangs; a pod recreated after the final
  GET is bound in place of the planned one (`FinalCheckVets` says that nothing else
  is); a group larger than `max_binds_per_pass` is never bound; a reservation that
  was kept counts against the next plan of the same, still unbound pods until it is
  observed or expires (`PendingIsBound` shows that this only delays them).

Solve and decisions:

- Workloads carry the requests of a whole gang and the solver divides them by its
  size, as a comment says (`pending_input.rs` 83). The expansion (`pending_input.rs`
  771) does not divide and asks the node of every member for the total: a gang that
  has to spread is refused and node grouping falls back to the physical solve. For
  single pods whose sizes divide each other the expansion is exact
  (`PodsAreExpanded`).
- A comment at `pending_input.rs` 1056 says that a pod that is already bound but
  still shown as pending must not be a decision variable; nothing filters it. The
  binder's GET catches it.
- Whenever a prediction exists and no node is left, the reason blames predicted
  VRAM (`VramBlamed`), and the repair advisor then refuses to advise.
- Selectors that match only some members of a gang are not enforced
  (`Alike` in `DecisionsAreAdmissible`), nor are zone rules and topology spread
  between gangs placed in the same round.

Repair: across nodes the plan with the fewest actions wins before cost, within a
node the cost comes first, so one preemption may beat two migrations (README of
the repository, 236-237). Targets of moves are first fit, so a plan another order
would find may be missed (`SearchIsExact` is exact under it). The deficit of an
overcommitted node is not counted (`PlanMakesRoom` says so). Plans ignore room
given to pods placed in the same round, and plans of different gangs do not know
of each other.

Server: the key of the normalized cluster leaves out
`max_memory_overflow_probability_percent`, a model input that the test
`normalization_key_changes_when_model_inputs_change` (`state_cache.rs` 960) does not
try (`Rival` in `ReportIsOfRequest`). Two writers of one file may
publish a torn one (`overlapped`). A refresh of usage renews the age of an old
cluster, once (`SnapshotIsRecent` allows twice the limit). After a restart ids are
given out again, and a page that asks by its old id may get the report of the page
that has it now (`ReportIsOwn` says that this is the only way to get another's). The strict retry does not append to the history.

## Proofs

The theorems hold for every value of the constants that the named assumptions of
the modules allow: any number of replicas, pods, nodes, pages, jobs, errors and
changes, any skew within the margin, ttl and throttle.

`LeaderElectionProofs`: `TypeCorrect`, `FreshLeaders`, `NoSplitBrain`,
`TakeoverSafe`, `RenewMonotone`, `TransitionsCounted`. The property about the flag
is not inductive: a late write could do anything to a Lease about which nothing is
known. `IInv` therefore says of every write in flight, awaited or orphaned, what
the Lease must be for the server to take it: if the version still matches, then
the Lease is still the one the write was computed from, so it is the writer's own,
free or expired by the writer's clock (`RequestSound`, `OrphanSound`); what an
attempt knows (`AttemptSound`), what the Lease itself satisfies (`LeaseSound`) and
what a raised flag stands for (`FlagSound`) complete it.

Of the timed election: `TimelyIsElection` (the timed specification only removes
behaviours, so everything above holds of it), `RunningLeaderIsKept` and
`LeaderIsReplaced`. `OnTimeInv` bounds the age of the holder's last renewal at each
point of its loop: one `Period` for every failed call that was counted, and one
`Period` still in hand while a write of its own may yet land and make its next
attempt lose the race (`LoopOnTime`, `RequestOnTime`, `OrphanOnTime`,
`HolderOnTime`). With the margin of `RenewalMarginAssumption` nobody's clock finds
the Lease expired. `FailoverInv` says that all but as many replicas as crashed are
`Prompt`: the attempt that is due is early enough for every failure still to come
and for one conflict, or it already overtakes whatever could conflict with it.
With fewer crashes than replicas one of them is left to renew the Lease.

`BinderProofs`, of a pass: `TypeCorrect`, `BindsAreVetted`, `PassIsThrottled`,
`GroupsAreVetted`, `BindsAreConfirmed`, `GangsAreWhole`. Invariants build on each
other: `Placed` (types, and where the counter may stand on which entry), `Vetting`
(an entry at its POST passed the final GET, and pods with its name are that one or
younger; the same for every late POST), `Counting` (binds that happened against
binds that were counted and calls that failed), `Grouping` (every group behind its
first member is either skipped or fully read and approved in the cache). The pods
are shared with others and with late POSTs, so each is also shown to be stable
under their steps. `Confirming` keeps the account behind `ConfirmFindsBinds`: a
landed bind nobody reported has cost two failed calls, and one that is still in
doubt has cost one. `CalmInv` gives each gang in an undisturbed pass its `Fate`: not
reached; sealed, with nothing bound; in the hands of the preflight, with its share
of the throttle kept; or going through, with what is behind bound, what is left next
in the plan, bindable, and still within the throttle.

`BinderProofs`, of the loop (`ShadowPass`): `PostsReserved` and
`NoNodeIsOvercommitted`, for any number of passes, restarts, late POSTs and expiring
reservations. "No node is overcommitted" is not inductive, because a POST that is
accepted adds to a node without another look at its capacity. `LoopInv` therefore
bounds, for each node, what runs there together with what some reservation may yet
bring to it (`Room` over `Holding`), as long as nothing was `uncovered`. A POST, at
once or late, then only turns a pod that was reserved into one that runs. The room is
made when a reservation is granted: the ledger's capacity check adds up the pods of
the snapshot and all reservations, and what runs by then is in one of the two
(`SeenStays`: a pod the snapshot shows bound is there or gone; `Noticed`: one bound
behind the snapshot is reserved). `PlanReserved` and `Sent` give `PostsAreReserved`.

`ReservationLedgerProofs`: `TypeCorrect`, `GrantsStable`, `HeldUntil`,
`CommittedAlwaysFits`. Ids below `nextId` are never given out again, below the limit
at which the counter saturates; the two action properties follow action by action.
`CommittedFits` needs that the ledger can be summed at all, which is the other half
of `Solvent`; every operation but `Reserve` leaves a ledger within the old one, and
`Reserve` adds what `ValidateCapacity` and `ValidateQuota` have added up before.

`WatchStateProofs`: `TypeCorrect`, `FlagIsHonest`, `ShowsMomentsInOrder`. The last
one is the refinement `Spec => View!Safety`. `IInv` ties each phase of the stream
to the buffer: while paging, the buffer holds exactly the listed pods in scope that
have already been read (`StreamOk`), what is shown is the scope of the moment
shown (`ShownOk`), the history moves on by one pod at a time (`HistoryOk`), and the
flag is down until a list of this stream is complete (`FlagOk`).

`SolveRoundProofs`: `RoundIsTyped`, `PlacementsArePhysical`, `FullIsFull`,
`IncumbentStays`, `WidensTwice`, `SuspiciousIsWidened`, `PodsExpand`. `Progress`: there are at most
two retries, the limit is gone in the second, and no attempt has been accepted before
the first. `RoundInv` says what the first fit keeps at each unit (`Expanding`): what
is placed and what is still to be placed make up whole workloads, every unit goes to
a node that suits it (nodes of one group suit the same workloads), and a node's
residual plus what was placed on it is within what it had free; and what attempt and
trace say of their candidates (`EdgesTold`), from which `FullMeansFull` follows by
comparing counts of edges.

`PodsExpand` (`PodsAreExpanded`) needs no exchange of units between nodes, only
counting. `LargeFirst` says that a node's residual and what was taken of it are all
it had, and that no waiting unit is larger than one that is placed. When a unit of
size `s` finds no room in its group, all that was placed is therefore of sizes that
are multiples of `s` (`OnlyLarge`, `LargeIsMultiple`), and so is all that a solution
for the real nodes puts there of at least that size. A node of the group has less
than `s` left, so it cannot hold a larger multiple of `s` than it does
(`NoRoomIsWasted`, `FullNodes`). Added up over the group, once by node and once by
workload (`ByNodeOrByWorkload`), a solution that took as much from the group as is
placed and still to be placed would need at least `s` more than that
(`Outweighs`, `NothingHelps`).

`DecisionRoundProofs`: `AdmissibleDecisions`, `PlansMakeRoom`, `SearchesAreExact`,
for any finite set of nodes and pods and any rules between them.

- What the decisions satisfy is shown of every solution at once (`Admissible`), and
  the rest of the round leaves placements alone. A solution gives each workload as
  many replicas as it has members or none; the nodes of the members follow from
  their ranks (`NodeOf`), so a node gets no more members of a gang than the
  solution put there (`UpTo` grows by `On`), and the GPUs of what a node holds are
  at most what the solver's capacity constraint added up. Pairs, co-location and
  quotas are carried over from gangs to their members in the same way.
- `PlanMakesRoom` is about finished plans only; `PlanInv` says what every call that
  is still on the stack satisfies (`IsSound`): its residuals and budgets are those of
  the cluster less what its moves took, no pod is moved twice, what it has freed is
  the GPUs of the pods it moved, and its candidates are still on the node. The best
  set and the best plan inherit this (`CanBeTaken`).
- `SearchIsExact` is about finished searches; `ExactInv` says it of a search that
  goes on. Every set of candidates whose actions free enough is either settled, that
  is, the best set so far is no worse, or some call on the stack leads to it: the
  call has taken what comes before its own rest (`IsRest`), with the same actions
  (`LeadsTo`). Taking the candidates of a set in order can be split anywhere
  (`OutcomesGoOn`), which is what `Branch` needs; `Hopeless` gives up only what cannot
  free enough or cannot get better, as cost and number of actions only grow and what
  is freed never exceeds what is left (`GoesOn`); `Accept` may stop at the first set
  that suffices because every longer one costs as much with more actions.

`Sums` has what these proofs need of sums over finite sets: they do not depend on
the order, grow with terms and indices, add up over disjoint sets and term by term,
are at most the sum of a cover, and the sum of a table is the same by rows and by
columns (`SumSwap`, `SumWeighed`). The induction over the set is done without an induction theorem:
were a fact false of some subset, it would be false of a minimal one (the strict
subset ordering is well founded), of which one element can be taken away. The same
argument shows what `Selections` selects.

`ServerProofs`, of `JobServer`: `StreamsEnd`, `ReportsAreOwn`, `DoneStays`. `IInv`: a job that is
done shows its end (`JobsOk`), only unfinished jobs are being analysed
(`AnalysesOk`), a stream of a job that ended has the end last in its queue, or will
get it as its first event (`StreamsOk`), each run of the server
gives an id to one page, whose job has it (`OwnersOk`), and a report of another
page was asked for under an id that a later run had given to that page
(`ReportsOk`), which no further restart changes.

`ServerProofs`, of `AnalysisCache`: `FilesAreWhole`, `ReportsAreOfRequests`,
`SnapshotsAreRecent` (`CacheInv`). A torn file needs two writers: `AloneOk` says of a job that
has a file open what else may be open on that path unless it is `overlapped`.
`FilesFit` and `HandsFit` say that every entry, published or still in some job's
hand, was made from what its key names; `LocalsOk` that a job's locals fit its
request at each stage.

Only model-checked is liveness (`EventuallyFreed`, `PendingIsBound`, `RoundEnds`,
`WatcherLearnsTheEnd`, the liveness part of `ShowsMoments`): the prover does not
handle fairness and `ENABLED`. Every invariant and every other action property of
the passing runs is a theorem.

What both rest on: the API server applies a write only under the version it
names, and binds a pod only once; uids are not reused; in `ShadowPass` only
KSolver binds GPU pods; the watcher of kube-runtime delivers events as
`WatchState` describes, in order; the solver returns no solution that violates
its constraints; a rename is atomic and hashes do not collide.

## What is not modelled

In the parts above: metrics, logging, wording of reasons, payloads of Bindings and
Events; GPU resources other than one counted kind per node (the ledger counts
`nvidia.com/gpu` and MIG slices only, whatever the configuration names); the
objective and all soft scores; flexible admission and budget groups; more than one
disruption budget per namespace or selector of a kind per pod; the cut of the
advice at eight plans; the files of `state_cache.rs` nobody reads back into an
analysis (latest request and report, scenarios, history, pricing); the second
replica next to the loop; the event filter and the ring of traces, which nothing
in the program reads back to act on.

The other parts have their reason in `PROJECT.json`. Most of the repository's lines
are of these kinds: benchmark scenarios and demonstration data
(`gpu_scenarios.rs`, 13 000 lines), tests inside the source files (two fifths of
`shadow.rs`, three fifths of `pending_input.rs`), rendering of dashboards and reports,
and data conversion (collector, normalizer, prices, predictions). They have no
state and no order of steps to go wrong; a model of them would be their text again.
What has is in the modules, so the share of all lines that is modelled stays low.

## Plan

Done: the election, the binder, the ledger, the loop of one replica with its
restarts, the watch, the solve round, the translation to the solver and back, the
repair advisor, the job server and its caches, with proofs of all of them.

What would come next, most important first:

1. `ShadowReplicas`: two loops with `LeaderElection` in place of an oracle: the
   flag checked before the solve and before the pass only, each replica with a
   ledger of its own. To be checked: how many passes may overlap and what they can
   do to a node.
2. That `ReservationLedger` implements an abstract ledger of promises.
3. `EventFilter` and `TraceStore`: each change of a decision is emitted once, or
   lost only with a failed call; the latest trace is the latest round.
4. The gates of the rollout modes in `config.rs` against their documentation.
