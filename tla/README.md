# Verification of aws-multi-eni-controller

TLA+ models of the controller, TLC runs that check them on small instances, and TLAPS
proofs for every value of the constants. Paths are relative to the repository root, which
is called `src/` here.

Modelled are the NodeENI reconciler with its cleanups, the worker pools and the
coordination manager those go through, the reconciler's device indices and DPDK unbinding,
the eni-manager's passes over the SR-IOV file, the DPDK manager, both circuit breakers, the
dependency manager and the mapping store. The last two sections say what is not, and what
is left to do.

## The system

A **NodeENI** is a custom resource: a node selector, subnets, security groups. For every
node that matches the selector the **controller** creates an elastic network interface
(ENI) in each subnet, attaches it to the node's instance, and records it in
`status.attachments`; it deletes ENIs of nodes that no longer match and of NodeENIs that
are deleted. The **eni-manager**, a daemon on each node, brings the interfaces up, binds
some to a DPDK driver and writes the SR-IOV device plugin's configuration.

### Inventory

| Component | State | Operations | Correct when |
|---|---|---|---|
| NodeENI reconciler (`pkg/controller/nodeeni_controller.go`) | none between calls; the NodeENI's finalizer, cleanup-start annotation and status in the API server, and the ENIs in EC2 | `Reconcile`, `handleDeletion`, `processNode`, verification, `createMissingENIs`, stale detection, cleanups, the two update-with-retry loops | one ENI per node and subnet; none taken from a node that should have it; none lost; a NodeENI goes only after its ENIs, and does go |
| Parallel cleanup (`pkg/controller/parallel_cleanup.go`) | two channels, a wait group, a context | workers, result collection | every attachment gets a result, a failure is never counted as success |
| Coordination manager (`pkg/controller/coordination.go`) | table of expiring locks, registered dependencies | `ExecuteCoordinated`, acquire, release, sweep | mutual exclusion per resource, no lock left behind, no call waits for another |
| Dependency manager (`pkg/controller/dependency_manager.go`) | graph of operations | add, complete, cycle check | no cycle, a refused addition changes nothing |
| EC2 client and facade (`pkg/aws`) | caches of subnets and groups, rate limiters | create, attach, detach, delete, describe, wait | an error means what the reconciler takes it for |
| AWS circuit breaker (`pkg/aws/retry`) | state, counters | `Execute` | bounded requests when half open; leaves every state |
| ENI-manager coordinator (`pkg/eni-manager/coordinator`) | maps of processed NodeENIs and resource versions | two goroutines that process NodeENIs, deletion handling | what is configured follows the NodeENIs; a failure is retried |
| DPDK coordinator, manager and breaker (`pkg/eni-manager/dpdk`) | bound interfaces, a lock per device, breaker | bind, unbind, batched updates | one operation per device, a time-out leaves no lock taken |
| SR-IOV manager (`pkg/eni-manager/sriov`) | the device plugin's file | read-modify-write updates by two managers, each with a mutex of its own | the file always has a resource, and no placeholder beside a real one |
| Mapping store (`pkg/mapping`) | map with two indexes, a file | add, update, remove, save | a mapping is found by its address; memory and file agree |
| Kubernetes client, network manager, library, configuration, metrics, entry points | little or none | I/O, parsing, wiring | not modelled |

`PROJECT.json` lists each with its status, and the hazards with their lines.

### How the parts interact

- The API server and the reconciler: a call reads the NodeENI from the **informer's cache**,
  which may lag behind; it writes with the version it read, meets conflicts, and retries on
  what the cache shows by then. Others write to the object between any two steps.
- EC2 and the reconciler: ENIs change state on their own (a detachment takes time), by
  other people's hands, and with the termination of an instance. A request may fail, or
  happen although its answer is an error.
- Cleanup workers: a batch of attachments is cleaned up by several goroutines at once;
  with more than one attachment each goes through the coordination manager, which may
  reject it.
- Reconciler and eni-manager communicate through the NodeENI's status only.

The hard behaviours are therefore stale reads, conflicts, a crash between recording the
cleanup's start and removing the finalizer, partial failure in a batch, time-outs that
race a late success, and locks that expire under their owner.

## Modules

### `NodeENIController`

One NodeENI, and everything that acts on it.

| State | Code |
|---|---|
| `server`, `cache`, `synced` | the object as the API server and as the informer have it: deletion state, finalizer, annotation, ENIs of the status |
| `elapsed` | `MaxCleanupDuration` since the annotated start |
| `aws`, `running` | ENIs and instances in EC2 (external) |
| `selected` | the nodes `List` returns for the selector |
| `pc`, `call` | where the reconcile call is, and its locals |

`call.fresh` says whether the copy a call works on has the server's resource version:
versions need no numbers, because a write is a conflict or not.

A step is one request to the API server or to EC2, or several about one ENI between which
nothing others do makes a difference. Actions, in the order of the code:

| Actions | Code |
|---|---|
| `Reconcile`, `HandleDeletion` | the branches of `Reconcile` and `handleDeletion`, from the cached copy |
| `UpdateSucceeds/Conflicts/Fails` | the retry loop of finalizer and annotation updates |
| `SaveSucceeds/Conflicts/Fails` | the retry loop of status updates; the caller goes on either way |
| `NextNode`, `VerifyAttachment` | `processNode`, `verifyAndUpdateAttachment` (`isAttachmentValid` is a `DetachENI(force = false)`) |
| `MissingSubnets`, `CreateENI`, `AttachENI`, `UndoCreate` | `createMissingENIs` and the deletion of an ENI that could not be attached |
| `CheckStale` | stale attachments of unselected nodes, terminated instances, lost attachments |
| `BeginCleanup`, `Detach`, `WaitForDetachment`, `Delete`, `CleanupDone` | the cleanup of each attachment by the workers, and what the call does with the results |
| `UserDelete`, `OtherWrite`, `CacheSync`, `Elapse`, `Relabel`, `AwsDetached`, `ActedOnByOther`, `Terminate`, `Crash` | the rest of the world |

`Faults` and `Outside` choose what may go wrong and what others do; the specification is
one, the runs and the proofs differ in these constants. The proofs hold for all choices.

Bounds: `ENIs` bounds the ENIs that exist at once (an ID is handed out again when nobody
remembers it); `RetrySteps` is the number of attempts on conflicts.

### `Coordination`, implementing `LeaseTable`

The lock table and `ExecuteCoordinated`. An action is one critical section of the
manager's mutex: sweep, conflict check, dependency check, one turn of the acquisition
loop, one turn of a release loop. A lock's context is `live`, `aged` (older than the thirty
minutes of the sweep) or `done`; `Expire` and `Age` let time pass at any moment. `lost` is a
history variable: locks that expired or were swept under their owner. `NodeENIController`
uses of this module one fact only, that the manager may reject a cleanup (fault `lock`).

`LeaseTable` is the abstract specification: a client works only with a lease on all it needs,
but for those that ran out under it; a lease is granted when it is free, and ends by its
holder's hand or by running out. It has no table with stale entries, no sweep, no conflict check,
no contexts and no order of requests. Under the refinement the holder of a lease is the owner of
a lock whose context is not done (`leaseHolder`), who works is who executes (`atWork`), and
what `lost` records is forfeited (`forfeited`). The conflict check, a release of a lock that
somebody else has by then, and the removal of stale entries are stutters; a sweep may make
several leases run out at once.

### `CleanupPool`, implementing `FinalizerContract`

`handleDeletion`'s call of `parallelCleanupENIs`: for each NodeENI a pool of workers, a
channel of attachments and a channel of results. `NodeENIController` keeps the steps of one
cleanup (detach, wait, delete); `CleanupPool` keeps the goroutines around them.

| State | Code |
|---|---|
| `phase`, `unsent` | where `parallelCleanupENIs` is (`send`, `abandon`, `wait`), or the update that removes the finalizer |
| `workChan`, `closed`, `results` | the two channels; of `resultChan` only which results are in it |
| `goroutine`, `work`, `succeeded` | each worker |
| `env` | the context of all reconciles, and whether EC2 and the API work |
| `finalizer`, `cleaned` | what the contract speaks of |

`StartWorkers`, `SendWork`, `CollectResults` and `RemoveFinalizer` are the reconcile's
goroutine; `TakeWork`, `WorkerExits`, `Acquire`, `Refused`, `CleanUp` and `Report` a
worker's. A `select` in which both the channel and the cancelled context are ready takes
either. A cleanup locks its ENI, or, with DPDK or SR-IOV, its node as well, and is refused
when somebody has a lock it needs (`coordination.go`, from which this module takes mutual
exclusion only).

`FinalizerContract` is the abstract specification: ENIs are cleaned up in any order, and a
finalizer goes when all ENIs of its NodeENI have been. It says nothing of goroutines. The
refinement is the interesting part: a worker whose context is cancelled leaves without a
result, and what results there are count as success. A pool that was cancelled can
therefore report success for ENIs nobody looked at; the finalizer stays because the update
that removes it runs under the same context. (The mutant `RemoveFinalizerDetached` gives the
update a context of its own, and the refinement fails.)

### `DeviceIndices`

One node's rounds of `processNode`: which indices are in use is worked out once
(`GetInstanceENIs` and the status), then an ENI is created and attached for one subnet
after the other, at an index that may be taken by then; an attachment that meets a taken
index is tried once more at the next free one. `subnetIDs` is a sequence with
duplicates, as `getAllSubnetIDs` returns it. Others attach and detach devices
(`MaxMoves`), attachments take time (`attaching`: EC2 does not list them as the instance's
yet), a subnet may be full, and other nodes may use an index for a subnet (`elsewhere`).
`MaxIndex` is a bound of the model: the search for a free index has none in the code, and
`IsAvailable` says that it ends below the bound.

### `DPDKUnbind`

`handleDPDKUnbinding`: the script that takes a device off its driver, written as its sysfs
writes, the verification, and the rollback. Each write may fail (`MaxFailures`), and the
stream to the pod may break while the script runs on (`lost`).

### `DPDKManager` and `CircuitBreaker`

`DPDKManager` is `BindPCIDeviceToDPDK`: the breaker's `canExecute`, which gives up its read
lock to take the write lock (`upgrade`), `acquireLock`, which waits for a device's lock with
the mutex of all held, the abandoned wait whose goroutine takes the lock later (`lost`), and
the script. `CircuitBreaker` is `pkg/aws/retry/circuit_breaker.go`, with a request asking
twice (`allowRequest` and `Execute`), as `executeWithCircuitBreaker` does, and results that
arrive in a later state of the breaker. `probes` counts the requests of one half-open period.
The thresholds are constants; `half_open` and `stuck_breaker` have the values the program
ships, `parts` smaller ones.

### `MappingStore`

The mappings, the lookup map by address (the code has two that behave alike), and the file
they are written to. `saving` is a write under way: it may fail, or the process may stop in
the middle, which truncates the file (`torn`). As in the code, nothing keeps two mappings from
having one address: a new mapping takes over the entry under its address, a changed one leaves
its former entry behind, and a removal deletes the entry under the address, whichever ENI that
names.

### `DependencyGraph`

`dependency_manager.go`: `AddDependency` with its cycle check, the recursive order, and the
manager that fills the graph with the steps of an ENI's attachment or detachment while
callers complete what is ready. `GraphNext` calls the graph with arbitrary operations,
`ManagerNext` as the manager does. What the cycle check's search meets (`Reach`) is stated
without recursion: the least set that contains the start and what its members wait for.

`ResolveDependencyOrder`, a recursive search, is a state machine: `path` is the stack of its
calls (the IDs marked `visiting`), `visited` and `order` are the code's, a step enters a call
(`Visit`) or leaves the innermost one (`Visited`), and the loops take their IDs in any order, as a
Go map yields them. The search reads under the graph's lock, so writers wait (`Unlocked`);
`search` says whether it runs, or has met a circular dependency.

### `NodeAgent`

The eni-manager on one node. Two goroutines, the ticker's and the watcher's, run
`processNodeENIs`; a pass lists the NodeENIs, cleans up after those that are gone, binds and
unbinds DPDK devices, and publishes resources in the device plugin's file.

| State | Code |
|---|---|
| `cluster`, `interfaces` | the NodeENIs of the node in the API server (resource version, DPDK or not), and those whose network interface shows on the node now |
| `file`, `writing` | the configuration file, a set of entries (resource, driver, device) or `Torn`; the passes that have truncated it and have still to fill it |
| `previousNodeENIs`, `lastNodeENIStates`, `nodeENISRIOVResources` | the coordinator's maps |
| `DPDKBoundInterfaces`, `lastDPDKStates` | the DPDK coordinator's |
| `mutex`, `pc`, `list`, `deleted`, `updates`, `config` | the coordinator's mutex, and a pass with its locals |
| `serial`, `history` | whether the passes of this behaviour happen not to overlap; what has gone wrong |

A step is one critical section, or one access to the file. Each change of the file is a load
(`LoadAndChange`), the truncation by `os.WriteFile` (`OpenFile`) and the filling (`Filled`), with
steps of the other pass in between; `RemoveResource`, `ApplyBatchUpdatesWithChangeDetection` and
`ensureMinimalSRIOVConfig` all have that form. There are two `sriov.Manager`s, the DPDK
coordinator's and the coordinator's, each with its own mutex (`ManagerOf`, `Unlocked`): a load
can meet a file the other manager has truncated, which does not parse and counts as the minimal
configuration, and two writers can leave a file of both texts, which does not parse either.

`WithUpdates` is `applyAddUpdate`: entries are merged by resource name, and a device that its
resource lists already stays as it is, drivers included, and gives the file no reason to be
saved. `updateSRIOVConfiguration` publishes the NodeENIs whose interfaces show; those whose
interfaces do not show after the wait of thirty seconds are left out, and their versions are
recorded with the others'. When the interfaces cannot be listed, the pass ends without a record.
`Collected` is the map of the DPDK coordinator's updates, which has one for each resource name.

What this abstracts: a NodeENI names one device, by PCI address; binding, and unbinding, several
devices is one step; unbinding takes arbitrary devices, since the code looks for an empty name;
the restart of the device plugin changes nothing kept here. No NodeENI names its resource like
the placeholder or the minimal configuration's resource (`ReservedNames`).

### Composition, model checking and proofs

`MCNodeENIController` and `MCNodeAgent` give the constants of one module. The others put modules
side by side: a behaviour picks one at the start and takes only its steps, so the runs stay few
and the state space is the sum of the modules and not their product.

| Module | Side by side |
|---|---|
| `MCController` | `Coordination` (with the constants of `MCCoordination`) and `NodeENIController` on two nodes that are relabelled |
| `MCCleanup` | `CleanupPool` (with those of `MCCleanupPool`) and `NodeENIController` with the failures it makes up for |
| `MCParts` | `CircuitBreaker`, `MappingStore`, `DependencyGraph`, `DPDKManager`, `DPDKUnbind`, `DeviceIndices` |

Each liveness property there assumes its own module's fairness (`PoolReturns` is
`EveryPoolReturns` of `CleanupPool` with that hypothesis, `GranularCompletes` is
`GranularDeletionCompletes`; the others keep their names). In `MCParts` the first subnet of the
list is fixed, since subnets are alike.

`X_proofs` holds the theorems about `X`, for `Coordination`, `NodeENIController`,
`CleanupPool` and `NodeAgent`; `NodeENIAttachments_proofs` continues
`NodeENIController_proofs` with what happens to single ENIs. The theorems about the parts are
theorems about `MCParts`, so that they state what the run `parts` checks: `Parts_proofs` has
the circuit breakers, the mapping store and the DPDK locks, `Devices_proofs` unbinding and the
device indices, `Graph_proofs` the dependency graph and the types of all parts.

## Runs

| Run (cfg) | Instance | Shows | States |
|---|---|---|---|
| `controller` (`MCController`) | locks: 2 workers; 3 operations, two share a resource, one waits for another. Reconciler: 2 nodes that are relabelled, 2 subnets, no faults | `NoOverlap`, `NoLeakedLock`, `ImplementsLeases`; `SelectedNodesGetENIs`, `UnselectedNodesLoseENIs` | 131,000 |
| `lifecycle` (`MCLifecycle`) | 1 node, 2 subnets, 3 ENI IDs; failing requests and all outside actors except writers of the NodeENI | `NoENILeftBehind`, `OneENIPerSubnet`, `SelectedNodesKeepENIs`, `StatusKeepsAttached` | 394,000 |
| `deletion` (`MCDeletion`) | 1 node, 2 subnets; lagging cache, conflicts, crashes, failing cleanups | `NoENILeftBehind`; `DeletionCompletes` | 20,000 |
| `cleanup` (`MCCleanup`) | pool: 1 NodeENI, 4 ENIs on a node, 2 workers; with and without DPDK, cancelled anywhere, failing cleanups and updates. Reconciler: 1 node, 2 subnets, 4 ENI IDs; the failures the code makes up for | `NoWorkerLeft`, `ImplementsContract`, `PoolReturns`, `GranularCompletes`; `NoLeak` | 535,000 |
| `parts` (`MCParts`) | 2 callers, 2 devices, 2 ENIs and addresses, 2 subnets (lists of up to 3), 3 writes that fail | `AtMostOneMoreProbe`; `EveryMappingIsFound`, `SavedMeansDurable`; `AlwaysOrdered`, `OnlyAfterPrerequisites`, `Drains`; `OneScriptPerDevice`, `EveryBindReturns`, `BreakerRecovers`; `UnbindIsAtomic`; `RecordedWhereAttached`, `NoMoreThanListed`, `EverySubnetServed` | 187,000 |
| `node_agent` (`MCNodeAgent`) | 2 passes that overlap over 1 NodeENI, or follow each other over 2 that share a name; interfaces that are late or come and go; one failing call, torn write, or restart | `MinimalAtRest`, `NoPlaceholderBesideReal`, `PlainKeepsDriver`; `EveryPassEnds`, `LiveIsPublished`, `DeletedIsUnpublished` | 236,000 |
| `coordination_timeout` | the lock table of `controller` | violation of `SerializedPerResource` | |
| `detached_by_hand` | 1 node, 1 subnet, an ENI is detached by hand | violation of `DetachedENIIsDeleted` | |
| `facade` | 1 node, 1 subnet, facade client, nothing fails | violation of `SelectedNodesKeepENIs` | |
| `stale_cache` | 1 node, 1 subnet, lagging cache, nothing fails | violation of `OneENIPerSubnet` | |
| `half_open` | the AWS breaker with the shipped thresholds | violation of `FewProbes` | |
| `stuck_breaker` | the same, under fairness | violation of `Recovers` | |

Each module's type invariant is checked with it.

Why the bounds are enough. Two subnets give a batch of two cleanups, with both the single
and the coordinated path; a second ENI ID for a subnet lets an ENI be replaced while the
old one still exists, which is what doubles and leaks need. `RetrySteps = 2` (5 in the code)
has a success after a conflict and the exhaustion of the attempts, the two outcomes there
are. Two nodes are only needed where one node's state must not affect the other's; that is
`controller`. Two workers and three operations give every pair of roles in the lock table:
holder and contender, owner and successor of an expired lock, sweeper and swept.

Four ENIs are the fewest that give a pool two workers (`calculateWorkerCount` is half the
attachments), which is where workers compete for work and for locks. Two callers and two
devices let one caller wait for a lock while another works on the other device, and two
callers are enough for a late result to meet a breaker in its next state. In `node_agent` a
NodeENI with two versions is created, changed and deleted under a pass; with two NodeENIs
one can keep the file from becoming empty when the other goes, and, as they share a name, one
update can take the other's place. To keep the run small, a behaviour that has had its fault
stops at fewer versions, a torn write is the only fault of overlapping passes, and in serial
behaviours interfaces only appear (`MCNext`).
`DeviceIndices` bounds what others do (`MaxMoves = 1`); `MaxIndex = 7` is larger than any
index the rounds reach. The thresholds of the breakers are 2 in `parts`, so that a count passes
through a value that is neither the first nor the last.

`lifecycle`, `deletion` and the violation runs of `NodeENIController` do not check for deadlock:
once the NodeENI is gone nothing is left to do. Neither do `controller` and `cleanup`, for the
same reason, and because the pools' process stops for good when told to; nor `node_agent`, where
nothing happens once the behaviour's versions are used up and `serial` keeps all passes but one
from running. `parts` and `coordination_timeout` do.

### What passing runs leave out, and why

- The reconciler of `cleanup` has no fault `delete`, `describe`, `wait`, `attachLost`, `api`, `crash` or `stale`:
  after a failed deletion of an ENI it could not attach the code logs and goes on, and
  after a lost answer nobody knows the ENI. The code accepts these leaks; the run shows
  that it has no others.
- `lifecycle` has no `stale` cache and no failing API: with them a second ENI can be created
  (`stale_cache`).
- All runs but `facade` use the default client.
- `lifecycle` has no other writers of the NodeENI, so no status update of it meets a conflict;
  `AttachedStaysListed` is proved with them. `deletion` has one worker for its two
  attachments; `CleanupBeforeGone` is proved for any number.
- `GranularCompletes` is about NodeENIs without DPDK and SR-IOV. Two cleanups that
  lock their node refuse each other, and a refused cleanup counts as failed: with four
  ENIs on a node each round can have a failure, and the finalizer stays until
  `MaxCleanupDuration`.
- `AtMostOneMoreProbe` allows one request more than `MaxConcurrentRequests`: the one that makes
  the open circuit half-open is not counted (`half_open` shows that the documented limit is not
  kept). Nothing in the repository calls through this breaker yet.
- `LiveIsPublished` and `DeletedIsUnpublished` are about passes that do not overlap.
  Overlapping passes can lose a live NodeENI's resource or bring back a deleted one's, since
  the code puts no order between a load and another pass's save: two passes that both load before
  either saves lose one's update, although `CHANGELOG.md:53` speaks of batched updates, and it is
  not made again when the versions recorded last are the present ones. `DPDKBoundInterfaces` is a
  Go map that both goroutines use without a mutex: the runtime may stop the process, which is
  `Restart`.
- `LiveIsPublished` says that a NodeENI without DPDK is listed under its resource, provided its
  interface shows whenever a pass with its present version looks; an interface that is late is
  not looked for again until a NodeENI changes. It excepts torn files. With which driver the device is
  listed is `PlainKeepsDriver`: `ena`, among others, for a device never used with DPDK. One that
  is switched from DPDK to plain SR-IOV keeps `vfio-pci` when its resource is the same, because
  a listed device is left as it is.
- `DeletedIsUnpublished` excepts every failed write and restart, as the code does not try a
  removal again, and is about NodeENIs never used with DPDK: a device whose binding fails is
  published all the same, and no record says that it has to be cleaned up.
- Nothing is promised of devices with DPDK whose resources share a name: one update takes the
  other's place (`Collected`).
- `UnbindIsAtomic` excepts two failures in one attempt and a broken stream: the device can
  then be left without a driver, and the next attempt takes that for success.
- `NoMoreThanListed` counts duplicates: a subnet listed twice may get two ENIs.
- `EveryMappingIsFound` holds of behaviours in which no two mappings ever have one address, in
  memory. Where two do, as when a new ENI's mapping is added before the old one at the address is removed,
  the removal of the old one takes the new one's entry along, and the new mapping is not
  found. Not every entry of the lookup map is current: it need not be.

### Fairness

`Fairness` of the reconciler assumes weak fairness of the call's steps (controller-runtime
repeats a failed reconcile and every `ReconcilePeriod`), of the informer (`CacheSync`), of
EC2 completing a detachment (`AwsDetached`) and of time (`Elapse`), and strong fairness of
`UpdateSucceeds`: an update that is tried over and over succeeds once. That is weaker than a
reliable API server and needed, since conflicts and failures may otherwise hit every
attempt. No fairness is assumed of users, faults or others.

`CleanupPool` assumes weak fairness of each pool and each worker: goroutines are scheduled,
a cleanup returns (its waits are bounded), and controller-runtime queues a failed deletion
again. `GranularCompletes` has "EC2 and the API work from some time on" as its
hypothesis.

`NodeAgent` assumes strong fairness of each pass: a ticker and a poll start passes again,
and a mutex that is free again and again is obtained, since Go's mutexes do not starve a
waiter. `DPDKManager` has the same of its calls, and weak fairness of the circuit's time-out
and of the coordinator, which keeps binding; an abandoned wait may last for ever.
`CircuitBreaker` (in `stuck_breaker`) has weak fairness of its callers and of time. `DependencyGraph`'s manager
runs a request to its end, and a caller asks for what is ready and completes it.
`DeviceIndices` has strong fairness of the requests to EC2: one that is refused or not
answered again and again is granted in the end (a requeue starts each next round).
`BreakerRecovers` and `Recovers` have a script, or a service, that works from some time on as
their hypothesis. No fairness is assumed of faults or of other actors.

## Findings

1. `coordination_timeout`: a lock's context ends after `op.Timeout`, while `op.Execute` runs
   under the caller's context (`pkg/controller/coordination.go:67`). A cleanup that outlives
   its lock is not alone on its node any more, against the comment at
   `nodeeni_controller.go:553-554`.
2. `detached_by_hand`: an attachment that EC2 does not know counts as "just detached" and
   leaves the status before the code that deletes detached ENIs is reached
   (`nodeeni_controller.go:2340`), against `CHANGELOG.md:152`.
3. `facade`: the facade's `DetachENI` makes no dry run for `force = false`
   (`pkg/aws/eni_manager.go:147`), so checking an attachment detaches it.
4. `stale_cache`: a reconcile that reads a copy older than the last status update finds no
   ENI in the subnet and creates another, against the comment at
   `nodeeni_controller.go:1702-1703`.
5. `half_open`: the request that makes an open circuit half-open is not counted
   (`pkg/aws/retry/circuit_breaker.go:98`), so one more than `MaxConcurrentRequests` is let
   through, against the comment at line 32.
6. `stuck_breaker`: with the shipped thresholds, three successes and one request
   (`pkg/config/config.go:102`, `nodeeni_controller.go:105`), a half-open breaker has let two
   requests through and refuses all others for ever (`circuit_breaker.go:108`), against the
   comment at line 28.

## Proofs

### The finalizer's promise (`NodeENIController_proofs`)

`CleanupBeforeGone`: `Spec => []NoENILeftBehind`, and `TypeCorrectness`, for any nodes,
subnets and ENIs, any number of attempts and workers, either client, and every subset of
faults and outside actors, from `ConstantsAssumption`.

`NoENILeftBehind` is not inductive: a finalizer may be removed on the word of a call that
read its attachments from an old copy. The inductive invariant says why that is safe.

- `CacheIsPast`: what the cache shows has happened on the server. Once it shows a recorded
  cleanup start, its list of ENIs is the server's, and it is final.
- `LiveCall`: a call that processes nodes began with a live NodeENI that has the finalizer;
  until it ends no cleanup start is recorded, so nobody else writes the status, and the
  NodeENI cannot go.
- `FinalizerFirst`: a live NodeENI without finalizer has no ENIs, so it may go at once.
- `CleanupTells`: a cleanup goes through all ENIs of the status, and one that has ended
  without failure has left its ENI gone; gone ENIs of the status stay gone
  (`AbsentStaysAbsent`).
- `DeletionCall`: the finalizer is removed with all ENIs gone, or after the time-out.

Each class of actions has a lemma (calls that start, live steps, saves, updates, cleanup
steps, others' writes); `IInvNext` puts them together. Lemmas that several of these need say
which outcomes a request has (`Outcomes`), how an ENI's state moves in one step (`ENIStep`,
`ENILife`) and where a call can go next (`Moved`, `Reaches`).

### What happens to an ENI (`NodeENIAttachments_proofs`)

Four theorems, each with an invariant of its own on top of `IInv`. Their hypotheses are the
circumstances the code does not make up for, and nothing else is assumed of `Faults` and
`Outside`: TLC finds a violation as soon as any one of them is dropped, and the runs
`facade` and `stale_cache` keep two of these.

| Theorem | States | Under | Invariant |
|---|---|---|---|
| `NoDetachmentOfSelected` | `SelectedNodesKeepENIs` | the default client; any faults and outside actors | `StaleInv` |
| `AttachedStaysListed` | `StatusKeepsAttached` | a cache that does not lag; everything else may fail | `ListedInv` |
| `NoSecondENI` | `[]OneENIPerSubnet` | `StatusArrives`: no lost answer of an attachment, no failing API, no crash, no lagging cache, no other writer of the NodeENI | `KnownInv`, `SubnetInv` |
| `NoENIForgotten` | `[]NoLeak` | `CallsFinish`: `StatusArrives`, the default client, no failing deletion, description or wait, no ENI that outlives its instance | `LeakInv` |

- `StaleInv`: what is queued for cleanup as stale is, if attached at all, on a node that did
  not match the selector when the call listed the nodes, or does not run: the list stays as
  it is for the call, and a terminated instance does not come back. A cleanup of a NodeENI that is already gone, which a
  lagging cache can start, finds all its ENIs absent (`LateCleanup`).
- `ListedInv`: a call on a live NodeENI has in its copy every attached ENI of the status, also
  after a conflict replaced the copy (lemma `CopyKeeps`), so what it writes back drops none.
- `KnownInv`: where updates arrive, the copy has every attached ENI there is, and the
  status has them between calls. `SubnetInv`: the subnets still to be served are then without
  an ENI on the node, and each attachment takes its subnet off that list.
- `LeakInv`: an ENI that is not attached is in the hands of the call, created and not attached
  yet, or detached and not deleted yet (`Pending`). An attached one is in the status, or
  the update is about to add it (`StatusKnows`): that update may meet the user's deletion of
  the NodeENI, and is then made by the next call, on the server's version.

### Mutual exclusion (`Coordination_proofs`)

For any workers, operations and resources: `TypeCorrectness`, `MutualExclusion`
(`[]NoOverlap`), `LocksAreReleased` (`[]NoLeakedLock`), `Refinement` (`ImplementsLeases`),
`HoldersRelease` (`OnlyHolderReleases`, a property of steps that no run repeats: a lock
that another's hand frees is neither released nor run out, and fails `ImplementsLeases`) and
`CallsAreBounded`. The invariant: no two workers run one
operation (`OpsDistinct`), a worker that executes holds all it needs (`HoldsAll`), and
whoever holds a resource has the valid lock on it or has lost it (`HoldsOrLost`). Two that
execute and share a resource cannot both have the valid lock.

`Refinement` goes through the actions: a turn of the acquisition loop is a grant, the beginning of
the work, or nothing (`AcquireStep`); a turn of a release loop gives a lease back, or finds
that it is not its own any more (`ReleaseStep`); the deadline and the sweep make leases run out,
and each that had one and is still at it has lost it (`LocksRunOut`); a call that returns holds
nothing (`ReturnLeaves`). It rests on the same invariant, and on `NothingLostBefore`: a
call begins with nothing lost. `LeasesExclude` is a theorem about `LeaseTable` alone: its steps
imply what `NoOverlap` says in the manager's terms.

`CallsAreBounded` says that no call waits, or turns for ever: each step of a call
decreases a number (`Left`: the sections to pass, two turns of a loop for each lock to take, one for
each lock to give back), and nobody else's step changes it.

The assumption behind `OpsDistinct` is in the guard of `Start`: an operation's ID names
NodeENI, node and ENI, controller-runtime never reconciles one NodeENI twice at a time, and
a reconcile waits for its workers.

### The pools implement the contract (`CleanupPool_proofs`)

`Refinement` (`Spec => ImplementsContract`), `WorkersGone` (`[]NoWorkerLeft`) and
`TypeCorrectness`, for any
NodeENIs with finitely many ENIs and any worker limit, with a worker for each NodeENI
(`Pools`). The argument: until the context is cancelled, each ENI of a pool at work is
waiting to be sent, in the channel, in a worker's hands, cleaned up, or there is a failure
among the results (`Accounted`); and the first worker leaves only a closed and drained
channel (`Drained`). So when all have left without a failure, every ENI is cleaned up
(`Complete`). Once the context is cancelled nothing is claimed, and the finalizer stays.
Every step then is a step of `FinalizerContract` or leaves its variables alone.

`PoolsAreBounded` is the part of `PoolReturns` that needs no fairness, for finitely many
workers of each NodeENI (`FiniteCrews`): each step of the goroutines of a pool at work decreases a
number (`Left`: the sections of `parallelCleanupENIs` to pass, six for an attachment to send, five
for one in the channel, and what each worker still has to do with the one in its hands), and what
other pools, EC2, the API and a cancellation do leaves it as it is.

### The device plugin's file (`NodeAgent_proofs`)

`NoPlaceholder` and `Minimum`, for any NodeENIs and resource names, any number of overlapping
passes and all faults. What a pass has in hand to save is clean (no placeholder beside a real
resource, `Clean`), and adding to it, or removing from it, keeps that. Only a cleanup can
empty the file, and it has yet to call `ensureMinimalSRIOVConfig` when it has; whatever else a
pass is about to save has a resource (`HasResources`, `Repaired`), since it publishes the
devices of NodeENIs that name one (`UpdatesNamed`). A truncated file counts as one with resources,
as the next load takes it for the minimal configuration. `TypeCorrectness` holds for any bounds on
the NodeENIs' versions of which one is the greatest (`Versioned`).

### The parts (`Parts_proofs`, `Devices_proofs`, `Graph_proofs`)

`PartsBehave`: in `MCParts` each part takes its own steps or none, so what its own
specification implies holds there. The constants of the parts are arbitrary but for the
hypotheses named with each.

- `AtMostOneMore` (`[]AtMostOneMoreProbe`). Only `allowRequest` moves the count and the state to
  half-open; a late result ends the period or changes neither.
- `Found` (`EveryMappingIsFound`). As long as no two mappings have one address, each mapping has
  the entry under its address (`Indexed`): an addition files it, an update or a removal of
  another ENI's mapping touches other entries, and a restart, in whatever order it reads the file,
  meets one ENI for an address. `Found` needs a value for "no ENI" that is none.
- `Durable` (`[]SavedMeansDurable`): what an operation has saved is what a restart loads.
- `OneScript` (`[]OneScriptPerDevice`). A wait that was given up takes a free lock only, and
  whoever runs the script has taken it (`ScriptInv`).
- `AtomicUnbind` (`[]UnbindIsAtomic`). `UnbindInv` says, for every place the script and the
  rollback can be at, which driver and which override the device has, as long as the stream
  stands and at most one write has failed. The override names the DPDK driver only after that
  failure, and then no other is left for the repair to meet.
- `RecordedIndices` (`[]RecordedWhereAttached`) and `AsManyAsListed` (`[]NoMoreThanListed`), for
  any list of subnets and any number of indices (`IndexLimits`). The second counts: in a subnet
  without an ENI when the round began there are at most as many as places in the list the round
  has come past (`Counted`), and an attachment adds one to both counts. `Least`,
  `NextIsAvailable` and `MinIsMember` are the lemmas about the choice of an index: the first
  free one exists where any does, by the well-foundedness of `<`.
- `NoCycle` (`[]Acyclic`, the first conjunct of `AlwaysOrdered`). An ID that a search does
  not meet is outside some closed set of IDs (`NotReached`); adding a dependency, such a set for
  its ID, and one for any other ID, give by union or intersection one for that other ID afterwards
  (`AddedAcyclic`).
- `Ordered` (`[]AlwaysOrdered`), on top of `NoCycle`. The path of a search is a chain of
  dependencies: each ID on it is met from the ones before (`SearchInv`), so an ID found
  on the path would wait for itself. An ID enters the order when all it waits for
  have been visited, and visited IDs of the graph are those in the order. `SearchEnds`: each
  step of a search decreases a number (`Remaining`: the IDs yet to enter and to leave the path), so
  it takes at most twice as many steps as there are IDs.
- `InTime` (`OnlyAfterPrerequisites`, a property of steps). Where only the manager adds, each ID
  that is waited for is in the graph or was completed (`NoneUnknown`), since a request adds its
  steps behind the ones they wait for (`InOrder`), and IDs leave the graph by completion only.
- `TypeCorrectness` (`[]TypeOK`), for all parts: the breakers' counters stay within their
  thresholds, also with late results.

TLC has checked the inductive invariants (`UnbindInv`, `IndexInv`, `ScriptInv`,
`PrerequisitesInv`, `SearchInv` and the others) on the instances of the runs.

### Only model-checked

- Liveness (`DeletionCompletes`, `SelectedNodesGetENIs`, `UnselectedNodesLoseENIs`,
  `PoolReturns`, `GranularCompletes`, `EveryPassEnds`, `LiveIsPublished`,
  `DeletedIsUnpublished`, `BreakerRecovers`, `EveryBindReturns`, `Drains`,
  `EverySubnetServed`), which is beyond the prover.
- `PlainKeepsDriver`.

Every other invariant and step property of a passing run is a theorem.

## Assumptions and limits

- One controller process. Leader election is an option that is off by default; with two
  processes none of this holds.
- The retries inside the EC2 client are part of a step.
- `NodeENIController` takes subnets as a set; lists with duplicates are in `DeviceIndices`,
  which in turn leaves the fate of ENIs that cannot be attached, or disappear, to
  `NodeENIController`.
- A cleanup first unbinds the interface from DPDK (`DPDKUnbind`); its failure is ignored by
  the code, and the step is left out of `NodeENIController`. The eni-manager never sets
  `DPDKBound` in the status (`updateNodeENIStatus` only logs), so the controller's unbinding
  happens for attachments others have marked.
- `CleanupPool` leaves out the time-out of a cleanup, which lets go of the finalizer whatever
  is left: that is in `NodeENIController`.
- Deleting the NodeENI's finalizer by hand is not modelled.
- A binding that fails is not tried again until a NodeENI changes, and an interface that appears
  after the wait for it is not published until then. `NodeAgent` has both behaviours.

## Not modelled

- The caches of the EC2 client (`pkg/aws/ec2.go`), with one time stamp for all entries: they
  hold names of subnets and groups, to which no other state is related. A wrong ID shows as
  a failing `CreateENI`, which is a fault of `NodeENIController`.
- `ec2_optimized.go`, which nothing calls; the retry helpers, which are bounded loops
  inside a step; the instance-metadata configuration, whose errors are logged only.
- `createAndAttachENI` and the single-subnet helpers beside it, `AddResource`, and updates of
  the SR-IOV file that remove: they have no callers outside tests.
- `BindInterfaceToDPDK` and binding by interface name: without a lock of their own, and I/O.
- The refresh of MTU and CIDR in the status, which no decision depends on.
- The network manager, the ENI library, configuration, entry points, observability and test
  doubles: I/O, parsing, logging and wiring, with little or no state.

## What is left to do

1. `NodeENIController` and `FinalizerContract`: the reconciler's own steps shown to implement
   the contract its pools implement, but for the time-out of a cleanup.
2. Restarts of the DPDK manager, whose lost locks they release.
3. `PlainKeepsDriver` as a theorem: in every file and every configuration in hand, a device never
   used with DPDK is listed with the driver of its kind.
