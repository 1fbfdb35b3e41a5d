# TLA+ models of KubeDevice's device scheduler and node shim

This directory holds TLA+ models of the scheduler extension in
`src/device-scheduler`, of its glue in `src/kube-scheduler`, and of the
node side in `src/kubecri`. There are TLC configurations for small
instances and TLAPS proofs of the aggregator's and the node side's
invariants. `PROJECT.json` lists:

- every component;
- every run and its expected result;
- the mutants that show each checked property can fail;
- the map from each TLA+ definition to the Go lines it translates;
- the findings and the hazards.

## The system

The scheduler side has three layers.

- **Group allocator** (`grpalloc/grpallocate.go`). For one container it
  matches a tree of requested resources onto the tree of a node's
  allocatable resources. Keys are '/'-separated paths; subgroups are
  `<name>/<index>/...`.
  - `allocateGroup` tries every allocatable location of a group on a clone
    of the search state. `allocateGroupAt` checks the leaves there
    (`resourceAvailable`), recurses into the subgroups
    (`allocateSubGroups`) and rescores the location (`findScoreAndUpdate`).
  - The winner is picked by score, with a preference for locations already
    used by the pod (`UsedGroups`).
  - `PodFitsGroupConstraints` runs this for the running containers, then
    the init containers, threading pod usage, node usage and `UsedGroups`.
  - `TakePodGroupResource` and `ReturnPodGroupResource` replay the scorers
    over the pod's `AllocateFrom` to update the node's `Used`.
- **Group device** (`device/grpdevice.go`). This is the device scheduler
  that defers to the allocator. Its `PodAllocate` re-runs the fit with
  `AllocateFrom` filled in.
- **Aggregator** (`device/devicescheduler.go`).
  - It keeps the list of device schedulers created from plug-ins. The
    group device is appended once and is kept last.
  - It records per (pod, node) the total score of `PodFitsResources`, and
    per pod the maximum.
  - `PodPriority` normalises a node's score by that maximum.
  - `PodAllocate` asks every device to allocate, then forgets the pod's
    scores.

The kube-scheduler calls the aggregator from its predicate
(`PodFitsDevices`, in parallel over nodes), its priority
(`PodDevicePriority`) and its cache (`TakePodDeviceResources` and
`ReturnPodDeviceResources`).

The node side is **kubecri** (`src/kubecri`). Its `Run` (`cmd/app/app.go`)
loads the device plug-ins into the static `DeviceManager`
(`AddDevicesFromPlugins`), starts them (`Start` sets each device's
`Operational` flag), starts the advertiser, which writes the operational
devices' resources into the node (`UpdateNodeInfo`), and serves the
kubelet. For each container the shim's `CreateContainer`
(`pkg/kubecri/docker_container.go`) looks up the pod, asks
`AllocateDevices` for the devices of every operational device, and adds
them to the container's config. The scheduler binds pods against what the
node advertises; the device list lives only in the kubecri process.

## Modules

| Module | Models | State and actions |
|---|---|---|
| `Scorer` | the leftover scorer of spec 4.1 (its package, `device-scheduler/grpalloc/scorer`, is imported by `grpallocate.go` but is not among the sources in `src/`) | `LeftoverScore`: running containers add, init containers take the maximum; scores are exact fractions |
| `GrpAlloc` | `grpallocate.go` | pure operators, one per Go function. The mutable `GrpAllocator` struct is split into read-only `ctx`, per-group `grp` and the copied state `st`. The shared `UsedGroups` map is threaded through as the set `ug`, in the order the code writes it. Each recursive call's result is handed to a small helper as a parameter (`TakeLeaves`, `ApplyScores`, `SubGroupTaken`, `LocationRescored`, `ChooseLocation`, `GroupChosen`, `ContainerDone`). Each helper stands for the loop body or the tail of one Go function, so every search result is computed once per call |
| `GrpNode` | one node under the group device | variables `used` (NodeInfo.Used), `phase` and `podSpec` of each pod. Actions: `Filter` (predicate on invalidated annotations), `PodAllocate` (re-run with fill, success or error), `TakePodResources`, `ReturnPodResources` |
| `DeviceRegistry` | the composition rule of spec 4.3, abstractly | `registered`, `loaded`; `Register`, `Clear` |
| `DevicesScheduler` | `devicescheduler.go` with the scheduler's use of it | see below |
| `MCGrpNode`, `MCDevicesScheduler` | instances for TLC | resource trees, pod shapes, plug-in lists |
| `DevicesScheduler_proofs` | TLAPS proofs about `DevicesScheduler` | |
| `KubeCRI` | `devicemanager.go`, `docker_container.go` and `Run` | see below |
| `DeviceNode` | what a kubecri node promises the cluster, abstractly | `available`, `advertised`, `bound`, `created`, `config`; `Reconfigure`, `Advertise`, `Bind`, `Create` |
| `MCKubeCRI` | instance for TLC | plug-ins `gpu`, `ib`; container `c1` wants both, `c2` wants `gpu` |
| `KubeCRI_proofs` | TLAPS proofs about `KubeCRI` | |
| `Scorer_proofs` | TLAPS proofs about `Scorer`'s operators | |

`DevicesScheduler` has two groups of variables.

- **Device list.** `devices`, `hasGroupScheduler` and `loaded`, changed
  by `LoadPlugin` (a plug-in loads and is passed to `AddDevice`, or fails
  and is skipped) and `RemoveAll`.
- **Score cache.** `score`, `maxScore` and the scheduler's cycle: `cur`,
  `stage`, and `pc`, `fit`, `tot`, `rowSeen` of each node's predicate
  goroutine.
  - `PodFitsResources` is split at its shared-memory accesses:
    `Evaluate` (the devices' results, then `AssignMap`'s unlocked check
    whether `ds.score[pod]` exists, kept in `rowSeen`), `Record` (line
    117's creation of the row if the check found none, replacing a row
    another goroutine made since, and the entry),
    `CompareMax` (line 120, unlocked read) and `WriteMax` (line 121).
  - `StartCycle`, `SelectHost` and `Unschedulable` are the
    kube-scheduler's side: one pod at a time, predicates in parallel over
    nodes, priorities after every predicate is done.
  - `PodAllocate` either succeeds and clears the pod's entries, or a
    device fails.

The devices' own fit and score are nondeterministic inputs (any fit, any
total in `Scores`). Their computation is the business of `GrpNode`.

`KubeCRI` keeps the process's state (`devs`, `operational`, the position
`loaded` in the plug-in list, and `phase`: loading, serving or exited) apart from the state that outlives the process (`advertised`,
`bound`, `created`, `config`, and the kubelet's `attempts` per container).

- `LoadPlugin` is one iteration of `AddDevicesFromPlugins`: the plug-in
  is added (`AddDevice`, flag false), or one of its four steps fails and
  it is skipped.
- `StartDevices` is `Start` (any subset of devices starts) followed by the
  rest of `Run`, which serves or exits through `klog.Fatal`.
- `UpdateNodeInfo` advertises any subset of the operational devices (a
  device's update may fail and is only logged).
- `Schedule` is the environment: the scheduler binds a container whose
  requests the node advertises.
- `CreateContainer` either returns an error or creates the container
  with `AllocateDevices`' result (`ConfigureContainer`). `AllocateDevices`
  takes each operational device's outcome as an input and fails when any
  fails. A failed pod lookup is only logged (lines 79-81); the typed
  client returns an empty, non-nil Pod with the error, and the call goes
  on into `KubePodInfoToPodInfo`, `GetContainerInPod` and the plug-ins'
  `Allocate`, all outside `src/`. The model takes that path to end in the
  error outcome.
- `Restart` restarts the process, after a fatal exit or at any time it
  is killed (node reboot, upgrade, OOM kill), with an empty device
  list. The count `restarts` saturates at `MaxRestarts`, so restarts go on
  without the count growing.

Modelling choices:

- **Scores.** float64 scores become exact fractions `[num, den]`, so
  comparisons are exact.
- **Keys.** A key is the sequence of its path segments. The regex of
  `findSubGroups` becomes "extends the base by at least three segments".
- **Map iteration order.** Go's random map order is kept where it
  matters. Sorted keys come from `SortedStringKeys` over a constant string
  order `SegOrder`. Where the code sums or takes maxima over a map, one
  order is used.
- **Scorer init rule.** Spec 4.1's formula for init containers and
  scenario S4 (`Used = max(4, 2) = 4`) disagree. The model follows S4:
  the pod's usage becomes `max(usedByPod, total)`, and the node's usage
  moves by the change of the pod's usage.
- **Pod lifecycle in `GrpNode`.** Commit and take form one scheduling
  step: at most one pod is between `PodAllocate` and `TakePodResources`.
  Pods are returned at any time after they are bound, and may then be
  created again.

## Runs

| Run | Expect | What it shows |
|---|---|---|
| `grpnode_safety` (`MCGrpNode.cfg`) | pass | Two pods share a node with two GPUs, each with 1 card and 4 memory units. Each pod is one GPU, two GPUs in one container, or running plus init on one GPU. In every interleaving of filter, commit, take and return: `UsedWithinAllocatable` (spec invariant 2); `UsedIsSumOfBoundPods` (Used is exactly the sum over the bound pods; returns undo takes); `AllocationsValid` (every `AllocateFrom` entry has the right shape and keeps subgroups together; spec invariant 1, S5). |
| `aggregator_registry` (`MCDevicesScheduler.cfg`) | pass | Three plug-ins, two of them group-using, in the order group, plain, group. Each loads or fails, interleaved with `RemoveAll` and two scheduling cycles of a pod on two nodes. Checks `DeviceListWellFormed` (the group device is present exactly when a group-using plug-in is registered, last, and once) and `RegistryRefined` (the list without the group device refines `DeviceRegistry`). |
| `grpnode_greedy` | violation of `FilterComplete` | A pod wanting 2 and 4 units on two different GPUs is rejected after another pod took 2 units of one GPU, although the swapped placement fits. The allocator commits greedily per requirement. |
| `grpnode_initacct` | violation of `TakeAgreesWithAllocator` | An init container with two 2-unit requests on one key is scored as one vector (max(0, 2+2) = 4). `TakePodGroupResource` replays the requests singly (max(2, 2) = 2), so the node is charged 2 where the allocator checked 4. |
| `grpnode_usedgroups` | violation of `UsedGroupsChosen` | Exploring board 0 marks its GPU path used even though board 1 wins. The mark survives in the shared `UsedGroups` map. |
| `priority_race` | violation of `PriorityAtMostOne` | Node n2 reads maxScore 0 and writes 2. Node n1 read 0 earlier and now writes 1. n2's priority is then 2/1. |
| `kubecri_devices` (`MCKubeCRI.cfg`) | pass | Two plug-ins, two containers, two creation attempts each, and restarts. Checks `DevicesCompleteUntilRestart`: until the first restart every created container has every device it requests, whichever plug-ins load, start and advertise, and whichever allocations fail. `CreatedWithOperationalDevices` (action property): a container is created only with exactly the operational devices it requests, and a failed allocation creates nothing. `NodeRefined`: kubecri implements `DeviceNode` under `available <- Available` (the operational devices while serving, none otherwise). |
| `kubecri_restart` | violation of `ContainersGetAllDevices` | `gpu` loads and starts, is advertised, and `c2` is bound. kubecri is restarted; after the restart `gpu` fails to load, and `c2` is created without it. |
| `score_map_race` | violation of `ScoreWritesExclusive` | Two nodes' `PodFitsResources` goroutines are both at their score-map writes at once, which spec section 5's mutex would exclude and which the Go runtime aborts on. |
| `score_row_lost` | violation of `ScoresFresh` | Both nodes' goroutines find no `ds.score[pod]` in `AssignMap`'s check. n1 makes the row and writes its entry; n2 then makes a new row and writes its own, and n1's entry is gone when priorities are computed. |
| `stale_maxscore` | violation of `PriorityNormalised` | On one node, so that no goroutines race. The first cycle records maxScore 2 and ends without a successful `PodAllocate`. In the next cycle the best node scores 1 and gets priority 1/2. |

Each property of a passing run has a mutant in `PROJECT.json`: an operator
that makes a plausible coding mistake, which TLC shows the property catches.
For example, `ReturnPodResourcesInvalidated` reads the pod with its
annotations cleared, and `AddDeviceAppend` appends plug-ins after the group
device.

**Bounds.** Two pods and two GPUs are the least that make pods compete for a
location and make the tie-break and used-group preference matter. The pod
shapes cover:

- a multi-GPU subgroup within one container;
- an init container that reuses a running container's group;
- the failure branch of `PodAllocate`, when a pod's predicate is stale
  after the other pod was taken.

For the aggregator:

- two nodes are the least for a race between predicate goroutines;
- two cycles are the least for a stale maximum;
- three plug-ins in the order group, plain, group exercise both branches
  of `AddDevice` and the insert-before-last.

For kubecri, two plug-ins are the least for one device to load while the
other fails; two containers, one wanting both devices and one wanting
`gpu` alone, make a partial allocation matter; two attempts per container
let a failed creation be retried; `MaxRestarts = 1` lets a restart happen
(the counter saturates, so further restarts are still explored).

No run checks liveness and no fairness is assumed. The scheduler's loop
is outside the code modelled here, so nothing in `src/` guarantees that a
pod is retried or that a goroutine is scheduled. In kubecri the kubelet's
retries and the restarts of the process are outside `src/`, and a device
may fail to start on every attempt, so no container is guaranteed to be
created.

## Findings

1. **The allocator is incomplete** (`grpallocate.go:376`). It keeps one
   winner per group and never revisits it, so a pod that fits can be
   rejected.
2. **Init containers are under-accounted** (`grpallocate.go:590` against
   `:246`). This depends on the scorer's init rule, which is modelled from
   the spec. `ReplayUnderchargesInit` proves it for every capacity and
   usage.
3. **`UsedGroups` leaks explored paths** (`grpallocate.go:379`). The map
   is shared by reference between the search's clones.
4. **Lost update of `maxScore`** (`devicescheduler.go:120-121`). There is
   no mutex, contrary to spec section 5, and priorities can exceed 1.
5. **Stale `maxScore` across cycles** (`devicescheduler.go:120`, `:169`).
   This contradicts spec invariant 5.
6. **Concurrent score-map writes** (`devicescheduler.go:117-125`). Two
   predicate goroutines write `ds.score` at once; Go aborts the process.
7. **Lost score row** (`devicescheduler.go:117`). `AssignMap` checks for
   the pod's inner map and makes it with no lock; two goroutines that
   both find it missing each make one, and the later drops the other's
   entry, so a node that fits gets priority 0.
8. **Containers lose devices after a restart** (`devicemanager.go:111`).
   `AllocateDevices` silently skips devices that are not operational. Pods
   bound before a restart, or against the old advertisement, get
   containers without devices that no longer load or start.

## Proofs

`DevicesScheduler_proofs` proves three theorems, for all values of the
constants that satisfy `RegistryAssumption` and `ScoreAssumption`:

- `TypeCorrect`: `Spec => []TypeOK`;
- `DeviceListInvariant`: `Spec => []DeviceListWellFormed`;
- `RegistryRefinement`: `Spec => RegistryRefined`. The aggregator
  implements `DeviceRegistry` under the mapping
  `registered <- Registered` (the list without a trailing group device).

**The inductive invariant.** Neither invariant is inductive as it stands,
so the proofs use a stronger invariant `IInv = RegInv /\ CacheInv`.

- `RegInv` adds `Len(devices) <= loaded + (1 if the group device is
  present)`. Without it the bound in `TypeOK` cannot be carried through
  `AddDevice`. It also includes `DeviceListWellFormed`, which `AddDevice`
  needs: inserting before the last element is only correct when the last
  element is the group device.
- `CacheInv` adds "no goroutine runs outside a cycle" (`cur = NoPod`
  implies every `pc` is idle). Without it, a goroutine's write to
  `score[cur]` would index the tables with `NoPod`.

**The argument.**

1. `IInvInit` proves that Init implies IInv.
2. `IInvNext` proves that IInv is preserved by every step. It rests on:
   - `RegInvNext`, with one case per action;
   - `CacheInvNext`, with one case per action;
   - the lemma `AddDeviceEffect`, which says what `AddDevice` does to
     `Registered`, the flag and the length in each of its three branches;
   - the sequence lemmas `FrontLastAppend` and `FrontLastProperties`.
3. The refinement step `RegistryStep` maps:
   - `LoadPlugin` to `Register` (appending the plug-in, or not);
   - `RemoveAll` to `Clear`;
   - every score-cache action to a stutter.
4. The temporal steps combine these with PTL.

`KubeCRI_proofs` proves four theorems, for all values of the constants
that satisfy `KubeCRIAssumption` (in particular `MaxRestarts >= 1`):

- `TypeCorrect`: `Spec => []TypeOK` (the device list and its flags stay
  the same length);
- `DevicesComplete`: `Spec => []DevicesCompleteUntilRestart`;
- `CreationAllOrNothing`: `Spec => CreatedWithOperationalDevices`, from
  `TypeOK` alone: `CreationNext` shows every step satisfies the per-step
  condition, since only `ConfigureContainer` sets `created`, and it does
  so only when `AllocateDevices` reports no error (lemma `AllocateAll`);
- `NodeRefinement`: `Spec => NodeRefined`. `NodeInitMap` maps the initial
  state; `NodeStep` maps each action: `StartDevices` and `Restart` to
  `Reconfigure` (the available set changes),
  `UpdateNodeInfo` to `Advertise` (only operational devices, while
  serving), `Schedule` to `Bind`, a successful `CreateContainer` to
  `Create`, and `LoadPlugin` and failed creations to stutters.
  `DeviceNode` lets a container be created with fewer devices than it
  requests, when fewer are available; so the refinement does not rule
  out finding 8, which `kubecri_restart` shows.

`DevicesCompleteUntilRestart` is not inductive: a container gets all its
devices only because its pod was bound against an advertisement of
operational devices, and the operational set cannot change while the
process serves. The inductive invariant `IInv` says that, while
`restarts = 0`, (a) in the loading phase nothing is advertised and no
device has started, (b) the advertisement is within the operational set,
(c) every bound container's requests are within the operational set, and
(d) every created container has its devices. `StartDevices` may change the
operational set arbitrarily; (a) and (c) make that harmless, since only
containers requesting nothing can be bound before it. `Restart` makes
`restarts` positive, because `MaxRestarts >= 1`. There is one lemma per
action (`LoadPluginIInv`, ..., `RestartIInv`), and lemmas about the
operators: `AllocateAll` (with no error, a container gets the operational
devices it requests), `AppendFalse`, `FunIsSeq`, `NoneOperational`.

`Scorer_proofs` proves facts about the scorer and the score fractions for
all integer arguments.

- `QAddOrderFree`: `QAdd` is commutative and associative as a record
  operation, and `QZero` is its unit. With the model's exact fractions,
  summing scores over a Go map therefore gives the same result in every
  iteration order, which justifies fixing one order
  (`findScoreAndUpdate`). Go's float64 sums can differ in the last bits
  between orders; the model does not represent that.
- `QGeqPreorder`: `QGeq` is reflexive, total and transitive on fractions
  with positive denominators, as the choice of the best location assumes.
- `RemovalSubtracts` and `ReturnUndoesTake`: the removal path subtracts
  the pod's usage, so for one request a return undoes a take exactly.
- `ReplayMatchesVectorForRunning` and `ReplayUnderchargesInit`: replaying
  requests one at a time, as `TakePodGroupResource` does, charges what
  one vector charges for a running container. For an init container with
  two positive requests on one key whose sum exceeds the pod's usage, it
  charges strictly less. This is finding 2 for every capacity and usage;
  the run `grpnode_initacct` shows one instance.

The induction itself, over the requests of a pod and the pods bound to a
node, is a fold. The provers cannot do induction over data, so
`UsedIsSumOfBoundPods` stays a property TLC checks.

**Only model-checked.** Everything about `GrpAlloc` and `GrpNode` is
checked by TLC only: `GrpNode`'s `TypeOK`, `UsedWithinAllocatable`,
`UsedIsSumOfBoundPods` and `AllocationsValid`, for three reasons:

- The allocator is a mutually recursive search: `RECURSIVE` operators,
  which cut TLAPS off from its SMT backend in every module that reaches
  them.
- What a recursive definition computes for all inputs would need
  induction over data (`UsedIsSumOfBoundPods` is a fold over the bound
  pods). The provers cannot instantiate the library's
  induction theorems.
- No liveness property is stated. Liveness and `ENABLED` would also be
  beyond TLAPS.

## Not modelled

- **Container runtime shim, beyond `CreateContainer`.** Flag parsing,
  kubelet start-up, `DockerExtInit` and the docker calls are I/O. The
  mounts and environment variables `AllocateDevices` collects are left
  out; only the devices are modelled.
- **Logger** (`src/logger`). Formatting only.
- **kubeinterface** (`src/kubeinterface`). Only its test is in `src/`.
  The models use just one fact about it: invalidated annotations clear
  `AllocateFrom`.
- **Per-device effects in the aggregator.** What non-group devices
  allocate, take and return, and the partial failure of the aggregator's
  `PodAllocate` across devices (`devicescheduler.go:164`).
- **Table growth.** Entries of pods that never allocate successfully are
  never removed from the score tables.
- **Process aborts.** Go aborts on concurrent map writes
  (`devicescheduler.go:117`); `ScoreWritesExclusive` shows that two writes
  can coincide, not what happens after.

## Plan for later work

- Compose `KubeCRI`'s advertisement with `GrpNode`'s accounting.
- Add the aggregator's `TakePodResources` and `ReturnPodResources` across
  several devices.
- Compose `GrpNode` with the aggregator's score cache over two nodes.
- Prove lemmas about the non-recursive parts of `GrpAlloc` (accounting on
  a single container).
