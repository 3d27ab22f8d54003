# mykubelet: TLA+ models of a kubelet's pod lifecycle

TLA+ specifications, TLC configurations and TLAPS proofs about the Go program in
`src/`: a small kubelet, cut out of Kubernetes, that watches the pods bound to one
node, runs a worker goroutine for each, lets `cmd/main.go` run the containers'
commands as local processes, and reports pod statuses to the API server. File and
line numbers are those of this repository (`pod_worker.go:745` is line 745 of
`src/pkg/core/pod_worker.go`). The repository has no tests; what a component is meant
to do is taken from its comments and from how its parts use one another.

Contents: [1 the system](#1-the-system) · [2 the modules](#2-the-modules) ·
[3 the runs](#3-the-runs) · [4 what the code does not keep](#4-what-the-code-does-not-keep) ·
[5 the proofs](#5-the-proofs) · [6 what is not modelled](#6-what-is-not-modelled) ·
[7 plan](#7-plan) · [8 running it](#8-running-it)

## 1. The system

```
 API server ──watch──> apiserver source ──SET──> Mux ──Merge──> podStorage
                                                                   │ updates channel (50)
                                                                   v
                          onAdd callback <── MyKubelet.Run ──> PodManager
                           │ a goroutine          │ UpdatePod
                           │ per container        v
                           │                 podWorkers ── a goroutine per pod UID
                           │ Set                  │ GetNewerThan    │ syncPod,
                           v                      v                 v syncTerminatingPod
                        podCache <────────────────┘          statusManager ──patch, delete──> API server
```

| part | source | state | operations | what is hard | what makes it correct |
|---|---|---|---|---|---|
| pod workers | `core/pod_worker.go` | six maps under `podLock`: sync statuses, a channel of one place per UID, one overflow slot per UID, started and waiting static pods, `podsSynced`; a goroutine per UID | `UpdatePod`, `managePodLoop` with its `complete*` steps, `SyncKnownPods`, six predicates | callers and workers interleave under one lock, sends under that lock, contexts cancelled from outside, UIDs used again | no send waits; one worker for a UID; no sync after teardown began; a pod asked to stop is finished; requests in order |
| pod cache | `kubelet/container/cache.go` | entries with times, a global time, subscriber lists, a channel of one place per call | `Get`, `GetNewerThan`, `Set`, `UpdateTime`, `Delete` | wait and notify with times that are not in order | no lost wakeup, no send that waits, no stale answer |
| container callbacks | `cmd/main.go`, `core/kubelet.go:88-107`, `core/pod_helper.go`, `core/container_cmd.go` | the status objects the cache points to | a command ends, `SetContainerExit`, `SetPodCompleted` | read, change and set in three steps, on shared objects that the worker reads meanwhile; a worker makes two reports | exit codes are kept, and reports are made of what happened |
| status manager | `kubelet/status/status_manager.go` | versioned statuses under a lock, the versions last sent, a channel that drops what does not fit | `SetPodStatus`, `SetContainerReadiness`, `SetContainerStartup`, `TerminatePod`, `RemoveOrphanedStatuses`; the goroutine that runs `syncPod` and `syncBatch` | dropped requests, a ticker that drains the channel, API calls that fail or lose replies, pods created anew under a name | every status reaches the server, in order, at the right pod; no pod deleted unasked |
| status generation | `core/kubelet_pods.go`, `kubelet/status/generate.go` | none of its own | `generateAPIPodStatus`, `getPhase`, conditions | made of the cache's entry, the status before and the pod object's, each of which may be behind; the entry is lost with the kubelet's memory and made anew | phases are earned, a report is not refused for the one before, an ended container stays ended |
| pod manager | `kubelet/pod/pod_manager.go` | pods by UID and by name, mirror pods the same, translations | `SetPods`, `AddPod`, `UpdatePod`, `DeletePod`, queries | four maps that must agree, whatever comes first | indexes agree, translations are current |
| configuration | `kubelet/config/*.go`, `util/config/config.go` | pods by source, sources seen, a lock held while notices are sent, the updates channel | `Merge`, `Sync`, `Channel`, a listener per source | whole states turned into changes; a slow consumer; several sources | the consumer's view is the storage minus what is under way |
| run loop | `core/kubelet.go:222-318` | none of its own | `Run` and four handlers | handles ADD, UPDATE, DELETE, REMOVE, drops RECONCILE and SET; sleeps in `onAdd` | the manager and the workers are told everything in order |
| work queue | `kubelet/util/queue/work_queue.go` | UIDs with due times | `Enqueue`, `GetWork` | nothing calls `GetWork` | |
| prober | `kubelet/prober/**` | workers by container and probe, three results caches each with a channel of 20 | `AddPod`, `StopLivenessAndStartup`, `RemovePod`, `CleanupPods`, `UpdatePodStatus`; a goroutine per worker that runs `doProbe` | workers that end while they are asked for or added anew, results that all containers share, statuses that lag behind, a channel nobody reads | one worker for a probe, nothing claimed that was not earned, a worker that is told to stop ends |
| object cache | `kubelet/util/manager/*.go` | registered pods, an item with a reference count and a reflector for each object | `RegisterPod`, `UnregisterPod`, `AddReference`, `DeleteReference`, `Get`, the sweep of idle items | reflectors stopped, restarted and frozen while Gets use them; updates that drop and add at once | exact counts, no answer from an unfilled store, a reflector for whatever is not stopped |
| secret and configMap managers | `kubelet/secret`, `kubelet/configmap`, `api/v1/pod/util.go` | none of their own | `getSecretNames`, `getConfigMapNames` and the visits under them | a reference that is missed is an object nobody watches | every name the pod needs |
| the rest | probes, mirror client, helpers, API types | | | stateless or never called | |

Facts about the wiring that many properties depend on (`core/kubelet.go`):
`syncPod` always returns `(true, nil)` (320-330), so a worker asks for termination after
its first sync; `PodResourcesAreReclaimed` and `PodCouldHaveRunningContainers` always
return true (344-350); the API server is the only source; and nothing in the
repository calls `SyncKnownPods`, `GetWork`, `RemoveOrphanedStatuses`, `UpdateTime`,
`podCache.Delete`, `TerminatePod`, `PodConfig.Sync`, `CreateMirrorPod` or, of the prober,
anything but `UpdatePodStatus`; the secret and configMap managers it builds are the simple ones,
which have no cache. There is no container runtime behind the kubelet: the records of a pod's containers are those that
`insertPodCache` (`SetPodReady`), `SetContainerExit` and `SetPodCompleted` make in the pod cache, all without a container ID,
and nothing restarts a container or fills the reason cache. A component is modelled with every operation it offers; a run that is about the program as wired
gives those operations no caller, and says so.

`PROJECT.json` lists under `hazards` what can go wrong in this code and a test would
hardly reach, with the properties that would show it.

## 2. The modules

| module | models | lines |
|---|---|---|
| `PodLifecycle` | what the pod workers promise about one UID: an abstract state machine without goroutines | 71 |
| `PodWorkers` | `pod_worker.go`; implements `PodLifecycle` | 658 |
| `StatusManager` | `status_manager.go`, its callers, the API server | 539 |
| `PodCache` | `cache.go` | 190 |
| `PodCallbacks` | the status objects in the cache, who writes them, and the pod's worker that waits for and reads them | 319 |
| `ApiPodStatus` | `kubelet_pods.go` and what it uses of `generate.go` and `status_manager.go`, composed with `PodCallbacks` (EXTENDS) | 266 |
| `PodManager` | `pod_manager.go` | 157 |
| `PodConfig` | sources, mux, `podStorage`, updates channel and `Run`, composed with `PodManager` (EXTENDS) | 307 |
| `PodReferences` | the secrets and configmaps a pod spec names: `api/v1/pod/util.go` and its visitors | 57 |
| `ObjectCache` | `watch_based_manager.go` and `cache_based_manager.go`, composed with `PodReferences` (EXTENDS) | 455 |
| `Prober` | `prober_manager.go`, `worker.go`, `results_manager.go`, the results of `prober.go` | 546 |
| `PodWorkersProofs`, `PodCacheProofs`, `PodCallbacksProofs`, `PodConfigProofs` (with `PodManager`), `StatusManagerProofs`, `ApiPodStatusProofs`, `ObjectCacheProofs`, `ProberProofs` | theorems | |
| `MC*` | values for constants | |

A definition whose name begins with `Mut` is a wrong version of the one after it, with
the mistake a change of that code could make; no specification uses it.

**PodWorkers.** A section of code under `podLock` is one action; `managePodLoop` is cut
where it takes or gives up the lock, waits, or calls a sync function, and
`worker[u].pc` says where it is: `receive` (the channel, 881), `insert`
(insertPodCache, 884), `allow` (allowPodStart, 897), `await` (GetNewerThan, 941),
`context` (contextForWorker, 950), `ack` (acknowledgeTerminating, 962), `sync` (in a sync function),
`natural`, `stopped`, `orphaned`, `cleaned`, `unstarted` (the completions that take the lock
again), `canceled` and `next` (completeWork). `UpdatePod`
is one action, whose early returns are `IgnoreUpdate` and whose rest is `AcceptUpdate`.
`podSyncStatuses` keeps the fields of `podSyncStatus` that are read, times as booleans;
`podUpdates[u]` is the channel with its buffer; a closed `CompletedCh` that is closed
again becomes `"panic"`. The six predicates are operators on the state, and QueriesAreTrue says
what they may answer while a sync function runs. Whether the pod manager knows a pod when the worker starts,
and whether the cached status was terminal when a pod is first seen, are
nondeterministic. `Requeue` is `workQueue.Enqueue`. Of the cache there is only whether
GetNewerThan has something newer; `CacheRefresh` makes it so.

**StatusManager.** `podStatuses`, `apiStatusVersions` and the channel are variables; the
goroutine is cut at its API calls and where it takes the lock: `next`, `check`, `get`,
`patch`, `delete`, `forget`, and `snapshot` between the ticker's drain of the channel and
the lock in syncBatch. A pod has one container, and a status is its phase, the
container's state, ready and started. `Generate` is `generateAPIPodStatus` in a worker,
which holds a pod object (`held`) that may be older than the pod manager's (`manager`);
`SetPodStatus` hands the result in. The API server has create, graceful and forced
deletion, another client's write of a phase, failing calls and lost replies. Ghosts:
`writer` (whose status was written last, and when it was set) and the counters of bounds.

**PodCache.** One step per method, under the lock; a time given to Set or UpdateTime was
read from the clock earlier (`Stamp`), so that times come out of order. `GetNewerThan`
subscribes in one step and receives in another.

**PodCallbacks.** The cache holds references: `cached` names an object, Get hands out that
object, and SetContainerExit changes it in place, one assignment at a time and in any
order for a goroutine that reads it without a lock. Each writer reads the clock (`StampExit`,
`StampCompleted`) before it Sets. Of times the worker only asks whether they are later than its last sync:
`entryNew` says it of the entry, `stampNew` of those who have read the clock. The worker goes
through `insert` (insertPodCache, or its failure), `get` (GetNewerThan: it is handed a newer entry, or waits until a Set
with a newer time hands it one), and `making` (the sync of its `work`), with the work
sync, terminating and terminated: syncPod and syncTerminatingPod report, syncTerminatedPod does not, so
that it makes two reports at most. A pod that is being deleted, or is over, when the kubelet first sees it
starts with the second work or with none.

**ApiPodStatus.** Extends PodCallbacks: the records are those its actions make, and `Report` is its `Sync` with what
becomes of it. `GenerateAPIPodStatus` is the pure part: for each container `Converted`
(convertContainerStatus) or `Missing` (no record), then `GetPhase` and `Phase`, and the conditions `Initialized` and
`ContainersReady`, with readiness as it is without probes. Of a container status there are its state, exit code and last
exit code; code 137 marks a container that was missed. Since a container has one record at most, and the reason cache is always
empty, the parts of convertToAPIContainerStatuses about a second record and about back-off change nothing and are left
out; so are restart counts. `Report` hands the status to updateStatusInternal, which may refuse it; `Patch` sends
it through mergePodStatus; `PodUpdated` is the worker's next work, which comes with a newer pod object;
`FailPod` is another client. `Crash` restarts the kubelet: PodCallbacks begins anew, so that every container is recorded as running again, and
the statuses in memory are gone; the pod object is what the API server has. Init containers have no records: nothing in
this kubelet makes any.

**PodManager, PodConfig.** The four maps with `updatePodsInternal`, `DeletePod` and
`SetPods`. PodConfig adds sources whose pods change (`world`), `Merge`, which computes the
notices under the lock and then sends them one by one (`outbox` → `updates`), and `Run`,
which takes a notice and handles its pods one by one, with the pod manager's methods;
`SetPods`, which nothing calls, is a step of `ManagerSpec` only, which the proofs are about. `syncs` remembers what the pod
workers were told last.

**PodReferences, ObjectCache.** A pod spec is a record of its containers' and volumes' references,
and `getReferencedObjects` what the watching managers make of it. `RegisterPod` and `UnregisterPod`
note in `call` which references they have still to add and to drop, since `AddReference` and
`DeleteReference` take the lock of the object cache one by one; the adds come before the drops.
`item` is the heap of objectCacheItems, which Gets and reflectors go on using when they have
left the map (`index`). A startReflector goroutine is a slot of `run`: it waits for the WaitGroup (`Wait`: at once, or asleep
until the last one `Done` releases it, and `Wake`), adds itself (`Add`), reads the stop channel (`Start`), lists, replaces the store, watches,
and leaves when the channel is closed. The channel is made under the item's lock by restartReflectorIfNeeded (98), which starts the goroutine;
startReflector (107) reads it without the lock, and may find a later one. A waiter that was released and finds the counter raised again panics,
as Go's WaitGroup does; that ends the process, and no step follows (`Alive`). `Get` is cut at its look-up, the access, the restart, the
poll, the read, and the freezing of an immutable object. `startRecycleIdleWatch` stops one idle item
at a time. An object's life at the API server is a constant sequence of versions (`Life`).

**Prober.** A worker is cut at everything it shares: it reads the published status (`Look`), decides
(`OnHold`, `NotRunning`, `QuietShutdown`, `Early`, `Probe`), and sets a
result, which is followed by a send (`Send`) if it was a change; then it waits for a stop, a
tick or a trigger, and at its end takes itself out of the map
(`removeWorker`). Counters of results stop at the larger threshold. `UpdatePodStatus` asks one question per step: for the
startup result, for the startup worker, for the readiness result, for the readiness worker,
which it triggers. The status it works on was made of the pod's entry in the cache (`Generate`) and is published
afterwards. `insertPodCache`, `SetContainerExit` and `SetPodCompleted` write the entry; PodCallbacks has their order, which
is left open here. No record has a container ID, and an empty one is printed as `://` (`runtime.go:207`), which is what the ID of a worker that has seen
no container is printed as. So doProbe (`worker.go:156-168`) finds an ID, and never a new container: the model has no step that sets an
initial value, removes a result or ends a hold, and `results` has one entry for each type, shared by
all containers of all pods. `added`, `ending` and `earned` are ghosts: what the manager was told of a
pod, which pods were said to end, and the types of which a probe has succeeded. Nothing calls AddPod in this kubelet, so all this is about
the component, given the records this kubelet makes.

## 3. The runs

Every property is stated and explained above its definition. A run with a bound on calls
lets the case it is about happen several times over; each property was also checked to
fail for a wrong version of the code it is about (`mutants` in PROJECT.json).

| run | instance | properties | shows |
|---|---|---|---|
| `PodWorkers` | an ordinary pod; four calls of UpdatePod from the run loop, eviction and housekeeping; every result of the sync functions; two CompletedCh | TypeOK, ChannelsAreSound, QueriesAreTrue, CanceledHasSuccessor, UpdatesInOrder, ImplementsLifecycle | the channel, lock and flag protocol is safe, the answers other loops get are true, and the contract is kept |
| `PodWorkersStatic` | two static pods with one full name, two calls each, no sync errors; fair | StaticPodHoldsName, TerminationCompletes | the line for a name; a pod asked to stop is finished, if the cache is refreshed again and again |
| `StatusManager` | a pod, two reports, a probe, a channel of one, one failed call or lost reply, one write of the phase by another client; fair | TypeOK, SkippedIsUpToDate, WritesAreDue, StatusReachesServer | no status is lost or reordered, no pod deleted unasked; a full channel or a failed call only delays a status |
| `StatusRecreated` | two pods of one name, one report each, one fault | StatusOfOwnPod | no status reaches the wrong pod |
| `PodCache` | a pod, two readers, two writers, three ticks; fair | TypeOK, SubscribersAreServed, AnswersAreRecent, RefreshEndsWait | waiting and notifying are sound; UpdateTime ends every earlier wait |
| `PodCallbacks` | two containers with a command and one without; fair | TypeOK, ExitCodesAreTrue, ReportsAreTrue, WaitIsEnded | goroutines that share an object lose no exit code, and what the worker reports of it happened, until SetPodCompleted and unless a command ended before there was an entry; whoever reads the clock after the worker began to wait ends its wait |
| `PodConfig` | two static pods of a file, which have one name in turn or at once, their mirror pod at the API server, every operation of the mux, a channel of one, three changes; fair | TypeOK, CatchesUp, MapsAgree, SyncsInOrder, KubeletConverges | no notice is lost or out of order, sources do not disturb each other, the pod manager's maps agree, the kubelet ends with the sources' pods |
| `ApiPodStatus` | a container with a command and one without, with an init container or not, each restart policy, one restart of the kubelet, another client that makes the pod Failed | ApiTypeOK, StatusIsEarned, ReportIsAccepted, EndIsFinal | phases and conditions are earned, the second report is not refused for the first, and of a pod with the policy Never an end that the API server shows is final although a restarted kubelet records all containers as running |
| `ObjectCache` | two pods that name a secret or not, by a container, a volume or both; an object that becomes immutable; two Gets; one item, two startReflector goroutines; fair | TypeOK, ReferencesCounted, ReadsAreFresh, StopsAreSafe, UpdateKeepsItem, SyncsInTheEnd | counts are exact, an update keeps the watched copy, no Get reads an unfilled store, stopping, freezing and restarting at once leave every item either stopped or watched and in the end synced, unless the WaitGroup panics and the process dies |
| `Prober` | a pod with a container, with one probe of each type in turn or none, under different restart policies; every call of the manager; the entry of the pod cache made, changed and made anew in any order; a channel of one; success and failure; fair | TypeOK, OneWorker, ClaimsAreEarned, StopsInTheEnd | a probe has one worker, the one that can be stopped; no status claims a success before there was one, while workers come and leave; a worker that was told to stop ends, unless the full channel holds it up |

*Bounds.* `MaxUpdates` (calls of UpdatePod for a UID): two calls fill the channel and the
overflow slot, a third replaces the latter, and a fourth comes after the pod is
forgotten, so that four cover a full second life begun. `MaxSets`: two reports, for a stale one and a
newer. `ChannelSize` 1 is the smallest channel, where dropping happens most. `MaxTime` 3:
a time before, at and after the one asked for. `MaxChanges` 3: create, delete, create
anew, or create, edit, delete, while a Merge of several notices waits for the one place of the channel.
`MaxCrashes` 1: a second restart
finds what the first could. ObjectCache: two pods for one object, so that one may leave or stop
naming it while the other stays; two reflectors of one item, the one that ends and its successor; `MaxItems` 1, an
item that is made anew when nothing uses the old one (what happens with a Get that still
holds the old one is under section 4). Prober: `UpdatesCap` 1 for the code's 20, so that a worker is
held up at its second change of a result; `MaxWorkers` 2, so that a second worker
of one probe would be seen; one probe at a time, since startup and readiness meet only in UpdatePodStatus, which asks for one after the
other; one container, so that the sharing of a result by several is shown by the proof and not by TLC; and only the pod without a
probe is started again under its UID (`again`), to keep the state space small. The code's runProbe answers neither success nor an error, which `probe` turns into a failure; the run has successes too,
as the code around it expects. The proofs of section 5 need no bounds on the number of pods,
readers, writers, names, objects, Gets or reflectors.

*Fairness.* `PodWorkers`: weak fairness of each goroutine's next step (Go's scheduler runs
a goroutine that can run; sync functions return, which is so for those of
`core/kubelet.go`); none for callers, for housekeeping or for the cache, hence the
premise of TerminationCompletes. `StatusManager`: weak fairness of the sync goroutine,
whose ticker never stops, of the watch, and of a worker that is about to hand in a status; none
for clients and for `RemoveOrphanedStatuses`; faults are bounded, which is to say that
calls do not fail for ever. `PodCache`: a reader that has its answer takes it.
`PodCallbacks`: the worker, the main loop and the containers' goroutines run (weak); a command may never end.
The worker may wait for ever (section 4), hence CHECK_DEADLOCK FALSE there and in `ApiPodStatus`; in `ObjectCache` it is there since a panic ends the process.
`PodConfig`: the sender and the run loop run (weak), and a source gets its turn at
`updateLock` again and again (strong: Go's mutex hands itself to a goroutine that has
waited for a millisecond). `ObjectCache`: every startReflector goroutine that can go on does (weak, one by one), while no WaitGroup has panicked, which
includes that client-go's reflector lists in the end and returns when its channel is closed; none for
registrations, Gets, the sweep and the clock. `Prober`: a worker runs (weak, for each probe), and a
select that finds a stop among its cases again and again takes it in the end (strong: Go chooses at random); none for
calls, containers and statuses.

*An assumption about time.* An item of ObjectCache becomes idle only when no Get that has recorded its access
is under way: a Get polls for a second at most, and `maxIdleTime` is a minute at least.

## 4. What the code does not keep

Runs with `"expect": "violation"`. Each checks what a comment of the source says, and
TLC's trace is a behaviour of the code. The `findings` of PROJECT.json quote the comments.

| run | the code says | but |
|---|---|---|
| `GraceRaised` | the grace period can only decrease (`pod_worker.go:647`) | a deletion grace of 0 counts as none and 2 becomes 3 |
| `CompletionUnreported` | SetPodCompleted completes the pod (`kubelet.go:88`) | mergePodStatus keeps the old phase for ever |

Modelling showed other differences, which have no run of their own:

- a kill that reaches a pod which is finished, was torn down as a runtime pod or never started
  leaves its CompletedCh open (`pod_worker.go:32` says never);
- the create of a pod that was finished when first seen sets restartRequested
  (259: re-created after a kill);
- for a static pod that never started, ShouldPodRuntimeBeRemoved holds and
  ShouldPodContainersBeTerminating does not (178);
- a static pod put off by allowPodStart leaves an update in lastUndelivered, which comes after
  a newer one (118: FIFO) or, after a teardown that failed, is synced although
  startedTerminating is set (243);
- nothing refreshes the cache: after its first sync a worker waits (933: 2 s at most) for a callback to Set something newer, and
  if every goroutine has read the clock before that sync, or has no command, it is the main loop's SetPodCompleted that wakes it, and if that too
  came before, nobody: the pod is never torn down. WaitIsEnded says which waits are ended;
- notify answers a reader also with a status that is exactly as old as asked (`cache.go:24`: newer);
- a worker makes two reports at most (`kubelet.go:320-342`), so that the ends of containers after the second are not reported (`cmd/main.go:37`),
  and an exit code that is shown need not be the last word: it may be 0 for a command that failed (below);
- the first status synced after a deletion was requested deletes the pod, running or not
  (`status_manager.go:77`), and the status of a pod that another client deleted stays, since
  nothing calls RemoveOrphanedStatuses (640);
- a request queued between the ticker's drain of the channel and the lock of syncBatch is sent although the batch handled it, once
  deletion was requested (`status_manager.go:28`: stale statuses are not sent);
- a container's exit code is lost if its command ended before the worker made the cache entry (`cmd/main.go:37`: the state is set by the
  exit code);
- Run drops RECONCILE, so that a status written by another client is not put right
  (`status_manager.go:722`) and a pod that it made Failed may be Running again
  (`kubelet_pods.go:62`);
- a restarted kubelet records every container as running again (`pod_worker.go:865`) and runs all commands again, whatever the
  restart policy; with Never or, for exit code 0, OnFailure, its reports are refused by the status manager as long as the API server shows
  an end, and the pod's status stays as it was. EndIsFinal is about Never only: with OnFailure an end with an exit code other than 0 may be taken back;
- a pod with init containers, which nothing runs, stays Pending for ever; and nothing fills the reason cache
  (`kubelet_pods.go:326`), so that no container is shown in back-off;
- SetPodCompleted replaces the exit code of a container that failed or runs on by 0, and a container's
  goroutine that got the status before SetPodCompleted and sets it after undoes it: a container that was reported as ended is running
  again, and that report is refused;
- the worker may read an object SetContainerExit has changed by half (`cache.go:65`), the state but not yet the exit code: the failure of the
  last container is reported as a success, and the pod as Succeeded;
- two startReflector goroutines of one item may both pass `waitGroup.Wait` before either adds itself, and run two reflectors at once
  (`watch_based_manager.go:37`: the group ensures that there are not two), one of which may replace the store by an older list;
- the WaitGroup is used again before all who waited have woken (`watch_based_manager.go:104-105`): a third startReflector that adds itself while the second is being
  woken makes the second panic, and nothing recovers: the process dies. SyncsInTheEnd speaks of processes that live;
- a Get that looked an item up before its last reference was dropped restarts the reflector of an item that has left the map, and nobody
  will stop it;
- RemovePod only tells the workers: the probe worker of a container that is held up by the full channel stays
  (`prober_manager.go:31`: clean-up of the workers and results), and StopsInTheEnd excepts it;
- the empty container ID of every record counts as one (`runtime.go:207`, `worker.go:156`): all containers share one result of each type, so that the success of one
  makes all others started or ready; a worker on hold is so for ever (`worker.go:174`: until there is a new container); there is no initial value and results are
  not removed with their worker (`worker.go:106`). ClaimsAreEarned is what is left of an honest status;
- AddPod returns at the first probe that has a worker: pods added while the old workers are leaving keep the probes after it without one.

## 5. The proofs

For all values of the constants that satisfy the named ASSUMEs, by TLAPS: any sets of pods, containers, readers,
objects and sources, any capacity of a channel and any bound on what is counted. Two theorems have a hypothesis
more, which the code justifies and the text below names. The
shape is the same everywhere: a lemma says in plain equations what an action does to the variables a conjunct
reads, one lemma for each action (or each kind of action) shows that the invariant is kept, and the theorem puts them
together with Init.

| property | theorem | invariant it needs |
|---|---|---|
| PodWorkers: TypeOK | `TypeCorrect` | none but itself |
| ChannelsAreSound | `ChannelsAreSoundHolds` | `WorkersInv` |
| CanceledHasSuccessor | `CanceledHasSuccessorHolds` | `CancelsInv` |
| QueriesAreTrue, StaticPodHoldsName | `QueriesAreTrueHolds`, `StaticPodHoldsNameHolds` | `LifesInv` |
| ImplementsLifecycle | `ImplementsLifecycleHolds` | `LifesInv` |
| UpdatesInOrder | `UpdatesInOrderHolds` | `OrdersInv` |
| PodCache: TypeOK, SubscribersAreServed, AnswersAreRecent | `CacheTypeCorrect`, `SubscribersAreServedHolds`, `NoStaleAnswer` | `CacheInv` |
| PodCallbacks: TypeOK, ExitCodesAreTrue, ReportsAreTrue | `TypeCorrect`, `ExitCodesAreTrueHolds`, `ReportsAreTrueHolds` | `CallbacksInv` |
| PodConfig: TypeOK, CatchesUp, SyncsInOrder | `PodConfigTypeCorrect`, `CatchesUpHolds`, `SyncsInOrderHolds` | `ConfigInv` |
| MapsAgree | `NotifiedMapsAgree`, `MapsAgreeHolds` | `NoClash`, `ManagerInv` |
| StatusManager: TypeOK, StatusOfOwnPod | `TypeCorrect`, `StatusOfOwnPodHolds` | `Owned` of `SyncInv` |
| SkippedIsUpToDate, WritesAreDue | `SkippedIsUpToDateHolds`, `WritesAreDueHolds` | `SyncInv` with `Shown`, with `Ordered` |
| ApiPodStatus: ApiTypeOK | `ApiTypeCorrect` | none but itself and PodCallbacks' TypeOK |
| StatusIsEarned, ReportIsAccepted | `StatusIsEarnedHolds`, `ReportIsAcceptedHolds` | `ClaimsInv` with `CallbacksInv` |
| EndIsFinal | `EndIsFinalHolds` | `EndsAreKept` |
| ObjectCache: TypeOK, ReferencesCounted, ReadsAreFresh, StopsAreSafe, UpdateKeepsItem | `ObjectCacheTypeCorrect`, `ReferencesCountedHolds`, `ReadsAreFreshHolds`, `StopsAreSafeHolds`, `UpdateKeepsItemHolds` | `CacheInv` of ObjectCacheProofs |
| Prober: TypeOK, OneWorker, ClaimsAreEarned | `ProberTypeCorrect`, `OneWorkerHolds`, `ClaimsAreEarnedHolds` | `ProberInv` |

**PodWorkersProofs** (from `PodWorkersAssumption`). `TypeCorrect`: `Spec => []TypeOK`, by
one lemma for each action. `ChannelsAreSoundHolds` follows from `WorkersInv`, which says of each UID: it has a
channel exactly while it has a worker; then its status is known and not finished;
without a worker nothing is undelivered; a channel with something in it has one thing in it and
its worker is at `receive`; and `working` is true unless the worker is at `receive` with an
empty channel. None of the parts is inductive alone: that
completeWork may send needs that the channel is empty outside `receive`, which needs that
UpdatePod sends only when `working` is false, which needs that `working` is exact.
`WorkerStepTouchesOne` shows that a step of one worker leaves the others' part alone,
so that the invariant is proved for one UID at a time; SyncKnownPods, which changes many, has
its own lemma. That no CompletedCh is closed twice (NotifyListOpen) is inductive together with the types.
`CanceledHasSuccessorHolds` adds `CancelsInv`: a context is cancelled only by work that is left in lastUndelivered, and stays there
until completeWork takes it.

The answers to other loops, the names of static pods and the refinement rest on one thing: the work a
worker holds, finds in its channel or has left in lastUndelivered was asked for in the phase of life the
pod's status is in (`Fits`). `LifesInv` says it, with the order of the flags of a status
(`StatusInv`), what each place of managePodLoop implies (`PlaceInv`), that a sync is left over only behind other syncs, but for a static
pod that waits for its name (`WorkInv`), and who holds a name (`NameInv`). It is not inductive for a static pod that is torn
down as a runtime pod, whose older update may be synced after its teardown has begun (section 4). Hence the
hypothesis `NoStaticRuntimeKill` of `QueriesAreTrueHolds`, `StaticPodHoldsNameHolds` and
`ImplementsLifecycleHolds`: a RunningPod is a runtime pod that is no longer present in the configuration (`pod_worker.go:60`), while a static pod is known by
its configuration; both runs of PodWorkers satisfy it. For the refinement `NextRefines` shows for each action
what it does to the phase of each UID and to whether a sync runs: a step of PodLifecycle for one UID or for a set of them, or a stutter.
`OrdersInv`: what a worker has processed is not newer than what is in its channel, and that not newer than what is left in
lastUndelivered, nor that than the last call.

**PodCacheProofs** (from `PodCacheAssumption`). `CacheInv` adds to the type invariant and
the safety properties that a reader makes one call at a time (`OneCallPerReader`): only then
is a subscriber's channel empty when notify sends, and answered when it leaves the
list. `SubscribersAreServedHolds`, `NoSilentRemoval`, `NoStaleAnswer`, `CacheTypeCorrect`.

**PodCallbacksProofs** (from `PodCallbacksAssumption`). `CallbacksInv`, until SetPodCompleted: only the worker's object and the empty ones are in use (`Places`,
`EmptyOnes`), and the worker's, like what was reported, shows an end or a failure only of a command that came to it (`RealOnes`, `FailuresAreReal`). While no goroutine has come before the entry
there was, all have an object that was in the cache, and there is one only until SetPodCompleted (`Shared`), and what each has assigned so far is in its object (`Assigned`): only because
they share it does the set of one not undo what another has assigned meanwhile. The worker that was woken has the object of the goroutine
that woke it, which had assigned everything before (`Woken`); with `Assigned` that is WakerIsSeen, also after SetPodCompleted.

**PodConfigProofs.** First `ManagerSpec` (from `PodManagerAssumption`, `NoPodAssumption`),
where a name goes to a pod only after the pod of that kind that had it was deleted. `ManagerInv` adds that each index has pods under their own names
(`IndexedByOwnName`) and that what is translated is a known mirror pod, to a pod of its
name that may be gone (`TranslationsAreOfMirrors`); without the latter a translation left from
an earlier pod could break the inverse. `ManagerTypeCorrect`, `IndexesAgree`, `TranslationHolds`, `MapsAgreeHolds`.

Then PodConfig as a whole (also from `PodConfigAssumption`). `CatchesUp` says what the kubelet's pods will be
when the notices on their way are handled. To be inductive it needs that each notice fits what those before it leave
(`OpsFit`: an ADD finds no pod, the others find one), that podStorage has a name once for each source (`StoredOnce`) and that nothing is on its
way to the channel when no Merge holds the lock (`LockFree`). The state after some notices is given by the last of them that tells of the pod;
that there is a last one is the minimum principle of the well-founded order of the natural numbers (`LeastElement`). `SyncsInOrderHolds` adds what
the workers were told (`ToldToRun`) and that a pod whose name no other pod of its source has is not added after its removal (`LastIsRemoval`).
`NotifiedMapsAgree` discharges the condition of ManagerSpec: at no point of the queue have two pods of one kind one name
(`NoClash`). It has the hypothesis `OneSource`, that pods of one kind and name come from one source, since podStorage keeps names apart only
within a source; NewMyKubelet sets up one, the API server (`core/kubelet.go`), where a name is given once.

**StatusManagerProofs** (from the ASSUME of StatusManager). `SyncInv` says who may be at the server under a name (`Lives`), that the sync
goroutine has read its own pod (`ReadsItsPod`) and the pod at the server has only its own statuses (`Owned`); that versions count what was set
(`Counted`), a request has an entry the cache once had (`AllSound`), and what syncPod knows at each place (`Turn`).
`StatusOfOwnPodHolds` follows from `Owned`. For `SkippedIsUpToDateHolds`, `Shown` adds that a version recorded as sent is shown by the server, whatever was dropped,
failed or forgotten in between. For the action property `WritesAreDueHolds`, `Ordered` adds that, while no call failed, no request that can still
be written is older than the last one written: either the version that was synced keeps it out, or
all that waits is newer.

**ApiPodStatusProofs** (from `ApiPodStatusAssumption`). Every step but a restart is a step of PodCallbacks or leaves it alone, and a restart begins it anew, so
that its types and `CallbacksInv` hold here too (`TypeHolds`, `CallbacksInvHolds`). `NewFact`, `NewContainers` and `NewPhase` say what
generateAPIPodStatus makes of any entry and any status before. `ClaimsInv`: the pod's init containers
were never shown started (`InitOnes`); no pod object has a terminal phase unless another client set it, since mergePodStatus
keeps it out (`Phases`); and what the first report said of a container's end, the object that the second will be made of still shows
(`FirstReport`), which with the policy of each pod gives ReportIsAccepted. `EndsAreKept`, for EndIsFinal: with Never an end that the server shows is in the status manager's
status and, before the first report after a restart, in the pod object, so that the check of transitions refuses whatever
would take it back.

**ObjectCacheProofs** (from `ObjectCacheAssumption`). `CacheInv` has, besides the types and the exact counts
(ReferencesCounted): what a synced store holds and what the runs have listed is not older than the item (`Fresh`); a run has an open channel until
it starts (`Unclosed`), whether it waits, sleeps or was released; what a Get that is under way knows of its item (`Using`); and of the item in the map that it is
the object's own, served if it is frozen, watched if it is not stopped and its WaitGroup has not panicked (`Minded`), and synced while a Get
reads it (`Indexed`). They hold only together: the count stays a natural number because it counts pods,
and a frozen item keeps its store because no sweep can stop an item that a Get has just used.

**ProberProofs** (from `ProberAssumption`). `ProberInv` is the types, `WorkersInv` and `ClaimsInv`. `WorkersInv`: the worker in the map is the only one of its
probe that lives (OneWorker); one that may leave is of a pod that ends (`Minded`); and so a pod that was added and does not end has all its workers
(`Guarded`). `ClaimsInv`: every success that is kept was earned, a published status that has something end for good has its pod
end, and the published status and the one being made claim no more than was earned (`Honest`). ClaimsAreEarned has to show that UpdatePodStatus, which
takes the lack of a worker for a success, is right to: by `Guarded` a probe without a worker is one of a pod that ends, or was not added yet. Every step of a worker but its last is shown to be a
`Moves`; the other calls do to the workers at most what `Signals` allows, and UpdatePodStatus before it publishes what `Reports` does. No part speaks of which
container a result is for: all share it.

*Proved and in no run:* `UnlistedIsAnswered` of PodCache (NoSilentRemoval), the theorems about `ManagerSpec`
(MapsAgreeHolds, IndexesAgree, TranslationHolds and ManagerTypeCorrect), and the parts of ChannelsAreSound and SubscribersAreServed on their own.

*Only model-checked:* liveness (TerminationCompletes, StatusReachesServer, RefreshEndsWait, WaitIsEnded, KubeletConverges, SyncsInTheEnd,
StopsInTheEnd): the proof system has no rule for fairness or ENABLED in this version. It cannot instantiate the library's induction
theorems either, so nothing is proved about what a recursive definition computes; the notices' queue, where it matters, is reasoned
about with the minimum principle instead.

## 6. What is not modelled

The mirror client (nothing calls it), the reason cache (nothing fills it), the I/O of the probes (runProbe does not call them), the simple secret and configMap managers (they read the API server and
keep no state) and the caching ones (their object store with a time to live is a stub here), most container helpers, formatting and other pod utilities, API
types, defaulting and registration: see `components` in PROJECT.json for each and why. Within the
modelled parts: metrics, events, logs; message texts, reasons and time fields of statuses;
the condition lists but for Initialized, ContainersReady and Ready; several or init containers in StatusManager (ApiPodStatus has them) and probes in ApiPodStatus (Prober has them);
restart counts, a second record of a container and its back-off, which this kubelet never has; static and mirror pods in StatusManager; the two snapshot modes of
podStorage; the namespaces of secrets and configmaps; the lengths of InitialDelaySeconds and of the periods of probes; panics that `wait.Until` catches and restarts.

External to the code and modelled from its use: the API server and its clients, the patch
of a status, the sources' pods, client-go's reflector, Go's WaitGroup, time. There is no container runtime: who makes the records of containers is under
`src/`, and modelled.

What is left is mostly declarations: `apis/core/types.go` alone has a third of the lines of the repository.

## 7. Plan

Done: PodLifecycle, PodWorkers, StatusManager, PodCache, PodCallbacks, PodManager, PodConfig, ApiPodStatus,
PodReferences, ObjectCache, Prober, in this order because the workers are what everything else feeds or serves; and a
theorem for every safety and action property the passing runs check.

1. `Kubelet`: run loop, workers, cache and callbacks as wired, for the hazards that need
   several of them (insertPodCache against REMOVE, `onAdd` sleeping).
2. An abstract specification of the status manager, what the server shows of a pod as a sequence of the statuses set, which
   WritesAreDue and StatusOfOwnPod are the safety part of.
3. The two snapshot modes of podStorage.

## 8. Running it

`tlc -config <run>.cfg <module>.tla` with the module PROJECT.json names for the run;
`tlapm <module>.tla` for the eight proof modules, each a minute to a few. The largest runs are `StatusRecreated`
(5.1 million states), `StatusManager` (2.2 million, with liveness), `ApiPodStatus` (1.6 million), `ObjectCache` (1.3 million, with liveness),
`PodConfig` (440 thousand, with liveness), `PodCallbacks` (230 thousand) and `Prober` (160 thousand, with liveness): from half a minute
to four minutes each with two workers; the others take less than a minute.
