---------------------------- MODULE StatusManager ----------------------------
(***************************************************************************)
(* pkg/kubelet/status/status_manager.go: the cache of pod statuses that    *)
(* the pod workers write under podStatusesLock, and the one goroutine that *)
(* brings them to the API server, on request (a channel that drops what    *)
(* does not fit) and on every tick (syncBatch).                            *)
(*                                                                         *)
(* The goroutine is cut at its API calls and where it takes the lock:      *)
(*                                                                         *)
(*   next -> check -> get -> patch -> delete -> forget -> next             *)
(*   next -> snapshot -> next (batch)                                      *)
(*                                                                         *)
(* Around it: the workers' calls as pkg/core/kubelet.go makes them, the    *)
(* API server, which fails, loses replies and is written by others, and    *)
(* the pod objects the kubelet has seen of it.  Pods have one container,   *)
(* no init containers, and are not static.                                 *)
(***************************************************************************)
EXTENDS Integers, Sequences, FiniteSets

CONSTANTS
  UIDs, NoUID,
  NameOf,           \* [UIDs -> names]: two UIDs of one name are recreations
  RestartPolicy,    \* spec.restartPolicy of the pods
  FirstStatuses,    \* the statuses a pod may have when it is created
  ProbeResults,     \* what probes report: {} as the kubelet is wired
  ChannelSize,      \* capacity of podStatusChannel
  MaxSets,          \* bound: reports for each UID
  MaxFaults,        \* bound: failed API calls
  MaxOverwrites     \* bound: statuses written by somebody else

Names == {NameOf[u] : u \in UIDs}

\* v1.PodStatus: its phase and the state of the container ("none" is an empty
\* ContainerStatuses list).  The conditions follow from these and are left out.
Status == [phase : {"Pending", "Running", "Succeeded", "Failed"},
           container : {"none", "waiting", "running", "completed", "failed"},
           ready : BOOLEAN, started : BOOLEAN]

NoStatus == [phase |-> "Pending", container |-> "none", ready |-> FALSE,
             started |-> FALSE]

ASSUME StatusManagerAssumption ==
  /\ NoUID \notin UIDs
  /\ RestartPolicy \in {"Always", "OnFailure", "Never"}
  /\ FirstStatuses \subseteq Status
  /\ ProbeResults \subseteq BOOLEAN
  /\ ChannelSize \in Nat \ {0}
  /\ MaxSets \in Nat /\ MaxFaults \in Nat /\ MaxOverwrites \in Nat

\* A v1.Pod as the kubelet holds it, and as the API server does.  writer is who
\* wrote the status last: the cached status of which UID, set when.
Pod == [deleting : BOOLEAN, status : Status]
NoPod == [deleting |-> FALSE, status |-> NoStatus]
Writer == [uid : UIDs \union {NoUID}, at : Nat]
Nobody == [uid |-> NoUID, at |-> 0]
ApiPod == [uid : UIDs \union {NoUID}, deleting : BOOLEAN, status : Status,
           writer : Writer]
NoApiPod == [uid |-> NoUID, deleting |-> FALSE, status |-> NoStatus,
             writer |-> Nobody]

\* versionedPodStatus, version 0 = key absent; at dates the call that set it.
Versioned == [version : Nat, at : Nat, status : Status]
NotCached == [version |-> 0, at |-> 0, status |-> NoStatus]
SyncRequest == [uid : UIDs, cached : Versioned]
NoRequest == [uid |-> NoUID, cached |-> NotCached]

VARIABLES
  podStatuses,        \* [UIDs -> Versioned]
  podStatusChannel,   \* Seq(SyncRequest)
  apiStatusVersions,  \* [UIDs -> Nat], 0 = key absent
  pc, request, got,   \* the goroutine: place, syncPod's request and pod
  batch,              \* what syncBatch has left to sync, in no order
  report,             \* [UIDs -> status a worker is about to set, if any]
  held,               \* [UIDs -> the Pod the UID's worker holds, {} before it has one]
  known, manager,     \* the pod manager: UIDs it has, the last Pod seen of each
  api,                \* [Names -> ApiPod]
  created,            \* UIDs that were created at the API server
  sets, faults, overwrites

cacheVars == <<podStatuses, podStatusChannel, apiStatusVersions>>
syncVars == <<pc, request, got, batch>>
workerVars == <<report, held>>
kubeletVars == <<known, manager>>
apiVars == <<api, created, overwrites>>
vars == <<cacheVars, syncVars, workerVars, kubeletVars, apiVars, sets, faults>>

TypeOK ==
  /\ podStatuses \in [UIDs -> Versioned]
  /\ podStatusChannel \in Seq(SyncRequest)
  /\ Len(podStatusChannel) <= ChannelSize
  /\ apiStatusVersions \in [UIDs -> Nat]
  /\ pc \in {"next", "snapshot", "check", "get", "patch", "delete", "forget"}
  /\ request \in SyncRequest \union {NoRequest}
  /\ got \in ApiPod
  /\ batch \subseteq SyncRequest
  /\ report \in [UIDs -> SUBSET Status]
  /\ held \in [UIDs -> SUBSET Pod] /\ manager \in [UIDs -> Pod]
  /\ known \subseteq UIDs
  /\ api \in [Names -> ApiPod]
  /\ created \subseteq UIDs
  /\ sets \in [UIDs -> 0..MaxSets]
  /\ faults \in 0..MaxFaults /\ overwrites \in 0..MaxOverwrites

Init ==
  /\ podStatuses = [u \in UIDs |-> NotCached]
  /\ podStatusChannel = <<>>
  /\ apiStatusVersions = [u \in UIDs |-> 0]
  /\ pc = "next" /\ request = NoRequest /\ got = NoApiPod /\ batch = {}
  /\ report = [u \in UIDs |-> {}]
  /\ held = [u \in UIDs |-> {}] /\ manager = [u \in UIDs |-> NoPod]
  /\ known = {}
  /\ api = [n \in Names |-> NoApiPod]
  /\ created = {}
  /\ sets = [u \in UIDs |-> 0] /\ faults = 0 /\ overwrites = 0

-----------------------------------------------------------------------------
(* Pure parts *)

Terminal(phase) == phase \in {"Succeeded", "Failed"}
Cached(u) == podStatuses[u].version > 0
GetPodStatus(u) == podStatuses[u].status
LastStatus(u, pod) == IF Cached(u) THEN GetPodStatus(u) ELSE pod.status

\* Conditions of others are no difference, and those of the kubelet are left out.
isPodStatusByKubeletEqual(old, new) == old = new

\* findContainerStatus finds the container of a probe
HasContainer(s) == s.container # "none"
Exited(s) == s.container \in {"completed", "failed"}

\* checkContainerStateTransition: an exited container stays so, unless it may
\* be restarted.
IllegalTransition(old, new) ==
  /\ RestartPolicy # "Always"
  /\ Exited(old)
  /\ ~(old.container = "failed" /\ RestartPolicy = "OnFailure")
  /\ new.container # "none" /\ ~Exited(new)

\* getPhase, for a pod of one container
PhaseOf(container) ==
  CASE container = "running" -> "Running"
    [] container = "completed" ->
         IF RestartPolicy = "Always" THEN "Running" ELSE "Succeeded"
    [] container = "failed" ->
         IF RestartPolicy = "Never" THEN "Failed" ELSE "Running"
    [] OTHER -> "Pending"

\* generateAPIPodStatus: the phase the API server showed is final once terminal,
\* and the phase reported last if nothing newer is terminal.
ReportedPhase(container, old, shown) ==
  IF Terminal(shown) THEN shown
  ELSE IF Terminal(old) /\ ~Terminal(PhaseOf(container)) THEN old
  ELSE PhaseOf(container)

\* PodCouldHaveRunningContainers and PodResourcesAreReclaimed of MyKubelet
PodCouldHaveRunningContainers == TRUE
PodResourcesAreReclaimed == TRUE

\* mergePodStatus
MergePodStatus(old, new) ==
  LET keep == /\ ~Terminal(old.phase) /\ Terminal(new.phase)
              /\ PodCouldHaveRunningContainers
  IN  IF keep THEN [new EXCEPT !.phase = old.phase] ELSE new

\* PatchPodStatus sends what differs between the pod that was read and the merged
\* status; what did not change keeps the value the server has by then.
Patched(current, old, new) ==
  [f \in DOMAIN current |-> IF new[f] # old[f] THEN new[f] ELSE current[f]]

CanBeDeleted(pod) == pod.deleting /\ PodResourcesAreReclaimed

MutNeedsUpdate(u, version) == TRUE
MutNeedsUpdateOnce(u, version) ==
  \/ apiStatusVersions[u] = 0
  \/ u \in known /\ CanBeDeleted(manager[u])
NeedsUpdate(u, version) ==
  \/ apiStatusVersions[u] < version
  \/ u \in known /\ CanBeDeleted(manager[u])

NeedsReconcile(u, status) ==
  u \in known /\ ~isPodStatusByKubeletEqual(manager[u].status, status)

-----------------------------------------------------------------------------
(* Writers of the cache *)

\* The send of updateStatusInternal: a request that does not fit is dropped.
MutEnqueued(r) == Append(podStatusChannel, r)
Enqueued(r) == IF Len(podStatusChannel) < ChannelSize
               THEN Append(podStatusChannel, r) ELSE podStatusChannel

\* updateStatusInternal, under the lock; an unchanged status is not a new one.
UpdateStatus(u, pod, status, force) ==
  LET old == LastStatus(u, pod)
      new == [version |-> podStatuses[u].version + 1, at |-> sets[u] + 1,
              status |-> status]
  IN
  /\ sets[u] < MaxSets
  /\ IF \/ IllegalTransition(old, status)
        \/ Cached(u) /\ isPodStatusByKubeletEqual(old, status) /\ ~force
     THEN UNCHANGED <<podStatuses, podStatusChannel, sets>>
     ELSE /\ podStatuses' = [podStatuses EXCEPT ![u] = new]
          /\ sets' = [sets EXCEPT ![u] = @ + 1]
          /\ podStatusChannel' = Enqueued([uid |-> u, cached |-> new])
  /\ UNCHANGED apiStatusVersions

\* A worker in syncPod or syncTerminatingPod makes a status for the pod object it
\* holds, or for a newer one it was given, from what its containers do.
Generate(u, pod, container) ==
  LET old == LastStatus(u, pod)
      up == container = "running"
  IN
  /\ held[u] # {} /\ report[u] = {} /\ sets[u] < MaxSets
  /\ pod \in held[u] \union {manager[u]}
  /\ held' = [held EXCEPT ![u] = {pod}]
  /\ report' = [report EXCEPT ![u] =
       {[phase |-> ReportedPhase(container, old.phase, pod.status.phase),
         container |-> container, ready |-> up, started |-> up]}]
  /\ UNCHANGED <<cacheVars, syncVars, kubeletVars, apiVars, sets, faults>>

SetPodStatus(u) ==
  /\ \E s \in report[u], pod \in held[u] : UpdateStatus(u, pod, s, pod.deleting)
  /\ report' = [report EXCEPT ![u] = {}]
  /\ UNCHANGED <<held, syncVars, kubeletVars, apiVars, faults>>

SetContainerReadiness(u, ready) ==
  LET s == GetPodStatus(u)
  IN
  /\ u \in known /\ Cached(u) /\ HasContainer(s) /\ s.ready # ready
  /\ UpdateStatus(u, manager[u], [s EXCEPT !.ready = ready], FALSE)
  /\ UNCHANGED <<workerVars, syncVars, kubeletVars, apiVars, faults>>

SetContainerStartup(u, started) ==
  LET s == GetPodStatus(u)
  IN
  /\ u \in known /\ Cached(u) /\ HasContainer(s) /\ s.started # started
  /\ UpdateStatus(u, manager[u], [s EXCEPT !.started = started], FALSE)
  /\ UNCHANGED <<workerVars, syncVars, kubeletVars, apiVars, faults>>

\* A container that is not known to have ended has failed.
TerminatePod(u) ==
  /\ \E pod \in held[u] :
       LET s == LastStatus(u, pod)
       IN  UpdateStatus(u, pod,
             IF ~HasContainer(s) \/ Exited(s) THEN s
             ELSE [s EXCEPT !.container = "failed"], TRUE)
  /\ UNCHANGED <<workerVars, syncVars, kubeletVars, apiVars, faults>>

\* The caller names the pods it knows.
RemoveOrphanedStatuses(podUIDs) ==
  /\ \E u \in UIDs \ podUIDs : Cached(u)
  /\ podStatuses' = [u \in UIDs |->
       IF u \in podUIDs THEN podStatuses[u] ELSE NotCached]
  /\ UNCHANGED <<podStatusChannel, apiStatusVersions, syncVars, workerVars,
                 kubeletVars, apiVars, sets, faults>>

-----------------------------------------------------------------------------
(* The goroutine of Start *)

TakeRequest ==
  /\ pc = "next" /\ batch = {} /\ podStatusChannel # <<>>
  /\ request' = Head(podStatusChannel)
  /\ podStatusChannel' = Tail(podStatusChannel)
  /\ pc' = "check"
  /\ UNCHANGED <<podStatuses, apiStatusVersions, got, batch, workerVars,
                 kubeletVars, apiVars, sets, faults>>

\* The ticker: the batch stands in for what the channel holds.
Tick ==
  /\ pc = "next" /\ batch = {}
  /\ podStatusChannel' = <<>>
  /\ pc' = "snapshot"
  /\ UNCHANGED <<podStatuses, apiStatusVersions, request, got, batch,
                 workerVars, kubeletVars, apiVars, sets, faults>>

\* syncBatch, the part under the lock
OrphanedVersions(u) == IF Cached(u) THEN apiStatusVersions[u] ELSE 0

SyncBatch ==
  LET stale == {u \in UIDs : Cached(u) /\ NeedsUpdate(u, podStatuses[u].version)}
      differ == {u \in UIDs : Cached(u) /\ u \notin stale
                              /\ NeedsReconcile(u, podStatuses[u].status)}
  IN
  /\ pc = "snapshot"
  /\ batch' = {[uid |-> u, cached |-> podStatuses[u]] : u \in stale \union differ}
  /\ apiStatusVersions' =
       [u \in UIDs |-> IF u \in differ THEN 0 ELSE OrphanedVersions(u)]
  /\ pc' = "next"
  /\ UNCHANGED <<podStatuses, podStatusChannel, request, got, workerVars,
                 kubeletVars, apiVars, sets, faults>>

NextInBatch(r) ==
  /\ pc = "next" /\ r \in batch
  /\ request' = r /\ batch' = batch \ {r}
  /\ pc' = "check"
  /\ UNCHANGED <<cacheVars, got, workerVars, kubeletVars, apiVars, sets, faults>>

\* syncPod returns.
Return == pc' = "next" /\ request' = NoRequest /\ got' = NoApiPod
Goto(place) == pc' = place /\ UNCHANGED request

Check ==
  /\ pc = "check"
  /\ IF NeedsUpdate(request.uid, request.cached.version)
     THEN Goto("get") /\ UNCHANGED got
     ELSE Return
  /\ UNCHANGED <<cacheVars, batch, workerVars, kubeletVars, apiVars, sets,
                 faults>>

Name == NameOf[request.uid]

\* Is the pod that has the name now the one the status is for?
MutRecreated(pod) == FALSE
Recreated(pod) == pod.uid # request.uid

Get ==
  /\ pc = "get"
  /\ IF api[Name].uid = NoUID THEN Return
     ELSE /\ Goto(IF Recreated(api[Name]) THEN "forget" ELSE "patch")
          /\ got' = api[Name]
  /\ UNCHANGED <<cacheVars, batch, workerVars, kubeletVars, apiVars, sets,
                 faults>>

\* PatchPodStatus: what the API server has of the pod after the call, and whether a
\* call is made at all.
Merged == MergePodStatus(got.status, request.cached.status)
Sent == Merged # got.status
PatchedPod(now) ==
  [now EXCEPT !.status = Patched(@, got.status, Merged),
              !.writer = [uid |-> request.uid, at |-> request.cached.at]]

\* The patch names the UID of the pod that was read; one that changes nothing is
\* not sent, and the pod that was read is the one to delete or not.
Patch ==
  /\ pc = "patch"
  /\ IF Sent /\ api[Name].uid # got.uid
     THEN Return /\ UNCHANGED <<api, apiStatusVersions>>
     ELSE /\ api' = IF Sent THEN [api EXCEPT ![Name] = PatchedPod(@)] ELSE api
          /\ apiStatusVersions' =
               [apiStatusVersions EXCEPT ![got.uid] = request.cached.version]
          /\ IF CanBeDeleted(IF Sent THEN PatchedPod(api[Name]) ELSE got)
             THEN Goto("delete") /\ UNCHANGED got
             ELSE Return
  /\ UNCHANGED <<podStatuses, podStatusChannel, batch, workerVars, kubeletVars,
                 created, overwrites, sets, faults>>

\* Delete with the pod's UID as a precondition
Delete ==
  /\ pc = "delete"
  /\ IF api[Name].uid = got.uid
     THEN /\ api' = [api EXCEPT ![Name] = NoApiPod]
          /\ Goto("forget") /\ UNCHANGED got
     ELSE Return /\ UNCHANGED api
  /\ UNCHANGED <<cacheVars, batch, workerVars, kubeletVars, created, overwrites,
                 sets, faults>>

\* deletePodStatus, under the lock
Forget ==
  /\ pc = "forget"
  /\ podStatuses' = [podStatuses EXCEPT ![request.uid] = NotCached]
  /\ Return
  /\ UNCHANGED <<podStatusChannel, apiStatusVersions, batch, workerVars,
                 kubeletVars, apiVars, sets, faults>>

\* A call fails, before or after the server did what it was asked: syncPod
\* returns.
CallFails ==
  /\ faults < MaxFaults
  /\ pc \in {"get", "delete"} \/ (pc = "patch" /\ Sent)
  /\ faults' = faults + 1
  /\ Return
  /\ UNCHANGED <<cacheVars, batch, workerVars, kubeletVars, apiVars, sets>>

ReplyLost ==
  /\ pc \in {"patch", "delete"} /\ faults < MaxFaults /\ api[Name].uid = got.uid
  /\ \/ pc = "delete" /\ api' = [api EXCEPT ![Name] = NoApiPod]
     \/ pc = "patch" /\ Sent /\ api' = [api EXCEPT ![Name] = PatchedPod(@)]
  /\ faults' = faults + 1
  /\ Return
  /\ UNCHANGED <<cacheVars, batch, workerVars, kubeletVars, created, overwrites,
                 sets>>

-----------------------------------------------------------------------------
(* The API server's other clients, and what the kubelet sees of it *)

Create(u, status) ==
  /\ u \notin created /\ api[NameOf[u]].uid = NoUID
  /\ created' = created \union {u}
  /\ api' = [api EXCEPT ![NameOf[u]] =
       [NoApiPod EXCEPT !.uid = u, !.status = status]]
  /\ UNCHANGED <<cacheVars, syncVars, workerVars, kubeletVars, overwrites, sets,
                 faults>>

Alive(u) == api[NameOf[u]].uid = u

\* A graceful deletion leaves the rest to the kubelet, a forced one does not.
RequestDeletion(u) ==
  /\ Alive(u) /\ ~api[NameOf[u]].deleting
  /\ api' = [api EXCEPT ![NameOf[u]].deleting = TRUE]
  /\ UNCHANGED <<cacheVars, syncVars, workerVars, kubeletVars, created,
                 overwrites, sets, faults>>

ForceDeletion(u) ==
  /\ Alive(u)
  /\ api' = [api EXCEPT ![NameOf[u]] = NoApiPod]
  /\ UNCHANGED <<cacheVars, syncVars, workerVars, kubeletVars, created,
                 overwrites, sets, faults>>

\* Another client sets the pod's phase to Failed, as the pod garbage collector
\* and the node controllers do.
FailPod(u) ==
  /\ Alive(u) /\ overwrites < MaxOverwrites
  /\ ~Terminal(api[NameOf[u]].status.phase)
  /\ api' = [api EXCEPT
       ![NameOf[u]].status.phase = "Failed",
       ![NameOf[u]].writer = Nobody]
  /\ overwrites' = overwrites + 1
  /\ UNCHANGED <<cacheVars, syncVars, workerVars, kubeletVars, created, sets,
                 faults>>

PodNow(u) == [deleting |-> api[NameOf[u]].deleting,
              status |-> api[NameOf[u]].status]

\* Run: ADD, UPDATE and DELETE bring the pod manager the pod with the status it
\* has then.  RECONCILE, which a change of the status alone makes, is dropped.
PodSeen(u) ==
  /\ Alive(u) /\ (u \notin known \/ manager[u].deleting # PodNow(u).deleting)
  /\ known' = known \union {u}
  /\ manager' = [manager EXCEPT ![u] = PodNow(u)]
  /\ held' = IF u \in known THEN held ELSE [held EXCEPT ![u] = {PodNow(u)}]
  /\ UNCHANGED <<cacheVars, syncVars, report, apiVars, sets, faults>>

\* An edit of labels, annotations or the spec makes an UPDATE.
PodEdited(u) ==
  /\ Alive(u) /\ u \in known /\ manager[u] # PodNow(u)
  /\ manager' = [manager EXCEPT ![u] = PodNow(u)]
  /\ UNCHANGED <<known, cacheVars, syncVars, workerVars, apiVars, sets, faults>>

\* REMOVE
PodGone(u) ==
  /\ u \in known /\ ~Alive(u)
  /\ known' = known \ {u}
  /\ UNCHANGED <<manager, cacheVars, syncVars, workerVars, apiVars, sets, faults>>

-----------------------------------------------------------------------------
SyncStep ==
  \/ TakeRequest \/ Tick \/ SyncBatch \/ Check \/ Get \/ Patch \/ Delete \/ Forget
  \/ \E r \in batch : NextInBatch(r)

Callers(u) ==
  \/ \E container \in {"waiting", "running", "completed", "failed"} :
       \E pod \in held[u] \union {manager[u]} : Generate(u, pod, container)
  \/ SetPodStatus(u)
  \/ \E result \in ProbeResults :
       SetContainerReadiness(u, result) \/ SetContainerStartup(u, result)
  \/ TerminatePod(u)

Next ==
  \/ SyncStep \/ CallFails \/ ReplyLost
  \/ \E u \in UIDs :
       \/ Callers(u)
       \/ \E s \in FirstStatuses : Create(u, s)
       \/ RequestDeletion(u) \/ ForceDeletion(u) \/ FailPod(u)
       \/ PodSeen(u) \/ PodEdited(u) \/ PodGone(u)
  \/ \E S \in SUBSET UIDs : known \subseteq S /\ RemoveOrphanedStatuses(S)

Spec == Init /\ [][Next]_vars

\* The goroutine runs and its ticker ticks for ever; the kubelet keeps watching
\* the API server; a worker that made a status sets it.  Nobody owes a call of
\* RemoveOrphanedStatuses: nothing in the repository makes one.
FairSpec ==
  /\ Spec
  /\ WF_vars(SyncStep)
  /\ \A u \in UIDs : /\ WF_vars(PodSeen(u)) /\ WF_vars(PodGone(u))
                     /\ WF_vars(SetPodStatus(u))

-----------------------------------------------------------------------------
(* Safety *)

\* The API server has nothing to learn from the cached status.
Agrees(u) ==
  LET shown == api[NameOf[u]].status
  IN  MergePodStatus(shown, podStatuses[u].status) = shown

\* What syncBatch skips is up to date: unless somebody else wrote a status that
\* the kubelet has not seen, a pod whose cached status neither needs an update
\* nor a reconciliation shows that status at the API server, whatever was dropped
\* from the channel, failed or was forgotten before.
SkippedIsUpToDate ==
  \A u \in UIDs :
    /\ Alive(u) /\ Cached(u) /\ pc = "next"
    /\ overwrites = 0 \/ manager[u] = PodNow(u)
    /\ ~NeedsUpdate(u, podStatuses[u].version)
    /\ ~NeedsReconcile(u, podStatuses[u].status)
    => Agrees(u)

\* syncPod looks a pod up by its name: a status never reaches another pod that
\* was given the name meanwhile.
StatusOfOwnPod ==
  \A n \in Names : api[n].writer.uid \in {NoUID, api[n].uid}

-----------------------------------------------------------------------------
(* Action properties *)

\* syncPod and syncBatch share one goroutine "to avoid sync races": a status set
\* earlier does not replace one set later, whether it comes from the channel or
\* from a batch, until the pod's deletion is requested (canBeDeleted then lets every
\* request through) or a call fails.
WritesInOrder ==
  [][\A n \in Names :
       /\ api'[n].uid = api[n].uid /\ api'[n].writer.uid # NoUID
       /\ ~api[n].deleting /\ faults = 0
       => api'[n].writer.at >= api[n].writer.at]_vars

\* The kubelet removes a pod from the API server only after somebody asked for it.
DeletesOnRequest ==
  [][\A n \in Names : Delete /\ api'[n] # api[n] => api[n].deleting]_vars

\* Nothing is written or deleted at the API server out of turn.
WritesAreDue == WritesInOrder /\ DeletesOnRequest

-----------------------------------------------------------------------------
(* Liveness *)

\* The API server is brought up to date with a status that stays in the cache,
\* in spite of full channels, failed calls and lost replies, unless somebody else
\* wrote a status that the kubelet has not seen.
StatusReachesServer ==
  \A u \in UIDs :
    <>[](Cached(u) /\ Alive(u) /\ (overwrites = 0 \/ manager[u] = PodNow(u))) =>
      <>[](Cached(u) /\ Alive(u) => Agrees(u))

\* SetPodCompleted: a pod that is reported completed becomes so at the API server,
\* unless it goes away.
CompletionReported ==
  \A u \in UIDs :
    (Cached(u) /\ Terminal(podStatuses[u].status.phase)) ~>
      (~Alive(u) \/ Terminal(api[NameOf[u]].status.phase))
=============================================================================
