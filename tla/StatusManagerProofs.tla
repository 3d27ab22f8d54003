------------------------ MODULE StatusManagerProofs ------------------------
(***************************************************************************)
(* What the status manager promises for any pods, channel capacity and     *)
(* number of reports, failures and writers: type correctness, that a       *)
(* status reaches no other pod, that writes and deletions are not out of   *)
(* turn, and that what syncBatch skips is up to date.                      *)
(***************************************************************************)
EXTENDS StatusManager, TLAPS

-----------------------------------------------------------------------------
(* Type correctness *)

Phases == {"Pending", "Running", "Succeeded", "Failed"}
ContainerStates == {"none", "waiting", "running", "completed", "failed"}

LEMMA Constants ==
  /\ NoUID \notin UIDs /\ FirstStatuses \subseteq Status /\ ProbeResults \subseteq BOOLEAN
  /\ ChannelSize \in Nat \ {0}
  /\ MaxSets \in Nat /\ MaxFaults \in Nat /\ MaxOverwrites \in Nat
BY StatusManagerAssumption

LEMMA Blanks ==
  /\ NoStatus \in Status /\ NoPod \in Pod /\ NotCached \in Versioned
  /\ Nobody \in Writer /\ NoApiPod \in ApiPod
  /\ NoRequest.uid = NoUID
<1>1. NoStatus \in Status
  BY DEF NoStatus, Status
<1>2. Nobody \in Writer
  BY DEF Nobody, Writer
<1> QED
  BY <1>1, <1>2 DEF NoPod, Pod, NotCached, Versioned, NoApiPod, ApiPod, NoRequest

LEMMA ReportedType ==
  ASSUME NEW container \in ContainerStates, NEW old \in Phases, NEW shown \in Phases
  PROVE  ReportedPhase(container, old, shown) \in Phases
<1>1. PhaseOf(container) \in Phases
  BY DEF PhaseOf, Phases, ContainerStates
<1> QED
  BY <1>1 DEF ReportedPhase

LEMMA MergedType ==
  ASSUME NEW old \in Status, NEW new \in Status
  PROVE  MergePodStatus(old, new) \in Status
BY DEF MergePodStatus, Status

LEMMA PatchedType ==
  ASSUME NEW current \in Status, NEW old \in Status, NEW new \in Status
  PROVE  Patched(current, old, new) \in Status
BY DEF Patched, Status

\* What a write to the cache makes of the entry of u
Entry(u, status) ==
  [version |-> podStatuses[u].version + 1, at |-> sets[u] + 1, status |-> status]

\* The requests in the channel
Queued == {podStatusChannel[i] : i \in 1..Len(podStatusChannel)}

LEMMA EnqueuedEffect ==
  ASSUME TypeOK, NEW r \in SyncRequest, podStatusChannel' = Enqueued(r)
  PROVE  /\ podStatusChannel' \in Seq(SyncRequest) /\ Len(podStatusChannel') <= ChannelSize
         /\ Queued' \subseteq Queued \union {r}
<1>1. podStatusChannel \in Seq(SyncRequest) /\ Len(podStatusChannel) <= ChannelSize
      /\ ChannelSize \in Nat
  BY Constants DEF TypeOK
<1>2. CASE Len(podStatusChannel) < ChannelSize
  <2>1. podStatusChannel' = Append(podStatusChannel, r)
    BY <1>2 DEF Enqueued
  <2>2. /\ Len(podStatusChannel') = Len(podStatusChannel) + 1
        /\ \A i \in 1..Len(podStatusChannel') :
             podStatusChannel'[i] = IF i <= Len(podStatusChannel) THEN podStatusChannel[i] ELSE r
        /\ podStatusChannel' \in Seq(SyncRequest)
    BY <1>1, <2>1
  <2>3. Queued' \subseteq Queued \union {r}
    BY <1>1, <2>2 DEF Queued
  <2> QED
    BY <1>1, <1>2, <2>2, <2>3
<1>3. CASE ~(Len(podStatusChannel) < ChannelSize)
  BY <1>1, <1>3 DEF Enqueued, Queued
<1> QED
  BY <1>2, <1>3

\* updateStatusInternal either leaves the cache alone or gives u its next entry and
\* may ask for a sync of that.
LEMMA UpdateEffect ==
  ASSUME TypeOK, NEW u \in UIDs, NEW pod, NEW status \in Status, NEW force,
         UpdateStatus(u, pod, status, force)
  PROVE  /\ apiStatusVersions' = apiStatusVersions
         /\ \/ UNCHANGED <<podStatuses, podStatusChannel, sets>>
            \/ /\ sets[u] < MaxSets /\ sets' = [sets EXCEPT ![u] = sets[u] + 1]
               /\ Entry(u, status) \in Versioned
               /\ podStatuses' = [podStatuses EXCEPT ![u] = Entry(u, status)]
               /\ podStatusChannel' \in Seq(SyncRequest)
               /\ Len(podStatusChannel') <= ChannelSize
               /\ Queued' \subseteq Queued \union {[uid |-> u, cached |-> Entry(u, status)]}
<1>1. Entry(u, status) \in Versioned
  BY Constants DEF TypeOK, Versioned, Entry
<1>2. [uid |-> u, cached |-> Entry(u, status)] \in SyncRequest
  BY <1>1 DEF SyncRequest
<1>3. CASE UNCHANGED <<podStatuses, podStatusChannel, sets>>
  BY <1>3 DEF UpdateStatus
<1>4. CASE ~UNCHANGED <<podStatuses, podStatusChannel, sets>>
  <2>1. /\ sets[u] < MaxSets
        /\ podStatuses' = [podStatuses EXCEPT ![u] = Entry(u, status)]
        /\ sets' = [sets EXCEPT ![u] = @ + 1]
        /\ podStatusChannel' = Enqueued([uid |-> u, cached |-> Entry(u, status)])
        /\ apiStatusVersions' = apiStatusVersions
    BY <1>4 DEF UpdateStatus, Entry
  <2> QED
    BY <1>1, <1>2, <2>1, EnqueuedEffect
<1> QED
  BY <1>3, <1>4

LEMMA UpdateType ==
  ASSUME TypeOK, NEW u \in UIDs, NEW pod, NEW status \in Status, NEW force,
         UpdateStatus(u, pod, status, force)
  PROVE  /\ podStatuses' \in [UIDs -> Versioned]
         /\ podStatusChannel' \in Seq(SyncRequest)
         /\ Len(podStatusChannel') <= ChannelSize
         /\ apiStatusVersions' \in [UIDs -> Nat]
         /\ sets' \in [UIDs -> 0..MaxSets]
<1>1. CASE UNCHANGED <<podStatuses, podStatusChannel, sets>>
  BY <1>1, UpdateEffect DEF TypeOK
<1>2. CASE sets[u] < MaxSets /\ sets' = [sets EXCEPT ![u] = sets[u] + 1]
  <2>1. sets' \in [UIDs -> 0..MaxSets]
    BY <1>2, Constants DEF TypeOK
  <2> QED
    BY <1>2, <2>1, UpdateEffect DEF TypeOK
<1> QED
  BY <1>1, <1>2, UpdateEffect
\* Every writer of the cache sets a well-formed status.
LEMMA WritersTypes ==
  ASSUME TypeOK, NEW u \in UIDs,
         \/ SetPodStatus(u) \/ TerminatePod(u)
         \/ \E result \in ProbeResults :
              SetContainerReadiness(u, result) \/ SetContainerStartup(u, result)
  PROVE  \E status \in Status : \E pod, force : UpdateStatus(u, pod, status, force)
<1>1. podStatuses[u].status \in Status
  BY DEF TypeOK, Versioned
<1>2. CASE SetPodStatus(u)
  <2>1. PICK s \in report[u], pod \in held[u] : UpdateStatus(u, pod, s, pod.deleting)
    BY <1>2 DEF SetPodStatus
  <2>2. s \in Status
    BY <2>1 DEF TypeOK
  <2> QED
    BY <2>1, <2>2
<1>3. CASE TerminatePod(u)
  <2>1. PICK pod \in held[u] :
          LET s == LastStatus(u, pod)
          IN  UpdateStatus(u, pod, IF ~HasContainer(s) \/ Exited(s) THEN s
                                   ELSE [s EXCEPT !.container = "failed"], TRUE)
    BY <1>3 DEF TerminatePod
  <2>2. pod \in Pod
    BY DEF TypeOK
  <2>3. LastStatus(u, pod) \in Status
    BY <1>1, <2>2 DEF LastStatus, GetPodStatus, Pod
  <2>4. (IF ~HasContainer(LastStatus(u, pod)) \/ Exited(LastStatus(u, pod))
         THEN LastStatus(u, pod)
         ELSE [LastStatus(u, pod) EXCEPT !.container = "failed"]) \in Status
    BY <2>3 DEF Status
  <2> QED
    BY <2>1, <2>4
<1>4. ASSUME NEW result \in ProbeResults,
             SetContainerReadiness(u, result) \/ SetContainerStartup(u, result)
      PROVE  \E status \in Status : \E pod, force : UpdateStatus(u, pod, status, force)
  <2>1. result \in BOOLEAN
    BY Constants
  <2>2. [GetPodStatus(u) EXCEPT !.ready = result] \in Status
    BY <1>1, <2>1 DEF GetPodStatus, Status
  <2>3. [GetPodStatus(u) EXCEPT !.started = result] \in Status
    BY <1>1, <2>1 DEF GetPodStatus, Status
  <2> QED
    BY <1>4, <2>2, <2>3 DEF SetContainerReadiness, SetContainerStartup
<1> QED
  BY <1>2, <1>3, <1>4

\* What a step of a writer does, beside the write
LEMMA WritersFrame ==
  ASSUME NEW u \in UIDs,
         \/ SetPodStatus(u) \/ TerminatePod(u)
         \/ \E result \in ProbeResults :
              SetContainerReadiness(u, result) \/ SetContainerStartup(u, result)
  PROVE  /\ UNCHANGED <<syncVars, kubeletVars, apiVars, faults, held>>
         /\ report' = report \/ report' = [report EXCEPT ![u] = {}]
         /\ held[u] # {} \/ Cached(u)
BY DEF SetPodStatus, TerminatePod, SetContainerReadiness, SetContainerStartup, workerVars

LEMMA GenerateEffect ==
  ASSUME TypeOK, NEW u \in UIDs, NEW container \in ContainerStates, NEW pod,
         Generate(u, pod, container)
  PROVE  /\ UNCHANGED <<cacheVars, syncVars, kubeletVars, apiVars, sets, faults>>
         /\ held[u] # {} /\ pod \in Pod /\ held' = [held EXCEPT ![u] = {pod}]
         /\ report' \in [UIDs -> SUBSET Status]
<1>1. pod \in Pod /\ held[u] # {}
  BY DEF Generate, TypeOK
<1>2. pod.status.phase \in Phases /\ LastStatus(u, pod).phase \in Phases
  BY <1>1 DEF LastStatus, GetPodStatus, TypeOK, Versioned, Pod, Status, Phases
<1>3. ReportedPhase(container, LastStatus(u, pod).phase, pod.status.phase) \in Phases
  BY <1>2, ReportedType
<1>4. [phase |-> ReportedPhase(container, LastStatus(u, pod).phase, pod.status.phase),
       container |-> container, ready |-> container = "running",
       started |-> container = "running"] \in Status
  BY <1>3 DEF Status, Phases, ContainerStates
<1>5. report' = [report EXCEPT ![u] =
        {[phase |-> ReportedPhase(container, LastStatus(u, pod).phase, pod.status.phase),
          container |-> container, ready |-> container = "running",
          started |-> container = "running"]}]
  BY DEF Generate
<1>6. report' \in [UIDs -> SUBSET Status]
  BY <1>4, <1>5 DEF TypeOK
<1> QED
  BY <1>1, <1>6 DEF Generate

\* What the server has of a pod after a patch
LEMMA PatchedPodType ==
  ASSUME TypeOK, NEW n \in Names
  PROVE  PatchedPod(api[n]) \in ApiPod
<1>1. /\ api[n] \in ApiPod /\ got \in ApiPod
      /\ request \in SyncRequest \union {NoRequest}
  BY DEF TypeOK
<1>2. request.uid \in UIDs \union {NoUID} /\ request.cached \in Versioned
  BY <1>1, Blanks DEF SyncRequest, NoRequest
<1>3. request.cached.status \in Status /\ request.cached.at \in Nat
  BY <1>2 DEF Versioned
<1>4. got.status \in Status /\ api[n].status \in Status
  BY <1>1 DEF ApiPod
<1>5. Merged \in Status
  BY <1>3, <1>4, MergedType DEF Merged
<1>6. Patched(api[n].status, got.status, Merged) \in Status
  BY <1>4, <1>5, PatchedType
<1>7. [uid |-> request.uid, at |-> request.cached.at] \in Writer
  BY <1>2, <1>3 DEF Writer
<1> QED
  BY <1>1, <1>6, <1>7 DEF PatchedPod, ApiPod

\* syncPod works on a request.
Serving == pc \notin {"next", "snapshot"} => request \in SyncRequest

\* The three ends of a patch: the pod that was read is gone; or the patch, if there
\* is one to send, is made, and the pod is to be deleted or not.
LEMMA PatchEffect ==
  ASSUME Patch
  PROVE  /\ pc = "patch"
         /\ UNCHANGED <<podStatuses, podStatusChannel, batch, workerVars, kubeletVars,
                        created, overwrites, sets, faults>>
         /\ pc' = "next" \/ (pc' = "delete" /\ request' = request /\ got' = got)
         /\ request' \in {request, NoRequest} /\ got' \in {got, NoApiPod}
         /\ \/ /\ pc' = "next" /\ UNCHANGED <<api, apiStatusVersions>>
            \/ /\ Sent => api[Name].uid = got.uid
               /\ api' = IF Sent THEN [api EXCEPT ![Name] = PatchedPod(api[Name])] ELSE api
               /\ apiStatusVersions' =
                    [apiStatusVersions EXCEPT ![got.uid] = request.cached.version]
               /\ pc' = "delete" => IF Sent THEN api[Name].deleting ELSE got.deleting
<1>1. PatchedPod(api[Name]).deleting => api[Name].deleting
  BY DEF PatchedPod
<1>2. CASE Sent /\ api[Name].uid # got.uid
  BY <1>2 DEF Patch, Return
<1>3. CASE ~(Sent /\ api[Name].uid # got.uid)
  <2>1. api' = IF Sent THEN [api EXCEPT ![Name] = PatchedPod(@)] ELSE api
    BY <1>3 DEF Patch
  <2>2. api' = IF Sent THEN [api EXCEPT ![Name] = PatchedPod(api[Name])] ELSE api
    BY <2>1
  <2>3. \/ pc' = "next" /\ request' = NoRequest /\ got' = NoApiPod
        \/ /\ pc' = "delete" /\ request' = request /\ got' = got
           /\ IF Sent THEN api[Name].deleting ELSE got.deleting
    BY <1>1, <1>3 DEF Patch, Return, Goto, CanBeDeleted
  <2> QED
    BY <1>3, <2>2, <2>3 DEF Patch
<1> QED
  BY <1>2, <1>3

\* A call that takes effect although its reply is lost
LEMMA ReplyLostEffect ==
  ASSUME ReplyLost
  PROVE  /\ pc \in {"patch", "delete"} /\ api[Name].uid = got.uid
         /\ faults < MaxFaults /\ faults' = faults + 1
         /\ pc' = "next" /\ request' = NoRequest /\ got' = NoApiPod
         /\ \/ pc = "delete" /\ api' = [api EXCEPT ![Name] = NoApiPod]
            \/ pc = "patch" /\ Sent /\ api' = [api EXCEPT ![Name] = PatchedPod(api[Name])]
         /\ UNCHANGED <<cacheVars, batch, workerVars, kubeletVars, created, overwrites, sets>>
<1>1. ASSUME api' = [api EXCEPT ![Name] = PatchedPod(@)]
      PROVE  api' = [api EXCEPT ![Name] = PatchedPod(api[Name])]
  BY <1>1
<1> QED
  BY <1>1 DEF ReplyLost, Return

\* The sync goroutine and the API server
LEMMA SyncTypes ==
  ASSUME TypeOK, Serving, SyncStep \/ CallFails \/ ReplyLost
  PROVE  TypeOK' /\ Serving'
<1> USE DEF cacheVars, syncVars, workerVars, kubeletVars, apiVars
<1>1. request.cached.version \in Nat
  BY Blanks DEF TypeOK, SyncRequest, NoRequest, Versioned
<1>2. ASSUME NEW n
      PROVE  [api EXCEPT ![n] = PatchedPod(api[n])] \in [Names -> ApiPod]
             /\ [api EXCEPT ![n] = NoApiPod] \in [Names -> ApiPod]
  BY PatchedPodType, Blanks DEF TypeOK
<1>3. CASE TakeRequest
  <2>1. Head(podStatusChannel) \in SyncRequest /\ Tail(podStatusChannel) \in Seq(SyncRequest)
        /\ Len(Tail(podStatusChannel)) <= ChannelSize
    BY <1>3, Constants DEF TakeRequest, TypeOK
  <2> QED
    BY <1>3, <2>1 DEF TakeRequest, TypeOK, Serving
<1>4. CASE Tick
  <2>1. <<>> \in Seq(SyncRequest) /\ Len(<<>>) <= ChannelSize
    BY Constants
  <2> QED
    BY <1>4, <2>1 DEF Tick, TypeOK, Serving
<1>5. CASE SyncBatch
  <2>1. batch' \subseteq SyncRequest
    BY <1>5 DEF SyncBatch, TypeOK, SyncRequest
  <2>2. apiStatusVersions' \in [UIDs -> Nat]
    BY <1>5 DEF SyncBatch, TypeOK, OrphanedVersions
  <2> QED
    BY <1>5, <2>1, <2>2 DEF SyncBatch, TypeOK, Serving
<1>6. CASE Check
  BY <1>6, Blanks DEF Check, Return, Goto, TypeOK, Serving
<1>7. CASE Get
  <2>1. pc' \in {"next", "forget", "patch"}
    BY <1>7 DEF Get, Return, Goto
  <2>2. request.uid \in UIDs
    BY <1>7 DEF Get, Serving, SyncRequest
  <2>3. got' \in ApiPod
    BY <1>7, <2>2, Blanks DEF Get, Return, TypeOK, Names, Name
  <2> QED
    BY <1>7, <2>1, <2>3, Blanks DEF Get, Return, Goto, TypeOK, Serving
<1>8. CASE Patch
  <2>1. api' \in [Names -> ApiPod]
    <3>1. api' = api \/ api' = [api EXCEPT ![Name] = PatchedPod(api[Name])]
      BY <1>8, PatchEffect
    <3>2. [api EXCEPT ![Name] = PatchedPod(api[Name])] \in [Names -> ApiPod]
      BY <1>2
    <3>3. api \in [Names -> ApiPod]
      BY DEF TypeOK
    <3> QED
      BY <3>1, <3>2, <3>3
  <2>2. apiStatusVersions' \in [UIDs -> Nat]
    BY <1>8, <1>1, PatchEffect DEF TypeOK
  <2> QED
    BY <1>8, <2>1, <2>2, PatchEffect, Blanks DEF TypeOK, Serving
<1>9. CASE Delete
  <2>1. pc' \in {"next", "forget"} /\ request' \in {request, NoRequest} /\ got' \in {got, NoApiPod}
        /\ (pc' = "forget" => request' = request)
    BY <1>9 DEF Delete, Return, Goto
  <2>2. api' \in [Names -> ApiPod]
    <3>1. api' = api \/ api' = [api EXCEPT ![Name] = NoApiPod]
      BY <1>9 DEF Delete
    <3>2. [api EXCEPT ![Name] = NoApiPod] \in [Names -> ApiPod]
      BY <1>2
    <3>3. api \in [Names -> ApiPod]
      BY DEF TypeOK
    <3> QED
      BY <3>1, <3>2, <3>3
  <2> QED
    BY <1>9, <2>1, <2>2, Blanks DEF Delete, TypeOK, Serving
<1>10. CASE Forget
  BY <1>10, Blanks DEF Forget, Return, TypeOK, Serving
<1>11. ASSUME NEW r \in batch, NextInBatch(r)
       PROVE  TypeOK' /\ Serving'
  BY <1>11 DEF NextInBatch, TypeOK, Serving
<1>12. CASE CallFails
  BY <1>12, Blanks, Constants DEF CallFails, Return, TypeOK, Serving
<1>13. CASE ReplyLost
  <2>1. api' \in [Names -> ApiPod]
    <3>1. \/ api' = [api EXCEPT ![Name] = NoApiPod]
          \/ api' = [api EXCEPT ![Name] = PatchedPod(api[Name])]
      BY <1>13, ReplyLostEffect
    <3>2. /\ [api EXCEPT ![Name] = PatchedPod(api[Name])] \in [Names -> ApiPod]
          /\ [api EXCEPT ![Name] = NoApiPod] \in [Names -> ApiPod]
      BY <1>2
    <3> QED
      BY <3>1, <3>2
  <2> QED
    BY <1>13, <2>1, ReplyLostEffect, Blanks, Constants DEF TypeOK, Serving
<1> QED
  BY <1>3, <1>4, <1>5, <1>6, <1>7, <1>8, <1>9, <1>10, <1>11, <1>12, <1>13 DEF SyncStep

\* The other clients of the API server, by what they make of one pod there
Clients(u) ==
  \/ \E s \in FirstStatuses : Create(u, s)
  \/ RequestDeletion(u) \/ ForceDeletion(u) \/ FailPod(u)

LEMMA ClientsEffect ==
  ASSUME TypeOK, NEW u \in UIDs, Clients(u)
  PROVE  /\ UNCHANGED <<cacheVars, syncVars, workerVars, kubeletVars, sets, faults>>
         /\ NameOf[u] \in Names
         /\ \E pod \in ApiPod :
              /\ api' = [api EXCEPT ![NameOf[u]] = pod]
              /\ \/ /\ u \notin created /\ api[NameOf[u]].uid = NoUID
                    /\ created' = created \union {u} /\ overwrites' = overwrites
                    /\ pod.uid = u /\ ~pod.deleting /\ pod.writer = Nobody
                 \/ /\ Alive(u) /\ created' = created
                    /\ \/ /\ pod.uid = u /\ pod.deleting /\ overwrites' = overwrites
                          /\ pod.writer = api[NameOf[u]].writer
                          /\ pod.status = api[NameOf[u]].status
                       \/ pod = NoApiPod /\ overwrites' = overwrites
                       \/ /\ pod.uid = u /\ pod.deleting = api[NameOf[u]].deleting
                          /\ pod.writer = Nobody
                          /\ overwrites < MaxOverwrites /\ overwrites' = overwrites + 1
<1> DEFINE n == NameOf[u]
<1>1. n \in Names /\ api[n] \in ApiPod
  BY DEF Names, TypeOK
<1>2. UNCHANGED <<cacheVars, syncVars, workerVars, kubeletVars, sets, faults>>
  BY DEF Clients, Create, RequestDeletion, ForceDeletion, FailPod
<1>3. ASSUME NEW s \in FirstStatuses, Create(u, s)
      PROVE  /\ [NoApiPod EXCEPT !.uid = u, !.status = s] \in ApiPod
             /\ [NoApiPod EXCEPT !.uid = u, !.status = s].uid = u
             /\ ~[NoApiPod EXCEPT !.uid = u, !.status = s].deleting
             /\ [NoApiPod EXCEPT !.uid = u, !.status = s].writer = Nobody
  BY Blanks, Constants DEF NoApiPod, ApiPod
<1>4. CASE RequestDeletion(u)
  <2> DEFINE pod == [api[n] EXCEPT !.deleting = TRUE]
  <2>1. /\ pod \in ApiPod /\ pod.deleting /\ pod.uid = api[n].uid
        /\ pod.writer = api[n].writer /\ pod.status = api[n].status
    BY <1>1 DEF ApiPod
  <2>2. api' = [api EXCEPT ![n] = pod] /\ Alive(u) /\ created' = created
        /\ overwrites' = overwrites
    BY <1>4 DEF RequestDeletion
  <2> QED
    BY <1>1, <1>2, <2>1, <2>2 DEF Alive
<1>5. CASE FailPod(u)
  <2> DEFINE pod == [api[n] EXCEPT !.status.phase = "Failed", !.writer = Nobody]
  <2>1. /\ pod \in ApiPod /\ pod.deleting = api[n].deleting /\ pod.uid = api[n].uid
        /\ pod.writer = Nobody
    BY <1>1, Blanks DEF ApiPod, Status
  <2>2. api' = [api EXCEPT ![n] = pod] /\ Alive(u) /\ created' = created
        /\ overwrites < MaxOverwrites /\ overwrites' = overwrites + 1
    BY <1>1, <1>5 DEF FailPod, TypeOK, ApiPod
  <2> QED
    BY <1>1, <1>2, <2>1, <2>2 DEF Alive
<1>6. CASE ForceDeletion(u)
  BY <1>1, <1>2, <1>6, Blanks DEF ForceDeletion
<1>7. CASE \E s \in FirstStatuses : Create(u, s)
  BY <1>1, <1>2, <1>3, <1>7 DEF Create
<1> QED
  BY <1>4, <1>5, <1>6, <1>7 DEF Clients

LEMMA WatchEffect ==
  ASSUME TypeOK, NEW u \in UIDs, PodSeen(u) \/ PodEdited(u) \/ PodGone(u)
  PROVE  /\ UNCHANGED <<cacheVars, syncVars, report, apiVars, sets, faults>>
         /\ PodNow(u) \in Pod
         /\ \/ /\ Alive(u) /\ known' = known \union {u}
               /\ manager' = [manager EXCEPT ![u] = PodNow(u)]
               /\ held' = IF u \in known THEN held ELSE [held EXCEPT ![u] = {PodNow(u)}]
            \/ /\ ~Alive(u) /\ known' = known \ {u}
               /\ manager' = manager /\ held' = held
<1>1. PodNow(u) \in Pod
  <2>1. api[NameOf[u]] \in ApiPod
    BY DEF Names, TypeOK
  <2> QED
    BY <2>1 DEF ApiPod, PodNow, Pod
<1>2. CASE PodSeen(u)
  BY <1>1, <1>2 DEF PodSeen
<1>3. CASE PodEdited(u)
  <2>1. u \in known /\ known \union {u} = known
    BY <1>3 DEF PodEdited
  <2> QED
    BY <1>1, <1>3, <2>1 DEF PodEdited, workerVars
<1>4. CASE PodGone(u)
  BY <1>1, <1>4 DEF PodGone, workerVars
<1> QED
  BY <1>2, <1>3, <1>4

\* The steps of Next by what they do
LEMMA NextCases ==
  ASSUME [Next]_vars
  PROVE  \/ SyncStep \/ CallFails \/ ReplyLost
         \/ \E u \in UIDs :
              \/ \E container \in ContainerStates : \E pod : Generate(u, pod, container)
              \/ SetPodStatus(u) \/ TerminatePod(u)
              \/ \E result \in ProbeResults :
                   SetContainerReadiness(u, result) \/ SetContainerStartup(u, result)
              \/ Clients(u)
              \/ PodSeen(u) \/ PodEdited(u) \/ PodGone(u)
         \/ \E S \in SUBSET UIDs : known \subseteq S /\ RemoveOrphanedStatuses(S)
         \/ UNCHANGED vars
BY DEF Next, Callers, Clients, ContainerStates

LEMMA TypeInvariant == Spec => [](TypeOK /\ Serving)
<1>1. Init => TypeOK /\ Serving
  <2> SUFFICES ASSUME Init
               PROVE  TypeOK /\ Serving
    OBVIOUS
  <2>1. <<>> \in Seq(SyncRequest) /\ Len(<<>>) <= ChannelSize
    BY Constants
  <2>2. sets \in [UIDs -> 0..MaxSets] /\ faults \in 0..MaxFaults /\ overwrites \in 0..MaxOverwrites
    BY Constants DEF Init
  <2> QED
    BY <2>1, <2>2, Blanks DEF Init, TypeOK, Serving
<1>2. TypeOK /\ Serving /\ [Next]_vars => TypeOK' /\ Serving'
  <2> SUFFICES ASSUME TypeOK, Serving, [Next]_vars
               PROVE  TypeOK' /\ Serving'
    OBVIOUS
  <2> USE DEF cacheVars, syncVars, workerVars, kubeletVars, apiVars
  <2>1. ASSUME NEW u \in UIDs, NEW container \in ContainerStates, NEW pod,
               Generate(u, pod, container)
        PROVE  TypeOK' /\ Serving'
    <3>1. held' \in [UIDs -> SUBSET Pod]
      <4>1. pod \in Pod /\ held' = [held EXCEPT ![u] = {pod}]
        BY <2>1, GenerateEffect
      <4> QED
        BY <4>1 DEF TypeOK
    <3> QED
      BY <2>1, <3>1, GenerateEffect DEF TypeOK, Serving
  <2>2. ASSUME NEW u \in UIDs,
               \/ SetPodStatus(u) \/ TerminatePod(u)
               \/ \E result \in ProbeResults :
                    SetContainerReadiness(u, result) \/ SetContainerStartup(u, result)
        PROVE  TypeOK' /\ Serving'
    <3>1. PICK status \in Status : \E pod, force : UpdateStatus(u, pod, status, force)
      BY <2>2, WritersTypes
    <3>2. /\ podStatuses' \in [UIDs -> Versioned]
          /\ podStatusChannel' \in Seq(SyncRequest)
          /\ Len(podStatusChannel') <= ChannelSize
          /\ apiStatusVersions' \in [UIDs -> Nat]
          /\ sets' \in [UIDs -> 0..MaxSets]
      BY <3>1, UpdateType
    <3>3. report' \in [UIDs -> SUBSET Status]
      BY <2>2, WritersFrame DEF TypeOK
    <3> QED
      BY <2>2, <3>2, <3>3, WritersFrame DEF TypeOK, Serving
  <2>3. ASSUME NEW u \in UIDs, Clients(u)
        PROVE  TypeOK' /\ Serving'
    <3>1. /\ UNCHANGED <<cacheVars, syncVars, workerVars, kubeletVars, sets, faults>>
          /\ api' \in [Names -> ApiPod] /\ created' \subseteq UIDs
          /\ overwrites' \in 0..MaxOverwrites
      <4>1. UNCHANGED <<cacheVars, syncVars, workerVars, kubeletVars, sets, faults>>
        BY <2>3, ClientsEffect
      <4>2. PICK pod \in ApiPod :
              /\ api' = [api EXCEPT ![NameOf[u]] = pod]
              /\ created' \in {created, created \union {u}}
              /\ \/ overwrites' = overwrites
                 \/ overwrites < MaxOverwrites /\ overwrites' = overwrites + 1
        BY <2>3, ClientsEffect
      <4>3. api' \in [Names -> ApiPod] /\ created' \subseteq UIDs
        BY <4>2 DEF TypeOK
      <4>4. overwrites' \in 0..MaxOverwrites
        BY <4>2, Constants DEF TypeOK
      <4> QED
        BY <4>1, <4>3, <4>4
    <3> QED
      BY <3>1 DEF TypeOK, Serving
  <2>4. ASSUME NEW u \in UIDs, PodSeen(u) \/ PodEdited(u) \/ PodGone(u)
        PROVE  TypeOK' /\ Serving'
    <3>1. /\ UNCHANGED <<cacheVars, syncVars, report, apiVars, sets, faults>>
          /\ manager' \in [UIDs -> Pod] /\ held' \in [UIDs -> SUBSET Pod]
          /\ known' \subseteq UIDs
      <4>1. /\ UNCHANGED <<cacheVars, syncVars, report, apiVars, sets, faults>>
            /\ PodNow(u) \in Pod
            /\ known' = known \union {u} \/ known' = known \ {u}
            /\ manager' = manager \/ manager' = [manager EXCEPT ![u] = PodNow(u)]
            /\ held' = held \/ held' = [held EXCEPT ![u] = {PodNow(u)}]
        BY <2>4, WatchEffect
      <4>2. known' \subseteq UIDs
        BY <4>1 DEF TypeOK
      <4>3. manager' \in [UIDs -> Pod]
        BY <4>1 DEF TypeOK
      <4>4. held' \in [UIDs -> SUBSET Pod]
        BY <4>1 DEF TypeOK
      <4> QED
        BY <4>1, <4>2, <4>3, <4>4
    <3> QED
      BY <3>1 DEF TypeOK, Serving
  <2>5. ASSUME NEW S \in SUBSET UIDs, RemoveOrphanedStatuses(S)
        PROVE  TypeOK' /\ Serving'
    BY <2>5, Blanks DEF RemoveOrphanedStatuses, TypeOK, Serving
  <2>6. CASE UNCHANGED vars
    BY <2>6 DEF vars, TypeOK, Serving
  <2> QED
    BY <2>1, <2>2, <2>3, <2>4, <2>5, <2>6, SyncTypes, NextCases
<1> QED
  BY <1>1, <1>2, PTL DEF Spec

\* Every state is well typed, whatever fails and whoever writes.
THEOREM TypeCorrect == Spec => []TypeOK
BY TypeInvariant, PTL

-----------------------------------------------------------------------------
(* The lives of pods *)

\* Steps that change nothing but what a worker is about to report
Quiet ==
  /\ UNCHANGED <<cacheVars, syncVars, kubeletVars, apiVars, sets, faults>>
  /\ \A u \in UIDs : held'[u] = {} <=> held[u] = {}

\* A step that gives u the next entry of the cache
Writes(u, status) ==
  /\ UNCHANGED <<apiStatusVersions, syncVars, kubeletVars, apiVars, faults, held>>
  /\ held[u] # {} \/ Cached(u)
  /\ sets' = [sets EXCEPT ![u] = sets[u] + 1]
  /\ podStatuses' = [podStatuses EXCEPT ![u] = Entry(u, status)]
  /\ Queued' \subseteq Queued \union {[uid |-> u, cached |-> Entry(u, status)]}
  /\ Entry(u, status) \in Versioned

Syncs == SyncStep \/ CallFails \/ ReplyLost
Watches(u) == PodSeen(u) \/ PodEdited(u) \/ PodGone(u)
Orphans == \E S \in SUBSET UIDs : known \subseteq S /\ RemoveOrphanedStatuses(S)

LEMMA Steps ==
  ASSUME TypeOK, [Next]_vars
  PROVE  \/ Quiet \/ Syncs \/ Orphans
         \/ \E u \in UIDs : \/ \E status \in Status : Writes(u, status)
                            \/ Clients(u) \/ Watches(u)
<1>1. ASSUME NEW u \in UIDs, NEW container \in ContainerStates, NEW pod,
             Generate(u, pod, container)
      PROVE  Quiet
  <2>1. held[u] # {} /\ held' = [held EXCEPT ![u] = {pod}]
    BY <1>1, GenerateEffect
  <2>2. \A v \in UIDs : held'[v] = {} <=> held[v] = {}
    BY <2>1 DEF TypeOK
  <2> QED
    BY <1>1, <2>2, GenerateEffect DEF Quiet
<1>2. ASSUME NEW u \in UIDs,
             \/ SetPodStatus(u) \/ TerminatePod(u)
             \/ \E result \in ProbeResults :
                  SetContainerReadiness(u, result) \/ SetContainerStartup(u, result)
      PROVE  Quiet \/ \E status \in Status : Writes(u, status)
  <2>1. PICK status \in Status : \E pod, force : UpdateStatus(u, pod, status, force)
    BY <1>2, WritersTypes
  <2>2. /\ apiStatusVersions' = apiStatusVersions
        /\ \/ UNCHANGED <<podStatuses, podStatusChannel, sets>>
           \/ /\ sets' = [sets EXCEPT ![u] = sets[u] + 1]
              /\ podStatuses' = [podStatuses EXCEPT ![u] = Entry(u, status)]
              /\ Queued' \subseteq Queued \union {[uid |-> u, cached |-> Entry(u, status)]}
              /\ Entry(u, status) \in Versioned
    BY <2>1, UpdateEffect
  <2>3. /\ UNCHANGED <<syncVars, kubeletVars, apiVars, faults, held>>
        /\ held[u] # {} \/ Cached(u)
    BY <1>2, WritersFrame
  <2> QED
    BY <2>2, <2>3 DEF Quiet, Writes, cacheVars
<1>3. CASE UNCHANGED vars
  BY <1>3 DEF vars, workerVars, Quiet
<1> QED
  BY <1>1, <1>2, <1>3, NextCases DEF Syncs, Watches, Orphans

\* What the sync goroutine leaves alone
LEMMA SyncsFrame ==
  ASSUME TypeOK, Serving, Syncs
  PROVE  /\ UNCHANGED <<workerVars, kubeletVars, sets, created, overwrites>>
         /\ podStatuses' = podStatuses
              \/ (pc = "forget" /\ podStatuses' = [podStatuses EXCEPT ![request.uid] = NotCached])
         /\ \/ api' = api
            \/ /\ Name \in Names
               /\ \/ api' = [api EXCEPT ![Name] = PatchedPod(api[Name])]
                  \/ api' = [api EXCEPT ![Name] = NoApiPod]
<1> USE DEF cacheVars, apiVars
<1>1. CASE TakeRequest \/ Tick \/ SyncBatch
  BY <1>1 DEF TakeRequest, Tick, SyncBatch
<1>2. ASSUME NEW r \in batch, NextInBatch(r)
      PROVE  UNCHANGED <<workerVars, kubeletVars, sets, apiVars, podStatuses>>
  BY <1>2 DEF NextInBatch
<1>3. CASE Check \/ Get \/ Forget \/ CallFails
  BY <1>3 DEF Check, Get, Forget, CallFails
<1>4. ASSUME pc \in {"patch", "delete"}
      PROVE  Name \in Names
  BY <1>4 DEF Serving, SyncRequest, Name, Names
<1>5. CASE Patch
  BY <1>4, <1>5, PatchEffect
<1>6. CASE Delete
  BY <1>4, <1>6 DEF Delete
<1>7. CASE ReplyLost
  BY <1>4, <1>7, ReplyLostEffect
<1> QED
  BY <1>1, <1>2, <1>3, <1>5, <1>6, <1>7 DEF Syncs, SyncStep

\* A UID is created once: a pod that is gone stays away, and a deletion that was
\* requested is not taken back.
Gone(u) == u \in created /\ ~Alive(u)

LEMMA Aging ==
  ASSUME TypeOK, Serving, [Next]_vars, NEW u \in UIDs
  PROVE  /\ u \in created => u \in created'
         /\ Alive(u)' => \/ Alive(u)
                         \/ /\ u \notin created /\ u \in created'
                            /\ ~api'[NameOf[u]].deleting /\ api'[NameOf[u]].writer = Nobody
         /\ Alive(u) /\ Alive(u)' /\ api[NameOf[u]].deleting => api'[NameOf[u]].deleting
<1>1. u # NoUID /\ NoApiPod.uid = NoUID /\ NameOf[u] \in Names
  BY Constants DEF NoApiPod, Names
<1>2. \A n \in Names : PatchedPod(api[n]).uid = api[n].uid
                       /\ PatchedPod(api[n]).deleting = api[n].deleting
  BY DEF PatchedPod, TypeOK, ApiPod
<1>3. CASE api' = api /\ created' = created
  BY <1>3 DEF Alive
<1>4. CASE Syncs
  <2>1. created' = created
    BY <1>4, SyncsFrame
  <2>2. CASE api' = api
    BY <1>3, <2>1, <2>2
  <2>3. CASE Name \in Names /\ api' = [api EXCEPT ![Name] = PatchedPod(api[Name])]
    BY <1>1, <1>2, <2>1, <2>3 DEF Alive, TypeOK
  <2>4. CASE Name \in Names /\ api' = [api EXCEPT ![Name] = NoApiPod]
    BY <1>1, <2>1, <2>4 DEF Alive, TypeOK
  <2> QED
    BY <1>4, <2>2, <2>3, <2>4, SyncsFrame
<1>5. ASSUME NEW v \in UIDs, Clients(v)
      PROVE  /\ u \in created => u \in created'
             /\ Alive(u)' => \/ Alive(u)
                             \/ /\ u \notin created /\ u \in created'
                                /\ ~api'[NameOf[u]].deleting
                                /\ api'[NameOf[u]].writer = Nobody
             /\ Alive(u) /\ Alive(u)' /\ api[NameOf[u]].deleting => api'[NameOf[u]].deleting
  <2>1. PICK pod \in ApiPod :
          /\ api' = [api EXCEPT ![NameOf[v]] = pod]
          /\ \/ /\ v \notin created /\ api[NameOf[v]].uid = NoUID
                /\ created' = created \union {v}
                /\ pod.uid = v /\ ~pod.deleting /\ pod.writer = Nobody
             \/ /\ Alive(v) /\ created' = created
                /\ \/ pod.uid = v /\ pod.deleting
                   \/ pod = NoApiPod
                   \/ pod.uid = v /\ pod.deleting = api[NameOf[v]].deleting
    BY <1>5, ClientsEffect
  <2>2. NameOf[v] \in Names
    BY DEF Names
  <2>3. api'[NameOf[u]] = IF NameOf[u] = NameOf[v] THEN pod ELSE api[NameOf[u]]
    BY <1>1, <2>1, <2>2 DEF TypeOK
  <2> QED
    BY <1>1, <2>1, <2>3 DEF Alive
<1>6. ASSUME NEW v \in UIDs, Watches(v)
      PROVE  api' = api /\ created' = created
  BY <1>6, WatchEffect DEF Watches, apiVars
<1>7. ASSUME \/ Quiet \/ Orphans
             \/ \E v \in UIDs, status \in Status : Writes(v, status)
      PROVE  api' = api /\ created' = created
  BY <1>7 DEF Quiet, Orphans, RemoveOrphanedStatuses, Writes, apiVars
<1> QED
  BY <1>3, <1>4, <1>5, <1>6, <1>7, Steps

\* What the kubelet has of a pod it has from the API server, which had it first and
\* where it stays unless it is gone for good.
Lives ==
  \A u \in UIDs :
    /\ Alive(u) \/ u \in known \/ held[u] # {} => u \in created
    /\ held[u] # {} => u \in known \/ Gone(u)
    /\ Cached(u) => held[u] # {}
    /\ manager[u].deleting => u \in created /\ (Alive(u) => api[NameOf[u]].deleting)

LEMMA GoneStays ==
  ASSUME TypeOK, Serving, [Next]_vars, NEW u \in UIDs, Gone(u)
  PROVE  Gone(u)'
BY Aging DEF Gone

LEMMA LivesKept ==
  TypeOK /\ Serving /\ Lives /\ [Next]_vars => Lives'
<1> SUFFICES ASSUME TypeOK, Serving, Lives, [Next]_vars, NEW u \in UIDs
             PROVE  /\ Alive(u)' \/ u \in known' \/ held'[u] # {} => u \in created'
                    /\ held'[u] # {} => u \in known' \/ Gone(u)'
                    /\ Cached(u)' => held'[u] # {}
                    /\ manager'[u].deleting =>
                         u \in created' /\ (Alive(u)' => api'[NameOf[u]].deleting)
  BY DEF Lives
<1>1. /\ Alive(u) \/ u \in known \/ held[u] # {} => u \in created
      /\ held[u] # {} => u \in known \/ Gone(u)
      /\ Cached(u) => held[u] # {}
      /\ manager[u].deleting => u \in created /\ (Alive(u) => api[NameOf[u]].deleting)
  BY DEF Lives
<1>2. /\ u \in created => u \in created'
      /\ Alive(u)' => Alive(u) \/ (u \notin created /\ u \in created')
      /\ Alive(u) /\ Alive(u)' /\ api[NameOf[u]].deleting => api'[NameOf[u]].deleting
      /\ Gone(u) => Gone(u)'
  BY Aging, GoneStays
<1>3. ASSUME /\ manager'[u] = manager[u] /\ (u \in known' <=> u \in known)
             /\ held'[u] = {} <=> held[u] = {}
             /\ podStatuses'[u] = podStatuses[u] \/ podStatuses'[u] = NotCached \/ held[u] # {}
      PROVE  /\ Alive(u)' \/ u \in known' \/ held'[u] # {} => u \in created'
             /\ held'[u] # {} => u \in known' \/ Gone(u)'
             /\ Cached(u)' => held'[u] # {}
             /\ manager'[u].deleting =>
                  u \in created' /\ (Alive(u)' => api'[NameOf[u]].deleting)
  BY <1>1, <1>2, <1>3 DEF Cached, NotCached
<1>4. CASE Quiet
  BY <1>3, <1>4 DEF Quiet, kubeletVars, cacheVars
<1>5. CASE Syncs
  BY <1>3, <1>5, SyncsFrame DEF workerVars, kubeletVars, TypeOK
<1>6. CASE Orphans
  BY <1>3, <1>6 DEF Orphans, RemoveOrphanedStatuses, workerVars, kubeletVars
<1>7. ASSUME NEW v \in UIDs, NEW status \in Status, Writes(v, status)
      PROVE  /\ manager'[u] = manager[u] /\ (u \in known' <=> u \in known)
             /\ held'[u] = {} <=> held[u] = {}
             /\ podStatuses'[u] = podStatuses[u] \/ podStatuses'[u] = NotCached \/ held[u] # {}
  BY <1>1, <1>7 DEF Writes, kubeletVars, TypeOK
<1>8. ASSUME NEW v \in UIDs, Clients(v)
      PROVE  /\ manager'[u] = manager[u] /\ (u \in known' <=> u \in known)
             /\ held'[u] = {} <=> held[u] = {}
             /\ podStatuses'[u] = podStatuses[u]
  BY <1>8, ClientsEffect DEF workerVars, kubeletVars, cacheVars
<1>9. ASSUME NEW v \in UIDs, Watches(v)
      PROVE  /\ Alive(u)' \/ u \in known' \/ held'[u] # {} => u \in created'
             /\ held'[u] # {} => u \in known' \/ Gone(u)'
             /\ Cached(u)' => held'[u] # {}
             /\ manager'[u].deleting =>
                  u \in created' /\ (Alive(u)' => api'[NameOf[u]].deleting)
  <2>1. podStatuses' = podStatuses /\ api' = api /\ created' = created
    BY <1>9, WatchEffect DEF Watches, cacheVars, apiVars
  <2>2. /\ Alive(u)' <=> Alive(u)
        /\ Gone(u)' <=> Gone(u)
        /\ Cached(u)' <=> Cached(u)
    BY <2>1 DEF Alive, Gone, Cached
  <2>3. \/ /\ Alive(v) /\ known' = known \union {v}
           /\ manager' = [manager EXCEPT ![v] = PodNow(v)]
           /\ held' = IF v \in known THEN held ELSE [held EXCEPT ![v] = {PodNow(v)}]
        \/ /\ ~Alive(v) /\ known' = known \ {v}
           /\ manager' = manager /\ held' = held
    BY <1>9, WatchEffect DEF Watches
  <2>4. CASE /\ Alive(v) /\ known' = known \union {v}
             /\ manager' = [manager EXCEPT ![v] = PodNow(v)]
             /\ held' = IF v \in known THEN held ELSE [held EXCEPT ![v] = {PodNow(v)}]
    <3>1. CASE u = v
      <4>1. manager'[u].deleting <=> api[NameOf[u]].deleting
        BY <2>4, <3>1 DEF TypeOK, PodNow
      <4>2. Cached(u) => held'[u] # {}
        BY <1>1, <2>4, <3>1 DEF TypeOK
      <4> QED
        BY <1>1, <2>1, <2>2, <2>4, <3>1, <4>1, <4>2
    <3>2. CASE u # v
      <4>1. manager'[u] = manager[u] /\ held'[u] = held[u] /\ (u \in known' <=> u \in known)
        BY <2>4, <3>2 DEF TypeOK
      <4> QED
        BY <1>1, <2>1, <2>2, <4>1
    <3> QED
      BY <3>1, <3>2
  <2>5. CASE ~Alive(v) /\ known' = known \ {v} /\ manager' = manager /\ held' = held
    BY <1>1, <2>1, <2>2, <2>5 DEF Gone
  <2> QED
    BY <2>3, <2>4, <2>5
<1> QED
  BY <1>3, <1>4, <1>5, <1>6, <1>7, <1>8, <1>9, Steps

LEMMA LivesInit == Init => Lives
BY Constants DEF Init, Lives, Alive, NoApiPod, Names, Cached, NotCached, NoPod

-----------------------------------------------------------------------------
(* Whose status the API server has *)

\* syncPod has read the pod that its request is for.
ReadsItsPod == pc \in {"patch", "delete"} => got.uid = request.uid

Owned ==
  \A n \in Names :
    /\ api[n].uid # NoUID => NameOf[api[n].uid] = n
    /\ api[n].writer = Nobody \/ (api[n].uid \in UIDs /\ api[n].writer.uid = api[n].uid)

LEMMA ReadsItsPodKept ==
  TypeOK /\ Serving /\ ReadsItsPod /\ [Next]_vars => ReadsItsPod'
<1> SUFFICES ASSUME TypeOK, Serving, ReadsItsPod, [Next]_vars
             PROVE  ReadsItsPod'
  OBVIOUS
<1>1. ASSUME UNCHANGED <<pc, request, got>>
      PROVE  ReadsItsPod'
  BY <1>1 DEF ReadsItsPod
<1>2. CASE SyncStep \/ CallFails \/ ReplyLost
  <2>1. CASE TakeRequest \/ Tick \/ SyncBatch \/ Check \/ Forget \/ CallFails
    BY <2>1 DEF TakeRequest, Tick, SyncBatch, Check, Forget, CallFails, Return, Goto,
                ReadsItsPod
  <2>2. ASSUME NEW r \in batch, NextInBatch(r)
        PROVE  ReadsItsPod'
    BY <2>2 DEF NextInBatch, ReadsItsPod
  <2>3. CASE Get
    BY <2>3 DEF Get, Return, Goto, Recreated, ReadsItsPod
  <2>4. CASE Patch
    BY <2>4, PatchEffect DEF ReadsItsPod
  <2>5. CASE Delete
    BY <2>5 DEF Delete, Return, Goto, ReadsItsPod
  <2>6. CASE ReplyLost
    BY <2>6, ReplyLostEffect DEF ReadsItsPod
  <2> QED
    BY <1>2, <2>1, <2>2, <2>3, <2>4, <2>5, <2>6 DEF SyncStep
<1>3. ASSUME \/ Quiet \/ Orphans
             \/ \E v \in UIDs, status \in Status : Writes(v, status)
      PROVE  UNCHANGED <<pc, request, got>>
  BY <1>3 DEF Quiet, Orphans, RemoveOrphanedStatuses, Writes, syncVars
<1>4. ASSUME NEW v \in UIDs, Clients(v) \/ Watches(v)
      PROVE  UNCHANGED <<pc, request, got>>
  BY <1>4, ClientsEffect, WatchEffect DEF Watches, syncVars
<1> QED
  BY <1>1, <1>2, <1>3, <1>4, Steps DEF Syncs

\* The pod that a patch was accepted for is the one its status is of.
LEMMA PatchedOwned ==
  ASSUME TypeOK, Serving, ReadsItsPod, pc = "patch", api[Name].uid = got.uid
  PROVE  /\ Name \in Names /\ request.uid \in UIDs /\ Alive(request.uid)
         /\ PatchedPod(api[Name]).uid = request.uid
         /\ PatchedPod(api[Name]).writer = [uid |-> request.uid, at |-> request.cached.at]
<1>1. request.uid \in UIDs /\ Name \in Names
  BY DEF Serving, SyncRequest, Name, Names
<1>2. api[Name] \in ApiPod /\ got.uid = request.uid
  BY <1>1 DEF TypeOK, ReadsItsPod
<1> QED
  BY <1>1, <1>2 DEF PatchedPod, Alive, Name, ApiPod

LEMMA OwnedKept ==
  TypeOK /\ Serving /\ ReadsItsPod /\ Owned /\ [Next]_vars => Owned'
<1> SUFFICES ASSUME TypeOK, Serving, ReadsItsPod, Owned, [Next]_vars
             PROVE  Owned'
  OBVIOUS
<1> DEFINE Own(n, pod) ==
      /\ pod.uid # NoUID => NameOf[pod.uid] = n
      /\ pod.writer = Nobody \/ (pod.uid \in UIDs /\ pod.writer.uid = pod.uid)
<1>1. ASSUME NEW n \in Names, NEW pod, Own(n, pod), api' = [api EXCEPT ![n] = pod]
      PROVE  Owned'
  BY <1>1 DEF Owned, TypeOK
<1>2. ASSUME api' = api
      PROVE  Owned'
  BY <1>2 DEF Owned
<1>3. \A n \in Names : Own(n, NoApiPod)
  BY DEF NoApiPod
<1>4. CASE Patch \/ ReplyLost
  <2>1. \/ api' = api
        \/ /\ pc = "patch" /\ api[Name].uid = got.uid
           /\ api' = [api EXCEPT ![Name] = PatchedPod(api[Name])]
        \/ api' = [api EXCEPT ![Name] = NoApiPod] /\ pc = "delete"
    BY <1>4, PatchEffect, ReplyLostEffect
  <2>2. CASE api' = [api EXCEPT ![Name] = NoApiPod] /\ pc = "delete"
    BY <1>1, <1>3, <2>2 DEF Serving, SyncRequest, Name, Names
  <2>3. CASE /\ pc = "patch" /\ api[Name].uid = got.uid
             /\ api' = [api EXCEPT ![Name] = PatchedPod(api[Name])]
    <3>1. Name \in Names /\ Own(Name, PatchedPod(api[Name]))
      BY <2>3, PatchedOwned DEF Name
    <3> QED
      BY <1>1, <2>3, <3>1
  <2> QED
    BY <1>2, <2>1, <2>2, <2>3
<1>5. CASE Delete
  BY <1>1, <1>2, <1>3, <1>5 DEF Delete, Serving, SyncRequest, Name, Names
<1>6. ASSUME NEW u \in UIDs, Clients(u)
      PROVE  Owned'
  <2>1. PICK pod \in ApiPod :
          /\ api' = [api EXCEPT ![NameOf[u]] = pod]
          /\ \/ pod.uid = u /\ pod.writer = Nobody
             \/ Alive(u) /\ pod.uid = u /\ pod.writer = api[NameOf[u]].writer
             \/ pod = NoApiPod
    BY <1>6, ClientsEffect
  <2>2. NameOf[u] \in Names
    BY DEF Names
  <2>3. Own(NameOf[u], pod)
    BY <1>3, <2>1, <2>2 DEF Alive, Owned
  <2> QED
    BY <1>1, <2>1, <2>2, <2>3
<1>7. CASE TakeRequest \/ Tick \/ SyncBatch \/ Check \/ Get \/ Forget \/ CallFails
  BY <1>2, <1>7 DEF TakeRequest, Tick, SyncBatch, Check, Get, Forget, CallFails, apiVars
<1>8. ASSUME NEW r \in batch, NextInBatch(r)
      PROVE  api' = api
  BY <1>8 DEF NextInBatch, apiVars
<1>9. ASSUME \/ Quiet \/ Orphans
             \/ \E v \in UIDs, status \in Status : Writes(v, status)
      PROVE  api' = api
  BY <1>9 DEF Quiet, Orphans, RemoveOrphanedStatuses, Writes, apiVars
<1>10. ASSUME NEW v \in UIDs, Watches(v)
       PROVE  api' = api
  BY <1>10, WatchEffect DEF Watches, apiVars
<1> QED
  BY <1>2, <1>4, <1>5, <1>6, <1>7, <1>8, <1>9, <1>10, Steps DEF Syncs, SyncStep

LEMMA OwnedHolds == Spec => [](ReadsItsPod /\ Owned)
<1>1. Init => ReadsItsPod /\ Owned
  BY DEF Init, ReadsItsPod, Owned, NoApiPod
<1> QED
  BY <1>1, ReadsItsPodKept, OwnedKept, TypeInvariant, PTL DEF Spec

\* For any pods and names: a status never reaches another pod that was given the name
\* since the status was made.
THEOREM StatusOfOwnPodHolds == Spec => []StatusOfOwnPod
<1>1. Owned => StatusOfOwnPod
  BY DEF Owned, StatusOfOwnPod, Nobody
<1> QED
  BY <1>1, OwnedHolds, PTL

-----------------------------------------------------------------------------
(* Versions and requests *)

\* Until a pod is gone for good its entry is never dropped, so that its version, and
\* the date of its last status, count what was set.
Counted ==
  \A u \in UIDs : ~Gone(u) =>
    /\ podStatuses[u].version = sets[u] /\ podStatuses[u].at = sets[u]
    /\ ~Cached(u) => podStatuses[u] = NotCached
    /\ apiStatusVersions[u] <= sets[u]

\* A request has an entry the cache once had for a pod; the last one is still there.
Sound(r) ==
  /\ r.uid \in created
  /\ ~Gone(r.uid) =>
       /\ r.cached.version = r.cached.at /\ r.cached.at \in 1..sets[r.uid]
       /\ r.cached.at = sets[r.uid] => r.cached.status = podStatuses[r.uid].status

AllSound ==
  /\ \A r \in Queued \union batch : Sound(r)
  /\ pc \notin {"next", "snapshot"} => Sound(request)

\* What syncPod knows at each place
Turn ==
  /\ pc = "forget" => Gone(request.uid)
  /\ pc \in {"get", "patch"} /\ ~Gone(request.uid) =>
       \/ manager[request.uid].deleting
       \/ apiStatusVersions[request.uid] < request.cached.version
  /\ pc = "patch" /\ Alive(request.uid) =>
       /\ got.deleting => api[Name].deleting
       /\ overwrites = 0 => got.status = api[Name].status
  /\ pc = "delete" /\ Alive(request.uid) => api[Name].deleting

SyncInv == Lives /\ ReadsItsPod /\ Owned /\ Counted /\ AllSound /\ Turn

\* How the entry of a pod that is not gone changes
LEMMA EntryMoves ==
  ASSUME TypeOK, Serving, SyncInv, [Next]_vars, NEW u \in UIDs, ~Gone(u)
  PROVE  \/ sets'[u] = sets[u] /\ podStatuses'[u] = podStatuses[u]
         \/ \E status \in Status : /\ podStatuses'[u] = Entry(u, status)
                                   /\ sets'[u] = sets[u] + 1
<1>1. CASE Quiet
  BY <1>1 DEF Quiet, cacheVars
<1>2. CASE Syncs
  <2>1. pc = "forget" => request.uid # u
    BY DEF SyncInv, Turn
  <2> QED
    BY <1>2, <2>1, SyncsFrame DEF TypeOK
<1>3. CASE Orphans
  <2>1. PICK S \in SUBSET UIDs : known \subseteq S /\ RemoveOrphanedStatuses(S)
    BY <1>3 DEF Orphans
  <2>2. sets' = sets /\ podStatuses'[u] = IF u \in S THEN podStatuses[u] ELSE NotCached
    BY <2>1 DEF RemoveOrphanedStatuses
  <2>3. u \notin S => podStatuses[u] = NotCached
    <3>1. u \notin S => ~Cached(u)
      BY <2>1 DEF SyncInv, Lives
    <3> QED
      BY <3>1 DEF SyncInv, Counted
  <2> QED
    BY <2>2, <2>3
<1>4. ASSUME NEW v \in UIDs, NEW status \in Status, Writes(v, status)
      PROVE  \/ sets'[u] = sets[u] /\ podStatuses'[u] = podStatuses[u]
             \/ /\ podStatuses'[u] = Entry(u, status)
                /\ sets'[u] = sets[u] + 1
  BY <1>4 DEF Writes, TypeOK
<1>5. ASSUME NEW v \in UIDs, Clients(v) \/ Watches(v)
      PROVE  sets' = sets /\ podStatuses' = podStatuses
  BY <1>5, ClientsEffect, WatchEffect DEF Watches, cacheVars
<1> QED
  BY <1>1, <1>2, <1>3, <1>4, <1>5, Steps

\* Where the sync goroutine takes its requests from
LEMMA RequestMoves ==
  ASSUME TypeOK, Serving, Syncs
  PROVE  /\ \A r \in Queued' \union batch' :
              \/ r \in Queued \union batch
              \/ \E u \in UIDs : Cached(u) /\ r = [uid |-> u, cached |-> podStatuses[u]]
         /\ \/ pc' \in {"next", "snapshot"}
            \/ pc \notin {"next", "snapshot"} /\ request' = request
            \/ pc' = "check" /\ request' \in Queued \union batch
<1>1. CASE TakeRequest
  <2>1. /\ podStatusChannel \in Seq(SyncRequest) /\ podStatusChannel # <<>>
        /\ podStatusChannel' = Tail(podStatusChannel)
        /\ request' = Head(podStatusChannel) /\ batch' = batch /\ pc' = "check"
    BY <1>1 DEF TakeRequest, TypeOK
  <2>2. /\ Len(podStatusChannel) \in Nat /\ 1 \in 1..Len(podStatusChannel)
        /\ request' = podStatusChannel[1]
        /\ Len(podStatusChannel') = Len(podStatusChannel) - 1
        /\ \A i \in 1..Len(podStatusChannel') : podStatusChannel'[i] = podStatusChannel[i + 1]
    BY <2>1
  <2>3. request' \in Queued
    BY <2>2 DEF Queued
  <2>4. Queued' \subseteq Queued
    <3>1. \A i \in 1..Len(podStatusChannel') : i + 1 \in 1..Len(podStatusChannel)
      BY <2>2
    <3> QED
      BY <2>2, <3>1 DEF Queued
  <2> QED
    BY <2>1, <2>3, <2>4
<1>2. CASE Tick
  <2>1. podStatusChannel' = <<>> /\ batch' = batch /\ pc' = "snapshot"
    BY <1>2 DEF Tick
  <2>2. Queued' = {}
    BY <2>1 DEF Queued
  <2> QED
    BY <2>1, <2>2
<1>3. CASE SyncBatch
  <2>1. podStatusChannel' = podStatusChannel /\ pc' = "next"
    BY <1>3 DEF SyncBatch
  <2>2. \A r \in batch' :
          \E u \in UIDs : Cached(u) /\ r = [uid |-> u, cached |-> podStatuses[u]]
    BY <1>3 DEF SyncBatch
  <2> QED
    BY <2>1, <2>2 DEF Queued
<1>4. ASSUME NEW r \in batch, NextInBatch(r)
      PROVE  /\ podStatusChannel' = podStatusChannel /\ batch' \subseteq batch
             /\ pc' = "check" /\ request' \in batch
  BY <1>4 DEF NextInBatch, cacheVars
<1>5. ASSUME Check \/ Get \/ Delete \/ Forget \/ CallFails
      PROVE  /\ podStatusChannel' = podStatusChannel /\ batch' = batch
             /\ pc' = "next" \/ (pc \notin {"next", "snapshot"} /\ request' = request)
  BY <1>5 DEF Check, Get, Delete, Forget, CallFails, Return, Goto, cacheVars
<1>6. ASSUME Patch \/ ReplyLost
      PROVE  /\ podStatusChannel' = podStatusChannel /\ batch' = batch
             /\ pc' = "next" \/ (pc \notin {"next", "snapshot"} /\ request' = request)
  BY <1>6, PatchEffect, ReplyLostEffect DEF cacheVars
<1> QED
  BY <1>1, <1>2, <1>3, <1>4, <1>5, <1>6 DEF Syncs, SyncStep, Queued

LEMMA SoundKept ==
  ASSUME TypeOK, TypeOK', Serving, SyncInv, [Next]_vars, NEW r \in SyncRequest, Sound(r)
  PROVE  Sound(r)'
<1>1. r.uid \in UIDs /\ r.cached.at \in Nat
  BY DEF SyncRequest, Versioned
<1>2. r.uid \in created'
  BY <1>1, Aging DEF Sound
<1>3. CASE Gone(r.uid)
  BY <1>1, <1>2, <1>3, GoneStays DEF Sound
<1>4. CASE ~Gone(r.uid)
  <2>1. /\ r.cached.version = r.cached.at /\ r.cached.at \in 1..sets[r.uid]
        /\ r.cached.at = sets[r.uid] => r.cached.status = podStatuses[r.uid].status
    BY <1>4 DEF Sound
  <2>2. sets[r.uid] \in Nat
    BY <1>1, Constants DEF TypeOK
  <2>3. \/ sets'[r.uid] = sets[r.uid] /\ podStatuses'[r.uid] = podStatuses[r.uid]
        \/ sets'[r.uid] = sets[r.uid] + 1
    BY <1>1, <1>4, EntryMoves
  <2>4. /\ r.cached.at \in 1..sets'[r.uid]
        /\ r.cached.at = sets'[r.uid] => r.cached.status = podStatuses'[r.uid].status
    BY <1>1, <2>1, <2>2, <2>3
  <2> QED
    BY <1>2, <2>1, <2>4 DEF Sound
<1> QED
  BY <1>3, <1>4

LEMMA AllSoundKept ==
  ASSUME TypeOK, TypeOK', Serving, SyncInv, [Next]_vars
  PROVE  AllSound'
<1>1. \A r \in Queued \union batch : r \in SyncRequest /\ Sound(r)'
  <2>1. \A r \in Queued \union batch : r \in SyncRequest
    BY DEF Queued, TypeOK
  <2> QED
    BY <2>1, SoundKept DEF SyncInv, AllSound
<1>2. ASSUME pc \notin {"next", "snapshot"}, NEW r, r = request
      PROVE  Sound(r)'
  <2>1. r \in SyncRequest /\ Sound(r)
    BY <1>2 DEF SyncInv, AllSound, Serving
  <2> QED
    BY <2>1, SoundKept
<1>3. CASE Syncs
  <2>1. ASSUME NEW u \in UIDs, Cached(u), NEW r, r = [uid |-> u, cached |-> podStatuses[u]]
        PROVE  Sound(r)'
    <3>1. r \in SyncRequest
      BY <2>1 DEF TypeOK, SyncRequest
    <3>2. u \in created
      BY <2>1 DEF SyncInv, Lives
    <3>3. podStatuses[u].version \in Nat /\ podStatuses[u].version > 0
      BY <2>1 DEF Cached, TypeOK, Versioned
    <3>4. ~Gone(u) => podStatuses[u].version = sets[u] /\ podStatuses[u].at = sets[u]
      BY DEF SyncInv, Counted
    <3>5. Sound(r)
      BY <2>1, <3>2, <3>3, <3>4 DEF Sound
    <3> QED
      BY <3>1, <3>5, SoundKept
  <2> QED
    <3>1. ASSUME NEW r \in (Queued' \union batch')
          PROVE  Sound(r)'
      BY <1>1, <1>3, <2>1, RequestMoves
    <3>2. ASSUME pc' \notin {"next", "snapshot"}, NEW r, r = request'
          PROVE  Sound(r)'
      BY <1>1, <1>2, <1>3, <3>2, RequestMoves
    <3> QED
      BY <3>1, <3>2 DEF AllSound
<1>4. ASSUME Quiet \/ Orphans
      PROVE  UNCHANGED <<podStatusChannel, batch, pc, request>>
  BY <1>4 DEF Quiet, Orphans, RemoveOrphanedStatuses, syncVars, cacheVars
<1>5. ASSUME NEW v \in UIDs, Clients(v) \/ Watches(v)
      PROVE  UNCHANGED <<podStatusChannel, batch, pc, request>>
  BY <1>5, ClientsEffect, WatchEffect DEF Watches, syncVars, cacheVars
<1>6. ASSUME UNCHANGED <<podStatusChannel, batch, pc, request>>
      PROVE  AllSound'
  <2>1. \A r \in Queued' \union batch' : Sound(r)'
    BY <1>1, <1>6 DEF Queued
  <2> QED
    BY <1>2, <1>6, <2>1 DEF AllSound
<1>7. ASSUME NEW u \in UIDs, NEW status \in Status, Writes(u, status)
      PROVE  AllSound'
  <2>1. /\ sets'[u] = sets[u] + 1 /\ podStatuses'[u] = Entry(u, status)
        /\ UNCHANGED <<pc, request, batch, created, api>>
        /\ Queued' \subseteq Queued \union {[uid |-> u, cached |-> Entry(u, status)]}
        /\ held[u] # {} \/ Cached(u)
    BY <1>7 DEF Writes, syncVars, apiVars, TypeOK
  <2>2. u \in created'
    BY <2>1 DEF SyncInv, Lives
  <2>3. Gone(u)' <=> Gone(u)
    BY <2>1 DEF Gone, Alive
  <2>4. ~Gone(u) => /\ podStatuses[u].version = sets[u] /\ podStatuses[u].at = sets[u]
                    /\ sets[u] \in Nat
    BY Constants DEF SyncInv, Counted, TypeOK
  <2>5. ASSUME NEW r, r = [uid |-> u, cached |-> Entry(u, status)]
        PROVE  Sound(r)'
    BY <2>1, <2>2, <2>3, <2>4, <2>5 DEF Sound, Entry
  <2>6. \A r \in Queued' \union batch' : Sound(r)'
    BY <1>1, <2>1, <2>5
  <2> QED
    BY <1>2, <2>1, <2>6 DEF AllSound
<1> QED
  BY <1>3, <1>4, <1>5, <1>6, <1>7, Steps

\* The version that was synced last is forgotten by syncBatch and set by a patch.
LEMMA VersionMoves ==
  ASSUME TypeOK, Serving, ReadsItsPod, [Next]_vars, NEW u \in UIDs
  PROVE  \/ apiStatusVersions'[u] = apiStatusVersions[u]
         \/ apiStatusVersions'[u] = 0 /\ pc = "snapshot"
         \/ /\ pc = "patch" /\ u = request.uid
            /\ apiStatusVersions'[u] = request.cached.version
<1>1. CASE SyncBatch
  BY <1>1 DEF SyncBatch, OrphanedVersions
<1>2. CASE Patch
  <2>1. \/ apiStatusVersions' = apiStatusVersions
        \/ apiStatusVersions' = [apiStatusVersions EXCEPT ![got.uid] = request.cached.version]
    BY <1>2, PatchEffect
  <2>2. pc = "patch" /\ got.uid = request.uid
    BY <1>2, PatchEffect DEF ReadsItsPod
  <2> QED
    BY <2>1, <2>2 DEF TypeOK
<1>3. CASE TakeRequest \/ Tick \/ Check \/ Get \/ Delete \/ Forget \/ CallFails \/ ReplyLost
  BY <1>3 DEF TakeRequest, Tick, Check, Get, Delete, Forget, CallFails, ReplyLost, cacheVars
<1>4. ASSUME NEW r \in batch, NextInBatch(r)
      PROVE  apiStatusVersions' = apiStatusVersions
  BY <1>4 DEF NextInBatch, cacheVars
<1>5. ASSUME Quiet \/ Orphans \/ \E v \in UIDs, status \in Status : Writes(v, status)
      PROVE  apiStatusVersions' = apiStatusVersions
  BY <1>5 DEF Quiet, Orphans, RemoveOrphanedStatuses, Writes, cacheVars
<1>6. ASSUME NEW v \in UIDs, Clients(v) \/ Watches(v)
      PROVE  apiStatusVersions' = apiStatusVersions
  BY <1>6, ClientsEffect, WatchEffect DEF Watches, cacheVars
<1> QED
  BY <1>1, <1>2, <1>3, <1>4, <1>5, <1>6, Steps DEF Syncs, SyncStep

LEMMA CountedKept ==
  ASSUME TypeOK, TypeOK', Serving, SyncInv, [Next]_vars
  PROVE  Counted'
<1> SUFFICES ASSUME NEW u \in UIDs, ~Gone(u)'
             PROVE  /\ podStatuses'[u].version = sets'[u] /\ podStatuses'[u].at = sets'[u]
                    /\ ~Cached(u)' => podStatuses'[u] = NotCached
                    /\ apiStatusVersions'[u] <= sets'[u]
  BY DEF Counted
<1>1. ~Gone(u)
  BY GoneStays
<1>2. /\ podStatuses[u].version = sets[u] /\ podStatuses[u].at = sets[u]
      /\ ~Cached(u) => podStatuses[u] = NotCached
      /\ apiStatusVersions[u] <= sets[u]
      /\ sets[u] \in Nat /\ apiStatusVersions[u] \in Nat
  BY <1>1, Constants DEF SyncInv, Counted, TypeOK
<1>3. \/ sets'[u] = sets[u] /\ podStatuses'[u] = podStatuses[u]
      \/ \E status \in Status : podStatuses'[u] = Entry(u, status) /\ sets'[u] = sets[u] + 1
  BY <1>1, EntryMoves
<1>4. /\ podStatuses'[u].version = sets'[u] /\ podStatuses'[u].at = sets'[u]
      /\ ~Cached(u)' => podStatuses'[u] = NotCached
      /\ sets[u] <= sets'[u] /\ sets'[u] \in Nat
  <2>1. CASE sets'[u] = sets[u] /\ podStatuses'[u] = podStatuses[u]
    BY <1>2, <2>1 DEF Cached
  <2>2. ASSUME NEW status \in Status, podStatuses'[u] = Entry(u, status), sets'[u] = sets[u] + 1
        PROVE  /\ podStatuses'[u].version = sets'[u] /\ podStatuses'[u].at = sets'[u]
               /\ Cached(u)' /\ sets[u] <= sets'[u] /\ sets'[u] \in Nat
    <3>1. /\ podStatuses'[u].version = podStatuses[u].version + 1
          /\ podStatuses'[u].at = sets[u] + 1
      BY <2>2 DEF Entry
    <3> QED
      BY <1>2, <2>2, <3>1 DEF Cached
  <2> QED
    BY <1>3, <2>1, <2>2
<1>5. pc = "patch" /\ u = request.uid => request.cached.version \in 1..sets[u]
  BY <1>1 DEF SyncInv, AllSound, Sound
<1>6. apiStatusVersions'[u] <= sets'[u]
  <2>1. \/ apiStatusVersions'[u] = apiStatusVersions[u]
        \/ apiStatusVersions'[u] = 0
        \/ /\ pc = "patch" /\ u = request.uid
           /\ apiStatusVersions'[u] = request.cached.version
    BY VersionMoves DEF SyncInv
  <2> QED
    BY <1>2, <1>4, <1>5, <2>1
<1> QED
  BY <1>4, <1>6

\* A deletion that the kubelet knows of stays known.
LEMMA DeletingKnown ==
  ASSUME TypeOK, Serving, Lives, [Next]_vars, NEW u \in UIDs, manager[u].deleting
  PROVE  manager'[u].deleting
<1>1. ASSUME NEW v \in UIDs, Watches(v)
      PROVE  manager'[u].deleting
  <2>1. manager' = manager \/ (Alive(v) /\ manager' = [manager EXCEPT ![v] = PodNow(v)])
    BY <1>1, WatchEffect DEF Watches
  <2>2. Alive(u) => PodNow(u).deleting
    BY DEF Lives, PodNow
  <2> QED
    BY <2>1, <2>2 DEF TypeOK
<1>2. CASE Quiet \/ Orphans \/ \E v \in UIDs, status \in Status : Writes(v, status)
  BY <1>2 DEF Quiet, Orphans, RemoveOrphanedStatuses, Writes, kubeletVars
<1>3. CASE Syncs
  BY <1>3, SyncsFrame DEF kubeletVars
<1>4. ASSUME NEW v \in UIDs, Clients(v)
      PROVE  manager' = manager
  BY <1>4, ClientsEffect DEF kubeletVars
<1> QED
  BY <1>1, <1>2, <1>3, <1>4, Steps

\* Only another client, or a patch, changes the status of a pod at the API server.
LEMMA StatusMoves ==
  ASSUME TypeOK, Serving, [Next]_vars, ~Syncs, NEW u \in UIDs, Alive(u), Alive(u)',
         u \in created, overwrites' = 0
  PROVE  overwrites = 0 /\ api'[NameOf[u]].status = api[NameOf[u]].status
<1>1. ASSUME NEW v \in UIDs, Clients(v)
      PROVE  overwrites = 0 /\ api'[NameOf[u]].status = api[NameOf[u]].status
  <2>1. PICK pod \in ApiPod :
          /\ api' = [api EXCEPT ![NameOf[v]] = pod]
          /\ \/ v \notin created /\ api[NameOf[v]].uid = NoUID /\ overwrites' = overwrites
             \/ /\ Alive(v)
                /\ \/ overwrites' = overwrites /\ pod.status = api[NameOf[v]].status
                   \/ pod = NoApiPod /\ overwrites' = overwrites
                   \/ overwrites' = overwrites + 1
    BY <1>1, ClientsEffect
  <2>2. NameOf[v] \in Names /\ NameOf[u] \in Names /\ u # NoUID /\ NoApiPod.uid = NoUID
    BY Constants DEF Names, NoApiPod
  <2>3. api'[NameOf[u]] = IF NameOf[u] = NameOf[v] THEN pod ELSE api[NameOf[u]]
    BY <2>1, <2>2 DEF TypeOK
  <2>4. overwrites \in Nat /\ overwrites + 1 # 0
    BY Constants DEF TypeOK
  <2> QED
    BY <2>1, <2>2, <2>3, <2>4 DEF Alive
<1>2. CASE Quiet \/ Orphans \/ \E v \in UIDs, status \in Status : Writes(v, status)
  BY <1>2 DEF Quiet, Orphans, RemoveOrphanedStatuses, Writes, apiVars
<1>3. ASSUME NEW v \in UIDs, Watches(v)
      PROVE  api' = api /\ overwrites' = overwrites
  BY <1>3, WatchEffect DEF Watches, apiVars
<1> QED
  BY <1>1, <1>2, <1>3, Steps

\* Nobody else takes away what syncPod knows.
LEMMA TurnOfOthers ==
  ASSUME TypeOK, Serving, SyncInv, [Next]_vars, ~Syncs, UNCHANGED <<pc, request, got>>
  PROVE  Turn'
<1>1. CASE pc \in {"next", "snapshot"}
  BY <1>1 DEF Turn
<1>2. CASE pc \notin {"next", "snapshot"}
  <2>1. PICK u \in UIDs : u = request.uid /\ u \in created
    BY <1>2 DEF Serving, SyncRequest, SyncInv, AllSound, Sound
  <2>2. request.uid = u /\ request'.uid = u /\ Name = NameOf[u] /\ Name' = NameOf[u]
    BY <2>1 DEF Name
  <2>3. Gone(u) => Gone(u)'
    BY GoneStays
  <2>4. /\ Alive(u)' => Alive(u)
        /\ Alive(u) /\ Alive(u)' /\ api[NameOf[u]].deleting => api'[NameOf[u]].deleting
    BY <2>1, Aging
  <2>5. apiStatusVersions'[u] = apiStatusVersions[u]
    <3>1. CASE Quiet \/ Orphans \/ \E v \in UIDs, status \in Status : Writes(v, status)
      BY <3>1 DEF Quiet, Orphans, RemoveOrphanedStatuses, Writes, cacheVars
    <3>2. ASSUME NEW v \in UIDs, Clients(v) \/ Watches(v)
          PROVE  apiStatusVersions' = apiStatusVersions
      BY <3>2, ClientsEffect, WatchEffect DEF Watches, cacheVars
    <3> QED
      BY <3>1, <3>2, Steps
  <2>6. manager[u].deleting => manager'[u].deleting
    BY DeletingKnown DEF SyncInv
  <2>7. Alive(u) /\ Alive(u)' /\ overwrites' = 0 =>
          overwrites = 0 /\ api'[NameOf[u]].status = api[NameOf[u]].status
    BY <2>1, StatusMoves
  <2> QED
    BY <2>2, <2>3, <2>4, <2>5, <2>6, <2>7 DEF SyncInv, Turn
<1> QED
  BY <1>1, <1>2

LEMMA TurnOfSync ==
  ASSUME TypeOK, TypeOK', Serving, SyncInv, [Next]_vars, Syncs
  PROVE  Turn'
<1>1. CASE TakeRequest \/ Tick \/ SyncBatch \/ Forget \/ CallFails \/ ReplyLost
  BY <1>1, ReplyLostEffect DEF TakeRequest, Tick, SyncBatch, Forget, CallFails, Return, Turn
<1>2. ASSUME NEW r \in batch, NextInBatch(r)
      PROVE  Turn'
  BY <1>2 DEF NextInBatch, Turn
<1>3. ASSUME pc \notin {"next", "snapshot"}
      PROVE  request.uid \in UIDs /\ request.uid \in created
  BY <1>3 DEF Serving, SyncRequest, SyncInv, AllSound, Sound
<1>4. CASE Check
  <2>1. pc' = "next" \/ (pc' = "get" /\ NeedsUpdate(request.uid, request.cached.version))
    BY <1>4 DEF Check, Return, Goto
  <2>2. pc' = "get" => request' = request
    BY <1>4 DEF Check, Return, Goto
  <2>3. UNCHANGED <<apiStatusVersions, manager>>
    BY <1>4 DEF Check, cacheVars, kubeletVars
  <2> QED
    BY <2>1, <2>2, <2>3 DEF Turn, NeedsUpdate, CanBeDeleted
<1>5. CASE Get
  <2>1. /\ pc = "get" /\ UNCHANGED <<apiStatusVersions, manager, api, created, overwrites>>
        /\ \/ pc' = "next"
           \/ /\ pc' = "forget" /\ api[Name].uid # request.uid /\ request' = request
           \/ /\ pc' = "patch" /\ got' = api[Name] /\ request' = request
    BY <1>5 DEF Get, Return, Goto, Recreated, cacheVars, kubeletVars, apiVars
  <2>2. CASE pc' = "forget"
    BY <1>3, <2>1, <2>2 DEF Turn, Gone, Alive, Name
  <2>3. CASE pc' = "patch"
    BY <2>1, <2>3 DEF SyncInv, Turn, Gone, Alive, Name
  <2> QED
    BY <2>1, <2>2, <2>3 DEF Turn
<1>6. CASE Patch
  <2>1. CASE pc' = "next"
    BY <2>1 DEF Turn
  <2>2. CASE pc' = "delete"
    <3>1. /\ pc = "patch" /\ request' = request
          /\ IF Sent THEN api[Name].deleting ELSE got.deleting
      BY <1>6, <2>2, PatchEffect
    <3>2. PICK u \in UIDs : u = request.uid /\ u \in created
      BY <1>3, <3>1
    <3>3. Alive(u) => api[NameOf[u]].deleting
      BY <3>1, <3>2 DEF SyncInv, Turn, Name
    <3>4. Alive(u)' => Alive(u) /\ api'[NameOf[u]].deleting
      BY <3>2, <3>3, Aging
    <3> QED
      BY <2>2, <3>1, <3>2, <3>4 DEF Turn, Name
  <2> QED
    BY <1>6, <2>1, <2>2, PatchEffect
<1>7. CASE Delete
  <2>1. CASE pc' = "next"
    BY <2>1 DEF Turn
  <2>2. CASE pc' # "next"
    <3>1. /\ pc = "delete" /\ api' = [api EXCEPT ![Name] = NoApiPod] /\ created' = created
          /\ pc' = "forget" /\ request' = request
      BY <1>7, <2>2 DEF Delete, Return, Goto
    <3>2. Name \in Names /\ request.uid # NoUID /\ NoApiPod.uid = NoUID
      BY <1>3, <3>1, Constants DEF Name, Names, NoApiPod
    <3>3. api'[Name] = NoApiPod
      BY <3>1, <3>2 DEF TypeOK
    <3> QED
      BY <1>3, <3>1, <3>2, <3>3 DEF Turn, Gone, Alive, Name
  <2> QED
    BY <2>1, <2>2
<1> QED
  BY <1>1, <1>2, <1>4, <1>5, <1>6, <1>7 DEF Syncs, SyncStep

LEMMA SyncInvariant == Spec => [](TypeOK /\ Serving /\ SyncInv)
<1>1. Init => SyncInv
  <2> SUFFICES ASSUME Init
               PROVE  SyncInv
    OBVIOUS
  <2>1. Lives
    BY LivesInit
  <2>2. Queued = {} /\ batch = {}
    BY DEF Init, Queued
  <2>3. ReadsItsPod /\ Owned /\ AllSound /\ Turn
    BY <2>2 DEF Init, ReadsItsPod, Owned, NoApiPod, AllSound, Turn
  <2>4. Counted
    BY DEF Init, Counted, NotCached
  <2> QED
    BY <2>1, <2>3, <2>4 DEF SyncInv
<1>2. TypeOK /\ TypeOK' /\ Serving /\ SyncInv /\ [Next]_vars => SyncInv'
  <2> SUFFICES ASSUME TypeOK, TypeOK', Serving, SyncInv, [Next]_vars
               PROVE  SyncInv'
    OBVIOUS
  <2>1. Lives' /\ ReadsItsPod' /\ Owned'
    BY LivesKept, ReadsItsPodKept, OwnedKept DEF SyncInv
  <2>2. Counted' /\ AllSound'
    BY CountedKept, AllSoundKept
  <2>3. Turn'
    <3>1. CASE Syncs
      BY <3>1, TurnOfSync
    <3>2. CASE ~Syncs
      <4>1. CASE Quiet \/ Orphans \/ \E v \in UIDs, status \in Status : Writes(v, status)
        BY <3>2, <4>1, TurnOfOthers
           DEF Quiet, Orphans, RemoveOrphanedStatuses, Writes, syncVars
      <4>2. ASSUME NEW v \in UIDs, Clients(v) \/ Watches(v)
            PROVE  UNCHANGED <<pc, request, got>>
        BY <4>2, ClientsEffect, WatchEffect DEF Watches, syncVars
      <4> QED
        BY <3>2, <4>1, <4>2, TurnOfOthers, Steps
    <3> QED
      BY <3>1, <3>2
  <2> QED
    BY <2>1, <2>2, <2>3 DEF SyncInv
<1> QED
  BY <1>1, <1>2, TypeInvariant, PTL DEF Spec

-----------------------------------------------------------------------------
(* What is skipped is up to date *)

\* A pod whose last version was synced shows that at the API server, as long as
\* nobody else writes there.
Shown ==
  overwrites = 0 => \A u \in UIDs :
    Alive(u) /\ Cached(u) /\ ~manager[u].deleting /\ apiStatusVersions[u] = sets[u] =>
      Agrees(u)

\* Sending a status again changes nothing.
LEMMA MergedTwice ==
  ASSUME NEW old \in Status, NEW new \in Status
  PROVE  /\ MergePodStatus(MergePodStatus(old, new), new) = MergePodStatus(old, new)
         /\ MergePodStatus(new, new) = new
BY DEF MergePodStatus, Status, Terminal

LEMMA PatchedAll ==
  ASSUME NEW old \in Status, NEW new \in Status
  PROVE  Patched(old, old, new) = new
<1>1. Patched(old, old, new) \in Status
  BY PatchedType
<1>2. DOMAIN old = {"phase", "container", "ready", "started"}
  BY DEF Status
<1>3. /\ Patched(old, old, new).phase = new.phase
      /\ Patched(old, old, new).container = new.container
      /\ Patched(old, old, new).ready = new.ready
      /\ Patched(old, old, new).started = new.started
  BY <1>2 DEF Patched
<1> QED
  BY <1>1, <1>3 DEF Status

\* A patch of the pod of u, when nobody else wrote its status since it was read
LEMMA PatchShows ==
  ASSUME TypeOK, Serving, SyncInv, Patch, overwrites = 0, NEW u \in UIDs, u = request.uid,
         Alive(u), Alive(u)'
  PROVE  api'[NameOf[u]].status = MergePodStatus(api[NameOf[u]].status, request.cached.status)
         \/ UNCHANGED <<api, apiStatusVersions>>
<1>1. Name = NameOf[u] /\ Name \in Names /\ request.cached.status \in Status
  BY PatchEffect DEF Name, Names, Serving, SyncRequest, Versioned
<1>2. api[Name] \in ApiPod /\ api[Name].status \in Status /\ got.status = api[Name].status
  BY <1>1, PatchEffect DEF TypeOK, ApiPod, SyncInv, Turn
<1>3. Merged = MergePodStatus(api[Name].status, request.cached.status) /\ Merged \in Status
  BY <1>1, <1>2, MergedType DEF Merged
<1>4. CASE api' = [api EXCEPT ![Name] = PatchedPod(api[Name])]
  <2>1. api'[Name].status = Patched(api[Name].status, got.status, Merged)
    BY <1>1, <1>2, <1>4 DEF TypeOK, PatchedPod, ApiPod
  <2> QED
    BY <1>1, <1>2, <1>3, <2>1, PatchedAll
<1>5. CASE api' = api /\ ~Sent
  BY <1>1, <1>2, <1>3, <1>5 DEF Sent
<1>6. \/ UNCHANGED <<api, apiStatusVersions>>
      \/ api' = [api EXCEPT ![Name] = PatchedPod(api[Name])]
      \/ api' = api /\ ~Sent
  BY PatchEffect
<1> QED
  BY <1>4, <1>5, <1>6

\* A sync step that is no patch of u which was recorded
LEMMA OtherSyncs ==
  ASSUME TypeOK, Serving, SyncInv, [Next]_vars, Syncs, NEW u \in UIDs, Alive(u), Alive(u)'
  PROVE  \/ api'[NameOf[u]] = api[NameOf[u]]
         \/ /\ pc = "patch" /\ u = request.uid /\ (Patch \/ ReplyLost)
            /\ ReplyLost => apiStatusVersions' = apiStatusVersions
            /\ api'[NameOf[u]] = PatchedPod(api[NameOf[u]])
<1>1. NameOf[u] \in Names /\ u # NoUID /\ NoApiPod.uid = NoUID
  BY Constants DEF Names, NoApiPod
<1>2. CASE Patch \/ ReplyLost
  <2>1. \/ api' = api
        \/ /\ pc = "patch" /\ api[Name].uid = got.uid
           /\ api' = [api EXCEPT ![Name] = PatchedPod(api[Name])]
        \/ pc = "delete" /\ api' = [api EXCEPT ![Name] = NoApiPod]
    BY <1>2, PatchEffect, ReplyLostEffect
  <2>2. CASE /\ pc = "patch" /\ api[Name].uid = got.uid
             /\ api' = [api EXCEPT ![Name] = PatchedPod(api[Name])]
    <3>1. ReplyLost => apiStatusVersions' = apiStatusVersions
      BY ReplyLostEffect DEF cacheVars
    <3>2. Name = NameOf[u] => u = request.uid
      BY <2>2, PatchedOwned DEF SyncInv, Alive, Name
    <3> QED
      BY <1>1, <1>2, <2>2, <3>1, <3>2 DEF TypeOK
  <2>3. CASE pc = "delete" /\ api' = [api EXCEPT ![Name] = NoApiPod]
    BY <1>1, <2>3 DEF Alive, TypeOK
  <2> QED
    BY <2>1, <2>2, <2>3
<1>3. CASE Delete
  BY <1>1, <1>3 DEF Delete, Alive, TypeOK
<1>4. CASE TakeRequest \/ Tick \/ SyncBatch \/ Check \/ Get \/ Forget \/ CallFails
  BY <1>4 DEF TakeRequest, Tick, SyncBatch, Check, Get, Forget, CallFails, apiVars
<1>5. ASSUME NEW r \in batch, NextInBatch(r)
      PROVE  api' = api
  BY <1>5 DEF NextInBatch, apiVars
<1> QED
  BY <1>2, <1>3, <1>4, <1>5 DEF Syncs, SyncStep

LEMMA ShownKept ==
  ASSUME TypeOK, TypeOK', Serving, SyncInv, SyncInv', Shown, [Next]_vars
  PROVE  Shown'
<1> SUFFICES ASSUME overwrites' = 0, NEW u \in UIDs, Alive(u)', Cached(u)',
                    ~manager'[u].deleting, apiStatusVersions'[u] = sets'[u]
             PROVE  Agrees(u)'
  BY DEF Shown
<1>1. ~Gone(u) /\ ~manager[u].deleting
  BY GoneStays, DeletingKnown DEF Gone, SyncInv
<1>2. /\ podStatuses[u].version = sets[u] /\ apiStatusVersions[u] <= sets[u]
      /\ sets[u] \in Nat /\ apiStatusVersions[u] \in Nat
  BY <1>1, Constants DEF SyncInv, Counted, TypeOK
<1>3. pc = "patch" /\ u = request.uid =>
        /\ request.cached.version = request.cached.at /\ request.cached.at \in 1..sets[u]
        /\ request.cached.at = sets[u] => request.cached.status = podStatuses[u].status
        /\ apiStatusVersions[u] < request.cached.version
  BY <1>1 DEF SyncInv, AllSound, Sound, Turn
<1>4. \/ apiStatusVersions'[u] = apiStatusVersions[u]
      \/ apiStatusVersions'[u] = 0
      \/ /\ pc = "patch" /\ u = request.uid
         /\ apiStatusVersions'[u] = request.cached.version
  BY VersionMoves DEF SyncInv
<1>5. sets'[u] = sets[u] /\ podStatuses'[u] = podStatuses[u]
  <2>1. \/ sets'[u] = sets[u] /\ podStatuses'[u] = podStatuses[u]
        \/ sets'[u] = sets[u] + 1
    BY <1>1, EntryMoves
  <2> QED
    BY <1>2, <1>3, <1>4, <2>1
<1>6. Cached(u) /\ u \in created /\ Alive(u) /\ sets[u] > 0
  BY <1>1, <1>2, <1>5 DEF Cached, SyncInv, Lives, Gone
<1>7. overwrites = 0
  BY <1>6, SyncsFrame, StatusMoves
<1>8. ASSUME apiStatusVersions'[u] = apiStatusVersions[u],
             api'[NameOf[u]].status = api[NameOf[u]].status
      PROVE  Agrees(u)'
  BY <1>1, <1>5, <1>6, <1>7, <1>8 DEF Shown, Agrees
<1>9. CASE ~Syncs
  <2>1. api'[NameOf[u]].status = api[NameOf[u]].status
    BY <1>6, <1>9, StatusMoves
  <2>2. apiStatusVersions'[u] = apiStatusVersions[u]
    <3>1. CASE Quiet \/ Orphans \/ \E v \in UIDs, status \in Status : Writes(v, status)
      BY <3>1 DEF Quiet, Orphans, RemoveOrphanedStatuses, Writes, cacheVars
    <3>2. ASSUME NEW v \in UIDs, Clients(v) \/ Watches(v)
          PROVE  apiStatusVersions' = apiStatusVersions
      BY <3>2, ClientsEffect, WatchEffect DEF Watches, cacheVars
    <3> QED
      BY <1>9, <3>1, <3>2, Steps
  <2> QED
    BY <1>8, <2>1, <2>2
<1>10. CASE Syncs
  <2>1. CASE apiStatusVersions'[u] = apiStatusVersions[u]
    <3>1. ~(pc = "patch" /\ u = request.uid)
      BY <1>2, <1>3, <1>5, <2>1
    <3>2. api'[NameOf[u]] = api[NameOf[u]]
      BY <1>6, <1>10, <3>1, OtherSyncs
    <3> QED
      BY <1>8, <2>1, <3>2
  <2>2. CASE apiStatusVersions'[u] # apiStatusVersions[u]
    <3>1. pc = "patch" /\ u = request.uid /\ apiStatusVersions'[u] = request.cached.version
      BY <1>4, <1>5, <1>6, <2>2
    <3>2. Patch
      <4>1. CASE TakeRequest \/ Tick \/ SyncBatch \/ Check \/ Get \/ Delete \/ Forget
        BY <3>1, <4>1 DEF TakeRequest, Tick, SyncBatch, Check, Get, Delete, Forget
      <4>2. ASSUME NEW r \in batch, NextInBatch(r)
            PROVE  FALSE
        BY <3>1, <4>2 DEF NextInBatch
      <4>3. CASE CallFails \/ ReplyLost
        BY <2>2, <4>3 DEF CallFails, ReplyLost, cacheVars
      <4> QED
        BY <1>10, <4>1, <4>2, <4>3 DEF Syncs, SyncStep
    <3>3. api'[NameOf[u]].status =
            MergePodStatus(api[NameOf[u]].status, request.cached.status)
      BY <1>6, <1>7, <2>2, <3>1, <3>2, PatchShows
    <3>4. request.cached.status = podStatuses'[u].status
      BY <1>3, <1>5, <3>1
    <3>5. api[NameOf[u]].status \in Status /\ podStatuses'[u].status \in Status
      BY DEF TypeOK, Names, ApiPod, Versioned
    <3> QED
      BY <3>3, <3>4, <3>5, MergedTwice DEF Agrees
  <2> QED
    BY <2>1, <2>2
<1> QED
  BY <1>9, <1>10

LEMMA ShownHolds == Spec => []Shown
<1>1. Init => Shown
  BY DEF Init, Shown, Cached, NotCached
<1> QED
  BY <1>1, ShownKept, SyncInvariant, PTL DEF Spec

\* For any pods, channel and number of faults: what syncBatch has no reason to sync is
\* shown by the API server, whatever was dropped, failed, lost or forgotten.
THEOREM SkippedIsUpToDateHolds == Spec => []SkippedIsUpToDate
<1>1. TypeOK /\ SyncInv /\ Shown => SkippedIsUpToDate
  <2> SUFFICES ASSUME TypeOK, SyncInv, Shown, NEW u \in UIDs, Alive(u), Cached(u),
                      overwrites = 0 \/ manager[u] = PodNow(u),
                      ~NeedsUpdate(u, podStatuses[u].version),
                      ~NeedsReconcile(u, podStatuses[u].status)
               PROVE  Agrees(u)
    BY DEF SkippedIsUpToDate
  <2>1. ~Gone(u) /\ u \in known
    BY DEF SyncInv, Lives, Gone
  <2>2. CASE overwrites = 0
    <3>1. /\ podStatuses[u].version = sets[u] /\ apiStatusVersions[u] <= sets[u]
          /\ sets[u] \in Nat /\ apiStatusVersions[u] \in Nat
      BY <2>1, Constants DEF SyncInv, Counted, TypeOK
    <3>2. apiStatusVersions[u] = sets[u] /\ ~manager[u].deleting
      BY <2>1, <3>1 DEF NeedsUpdate, CanBeDeleted, PodResourcesAreReclaimed
    <3> QED
      BY <2>2, <3>2 DEF Shown
  <2>3. CASE manager[u] = PodNow(u)
    <3>1. api[NameOf[u]].status = podStatuses[u].status
      BY <2>1, <2>3 DEF NeedsReconcile, isPodStatusByKubeletEqual, PodNow
    <3>2. podStatuses[u].status \in Status
      BY DEF TypeOK, Versioned
    <3> QED
      BY <3>1, <3>2, MergedTwice DEF Agrees
  <2> QED
    BY <2>2, <2>3
<1> QED
  BY <1>1, SyncInvariant, ShownHolds, PTL

-----------------------------------------------------------------------------
(* Writes in order *)

\* The requests that have still to pass Check
Waiting == Queued \union batch \union (IF pc = "check" THEN {request} ELSE {})

\* While no call has failed, nothing that can still be written for a pod is older
\* than what was written last: either the version that was synced keeps it out, or
\* all that waits is newer, as after syncBatch has forgotten that version.
InOrder(u, at) ==
  /\ at <= sets[u]
  /\ \/ at <= apiStatusVersions[u]
     \/ \A r \in Waiting : r.uid = u => at <= r.cached.at
  /\ pc = "snapshot" => \A r \in Queued : r.uid = u => at <= r.cached.at
  /\ pc \in {"get", "patch"} /\ request.uid = u => at <= request.cached.at

Ordered ==
  faults = 0 => \A u \in UIDs :
    LET pod == api[NameOf[u]]
    IN  Alive(u) /\ ~pod.deleting /\ pod.writer # Nobody => InOrder(u, pod.writer.at)

\* Who writes the status of a pod at the API server
LEMMA WriterMoves ==
  ASSUME TypeOK, Serving, SyncInv, [Next]_vars, NEW u \in UIDs, Alive(u), Alive(u)'
  PROVE  \/ api'[NameOf[u]].writer = api[NameOf[u]].writer
         \/ api'[NameOf[u]].writer = Nobody
         \/ /\ pc = "patch" /\ u = request.uid /\ (Patch \/ ReplyLost)
            /\ ReplyLost => apiStatusVersions' = apiStatusVersions
            /\ api'[NameOf[u]].writer = [uid |-> u, at |-> request.cached.at]
<1>1. CASE Syncs
  <2>1. api[NameOf[u]] \in ApiPod
    BY DEF TypeOK, Names
  <2>2. u = request.uid => PatchedPod(api[NameOf[u]]).writer = [uid |-> u, at |-> request.cached.at]
    BY <2>1 DEF PatchedPod, ApiPod
  <2> QED
    BY <1>1, <2>2, OtherSyncs
<1>2. ASSUME NEW v \in UIDs, Clients(v)
      PROVE  \/ api'[NameOf[u]].writer = api[NameOf[u]].writer
             \/ api'[NameOf[u]].writer = Nobody
  <2>1. PICK pod \in ApiPod :
          /\ api' = [api EXCEPT ![NameOf[v]] = pod]
          /\ \/ pod.writer = Nobody
             \/ pod.writer = api[NameOf[v]].writer
             \/ pod = NoApiPod
    BY <1>2, ClientsEffect
  <2>2. NameOf[v] \in Names /\ NameOf[u] \in Names /\ NoApiPod.writer = Nobody
    BY DEF Names, NoApiPod
  <2> QED
    BY <2>1, <2>2 DEF TypeOK
<1>3. CASE Quiet \/ Orphans \/ \E v \in UIDs, status \in Status : Writes(v, status)
  BY <1>3 DEF Quiet, Orphans, RemoveOrphanedStatuses, Writes, apiVars
<1>4. ASSUME NEW v \in UIDs, Watches(v)
      PROVE  api' = api
  BY <1>4, WatchEffect DEF Watches, apiVars
<1> QED
  BY <1>1, <1>2, <1>3, <1>4, Steps

\* Steps that write nothing for u keep what waits for it in order.
LEMMA InOrderOfOthers ==
  ASSUME TypeOK, TypeOK', Serving, SyncInv, [Next]_vars, ~Syncs, NEW u \in UIDs, ~Gone(u),
         NEW at \in Nat, InOrder(u, at)
  PROVE  InOrder(u, at)'
<1>1. /\ podStatuses[u].at = sets[u] /\ sets[u] \in Nat
      /\ podStatuses[u].version = sets[u]
  BY Constants DEF SyncInv, Counted, TypeOK
<1>2. CASE Quiet \/ Orphans
  <2>1. UNCHANGED <<apiStatusVersions, podStatusChannel, pc, request, batch, sets>>
    BY <1>2 DEF Quiet, Orphans, RemoveOrphanedStatuses, cacheVars, syncVars
  <2> QED
    BY <2>1 DEF InOrder, Waiting, Queued
<1>3. ASSUME NEW v \in UIDs, Clients(v) \/ Watches(v)
      PROVE  InOrder(u, at)'
  <2>1. UNCHANGED <<apiStatusVersions, podStatusChannel, pc, request, batch, sets>>
    BY <1>3, ClientsEffect, WatchEffect DEF Watches, cacheVars, syncVars
  <2> QED
    BY <2>1 DEF InOrder, Waiting, Queued
<1>4. ASSUME NEW v \in UIDs, NEW status \in Status, Writes(v, status)
      PROVE  InOrder(u, at)'
  <2>1. /\ UNCHANGED <<apiStatusVersions, pc, request, batch>>
        /\ sets' = [sets EXCEPT ![v] = sets[v] + 1]
        /\ Queued' \subseteq Queued \union {[uid |-> v, cached |-> Entry(v, status)]}
    BY <1>4 DEF Writes, syncVars
  <2>2. at <= sets'[u] /\ sets[u] <= sets'[u]
    BY <1>1, <2>1 DEF InOrder, TypeOK
  <2>3. ASSUME NEW r \in Queued', r.uid = u
        PROVE  r \in Queued \/ at <= r.cached.at
    <3>1. CASE r \in Queued
      BY <3>1
    <3>2. CASE r = [uid |-> v, cached |-> Entry(v, status)]
      <4>1. v = u /\ r.cached.at = sets[u] + 1
        BY <2>3, <3>2 DEF Entry
      <4> QED
        BY <1>1, <4>1 DEF InOrder
    <3> QED
      BY <2>1, <3>1, <3>2
  <2> QED
    BY <2>1, <2>2, <2>3 DEF InOrder, Waiting
<1> QED
  BY <1>2, <1>3, <1>4, Steps

LEMMA InOrderOfSyncs ==
  ASSUME TypeOK, TypeOK', Serving, SyncInv, [Next]_vars, SyncStep, NEW u \in UIDs, ~Gone(u),
         ~manager[u].deleting, NEW at \in Nat, InOrder(u, at)
  PROVE  InOrder(u, at)'
<1>1. /\ podStatuses[u].at = sets[u] /\ sets[u] \in Nat
      /\ podStatuses[u].version = sets[u] /\ apiStatusVersions[u] \in Nat
  BY Constants DEF SyncInv, Counted, TypeOK
<1>2. pc \notin {"next", "snapshot"} /\ request.uid = u =>
        request.cached.version = request.cached.at /\ request.cached.at \in 1..sets[u]
  BY DEF SyncInv, AllSound, Sound
<1>3. sets' = sets
  BY SyncsFrame DEF Syncs
<1>4. ASSUME Queued' \union batch' \subseteq Queued \union batch,
             apiStatusVersions'[u] = apiStatusVersions[u], pc' = "check",
             request' \in Queued \union batch
      PROVE  InOrder(u, at)'
  <2>1. Waiting' \subseteq Waiting
    BY <1>4 DEF Waiting
  <2> QED
    BY <1>3, <1>4, <2>1 DEF InOrder
<1>5. ASSUME Queued' = Queued, batch' = batch,
             apiStatusVersions'[u] = apiStatusVersions[u], pc' \notin {"check", "snapshot"},
             pc' \in {"get", "patch"} /\ request'.uid = u => at <= request'.cached.at
      PROVE  InOrder(u, at)'
  <2>1. Waiting' \subseteq Waiting
    BY <1>5 DEF Waiting
  <2> QED
    BY <1>3, <1>5, <2>1 DEF InOrder
<1>6. CASE TakeRequest
  <2>1. /\ podStatusChannel \in Seq(SyncRequest) /\ podStatusChannel # <<>>
        /\ podStatusChannel' = Tail(podStatusChannel)
        /\ request' = Head(podStatusChannel) /\ batch' = batch /\ pc' = "check"
        /\ apiStatusVersions' = apiStatusVersions
    BY <1>6 DEF TakeRequest, TypeOK
  <2>2. /\ Len(podStatusChannel) \in Nat /\ 1 \in 1..Len(podStatusChannel)
        /\ request' = podStatusChannel[1]
        /\ Len(podStatusChannel') = Len(podStatusChannel) - 1
        /\ \A i \in 1..Len(podStatusChannel') : podStatusChannel'[i] = podStatusChannel[i + 1]
    BY <2>1
  <2>3. \A i \in 1..Len(podStatusChannel') : i + 1 \in 1..Len(podStatusChannel)
    BY <2>2
  <2>4. request' \in Queued /\ Queued' \subseteq Queued
    BY <2>2, <2>3 DEF Queued
  <2> QED
    BY <1>4, <2>1, <2>4
<1>7. CASE Tick
  <2>1. /\ podStatusChannel' = <<>> /\ batch = {} /\ batch' = batch /\ pc' = "snapshot"
        /\ apiStatusVersions' = apiStatusVersions
    BY <1>7 DEF Tick
  <2>2. Queued' = {} /\ Waiting' = {}
    BY <2>1 DEF Queued, Waiting
  <2> QED
    BY <1>3, <2>1, <2>2 DEF InOrder
<1>8. CASE SyncBatch
  <2>1. /\ pc = "snapshot" /\ pc' = "next" /\ podStatusChannel' = podStatusChannel
        /\ \A r \in batch' : \E v \in UIDs : r = [uid |-> v, cached |-> podStatuses[v]]
    BY <1>8 DEF SyncBatch
  <2>2. Waiting' = Queued \union batch'
    BY <2>1 DEF Waiting, Queued
  <2>3. ASSUME NEW r \in Waiting', r.uid = u
        PROVE  at <= r.cached.at
    <3>1. CASE r \in Queued
      BY <2>1, <2>3, <3>1 DEF InOrder
    <3>2. CASE r \in batch'
      <4>1. r.cached.at = sets[u]
        BY <1>1, <2>1, <2>3, <3>2
      <4> QED
        BY <4>1 DEF InOrder
    <3> QED
      BY <2>2, <3>1, <3>2
  <2> QED
    BY <1>3, <2>1, <2>3 DEF InOrder
<1>9. ASSUME NEW r \in batch, NextInBatch(r)
      PROVE  InOrder(u, at)'
  <2>1. /\ podStatusChannel' = podStatusChannel /\ batch' \subseteq batch
        /\ pc' = "check" /\ request' \in batch /\ apiStatusVersions' = apiStatusVersions
    BY <1>9 DEF NextInBatch, cacheVars
  <2> QED
    BY <1>4, <2>1 DEF Queued
<1>10. CASE Check
  <2>1. /\ podStatusChannel' = podStatusChannel /\ batch' = batch /\ pc = "check"
        /\ apiStatusVersions' = apiStatusVersions
        /\ \/ pc' = "next"
           \/ /\ pc' = "get" /\ request' = request
              /\ NeedsUpdate(request.uid, request.cached.version)
    BY <1>10 DEF Check, Return, Goto, cacheVars
  <2>2. CASE request.uid = u
    <3>1. NeedsUpdate(u, request.cached.version) =>
            apiStatusVersions[u] < request.cached.version
      BY DEF NeedsUpdate, CanBeDeleted
    <3>2. at <= apiStatusVersions[u] \/ at <= request.cached.at
      BY <2>1, <2>2 DEF InOrder, Waiting
    <3>3. pc' = "get" => at <= request.cached.at
      BY <1>1, <1>2, <2>1, <2>2, <3>1, <3>2
    <3> QED
      BY <1>5, <2>1, <3>3 DEF Queued
  <2>3. CASE request.uid # u
    BY <1>5, <2>1, <2>3 DEF Queued
  <2> QED
    BY <2>2, <2>3
<1>11. CASE Get \/ Delete \/ Forget
  <2>1. /\ podStatusChannel' = podStatusChannel /\ batch' = batch
        /\ apiStatusVersions' = apiStatusVersions
        /\ \/ pc' \in {"next", "forget"}
           \/ pc = "get" /\ pc' = "patch" /\ request' = request
    BY <1>11 DEF Get, Delete, Forget, Return, Goto, cacheVars
  <2> QED
    BY <1>5, <2>1 DEF InOrder, Queued
<1>12. CASE Patch
  <2>1. /\ podStatusChannel' = podStatusChannel /\ batch' = batch /\ pc = "patch"
        /\ pc' \in {"next", "delete"}
    BY <1>12, PatchEffect
  <2>2. CASE apiStatusVersions'[u] = apiStatusVersions[u]
    BY <1>5, <2>1, <2>2 DEF Queued
  <2>3. CASE apiStatusVersions'[u] # apiStatusVersions[u]
    <3>1. request.uid = u /\ apiStatusVersions'[u] = request.cached.version
      BY <2>1, <2>3, VersionMoves DEF SyncInv
    <3>2. at <= apiStatusVersions'[u]
      BY <1>2, <2>1, <3>1 DEF InOrder
    <3> QED
      BY <1>3, <2>1, <3>2 DEF InOrder
  <2> QED
    BY <2>2, <2>3
<1> QED
  BY <1>6, <1>7, <1>8, <1>9, <1>10, <1>11, <1>12 DEF SyncStep

\* Failed calls are counted.
LEMMA FaultsGrow ==
  ASSUME TypeOK, Serving, [Next]_vars, faults' = 0
  PROVE  faults = 0 /\ ~CallFails /\ ~ReplyLost
<1>1. faults \in Nat
  BY Constants DEF TypeOK
<1>2. ~CallFails /\ ~ReplyLost
  BY <1>1, ReplyLostEffect DEF CallFails
<1>3. CASE SyncStep
  <2>1. CASE TakeRequest \/ Tick \/ SyncBatch \/ Check \/ Get \/ Delete \/ Forget
    BY <1>2, <2>1 DEF TakeRequest, Tick, SyncBatch, Check, Get, Delete, Forget
  <2>2. CASE Patch
    BY <1>2, <2>2, PatchEffect
  <2>3. ASSUME NEW r \in batch, NextInBatch(r)
        PROVE  faults' = faults
    BY <2>3 DEF NextInBatch
  <2> QED
    BY <1>2, <1>3, <2>1, <2>2, <2>3 DEF SyncStep
<1>4. CASE Quiet \/ Orphans \/ \E v \in UIDs, status \in Status : Writes(v, status)
  BY <1>2, <1>4 DEF Quiet, Orphans, RemoveOrphanedStatuses, Writes
<1>5. ASSUME NEW v \in UIDs, Clients(v) \/ Watches(v)
      PROVE  faults' = faults
  BY <1>5, ClientsEffect, WatchEffect DEF Watches
<1> QED
  BY <1>2, <1>3, <1>4, <1>5, Steps DEF Syncs

LEMMA OrderedKept ==
  TypeOK /\ TypeOK' /\ Serving /\ SyncInv /\ Ordered /\ [Next]_vars => Ordered'
<1> SUFFICES ASSUME TypeOK, TypeOK', Serving, SyncInv, Ordered, [Next]_vars, faults' = 0,
                    NEW u \in UIDs, NEW pod, NEW at, pod = api'[NameOf[u]], Alive(u)',
                    ~pod.deleting, pod.writer # Nobody, at = pod.writer.at
             PROVE  InOrder(u, at)'
  BY DEF Ordered
<1>1. /\ faults = 0 /\ ~CallFails /\ ~ReplyLost
      /\ Alive(u) /\ ~api[NameOf[u]].deleting
  BY Aging, FaultsGrow
<1>2. ~Gone(u) /\ ~manager[u].deleting /\ NameOf[u] \in Names
  BY <1>1 DEF SyncInv, Lives, Gone, Names
<1>3. CASE pod.writer = api[NameOf[u]].writer
  <2>1. at \in Nat
    BY <1>2 DEF TypeOK, ApiPod, Writer
  <2>2. InOrder(u, at)
    BY <1>1, <1>3 DEF Ordered
  <2>3. CASE SyncStep
    BY <1>2, <2>1, <2>2, <2>3, InOrderOfSyncs
  <2>4. CASE ~SyncStep
    BY <1>1, <1>2, <2>1, <2>2, <2>4, InOrderOfOthers DEF Syncs
  <2> QED
    BY <2>3, <2>4
<1>4. CASE pod.writer # api[NameOf[u]].writer
  <2>1. /\ pc = "patch" /\ u = request.uid /\ Patch /\ at = request.cached.at
    <3>1. /\ pc = "patch" /\ u = request.uid /\ (Patch \/ ReplyLost)
          /\ pod.writer = [uid |-> u, at |-> request.cached.at]
      BY <1>1, <1>4, WriterMoves
    <3> QED
      BY <1>1, <3>1
  <2>2. at \in 1..sets[u] /\ request.cached.version = at
    BY <1>2, <2>1 DEF SyncInv, AllSound, Sound
  <2>3. api' # api
    BY <1>4
  <2>4. apiStatusVersions' = [apiStatusVersions EXCEPT ![got.uid] = request.cached.version]
    BY <2>1, <2>3, PatchEffect
  <2>5. apiStatusVersions'[u] = at
    BY <2>1, <2>2, <2>4 DEF SyncInv, ReadsItsPod, TypeOK
  <2>6. sets' = sets /\ sets[u] \in Nat /\ pc' \in {"next", "delete"}
    BY <2>1, PatchEffect, Constants DEF TypeOK
  <2>7. at <= sets'[u] /\ at <= apiStatusVersions'[u]
    BY <2>2, <2>5, <2>6
  <2> QED
    BY <2>6, <2>7 DEF InOrder
<1> QED
  BY <1>3, <1>4

LEMMA OrderedHolds == Spec => []Ordered
<1>1. Init => Ordered
  BY Constants DEF Init, Ordered, Alive, NoApiPod, Names
<1> QED
  BY <1>1, OrderedKept, SyncInvariant, PTL DEF Spec

\* While no call has failed and no deletion is requested, a step that writes a status
\* writes one that is no older.
LEMMA WritesFollow ==
  ASSUME TypeOK, Serving, SyncInv, SyncInv', Ordered, [Next]_vars, NEW n \in Names,
         api'[n].uid = api[n].uid, api'[n].writer.uid # NoUID, ~api[n].deleting, faults = 0
  PROVE  api'[n].writer.at >= api[n].writer.at
<1> DEFINE u == api[n].uid
<1>1. api[n] \in ApiPod /\ api[n].writer \in Writer
  BY DEF TypeOK, ApiPod
<1>2. CASE api'[n].writer = api[n].writer
  BY <1>1, <1>2 DEF Writer
<1>3. CASE api'[n].writer # api[n].writer
  <2>1. u \in UIDs /\ NameOf[u] = n
    <3>1. api'[n].uid # NoUID
      BY DEF SyncInv, Owned, Nobody
    <3> QED
      BY <1>1, <3>1 DEF SyncInv, Owned, ApiPod
  <2>2. Alive(u) /\ Alive(u)'
    BY <2>1 DEF Alive
  <2>3. /\ pc = "patch" /\ u = request.uid
        /\ api'[n].writer = [uid |-> u, at |-> request.cached.at]
    BY <1>3, <2>1, <2>2, WriterMoves DEF Nobody
  <2>4. request.cached.at \in Nat
    BY <2>1, <2>2, <2>3 DEF Gone, SyncInv, AllSound, Sound
  <2>5. CASE api[n].writer = Nobody
    BY <2>3, <2>4, <2>5 DEF Nobody
  <2>6. CASE api[n].writer # Nobody
    <3>1. InOrder(u, api[n].writer.at)
      BY <2>1, <2>2, <2>6 DEF Ordered
    <3>2. request.cached.at >= api[n].writer.at
      BY <1>1, <2>3, <2>4, <3>1 DEF InOrder, Writer
    <3> QED
      BY <2>3, <3>2
  <2> QED
    BY <2>5, <2>6
<1> QED
  BY <1>2, <1>3

\* For any pods, channel and number of calls: a status set earlier does not replace one
\* set later, until a deletion is requested or a call fails; and the kubelet deletes only
\* pods whose deletion was requested.
THEOREM WritesAreDueHolds == Spec => WritesAreDue
<1>1. TypeOK /\ Serving /\ SyncInv /\ [Next]_vars =>
        \A n \in Names : Delete /\ api'[n] # api[n] => api[n].deleting
  <2> SUFFICES ASSUME TypeOK, Serving, SyncInv, NEW n \in Names, Delete, api'[n] # api[n]
               PROVE  api[n].deleting
    OBVIOUS
  <2>1. /\ pc = "delete" /\ api[Name].uid = got.uid
        /\ api' = [api EXCEPT ![Name] = NoApiPod]
    BY DEF Delete
  <2>2. n = Name
    BY <2>1 DEF TypeOK
  <2>3. Alive(request.uid)
    BY <2>1 DEF SyncInv, ReadsItsPod, Alive, Name
  <2> QED
    BY <2>1, <2>2, <2>3 DEF SyncInv, Turn
<1>2. TypeOK /\ Serving /\ SyncInv /\ SyncInv' /\ Ordered /\ [Next]_vars =>
        \A n \in Names :
          /\ api'[n].uid = api[n].uid /\ api'[n].writer.uid # NoUID
          /\ ~api[n].deleting /\ faults = 0
          => api'[n].writer.at >= api[n].writer.at
  BY WritesFollow
<1>3. Spec => DeletesOnRequest
  BY <1>1, SyncInvariant, PTL DEF Spec, DeletesOnRequest
<1>4. Spec => WritesInOrder
  BY <1>2, SyncInvariant, OrderedHolds, PTL DEF Spec, WritesInOrder
<1> QED
  BY <1>3, <1>4 DEF WritesAreDue

=============================================================================
