------------------------- MODULE ApiPodStatusProofs -------------------------
(***************************************************************************)
(* Proofs about ApiPodStatus: type correctness, that what a status claims  *)
(* is earned, that a second report is not refused for the first, and that  *)
(* an end shown of a pod with the policy Never is final.                   *)
(***************************************************************************)
EXTENDS ApiPodStatus, PodCallbacksProofs

-----------------------------------------------------------------------------
(* The steps, seen from PodCallbacks *)

LEMMA RestartIsInit == Crash => Init'
BY DEF Crash, Restart, Init

LEMMA CallbackIsNext == Callback => Next /\ UNCHANGED apiVars
BY DEF Callback, Next, Worker

LEMMA ReportIsNext == Report => Next
BY DEF Report, Next, Worker

LEMMA OthersStutter ==
  Patch \/ PodUpdated \/ FailPod \/ UNCHANGED allVars => UNCHANGED vars
BY DEF Patch, PodUpdated, FailPod, allVars

\* The types and the invariant of PodCallbacks hold here as well: a restart begins it
\* anew.
LEMMA TypeHolds == ApiSpec => []TypeOK
<1>1. ApiInit => TypeOK
  BY InitTypeOK DEF ApiInit
<1>2. TypeOK /\ [ApiNext]_allVars => TypeOK'
  <2> SUFFICES ASSUME TypeOK, [ApiNext]_allVars
               PROVE  TypeOK'
    OBVIOUS
  <2>1. CASE Crash
    <3>1. Init' => TypeOK'
      BY InitTypeOK, PTL
    <3> QED
      BY <2>1, <3>1, RestartIsInit
  <2>2. CASE ~Crash
    BY <2>2, TypeStep, CallbackIsNext, ReportIsNext, OthersStutter DEF ApiNext
  <2> QED
    BY <2>1, <2>2
<1> QED
  BY <1>1, <1>2, PTL DEF ApiSpec

LEMMA CallbacksInvHolds == ApiSpec => []CallbacksInv
<1>1. ApiInit => CallbacksInv
  BY InitCallbacksInv DEF ApiInit
<1>2. TypeOK /\ CallbacksInv /\ [ApiNext]_allVars => CallbacksInv'
  <2> SUFFICES ASSUME TypeOK, CallbacksInv, [ApiNext]_allVars
               PROVE  CallbacksInv'
    OBVIOUS
  <2>1. CASE Crash
    <3>1. Init' => CallbacksInv'
      BY InitCallbacksInv, PTL
    <3> QED
      BY <2>1, <3>1, RestartIsInit
  <2>2. CASE ~Crash
    BY <2>2, CallbacksStep, CallbackIsNext, ReportIsNext, OthersStutter DEF ApiNext
  <2> QED
    BY <2>1, <2>2
<1> QED
  BY <1>1, <1>2, TypeHolds, PTL DEF ApiSpec

-----------------------------------------------------------------------------
(* What the operators make *)

LEMMA Statuses ==
  /\ Absent \in ApiContainerStatus /\ Waiting \in ApiContainerStatus
  /\ Absent.state = "absent" /\ Waiting.state = "waiting"
  /\ Absent.last = NoCode /\ Waiting.last = NoCode
BY DEF Absent, Waiting, ApiContainerStatus, Codes, NoCode

\* The API status of a container that nothing has ever been recorded of.
Unstarted(s) == s.state \in {"absent", "waiting"} /\ s.last = NoCode

LEMMA MissingFact ==
  ASSUME NEW old \in ApiContainerStatus
  PROVE  /\ Missing(old) \in ApiContainerStatus
         /\ old.state = "terminated" => Missing(old) = old
         /\ old.state # "terminated" => Missing(old).state = "waiting"
         /\ Unstarted(old) => Unstarted(Missing(old))
<1>1. CASE old.state = "terminated"
  BY <1>1, Statuses DEF Missing, Unstarted
<1>2. CASE old.state = "running" /\ old.last = NoCode
  BY <1>2, Statuses DEF Missing, Waiting, Absent, ApiContainerStatus, Codes, Unstarted
<1>3. CASE ~(old.state = "terminated") /\ ~(old.state = "running" /\ old.last = NoCode)
  <2>1. Missing(old) = [Waiting EXCEPT !.last = old.last]
    BY <1>3 DEF Missing
  <2>2. [Waiting EXCEPT !.last = old.last] \in ApiContainerStatus
    BY DEF Waiting, Absent, ApiContainerStatus, Codes
  <2>3. [Waiting EXCEPT !.last = old.last].last = old.last
    BY DEF Waiting, Absent
  <2>4. [Waiting EXCEPT !.last = old.last].state = "waiting"
    BY DEF Waiting, Absent
  <2> QED
    BY <1>3, <2>1, <2>2, <2>3, <2>4, Statuses DEF Unstarted
<1> QED
  BY <1>1, <1>2, <1>3

LEMMA ConvertedFact ==
  ASSUME NEW r \in ContainerStatus
  PROVE  /\ Converted(r) \in ApiContainerStatus
         /\ r.state = "running" => Converted(r).state = "running"
         /\ r.state # "running" => /\ Converted(r).state = "terminated"
                                   /\ Converted(r).code = IF r.ok THEN 0 ELSE 1
BY DEF Converted, Absent, ApiContainerStatus, Codes, NoCode, ContainerStatus

LEMMA RecordFact ==
  ASSUME TypeOK, place = "making", NEW c
  PROVE  Record(c) \in ContainerStatus
<1>1. AbsentStatus \in ContainerStatus
  BY Builds
<1>2. reading \in Objects
  BY DEF TypeOK
<1> QED
  BY <1>1, <1>2 DEF Record, TypeOK, PodStatus

LEMMA OldFact ==
  ASSUME ApiTypeOK
  PROVE  Old \in Status
BY DEF Old, Reported, ApiTypeOK

LEMMA ApiStatusFact ==
  ASSUME TypeOK, place = "making", NEW c, NEW old \in ApiContainerStatus
  PROVE  /\ ApiStatus(c, old) \in ApiContainerStatus
         /\ ApiStatus(c, old) = IF Record(c).state = "absent" THEN Missing(old)
                                ELSE Converted(Record(c))
BY RecordFact, MissingFact, ConvertedFact DEF ApiStatus

LEMMA GetPhaseType ==
  ASSUME NEW s
  PROVE  GetPhase(s) \in {"Pending", "Running", "Succeeded", "Failed"}
BY DEF GetPhase

\* What a worker makes, container by container and as a whole.
LEMMA NewFact ==
  ASSUME TypeOK, ApiTypeOK, place = "making"
  PROVE  /\ GenerateAPIPodStatus \in Status
         /\ \A c \in All : GenerateAPIPodStatus.containers[c] =
              IF c \in Containers \union inits THEN ApiStatus(c, Old.containers[c])
              ELSE Absent
         /\ GenerateAPIPodStatus.phase =
              Phase(GetPhase(GenerateAPIPodStatus.containers), Old.phase)
<1> DEFINE s == [c \in All |-> IF c \in Containers \union inits
                               THEN ApiStatus(c, Old.containers[c]) ELSE Absent]
<1>1. GenerateAPIPodStatus = [phase |-> Phase(GetPhase(s), Old.phase), containers |-> s]
  BY DEF GenerateAPIPodStatus
<1>2. s \in [All -> ApiContainerStatus]
  <2>1. ASSUME NEW c \in All
        PROVE  Old.containers[c] \in ApiContainerStatus
    BY OldFact DEF Status
  <2>2. ASSUME NEW c \in All
        PROVE  ApiStatus(c, Old.containers[c]) \in ApiContainerStatus
    BY <2>1, ApiStatusFact
  <2> QED
    BY <2>2, Statuses
<1>3. ASSUME NEW p \in {"Pending", "Running", "Succeeded", "Failed"}
      PROVE  Phase(p, Old.phase) \in {"Pending", "Running", "Succeeded", "Failed"}
  BY <1>3, OldFact DEF Phase, Status, ApiTypeOK
<1>4. Phase(GetPhase(s), Old.phase) \in {"Pending", "Running", "Succeeded", "Failed"}
  <2> HIDE DEF s
  <2> QED
    BY <1>3, GetPhaseType
<1>5. \A c \in All : s[c] = IF c \in Containers \union inits
                            THEN ApiStatus(c, Old.containers[c]) ELSE Absent
  OBVIOUS
<1> HIDE DEF s
<1> QED
  BY <1>1, <1>2, <1>4, <1>5 DEF Status

\* A report either is refused, or leaves what the worker has made.
LEMMA ReportFact ==
  ASSUME TypeOK, ApiTypeOK, Report
  PROVE  /\ place = "making" /\ place' = "get"
         /\ UNCHANGED <<objects, missed, main, pc, succeeded>>
         /\ UNCHANGED <<policy, inits, seen, shown, failed, crashes>>
         /\ \/ status' = status
            \/ /\ status' = GenerateAPIPodStatus
               /\ ~Refused(GenerateAPIPodStatus)
BY DEF Report, Sync, PlaceAfterSync, goVars, specVars

LEMMA NoStatusFact == NoStatus.phase = "none" /\ NoStatus \notin Status
<1>1. NoStatus.phase = "none"
  BY DEF NoStatus, Created
<1>2. \A x \in Status : x.phase # "none"
  BY DEF Status
<1> QED
  BY <1>1, <1>2

LEMMA CreatedFact == Created \in Status
BY Statuses DEF Created, Status

\* A merged status has the reported one's containers, and its phase unless that was
\* terminal and the old one was not.
LEMMA MergeFact ==
  ASSUME NEW old \in Status, NEW new \in Status
  PROVE  /\ MergePodStatus(old, new) \in Status
         /\ MergePodStatus(old, new).containers = new.containers
         /\ MergePodStatus(old, new).phase =
              IF ~Terminal(old.phase) /\ Terminal(new.phase) THEN old.phase ELSE new.phase
BY DEF MergePodStatus, Status

-----------------------------------------------------------------------------
(* Type correctness *)

\* The reports, the status manager's cache and the pod's status at the API server stay
\* in their domains: nothing that is not a status is patched.
THEOREM ApiTypeCorrect == ApiSpec => []ApiTypeOK
<1>1. ApiInit => ApiTypeOK
  <2> SUFFICES ASSUME ApiInit
               PROVE  ApiTypeOK
    OBVIOUS
  <2>1. inits \subseteq InitContainers
    BY DEF ApiInit
  <2>2. crashes \in 0..MaxCrashes
    BY ApiPodStatusAssumption DEF ApiInit
  <2>3. seen \in Status /\ shown \in Status /\ status = NoStatus /\ failed \in BOOLEAN
    BY CreatedFact DEF ApiInit
  <2>4. policy \in {"Always", "OnFailure", "Never"}
    BY DEF ApiInit
  <2> QED
    BY <2>1, <2>2, <2>3, <2>4 DEF ApiTypeOK
<1>2. TypeOK /\ ApiTypeOK /\ [ApiNext]_allVars => ApiTypeOK'
  <2> SUFFICES ASSUME TypeOK, ApiTypeOK, [ApiNext]_allVars
               PROVE  ApiTypeOK'
    OBVIOUS
  <2>1. CASE Callback \/ UNCHANGED allVars
    BY <2>1 DEF Callback, apiVars, allVars, specVars, ApiTypeOK
  <2>2. CASE Report
    <3>1. status' \in Status \union {NoStatus}
      BY <2>2, ReportFact, NewFact DEF ApiTypeOK
    <3> QED
      BY <2>2, <3>1, ReportFact DEF ApiTypeOK
  <2>3. CASE Patch
    <3>1. status \in Status /\ shown \in Status
      BY <2>3 DEF Patch, Reported, ApiTypeOK
    <3>2. shown' \in Status
      BY <2>3, <3>1, MergeFact DEF Patch
    <3> QED
      BY <2>3, <3>2 DEF Patch, specVars, ApiTypeOK
  <2>4. CASE PodUpdated
    BY <2>4 DEF PodUpdated, specVars, ApiTypeOK
  <2>5. CASE FailPod
    BY <2>5 DEF FailPod, specVars, ApiTypeOK, Status
  <2>6. CASE Crash
    BY <2>6, ApiPodStatusAssumption DEF Crash, specVars, ApiTypeOK
  <2> QED
    BY <2>1, <2>2, <2>3, <2>4, <2>5, <2>6 DEF ApiNext
<1> QED
  BY <1>1, <1>2, TypeHolds, PTL DEF ApiSpec

-----------------------------------------------------------------------------
(* EndIsFinal *)

\* The status manager's status keeps the ends that the API server shows, and so does
\* the pod object until the first report of a life of the kubelet.
EndsAreKept ==
  policy = "Never" =>
    IF Reported
    THEN \A c \in All : shown.containers[c].state = "terminated"
                          => status.containers[c].state = "terminated"
    ELSE seen.containers = shown.containers

LEMMA EndsStep == TypeOK /\ ApiTypeOK /\ EndsAreKept /\ [ApiNext]_allVars => EndsAreKept'
<1> SUFFICES ASSUME TypeOK, ApiTypeOK, EndsAreKept, [ApiNext]_allVars
             PROVE  EndsAreKept'
  OBVIOUS
<1>1. CASE Callback \/ UNCHANGED allVars
  BY <1>1 DEF Callback, allVars, apiVars, specVars, EndsAreKept, Reported
<1>2. CASE Report
  <2>1. CASE status' = status
    BY <1>2, <2>1, ReportFact DEF EndsAreKept, Reported
  <2>2. CASE status' = GenerateAPIPodStatus /\ ~Refused(GenerateAPIPodStatus)
    <3> SUFFICES ASSUME policy = "Never"
                 PROVE  \A c \in All : shown.containers[c].state = "terminated"
                          => GenerateAPIPodStatus.containers[c].state = "terminated"
      <4>1. Reported'
        BY <1>2, <2>2, ReportFact, NewFact, NoStatusFact DEF Reported
      <4> QED
        BY <1>2, <2>2, <4>1, ReportFact DEF EndsAreKept
    <3>1. \A c \in All : Old.containers[c].state = "terminated"
            => GenerateAPIPodStatus.containers[c].state = "terminated"
      BY <2>2 DEF Refused, IllegalTransition
    <3>2. \A c \in All : shown.containers[c].state = "terminated"
            => Old.containers[c].state = "terminated"
      BY DEF EndsAreKept, Old
    <3> QED
      BY <3>1, <3>2
  <2> QED
    BY <1>2, <2>1, <2>2, ReportFact
<1>3. CASE Patch
  <2>1. /\ Reported /\ status \in Status /\ shown \in Status
        /\ shown' = MergePodStatus(shown, status)
        /\ UNCHANGED <<policy, status>>
    BY <1>3 DEF Patch, Reported, ApiTypeOK, specVars
  <2>2. shown'.containers = status.containers
    BY <2>1, MergeFact
  <2> QED
    BY <2>1, <2>2 DEF EndsAreKept, Reported
<1>4. CASE PodUpdated
  BY <1>4 DEF PodUpdated, specVars, EndsAreKept, Reported
<1>5. CASE FailPod
  <2>1. shown'.containers = shown.containers
    BY <1>5 DEF FailPod, ApiTypeOK, Status
  <2> QED
    BY <1>5, <2>1 DEF FailPod, specVars, EndsAreKept, Reported
<1>6. CASE Crash
  BY <1>6 DEF Crash, specVars, EndsAreKept, Reported
<1> QED
  BY <1>1, <1>2, <1>3, <1>4, <1>5, <1>6 DEF ApiNext

LEMMA EndsInvariant == ApiSpec => []EndsAreKept
<1>1. ApiInit => EndsAreKept
  BY DEF ApiInit, EndsAreKept, Reported
<1> QED
  BY <1>1, EndsStep, TypeHolds, ApiTypeCorrect, PTL DEF ApiSpec

\* For any number of restarts of the kubelet, each of which records every container as
\* running anew: no patch takes back the end of a container that the API server shows of
\* a pod with the policy Never.
THEOREM EndIsFinalHolds == ApiSpec => EndIsFinal
<1> DEFINE Kept == policy = "Never" =>
             \A c \in All : shown.containers[c].state = "terminated"
                              => shown'.containers[c].state = "terminated"
<1>1. ApiTypeOK /\ EndsAreKept /\ [ApiNext]_allVars => [Kept]_allVars
  <2> SUFFICES ASSUME ApiTypeOK, EndsAreKept, ApiNext
               PROVE  Kept
    OBVIOUS
  <2>1. CASE Patch
    <3>1. Reported /\ shown'.containers = status.containers
      BY <2>1, MergeFact DEF Patch, Reported, ApiTypeOK
    <3> QED
      BY <3>1 DEF EndsAreKept
  <2>2. CASE FailPod
    BY <2>2 DEF FailPod, ApiTypeOK, Status
  <2>3. CASE ~Patch /\ ~FailPod
    <3>1. shown' = shown
      BY <2>3 DEF ApiNext, Callback, apiVars, Report, PodUpdated, Crash
    <3> QED
      BY <3>1
  <2> QED
    BY <2>1, <2>2, <2>3
<1> QED
  BY <1>1, ApiTypeCorrect, EndsInvariant, PTL DEF ApiSpec, EndIsFinal

-----------------------------------------------------------------------------
(* What a status claims *)

\* Nothing is ever recorded of an init container, and the API server's phase is
\* terminal only if another client made it so.
InitOnes ==
  \A st \in {seen, status, shown} :
    /\ \A c \in InitContainers : Unstarted(st.containers[c])
    /\ st.phase = "Succeeded" => inits = {}
Phases == Terminal(seen.phase) \/ Terminal(shown.phase) => failed

\* What the first report showed as ended has ended in the object.
FirstReport ==
  /\ Reported => place # "insert"
  /\ ~completed /\ ~missed /\ Reported =>
       \A c \in Containers : status.containers[c].state = "terminated"
                               => objects["inserted"][c].state = "exited"

ClaimsInv == InitOnes /\ Phases /\ FirstReport /\ StatusIsEarned

\* What the callbacks and the worker never undo within a life of the kubelet.
LEMMA CallbackFact ==
  ASSUME TypeOK, Callback
  PROVE  /\ UNCHANGED apiVars
         /\ completed => completed'
         /\ missed => missed'
         /\ \A c \in Containers : pc[c] # "running" =>
              pc'[c] # "running" /\ succeeded'[c] = succeeded[c]
         /\ place # "insert" =>
              /\ place' # "insert"
              /\ \A c \in Containers : objects["inserted"][c].state = "exited"
                   => objects'["inserted"][c].state = "exited"
<1> USE Names
<1>0. UNCHANGED apiVars
  BY DEF Callback
<1>1. ASSUME NEW k \in Containers, NEW ok \in BOOLEAN, CommandEnds(k, ok)
      PROVE  /\ pc[k] = "running"
             /\ \A c \in Containers : c # k => pc'[c] = pc[c] /\ succeeded'[c] = succeeded[c]
             /\ UNCHANGED <<objects, missed, main, place>>
  BY <1>1 DEF CommandEnds, TypeOK, cacheVars, workerVars
<1>2. ASSUME NEW k \in Containers, GetStatus(k)
      PROVE  /\ \A c \in Containers : pc[c] # "running" => pc'[c] # "running"
             /\ missed => missed'
             /\ UNCHANGED <<objects, main, place, succeeded>>
  BY <1>2, GetStatusEffect DEF GetStatus, TypeOK, workerVars
<1>3. ASSUME NEW k \in Containers, NEW field \in {"state", "ok"}, Assign(k, field)
      PROVE  /\ \A c \in Containers : objects["inserted"][c].state = "exited"
                  => objects'["inserted"][c].state = "exited"
             /\ UNCHANGED <<pc, missed, main, place, succeeded>>
  BY <1>3, AssignFields DEF Assign, workerVars
<1>4. ASSUME NEW k \in Containers, StampExit(k)
      PROVE  /\ \A c \in Containers : pc[c] # "running" => pc'[c] # "running"
             /\ UNCHANGED <<objects, missed, main, place, succeeded>>
  BY <1>4 DEF StampExit, ReadClock, TypeOK, workerVars, cacheVars
<1>5. ASSUME NEW k \in Containers, SetStatus(k)
      PROVE  /\ \A c \in Containers : pc[c] # "running" => pc'[c] # "running"
             /\ place # "insert" => place' # "insert"
             /\ UNCHANGED <<objects, missed, main, succeeded>>
  BY <1>5 DEF SetStatus, CacheSet, TypeOK
<1>6. ASSUME StampCompleted
      PROVE  completed' = completed /\ UNCHANGED <<objects, missed, place, pc, succeeded>>
  BY <1>6 DEF StampCompleted, ReadClock, completed, cacheVars, workerVars, goVars
<1>7. ASSUME SetCompleted
      PROVE  /\ completed' /\ UNCHANGED <<missed, pc, succeeded>>
             /\ objects'["inserted"] = objects["inserted"]
             /\ place # "insert" => place' # "insert"
  BY <1>7 DEF SetCompleted, CacheSet, completed, goVars, TypeOK
<1>8. ASSUME Insert \/ InsertFails \/ GetNewerThan
      PROVE  /\ UNCHANGED <<missed, main, pc, succeeded>>
             /\ place' # "insert"
             /\ place # "insert" => objects' = objects
  BY <1>8 DEF Insert, InsertFails, GetNewerThan, goVars, cacheVars
<1>9. CASE \E k \in Containers : \E ok \in BOOLEAN : CommandEnds(k, ok)
  BY <1>0, <1>1, <1>9 DEF completed
<1>10. CASE \E k \in Containers : Exiting(k)
  <2> SUFFICES ASSUME NEW k \in Containers, Exiting(k)
               PROVE  /\ UNCHANGED apiVars
                      /\ completed => completed'
                      /\ missed => missed'
                      /\ \A c \in Containers : pc[c] # "running" =>
                           pc'[c] # "running" /\ succeeded'[c] = succeeded[c]
                      /\ place # "insert" =>
                           /\ place' # "insert"
                           /\ \A c \in Containers : objects["inserted"][c].state = "exited"
                                => objects'["inserted"][c].state = "exited"
    BY <1>10
  <2>1. CASE GetStatus(k)
    BY <1>0, <1>2, <2>1 DEF completed
  <2>2. CASE StampExit(k)
    BY <1>0, <1>4, <2>2 DEF completed
  <2>3. CASE SetStatus(k)
    BY <1>0, <1>5, <2>3 DEF completed
  <2>4. CASE \E field \in {"state", "ok"} : Assign(k, field)
    BY <1>0, <1>3, <2>4 DEF completed
  <2> QED
    BY <2>1, <2>2, <2>3, <2>4 DEF Exiting
<1> QED
  BY <1>0, <1>6, <1>7, <1>8, <1>9, <1>10 DEF Callback, completed

\* What a worker makes of the records of an entry that was not overwritten with an
\* empty one.
LEMMA NewContainers ==
  ASSUME TypeOK, ApiTypeOK, CallbacksInv, ClaimsInv, place = "making"
  PROVE  LET new == GenerateAPIPodStatus.containers
         IN  /\ \A c \in InitContainers : Unstarted(new[c])
             /\ \A c \in inits : NotStarted(new[c])
             /\ ~missed => \A c \in Containers :
                  /\ objects[reading][c].state = "running" => new[c].state = "running"
                  /\ objects[reading][c].state # "running" =>
                       /\ objects[reading][c].state = "exited"
                       /\ new[c].state = "terminated"
                       /\ new[c].code = IF objects[reading][c].ok THEN 0 ELSE 1
<1> DEFINE new == GenerateAPIPodStatus.containers
<1> USE Names
<1>1. \A c \in All : new[c] = IF c \in Containers \union inits
                              THEN ApiStatus(c, Old.containers[c]) ELSE Absent
  BY NewFact
<1>2. \A c \in All : Old.containers[c] \in ApiContainerStatus
  BY OldFact DEF Status
<1>3. ASSUME NEW c \in InitContainers
      PROVE  /\ Unstarted(new[c])
             /\ c \in inits => NotStarted(new[c])
  <2>1. c \in All /\ c \notin Containers
    BY ApiPodStatusAssumption DEF All
  <2>2. Record(c).state = "absent"
    BY <2>1 DEF Record, AbsentStatus
  <2>3. Unstarted(Old.containers[c])
    BY DEF ClaimsInv, InitOnes, Old
  <2>4. ApiStatus(c, Old.containers[c]) = Missing(Old.containers[c])
    BY <2>2 DEF ApiStatus
  <2>5. /\ Unstarted(Missing(Old.containers[c]))
        /\ Missing(Old.containers[c]).state = "waiting"
    BY <2>1, <2>3, <1>2, MissingFact DEF Unstarted
  <2>6. Unstarted(Absent)
    BY Statuses DEF Unstarted
  <2>7. CASE c \in inits
    BY <2>1, <2>4, <2>5, <2>7, <1>1 DEF Unstarted, NotStarted
  <2>8. CASE c \notin inits
    BY <2>1, <2>6, <2>8, <1>1
  <2> QED
    BY <2>7, <2>8
<1>4. ASSUME ~missed, NEW c \in Containers
      PROVE  /\ objects[reading][c].state = "running" => new[c].state = "running"
             /\ objects[reading][c].state # "running" =>
                  /\ objects[reading][c].state = "exited"
                  /\ new[c].state = "terminated"
                  /\ new[c].code = IF objects[reading][c].ok THEN 0 ELSE 1
  <2>1. reading \in Objects /\ objects[reading][c].state # "absent"
    BY <1>4 DEF CallbacksInv, Woken, Made
  <2>2. objects[reading][c] \in ContainerStatus /\ Record(c) = objects[reading][c]
    BY <2>1 DEF TypeOK, PodStatus, Record
  <2>3. new[c] = Converted(objects[reading][c])
    BY <2>1, <2>2, <1>1 DEF All, ApiStatus
  <2>4. objects[reading][c].state \in {"absent", "running", "exited"}
    BY <2>2 DEF ContainerStatus
  <2> QED
    BY <2>1, <2>2, <2>3, <2>4, ConvertedFact
<1>5. inits \subseteq InitContainers
  BY DEF ApiTypeOK
<1> QED
  BY <1>3, <1>4, <1>5

\* The phase that getPhase finds for it.
LEMMA NewPhase ==
  ASSUME TypeOK, ApiTypeOK, CallbacksInv, ClaimsInv, place = "making"
  PROVE  LET phase == GetPhase(GenerateAPIPodStatus.containers)
         IN  /\ phase = "Succeeded" => inits = {}
             /\ ~missed /\ phase = "Succeeded"
                  => completed \/ \A c \in Containers : pc[c] # "running"
             /\ ~missed /\ phase = "Failed"
                  => \E c \in Containers : pc[c] # "running" /\ ~succeeded[c]
             /\ inits = {} /\ (\A c \in Containers :
                                 Runs(GenerateAPIPodStatus.containers[c]))
                  => phase = "Running"
<1> PICK new : new = GenerateAPIPodStatus.containers
  OBVIOUS
<1> USE Names
<1>1. /\ \A c \in inits : NotStarted(new[c])
      /\ ~missed => \A c \in Containers :
           /\ objects[reading][c].state = "running" => new[c].state = "running"
           /\ objects[reading][c].state # "running" =>
                /\ objects[reading][c].state = "exited"
                /\ new[c].state = "terminated"
                /\ new[c].code = IF objects[reading][c].ok THEN 0 ELSE 1
  BY NewContainers
<1>2. \A c \in inits : ~EndedBadly(new[c])
  BY <1>1 DEF NotStarted, EndedBadly
<1>3. GetPhase(new) \in {"Succeeded", "Failed"} => inits = {}
  BY <1>1, <1>2 DEF GetPhase
<1>4. GetPhase(new) = "Succeeded" => \A c \in Containers : EndedWell(new[c])
  BY DEF GetPhase
<1>5. GetPhase(new) = "Failed" =>
        /\ \A c \in Containers : ~Runs(new[c])
        /\ \E c \in Containers : ~EndedWell(new[c])
  BY <1>2 DEF GetPhase
<1>6. ASSUME ~missed, GetPhase(new) = "Succeeded", ~completed, NEW c \in Containers
      PROVE  pc[c] # "running"
  <2>1. objects[reading][c].state = "exited"
    BY <1>1, <1>4, <1>6 DEF EndedWell
  <2>2. reading = "inserted"
    BY <1>6 DEF CallbacksInv, Woken, Made
  <2> QED
    BY <2>1, <2>2, <1>6 DEF CallbacksInv, RealOnes, Real
<1>7. ASSUME ~missed, GetPhase(new) = "Failed"
      PROVE  \E c \in Containers : pc[c] # "running" /\ ~succeeded[c]
  <2>1. PICK c \in Containers : ~EndedWell(new[c]) /\ ~Runs(new[c])
    BY <1>5, <1>7
  <2>2. ~objects[reading][c].ok
    BY <2>1, <1>1, <1>7 DEF EndedWell, Runs
  <2>3. reading \in Objects
    BY DEF TypeOK
  <2> QED
    BY <2>2, <2>3 DEF CallbacksInv, FailuresAreReal
<1>8. ASSUME inits = {}, \A c \in Containers : Runs(new[c])
      PROVE  GetPhase(new) = "Running"
  <2>1. \A c \in Containers : ~NotStarted(new[c])
    BY <1>8 DEF Runs, NotStarted
  <2>2. \E c \in Containers : Runs(new[c])
    BY <1>8, ApiPodStatusAssumption
  <2> QED
    BY <2>1, <2>2, <1>8 DEF GetPhase
<1> QED
  BY <1>3, <1>6, <1>7, <1>8

LEMMA ReportClaims ==
  ASSUME TypeOK, ApiTypeOK, CallbacksInv, ClaimsInv, Report,
         status' = GenerateAPIPodStatus
  PROVE  ClaimsInv'
<1> PICK new : new = GenerateAPIPodStatus
  OBVIOUS
<1> PICK made : made = GetPhase(new.containers)
  OBVIOUS
<1>1. /\ place = "making" /\ place' = "get" /\ status' = new
      /\ UNCHANGED <<objects, missed, main, pc, succeeded>>
      /\ UNCHANGED <<policy, inits, seen, shown, failed>>
  BY ReportFact
<1>2. /\ made = "Succeeded" => inits = {}
      /\ ~missed /\ made = "Succeeded"
           => completed \/ \A c \in Containers : pc[c] # "running"
      /\ ~missed /\ made = "Failed"
           => \E c \in Containers : pc[c] # "running" /\ ~succeeded[c]
      /\ inits = {} /\ (\A c \in Containers : Runs(new.containers[c])) => made = "Running"
  BY <1>1, NewPhase
<1>3. /\ \A c \in InitContainers : Unstarted(new.containers[c])
      /\ ~missed => \A c \in Containers : new.containers[c].state = "terminated"
                                            => objects[reading][c].state = "exited"
  BY <1>1, NewContainers
<1>4. new.phase = Phase(made, Old.phase)
  BY <1>1, NewFact
<1>5. Old.phase = IF Reported THEN status.phase ELSE seen.phase
  BY DEF Old
<1>6. /\ Terminal(new.phase) => new.phase \in {made, status.phase, seen.phase}
      /\ ~Terminal(new.phase) => new.phase = made
  BY <1>4, <1>5 DEF Phase
<1>7. new.phase = "Succeeded" => inits = {}
  BY <1>2, <1>6 DEF ClaimsInv, InitOnes, Terminal
<1>8. InitOnes'
  BY <1>1, <1>3, <1>7 DEF ClaimsInv, InitOnes
<1>9. Phases'
  BY <1>1 DEF ClaimsInv, Phases
<1>10. FirstReport'
  <2>1. ~completed /\ ~missed => reading = "inserted"
    BY <1>1 DEF CallbacksInv, Woken, Made
  <2> QED
    BY <2>1, <1>1, <1>3 DEF FirstReport, completed
<1>11. PhaseIsEarned'
  <2> SUFFICES ASSUME ~failed, ~missed
               PROVE  /\ new.phase = "Succeeded" =>
                           completed \/ \A c \in Containers : pc[c] # "running"
                      /\ new.phase = "Failed" =>
                           \E c \in Containers : pc[c] # "running" /\ ~succeeded[c]
    BY <1>1 DEF PhaseIsEarned, completed
  <2>1. ~Terminal(seen.phase)
    BY DEF ClaimsInv, Phases
  <2>2. Terminal(new.phase) => new.phase \in {made, status.phase}
    BY <2>1, <1>6
  <2> QED
    BY <2>2, <1>2 DEF ClaimsInv, StatusIsEarned, PhaseIsEarned, Terminal
<1>12. ConditionsAreEarned'
  <2>1. Initialized(new) => inits = {}
    <3>1. \A c \in inits : c \in InitContainers /\ ~EndedWell(new.containers[c])
      BY <1>3 DEF ApiTypeOK, Unstarted, EndedWell
    <3> QED
      BY <3>1, <1>7 DEF Initialized, Ready
  <2>2. inits = {} /\ ContainersReady(new) => new.phase = "Running"
    <3> SUFFICES ASSUME inits = {}, ContainersReady(new)
                 PROVE  new.phase = "Running"
      OBVIOUS
    <3>1. \A c \in Containers : Runs(new.containers[c])
      BY ApiPodStatusAssumption DEF ContainersReady, Ready
    <3> QED
      BY <3>1, <1>2, <1>6 DEF ContainersReady
  <2>3. Initialized(new)' <=> Initialized(new)
    BY <1>1 DEF Initialized, Ready
  <2>4. ContainersReady(new)' <=> ContainersReady(new)
    BY <1>1 DEF ContainersReady, Ready
  <2> QED
    BY <2>1, <2>2, <2>3, <2>4, <1>1 DEF ConditionsAreEarned
<1> QED
  BY <1>8, <1>9, <1>10, <1>11, <1>12 DEF ClaimsInv, StatusIsEarned

\* A step that leaves the statuses alone leaves what they claim earned.
LEMMA SameStatusClaims ==
  ASSUME ClaimsInv,
         UNCHANGED <<policy, inits, seen, status, shown, failed>>,
         completed => completed', missed => missed',
         \A c \in Containers : pc[c] # "running" =>
           pc'[c] # "running" /\ succeeded'[c] = succeeded[c],
         place # "insert" =>
           /\ place' # "insert"
           /\ \A c \in Containers : objects["inserted"][c].state = "exited"
                => objects'["inserted"][c].state = "exited"
  PROVE  ClaimsInv'
<1>1. InitOnes' /\ Phases'
  BY DEF ClaimsInv, InitOnes, Phases
<1>2. FirstReport'
  BY DEF ClaimsInv, FirstReport, Reported
<1>3. PhaseIsEarned'
  BY DEF ClaimsInv, StatusIsEarned, PhaseIsEarned
<1>4. ConditionsAreEarned'
  BY DEF ClaimsInv, StatusIsEarned, ConditionsAreEarned, Reported, Initialized, Ready,
         ContainersReady
<1> QED
  BY <1>1, <1>2, <1>3, <1>4 DEF ClaimsInv, StatusIsEarned

LEMMA InitClaims == ApiInit => ClaimsInv
<1> SUFFICES ASSUME ApiInit
             PROVE  ClaimsInv
  OBVIOUS
<1>1. /\ seen = Created /\ shown = Created /\ status = NoStatus
      /\ Created.phase = "Pending" /\ NoStatus.phase = "none"
      /\ \A c \in All : Created.containers[c] = Absent /\ NoStatus.containers[c] = Absent
  BY DEF ApiInit, Created, NoStatus
<1>2. ~Reported
  BY <1>1 DEF Reported
<1>3. InitOnes
  BY <1>1, Statuses DEF InitOnes, All, Unstarted
<1>4. Phases
  BY <1>1 DEF Phases, Terminal
<1> QED
  BY <1>1, <1>2, <1>3, <1>4
     DEF ClaimsInv, FirstReport, StatusIsEarned, PhaseIsEarned, ConditionsAreEarned

LEMMA ClaimsStep ==
  TypeOK /\ ApiTypeOK /\ CallbacksInv /\ ClaimsInv /\ [ApiNext]_allVars => ClaimsInv'
<1> SUFFICES ASSUME TypeOK, ApiTypeOK, CallbacksInv, ClaimsInv, [ApiNext]_allVars
             PROVE  ClaimsInv'
  OBVIOUS
<1>1. CASE Callback
  BY <1>1, CallbackFact, SameStatusClaims DEF apiVars, specVars
<1>2. CASE Report
  <2>1. CASE status' = status
    BY <1>2, <2>1, ReportFact, SameStatusClaims DEF completed
  <2>2. CASE status' = GenerateAPIPodStatus
    BY <1>2, <2>2, ReportClaims
  <2> QED
    BY <1>2, <2>1, <2>2, ReportFact
<1>3. CASE UNCHANGED allVars
  BY <1>3, SameStatusClaims
     DEF allVars, apiVars, specVars, vars, goVars, workerVars, cacheVars, completed
<1>4. CASE Patch \/ PodUpdated \/ FailPod
  <2>1. /\ UNCHANGED vars /\ UNCHANGED <<policy, inits, status>>
        /\ seen' \in {seen, shown}
    BY <1>4 DEF Patch, PodUpdated, FailPod, specVars
  <2>2. UNCHANGED <<objects, missed, main, pc, succeeded, place>>
    BY <2>1 DEF vars, goVars, workerVars, cacheVars
  <2>3. /\ shown'.containers \in {shown.containers, status.containers}
        /\ shown'.phase = "Succeeded" =>
             shown.phase = "Succeeded" \/ status.phase = "Succeeded"
        /\ Terminal(shown'.phase) => Terminal(shown.phase) \/ failed'
        /\ failed => failed'
    <3>1. CASE Patch
      <4>1. status \in Status /\ shown \in Status
        BY <3>1 DEF Patch, Reported, ApiTypeOK
      <4>2. shown' = MergePodStatus(shown, status) /\ failed' = failed
        BY <3>1 DEF Patch
      <4> QED
        BY <4>1, <4>2, MergeFact DEF Terminal
    <3>2. CASE FailPod
      <4>1. /\ shown'.containers = shown.containers /\ shown'.phase = "Failed"
            /\ failed' = TRUE
        BY <3>2 DEF FailPod, ApiTypeOK, Status
      <4> QED
        BY <4>1
    <3>3. CASE PodUpdated
      BY <3>3 DEF PodUpdated
    <3> QED
      BY <1>4, <3>1, <3>2, <3>3
  <2>4. InitOnes'
    <3> SUFFICES ASSUME NEW st \in {seen', status, shown'}
                 PROVE  /\ \A c \in InitContainers : Unstarted(st.containers[c])
                        /\ st.phase = "Succeeded" => inits = {}
      BY <2>1 DEF InitOnes
    <3> QED
      BY <2>1, <2>3 DEF ClaimsInv, InitOnes
  <2>5. Phases'
    BY <2>1, <2>3 DEF ClaimsInv, Phases
  <2>6. FirstReport'
    BY <2>1, <2>2 DEF ClaimsInv, FirstReport, Reported, completed
  <2>7. PhaseIsEarned'
    BY <2>1, <2>2, <2>3 DEF ClaimsInv, StatusIsEarned, PhaseIsEarned, completed
  <2>8. ConditionsAreEarned'
    BY <2>1 DEF ClaimsInv, StatusIsEarned, ConditionsAreEarned, Reported, Initialized,
                Ready, ContainersReady
  <2> QED
    BY <2>4, <2>5, <2>6, <2>7, <2>8 DEF ClaimsInv, StatusIsEarned
<1>5. CASE Crash
  <2>1. /\ seen' = shown /\ status' = NoStatus
        /\ UNCHANGED <<policy, inits, shown, failed>>
    BY <1>5 DEF Crash, specVars
  <2>2. /\ NoStatus.phase = "none"
        /\ \A c \in All : NoStatus.containers[c] = Absent
    BY DEF NoStatus, Created
  <2>3. ~Reported'
    BY <2>1 DEF Reported
  <2>4. InitOnes'
    BY <2>1, <2>2, Statuses DEF ClaimsInv, InitOnes, All, Unstarted
  <2>5. Phases'
    BY <2>1 DEF ClaimsInv, Phases
  <2>6. FirstReport' /\ PhaseIsEarned' /\ ConditionsAreEarned'
    BY <2>1, <2>2, <2>3 DEF FirstReport, PhaseIsEarned, ConditionsAreEarned
  <2> QED
    BY <2>4, <2>5, <2>6 DEF ClaimsInv, StatusIsEarned
<1> QED
  BY <1>1, <1>2, <1>3, <1>4, <1>5 DEF ApiNext

LEMMA ClaimsInvariant == ApiSpec => []ClaimsInv
BY InitClaims, ClaimsStep, TypeHolds, ApiTypeCorrect, CallbacksInvHolds, PTL DEF ApiSpec

\* Whatever the commands do and however often the kubelet is restarted: a terminal phase
\* is reported only of a pod that has come to it, and a pod with init containers is never
\* said to be initialized.
THEOREM StatusIsEarnedHolds == ApiSpec => []StatusIsEarned
<1>1. ClaimsInv => StatusIsEarned
  BY DEF ClaimsInv
<1> QED
  BY <1>1, ClaimsInvariant, PTL

\* What the second report of a worker says of the containers is no illegal transition
\* from what the first one said, however callbacks changed the object meanwhile.
THEOREM ReportIsAcceptedHolds == ApiSpec => []ReportIsAccepted
<1>1. TypeOK /\ ApiTypeOK /\ CallbacksInv /\ ClaimsInv => ReportIsAccepted
  <2> SUFFICES ASSUME TypeOK, ApiTypeOK, CallbacksInv, ClaimsInv,
                      place = "making", Reported, ~completed, ~missed,
                      NEW c \in All, status.containers[c].state = "terminated"
               PROVE  GenerateAPIPodStatus.containers[c].state = "terminated"
    BY DEF ReportIsAccepted, Refused, IllegalTransition, Old
  <2>1. c \in Containers
    BY DEF ClaimsInv, InitOnes, Unstarted, All
  <2>2. reading = "inserted"
    BY DEF CallbacksInv, Woken, Made
  <2>3. objects[reading][c].state = "exited"
    BY <2>1, <2>2 DEF ClaimsInv, FirstReport
  <2> QED
    BY <2>1, <2>3, NewContainers
<1> QED
  BY <1>1, ClaimsInvariant, TypeHolds, ApiTypeCorrect, CallbacksInvHolds, PTL

=============================================================================
