---------------------------- MODULE ApiPodStatus ----------------------------
(***************************************************************************)
(* What becomes of the pod cache's entry (PodCallbacks): the API status a  *)
(* worker makes of it and gives to the status manager, which may refuse    *)
(* it, and the status the API server shows.  The entry lives in the        *)
(* kubelet's memory only: after a restart every container is recorded as   *)
(* running anew, whatever the API server shows of it.                      *)
(*                                                                         *)
(* Sources: pkg/core/kubelet_pods.go, the readiness prober_manager.go      *)
(* gives containers without probes (this kubelet starts none), the         *)
(* conditions of pkg/kubelet/status/generate.go, and of status_manager.go  *)
(* the check of transitions and the merge.  Left out: readiness gates,     *)
(* restart counts, and the reason cache, which nothing fills.              *)
(***************************************************************************)
EXTENDS PodCallbacks

CONSTANTS
  InitContainers,  \* those of a pod that has some: nothing runs or records them
  MaxCrashes       \* bound: restarts of the kubelet

ASSUME ApiPodStatusAssumption ==
  /\ Containers # {} /\ Containers \intersect InitContainers = {}
  /\ MaxCrashes \in Nat

All == Containers \union InitContainers

Unknown == 137                \* the exit code given to a container that is missed
NoCode == -1
Codes == {0, 1, Unknown, NoCode}

\* v1.ContainerStatus; last is the code of LastTerminationState.Terminated.
ApiContainerStatus == [state : {"absent", "waiting", "running", "terminated"},
                       code : Codes, last : Codes]
Absent == [state |-> "absent", code |-> NoCode, last |-> NoCode]
Waiting == [Absent EXCEPT !.state = "waiting"]

Status == [phase : {"Pending", "Running", "Succeeded", "Failed"},
           containers : [All -> ApiContainerStatus]]
Created == [phase |-> "Pending", containers |-> [c \in All |-> Absent]]
NoStatus == [Created EXCEPT !.phase = "none"]

VARIABLES
  policy,      \* spec.restartPolicy
  inits,       \* the pod's init containers
  seen,        \* pod.Status of the pod object the worker has
  status,      \* the status manager's, NoStatus before the first report
  shown,       \* pod.Status at the API server
  failed,      \* history: another client has made the pod Failed
  crashes

specVars == <<policy, inits>>
apiVars == <<specVars, seen, status, shown, failed, crashes>>
allVars == <<vars, apiVars>>

Terminal(phase) == phase \in {"Succeeded", "Failed"}

ApiTypeOK ==
  /\ policy \in {"Always", "OnFailure", "Never"} /\ inits \subseteq InitContainers
  /\ seen \in Status /\ status \in Status \union {NoStatus} /\ shown \in Status
  /\ failed \in BOOLEAN
  /\ crashes \in 0..MaxCrashes

ApiInit ==
  /\ Init /\ work # "done"
  /\ policy \in {"Always", "OnFailure", "Never"} /\ inits \in {{}, InitContainers}
  /\ seen = Created /\ status = NoStatus /\ shown = Created
  /\ failed = FALSE /\ crashes = 0

\* The basis of the next status: the one reported before, or the pod object's.
Reported == status # NoStatus
Old == IF Reported THEN status ELSE seen

-----------------------------------------------------------------------------
(* One container: convertToAPIContainerStatuses *)

\* The record the worker reads: SetPodReady and SetPodCompleted make none of init
\* containers.
Record(c) == IF c \in Containers THEN objects[reading][c] ELSE AbsentStatus

\* convertContainerStatus
Converted(r) ==
  IF r.state = "running" THEN [Absent EXCEPT !.state = "running"]
  ELSE [Absent EXCEPT !.state = "terminated", !.code = IF r.ok THEN 0 ELSE 1]

\* A container without a record: what was reported of its end is kept, and one that
\* was running has ended somehow.
Missing(old) ==
  CASE old.state = "terminated" -> old
    [] old.state = "running" /\ old.last = NoCode -> [Waiting EXCEPT !.last = Unknown]
    [] OTHER -> [Waiting EXCEPT !.last = old.last]

ApiStatus(c, old) ==
  IF Record(c).state = "absent" THEN Missing(old) ELSE Converted(Record(c))

-----------------------------------------------------------------------------
(* The pod: getPhase, generateAPIPodStatus *)

Runs(s) == s.state = "running"
EndedWell(s) == s.state = "terminated" /\ s.code = 0
Stopped(s) == s.state = "terminated" \/ (s.state = "waiting" /\ s.last # NoCode)
NotStarted(s) == s.state = "waiting" /\ s.last = NoCode
EndedBadly(s) ==
  \/ s.state = "terminated" /\ s.code # 0
  \/ s.state = "waiting" /\ s.last \notin {0, NoCode}

MutGetPhase(s) ==
  IF \E c \in Containers : NotStarted(s[c]) THEN "Pending"
  ELSE IF ~\E c \in Containers : Stopped(s[c]) THEN "Running"
  ELSE IF policy = "Always" THEN "Running"
  ELSE IF \A c \in Containers : EndedWell(s[c]) THEN "Succeeded"
  ELSE IF policy = "Never" THEN "Failed" ELSE "Running"

GetPhase(s) ==
  IF policy = "Never" /\ \E c \in inits : EndedBadly(s[c]) THEN "Failed"
  ELSE IF \E c \in inits : NotStarted(s[c]) \/ Runs(s[c]) THEN "Pending"
  ELSE IF \E c \in Containers : NotStarted(s[c]) THEN "Pending"
  ELSE IF \E c \in Containers : Runs(s[c]) THEN "Running"
  ELSE IF ~\E c \in Containers : Stopped(s[c]) THEN "Pending"
  ELSE IF policy = "Always" THEN "Running"
  ELSE IF \A c \in Containers : EndedWell(s[c]) THEN "Succeeded"
  ELSE IF policy = "Never" THEN "Failed" ELSE "Running"

\* A terminal phase that was reported, or that the pod object has, stays.
Phase(new, old) ==
  IF Terminal(seen.phase) THEN seen.phase
  ELSE IF ~Terminal(new) /\ Terminal(old) THEN old ELSE new

\* Callbacks may change the object between two containers; what is read of each is
\* what it was at some time of its own.
GenerateAPIPodStatus ==
  LET s == [c \in All |-> IF c \in Containers \union inits
                          THEN ApiStatus(c, Old.containers[c]) ELSE Absent]
  IN  [phase |-> Phase(GetPhase(s), Old.phase), containers |-> s]

\* UpdatePodStatus of a probe manager without probes: a container is ready while it
\* runs, an init container when it has ended well.
Ready(s, c) ==
  IF c \in InitContainers THEN EndedWell(s.containers[c])
  ELSE Runs(s.containers[c])

\* The conditions Initialized and ContainersReady, as generate.go makes them.
Initialized(s) == s.phase = "Succeeded" \/ \A c \in inits : Ready(s, c)
ContainersReady(s) == ~Terminal(s.phase) /\ \A c \in Containers : Ready(s, c)

\* checkContainerStateTransition
IllegalTransition(old, new) ==
  /\ policy # "Always"
  /\ \E c \in All :
       /\ old[c].state = "terminated" /\ new[c].state # "terminated"
       /\ ~(old[c].code # 0 /\ policy = "OnFailure")

\* updateStatusInternal compares with the status it has, or else the pod object's.
MutRefused(new) == Reported /\ IllegalTransition(status.containers, new.containers)
Refused(new) == IllegalTransition(Old.containers, new.containers)

\* syncPod and syncTerminatingPod report, syncTerminatedPod does not.
Report ==
  /\ Sync
  /\ LET new == GenerateAPIPodStatus
     IN  status' = IF work \in Reports /\ ~Refused(new) THEN new ELSE status
  /\ UNCHANGED <<specVars, seen, shown, failed, crashes>>

\* mergePodStatus: PodCouldHaveRunningContainers of this kubelet is always true.
MergePodStatus(old, new) ==
  IF ~Terminal(old.phase) /\ Terminal(new.phase) THEN [new EXCEPT !.phase = old.phase]
  ELSE new

\* The status manager patches the pod as long as the API server has it.
MutPatch ==
  /\ shown' = MergePodStatus(shown, status)
  /\ UNCHANGED <<vars, specVars, seen, status, failed, crashes>>

Patch ==
  /\ Reported
  /\ shown' = MergePodStatus(shown, status)
  /\ UNCHANGED <<vars, specVars, seen, status, failed, crashes>>

\* update.Options.Pod: the work after a sync comes with the pod object that arrived
\* last.
PodUpdated ==
  /\ work # "sync" /\ place = "get"
  /\ seen' = shown
  /\ UNCHANGED <<vars, specVars, status, shown, failed, crashes>>

\* Another client makes the pod Failed.
FailPod ==
  /\ ~Terminal(shown.phase)
  /\ shown' = [shown EXCEPT !.phase = "Failed"]
  /\ failed' = TRUE
  /\ UNCHANGED <<vars, specVars, seen, status, crashes>>

\* PodCallbacks begins anew.
Restart ==
  /\ cached' = NoObject /\ entryNew' = FALSE /\ stampNew' = {}
  /\ objects' = [o \in Objects |-> [c \in Containers |-> AbsentStatus]]
  /\ missed' = FALSE /\ main' = "sleeping"
  /\ pc' = [c \in Containers |-> "running"]
  /\ succeeded' = [c \in Containers |-> TRUE]
  /\ got' = [c \in Containers |-> NoObject]
  /\ fields' = [c \in Containers |-> {}]
  /\ place' = "insert" /\ reading' = NoObject /\ wokenBy' = NoObject
  /\ reported' = [c \in Containers |-> AbsentStatus]

\* The kubelet is restarted: what it had in memory is gone, the pod is added anew with
\* its status at the API server and its commands are run again.  A pod that has failed
\* gets no worker.
Crash ==
  /\ crashes < MaxCrashes
  /\ crashes' = crashes + 1
  /\ Restart
  /\ work' \in IF Terminal(shown.phase) THEN {"done"} ELSE {"sync", "terminating"}
  /\ seen' = shown /\ status' = NoStatus
  /\ UNCHANGED <<specVars, shown, failed>>

\* What PodCallbacks does besides Sync.
Callback ==
  /\ \/ Insert \/ InsertFails \/ GetNewerThan \/ StampCompleted \/ SetCompleted
     \/ \E c \in Containers :
          Exiting(c) \/ \E ok \in BOOLEAN : CommandEnds(c, ok)
  /\ UNCHANGED apiVars

ApiNext == Callback \/ Report \/ Patch \/ PodUpdated \/ FailPod \/ Crash

ApiSpec == ApiInit /\ [][ApiNext]_allVars

-----------------------------------------------------------------------------
(* Safety *)

\* A terminal phase is earned: until the pod is declared completed nobody is told that
\* it succeeded while a container has not ended, nor that it failed when no command
\* did, unless another client said so or a goroutine overwrote the entry with an empty
\* one ("missed").  (It may be told that a pod succeeded whose last command failed: the
\* worker can read the container's state before its exit code is assigned.)
PhaseIsEarned ==
  ~failed /\ ~missed =>
    /\ status.phase = "Succeeded" => completed \/ \A c \in Containers : pc[c] # "running"
    /\ status.phase = "Failed" => \E c \in Containers : pc[c] # "running" /\ ~succeeded[c]

\* A pod with init containers, which nothing ever runs, is never said to be
\* initialized; one that is said to be initialized and ready is said to be running.
ConditionsAreEarned ==
  Reported /\ Initialized(status) =>
    /\ inits = {}
    /\ ContainersReady(status) => status.phase = "Running"

\* What a status claims of the pod has happened.
StatusIsEarned == PhaseIsEarned /\ ConditionsAreEarned

\* The second report of a worker is never refused for what the first one said, as long
\* as the pod was not declared completed in between: a container that was read as ended
\* is not read as running again, although three parties write the entry.
ReportIsAccepted ==
  place = "making" /\ work \in Reports /\ Reported /\ ~completed /\ ~missed
    => ~Refused(GenerateAPIPodStatus)

-----------------------------------------------------------------------------
(* What a step may never do *)

\* The end of a container of a pod with the policy Never is final: once the API server
\* shows it, it is shown for ever, although a restarted kubelet records all containers
\* as running anew and a late callback can undo what SetPodCompleted wrote.
EndIsFinal ==
  [][policy = "Never" =>
       \A c \in All : shown.containers[c].state = "terminated"
                        => shown'.containers[c].state = "terminated"]_allVars
=============================================================================
