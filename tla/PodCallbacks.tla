---------------------------- MODULE PodCallbacks ----------------------------
(***************************************************************************)
(* One pod's entry of the pod cache: who writes it, and what the pod's     *)
(* worker reads of it.  The worker writes it when it starts                *)
(* (insertPodCache); the callbacks of cmd/main.go write it later, a        *)
(* goroutine for each container with a command that records its end        *)
(* (SetContainerExit) and the main loop, which declares the pod completed  *)
(* after five seconds (SetPodCompleted).  The cache holds pointers: Get    *)
(* hands out the very object, and SetContainerExit changes that object     *)
(* before it Sets it.  The worker reads at most three times, each time an  *)
(* entry newer than its last sync, and makes the pod's API status of the   *)
(* first two.                                                              *)
(*                                                                         *)
(* Sources: pkg/core/pod_helper.go, pkg/core/kubelet.go 88-107 and         *)
(* 320-342, pkg/core/pod_worker.go 865-1010, cmd/main.go.                  *)
(***************************************************************************)
EXTENDS Integers, FiniteSets

CONSTANTS
  Containers,
  WithCommand,    \* the containers whose spec has a command
  NoObject        \* the nil of object references

ASSUME PodCallbacksAssumption ==
  /\ IsFiniteSet(Containers) /\ Containers # {} /\ WithCommand \subseteq Containers
  /\ Containers \intersect {NoObject, "inserted", "completed", "main"} = {}
  /\ NoObject \notin {"inserted", "completed", "main"}

\* The objects: what SetPodReady and SetPodCompleted build, and the empty status
\* that Get makes up for the goroutine of a container when there is no entry.
Objects == {"inserted", "completed"} \union Containers

\* Those who Set the entry besides the worker itself.
Writers == Containers \union {"main"}

\* container.Status, "absent" if the PodStatus has none of that name; the exit
\* code is 0 or not.
ContainerStatus == [state : {"absent", "running", "exited"}, ok : BOOLEAN]
PodStatus == [Containers -> ContainerStatus]

AbsentStatus == [state |-> "absent", ok |-> TRUE]
SetPodReady == [c \in Containers |-> [state |-> "running", ok |-> TRUE]]
SetPodCompleted == [c \in Containers |-> [state |-> "exited", ok |-> TRUE]]

VARIABLES
  cached,      \* the object the cache's entry points to
  objects,     \* [Objects -> PodStatus]
  entryNew,    \* the entry's modified time is after the worker's lastSyncTime
  stampNew,    \* the Writers whose time.Now() was read after lastSyncTime
  missed,      \* history: a container's goroutine found no entry
  main,        \* the place of the main loop in onAdd
  pc,          \* [Containers -> place of the container's goroutine]
  succeeded,   \* [Containers -> the command's exit code is 0]
  got,         \* [Containers -> the object the goroutine got from the cache]
  fields,      \* [Containers -> the fields it has still to assign]
  work,        \* the worker's WorkType, "done" when it has nothing left to do
  place,       \* the place of the worker in its loop
  reading,     \* the object the worker was handed by GetNewerThan
  wokenBy,     \* history: the Writer that ended the worker's wait, if one did
  reported     \* the status the worker has made of it, the last only

cacheVars == <<cached, objects, entryNew>>
goVars == <<pc, succeeded, got, fields, missed>>
workerVars == <<work, place, reading, wokenBy, reported>>
vars == <<cacheVars, goVars, workerVars, stampNew, main>>

TypeOK ==
  /\ cached \in Objects \union {NoObject}
  /\ objects \in [Objects -> PodStatus]
  /\ entryNew \in BOOLEAN /\ missed \in BOOLEAN
  /\ stampNew \subseteq Writers
  /\ main \in {"sleeping", "stamped", "set"}
  /\ pc \in [Containers -> {"running", "exited", "assigning", "stamped", "set"}]
  /\ succeeded \in [Containers -> BOOLEAN]
  /\ got \in [Containers -> Objects \union {NoObject}]
  /\ \A c \in Containers : pc[c] \in {"assigning", "stamped"} => got[c] \in Objects
  /\ fields \in [Containers -> SUBSET {"state", "ok"}]
  /\ work \in {"sync", "terminating", "terminated", "done"}
  /\ place \in {"insert", "get", "waiting", "making"}
  /\ reading \in Objects \union {NoObject}
  /\ place = "making" => reading \in Objects
  /\ wokenBy \in Writers \union {NoObject}
  /\ reported \in PodStatus

\* A pod that is being deleted, or failed or succeeded, when the kubelet first sees
\* it is torn down without a sync; if it is over, its worker is not even started.
Init ==
  /\ cached = NoObject /\ entryNew = FALSE /\ stampNew = {}
  /\ objects = [o \in Objects |-> [c \in Containers |-> AbsentStatus]]
  /\ missed = FALSE /\ main = "sleeping"
  /\ pc = [c \in Containers |-> "running"]
  /\ succeeded = [c \in Containers |-> TRUE]
  /\ got = [c \in Containers |-> NoObject]
  /\ fields = [c \in Containers |-> {}]
  /\ work \in {"sync", "terminating", "done"} /\ place = "insert"
  /\ reading = NoObject /\ wokenBy = NoObject
  /\ reported = [c \in Containers |-> AbsentStatus]

-----------------------------------------------------------------------------
(* cache.Set and its notification *)

\* Is the worker handed what the Writer w Sets?  It waits, and w's time is not
\* before its lastSyncTime.
MutNotified(w) == FALSE
Notified(w) == place = "waiting" /\ w \in stampNew

\* podCache.Set(uid, o, nil, the time w read).
CacheSet(w, o) ==
  /\ cached' = o /\ entryNew' = (w \in stampNew)
  /\ IF Notified(w)
     THEN reading' = o /\ place' = "making" /\ wokenBy' = w
     ELSE UNCHANGED <<reading, place, wokenBy>>
  /\ UNCHANGED <<work, reported, stampNew>>

\* time.Now() of the Writer w, read for its Set.
ReadClock(w) == stampNew' = stampNew \union {w} /\ UNCHANGED <<cacheVars, workerVars>>

-----------------------------------------------------------------------------
(* A container's goroutine *)

\* A container without a command is shown as running, but nothing is run for it.
GetContainerCmds == WithCommand

\* ContainerCmd.Run returns.
CommandEnds(c, ok) ==
  /\ c \in GetContainerCmds /\ pc[c] = "running"
  /\ pc' = [pc EXCEPT ![c] = "exited"]
  /\ succeeded' = [succeeded EXCEPT ![c] = ok]
  /\ UNCHANGED <<cacheVars, workerVars, stampNew, main, got, fields, missed>>

\* CallBackOptions.SetContainerExit: podCache.Get returns the cached object itself,
\* or an empty one made for the call.
MutObjectFor(c) == c
MutObjectForNil(c) == NoObject
ObjectFor(c) == IF cached = NoObject THEN c ELSE cached

GetStatus(c) ==
  /\ pc[c] = "exited"
  /\ pc' = [pc EXCEPT ![c] = "assigning"]
  /\ got' = [got EXCEPT ![c] = ObjectFor(c)]
  /\ objects' = IF ObjectFor(c) = c /\ cached # NoObject
                THEN [objects EXCEPT ![c] = objects[cached]] ELSE objects
  /\ fields' = [fields EXCEPT ![c] = {"state", "ok"}]
  /\ missed' = (missed \/ cached = NoObject)
  /\ UNCHANGED <<cached, entryNew, succeeded, workerVars, stampNew, main>>

\* Is this the container status that SetContainerExit is looking for?
MutNamed(c, d) == TRUE
Named(c, d) == c = d

\* pod_helper.go SetContainerExit, one assignment.  Nothing orders the assignments
\* for a goroutine that reads the object meanwhile.
Assign(c, field) ==
  /\ pc[c] = "assigning" /\ field \in fields[c]
  /\ fields' = [fields EXCEPT ![c] = @ \ {field}]
  /\ objects' = [objects EXCEPT ![got[c]] = [d \in Containers |->
       IF ~Named(c, d) \/ @[d].state = "absent" THEN @[d]
       ELSE IF field = "state" THEN [@[d] EXCEPT !.state = "exited"]
       ELSE [@[d] EXCEPT !.ok = succeeded[c]]]]
  /\ UNCHANGED <<cached, entryNew, pc, succeeded, got, missed, workerVars, stampNew,
                 main>>

\* time.Now(), the last argument of the call of Set.
StampExit(c) ==
  /\ pc[c] = "assigning" /\ fields[c] = {}
  /\ pc' = [pc EXCEPT ![c] = "stamped"]
  /\ ReadClock(c)
  /\ UNCHANGED <<succeeded, got, fields, missed, main>>

SetStatus(c) ==
  /\ pc[c] = "stamped"
  /\ pc' = [pc EXCEPT ![c] = "set"]
  /\ CacheSet(c, got[c])
  /\ UNCHANGED <<objects, succeeded, got, fields, missed, main>>

Exiting(c) ==
  \/ GetStatus(c) \/ StampExit(c) \/ SetStatus(c)
  \/ \E field \in {"state", "ok"} : Assign(c, field)

-----------------------------------------------------------------------------
(* The main loop: onAdd, five seconds after the pod was given to its worker, which *)
(* may not have started yet                                                         *)

StampCompleted ==
  /\ main = "sleeping"
  /\ main' = "stamped"
  /\ ReadClock("main")
  /\ UNCHANGED goVars

\* CallBackOptions.SetPodCompleted: a new object takes the place of the cached one.
SetCompleted ==
  /\ main = "stamped"
  /\ main' = "set"
  /\ objects' = [objects EXCEPT !["completed"] = SetPodCompleted]
  /\ CacheSet("main", "completed")
  /\ UNCHANGED goVars

completed == main = "set"

-----------------------------------------------------------------------------
(* The worker *)

\* insertPodCache; the object is new.
Insert ==
  /\ work # "done" /\ place = "insert"
  /\ place' = "get"
  /\ objects' = [objects EXCEPT !["inserted"] = SetPodReady]
  /\ cached' = "inserted" /\ entryNew' = TRUE
  /\ UNCHANGED <<goVars, work, reading, wokenBy, reported, stampNew, main>>

\* The pod manager does not know the pod any more.  The main loop removes it there,
\* after it has declared the pod completed.
InsertFails ==
  /\ completed /\ work # "done" /\ place = "insert"
  /\ place' = "get"
  /\ UNCHANGED <<cacheVars, goVars, work, reading, wokenBy, reported, stampNew, main>>

\* podCache.GetNewerThan(uid, lastSyncTime) finds the entry, or waits for one.
GetNewerThan ==
  /\ work # "done" /\ place = "get"
  /\ wokenBy' = NoObject
  /\ IF cached # NoObject /\ entryNew
     THEN place' = "making" /\ reading' = cached
     ELSE place' = "waiting" /\ UNCHANGED reading
  /\ UNCHANGED <<cacheVars, goVars, work, reported, stampNew, main>>

\* What each sync makes of the status: syncTerminatedPod makes nothing.
Reports == {"sync", "terminating"}

NextWork ==
  CASE work = "sync" -> "terminating"
    [] work = "terminating" -> "terminated"
    [] OTHER -> "done"

\* podStarted is set: no entry is inserted again.
MutPlaceAfterSync == "insert"
PlaceAfterSync == "get"

\* syncPod, syncTerminatingPod or syncTerminatedPod; lastSyncTime = time.Now(); and
\* the next work.
Sync ==
  /\ place = "making"
  /\ reported' = IF work \in Reports THEN objects[reading] ELSE reported
  /\ entryNew' = FALSE /\ stampNew' = {}
  /\ work' = NextWork /\ place' = PlaceAfterSync /\ reading' = NoObject
  /\ UNCHANGED <<cached, objects, goVars, wokenBy, main>>

Worker == Insert \/ InsertFails \/ GetNewerThan \/ Sync

Next ==
  \/ Worker \/ StampCompleted \/ SetCompleted
  \/ \E c \in Containers :
       Exiting(c) \/ \E ok \in BOOLEAN : CommandEnds(c, ok)

Spec == Init /\ [][Next]_vars

\* Goroutines run; a command may run for ever.
FairSpec ==
  /\ Spec
  /\ WF_vars(Worker) /\ WF_vars(StampCompleted \/ SetCompleted)
  /\ \A c \in Containers : WF_vars(Exiting(c))

-----------------------------------------------------------------------------
(* Safety *)

Shown(c) == IF cached = NoObject THEN AbsentStatus ELSE objects[cached][c]
Exit(c) == [state |-> "exited", ok |-> succeeded[c]]

\* A recorded exit stays: once a container's goroutine has recorded the exit code,
\* the cache shows it until the pod is declared completed, whatever the other
\* containers' goroutines did in between ("set the container's state by the exit
\* code of the command that has ended, 0 is completed, otherwise error", main.go).
\* It does so unless a command ended, and its goroutine asked, before the worker had
\* made the entry: what is set then is an empty status.
ExitCodeKept ==
  ~completed /\ ~missed => \A c \in Containers : pc[c] = "set" => Shown(c) = Exit(c)

\* Until the pod is declared completed, no container is shown as exited before its
\* own command has ended, and none that has no command.
ExitIsReal ==
  ~completed =>
    \A c \in Containers : Shown(c).state = "exited" => pc[c] # "running"

\* Goroutines that get, change and set one shared object neither lose an exit code
\* nor make one up.
ExitCodesAreTrue == ExitCodeKept /\ ExitIsReal

\* What the worker has made an API status of, while callbacks change the object it
\* reads: it shows no end of a command that still runs and no failure of one that
\* did not fail.  (It may show an end with code 0 whose command failed: the state is
\* assigned before the code is.)
ReportIsReal ==
  ~completed => \A c \in Containers :
    /\ reported[c].state = "exited" => pc[c] # "running"
    /\ ~reported[c].ok => pc[c] # "running" /\ ~succeeded[c]

\* The end that ended the worker's wait is in what the worker is about to report,
\* with its exit code, whatever the other callbacks did since.
WakerIsSeen ==
  ~missed /\ place = "making" /\ wokenBy \in Containers
    => objects[reading][wokenBy] = Exit(wokenBy)

\* The worker's two reports, made of an object that others change meanwhile.
ReportsAreTrue == ReportIsReal /\ WakerIsSeen

-----------------------------------------------------------------------------
(* Liveness *)

\* A worker that waits in vain for a newer entry before it tears the pod down is
\* woken by any command that has ended and whose goroutine has not yet read the
\* clock, and by the main loop; it then reports an end and goes on.  (If all of them
\* had read the clock before the worker's last sync, it waits for ever.)
WaitIsEnded ==
  (/\ work = "terminating" /\ place = "waiting"
   /\ main = "sleeping" \/ \E c \in Containers : pc[c] \in {"exited", "assigning"})
  ~>
  (/\ work \notin {"sync", "terminating"}
   /\ missed \/ \E c \in Containers : reported[c].state = "exited")
=============================================================================
