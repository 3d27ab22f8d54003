------------------------------- MODULE Prober -------------------------------
(***************************************************************************)
(* The probe manager: prober_manager.go, worker.go, the results managers   *)
(* of results_manager.go and the result handling of prober.go.             *)
(*                                                                         *)
(* AddPod starts a worker for every probe of a pod.  A worker reads the    *)
(* status that was published last, probes its container and puts the       *)
(* result into the results manager of its kind, which sends an update for  *)
(* every change.  UpdatePodStatus reads the results, and which workers     *)
(* there are, to say in the next status whether a container has started    *)
(* and is ready; what it says decides what the workers probe.  Of all this *)
(* the kubelet calls only UpdatePodStatus: who calls the rest is left open.*)
(*                                                                         *)
(* Results are kept by container ID, and no record the kubelet makes of a  *)
(* container has one.  Its ID prints as "://", which is just how that of a *)
(* worker prints that has seen none: no worker ever takes a container for  *)
(* a new one, sets its initial value or removes a result, a worker on hold *)
(* is so for ever, and all containers of all pods share one result of each *)
(* type.                                                                   *)
(*                                                                         *)
(* The manager's map, the results, the status manager and the pod are      *)
(* separate pieces of state, each behind a lock of its own; a step is what *)
(* a goroutine does between two accesses to them.                          *)
(***************************************************************************)
EXTENDS Naturals, FiniteSets, Sequences

CONSTANTS
  UIDs,              \* pods
  Containers,        \* the names of their containers, in the order of the spec
  PodSpecs,          \* records [policy, probes, again]: the RestartPolicy, which
                     \* probes each container has, and (a bound) whether the pod's
                     \* worker may be started again under the same UID
  FailureThreshold,  \* of the probes of each type
  SuccessThreshold,
  ProbeOutcomes,     \* what runProbe answers: the code's runProbe is a stub that
                     \* answers neither success nor an error, {"failure"}
  UpdatesCap,        \* capacity of the channel of updates
  MaxWorkers         \* bound: workers of one probe alive at once

Names == {Containers[i] : i \in 1..Len(Containers)}
ProbeTypes == {"liveness", "readiness", "startup"}
Thresholds == [ProbeTypes -> Nat \ {0}]

ASSUME ProberAssumption ==
  /\ Len(Containers) \in Nat \ {0}
  /\ \A i, j \in 1..Len(Containers) : Containers[i] = Containers[j] => i = j
  /\ PodSpecs \subseteq [policy : {"Always", "OnFailure", "Never"},
                         probes : [Names -> SUBSET ProbeTypes], again : BOOLEAN]
  /\ FailureThreshold \in Thresholds /\ SuccessThreshold \in Thresholds
  /\ ProbeOutcomes \subseteq {"success", "warning", "failure", "error"}
  /\ UpdatesCap \in Nat /\ MaxWorkers \in Nat \ {0}

\* probeKey
Keys == UIDs \X Names \X ProbeTypes
PodOf(k) == k[1]
NameOf(k) == k[2]
TypeOf(k) == k[3]
NoWorker == 0
Slots == 1..MaxWorkers
Results == {"success", "failure"}

VARIABLES
  spec,       \* the pods' specs
  work,       \* what the pod's worker is to do next
  entry,      \* what the pod cache has of the pod: what SetPodReady or
              \* SetPodCompleted made, or no container
  exited,     \* the containers whose end is recorded in what SetPodReady made
  published,  \* the statuses in the status manager
  workers,    \* manager.workers
  worker,     \* the workers' goroutines and their fields, by probe
  results,    \* what the three results managers have for the empty container ID
  updates,    \* how many updates are in their channels
  report,     \* the generateAPIPodStatus under way for each pod
  added,      \* history: the pods AddPod was called for
  ending,     \* history: the pods of which it was said that they end: they were added
              \* as deleted, a call stopped probes of theirs, or a status had them end
  earned      \* history: the types of probes that have once recorded a success

podVars == <<spec, work, entry, exited>>
vars == <<podVars, published, workers, worker, results, updates, report,
          added, ending, earned>>

\* v1.ContainerStatus: in "waiting" it has no ContainerID, else it has "://".
States == {"waiting", "running", "terminated"}
ContainerStatus == [state : States, started : BOOLEAN, ready : BOOLEAN]
In(state) == [state |-> state, started |-> FALSE, ready |-> FALSE]

\* known: there is a status.  terminal: the phase is Failed or Succeeded.
\* added: history, AddPod had been called when the status began to be generated.
PodStatus == [known : BOOLEAN, terminal : BOOLEAN,
              containers : [Names -> ContainerStatus], added : BOOLEAN]
NoStatus == [known |-> FALSE, terminal |-> FALSE,
             containers |-> [n \in Names |-> In("waiting")], added |-> FALSE]

\* What doProbe uses of the published container status
View == [state : States, started : BOOLEAN]
NoView == [state |-> "waiting", started |-> FALSE]

\* resultRun is only compared with the thresholds: it stops counting at MaxRun.
MaxRun(t) == IF FailureThreshold[t] >= SuccessThreshold[t]
             THEN FailureThreshold[t] ELSE SuccessThreshold[t]
Pcs == {"dead", "look", "decide", "send", "wait", "exit"}
Worker == [pc : Pcs, next : Pcs, view : View, deletion : BOOLEAN,
           lastResult : Results, resultRun : Nat, onHold : BOOLEAN,
           stopCh : BOOLEAN, manualTriggerCh : BOOLEAN]
\* The zero value of lastResult is Success.
Dead == [pc |-> "dead", next |-> "dead", view |-> NoView, deletion |-> FALSE,
         lastResult |-> "success", resultRun |-> 0, onHold |-> FALSE,
         stopCh |-> FALSE, manualTriggerCh |-> FALSE]

ReportPcs == {"idle", "started", "startupWorker", "ready", "readinessWorker", "publish"}
Report == [pc : ReportPcs, at : 1..Len(Containers), status : PodStatus]
Idle == [pc |-> "idle", at |-> 1, status |-> NoStatus]

TypeOK ==
  /\ spec \in [UIDs -> PodSpecs]
  /\ work \in [UIDs -> {"none", "sync", "terminating", "done"}]
  /\ entry \in [UIDs -> {"none", "ready", "completed"}]
  /\ exited \in [UIDs -> SUBSET Names]
  /\ published \in [UIDs -> PodStatus]
  /\ workers \in [Keys -> Slots \union {NoWorker}]
  /\ worker \in [Keys -> [Slots -> Worker]]
  /\ results \in [ProbeTypes -> Results \union {"none"}]
  /\ updates \in [ProbeTypes -> 0..UpdatesCap]
  /\ report \in [UIDs -> Report]
  /\ added \in SUBSET UIDs /\ ending \in SUBSET UIDs /\ earned \in SUBSET ProbeTypes

Init ==
  /\ spec \in [UIDs -> PodSpecs]
  /\ work = [p \in UIDs |-> "none"]
  /\ entry = [p \in UIDs |-> "none"] /\ exited = [p \in UIDs |-> {}]
  /\ published = [p \in UIDs |-> NoStatus]
  /\ workers = [k \in Keys |-> NoWorker]
  /\ worker = [k \in Keys |-> [j \in Slots |-> Dead]]
  /\ results = [t \in ProbeTypes |-> "none"]
  /\ updates = [t \in ProbeTypes |-> 0]
  /\ report = [p \in UIDs |-> Idle]
  /\ added = {} /\ ending = {} /\ earned = {}

-----------------------------------------------------------------------------
(***************************************************************************)
(* The manager's calls                                                     *)
(***************************************************************************)

\* The order AddPod goes through a pod's probes
Rank(t) == CASE t = "startup" -> 1 [] t = "readiness" -> 2 [] t = "liveness" -> 3
Position(k) == 3 * (CHOOSE i \in 1..Len(Containers) : Containers[i] = NameOf(k)) + Rank(TypeOf(k))
ProbesOf(p) == {k \in Keys : PodOf(k) = p /\ TypeOf(k) \in spec[p].probes[NameOf(k)]}
CallKeeps == UNCHANGED <<podVars, published, results, updates, report, earned>>

\* newWorker and go w.run() for these probes, each in a goroutine of its own.  The
\* worker keeps the pod object it was created with.
newWorker(deletion) == [Dead EXCEPT !.pc = "look", !.deletion = deletion]
StartWorkers(p, new, deletion) ==
  LET Free(k, j) == worker[k][j].pc = "dead"
  IN  \E slot \in [new -> Slots] :
        /\ \A k \in new :
             Free(k, slot[k]) /\ \A j \in Slots : Free(k, j) => slot[k] <= j
        /\ workers' = [k \in Keys |-> IF k \in new THEN slot[k] ELSE workers[k]]
        /\ worker' = [k \in Keys |-> IF k \in new
                        THEN [worker[k] EXCEPT ![slot[k]] = newWorker(deletion)] ELSE worker[k]]
        /\ added' = added \union {p}
        /\ ending' = IF deletion THEN ending \union {p} ELSE ending
        /\ CallKeeps

MutAddPod(p, deletion) == StartWorkers(p, ProbesOf(p), deletion)
\* AddPod returns at the first probe that has a worker: no later one is started.
\* deletion: the pod object has a DeletionTimestamp.
AddPod(p, deletion) ==
  StartWorkers(p, {k \in ProbesOf(p) : \A l \in ProbesOf(p) :
                     Position(l) <= Position(k) => workers[l] = NoWorker}, deletion)

\* worker.stop of the workers the map has for these probes: stopCh has room for
\* one stop, a second one is dropped.
Stop(probes, pods) ==
  /\ worker' = [k \in Keys |-> IF k \in probes /\ workers[k] # NoWorker
                  THEN [worker[k] EXCEPT ![workers[k]].stopCh = TRUE] ELSE worker[k]]
  /\ ending' = ending \union pods
  /\ UNCHANGED <<workers, added>>
  /\ CallKeeps

StopLivenessAndStartup(p) ==
  Stop({k \in Keys : PodOf(k) = p /\ TypeOf(k) \in {"liveness", "startup"}}, {p})
RemovePod(p) == Stop({k \in Keys : PodOf(k) = p}, {p})
CleanupPods(desiredPods) ==
  Stop({k \in Keys : PodOf(k) \notin desiredPods}, UIDs \ desiredPods)

-----------------------------------------------------------------------------
(***************************************************************************)
(* A worker                                                                *)
(***************************************************************************)
At(k, j, pc) == worker[k][j].pc = pc
Becomes(k, j, w) == worker' = [worker EXCEPT ![k][j] = w]
\* The worker's own steps leave everything else of the program alone.
OthersKeep == UNCHANGED <<podVars, published, report, added, ending>>

\* The end of a doProbe that does not set a result
Return(k, j, w, pc) ==
  /\ Becomes(k, j, [w EXCEPT !.pc = pc, !.view = NoView])
  /\ UNCHANGED <<workers, results, updates, earned>>
  /\ OthersKeep

\* results.Manager.Set, after which the doProbe ends: a change is written, and then
\* sent before the worker goes on.
Set(k, j, w, result, next) ==
  LET t == TypeOf(k) IN
  /\ results' = [results EXCEPT ![t] = result]
  /\ Becomes(k, j, IF results[t] # result
                   THEN [w EXCEPT !.view = NoView, !.pc = "send", !.next = next]
                   ELSE [w EXCEPT !.view = NoView, !.pc = next])
  /\ earned' = IF result = "success" THEN earned \union {t} ELSE earned
  /\ UNCHANGED <<workers, updates>>
  /\ OthersKeep

MutSend(k, j) ==
  LET w == worker[k][j] IN
  /\ w.pc = "send"
  /\ updates' = [updates EXCEPT ![TypeOf(k)] = @ + 1]
  /\ Becomes(k, j, [w EXCEPT !.pc = w.next, !.next = "dead"])
  /\ UNCHANGED <<workers, results, earned>>
  /\ OthersKeep
\* There is room in the channel, which nothing takes updates out of.
Send(k, j) ==
  LET w == worker[k][j] IN
  /\ w.pc = "send" /\ updates[TypeOf(k)] < UpdatesCap
  /\ updates' = [updates EXCEPT ![TypeOf(k)] = @ + 1]
  /\ Becomes(k, j, [w EXCEPT !.pc = w.next, !.next = "dead"])
  /\ UNCHANGED <<workers, results, earned>>
  /\ OthersKeep

\* doProbe begins with a copy of the published status, and uses it to its end.  A
\* container that has an ID has the one the worker's containerID prints as.
Look(k, j) ==
  LET w == worker[k][j]
      status == published[PodOf(k)]
      c == status.containers[NameOf(k)]
  IN  /\ w.pc = "look"
      /\ \/ /\ ~status.known \/ (~status.terminal /\ c.state = "waiting")
            /\ Return(k, j, w, "wait")
         \/ /\ status.known /\ status.terminal
            /\ Return(k, j, w, "exit")
         \/ /\ status.known /\ ~status.terminal /\ c.state # "waiting"
            /\ Becomes(k, j, [w EXCEPT !.view = [state |-> c.state, started |-> c.started],
                                       !.pc = "decide"])
            /\ UNCHANGED <<workers, results, updates, earned>>
            /\ OthersKeep

StopsEarly(k) == TypeOf(k) \in {"liveness", "startup"}

OnHold(k, j) ==
  LET w == worker[k][j] IN
  /\ w.pc = "decide" /\ w.onHold
  /\ Return(k, j, w, "wait")

\* No failure is set for the empty ID; the worker ends with a container that has
\* ended for good.
NotRunning(k, j) ==
  LET w == worker[k][j] IN
  /\ w.pc = "decide" /\ ~w.onHold /\ w.view.state # "running"
  /\ Return(k, j, w,
            IF w.view.state = "terminated" /\ spec[PodOf(k)].policy = "Never"
            THEN "exit" ELSE "wait")

\* The pod object the worker was created with was being deleted
QuietShutdown(k, j) ==
  LET w == worker[k][j] IN
  /\ w.pc = "decide" /\ ~w.onHold /\ w.view.state = "running"
  /\ w.deletion /\ StopsEarly(k)
  /\ Set(k, j, w, "success", "exit")

Probed(k, j) ==
  LET w == worker[k][j] IN
  /\ w.pc = "decide" /\ ~w.onHold /\ w.view.state = "running"
  /\ ~(w.deletion /\ StopsEarly(k))

\* A started container has no startup probe, and no other probe has one that has not.
Gated(k, j) == worker[k][j].view.started <=> TypeOf(k) = "startup"

\* The end of a doProbe that learns nothing of a running container: its startup
\* decides against the probe, or its InitialDelaySeconds have not passed.  When
\* the delay is over is left open.
Early(k, j) ==
  /\ Probed(k, j)
  /\ Return(k, j, worker[k][j], "wait")

\* prober.probe: an error is thrown away, a warning is a success.
resultOf(outcome) == IF outcome = "failure" THEN "failure" ELSE "success"

Counted(w, result, t) ==
  LET up(n) == IF n < MaxRun(t) THEN n + 1 ELSE n IN
  [w EXCEPT !.lastResult = result,
            !.resultRun = IF w.lastResult = result THEN up(@) ELSE 1]
Threshold(t, result) ==
  IF result = "failure" THEN FailureThreshold[t] ELSE SuccessThreshold[t]

\* The container is probed, and the result counts once its threshold is reached.
\* After a failure that will cost the container its life the worker holds.
Probe(k, j) ==
  LET t == TypeOf(k)
      w == worker[k][j]
  IN  /\ Probed(k, j)
      /\ ~Gated(k, j)
      /\ \E outcome \in ProbeOutcomes :
           LET result == resultOf(outcome)
               counted == Counted(w, result, t)
               hold == StopsEarly(k) /\ result = "failure"
           IN  IF outcome = "error" \/ counted.resultRun < Threshold(t, result)
               THEN Return(k, j, IF outcome = "error" THEN w ELSE counted, "wait")
               ELSE Set(k, j, IF hold THEN [counted EXCEPT !.onHold = TRUE, !.resultRun = 0]
                              ELSE counted, result, "wait")

MutStopSeen(k, j) ==
  /\ At(k, j, "wait") /\ worker[k][j].stopCh
  /\ Becomes(k, j, [worker[k][j] EXCEPT !.pc = "look", !.stopCh = FALSE])
  /\ UNCHANGED <<workers, results, updates, earned>>
  /\ OthersKeep
\* The select of run: a stop, the next tick, or a manual trigger
StopSeen(k, j) ==
  /\ At(k, j, "wait") /\ worker[k][j].stopCh
  /\ Becomes(k, j, [worker[k][j] EXCEPT !.pc = "exit", !.stopCh = FALSE])
  /\ UNCHANGED <<workers, results, updates, earned>>
  /\ OthersKeep
Tick(k, j) ==
  /\ At(k, j, "wait")
  /\ Return(k, j, worker[k][j], "look")
Triggered(k, j) ==
  /\ At(k, j, "wait") /\ worker[k][j].manualTriggerCh
  /\ Return(k, j, [worker[k][j] EXCEPT !.manualTriggerCh = FALSE], "look")

\* The deferred clean-up of run: no result is removed for the empty ID.
removeWorker(k, j) ==
  /\ At(k, j, "exit")
  /\ workers' = [workers EXCEPT ![k] = NoWorker]
  /\ Becomes(k, j, Dead)
  /\ UNCHANGED <<results, updates, earned>>
  /\ OthersKeep

doProbe(k, j) ==
  \/ Look(k, j) \/ Send(k, j) \/ OnHold(k, j) \/ NotRunning(k, j)
  \/ QuietShutdown(k, j) \/ Early(k, j) \/ Probe(k, j)

run(k, j) ==
  \/ doProbe(k, j) \/ StopSeen(k, j) \/ Tick(k, j) \/ Triggered(k, j)
  \/ removeWorker(k, j)

-----------------------------------------------------------------------------
(***************************************************************************)
(* UpdatePodStatus, and the status it is called for                        *)
(***************************************************************************)
Reporting(p, pc) == report[p].pc = pc
Container(p) == Containers[report[p].at]
Reported(p) == report[p].status.containers[Container(p)]
ManagerKeeps ==
  UNCHANGED <<podVars, published, workers, results, updates, added, ending, earned>>

\* What a container is converted to: one without a record has not been created, or
\* its end was reported before and is kept.
StateOf(p, n) ==
  CASE entry[p] = "completed" -> "terminated"
    [] entry[p] = "ready" -> IF n \in exited[p] THEN "terminated" ELSE "running"
    [] entry[p] = "none" -> IF published[p].containers[n].state = "terminated"
                            THEN "terminated" ELSE "waiting"
\* A terminal phase stays.  When all containers have ended, it depends on the policy
\* and, with OnFailure, on the exit codes whether the phase is terminal.  (A phase that
\* another client sets, which ApiPodStatus has, only makes more pods end.)
Terminal(p) ==
  IF published[p].terminal THEN {TRUE}
  ELSE IF \E n \in Names : StateOf(p, n) # "terminated" THEN {FALSE}
  ELSE CASE spec[p].policy = "Always" -> {FALSE}
         [] spec[p].policy = "OnFailure" -> BOOLEAN
         [] spec[p].policy = "Never" -> {TRUE}

\* generateAPIPodStatus, which syncPod and syncTerminatingPod call
Generate(p) ==
  /\ Reporting(p, "idle") /\ work[p] \in {"sync", "terminating"}
  /\ \E terminal \in Terminal(p) :
       report' = [report EXCEPT ![p] =
         [pc |-> "started", at |-> 1, status |->
           [known |-> TRUE, terminal |-> terminal,
            containers |-> [n \in Names |-> In(StateOf(p, n))],
            added |-> p \in added]]]
  /\ UNCHANGED worker
  /\ ManagerKeeps

\* With what is known of the container at hand, go on to pc or, from the last
\* question, to the next container.
Answer(p, answered, pc) ==
  LET next == IF report[p].at < Len(Containers) THEN [pc |-> "started", at |-> report[p].at + 1]
              ELSE [pc |-> "publish", at |-> report[p].at]
      goal == IF pc = "next" THEN next ELSE [pc |-> pc, at |-> report[p].at]
  IN  report' = [report EXCEPT ![p] =
        [pc |-> goal.pc, at |-> goal.at,
         status |-> [@.status EXCEPT !.containers[Container(p)] = answered]]]
Started(p, started) == [Reported(p) EXCEPT !.started = started]
Ready(p, ready) == [Reported(p) EXCEPT !.ready = ready]

\* The startup result of the container, if there is one
GetStartup(p) ==
  /\ Reporting(p, "started")
  /\ IF Reported(p).state # "running" THEN Answer(p, Started(p, FALSE), "next")
     ELSE IF results["startup"] = "none" THEN Answer(p, Started(p, FALSE), "startupWorker")
     ELSE LET started == results["startup"] = "success"
          IN  Answer(p, Started(p, started), IF started THEN "ready" ELSE "next")
  /\ UNCHANGED worker
  /\ ManagerKeeps

MutGetStartupWorker(p) ==
  /\ Reporting(p, "startupWorker")
  /\ Answer(p, Started(p, TRUE), "ready")
  /\ UNCHANGED worker
  /\ ManagerKeeps
\* Whether there is a probe which hasn't run yet
GetStartupWorker(p) ==
  LET started == workers[<<p, Container(p), "startup">>] = NoWorker IN
  /\ Reporting(p, "startupWorker")
  /\ Answer(p, Started(p, started), IF started THEN "ready" ELSE "next")
  /\ UNCHANGED worker
  /\ ManagerKeeps

GetReadiness(p) ==
  LET ready == results["readiness"] = "success" IN
  /\ Reporting(p, "ready")
  /\ Answer(p, Ready(p, ready), IF ready THEN "next" ELSE "readinessWorker")
  /\ UNCHANGED worker
  /\ ManagerKeeps

\* Without a worker the container is ready; a worker is triggered.
GetReadinessWorker(p) ==
  LET k == <<p, Container(p), "readiness">>
      j == workers[k]
  IN  /\ Reporting(p, "readinessWorker")
      /\ Answer(p, Ready(p, j = NoWorker), "next")
      /\ worker' = IF j = NoWorker THEN worker
                   ELSE [worker EXCEPT ![k][j].manualTriggerCh = TRUE]
      /\ ManagerKeeps

\* checkContainerStateTransition: with OnFailure it depends on the exit codes.
ComesBack(p) ==
  \E n \in Names : /\ published[p].containers[n].state = "terminated"
                   /\ report[p].status.containers[n].state # "terminated"
MayAccept(p) == ~(spec[p].policy = "Never" /\ ComesBack(p))
MayRefuse(p) == spec[p].policy # "Always" /\ ComesBack(p)

\* A status that has a container end for good, or the pod
SaysEnd(p, status) ==
  \/ status.terminal
  \/ spec[p].policy = "Never" /\ \E n \in Names : status.containers[n].state = "terminated"

\* statusManager.SetPodStatus, and the next work of the pod's worker
Publish(p) ==
  /\ Reporting(p, "publish")
  /\ \/ /\ MayAccept(p)
        /\ published' = [published EXCEPT ![p] = report[p].status]
        /\ ending' = IF SaysEnd(p, report[p].status) THEN ending \union {p} ELSE ending
     \/ MayRefuse(p) /\ UNCHANGED <<published, ending>>
  /\ report' = [report EXCEPT ![p] = Idle]
  /\ work' = [work EXCEPT ![p] = IF @ = "sync" THEN "terminating" ELSE "done"]
  /\ UNCHANGED <<spec, entry, exited, workers, worker, results, updates, added, earned>>

UpdatePodStatus(p) ==
  \/ Generate(p) \/ GetStartup(p) \/ GetStartupWorker(p)
  \/ GetReadiness(p) \/ GetReadinessWorker(p) \/ Publish(p)

\* The status manager forgets a pod that was deleted or made anew.
deletePodStatus(p) ==
  /\ published' = [published EXCEPT ![p] = NoStatus]
  /\ UNCHANGED <<podVars, workers, worker, results, updates, report, added, ending, earned>>

-----------------------------------------------------------------------------
(***************************************************************************)
(* The pod's entry of the pod cache (PodCallbacks has its details)         *)
(***************************************************************************)
EntryMoves ==
  UNCHANGED <<spec, published, workers, worker, results, updates, report,
              added, ending, earned>>

\* The pod's worker starts, or starts again under the same UID: SetPodReady.
insertPodCache(p) ==
  /\ work[p] = "none" \/ (work[p] = "done" /\ spec[p].again)
  /\ \E first \in {"sync", "terminating"} : work' = [work EXCEPT ![p] = first]
  /\ entry' = [entry EXCEPT ![p] = "ready"] /\ exited' = [exited EXCEPT ![p] = {}]
  /\ EntryMoves

\* A goroutine sets what it got from the cache earlier: what SetPodReady made, which
\* undoes SetPodCompleted, or an empty status if there was nothing yet.
SetContainerExit(p, n) ==
  /\ work[p] # "none"
  /\ \/ /\ entry' = [entry EXCEPT ![p] = "ready"]
        /\ exited' = [exited EXCEPT ![p] = @ \union {n}]
     \/ entry' = [entry EXCEPT ![p] = "none"] /\ UNCHANGED exited
  /\ UNCHANGED work
  /\ EntryMoves

SetPodCompleted(p) ==
  /\ entry' = [entry EXCEPT ![p] = "completed"]
  /\ UNCHANGED <<work, exited>>
  /\ EntryMoves

Next ==
  \/ \E p \in UIDs, deletion \in BOOLEAN : AddPod(p, deletion)
  \/ \E p \in UIDs : StopLivenessAndStartup(p) \/ RemovePod(p)
  \/ \E desiredPods \in SUBSET UIDs : CleanupPods(desiredPods)
  \/ \E k \in Keys, j \in Slots : run(k, j)
  \/ \E p \in UIDs : UpdatePodStatus(p) \/ deletePodStatus(p)
  \/ \E p \in UIDs : insertPodCache(p) \/ SetPodCompleted(p)
  \/ \E p \in UIDs, n \in Names : SetContainerExit(p, n)

\* The scheduler runs every goroutine that can go on, the ticker ticks, and a
\* select that finds a stop again and again takes it in the end (Go's choice is
\* random).  A probe has one worker at most (OneWorker), so that fairness is stated
\* for each probe.  Nothing is assumed of the calls, the containers and the statuses.
Spec ==
  /\ Init /\ [][Next]_vars
  /\ \A k \in Keys :
       WF_vars(\E j \in Slots : run(k, j)) /\ SF_vars(\E j \in Slots : StopSeen(k, j))

-----------------------------------------------------------------------------
(***************************************************************************)
(* Properties                                                              *)
(***************************************************************************)
Alive(k, j) == ~At(k, j, "dead")

\* The map is what stops workers: a probe never has two of them, and none that is not
\* in the map, even when its pod is added again while the one it had is leaving.
OneWorker == \A k \in Keys, j \in Slots : Alive(k, j) <=> workers[k] = j

\* A status that was begun after the pod was added claims no container with a startup
\* probe started, and none with a readiness probe ready, before some probe of that
\* type has succeeded, as long as nothing said that the pod or one of its containers
\* ends: UpdatePodStatus asks for the result and for the worker one after the other
\* while workers come and leave.  (Which container's probe it was that succeeded does
\* not matter: all share the result of the empty container ID.)
Claimed(p, status) ==
  \A n \in Names :
    /\ status.containers[n].started /\ "startup" \in spec[p].probes[n] => "startup" \in earned
    /\ status.containers[n].ready /\ "readiness" \in spec[p].probes[n] => "readiness" \in earned
ClaimsAreEarned ==
  \A p \in UIDs \ ending : published[p].added => Claimed(p, published[p])

\* A worker that was told to stop ends, unless it is held up for ever by the updates
\* channel, which nothing in this program reads.
Told(k) == workers[k] # NoWorker /\ worker[k][workers[k]].stopCh
HeldUp(k) == At(k, workers[k], "send") /\ updates[TypeOf(k)] = UpdatesCap
StopsInTheEnd ==
  \A k \in Keys : Told(k) ~> (workers[k] = NoWorker \/ HeldUp(k))
=============================================================================
