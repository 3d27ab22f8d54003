---------------------------- MODULE PodLifecycle ----------------------------
(***************************************************************************)
(* What the pod workers promise the rest of the kubelet about one pod UID  *)
(* (the comment on type podWorkers and the PodWorkers interface in         *)
(* pkg/core/pod_worker.go), with no goroutine, channel or lock in sight.   *)
(*                                                                         *)
(*   unknown       no history is kept for the UID                          *)
(*   syncing       the pod is set up, syncPod may run                      *)
(*   stopRequested termination was requested, syncPod may still be running *)
(*   stopping      the request was observed: no container starts any more  *)
(*   stopped       all containers are down                                 *)
(*   finished      cleaned up; the UID stays so until it is forgotten      *)
(***************************************************************************)
CONSTANT Pods

VARIABLES phase,      \* phase[p]: where pod p is in its life
          starting    \* the pods whose syncPod is in flight

vars == <<phase, starting>>

Phases == {"unknown", "syncing", "stopRequested", "stopping", "stopped",
           "finished"}

TypeOK == /\ phase \in [Pods -> Phases]
          /\ starting \subseteq Pods

Init == /\ phase = [p \in Pods |-> "unknown"]
        /\ starting = {}

Move(p, from, to) == /\ phase[p] \in from
                     /\ phase' = [phase EXCEPT ![p] = to]
                     /\ UNCHANGED starting

\* A UID is seen for the first time: to be run, to be torn down, or a pod that
\* had already completed when it was first seen.
Admit(p) == \E to \in {"syncing", "stopRequested", "finished"} :
               Move(p, {"unknown"}, to)

RequestStop(p) == Move(p, {"syncing"}, "stopRequested")

BeginSync(p) == /\ phase[p] \in {"syncing", "stopRequested"}
                /\ starting' = starting \union {p}
                /\ UNCHANGED phase

EndSync(p) == /\ p \in starting
              /\ starting' = starting \ {p}
              /\ UNCHANGED phase

\* Teardown begins once no syncPod of the pod is in flight.
BeginStop(p) == /\ p \notin starting
                /\ Move(p, {"syncing", "stopRequested"}, "stopping")

Stopped(p) == Move(p, {"stopping"}, "stopped")

\* stopRequested: the pod never started; stopping: an orphan with no config,
\* which has no cleanup of its own.
Finish(p) == /\ p \notin starting
             /\ Move(p, {"stopRequested", "stopping", "stopped"}, "finished")

\* Housekeeping forgets any number of finished pods at once.
Forget(S) == /\ \A p \in S : phase[p] = "finished"
             /\ phase' = [p \in Pods |-> IF p \in S THEN "unknown" ELSE phase[p]]
             /\ UNCHANGED starting

Next == \/ \E p \in Pods : \/ Admit(p) \/ RequestStop(p)
                           \/ BeginSync(p) \/ EndSync(p)
                           \/ BeginStop(p) \/ Stopped(p) \/ Finish(p)
        \/ \E S \in SUBSET Pods : Forget(S)

Spec == Init /\ [][Next]_vars
=============================================================================
