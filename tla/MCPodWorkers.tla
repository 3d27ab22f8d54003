---------------------------- MODULE MCPodWorkers ----------------------------
(***************************************************************************)
(* Values for the constants of PodWorkers: a set of requests per kind of   *)
(* caller, and the UIDs and names of each run.                             *)
(***************************************************************************)
EXTENDS PodWorkers

CONSTANTS u1, u2, c1, c2

AllReturn == {"ok", "terminal", "error", "canceled"}
TeardownAllReturn == {"ok", "error", "canceled"}
NoError == {"ok", "terminal", "canceled"}
TeardownNoError == {"ok", "canceled"}
\* syncPod, syncTerminatingPod and syncTerminatedPod as core/kubelet.go has them
Terminal == {"terminal"}
Ok == {"ok"}

Plain == [type |-> "update", phase |-> "active", runtime |-> FALSE,
          evict |-> FALSE, ch |-> NoCh, deletion |-> Unset, override |-> Unset]

Create == [Plain EXCEPT !.type = "create"]
Deleting(g) == [Plain EXCEPT !.phase = "deleting", !.deletion = g]
Completed(type) == [Plain EXCEPT !.type = type, !.phase = "terminal"]
Kill == [Plain EXCEPT !.type = "kill"]
KillNow(c, g) == [Kill EXCEPT !.ch = c, !.override = g]
Evict(c, g) == [KillNow(c, g) EXCEPT !.evict = TRUE]
RuntimeKill == [Kill EXCEPT !.runtime = TRUE]

\* What the configuration loop of the kubelet sends.
FromConfig == {Create, Plain, Deleting(2), Completed("create"),
               Completed("update"), Kill}
\* What eviction, preemption and housekeeping may add.
FromKubelet == {KillNow(c1, 1), Evict(c2, 2), RuntimeKill}

OneMax == [u \in {u1} |-> 4]
OneMaxThree == [u \in {u1} |-> 3]
OneUID == {u1}
OneName == [u \in {u1} |-> "a_ns"]
OneGrace == [u \in {u1} |-> 3]
OneRequests == [u \in {u1} |-> FromConfig \union FromKubelet]
OneZeroGrace == [u \in {u1} |-> {Create, Deleting(2), Deleting(0)}]

TwoMax == [u \in {u1, u2} |-> 2]
TwoUIDs == {u1, u2}
TwoSameName == [u \in {u1, u2} |-> "a_ns"]
TwoGrace == [u \in {u1, u2} |-> 3]
TwoStaticRequests == [u \in {u1, u2} |-> {Create, Kill}]

TheName == {"a_ns"}
=============================================================================
