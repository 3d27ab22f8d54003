------------------------------ MODULE PodConfig ------------------------------
(***************************************************************************)
(* How pods get from their sources to the kubelet:                         *)
(*   pkg/util/config/config.go         a listener per source (Mux)         *)
(*   pkg/kubelet/config/config.go      podStorage.Merge makes one source's *)
(*                                     new state into notices              *)
(*   pkg/kubelet/config/apiserver.go   a source that sends its whole state *)
(*   pkg/core/kubelet.go               Run, which hands the notices to the *)
(*                                     pod manager and the pod workers     *)
(*                                                                         *)
(* A Merge holds updateLock until its last notice is in the updates        *)
(* channel; Run takes one notice and handles its pods one by one.          *)
(* Only the incremental mode is modelled, the one NewMyKubelet asks for.   *)
(***************************************************************************)
EXTENDS PodManager, Sequences, FiniteSetsExt

CONSTANTS
  Sources, NoSource,
  SourceOf,      \* [UIDs -> the source a pod belongs to]
  Operations,    \* the operations sources send: {"SET"} for the API server
  ChannelSize,   \* capacity of the updates channel
  MaxChanges     \* bound: changes made to the pods of the sources

ASSUME PodConfigAssumption ==
  /\ NoSource \notin Sources
  /\ Operations \subseteq {"SET", "ADD", "UPDATE", "DELETE", "REMOVE"}
  /\ ChannelSize \in Nat \ {0} /\ MaxChanges \in Nat

Pods == [UIDs -> Pod \union {NoPod}]
NoPods == [u \in UIDs |-> NoPod]
Those(pods, S) == [u \in UIDs |-> IF u \in S THEN pods[u] ELSE NoPod]
Present(pods) == {u \in UIDs : pods[u] # NoPod}

\* kubetypes.PodUpdate
PodUpdate == [op : {"ADD", "UPDATE", "DELETE", "REMOVE", "RECONCILE", "SET"},
              pods : Pods, source : Sources \union {NoSource}]
NoUpdate == [op |-> "SET", pods |-> NoPods, source |-> NoSource]

VARIABLES
  world,         \* the pods as their sources have them
  removed,       \* the UIDs that were removed there: a UID is not used again
  changes,
  storage,       \* podStorage.pods
  sourcesSeen,
  merging,       \* the source whose Merge holds updateLock
  outbox,        \* the notices it has still to send
  updates,       \* the updates channel
  handling,      \* the notice Run is handling, less the pods it is done with
  syncs,         \* [UIDs -> what the pod workers were last told: SyncPodType]
  ready          \* history: the sources Run has had a notice of

worldVars == <<world, removed, changes>>
storageVars == <<storage, sourcesSeen, merging, outbox>>
runVars == <<handling, syncs, ready>>
vars == <<worldVars, storageVars, updates, runVars, managerVars>>

TypeOK ==
  /\ ManagerTypeOK
  /\ world \in Pods /\ removed \subseteq UIDs /\ changes \in 0..MaxChanges
  /\ storage \in Pods
  /\ sourcesSeen \subseteq Sources /\ ready \subseteq Sources
  /\ merging \in Sources \union {NoSource}
  /\ outbox \in Seq(PodUpdate) /\ updates \in Seq(PodUpdate)
  /\ Len(updates) <= ChannelSize
  /\ handling \in PodUpdate
  /\ syncs \in [UIDs -> {"none", "create", "update", "kill"}]

Init ==
  /\ ManagerInit
  /\ world = NoPods /\ removed = {} /\ changes = 0
  /\ storage = NoPods /\ sourcesSeen = {}
  /\ merging = NoSource /\ outbox = <<>> /\ updates = <<>>
  /\ handling = NoUpdate
  /\ syncs = [u \in UIDs |-> "none"]
  /\ ready = {}

-----------------------------------------------------------------------------
(* podStorage *)

\* filterInvalidPods keeps the first pod of each name; the order of a list is not
\* modelled, so that any of them may be the first.
UniqueNames(U) ==
  {S \in SUBSET U :
     /\ \A u, v \in S : NameOf[u] = NameOf[v] => u = v
     /\ \A u \in U : \E v \in S : NameOf[v] = NameOf[u]}

\* podsDifferSemantically
Differ(existing, ref) ==
  existing.spec # ref.spec \/ existing.deleting # ref.deleting

\* What one pod of a list becomes (updatePodsFunc, checkAndUpdatePod)
Operation(existing, ref) ==
  IF existing = NoPod THEN "ADD"
  ELSE IF Differ(existing, ref) THEN IF ref.deleting THEN "DELETE" ELSE "UPDATE"
  ELSE IF existing.status # ref.status THEN "RECONCILE" ELSE "none"

\* The order in which Merge delivers
MutDelivery == <<"ADD", "UPDATE", "DELETE", "REMOVE", "RECONCILE">>
Delivery == <<"REMOVE", "ADD", "UPDATE", "DELETE", "RECONCILE">>

\* podStorage.pods of one source
MutStored(source) == Present(storage)
Stored(source) == {u \in Present(storage) : SourceOf[u] = source}

\* Merge asks whether the source was seen before it marks it.
MutFirstSet(source, op) == FALSE
FirstSet(source, op) == op = "SET" /\ source \notin sourcesSeen

\* The pods of a notice of a Merge in which those of S come in as pods and those of
\* R go.
Concerned(op, pods, S, R) ==
  IF op = "REMOVE" THEN R ELSE {u \in S : Operation(storage[u], pods[u]) = op}

Notice(op, source, pods, S, R) ==
  [op |-> op, source |-> source,
   pods |-> Those(IF op = "REMOVE" THEN storage ELSE pods, Concerned(op, pods, S, R))]

\* A notice without pods is sent only to tell that the source was seen.
Notices(source, pods, S, R, firstSet) ==
  LET silent == \A op \in {"ADD", "UPDATE", "DELETE"} : Concerned(op, pods, S, R) = {}
      IfSent(op) == IF \/ Concerned(op, pods, S, R) # {}
                       \/ op = "ADD" /\ firstSet /\ silent
                    THEN <<Notice(op, source, pods, S, R)>> ELSE <<>>
  IN  IfSent(Delivery[1]) \o IfSent(Delivery[2]) \o IfSent(Delivery[3])
        \o IfSent(Delivery[4]) \o IfSent(Delivery[5])

\* merge, and Merge up to its first send.  A SET also removes what it leaves out.
Merge(source, op, U, pods) ==
  \E S \in UniqueNames(U) :
    LET R == CASE op = "SET" -> Stored(source) \ S
               [] op = "REMOVE" -> Stored(source) \intersect U
               [] OTHER -> {}
        stored == IF op = "REMOVE" THEN {} ELSE S
        notices == Notices(source, pods, stored, R, FirstSet(source, op))
    IN
    /\ merging = NoSource
    /\ storage' = [u \in UIDs |-> IF u \in R THEN NoPod
                                  ELSE IF u \in stored THEN pods[u]
                                  ELSE storage[u]]
    /\ sourcesSeen' = IF op = "SET" THEN sourcesSeen \union {source} ELSE sourcesSeen
    /\ outbox' = notices
    /\ merging' = IF notices = <<>> THEN NoSource ELSE source
    /\ UNCHANGED <<worldVars, updates, runVars, managerVars>>

\* The listener of a source takes what the source sends, its whole state...
SetPodsOf(source) ==
  LET U == {u \in Present(world) : SourceOf[u] = source}
  IN  "SET" \in Operations /\ Merge(source, "SET", U, world)

\* The other pods that have the name of u in its source
Namesakes(pods, u) ==
  {v \in Present(pods) \ {u} : NameOf[v] = NameOf[u] /\ SourceOf[v] = SourceOf[u]}

\* ... or a part of it, or some of the pods it does not have any more; it removes
\* the pod that had a name before it sends another of that name.
ChangePodsOf(source, op, U) ==
  /\ op \in Operations \ {"SET"} /\ U # {}
  /\ \A u \in U : SourceOf[u] = source
  /\ IF op = "REMOVE" THEN U \subseteq removed
     ELSE U \subseteq Present(world) /\ \A u \in U : Namesakes(storage, u) = {}
  /\ Merge(source, op, U, world)

\* A send of Merge; the last one gives the lock back.
Deliver ==
  /\ outbox # <<>> /\ Len(updates) < ChannelSize
  /\ updates' = Append(updates, Head(outbox))
  /\ outbox' = Tail(outbox)
  /\ merging' = IF Tail(outbox) = <<>> THEN NoSource ELSE merging
  /\ UNCHANGED <<worldVars, storage, sourcesSeen, runVars, managerVars>>

-----------------------------------------------------------------------------
(* Run *)

\* The loop takes the next notice.  It has no case for RECONCILE and SET.
MutHandled == {"ADD", "UPDATE", "REMOVE"}
Handled == {"ADD", "UPDATE", "DELETE", "REMOVE"}

TakeUpdate ==
  /\ Present(handling.pods) = {} /\ updates # <<>>
  /\ handling' = IF Head(updates).op \in Handled THEN Head(updates) ELSE NoUpdate
  /\ ready' = ready \union ({Head(updates).source} \ {NoSource})
  /\ updates' = Tail(updates)
  /\ UNCHANGED <<worldVars, storageVars, syncs, managerVars>>

MutSyncPodType == [ADD |-> "create", UPDATE |-> "update", DELETE |-> "update",
                   REMOVE |-> "sync"]
SyncPodType == [ADD |-> "create", UPDATE |-> "update", DELETE |-> "update",
                REMOVE |-> "kill"]

\* HandlePodAdditions, HandlePodUpdates, HandlePodDelete and HandlePodRemoves, for
\* one pod: the manager first, then dispatchWork, then the callback.
HandlePod(u) ==
  /\ u \in Present(handling.pods)
  /\ IF handling.op = "REMOVE" THEN DeletePod(u)
     ELSE UpdatePod(u, handling.pods[u])
  /\ syncs' = [syncs EXCEPT ![u] = SyncPodType[handling.op]]
  /\ handling' = [handling EXCEPT !.pods[u] = NoPod]
  /\ UNCHANGED <<worldVars, storageVars, updates, ready>>

\* Sync, with the lock free, sends the pods of every source.
MergedState == storage

Sync ==
  /\ merging = NoSource /\ Len(updates) < ChannelSize
  /\ updates' = Append(updates, [op |-> "SET", pods |-> MergedState, source |-> NoSource])
  /\ UNCHANGED <<worldVars, storageVars, runVars, managerVars>>

\* What Run would ask with the sources it has heard of, before it takes a pod it
\* does not know for one that is gone
SeenAllSources(seen) == Sources \subseteq seen /\ Sources \subseteq sourcesSeen

-----------------------------------------------------------------------------
(* The sources *)

Change(u, pod) ==
  /\ changes < MaxChanges /\ pod # world[u]
  /\ world' = [world EXCEPT ![u] = pod]
  /\ changes' = changes + 1
  /\ removed' = IF pod = NoPod THEN removed \union {u} ELSE removed
  /\ UNCHANGED <<storageVars, updates, runVars, managerVars>>

Create(u, pod) ==
  /\ world[u] = NoPod /\ u \notin removed
  /\ Change(u, pod)

\* A deletion that was requested is not taken back.
Edit(u, pod) ==
  /\ world[u] # NoPod
  /\ world[u].deleting => pod.deleting
  /\ Change(u, pod)

Discard(u) == world[u] # NoPod /\ Change(u, NoPod)

-----------------------------------------------------------------------------
Merging(source) ==
  \/ SetPodsOf(source)
  \/ \E op \in Operations, U \in SUBSET UIDs : ChangePodsOf(source, op, U)

Running == TakeUpdate \/ \E u \in UIDs : HandlePod(u)

Next ==
  \/ \E u \in UIDs : Discard(u) \/ \E pod \in Pod : Create(u, pod) \/ Edit(u, pod)
  \/ \E source \in Sources : Merging(source)
  \/ Deliver \/ Running \/ Sync

Spec == Init /\ [][Next]_vars

\* A source sends its state again after it changed, and its listener takes it;
\* Merge goes on when the channel has room; Run goes on, which takes callbacks that
\* return.
FairSpec ==
  /\ Spec
  /\ WF_vars(Deliver) /\ WF_vars(Running)
  /\ \A source \in Sources : SF_vars(SetPodsOf(source))

-----------------------------------------------------------------------------
(* Safety *)

\* What Run makes of a pod when it handles a notice that tells of it
Tells(notice, u) ==
  notice.op \in {"REMOVE", "ADD", "UPDATE", "DELETE"} /\ notice.pods[u] # NoPod
Told(notice, u) == IF notice.op = "REMOVE" THEN NoPod ELSE notice.pods[u]

\* The pod u once the first k notices are handled
PodAfter(pods, notices, k, u) ==
  LET telling == {i \in 1..k : Tells(notices[i], u)}
  IN  IF telling = {} THEN pods[u] ELSE Told(notices[Max(telling)], u)

SamePod(p, q) ==
  p = q \/ (p # NoPod /\ q # NoPod /\ ~Differ(p, q))

\* The notice Run is handling and those on their way to it, in the order they are in
Queue == <<handling>> \o updates \o outbox

\* The kubelet is behind podStorage and nothing else: its pods, once the notices on
\* their way are handled, are the pods of podStorage, up to their status, and it
\* knows, or is about to hear, which sources were seen, even of one whose first SET
\* had no pod.
CatchesUp ==
  /\ \A u \in UIDs : SamePod(PodAfter(podByUID, Queue, Len(Queue), u), storage[u])
  /\ \A source \in sourcesSeen \ ready :
       \E i \in 2..Len(Queue) : Queue[i].source = source

-----------------------------------------------------------------------------
(* Action properties *)

\* The pod workers are told of a pod in the order create, update, kill, and never
\* again of a pod they were told to kill, unless it had lost its name to another pod
\* of its source and has it back.
SyncsInOrder ==
  [][\A u \in UIDs : syncs'[u] # syncs[u] =>
       \/ <<syncs[u], syncs'[u]>> \in {<<"none", "create">>, <<"create", "update">>,
                                      <<"create", "kill">>, <<"update", "kill">>}
       \/ /\ <<syncs[u], syncs'[u]>> = <<"kill", "create">>
          /\ \E v \in UIDs \ {u} : NameOf[v] = NameOf[u] /\ SourceOf[v] = SourceOf[u]]_vars

-----------------------------------------------------------------------------
(* Liveness *)

\* Once the sources change no more, the kubelet has their pods, but for those that
\* share a name in their source, and knows that it has seen every source, also one
\* that has no pod to send.
KubeletConverges ==
  <>[](/\ SeenAllSources(ready)
       /\ \A u \in UIDs :
            Namesakes(world, u) = {} => SamePod(podByUID[u], world[u]))
=============================================================================
