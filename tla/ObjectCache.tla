---------------------------- MODULE ObjectCache ----------------------------
(***************************************************************************)
(* The watch based cache of the secrets (or configmaps) pods refer to:     *)
(* cacheBasedManager of cache_based_manager.go on top of objectCache of    *)
(* watch_based_manager.go.                                                 *)
(*                                                                         *)
(* RegisterPod and UnregisterPod keep a reference count per object; the    *)
(* first reference makes an objectCacheItem and starts a goroutine that    *)
(* runs its reflector, the last one stops it.  Get finds the item, restarts*)
(* a reflector that was stopped for idleness, waits until its store has    *)
(* synced and reads it; the item of an immutable object is stopped for     *)
(* good.  A step is what one of them does between two lock sections.       *)
(*                                                                         *)
(* The reflector and the WaitGroup are client-go's and Go's: a run of the  *)
(* reflector lists the object, replaces the store's content and then       *)
(* applies watch events, until it notices that its stop channel is closed. *)
(* A WaitGroup that is used again before the last Wait has returned        *)
(* panics, and the kubelet with it: nothing happens after that.            *)
(***************************************************************************)
EXTENDS PodReferences, FiniteSets, Sequences

CONSTANTS
  Resource,    \* "secret" or "configmap": whose manager this is
  Pods,        \* pod UIDs
  Specs,       \* pod specs RegisterPod is called with, records of PodReferences
  NoSpec,
  Objects,     \* the names the specs refer to, in one namespace
  Life,        \* the versions the API server holds one after another: each
               \* "mutable", "immutable" or "absent"
  Getters,     \* goroutines that call Get
  MaxItems,    \* bound: objectCacheItems alive at once
  MaxRuns      \* bound: startReflector goroutines of one item alive at once

Referenced(spec) == IF spec = NoSpec THEN {} ELSE getReferencedObjects(Resource, spec)

ASSUME ObjectCacheAssumption ==
  /\ NoSpec \notin Specs
  /\ \A spec \in Specs : Referenced(spec) \subseteq Objects
  /\ IsFiniteSet(Pods) /\ IsFiniteSet(Objects)
  /\ Life \in Seq({"mutable", "immutable", "absent"}) /\ Life # <<>>
  /\ MaxItems \in Nat \ {0} /\ MaxRuns \in Nat \ {0}

Items == 1..MaxItems
NoItem == 0
Slots == 1..MaxRuns
Versions == 1..Len(Life)
NoVersion == 0

VARIABLES
  registered,  \* registeredPods
  call,        \* what the holder of cacheBasedManager.lock has left to do:
               \* objects to AddReference, objects to DeleteReference
  index,       \* objectCache.items
  item,        \* every objectCacheItem, also when no longer in the map
  run,         \* the goroutines in startReflector, by item
  getter,      \* the local variables of the Gets
  server       \* the version of each object that lists and watches see

vars == <<registered, call, index, item, run, getter, server>>

\* idle: maxIdleTime has passed since lastAccessTime.  data: the version the
\* store holds.  since: the version the server held when the item was made.
Item == [object : Objects, refCount : Nat, initialized : BOOLEAN,
         data : Versions \union {NoVersion}, stopped : BOOLEAN,
         immutable : BOOLEAN, idle : BOOLEAN, since : Versions]

\* asleep, released: in waitGroup.Wait(), before and after the counter fell to zero.
\* closed: the stop channel the run was given is closed; seen: the last version
\* the run has listed or been sent.
RunPcs == {"none", "wait", "asleep", "released", "panicked", "add", "start",
           "list", "listed", "watch"}
Run == [pc : RunPcs, closed : BOOLEAN, seen : Versions \union {NoVersion}]
NoRun == [pc |-> "none", closed |-> FALSE, seen |-> NoVersion]

GetPcs == {"idle", "access", "restart", "poll", "read", "freeze", "stop"}
Getter == [pc : GetPcs, item : Items \union {NoItem}]
NoGet == [pc |-> "idle", item |-> NoItem]

TypeOK ==
  /\ registered \in [Pods -> Specs \union {NoSpec}]
  /\ call \in [add : SUBSET Objects, drop : SUBSET Objects]
  /\ index \in [Objects -> Items \union {NoItem}]
  /\ item \in [Items -> Item]
  /\ run \in [Items -> [Slots -> Run]]
  /\ getter \in [Getters -> Getter]
  /\ server \in [Objects -> Versions]

\* An item nobody can reach any more: it may be made anew.
Free(i) ==
  /\ \A o \in Objects : index[o] # i
  /\ \A g \in Getters : getter[g].item # i
  /\ \A k \in Slots : run[i][k].pc = "none"

\* lastAccessTime is the zero time: the item counts as idle.
Blank(o) == [object |-> o, refCount |-> 0, initialized |-> FALSE,
             data |-> NoVersion, stopped |-> FALSE, immutable |-> FALSE,
             idle |-> TRUE, since |-> server[o]]

Init ==
  /\ registered = [p \in Pods |-> NoSpec]
  /\ call = [add |-> {}, drop |-> {}]
  /\ index = [o \in Objects |-> NoItem]
  /\ server = [o \in Objects |-> 1]
  /\ item \in [Items -> {Blank(o) : o \in Objects}]
  /\ run = [i \in Items |-> [k \in Slots |-> NoRun]]
  /\ getter = [g \in Getters |-> NoGet]

-----------------------------------------------------------------------------
(***************************************************************************)
(* objectCacheItem                                                         *)
(***************************************************************************)

\* An item after stopThreadUnsafe, and its runs: it is their channel that is closed.
MutstopThreadUnsafe(x) == [x EXCEPT !.stopped = TRUE, !.initialized = FALSE]
stopThreadUnsafe(x) ==
  [x EXCEPT !.stopped = TRUE,
            !.initialized = IF x.stopped \/ x.immutable THEN @ ELSE FALSE]
MutClosedRuns(i) == run[i]
ClosedRuns(i) ==
  [k \in Slots |-> IF run[i][k].pc \in {"list", "listed", "watch"}
                   THEN [run[i][k] EXCEPT !.closed = TRUE] ELSE run[i][k]]

\* go i.startReflector() in the first free slot
startReflector(i, x) ==
  \E k \in Slots :
    /\ run[i][k].pc = "none" /\ \A j \in Slots : j < k => run[i][j].pc # "none"
    /\ item' = [item EXCEPT ![i] = x]
    /\ run' = [run EXCEPT ![i][k] = [NoRun EXCEPT !.pc = "wait"]]

\* The counter of the WaitGroup
Running(i) == {k \in Slots : run[i][k].pc \in {"start", "list", "listed", "watch"}}

\* waitGroup.Wait() returns at once when the counter is zero, and sleeps otherwise.
Wait(i, k) ==
  /\ run[i][k].pc = "wait"
  /\ run' = [run EXCEPT ![i][k].pc = IF Running(i) = {} THEN "add" ELSE "asleep"]
  /\ UNCHANGED <<registered, call, index, item, getter, server>>

\* A sleeper that Done has let go panics when the counter was raised again before it
\* woke: "WaitGroup is reused before previous Wait has returned".  (An Add between
\* the two halves of Done panics a step sooner.)
Wake(i, k) ==
  /\ run[i][k].pc = "released"
  /\ run' = [run EXCEPT ![i][k].pc = IF Running(i) = {} THEN "add" ELSE "panicked"]
  /\ UNCHANGED <<registered, call, index, item, getter, server>>

\* waitGroup.Done(): the last one out lets all those go that sleep.
Done(i, k) ==
  run' = [run EXCEPT ![i] =
            [j \in Slots |->
               IF j = k THEN NoRun
               ELSE IF run[i][j].pc = "asleep" /\ Running(i) = {k}
                    THEN [run[i][j] EXCEPT !.pc = "released"] ELSE run[i][j]]]

Alive == \A i \in Items, k \in Slots : run[i][k].pc # "panicked"

Add(i, k) ==
  /\ run[i][k].pc = "add"
  /\ run' = [run EXCEPT ![i][k].pc = "start"]
  /\ UNCHANGED <<registered, call, index, item, getter, server>>

\* i.reflector.Run(i.stopCh) reads the channel without the lock; on a closed
\* channel Run returns at once, and waitGroup.Done follows.
Start(i, k) ==
  /\ run[i][k].pc = "start"
  /\ IF item[i].stopped THEN Done(i, k)
     ELSE run' = [run EXCEPT ![i][k].pc = "list"]
  /\ UNCHANGED <<registered, call, index, item, getter, server>>

List(i, k) ==
  /\ run[i][k].pc = "list"
  /\ run' = [run EXCEPT ![i][k].pc = "listed",
                        ![i][k].seen = server[item[i].object]]
  /\ UNCHANGED <<registered, call, index, item, getter, server>>

\* cacheStore.Replace: also when the channel was closed after the list
Replace(i, k) ==
  /\ run[i][k].pc = "listed"
  /\ item' = [item EXCEPT ![i].data = run[i][k].seen, ![i].initialized = TRUE]
  /\ run' = [run EXCEPT ![i][k].pc = "watch"]
  /\ UNCHANGED <<registered, call, index, getter, server>>

WatchEvent(i, k) ==
  /\ run[i][k].pc = "watch" /\ run[i][k].seen < server[item[i].object]
  /\ item' = [item EXCEPT ![i].data = run[i][k].seen + 1]
  /\ run' = [run EXCEPT ![i][k].seen = @ + 1]
  /\ UNCHANGED <<registered, call, index, getter, server>>

\* The watch ends for another reason than the channel
Relist(i, k) ==
  /\ run[i][k].pc = "watch" /\ ~run[i][k].closed
  /\ run' = [run EXCEPT ![i][k].pc = "list"]
  /\ UNCHANGED <<registered, call, index, item, getter, server>>

\* The closed channel is noticed: Run returns and waitGroup.Done follows
Return(i, k) ==
  /\ run[i][k].pc \in {"list", "watch"} /\ run[i][k].closed
  /\ Done(i, k)
  /\ UNCHANGED <<registered, call, index, item, getter, server>>

\* What a started run of the reflector does of itself
Reflect(i, k) ==
  \/ Wait(i, k) \/ Wake(i, k) \/ Add(i, k) \/ Start(i, k) \/ List(i, k)
  \/ Replace(i, k) \/ WatchEvent(i, k) \/ Return(i, k)

-----------------------------------------------------------------------------
(***************************************************************************)
(* cacheBasedManager and the reference counts                              *)
(***************************************************************************)
Unlocked == call.add = {} /\ call.drop = {}

\* registeredPods is only read under the lock, so that it may be written at once.
RegisterPod(p, spec) ==
  /\ Unlocked
  /\ Cardinality({o \in Referenced(spec) : index[o] = NoItem})
       <= Cardinality({i \in Items : Free(i)})
  /\ call' = [add |-> Referenced(spec), drop |-> Referenced(registered[p])]
  /\ registered' = [registered EXCEPT ![p] = spec]
  /\ UNCHANGED <<index, item, run, getter, server>>

UnregisterPod(p) ==
  /\ Unlocked
  /\ call' = [call EXCEPT !.drop = Referenced(registered[p])]
  /\ registered' = [registered EXCEPT ![p] = NoSpec]
  /\ UNCHANGED <<index, item, run, getter, server>>

\* With the first reference not counted
MutAddReference(o) ==
  /\ o \in call.add
  /\ call' = [call EXCEPT !.add = @ \ {o}]
  /\ \/ /\ index[o] # NoItem
        /\ item' = [item EXCEPT ![index[o]].refCount = @ + 1]
        /\ UNCHANGED <<index, run>>
     \/ /\ index[o] = NoItem
        /\ \E i \in Items :
             /\ Free(i)
             /\ index' = [index EXCEPT ![o] = i]
             /\ startReflector(i, Blank(o))
  /\ UNCHANGED <<registered, getter, server>>

\* objectCache.AddReference, with newReflector for the first reference
AddReference(o) ==
  /\ o \in call.add
  /\ call' = [call EXCEPT !.add = @ \ {o}]
  /\ \/ /\ index[o] # NoItem
        /\ item' = [item EXCEPT ![index[o]].refCount = @ + 1]
        /\ UNCHANGED <<index, run>>
     \/ /\ index[o] = NoItem
        /\ \E i \in Items :
             /\ Free(i) /\ \A j \in Items : j < i => ~Free(j)
             /\ index' = [index EXCEPT ![o] = i]
             /\ startReflector(i, [Blank(o) EXCEPT !.refCount = 1])
  /\ UNCHANGED <<registered, getter, server>>

\* With what the last pod object referred to dropped before what the new one refers
\* to is added
MutDropsFirst(o) ==
  /\ o \in call.drop
  /\ call' = [call EXCEPT !.drop = @ \ {o}]
  /\ index[o] # NoItem /\ item[index[o]].refCount = 1
  /\ index' = [index EXCEPT ![o] = NoItem]
  /\ UNCHANGED <<registered, item, run, getter, server>>
\* RegisterPod drops only after it has added
DeleteReference(o) ==
  /\ call.add = {} /\ o \in call.drop
  /\ call' = [call EXCEPT !.drop = @ \ {o}]
  /\ LET i == index[o]
         last == item[i].refCount = 1
     IN  \/ /\ i = NoItem
            /\ UNCHANGED <<index, item, run>>
         \/ /\ i # NoItem /\ ~last
            /\ item' = [item EXCEPT ![i].refCount = @ - 1]
            /\ UNCHANGED <<index, run>>
         \/ /\ i # NoItem /\ last
            /\ index' = [index EXCEPT ![o] = NoItem]
            /\ item' = [item EXCEPT ![i] = [stopThreadUnsafe(@) EXCEPT !.refCount = 0]]
            /\ run' = [run EXCEPT ![i] = ClosedRuns(i)]
  /\ UNCHANGED <<registered, getter, server>>

-----------------------------------------------------------------------------
(***************************************************************************)
(* objectCache.Get                                                         *)
(***************************************************************************)
Goto(g, pc) == getter' = [getter EXCEPT ![g].pc = pc]
Ends(g) == getter' = [getter EXCEPT ![g] = NoGet]

\* The item is looked up under the read lock and used after it.  Of an object
\* that is not registered there is nothing to get.
Lookup(g, o) ==
  /\ getter[g].pc = "idle" /\ index[o] # NoItem
  /\ getter' = [getter EXCEPT ![g] = [pc |-> "access", item |-> index[o]]]
  /\ UNCHANGED <<registered, call, index, item, run, server>>

setLastAccessTime(g) ==
  /\ getter[g].pc = "access"
  /\ item' = [item EXCEPT ![getter[g].item].idle = FALSE]
  /\ Goto(g, "restart")
  /\ UNCHANGED <<registered, call, index, run, server>>

restartReflectorIfNeeded(g) ==
  LET i == getter[g].item IN
  /\ getter[g].pc = "restart"
  /\ IF item[i].immutable \/ ~item[i].stopped THEN UNCHANGED <<item, run>>
     ELSE startReflector(i, [item[i] EXCEPT !.stopped = FALSE])
  /\ Goto(g, "poll")
  /\ UNCHANGED <<registered, call, index, server>>

MutPoll(g) ==
  /\ getter[g].pc = "poll"
  /\ Goto(g, "read")
  /\ UNCHANGED <<registered, call, index, item, run, server>>
\* PollImmediate: the store has synced, or a second has passed
Poll(g) ==
  /\ getter[g].pc = "poll" /\ item[getter[g].item].initialized
  /\ Goto(g, "read")
  /\ UNCHANGED <<registered, call, index, item, run, server>>

TimeOut(g) ==
  /\ getter[g].pc = "poll" /\ ~item[getter[g].item].initialized
  /\ Ends(g)
  /\ UNCHANGED <<registered, call, index, item, run, server>>

\* GetByKey: the Get answers with the object, or with NotFound
Content(i) == IF item[i].data = NoVersion THEN "absent" ELSE Life[item[i].data]
Read(g) ==
  /\ getter[g].pc = "read"
  /\ IF Content(getter[g].item) = "immutable" THEN Goto(g, "freeze") ELSE Ends(g)
  /\ UNCHANGED <<registered, call, index, item, run, server>>

setImmutable(g) ==
  /\ getter[g].pc = "freeze"
  /\ item' = [item EXCEPT ![getter[g].item].immutable = TRUE]
  /\ Goto(g, "stop")
  /\ UNCHANGED <<registered, call, index, run, server>>

stop(g) ==
  LET i == getter[g].item IN
  /\ getter[g].pc = "stop"
  /\ item' = [item EXCEPT ![i] = stopThreadUnsafe(@)]
  /\ run' = [run EXCEPT ![i] = ClosedRuns(i)]
  /\ Ends(g)
  /\ UNCHANGED <<registered, call, index, server>>

Get(g) ==
  \/ \E o \in Objects : Lookup(g, o)
  \/ setLastAccessTime(g) \/ restartReflectorIfNeeded(g)
  \/ Poll(g) \/ TimeOut(g) \/ Read(g) \/ setImmutable(g) \/ stop(g)

-----------------------------------------------------------------------------
(***************************************************************************)
(* The idle sweep, the clock and the API server                            *)
(***************************************************************************)
stopIfIdle(o) ==
  LET i == index[o] IN
  /\ i # NoItem /\ ~item[i].stopped /\ item[i].initialized /\ item[i].idle
  /\ item' = [item EXCEPT ![i] = stopThreadUnsafe(@)]
  /\ run' = [run EXCEPT ![i] = ClosedRuns(i)]
  /\ UNCHANGED <<registered, call, index, getter, server>>

\* The sweep holds the lock of objectCache, of which Gets need only the look-up: they
\* go on between two items.
startRecycleIdleWatch == \E o \in Objects : stopIfIdle(o)

\* maxIdleTime, five resyncs and a minute at least, passes without an access to the
\* item of o.  A Get that has recorded its access polls for a second at most: it is
\* over by then.
IdleTime(o) ==
  LET i == index[o] IN
  /\ i # NoItem /\ ~item[i].idle
  /\ \A g \in Getters : getter[g].item = i => getter[g].pc = "access"
  /\ item' = [item EXCEPT ![i].idle = TRUE]
  /\ UNCHANGED <<registered, call, index, run, getter, server>>

Write(o) ==
  /\ server[o] < Len(Life)
  /\ server' = [server EXCEPT ![o] = @ + 1]
  /\ UNCHANGED <<registered, call, index, item, run, getter>>

Manage ==
  \/ \E p \in Pods, spec \in Specs : RegisterPod(p, spec)
  \/ \E p \in Pods : UnregisterPod(p)
  \/ \E o \in Objects : AddReference(o) \/ DeleteReference(o)

Next ==
  /\ Alive
  /\ \/ Manage
     \/ \E g \in Getters : Get(g)
     \/ startRecycleIdleWatch
     \/ \E o \in Objects : IdleTime(o) \/ Write(o)
     \/ \E i \in Items, k \in Slots : Reflect(i, k) \/ Relist(i, k)

\* The scheduler runs every goroutine that can go on, and a reflector notices in
\* the end that its channel is closed (Start, List, Replace and Return are never
\* put off for ever).  Nothing is assumed of registrations, Gets and the clock.
Spec ==
  /\ Init /\ [][Next]_vars
  /\ \A i \in Items, k \in Slots : WF_vars(Alive /\ Reflect(i, k))

-----------------------------------------------------------------------------
(***************************************************************************)
(* Properties                                                              *)
(***************************************************************************)
Wanting(o) == {p \in Pods : o \in Referenced(registered[p])}
References(o) == IF index[o] = NoItem THEN 0 ELSE item[index[o]].refCount

\* An item's reference count is the number of registered pods that name the
\* object, up to what the call under way has still to add and to drop: an object
\* has an item exactly as long as a pod needs it, whatever registrations, updates
\* and removals came before.
ReferencesCounted ==
  \A o \in Objects :
    References(o) + (IF o \in call.add THEN 1 ELSE 0)
      = Cardinality(Wanting(o)) + (IF o \in call.drop THEN 1 ELSE 0)

\* While some registered pod names the object its item stays: an update of the
\* pod that keeps the reference does not throw the watched copy away.
UpdateKeepsItem ==
  [][\A o \in Objects :
       index[o] # NoItem /\ Wanting(o)' # {} => index'[o] = index[o]]_vars

\* A Get that is about to answer does so from what the server held when the
\* object was first registered, or from something later: never from a store no
\* list has filled, whichever reflectors were stopped, restarted or late.
ReadsAreFresh ==
  \A g \in Getters :
    getter[g].pc = "read" => item[getter[g].item].data >= item[getter[g].item].since

\* An immutable object that is no longer watched is still served: its store
\* stays synced, and no Get waits for a reflector nobody will restart.
ImmutableServed ==
  \A o \in Objects :
    LET i == index[o] IN
    i # NoItem /\ item[i].immutable /\ item[i].stopped => item[i].initialized

\* An item that is not stopped is watched: a goroutine runs its reflector with
\* the channel that is open, or is on its way to.
Watched(i) ==
  \E k \in Slots :
    \/ run[i][k].pc \in {"wait", "asleep", "released", "add", "start"}
    \/ run[i][k].pc \in {"list", "listed", "watch"} /\ ~run[i][k].closed
WatchedUnlessStopped ==
  Alive => \A i \in Items :
    (\E o \in Objects : index[o] = i) /\ ~item[i].stopped => Watched(i)

\* Items are stopped safely, whoever stops, restarts or freezes them at once.
StopsAreSafe == ImmutableServed /\ WatchedUnlessStopped

\* A restarted reflector waits for its predecessor, but not for ever: unless the
\* process dies of its WaitGroup, an item that is not stopped is synced in the end.
SyncsInTheEnd ==
  \A o \in Objects :
    (index[o] # NoItem /\ ~item[index[o]].stopped)
      ~> (~Alive \/ index[o] = NoItem
            \/ item[index[o]].stopped \/ item[index[o]].initialized)
=============================================================================
