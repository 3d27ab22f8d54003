----------------------------- MODULE PodWorkers -----------------------------
(***************************************************************************)
(* pkg/core/pod_worker.go: one goroutine per pod UID, driven by UpdatePod  *)
(* calls from other goroutines through a channel of capacity one and the   *)
(* lastUndeliveredWorkUpdate overflow slot.                                *)
(*                                                                         *)
(* A section of code under podLock is one action.  managePodLoop is cut    *)
(* where it takes or releases podLock, blocks on its channel or on the pod *)
(* cache, or calls a sync function; worker[u].pc says where it stands:     *)
(*                                                                         *)
(*   receive -> insert -> allow -> await -> context -> ack -> sync -> ...  *)
(*                                                                         *)
(* The pod manager and the content of the pod cache are not state of this  *)
(* module: whether the manager still knows the pod and whether the cached  *)
(* status is terminal are parameters of the actions that ask, and of the   *)
(* cache only the freshness GetNewerThan waits for is kept.                *)
(***************************************************************************)
EXTENDS Integers, Sequences, FiniteSets, SequencesExt

CONSTANTS
  UIDs,            \* pod UIDs
  Names,           \* full names, name_namespace
  FullNameOf,      \* [UIDs -> Names]
  StaticUIDs,      \* the UIDs of static pods
  SpecGrace,       \* [UIDs -> ...] spec.terminationGracePeriodSeconds
  Requests,        \* [UIDs -> SUBSET Request], what UpdatePod is called with
  CompletedChs,    \* identities of KillPodOptions.CompletedCh channels
  SyncPodReturns,  \* what syncPod may return
  TeardownReturns, \* what syncTerminatingPod and syncTerminatedPod may return
  MaxUpdates,      \* [UIDs -> Nat] bound: UpdatePod calls for each UID
  NoUID, NoCh

Unset == -1        \* a nil *int64
Grace == Int

\* UpdatePodOptions.  A runtime request has RunningPod and no Pod; override is
\* KillPodOptions.PodTerminationGracePeriodSecondsOverride and deletion is the
\* pod's DeletionGracePeriodSeconds.
Request == [type : {"create", "update", "sync", "kill"},
            phase : {"active", "deleting", "terminal"},
            runtime : BOOLEAN, evict : BOOLEAN,
            ch : CompletedChs \union {NoCh},
            deletion : Grace, override : Grace]

ASSUME PodWorkersAssumption ==
  /\ FullNameOf \in [UIDs -> Names]
  /\ StaticUIDs \subseteq UIDs
  /\ SpecGrace \in [UIDs -> Grace]
  /\ \A u \in UIDs : Requests[u] \subseteq Request
  /\ SyncPodReturns \subseteq {"ok", "terminal", "error", "canceled"}
  /\ TeardownReturns \subseteq {"ok", "error", "canceled"}
  /\ MaxUpdates \in [UIDs -> Nat]
  /\ NoUID \notin UIDs /\ NoCh \notin CompletedChs

VARIABLES
  podsSynced,       \* SyncKnownPods was called once
  podSyncStatuses,  \* [UIDs -> PodSyncStatus], known = key present in the map
  podUpdates,       \* [UIDs -> channel], open = key present in the map
  lastUndelivered,  \* lastUndeliveredWorkUpdate, NoWork = key absent
  startedStatic,    \* startedStaticPodsByFullname, NoUID = key absent
  waitingStatic,    \* waitingToStartStaticPodsByFullname
  workQueue,        \* UIDs put in the work queue (nothing ever takes them out)
  worker,           \* [UIDs -> the local state of the UID's managePodLoop]
  cache,            \* [UIDs -> is the cache entry newer than lastSyncTime?]
  completedCh,      \* [CompletedChs -> "unused", "open", "closed", "panic"]
  version           \* [UIDs -> number of UpdatePod calls], dates each update

vars == <<podsSynced, podSyncStatuses, podUpdates, lastUndelivered,
          startedStatic, waitingStatic, workQueue, worker, cache, completedCh,
          version>>

-----------------------------------------------------------------------------
(* Data *)

\* podSyncStatus.  terminating, terminated: terminatingAt, terminatedAt are
\* set; grace 0: no grace period decided; notify: notifyPostTerminating.
PodSyncStatus == [known : BOOLEAN, working : BOOLEAN, terminating : BOOLEAN,
                  startedTerminating : BOOLEAN, terminated : BOOLEAN,
                  finished : BOOLEAN, deleted : BOOLEAN, evicted : BOOLEAN,
                  restartRequested : BOOLEAN, grace : Grace,
                  notify : SUBSET CompletedChs,
                  ctx : {"none", "live", "canceled"}]

Unknown == [known |-> FALSE, working |-> FALSE, terminating |-> FALSE,
            startedTerminating |-> FALSE, terminated |-> FALSE,
            finished |-> FALSE, deleted |-> FALSE, evicted |-> FALSE,
            restartRequested |-> FALSE, grace |-> 0, notify |-> {},
            ctx |-> "none"]

\* podWork.  version dates the pod object it carries; grace is the override
\* passed on to syncTerminatingPod, 0 for nil.
Work == [type : {"sync", "terminating", "terminated"}, runtime : BOOLEAN,
         version : Nat, grace : Grace]
NoWork == [type |-> "none", runtime |-> FALSE, version |-> 0, grace |-> 0]

\* chan podWork, open = key present in the podUpdates map
Channel == [open : BOOLEAN, buf : Seq(Work)]
NoChan == [open |-> FALSE, buf |-> <<>>]

\* The local variables of managePodLoop: where it stands, podStarted and update.
Pcs == {"none", "receive", "insert", "allow", "unstarted", "await", "context",
        "ack", "sync", "natural", "stopped", "orphaned", "cleaned", "canceled",
        "next"}
Worker == [pc : Pcs, started : BOOLEAN, update : Work \union {NoWork}]
NoWorker == [pc |-> "none", started |-> FALSE, update |-> NoWork]

TypeOK ==
  /\ podsSynced \in BOOLEAN
  /\ podSyncStatuses \in [UIDs -> PodSyncStatus]
  /\ podUpdates \in [UIDs -> Channel]
  /\ lastUndelivered \in [UIDs -> Work \union {NoWork}]
  /\ startedStatic \in [Names -> UIDs \union {NoUID}]
  /\ waitingStatic \in [Names -> Seq(UIDs)]
  /\ workQueue \subseteq UIDs
  /\ worker \in [UIDs -> Worker]
  /\ cache \in [UIDs -> {"absent", "old", "new"}]
  /\ completedCh \in [CompletedChs -> {"unused", "open", "closed", "panic"}]
  /\ version \in [UIDs -> Nat]

Init ==
  /\ podsSynced = FALSE
  /\ podSyncStatuses = [u \in UIDs |-> Unknown]
  /\ podUpdates = [u \in UIDs |-> NoChan]
  /\ lastUndelivered = [u \in UIDs |-> NoWork]
  /\ startedStatic = [n \in Names |-> NoUID]
  /\ waitingStatic = [n \in Names |-> <<>>]
  /\ workQueue = {}
  /\ worker = [u \in UIDs |-> NoWorker]
  /\ cache = [u \in UIDs |-> "absent"]
  /\ completedCh = [c \in CompletedChs |-> "unused"]
  /\ version = [u \in UIDs |-> 0]

-----------------------------------------------------------------------------
(* What other kubelet loops ask *)

IsPodKnownTerminated(u) ==
  podSyncStatuses[u].known /\ podSyncStatuses[u].terminated

CouldHaveRunningContainers(u) ==
  IF podSyncStatuses[u].known THEN ~podSyncStatuses[u].terminated
                              ELSE ~podsSynced

IsPodTerminationRequested(u) ==
  podSyncStatuses[u].known /\ podSyncStatuses[u].terminating

ShouldPodContainersBeTerminating(u) ==
  IF podSyncStatuses[u].known THEN podSyncStatuses[u].startedTerminating
                              ELSE podsSynced

ShouldPodRuntimeBeRemoved(u) ==
  IF podSyncStatuses[u].known THEN podSyncStatuses[u].terminated
                              ELSE podsSynced

ShouldPodContentBeRemoved(u) ==
  LET s == podSyncStatuses[u]
  IN  IF s.known THEN s.evicted \/ (s.deleted /\ s.terminated) ELSE podsSynced

IsPodForMirrorPodTerminatingByFullName(n) ==
  /\ startedStatic[n] # NoUID
  /\ LET s == podSyncStatuses[startedStatic[n]]
     IN  s.known /\ s.terminating /\ ~s.terminated

-----------------------------------------------------------------------------
(* UpdatePod *)

\* calculateEffectiveGracePeriod: a nil override leaves the grace period as it
\* is, and a grace period of zero counts as not decided yet.
Lowered(g, o) == IF o # Unset /\ (g = 0 \/ o < g) THEN o ELSE g

EffectiveGrace(current, deletion, override, spec) ==
  LET asked == Lowered(Lowered(current, deletion), override)
      best == IF asked = 0 /\ spec # Unset THEN spec ELSE asked
  IN  IF best < 1 THEN 1 ELSE best

\* The status UpdatePod works on.  A pod that arrives in a terminal phase with
\* nothing running in the cache starts out finished.
StatusFor(u, r, cacheTerminal) ==
  IF podSyncStatuses[u].known THEN podSyncStatuses[u]
  ELSE IF ~r.runtime /\ r.phase = "terminal" /\ cacheTerminal
       THEN [Unknown EXCEPT !.known = TRUE, !.terminating = TRUE,
                            !.startedTerminating = TRUE, !.terminated = TRUE,
                            !.finished = TRUE]
       ELSE [Unknown EXCEPT !.known = TRUE]

BecomesTerminating(s, r) ==
  ~s.terminating /\ (r.runtime \/ r.phase # "active" \/ r.type = "kill")

\* status after the switch that looks for a transition to terminating
Requested(s, r) ==
  IF ~BecomesTerminating(s, r) THEN s
  ELSE [s EXCEPT !.terminating = TRUE,
                 !.deleted = IF r.runtime \/ r.phase = "deleting" THEN TRUE
                             ELSE @,
                 !.evicted = IF ~r.runtime /\ r.phase = "active" /\ r.evict
                             THEN TRUE ELSE @]

WorkType(s) == IF s.terminated THEN "terminated"
               ELSE IF s.terminating THEN "terminating" ELSE "sync"

\* A busy worker cannot be sent to: its work waits in lastUndelivered.
MutIsWorking(s) == s.working /\ ~s.terminating
IsWorking(s) == s.working

Close(chs) == [c \in CompletedChs |->
                 IF c \notin chs THEN completedCh[c]
                 ELSE IF completedCh[c] = "closed" THEN "panic" ELSE "closed"]

\* The early returns: the caller holds a request for a pod that may not run
\* again, and only restartRequested can change.
IgnoreUpdate(u, r, s) ==
  /\ \/ /\ s.terminating /\ r.type = "create"
        /\ podSyncStatuses' =
             [podSyncStatuses EXCEPT ![u] = [s EXCEPT !.restartRequested = TRUE]]
     \/ /\ ~(s.terminating /\ r.type = "create")
        /\ s.finished \/ (s.terminated /\ r.runtime)
        /\ podSyncStatuses' = [podSyncStatuses EXCEPT ![u] = s]
  /\ completedCh' = IF r.ch = NoCh THEN completedCh
                    ELSE [completedCh EXCEPT ![r.ch] = "open"]
  /\ UNCHANGED <<podUpdates, lastUndelivered, waitingStatic, worker, cache>>

\* A worker that is not working gets the work through its channel (a new worker
\* and its channel are made if the UID has none), a busy one finds it in
\* lastUndelivered, its sync cancelled if the pod must stop sooner.
AcceptUpdate(u, r, s) ==
  LET q == Requested(s, r)
      type == WorkType(q)
      g == IF type # "terminating" THEN q.grace
           ELSE EffectiveGrace(q.grace, r.deletion, r.override, SpecGrace[u])
      sooner == \/ BecomesTerminating(s, r)
                \/ type = "terminating" /\ q.grace # 0 /\ q.grace # g
      work == [type |-> type, runtime |-> r.runtime, version |-> version'[u],
               grace |-> IF type = "terminating" THEN g ELSE 0]
      chs == IF r.ch = NoCh THEN {} ELSE {r.ch}
      isNew == ~podUpdates[u].open
  IN
  /\ ~(s.terminating /\ r.type = "create")
  /\ ~s.finished /\ ~(s.terminated /\ r.runtime)
  /\ podSyncStatuses' = [podSyncStatuses EXCEPT ![u] =
       [q EXCEPT !.working = TRUE, !.grace = g,
                 !.notify = IF type = "terminating" THEN @ \union chs ELSE @,
                 !.ctx = IF IsWorking(q) /\ sooner /\ @ = "live"
                         THEN "canceled" ELSE @]]
  /\ completedCh' = IF type # "terminating" THEN Close(chs)
                    ELSE [c \in CompletedChs |->
                            IF c \in chs THEN "open" ELSE completedCh[c]]
  /\ IF IsWorking(q)
     THEN /\ lastUndelivered' = [lastUndelivered EXCEPT ![u] = work]
          /\ UNCHANGED podUpdates
     ELSE /\ podUpdates' = [podUpdates EXCEPT ![u] =
               [open |-> TRUE, buf |-> Append(podUpdates[u].buf, work)]]
          /\ UNCHANGED lastUndelivered
  /\ IF isNew
     THEN /\ worker' = [worker EXCEPT ![u] = [NoWorker EXCEPT !.pc = "receive"]]
          /\ cache' = [cache EXCEPT ![u] = IF @ = "old" THEN "new" ELSE @]
     ELSE UNCHANGED <<worker, cache>>
  /\ waitingStatic' = IF isNew /\ u \in StaticUIDs /\ ~r.runtime
                      THEN [waitingStatic EXCEPT ![FullNameOf[u]] = Append(@, u)]
                      ELSE waitingStatic

UpdatePod(u, r, cacheTerminal) ==
  /\ version[u] < MaxUpdates[u]
  /\ r.runtime => r.type = "kill"     \* else the call returns at once
  /\ r.ch # NoCh => completedCh[r.ch] = "unused"
  /\ version' = [version EXCEPT ![u] = @ + 1]
  /\ LET s == StatusFor(u, r, cacheTerminal)
     IN  IgnoreUpdate(u, r, s) \/ AcceptUpdate(u, r, s)
  /\ UNCHANGED <<podsSynced, startedStatic, workQueue>>

-----------------------------------------------------------------------------
(* managePodLoop *)

At(u, pc) == worker[u].pc = pc
Goto(u, pc) == worker' = [worker EXCEPT ![u].pc = pc]

\* Where a worker that is past allowPodStart goes: a runtime pod needs no status.
Begin(w) == IF w.runtime THEN "context" ELSE "await"

Receive(u) ==
  /\ At(u, "receive") /\ podUpdates[u].buf # <<>>
  /\ LET w == Head(podUpdates[u].buf)
     IN  worker' = [worker EXCEPT ![u] =
           [@ EXCEPT !.update = w,
                     !.pc = IF worker[u].started THEN Begin(w) ELSE "insert"]]
  /\ podUpdates' = [podUpdates EXCEPT ![u].buf = Tail(@)]
  /\ UNCHANGED <<podsSynced, podSyncStatuses, lastUndelivered, startedStatic,
                 waitingStatic, workQueue, cache, completedCh, version>>

\* status.working = false
MutIdle(u) == UNCHANGED podSyncStatuses
Idle(u) == podSyncStatuses' = [podSyncStatuses EXCEPT ![u].working = FALSE]

\* workQueue.Enqueue
MutRequeueByName(u) == workQueue' = workQueue \union {FullNameOf[u]}
Requeue(u) == workQueue' = workQueue \union {u}

\* insertPodCache, and the OnPreAdd callback when the pod manager has the pod.
InsertPodCache(u, found) ==
  /\ At(u, "insert")
  /\ cache' = IF found THEN [cache EXCEPT ![u] = "new"] ELSE cache
  /\ Goto(u, "allow")
  /\ UNCHANGED <<podsSynced, podSyncStatuses, podUpdates, lastUndelivered,
                 startedStatic, waitingStatic, workQueue, completedCh, version>>

\* allowStaticPodStart: the first UID in line that is neither terminating nor
\* gone is next; those before it are dropped once it is reached.
StillWaiting(v) == /\ podSyncStatuses[v].known
                   /\ ~podSyncStatuses[v].terminating
                   /\ ~podSyncStatuses[v].terminated

NextInLine(n) == SelectInSeq(waitingStatic[n], StillWaiting)

MutMayStartStatic(u) ==
  LET n == FullNameOf[u]
  IN  NextInLine(n) = 0 \/ waitingStatic[n][NextInLine(n)] = u

MayStartStatic(u) ==
  LET n == FullNameOf[u]
  IN  IF startedStatic[n] # NoUID THEN startedStatic[n] = u
      ELSE NextInLine(n) = 0 \/ waitingStatic[n][NextInLine(n)] = u

StaticLineAfter(u) ==
  LET n == FullNameOf[u]
      i == NextInLine(n)
      rest == SubSeq(waitingStatic[n], IF MayStartStatic(u) THEN i + 1 ELSE i,
                     Len(waitingStatic[n]))
  IN  IF startedStatic[n] # NoUID \/ i = 0 THEN waitingStatic
      ELSE [waitingStatic EXCEPT ![n] = rest]

IsStatic(u) == u \in StaticUIDs /\ ~worker[u].update.runtime

AllowPodStart(u) ==
  /\ At(u, "allow")
  /\ LET s == podSyncStatuses[u]
         started == worker' = [worker EXCEPT ![u] =
                      [@ EXCEPT !.started = TRUE, !.pc = Begin(worker[u].update)]]
     IN
     \/ /\ ~IsStatic(u)
        /\ started
        /\ UNCHANGED <<podSyncStatuses, startedStatic, waitingStatic, workQueue>>
     \/ /\ IsStatic(u) /\ s.terminating
        /\ Goto(u, "unstarted")
        /\ UNCHANGED <<podSyncStatuses, startedStatic, waitingStatic, workQueue>>
     \/ /\ IsStatic(u) /\ ~s.terminating /\ MayStartStatic(u)
        /\ started
        /\ startedStatic' = [startedStatic EXCEPT ![FullNameOf[u]] = u]
        /\ waitingStatic' = StaticLineAfter(u)
        /\ UNCHANGED <<podSyncStatuses, workQueue>>
     \/ /\ IsStatic(u) /\ ~s.terminating /\ ~MayStartStatic(u)
        /\ Goto(u, "receive")
        /\ Idle(u)
        /\ Requeue(u)
        /\ waitingStatic' = StaticLineAfter(u)
        /\ UNCHANGED startedStatic
  /\ UNCHANGED <<podsSynced, podUpdates, lastUndelivered, cache, completedCh,
                 version>>

\* podCache.GetNewerThan(uid, lastSyncTime) returns
AwaitStatus(u) ==
  /\ At(u, "await") /\ cache[u] = "new"
  /\ Goto(u, "context")
  /\ UNCHANGED <<podsSynced, podSyncStatuses, podUpdates, lastUndelivered,
                 startedStatic, waitingStatic, workQueue, cache, completedCh,
                 version>>

\* A context that was never made, or was cancelled, is replaced.
MutInContext(s) == IF s.ctx = "none" THEN [s EXCEPT !.ctx = "live"] ELSE s
InContext(s) == [s EXCEPT !.ctx = "live"]

ContextForWorker(u) ==
  /\ At(u, "context")
  /\ podSyncStatuses' = [podSyncStatuses EXCEPT ![u] = InContext(@)]
  /\ Goto(u, IF worker[u].update.type = "terminating" THEN "ack" ELSE "sync")
  /\ UNCHANGED <<podsSynced, podUpdates, lastUndelivered, startedStatic,
                 waitingStatic, workQueue, cache, completedCh, version>>

Acknowledged(s) ==
  IF s.terminating THEN [s EXCEPT !.startedTerminating = TRUE] ELSE s

AcknowledgeTerminating(u) ==
  /\ At(u, "ack")
  /\ podSyncStatuses' = [podSyncStatuses EXCEPT ![u] = Acknowledged(@)]
  /\ Goto(u, "sync")
  /\ UNCHANGED <<podsSynced, podUpdates, lastUndelivered, startedStatic,
                 waitingStatic, workQueue, cache, completedCh, version>>

Returns(w) == IF w.type = "sync" THEN SyncPodReturns ELSE TeardownReturns

\* Where managePodLoop goes once the sync function has returned.
After(w, result) ==
  IF result = "canceled" THEN "canceled"
  ELSE IF result = "error" THEN "next"
  ELSE IF w.type = "terminated" THEN "cleaned"
  ELSE IF w.type = "terminating" THEN IF w.runtime THEN "orphaned" ELSE "stopped"
  ELSE IF result = "terminal" THEN "natural" ELSE "next"

\* The sync function of the current work returns and lastSyncTime is now: only a
\* later refresh of the cache is new.  context.Canceled needs a cancelled ctx.
SyncReturns(u, result) ==
  /\ At(u, "sync")
  /\ result \in Returns(worker[u].update)
  /\ result = "canceled" => podSyncStatuses[u].ctx = "canceled"
  /\ Goto(u, After(worker[u].update, result))
  /\ cache' = [cache EXCEPT ![u] = IF @ = "new" THEN "old" ELSE @]
  /\ UNCHANGED <<podsSynced, podSyncStatuses, podUpdates, lastUndelivered,
                 startedStatic, waitingStatic, workQueue, completedCh, version>>

\* completeSync and completeTerminating leave the next phase's work behind, in
\* the place of any that waited there.
MutNextPhase(u, type) ==
  lastUndelivered' = [lastUndelivered EXCEPT ![u] =
    IF @ # NoWork THEN @
    ELSE [type |-> type, runtime |-> FALSE,
          version |-> worker[u].update.version, grace |-> 0]]
NextPhase(u, type) ==
  lastUndelivered' = [lastUndelivered EXCEPT ![u] =
    [type |-> type, runtime |-> FALSE, version |-> worker[u].update.version,
     grace |-> 0]]

CompleteSync(u) ==
  /\ At(u, "natural")
  /\ podSyncStatuses' = [podSyncStatuses EXCEPT ![u].terminating = TRUE,
                                               ![u].startedTerminating = TRUE]
  /\ NextPhase(u, "terminating")
  /\ Goto(u, "next")
  /\ UNCHANGED <<podsSynced, podUpdates, startedStatic, waitingStatic,
                 workQueue, cache, completedCh, version>>

Stopped(s) == [s EXCEPT !.terminated = TRUE, !.notify = {}]

CompleteTerminating(u) ==
  /\ At(u, "stopped")
  /\ podSyncStatuses' = [podSyncStatuses EXCEPT ![u] = Stopped(@)]
  /\ completedCh' = Close(podSyncStatuses[u].notify)
  /\ NextPhase(u, "terminated")
  /\ Goto(u, "next")
  /\ UNCHANGED <<podsSynced, podUpdates, startedStatic, waitingStatic,
                 workQueue, cache, version>>

MutCleanUp(S) ==
  /\ lastUndelivered' =
       [u \in UIDs |-> IF u \in S THEN NoWork ELSE lastUndelivered[u]]
  /\ startedStatic' = [n \in Names |->
       IF startedStatic[n] \in S THEN NoUID ELSE startedStatic[n]]
  /\ UNCHANGED podUpdates

\* cleanupPodUpdates, and the name of a started static pod is free again.
CleanUp(S) ==
  /\ podUpdates' = [u \in UIDs |-> IF u \in S THEN NoChan ELSE podUpdates[u]]
  /\ lastUndelivered' =
       [u \in UIDs |-> IF u \in S THEN NoWork ELSE lastUndelivered[u]]
  /\ startedStatic' = [n \in Names |->
       IF startedStatic[n] \in S THEN NoUID ELSE startedStatic[n]]

\* The worker goroutine ends and the pod is finished.
Finish(u, s) ==
  /\ CleanUp({u})
  /\ podSyncStatuses' = [podSyncStatuses EXCEPT
       ![u] = [s EXCEPT !.finished = TRUE, !.working = FALSE]]
  /\ worker' = [worker EXCEPT ![u] = NoWorker]
  /\ UNCHANGED <<podsSynced, waitingStatic, workQueue, cache, completedCh,
                 version>>

CompleteTerminatingRuntimePod(u) ==
  At(u, "orphaned") /\ Finish(u, [podSyncStatuses[u] EXCEPT !.terminated = TRUE])

CompleteUnstartedTerminated(u) ==
  At(u, "unstarted") /\ Finish(u, [podSyncStatuses[u] EXCEPT !.terminated = TRUE])

CompleteTerminated(u) == At(u, "cleaned") /\ Finish(u, podSyncStatuses[u])

Delivered(u) == lastUndelivered' = [lastUndelivered EXCEPT ![u] = NoWork]

\* completeWork and completeWorkQueueNext; "canceled" is a sync that returned
\* context.Canceled.
CompleteWork(u) ==
  /\ worker[u].pc \in {"next", "canceled"}
  /\ Requeue(u)
  /\ LET w == lastUndelivered[u]
     IN  IF w # NoWork
         THEN /\ podUpdates' = [podUpdates EXCEPT ![u].buf = Append(@, w)]
              /\ Delivered(u)
              /\ UNCHANGED podSyncStatuses
         ELSE /\ Idle(u)
              /\ UNCHANGED <<podUpdates, lastUndelivered>>
  /\ Goto(u, "receive")
  /\ UNCHANGED <<podsSynced, startedStatic, waitingStatic, cache, completedCh,
                 version>>

-----------------------------------------------------------------------------
(* Housekeeping, and the writers of the pod cache *)

\* removeTerminatedWorker keeps a pod whose worker has not finished.
MutForgettable(s) == s.known /\ s.terminated
Forgettable(s) == s.known /\ s.finished

SyncKnownPods(desired) ==
  LET gone == {u \in UIDs :
                 /\ Forgettable(podSyncStatuses[u])
                 /\ u \notin desired \/ podSyncStatuses[u].restartRequested}
  IN
  /\ podsSynced' = TRUE
  /\ podSyncStatuses' =
       [u \in UIDs |-> IF u \in gone THEN Unknown ELSE podSyncStatuses[u]]
  /\ CleanUp(gone)
  /\ UNCHANGED <<waitingStatic, workQueue, worker, cache, completedCh, version>>

\* podCache.Set by somebody else: a callback that reports an exited container.
CacheRefresh(u) ==
  /\ cache[u] # "new"
  /\ cache' = [cache EXCEPT ![u] = "new"]
  /\ UNCHANGED <<podsSynced, podSyncStatuses, podUpdates, lastUndelivered,
                 startedStatic, waitingStatic, workQueue, worker, completedCh,
                 version>>

-----------------------------------------------------------------------------
WorkerStep(u) ==
  \/ Receive(u)
  \/ \E found \in BOOLEAN : InsertPodCache(u, found)
  \/ AllowPodStart(u)
  \/ AwaitStatus(u)
  \/ ContextForWorker(u)
  \/ AcknowledgeTerminating(u)
  \/ \E result \in Returns(worker[u].update) : SyncReturns(u, result)
  \/ CompleteSync(u)
  \/ CompleteTerminating(u)
  \/ CompleteTerminatingRuntimePod(u)
  \/ CompleteUnstartedTerminated(u)
  \/ CompleteTerminated(u)
  \/ CompleteWork(u)

Next ==
  \/ \E u \in UIDs :
       \/ \E r \in Requests[u], cacheTerminal \in BOOLEAN :
            UpdatePod(u, r, cacheTerminal)
       \/ WorkerStep(u)
       \/ CacheRefresh(u)
  \/ \E desired \in SUBSET UIDs : SyncKnownPods(desired)

Spec == Init /\ [][Next]_vars

\* Each worker is a goroutine of its own, and every sync function returns: the
\* Go scheduler runs it whenever it can move.  Nobody owes a cache refresh.
FairSpec == Spec /\ \A u \in UIDs : WF_vars(WorkerStep(u))

-----------------------------------------------------------------------------
(* Safety *)

\* Work is sent on a pod's channel while podLock is held (UpdatePod and
\* completeWorkQueueNext), so a send that has to wait, or one on a channel that
\* is gone, stops every pod worker: the buffer of one is enough, and a worker
\* about to take its next work still has its channel and its status.
SendsNeverBlock ==
  \A u \in UIDs :
    /\ Len(podUpdates[u].buf) <= 1
    /\ worker[u].pc \in {"next", "canceled"} =>
         /\ podUpdates[u].open /\ podUpdates[u].buf = <<>>
         /\ podSyncStatuses[u].known

\* status.working tells UpdatePod whether to send or to leave the work in
\* lastUndelivered: it is FALSE exactly for a UID that has no worker or whose
\* worker waits at an empty channel.
WorkingIsBusy ==
  \A u \in UIDs :
    podSyncStatuses[u].working <=>
      ~At(u, "none") /\ ~(At(u, "receive") /\ podUpdates[u].buf = <<>>)

\* One goroutine and one channel per UID: a UID has a worker exactly while it has
\* an open channel, and neither once it is finished or forgotten.
OneWorkerPerChannel ==
  \A u \in UIDs :
    /\ podUpdates[u].open <=> ~At(u, "none")
    /\ ~At(u, "none") =>
         podSyncStatuses[u].known /\ ~podSyncStatuses[u].finished

\* What other kubelet loops are told of a pod fits what its worker is doing: while
\* syncPod runs nobody takes the pod's containers for stopping ones, while a worker
\* sets up or stops containers nobody takes them for gone, nor removes what they use
\* unless the pod was evicted, and a worker that stops a pod was asked to.
QueriesAreTrue ==
  \A u \in UIDs : At(u, "sync") =>
    LET type == worker[u].update.type IN
    /\ type = "sync" => ~ShouldPodContainersBeTerminating(u) /\ ~IsPodKnownTerminated(u)
    /\ type # "terminated" =>
         /\ CouldHaveRunningContainers(u) /\ ~ShouldPodRuntimeBeRemoved(u)
         /\ ShouldPodContentBeRemoved(u) => podSyncStatuses[u].evicted
    /\ type # "sync" => IsPodTerminationRequested(u)

\* Two static pods with one full name are never set up at the same time: a pod
\* past allowPodStart that is not finished holds the name, and while it is stopped
\* its mirror pod's name is known to be terminating.
StaticPodHoldsName ==
  \A u \in StaticUIDs : worker[u].started =>
    /\ startedStatic[FullNameOf[u]] = u
    /\ At(u, "sync") /\ worker[u].update.type = "terminating" =>
         IsPodForMirrorPodTerminatingByFullName(FullNameOf[u])

\* A sync that ended because its context was cancelled has its successor queued
\* already: completeWork always finds the work that caused the cancellation.
CanceledHasSuccessor ==
  \A u \in UIDs : At(u, "canceled") => lastUndelivered[u] # NoWork

\* A channel waiting for a pod to stop is open and waits for that pod only, so
\* that no channel is closed twice (which would panic).
NotifyListOpen ==
  /\ \A c \in CompletedChs : completedCh[c] # "panic"
  /\ \A u \in UIDs : \A c \in podSyncStatuses[u].notify :
       /\ completedCh[c] = "open"
       /\ \A v \in UIDs \ {u} : c \notin podSyncStatuses[v].notify

\* The channels are used soundly by all who share them under podLock: no send
\* waits, the flag that decides about sending is exact, each channel has one
\* worker, and none is closed twice.
ChannelsAreSound ==
  SendsNeverBlock /\ WorkingIsBusy /\ OneWorkerPerChannel /\ NotifyListOpen

-----------------------------------------------------------------------------
(* Action properties *)

\* "The grace period can only decrease" while the UID is known.
GraceOnlyDecreases ==
  [][\A u \in UIDs :
       podSyncStatuses[u].grace # 0 /\ podSyncStatuses'[u].known =>
         podSyncStatuses'[u].grace <= podSyncStatuses[u].grace]_vars

\* UpdatePod: changes to a pod are "processed in FIFO order": the worker never
\* turns to an older pod object than the one it processed last.  A static pod that
\* allowPodStart put off is left out: what it has in lastUndelivered then comes
\* after the next update.
UpdatesInOrder ==
  [][\A u \in UIDs \ StaticUIDs :
       At(u, "receive") /\ worker'[u].pc # "receive" =>
         worker'[u].update.version >= worker[u].update.version]_vars

-----------------------------------------------------------------------------
(* Refinement and liveness *)

PhaseOf(u) ==
  LET s == podSyncStatuses[u]
  IN  IF ~s.known THEN "unknown" ELSE IF s.finished THEN "finished"
      ELSE IF s.terminated THEN "stopped"
      ELSE IF s.startedTerminating THEN "stopping"
      ELSE IF s.terminating THEN "stopRequested" ELSE "syncing"

Lifecycle == INSTANCE PodLifecycle WITH
  Pods <- UIDs,
  phase <- [u \in UIDs |-> PhaseOf(u)],
  starting <- {u \in UIDs : At(u, "sync") /\ worker[u].update.type = "sync"}

\* The pod workers keep the contract of PodLifecycle.
ImplementsLifecycle == Lifecycle!Spec

\* A pod asked to stop is finished in the end, if its cache entry is refreshed
\* again and again (GetNewerThan waits for that after every sync).
TerminationCompletes ==
  \A u \in UIDs :
    []<>(cache[u] = "new") =>
      (podSyncStatuses[u].terminating ~> podSyncStatuses[u].finished)
=============================================================================
